--------------------------------- MODULE Sem ---------------------------------
(***************************************************************************)
(* System V semaphores, os/sem.c: semget, semop, semctl and semexit.       *)
(*                                                                         *)
(* The kernel is not preempted: a process runs until it sleeps, in sleep() *)
(* or on a page fault inside copyin.  `cpu' is the process between two     *)
(* such points; while it is set nobody else takes a step.  semop's loops   *)
(* take one step per operation, so that a sleeper can be seen at every     *)
(* point of them; the other calls are one step.                            *)
(*                                                                         *)
(* Left out: sempid, the times and the permissions (read by nothing here), *)
(* and the commands that only report.  The entries of an undo structure    *)
(* are a function, their order in un_ent only serves the searches.         *)
(***************************************************************************)
EXTENDS Ipc, ResourceMap, Sequences, FiniteSets

CONSTANTS Proc,        \* process table slots; sem_undo[] is indexed by them
          Undo,        \* the undo structures semu[]
          NULL,
          SEMMNI, SEMMNS, SEMMSL, SEMVMX, SEMAEM, SEMUME,   \* seminfo
          Key,         \* keys passed to semget
          Ops,         \* operation lists passed to semop: sequences of
                       \*   [num, op, undo, nowait]
          FaultAt,     \* the copyins whose page may be missing, a subset
                       \*   of {"semop", "setall", "ipcset"}; with "torn"
                       \*   a list may lie on two pages
          SlotReuse,   \* whether a process table slot is used again
          MaxSeq       \* bound: IPC_RMIDs of one header

ASSUME SemAssumption ==
    /\ SEMMNI \in Nat \ {0} /\ SEMMNS \in Nat \ {0} /\ SEMMSL \in Nat \ {0}
    /\ SEMVMX \in Nat /\ SEMAEM \in Nat /\ SEMUME \in Nat /\ IntMax \in Nat
    /\ MaxSeq \in Nat /\ SEMMNI - 1 <= IntMax
    /\ FaultAt \subseteq {"semop", "torn", "setall", "ipcset"}
    /\ SlotReuse \in BOOLEAN
    /\ NULL \notin Proc /\ NULL \notin Undo /\ IsFiniteSet(Undo) /\ Undo # {}
    /\ IPC_PRIVATE \in Key

SetIndex == 0 .. SEMMNI - 1
SemIndex == 1 .. SEMMNS           \* sem[], numbered as semmap numbers it
Chan     == {"semncnt", "semzcnt"} \X SemIndex
Semid    == 0 .. IntMax
Semnum   == 0 .. SEMMSL - 1
UndoKey  == Semid \X Semnum       \* (un_id, un_num) of an undo entry

Op == [num : Semnum, op : Int, undo : BOOLEAN, nowait : BOOLEAN]

ASSUME OpsAssumption == Ops \subseteq Seq(Op)

VARIABLES
    sema,     \* sema[x]: [alloc, key, seq, base, nsems]
    semval,   \* semval[s]
    cnt,      \* cnt[<<"semncnt", s>>] and cnt[<<"semzcnt", s>>], how many
              \*   await a larger value of s and a zero one; the address of
              \*   a count is the channel its waiters sleep on
    semmap,   \* resource map of sem[]
    un,       \* [aoe, np, semunp, semfup, sem_undo]: aoe[u][k] is the un_aoe
              \*   of u's entry for k, 0 when it has none; np[u] its un_np;
              \*   the list of structures with entries, the free list, and
              \*   the structure of each process table slot
    semtmp,   \* the one kernel copy of an operation list
    live,     \* live[p]: a process occupies the slot
    pc,       \* "user", "fault", "check", "undo", "asleep" or "woken"
    call,     \* call[p]: arguments of p's system call
    chan,     \* chan[p]: the count whose operation made p wait
    sig,      \* sig[p]: a signal is pending
    cpu,      \* the process in the kernel, or NULL
    i,        \* its index in semtmp: next operation to do, or to undo
    after,    \* what follows its semundo: "sleep" or "fail"
    snap,     \* values and undo entries when it passed `check' (history)
    plain     \* plain[s]: what semval would be without SEM_UNDO (history)

sets == <<sema, semmap>>
sems == <<semval, cnt, plain>>
proc == <<call, chan, sig, live>>
run  == <<cpu, i, after, snap>>
vars == <<sets, sems, un, semtmp, proc, pc, run>>

NoVals  == [n \in Semnum |-> 0]
NoCall  == [cmd |-> "none", id |-> 0, ops |-> <<>>, done |-> 0, vals |-> NoVals]
NoEntry == [k \in UndoKey |-> 0]

(***************************************************************************)
(* seminit                                                                 *)
(***************************************************************************)
Init ==
    /\ sema = [x \in SetIndex |-> [alloc |-> FALSE, key |-> IPC_PRIVATE, seq |-> 0,
                                   base |-> 1, nsems |-> 0]]
    /\ semval = [s \in SemIndex |-> 0]
    /\ cnt = [c \in Chan |-> 0]
    /\ semmap = Rmfree(MapInit, SEMMNS, 1)
    /\ \E semu \in [1 .. Cardinality(Undo) -> Undo] :
          /\ \A u \in Undo : \E n \in DOMAIN semu : semu[n] = u
          /\ un = [aoe |-> [u \in Undo |-> NoEntry],
                   np |-> [u \in Undo |->
                             LET n == CHOOSE n \in DOMAIN semu : semu[n] = u
                             IN  IF n = Cardinality(Undo) THEN NULL ELSE semu[n + 1]],
                   semunp |-> NULL, semfup |-> semu[1],
                   sem_undo |-> [p \in Proc |-> NULL]]
    /\ semtmp = <<>>
    /\ live = [p \in Proc |-> TRUE]
    /\ pc = [p \in Proc |-> "user"]
    /\ call = [p \in Proc |-> NoCall]
    /\ chan = [p \in Proc |-> NULL]
    /\ sig = [p \in Proc |-> FALSE]
    /\ cpu = NULL /\ i = 1 /\ after = "fail" /\ snap = NULL
    /\ plain = [s \in SemIndex |-> 0]

Semconv(id) == Valid(sema, id, SEMMNI)
Header(id)  == sema[Index(id, SEMMNI)]

(* sp->sem_base + num, for whatever set is in the slot of the id now.     *)
SemOf(id, num) == Header(id).base + num

SetOf(x) == sema[x].base .. sema[x].base + sema[x].nsems - 1

(* p is in user mode and the processor is free. *)
Enters(p) == live[p] /\ pc[p] = "user" /\ cpu = NULL

(***************************************************************************)
(* Undo entries                                                            *)
(***************************************************************************)
Count(w, u) == Cardinality({k \in UndoKey : w.aoe[u][k] # 0})   \* un_cnt

UndoFor(w, p) ==        \* the structure semaoe works on, allocated if needed
    IF w.sem_undo[p] # NULL THEN w
    ELSE [w EXCEPT !.sem_undo[p] = w.semfup, !.semfup = w.np[w.semfup],
                   !.np[w.semfup] = NULL]

(* The structures on the list that starts at head: what every set with     *)
(* the head and, with a structure, the next one, has.                      *)
OnList(w, head) ==
    {u \in Undo : \A S \in SUBSET Undo :
        (head \in S \cup {NULL} /\ \A v \in S : w.np[v] \in S \cup {NULL}) => u \in S}

(* Mutant: only the head of the list is ever taken off. *)
UnlinkHead(w, u) == IF w.semunp = u THEN [w EXCEPT !.semunp = w.np[u]] ELSE w

(* u is taken off the list semunp, if it is there; its own un_np stays. *)
Unlink(w, u) ==
    LET prev == {v \in OnList(w, w.semunp) : w.np[v] = u}
    IN  IF w.semunp = u THEN [w EXCEPT !.semunp = w.np[u]]
        ELSE IF prev = {} THEN w
        ELSE [w EXCEPT !.np[CHOOSE v \in prev : TRUE] = w.np[u]]

Link(w, u) == [w EXCEPT !.np[u] = w.semunp, !.semunp = u]

TooLarge(val) == val > SEMAEM \/ val < -SEMAEM

(* semaoe: whether it fails, and the undo structures it leaves.  It may    *)
(* have taken a structure from the free list before it fails.              *)
Semaoe(w, p, val, id, num) ==
    LET w1  == UndoFor(w, p)
        u   == w1.sem_undo[p]
        old == w1.aoe[u][<<id, num>>]
        w2  == [w1 EXCEPT !.aoe[u][<<id, num>>] = old - val]
    IN  IF val = 0 THEN [fails |-> FALSE, un |-> w]
        ELSE IF TooLarge(val) \/ (w.sem_undo[p] = NULL /\ w.semfup = NULL)
        THEN [fails |-> TRUE, un |-> w]
        ELSE IF (old = 0 /\ Count(w1, u) >= SEMUME) \/ TooLarge(old - val)
        THEN [fails |-> TRUE, un |-> w1]
        ELSE [fails |-> FALSE,
              un |-> IF Count(w1, u) = 0 THEN Link(w2, u)
                     ELSE IF Count(w2, u) = 0 THEN [Unlink(w2, u) EXCEPT !.np[u] = NULL]
                     ELSE w2]

InUnrm(num, low, high) == num >= low /\ num <= high

(* semunrm: the entries for a range of semaphores go from every structure  *)
(* on the undo list, and the structures left empty go from the list.       *)
Semunrm(w, id, low, high) ==
    LET list  == OnList(w, w.semunp)
        w1    == [w EXCEPT !.aoe = [u \in Undo |-> [k \in UndoKey |->
                    IF u \in list /\ k[1] = id /\ InUnrm(k[2], low, high)
                    THEN 0 ELSE w.aoe[u][k]]]]
        empty == {u \in list : Count(w1, u) = 0}
        rest(u) == OnList(w, u) \ empty      \* the next that stays, from u on
        to(u)   == IF rest(u) = {} THEN NULL
                   ELSE CHOOSE v \in rest(u) : rest(u) \subseteq OnList(w, v)
    IN  [w1 EXCEPT !.semunp = to(@),
                   !.np = [u \in Undo |-> IF u \in empty THEN NULL
                                          ELSE IF u \in list THEN to(@[u]) ELSE @[u]]]

(* The undo entries of p, all 0 when it has no structure. *)
Aoe(w, p) == IF w.sem_undo[p] = NULL THEN NoEntry ELSE w.aoe[w.sem_undo[p]]

(***************************************************************************)
(* Sleeping and waking.  Every wakeup is "if (count) { count = 0;          *)
(* wakeup(&count); }"; its sleepers run, and see their signals, later.     *)
(***************************************************************************)
Wakeup(C, pcs) ==
    LET hit == {c \in C : cnt[c] # 0}
    IN  /\ cnt' = [c \in Chan |-> IF c \in hit THEN 0 ELSE cnt[c]]
        /\ pc' = [q \in Proc |-> IF pcs[q] = "asleep" /\ chan[q] \in hit
                                 THEN "woken" ELSE pcs[q]]

NCnt(S) == {"semncnt"} \X S
ZCnt(S) == {"semzcnt"} \X S

(* The processor is given up: the loop's registers are dead. *)
Leave == cpu' = NULL /\ i' = 1 /\ after' = "fail" /\ snap' = NULL

(* What the end of p's system call leaves.  Its signals are taken on the   *)
(* way to user mode.                                                       *)
Finish(p) ==
    /\ call' = [call EXCEPT ![p] = NoCall]
    /\ chan' = [chan EXCEPT ![p] = NULL]
    /\ sig' = [sig EXCEPT ![p] = FALSE]
    /\ Leave
    /\ UNCHANGED live

User(p) == [pc EXCEPT ![p] = "user"]

(***************************************************************************)
(* semget.  A call that fails changes nothing: a header taken by ipcget is *)
(* given back when nsems is bad or semmap has no room.                     *)
(***************************************************************************)
Semget(p, key, creat, nsems) ==
    /\ Enters(p)
    /\ nsems \in 1 .. SEMMSL
    /\ CanAlloc(semmap, nsems)
    /\ \E x \in SetIndex :
        /\ Creates(sema, key, creat, SEMMNI, x)
        /\ sema' = [sema EXCEPT ![x].alloc = TRUE, ![x].key = key,
                               ![x].base = RmallocAddr(semmap, nsems),
                               ![x].nsems = nsems]
    /\ semmap' = Rmalloc(semmap, nsems)
    /\ UNCHANGED <<sems, un, semtmp, proc, pc, run>>

(***************************************************************************)
(* semctl                                                                  *)
(***************************************************************************)
(* Mutant: those who wait for zero are forgotten. *)
RmidWakesN(S) == NCnt(S)

RmidWakes(S) == NCnt(S) \cup ZCnt(S)

(* Mutant: the last semaphore of the set is not given back. *)
RmidMapShort(x) == Rmfree(semmap, sema[x].nsems - 1, sema[x].base)

RmidMap(x) == Rmfree(semmap, sema[x].nsems, sema[x].base)

Rmid(p, id) ==
    LET x == Index(id, SEMMNI)
        S == SetOf(x)
    IN  /\ Enters(p)
        /\ Semconv(id)
        /\ sema[x].seq < MaxSeq
        /\ un' = Semunrm(un, id, 0, sema[x].nsems)
        /\ semval' = [s \in SemIndex |-> IF s \in S THEN 0 ELSE semval[s]]
        /\ plain' = [s \in SemIndex |-> IF s \in S THEN 0 ELSE plain[s]]
        /\ Wakeup(RmidWakes(S), pc)
        /\ semmap' = RmidMap(x)
        /\ sema' = [sema EXCEPT ![x].alloc = FALSE,
                               ![x].seq = NextSeq(id, @, SEMMNI)]
        /\ UNCHANGED <<semtmp, proc, run>>

(* SETVAL and SETALL: a value # 0 wakes those who wait for more, 0 those   *)
(* who wait for zero.  pcs is the program counters before the wakeups.     *)
SetVals(val, pcs) ==
    LET S == DOMAIN val
    IN  /\ semval' = [s \in SemIndex |-> IF s \in S THEN val[s] ELSE semval[s]]
        /\ plain' = [s \in SemIndex |-> IF s \in S THEN val[s] ELSE plain[s]]
        /\ Wakeup(NCnt({s \in S : val[s] # 0}) \cup ZCnt({s \in S : val[s] = 0}), pcs)

Setval(p, id, num, val) ==
    /\ Enters(p)
    /\ Semconv(id)
    /\ num < Header(id).nsems
    /\ val <= SEMVMX
    /\ SetVals([s \in {SemOf(id, num)} |-> val], pc)
    /\ un' = Semunrm(un, id, num, num)
    /\ UNCHANGED <<sets, semtmp, proc, run>>

(* semtmp is a union: values or a semid_ds in it overlay the operations,   *)
(* which then read as something else.                                      *)
ZeroOp  == [num |-> 0, op |-> 0, undo |-> FALSE, nowait |-> FALSE]
Overlay == [j \in 1 .. SEMMSL |-> ZeroOp]

(* SETALL once its values are in semtmp.  The set is not looked up again.  *)
SetAllVals(id, vals, pcs) ==
    LET x == Index(id, SEMMNI)
    IN  /\ semtmp' = Overlay
        /\ SetVals([s \in SetOf(x) |-> vals[s - sema[x].base]], pcs)
        /\ un' = Semunrm(un, id, 0, sema[x].nsems)

(* A copyin that misses its page: p sleeps until the page is there, not    *)
(* interruptible, with `done' operations already copied.                   *)
Faults(p, cmd, id, ops, done, vals) ==
    /\ cmd \in FaultAt /\ (done > 0 => "torn" \in FaultAt)
    /\ pc' = [pc EXCEPT ![p] = "fault"]
    /\ call' = [call EXCEPT ![p] = [cmd |-> cmd, id |-> id, ops |-> ops,
                                    done |-> done, vals |-> vals]]
    /\ semtmp' = [j \in 1 .. (IF done > Len(semtmp) THEN done ELSE Len(semtmp)) |->
                     IF j <= done THEN ops[j] ELSE semtmp[j]]
    /\ Leave

Setall(p, id, vals) ==
    /\ Enters(p)
    /\ Semconv(id)
    /\ \/ /\ SetAllVals(id, vals, pc)
          /\ UNCHANGED <<sets, proc, run>>
       \/ /\ Faults(p, "setall", id, <<>>, 0, vals)
          /\ UNCHANGED <<sets, sems, un, chan, sig, live>>

SetallFaulted(p) ==
    /\ cpu = NULL /\ pc[p] = "fault" /\ call[p].cmd = "setall"
    /\ SetAllVals(call[p].id, call[p].vals, User(p))
    /\ Finish(p)
    /\ UNCHANGED sets

(* IPC_SET stores mode | IPC_ALLOC in the header it looked up before the   *)
(* copyin.  Without a fault all it changes here is semtmp, and that is all *)
(* IPC_O_STAT changes too.                                                 *)
Ipcset(p, id) ==
    /\ Enters(p)
    /\ Semconv(id)
    /\ \/ /\ semtmp' = Overlay
          /\ UNCHANGED <<proc, pc, run>>
       \/ /\ Faults(p, "ipcset", id, <<>>, 0, NoVals)
          /\ UNCHANGED <<chan, sig, live>>
    /\ UNCHANGED <<sets, sems, un>>

IpcsetFaulted(p) ==
    /\ cpu = NULL /\ pc[p] = "fault" /\ call[p].cmd = "ipcset"
    /\ sema' = [sema EXCEPT ![Index(call[p].id, SEMMNI)].alloc = TRUE]
    /\ semtmp' = Overlay
    /\ pc' = User(p)
    /\ Finish(p)
    /\ UNCHANGED <<semmap, sems, un>>

(***************************************************************************)
(* semop                                                                   *)
(***************************************************************************)
(* Past the label check: the operations are in semtmp. *)
Check(p, tmp) ==
    /\ semtmp' = tmp
    /\ pc' = [pc EXCEPT ![p] = "check"]
    /\ cpu' = p /\ i' = 1 /\ after' = "fail"
    /\ snap' = [val |-> semval, aoe |-> Aoe(un, p)]

(* The copyin of a list when its first `done' operations were copied       *)
(* before a fault: they are whatever semtmp holds now.                     *)
Copied(ops, done) ==
    [j \in 1 .. Len(ops) |-> IF j <= done THEN semtmp[j] ELSE ops[j]]

(* The test of the semaphore numbers, made on the first copy only. *)
InRange(id, tmp) == \A j \in 1 .. Len(tmp) : tmp[j].num < Header(id).nsems

Semop(p, id, ops) ==
    /\ Enters(p)
    /\ Semconv(id)
    /\ \/ /\ InRange(id, ops)
          /\ Check(p, ops)
          /\ call' = [call EXCEPT ![p] = [cmd |-> "semop", id |-> id, ops |-> ops,
                                        done |-> 0, vals |-> NoVals]]
       \/ /\ ~InRange(id, ops)
          /\ semtmp' = ops
          /\ UNCHANGED <<pc, call, run>>
       \/ \E done \in 0 .. Len(ops) - 1 : Faults(p, "semop", id, ops, done, NoVals)
    /\ UNCHANGED <<sets, sems, un, chan, sig, live>>

(* The first copyin after a fault: sp is still the header found before.   *)
SemopFaulted(p) ==
    LET tmp == Copied(call[p].ops, call[p].done)
    IN  /\ cpu = NULL /\ pc[p] = "fault" /\ call[p].cmd = "semop" /\ chan[p] = NULL
        /\ \/ /\ InRange(call[p].id, tmp)
              /\ Check(p, tmp)
              /\ UNCHANGED proc
           \/ /\ ~InRange(call[p].id, tmp)
              /\ semtmp' = tmp
              /\ pc' = User(p)
              /\ Finish(p)
        /\ UNCHANGED <<sets, sems, un>>

Running(p, where) == cpu = p /\ pc[p] = where

Doing == semtmp[i]
At(p) == SemOf(call[p].id, Doing.num)

(* The undo structures after semaoe, when the operation asks for it. *)
Adjust(p, val) ==
    IF Doing.undo THEN Semaoe(un, p, val, call[p].id, Doing.num)
                  ELSE [fails |-> FALSE, un |-> un]

InBounds(p) ==
    \/ Doing.op > 0 /\ semval[At(p)] + Doing.op <= SEMVMX
    \/ Doing.op < 0 /\ semval[At(p)] >= -Doing.op

(* Mutant: only the step from zero wakes those who wait for more. *)
OpWakesFromZero(s, op, v) ==
    (IF op > 0 /\ v = op THEN NCnt({s}) ELSE {}) \cup (IF v = 0 THEN ZCnt({s}) ELSE {})

(* Mutant: a P that leaves zero wakes nobody. *)
OpWakesV(s, op, v) == IF op > 0 THEN NCnt({s}) ELSE {}

(* Who is woken when the operation op leaves s with the value v. *)
OpWakes(s, op, v) ==
    (IF op > 0 THEN NCnt({s}) ELSE {}) \cup (IF v = 0 THEN ZCnt({s}) ELSE {})

(* An operation that changes the value.  A P may leave zero. *)
OpApplies(p) ==
    LET s == At(p)
        v == semval[s] + Doing.op
        r == Adjust(p, Doing.op)
    IN  /\ Running(p, "check") /\ i <= Len(semtmp)
        /\ InBounds(p) /\ ~r.fails
        /\ semval' = [semval EXCEPT ![s] = v]
        /\ plain' = [plain EXCEPT ![s] = IF Doing.undo THEN @ ELSE @ + Doing.op]
        /\ un' = r.un
        /\ Wakeup(OpWakes(s, Doing.op, v), pc)
        /\ i' = i + 1
        /\ UNCHANGED <<sets, semtmp, proc, cpu, after, snap>>

(* A wait for zero that need not wait. *)
OpPasses(p) ==
    /\ Running(p, "check") /\ i <= Len(semtmp)
    /\ Doing.op = 0 /\ semval[At(p)] = 0
    /\ i' = i + 1
    /\ UNCHANGED <<sets, sems, un, semtmp, proc, pc, cpu, after, snap>>

(* ERANGE on a V beyond SEMVMX, or an error of semaoe. *)
OpFails(p) ==
    LET r == Adjust(p, Doing.op)
    IN  /\ Running(p, "check") /\ i <= Len(semtmp)
        /\ \/ Doing.op > 0 /\ ~InBounds(p) /\ un' = un
           \/ InBounds(p) /\ r.fails /\ un' = r.un
        /\ pc' = [pc EXCEPT ![p] = "undo"]
        /\ i' = i - 1 /\ after' = "fail"
        /\ UNCHANGED <<sets, sems, semtmp, proc, cpu, snap>>

(* An operation that has to wait: EAGAIN, or sleep once the rest is undone. *)
OpWaits(p) ==
    LET s == At(p)
    IN  /\ Running(p, "check") /\ i <= Len(semtmp)
        /\ \/ Doing.op = 0 /\ semval[s] # 0
           \/ Doing.op < 0 /\ ~InBounds(p)
        /\ pc' = [pc EXCEPT ![p] = "undo"]
        /\ chan' = [chan EXCEPT ![p] = <<IF Doing.op < 0 THEN "semncnt" ELSE "semzcnt", s>>]
        /\ i' = i - 1
        /\ after' = IF Doing.nowait THEN "fail" ELSE "sleep"
        /\ UNCHANGED <<sets, sems, un, semtmp, call, sig, live, cpu, snap>>

(* Mutant: the value is taken back, the undo entry is not. *)
ReverseKept(p) == un

(* The undo structures once semundo has reversed an operation. *)
Reverse(p) == IF Doing.op = 0 THEN un ELSE Adjust(p, -Doing.op).un

(* semundo, one operation. *)
SemundoStep(p) ==
    LET s == At(p)
    IN  /\ Running(p, "undo") /\ i > 0
        /\ semval' = [semval EXCEPT ![s] = @ - Doing.op]
        /\ plain' = [plain EXCEPT ![s] = IF Doing.undo THEN @ ELSE @ - Doing.op]
        /\ un' = Reverse(p)
        /\ i' = i - 1
        /\ UNCHANGED <<sets, cnt, semtmp, proc, pc, cpu, after, snap>>

(* Mutant: the last count is given back and nobody else looks again. *)
InterruptedQuiet(p, c, n) ==
    /\ cnt' = [cnt EXCEPT ![c] = IF n <= 1 THEN 0 ELSE n - 1]
    /\ pc' = User(p)

(* The return of sleep() with a signal: the count is given back, and when  *)
(* that leaves none, everybody else is woken to count itself again.        *)
Interrupted(p, c, n) ==
    IF n <= 1
    THEN /\ cnt' = [cnt EXCEPT ![c] = 0]
         /\ pc' = [q \in Proc |-> IF q = p THEN "user"
                                  ELSE IF pc[q] = "asleep" /\ chan[q] = c
                                  THEN "woken" ELSE pc[q]]
    ELSE /\ cnt' = [cnt EXCEPT ![c] = n - 1]
         /\ pc' = User(p)

(* Everything is undone: fail, or count oneself and sleep. *)
SemundoDone(p) ==
    /\ Running(p, "undo") /\ i = 0
    /\ \/ /\ after = "fail"
          /\ pc' = User(p)
          /\ Finish(p)
          /\ UNCHANGED cnt
       \/ /\ after = "sleep" /\ sig[p]
          /\ Interrupted(p, chan[p], cnt[chan[p]] + 1)
          /\ Finish(p)
       \/ /\ after = "sleep" /\ ~sig[p]
          /\ cnt' = [cnt EXCEPT ![chan[p]] = @ + 1]
          /\ pc' = [pc EXCEPT ![p] = "asleep"]
          /\ Leave
          /\ UNCHANGED proc
    /\ UNCHANGED <<sets, semval, plain, un, semtmp>>

OpsDone(p) ==
    /\ Running(p, "check") /\ i > Len(semtmp)
    /\ pc' = User(p)
    /\ Finish(p)
    /\ UNCHANGED <<sets, sems, un, semtmp>>

(* A sleeper runs again: EINTR, EIDRM, or the list once more from its      *)
(* start, copied in again (and the copyin may fault).                      *)
Resume(p) ==
    /\ cpu = NULL /\ pc[p] = "woken"
    /\ \/ /\ sig[p]
          /\ Interrupted(p, chan[p], cnt[chan[p]])
          /\ Finish(p)
          /\ UNCHANGED semtmp
       \/ /\ ~sig[p] /\ ~Semconv(call[p].id)
          /\ pc' = User(p)
          /\ Finish(p)
          /\ UNCHANGED <<cnt, semtmp>>
       \/ /\ ~sig[p] /\ Semconv(call[p].id)
          /\ Check(p, call[p].ops)
          /\ chan' = [chan EXCEPT ![p] = NULL]
          /\ UNCHANGED <<cnt, call, sig, live>>
       \/ /\ ~sig[p] /\ Semconv(call[p].id)
          /\ \E done \in 0 .. Len(call[p].ops) - 1 :
                Faults(p, "semop", call[p].id, call[p].ops, done, NoVals)
          /\ UNCHANGED <<cnt, chan, sig, live>>
    /\ UNCHANGED <<sets, semval, plain, un>>

(* The copyin of a retry after a fault: no second look at the set. *)
ResumeFaulted(p) ==
    /\ cpu = NULL /\ pc[p] = "fault" /\ call[p].cmd = "semop" /\ chan[p] # NULL
    /\ Check(p, Copied(call[p].ops, call[p].done))
    /\ chan' = [chan EXCEPT ![p] = NULL]
    /\ UNCHANGED <<sets, sems, un, call, sig, live>>

(* psignal, from an interrupt or another process: a sleeper at a priority  *)
(* above PZERO is set running.                                             *)
Signal(p) ==
    /\ pc[p] # "user"
    /\ ~sig[p]
    /\ sig' = [sig EXCEPT ![p] = TRUE]
    /\ pc' = [pc EXCEPT ![p] = IF @ = "asleep" THEN "woken" ELSE @]
    /\ UNCHANGED <<sets, sems, un, semtmp, call, chan, live, run>>

(***************************************************************************)
(* exit() and semexit.  The adjustments of the entries whose set exists    *)
(* are made where the result is a legal value, and dropped otherwise.      *)
(***************************************************************************)
Exit(p) ==
    LET u        == un.sem_undo[p]
        aoe(s)   == {k \in UndoKey : /\ u # NULL /\ un.aoe[u][k] # 0
                                     /\ Semconv(k[1]) /\ SemOf(k[1], k[2]) = s}
        adj(s)   == un.aoe[u][CHOOSE k \in aoe(s) : TRUE]
        has      == {s \in SemIndex : aoe(s) # {}}
        done     == {s \in has : semval[s] + adj(s) \in 0 .. SEMVMX}
    IN  /\ Enters(p)
        /\ live' = [live EXCEPT ![p] = FALSE]
        /\ semval' = [s \in SemIndex |-> IF s \in done THEN semval[s] + adj(s)
                                                       ELSE semval[s]]
        /\ plain' = [s \in SemIndex |-> IF s \in has \ done THEN plain[s] - adj(s)
                                                             ELSE plain[s]]
        /\ Wakeup(ZCnt({s \in done : semval[s] + adj(s) = 0})
                  \cup NCnt({s \in done : adj(s) > 0}), pc)
        /\ un' = IF u = NULL THEN un
                 ELSE LET w == IF Count(un, u) = 0 THEN un ELSE Unlink(un, u)
                      IN  [w EXCEPT !.aoe[u] = NoEntry, !.np[u] = w.semfup,
                                    !.semfup = u]      \* sem_undo[p] keeps u
        /\ UNCHANGED <<sets, semtmp, call, chan, sig, run>>

(* fork gives the slot to a new process; sem_undo[] is not touched. *)
Fork(p) ==
    /\ SlotReuse /\ ~live[p] /\ cpu = NULL
    /\ live' = [live EXCEPT ![p] = TRUE]
    /\ UNCHANGED <<sets, sems, un, semtmp, call, chan, sig, pc, run>>

SemopStep(p) ==
    \/ OpApplies(p) \/ OpPasses(p) \/ OpFails(p) \/ OpWaits(p) \/ OpsDone(p)
    \/ SemundoStep(p) \/ SemundoDone(p)

Continue(p) ==
    \/ Resume(p) \/ SemopFaulted(p) \/ ResumeFaulted(p)
    \/ SetallFaulted(p) \/ IpcsetFaulted(p)

Semctl(p) ==
    \E id \in Semid :
        \/ Rmid(p, id) \/ Ipcset(p, id)
        \/ \E num \in Semnum, val \in 0 .. SEMVMX : Setval(p, id, num, val)
        \/ \E vals \in [Semnum -> 0 .. SEMVMX] : Setall(p, id, vals)

Next ==
    \E p \in Proc :
        \/ \E key \in Key, creat \in BOOLEAN, n \in 1 .. SEMMSL : Semget(p, key, creat, n)
        \/ Semctl(p)
        \/ \E id \in Semid, ops \in Ops : Semop(p, id, ops)
        \/ SemopStep(p) \/ Continue(p)
        \/ Signal(p) \/ Exit(p) \/ Fork(p)

Spec == Init /\ [][Next]_vars

(* A process in the kernel goes on until it sleeps; the dispatcher gives   *)
(* every runnable process the processor again and again, so one that is    *)
(* runnable each time the processor is free gets it.                       *)
Fairness ==
    \A p \in Proc : WF_vars(SemopStep(p)) /\ SF_vars(Continue(p))

FairSpec == Spec /\ Fairness

-----------------------------------------------------------------------------
UndoType ==
    [aoe : [Undo -> [UndoKey -> Int]], np : [Undo -> Undo \cup {NULL}],
     semunp : Undo \cup {NULL}, semfup : Undo \cup {NULL},
     sem_undo : [Proc -> Undo \cup {NULL}]]

CallType ==
    [cmd : {"none", "semop", "setall", "ipcset"}, id : Semid, ops : Seq(Op),
     done : Nat, vals : [Semnum -> 0 .. SEMVMX]]

(* Types of the sets, the undo structures and the calls in progress. *)
TypeOK ==
    /\ sema \in [SetIndex -> [alloc : BOOLEAN, key : Key, seq : Nat,
                              base : SemIndex, nsems : 0 .. SEMMSL]]
    /\ semval \in [SemIndex -> 0 .. SEMVMX]
    /\ cnt \in [Chan -> Nat]
    /\ semmap \in MapType
    /\ un \in UndoType
    /\ semtmp \in Seq(Op)
    /\ live \in [Proc -> BOOLEAN]
    /\ pc \in [Proc -> {"user", "fault", "check", "undo", "asleep", "woken"}]
    /\ call \in [Proc -> CallType]
    /\ chan \in [Proc -> Chan \cup {NULL}]
    /\ sig \in [Proc -> BOOLEAN]
    /\ cpu \in Proc \cup {NULL}
    /\ i \in Nat
    /\ after \in {"sleep", "fail"}
    /\ plain \in [SemIndex -> Int]

(* No lost wakeup: whoever sleeps in semop is counted in the semncnt or    *)
(* semzcnt it sleeps on, so that the next wakeup, which is made only if    *)
(* the count is not 0, will be made.  The counts themselves may be too     *)
(* low: an interrupted process gives back a count that a wakeup may have   *)
(* cleared already.                                                        *)
NoLostWakeup ==
    \A p \in Proc : pc[p] = "asleep" => cnt[chan[p]] > 0

(* A semop sleeps only while its operations cannot all be done: replayed   *)
(* on the present values its list stops at an operation that has to wait.  *)
Satisfied(p) ==
    LET ops == call[p].ops
        val[k \in 0 .. Len(ops)] ==
            IF k = 0 THEN semval
            ELSE [val[k - 1] EXCEPT ![SemOf(call[p].id, ops[k].num)] = @ + ops[k].op]
    IN  \A k \in 1 .. Len(ops) :
            LET v == val[k - 1][SemOf(call[p].id, ops[k].num)]
            IN  IF ops[k].op = 0 THEN v = 0 ELSE v + ops[k].op \in 0 .. SEMVMX

SleepsOnlyIfBlocked ==
    cpu = NULL => \A p \in Proc : pc[p] = "asleep" => ~Satisfied(p)

(* A semop whose operations stay possible does not wait for ever: it       *)
(* cannot be that from some time on p is in semop and, whenever nobody is  *)
(* in the kernel, the values allow all its operations.                     *)
EventuallyServed ==
    \A p \in Proc :
        ~ <>[](call[p].cmd = "semop" /\ (cpu = NULL => Satisfied(p)))

(* A semop that fails, or that goes to sleep, has changed nothing: values  *)
(* and undo entries are those it found when it passed the label check      *)
(* ("Actually, do the operations and undo them if a wait is needed or an   *)
(* error is detected", sem.c:638).                                         *)
AllOrNothing ==
    \A p \in Proc :
        Running(p, "undo") /\ i = 0 => semval = snap.val /\ Aoe(un, p) = snap.aoe

(* Nobody sleeps on a set that is gone: the sleeper's id is valid and its  *)
(* semaphore is one of the set.                                            *)
NoOrphanSleeper ==
    \A p \in Proc : pc[p] = "asleep" =>
        Semconv(call[p].id) /\ chan[p][2] \in SetOf(Index(call[p].id, SEMMNI))

(* Every semaphore is in just one set, or free in semmap with value 0, as  *)
(* the ASSERTs of rmfree (malloc.c:118, 120) need when a set is removed.   *)
SetsDisjoint ==
    LET used == {x \in SetIndex : sema[x].alloc}
    IN  /\ \A x \in used : SetOf(x) \cap FreeUnits(semmap) = {}
        /\ \A x, y \in used : x # y => SetOf(x) \cap SetOf(y) = {}
        /\ \A s \in SemIndex \ UNION {SetOf(x) : x \in used} :
               s \in FreeUnits(semmap) /\ semval[s] = 0

(* sem.h:145 "There is one undo structure per process in the system."      *)
UndoPrivate ==
    \A p, q \in Proc : p # q /\ live[p] /\ live[q] /\ un.sem_undo[p] # NULL =>
        un.sem_undo[p] # un.sem_undo[q]

(* The undo structures of processes and the free ones account for all of   *)
(* them, and the list semunp holds just those with entries.                *)
UndoLists ==
    LET owned == {un.sem_undo[p] : p \in {q \in Proc : live[q]}} \ {NULL}
    IN  /\ OnList(un, un.semunp) = {u \in Undo : Count(un, u) # 0}
        /\ OnList(un, un.semunp) \subseteq owned
        /\ OnList(un, un.semfup) = Undo \ owned

(* The sum of a number per undo structure, over the array semu[]. *)
Total(e) ==
    LET n    == Cardinality(Undo)
        semu == CHOOSE f \in [1 .. n -> Undo] :
                    \A u \in Undo : \E j \in 1 .. n : \A k \in 1 .. n : f[k] = u <=> k = j
        sum[j \in 0 .. n] == IF j = 0 THEN 0 ELSE sum[j - 1] + e[semu[j]]
    IN  sum[n]

(* The undo entries account for the difference between a semaphore and     *)
(* what it would be without SEM_UNDO: nothing a process did under SEM_UNDO *)
(* is forgotten or undone twice.                                           *)
UndoBalance ==
    \A x \in SetIndex : sema[x].alloc =>
        \A num \in 0 .. sema[x].nsems - 1 :
            LET k == <<IdOf(sema, x, SEMMNI), num>>
                s == sema[x].base + num
            IN  semval[s] + Total([u \in Undo |-> un.aoe[u][k]]) = plain[s]

(* The tables of sem.c keep their types, the undo structures are on the    *)
(* lists they belong to, and their entries are exact.                      *)
TablesSound == TypeOK /\ UndoLists /\ UndoBalance

(* semop runs the operations its caller gave it, although the kernel keeps *)
(* every caller's list in the one semtmp.                                  *)
OwnOps == \A p \in Proc : pc[p] \in {"check", "undo"} => semtmp = call[p].ops

(* semop works on a set that exists and has the identifier it was given:   *)
(* "Verify that the semaphores haven't been removed" (sem.c:644).          *)
NotStale ==
    \A p \in Proc : pc[p] \in {"check", "undo"} => Semconv(call[p].id)

=============================================================================
