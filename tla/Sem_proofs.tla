------------------------------ MODULE Sem_proofs ------------------------------
(***************************************************************************)
(* System V semaphores (Sem): for any number of processes, sets, undo      *)
(* structures and operation lists, a semop that fails or sleeps has done   *)
(* nothing, sleepers are counted, blocked and never orphaned, the undo     *)
(* structures stay on their lists with exact entries, and the sets apart.  *)
(*                                                                         *)
(* The argument, in the order of the sections:                             *)
(*   WaitInv    the counts semncnt and semzcnt against their sleepers; it  *)
(*              needs nothing but that semop stays inside sem[];           *)
(*   UndoOK     the two lists of undo structures, as sets with positions,  *)
(*              and what semaoe, semunrm and semexit do to them;           *)
(*   CallInv    who has the processor, and whose list is in semtmp;        *)
(*   SetInv     the sets against semmap, and every caller's set;           *)
(*   Entries    undo entries belong to the set they were made for;         *)
(*   Traces     the values and undo entries of the process in semop's      *)
(*              loops, one state per operation since the label check, so   *)
(*              that semundo goes back along them;                         *)
(*   Sleepers   whoever sleeps has an operation that has to wait, with the *)
(*              present values and with all those of the trace;            *)
(*   Balance    the undo entries of all processes for a semaphore add up   *)
(*              to what it lacks of its value without SEM_UNDO.            *)
(* SemInv is their conjunction.                                            *)
(*                                                                         *)
(* Hypotheses, where a theorem states them: Calm, NoWrap, Single, Roomy.   *)
(***************************************************************************)

EXTENDS Sem, ResourceMap_proofs, FiniteSetTheorems

(***************************************************************************)
(* No lost wakeup, for every combination of faults and slot reuse.         *)
(***************************************************************************)

(* semop stays inside sem[]: the operation it looks at names one of its    *)
(* semaphores.                                                             *)
InTable ==
    \A p \in Proc : Running(p, "check") /\ i <= Len(semtmp) => At(p) \in SemIndex

(* The values of a program counter. *)
Where == {"user", "fault", "check", "undo", "asleep", "woken"}

(* Types of what a wakeup touches. *)
WaitTypes ==
    /\ cnt \in [Chan -> Nat]
    /\ pc \in [Proc -> Where]
    /\ DOMAIN chan = Proc

(* What a sleeper, one that was woken, and one about to sleep know of the  *)
(* count they wait on.                                                     *)
Waits(p) ==
    /\ pc[p] = "asleep" => chan[p] \in Chan /\ cnt[chan[p]] > 0
    /\ pc[p] = "woken" => chan[p] \in Chan
    /\ cpu = p /\ pc[p] = "undo" /\ after = "sleep" => chan[p] \in Chan

(* The counts and their sleepers, for every process. *)
WaitInv == WaitTypes /\ \A p \in Proc : Waits(p)

(* A wakeup leaves nobody asleep on a count it cleared, and only sleepers  *)
(* notice it.                                                              *)
LEMMA WakeupFacts ==
    ASSUME cnt \in [Chan -> Nat], NEW C, NEW pcs \in [Proc -> Where], Wakeup(C, pcs)
    PROVE  /\ cnt' \in [Chan -> Nat] /\ pc' \in [Proc -> Where]
           /\ \A q \in Proc : \/ pc'[q] = pcs[q]
                              \/ pcs[q] = "asleep" /\ pc'[q] = "woken"
           /\ \A q \in Proc : /\ pc'[q] = "asleep" /\ chan[q] \in Chan /\ cnt[chan[q]] > 0
                              => /\ chan[q] \notin C /\ cnt'[chan[q]] = cnt[chan[q]]
                                 /\ pcs[q] = "asleep"
BY DEF Wakeup, Where

(* A step that leaves the channels alone, changes the program counters     *)
(* only by waking, and clears no count without waking its sleepers.        *)
LEMMA WakeupKeeps ==
    ASSUME WaitInv, NEW C, Wakeup(C, pc), UNCHANGED <<chan, cpu, after>>
    PROVE  WaitInv'
<1>1. WaitTypes' BY WakeupFacts DEF WaitInv, WaitTypes
<1>2. ASSUME NEW q \in Proc PROVE Waits(q)'
  <2>1. Waits(q) BY DEF WaitInv
  <2>2. /\ pc'[q] = pc[q] \/ (pc[q] = "asleep" /\ pc'[q] = "woken")
        /\ pc'[q] = "asleep" /\ chan[q] \in Chan /\ cnt[chan[q]] > 0
           => cnt'[chan[q]] = cnt[chan[q]]
    BY WakeupFacts DEF WaitInv, WaitTypes
  <2> QED BY <2>1, <2>2 DEF Waits
<1> QED BY <1>1, <1>2 DEF WaitInv

(* A step of p that gives up the processor or keeps it: nobody else's     *)
(* place changes.                                                          *)
LEMMA MoveKeeps ==
    ASSUME WaitInv, NEW p \in Proc, NEW to \in Where, pc' = [pc EXCEPT ![p] = to],
           cnt' = cnt, DOMAIN chan' = Proc, \A q \in Proc \ {p} : chan'[q] = chan[q],
           cpu' \in {NULL, p}, to \notin {"asleep", "woken"},
           to = "undo" /\ after' = "sleep" => chan'[p] \in Chan
    PROVE  WaitInv'
<1>1. WaitTypes' BY DEF WaitInv, WaitTypes
<1>2. ASSUME NEW q \in Proc PROVE Waits(q)'
  BY SemAssumption DEF WaitInv, WaitTypes, Waits
<1> QED BY <1>1, <1>2 DEF WaitInv

(* sleep() returns with a signal. *)
LEMMA InterruptedKeeps ==
    ASSUME WaitInv, NEW p \in Proc, NEW c \in Chan, NEW n \in Nat,
           \A q \in Proc : pc[q] = "asleep" /\ chan[q] = c /\ q # p => n # 0,
           Interrupted(p, c, n), Finish(p)
    PROVE  WaitInv'
<1> USE DEF WaitInv, WaitTypes, Waits, Finish, Leave
<1>1. CASE n <= 1
  <2>1. WaitTypes' BY <1>1 DEF Interrupted, Where
  <2>2. ASSUME NEW q \in Proc PROVE Waits(q)'
    BY <1>1, SemAssumption DEF Interrupted
  <2> QED BY <2>1, <2>2
<1>2. CASE n > 1
  <2>1. cnt' = [cnt EXCEPT ![c] = n - 1] /\ pc' = [pc EXCEPT ![p] = "user"]
    BY <1>2 DEF Interrupted, User
  <2>2. WaitTypes' BY <1>2, <2>1 DEF Where
  <2>3. ASSUME NEW q \in Proc PROVE Waits(q)'
    BY <1>2, <2>1, SemAssumption
  <2> QED BY <2>2, <2>3
<1> QED BY <1>1, <1>2

(* seminit leaves nobody asleep. *)
LEMMA InitWait == Init => WaitInv
BY SemAssumption DEF Init, WaitInv, WaitTypes, Waits, Where

(* Every step that stays inside sem[] keeps the sleepers counted. *)
LEMMA NextWait == ASSUME WaitInv, InTable, [Next]_vars PROVE WaitInv'
<1> USE DEF sets, sems, proc, run
<1>1. CASE UNCHANGED vars
  BY <1>1 DEF vars, WaitInv, WaitTypes, Waits
<1>2. ASSUME NEW p \in Proc, NEW key \in Key, NEW creat \in BOOLEAN, NEW n \in 1 .. SEMMSL,
             Semget(p, key, creat, n)
      PROVE  WaitInv'
  BY <1>2 DEF Semget, WaitInv, WaitTypes, Waits
<1>3. ASSUME NEW p \in Proc, Semctl(p) PROVE WaitInv'
  <2>1. ASSUME NEW id \in Semid, Rmid(p, id) PROVE WaitInv'
    BY <2>1, WakeupKeeps DEF Rmid
  <2>2. ASSUME NEW id \in Semid, Ipcset(p, id) PROVE WaitInv'
    <3>1. CASE UNCHANGED <<proc, pc, run>>
      BY <2>2, <3>1 DEF Ipcset, WaitInv, WaitTypes, Waits
    <3>2. CASE Faults(p, "ipcset", id, <<>>, 0, NoVals)
      BY <2>2, <3>2, MoveKeeps DEF Ipcset, Faults, Leave, WaitInv, WaitTypes, Where
    <3> QED BY <2>2, <3>1, <3>2 DEF Ipcset
  <2>3. ASSUME NEW id \in Semid, NEW num \in Semnum, NEW val \in 0 .. SEMVMX,
               Setval(p, id, num, val)
        PROVE  WaitInv'
    BY <2>3, WakeupKeeps DEF Setval, SetVals
  <2>4. ASSUME NEW id \in Semid, NEW vals \in [Semnum -> 0 .. SEMVMX], Setall(p, id, vals)
        PROVE  WaitInv'
    <3>1. CASE SetAllVals(id, vals, pc) /\ UNCHANGED <<sets, proc, run>>
      BY <2>4, <3>1, WakeupKeeps DEF SetAllVals, SetVals
    <3>2. CASE /\ Faults(p, "setall", id, <<>>, 0, vals)
               /\ UNCHANGED <<sets, sems, un, chan, sig, live>>
      BY <2>4, <3>2, MoveKeeps DEF Faults, Leave, WaitInv, WaitTypes, Where
    <3> QED BY <2>4, <3>1, <3>2 DEF Setall
  <2> QED BY <1>3, <2>1, <2>2, <2>3, <2>4 DEF Semctl
<1>4. ASSUME NEW p \in Proc, NEW id \in Semid, NEW ops \in Ops, Semop(p, id, ops)
      PROVE  WaitInv'
  <2>1. CASE UNCHANGED <<pc, call, run>>
    BY <1>4, <2>1 DEF Semop, WaitInv, WaitTypes, Waits
  <2>2. CASE Check(p, ops)
    BY <1>4, <2>2, MoveKeeps DEF Semop, Check, WaitInv, WaitTypes, Where
  <2>3. CASE \E done \in 0 .. Len(ops) - 1 : Faults(p, "semop", id, ops, done, NoVals)
    BY <1>4, <2>3, MoveKeeps DEF Semop, Faults, Leave, WaitInv, WaitTypes, Where
  <2> QED BY <1>4, <2>1, <2>2, <2>3 DEF Semop
<1>5. ASSUME NEW p \in Proc, SemopStep(p) PROVE WaitInv'
  <2>1. CASE OpApplies(p)
    BY <2>1, WakeupKeeps DEF OpApplies
  <2>2. CASE OpPasses(p)
    BY <2>2 DEF OpPasses, WaitInv, WaitTypes, Waits
  <2>3. CASE OpFails(p)
    BY <2>3, MoveKeeps DEF OpFails, Running, WaitInv, WaitTypes, Where
  <2>4. CASE OpWaits(p)
    <3>1. /\ At(p) \in SemIndex
          /\ chan' = [chan EXCEPT ![p] =
                        <<IF Doing.op < 0 THEN "semncnt" ELSE "semzcnt", At(p)>>]
      BY <2>4 DEF OpWaits, InTable
    <3>2. chan'[p] \in Chan /\ DOMAIN chan' = Proc /\ \A q \in Proc \ {p} : chan'[q] = chan[q]
      BY <3>1 DEF Chan, WaitInv, WaitTypes
    <3> QED BY <2>4, <3>2, MoveKeeps DEF OpWaits, Running, WaitInv, WaitTypes, Where
  <2>5. CASE OpsDone(p)
    BY <2>5, MoveKeeps DEF OpsDone, User, Finish, Leave, WaitInv, WaitTypes, Where
  <2>6. CASE SemundoStep(p)
    BY <2>6 DEF SemundoStep, WaitInv, WaitTypes, Waits
  <2>7. CASE SemundoDone(p)
    <3>1. CASE after = "fail" /\ pc' = User(p) /\ Finish(p) /\ UNCHANGED cnt
      BY <2>7, <3>1, MoveKeeps DEF User, Finish, Leave, WaitInv, WaitTypes, Where
    <3>2. CASE after = "sleep" /\ Interrupted(p, chan[p], cnt[chan[p]] + 1) /\ Finish(p)
      <4>1. chan[p] \in Chan /\ cnt[chan[p]] \in Nat
        BY <2>7, <3>2 DEF SemundoDone, Running, WaitInv, WaitTypes, Waits
      <4> QED BY <3>2, <4>1, InterruptedKeeps
    <3>3. CASE /\ after = "sleep" /\ ~sig[p]
               /\ cnt' = [cnt EXCEPT ![chan[p]] = @ + 1]
               /\ pc' = [pc EXCEPT ![p] = "asleep"]
               /\ Leave
               /\ UNCHANGED proc
      <4>1. chan[p] \in Chan /\ cnt[chan[p]] \in Nat
        BY <2>7, <3>3 DEF SemundoDone, Running, WaitInv, WaitTypes, Waits
      <4>2. WaitTypes' BY <3>3, <4>1 DEF WaitInv, WaitTypes, Where
      <4>3. ASSUME NEW q \in Proc PROVE Waits(q)'
        BY <3>3, <4>1, SemAssumption DEF WaitInv, WaitTypes, Waits, Leave
      <4> QED BY <4>2, <4>3 DEF WaitInv
    <3> QED BY <2>7, <3>1, <3>2, <3>3 DEF SemundoDone
  <2> QED BY <1>5, <2>1, <2>2, <2>3, <2>4, <2>5, <2>6, <2>7 DEF SemopStep
<1>6. ASSUME NEW p \in Proc, Continue(p) PROVE WaitInv'
  <2>1. CASE Resume(p)
    <3>0. chan[p] \in Chan /\ cnt[chan[p]] \in Nat /\ pc[p] = "woken"
      BY <2>1 DEF Resume, WaitInv, WaitTypes, Waits
    <3>1. CASE Interrupted(p, chan[p], cnt[chan[p]]) /\ Finish(p)
      <4>1. \A q \in Proc : pc[q] = "asleep" /\ chan[q] = chan[p] => cnt[chan[p]] # 0
        BY DEF WaitInv, Waits
      <4> QED BY <3>0, <3>1, <4>1, InterruptedKeeps
    <3>2. CASE pc' = User(p) /\ Finish(p) /\ UNCHANGED <<cnt, semtmp>>
      BY <3>2, MoveKeeps DEF User, Finish, Leave, WaitInv, WaitTypes, Where
    <3>3. CASE /\ Check(p, call[p].ops)
               /\ chan' = [chan EXCEPT ![p] = NULL]
               /\ UNCHANGED <<cnt, call, sig, live>>
      BY <3>3, MoveKeeps DEF Check, WaitInv, WaitTypes, Where
    <3>4. CASE /\ \E done \in 0 .. Len(call[p].ops) - 1 :
                      Faults(p, "semop", call[p].id, call[p].ops, done, NoVals)
               /\ UNCHANGED <<cnt, chan, sig, live>>
      BY <3>4, MoveKeeps DEF Faults, Leave, WaitInv, WaitTypes, Where
    <3> QED BY <2>1, <3>1, <3>2, <3>3, <3>4 DEF Resume
  <2>2. CASE SemopFaulted(p)
    <3>1. CASE Check(p, Copied(call[p].ops, call[p].done)) /\ UNCHANGED proc
      BY <2>2, <3>1, MoveKeeps DEF SemopFaulted, Check, WaitInv, WaitTypes, Where
    <3>2. CASE pc' = User(p) /\ Finish(p)
      BY <2>2, <3>2, MoveKeeps DEF SemopFaulted, User, Finish, Leave, WaitInv, WaitTypes, Where
    <3> QED BY <2>2, <3>1, <3>2 DEF SemopFaulted
  <2>3. CASE ResumeFaulted(p)
    BY <2>3, MoveKeeps, Zenon DEF ResumeFaulted, Check, WaitInv, WaitTypes, Where
  <2>4. CASE SetallFaulted(p)
    <3>1. PICK C : Wakeup(C, User(p))
      BY <2>4, Zenon DEF SetallFaulted, SetAllVals, SetVals
    <3>2. User(p) \in [Proc -> Where] /\ User(p)[p] = "user"
          /\ \A q \in Proc \ {p} : User(p)[q] = pc[q]
      BY DEF User, WaitInv, WaitTypes, Where
    <3>3. /\ cpu' = NULL /\ DOMAIN chan' = Proc
          /\ \A q \in Proc \ {p} : chan'[q] = chan[q]
      BY <2>4 DEF SetallFaulted, Finish, Leave, WaitInv, WaitTypes
    <3>4. WaitTypes' BY <3>1, <3>2, <3>3, WakeupFacts DEF WaitInv, WaitTypes
    <3>5. ASSUME NEW q \in Proc PROVE Waits(q)'
      <4>1. Waits(q) BY DEF WaitInv
      <4>2. /\ pc'[q] = User(p)[q] \/ (User(p)[q] = "asleep" /\ pc'[q] = "woken")
            /\ pc'[q] = "asleep" /\ chan[q] \in Chan /\ cnt[chan[q]] > 0
               => cnt'[chan[q]] = cnt[chan[q]]
        BY <3>1, <3>2, WakeupFacts DEF WaitInv, WaitTypes
      <4> QED BY <3>2, <3>3, <4>1, <4>2, SemAssumption DEF Waits
    <3> QED BY <3>4, <3>5 DEF WaitInv
  <2>5. CASE IpcsetFaulted(p)
    BY <2>5, MoveKeeps, Zenon DEF IpcsetFaulted, User, Finish, Leave, WaitInv, WaitTypes, Where
  <2> QED BY <1>6, <2>1, <2>2, <2>3, <2>4, <2>5 DEF Continue
<1>7. ASSUME NEW p \in Proc, Signal(p) PROVE WaitInv'
  <2>1. WaitTypes' BY <1>7 DEF Signal, WaitInv, WaitTypes, Where
  <2>2. ASSUME NEW q \in Proc PROVE Waits(q)'
    BY <1>7 DEF Signal, WaitInv, WaitTypes, Waits
  <2> QED BY <2>1, <2>2 DEF WaitInv
<1>8. ASSUME NEW p \in Proc, Exit(p) PROVE WaitInv'
  <2>1. PICK C : Wakeup(C, pc) BY <1>8, Zenon DEF Exit
  <2> QED BY <1>8, <2>1, WakeupKeeps, Zenon DEF Exit
<1>9. ASSUME NEW p \in Proc, Fork(p) PROVE WaitInv'
  BY <1>9 DEF Fork, WaitInv, WaitTypes, Waits
<1> QED BY <1>1, <1>2, <1>3, <1>4, <1>5, <1>6, <1>7, <1>8, <1>9 DEF Next

(* Whoever sleeps in semop is counted, whatever faults, removals and slot  *)
(* reuse do, as long as semop stays inside sem[].                          *)
THEOREM CountsKept == Spec /\ []InTable => []NoLostWakeup
<1>1. Init => WaitInv BY InitWait
<1>2. WaitInv /\ InTable /\ [Next]_vars => WaitInv' BY NextWait
<1>3. WaitInv => NoLostWakeup BY DEF WaitInv, Waits, NoLostWakeup
<1> QED BY <1>1, <1>2, <1>3, PTL DEF Spec

(***************************************************************************)
(* The lists of undo structures.  A list is a set L whose members have     *)
(* positions: the head has the highest, and un_np leads to the next lower. *)
(***************************************************************************)

(* n is the next member of L after u, or NULL at the end. *)
NextOn(L, pos, u, n) ==
    \/ n \in L /\ pos[n] < pos[u] /\ \A v \in L : pos[v] < pos[u] => pos[v] <= pos[n]
    \/ n = NULL /\ \A v \in L : ~(pos[v] < pos[u])

(* np and head make a list of the members of L, ordered by pos. *)
Listed(np, head, L, pos) ==
    /\ \A u, v \in L : pos[u] = pos[v] => u = v
    /\ \/ head \in L /\ \A v \in L : pos[v] <= pos[head]
       \/ head = NULL /\ L = {}
    /\ \A u \in L : NextOn(L, pos, u, np[u])

(* Positions are bounded, so that one more can always be found. *)
Positions(pos) == pos \in [Undo -> Nat] /\ \E b \in Nat : \A u \in Undo : pos[u] <= b

(* Of a nonempty set of structures, the one with the least position, and   *)
(* the one with the greatest.                                              *)
LEMMA Lowest ==
    ASSUME NEW pos, Positions(pos), NEW L \in SUBSET Undo, L # {}
    PROVE  \E u \in L : \A v \in L : pos[u] <= pos[v]
<1> DEFINE S == {pos[u] : u \in L}
<1>1. PICK x \in S : TRUE OBVIOUS
<1>2. S \in SUBSET Nat BY DEF Positions
<1> HIDE DEF S
<1>3. PICK y \in S : \A z \in S : y <= z BY <1>1, <1>2, Least
<1> QED BY <1>3 DEF S

(* The one with the greatest. *)
LEMMA Highest ==
    ASSUME NEW pos, Positions(pos), NEW L \in SUBSET Undo, L # {}
    PROVE  \E u \in L : \A v \in L : pos[v] <= pos[u]
<1>1. PICK b \in Nat : \A u \in Undo : pos[u] <= b BY DEF Positions
<1>0. pos \in [Undo -> Nat] BY DEF Positions
<1> DEFINE S == {b - pos[u] : u \in L}
<1>2. PICK x \in S : TRUE OBVIOUS
<1>3. S \in SUBSET Nat
  <2>1. ASSUME NEW u \in L PROVE b - pos[u] \in Nat
    <3>1. pos[u] \in Nat /\ pos[u] <= b BY <1>0, <1>1
    <3> QED BY <3>1
  <2> QED BY <2>1
<1> HIDE DEF S
<1>4. PICK y \in S : \A z \in S : y <= z BY <1>2, <1>3, Least
<1>5. PICK u \in L : y = b - pos[u] BY DEF S
<1>6. ASSUME NEW v \in L PROVE pos[v] <= pos[u]
  <2>1. b - pos[u] <= b - pos[v] BY <1>4, <1>5 DEF S
  <2>2. pos[u] \in Nat /\ pos[v] \in Nat BY <1>0
  <2> QED BY <2>1, <2>2
<1> QED BY <1>6

(* Following un_np from the head meets just the members of the list. *)
LEMMA OnListIs ==
    ASSUME NEW w, NEW head, NEW L \in SUBSET Undo, NEW pos, Positions(pos),
           Listed(w.np, head, L, pos)
    PROVE  OnList(w, head) = L
<1> USE SemAssumption
<1>0. pos \in [Undo -> Nat] BY DEF Positions
<1>1. head \in L \cup {NULL} /\ \A v \in L : w.np[v] \in L \cup {NULL}
  BY DEF Listed, NextOn
<1>2. OnList(w, head) \subseteq L BY <1>1 DEF OnList
<1>3. ASSUME NEW S \in SUBSET Undo, head \in S \cup {NULL},
             \A v \in S : w.np[v] \in S \cup {NULL}, L \ S # {}
      PROVE  FALSE
  <2>1. PICK u \in L \ S : \A v \in L \ S : pos[v] <= pos[u]
    BY <1>3, Highest
  <2> DEFINE A == {v \in L : pos[u] < pos[v]}
  <2>2. CASE A = {}
    <3>1. \A v \in L : pos[v] <= pos[u] BY <2>2, <1>0
    <3>2. head \in L /\ pos[u] <= pos[head] BY <2>1 DEF Listed
    <3>3. head = u BY <3>1, <3>2, <1>0, <2>1 DEF Listed
    <3> QED BY <3>3, <3>2, <2>1, <1>3
  <2>3. CASE A # {}
    <3>1. PICK v \in A : \A z \in A : pos[v] <= pos[z] BY <2>3, Lowest
    <3>2. v \in S
      BY <3>1, <2>1, <1>0
    <3>3. NextOn(L, pos, v, w.np[v]) BY <3>1 DEF Listed
    <3>4. w.np[v] \in L /\ pos[w.np[v]] < pos[v] /\ pos[u] <= pos[w.np[v]]
      BY <3>3, <3>1, <2>1 DEF NextOn
    <3>5. ~(pos[u] < pos[w.np[v]])
      BY <3>4, <3>1, <1>0
    <3>6. w.np[v] = u
      BY <3>4, <3>5, <1>0, <2>1 DEF Listed
    <3> QED BY <3>6, <3>2, <1>3, <2>1
  <2> QED BY <2>2, <2>3
<1>4. L \subseteq OnList(w, head) BY <1>3 DEF OnList
<1> QED BY <1>2, <1>4

(* From a member of the list on, the walk meets those behind it. *)
Behind(L, pos, u) == {v \in L : pos[v] <= pos[u]}

(* What OnList gives for a member of the list. *)
LEMMA OnListFrom ==
    ASSUME NEW w, NEW head, NEW L \in SUBSET Undo, NEW pos, Positions(pos),
           Listed(w.np, head, L, pos)
    PROVE  \A u \in L : OnList(w, u) = Behind(L, pos, u)
<1> TAKE u \in L
<1> DEFINE M == {v \in L : pos[v] <= pos[u]}
<1>0. pos \in [Undo -> Nat] /\ M \in SUBSET Undo BY DEF Positions
<1>1. u \in M /\ \A v \in M : pos[v] <= pos[u] BY <1>0
<1>2. ASSUME NEW v \in M PROVE NextOn(M, pos, v, w.np[v])
  <2>1. NextOn(L, pos, v, w.np[v]) BY DEF Listed
  <2>2. CASE w.np[v] \in L /\ pos[w.np[v]] < pos[v]
             /\ \A z \in L : pos[z] < pos[v] => pos[z] <= pos[w.np[v]]
    <3>1. w.np[v] \in M BY <2>2, <1>0
    <3> QED BY <2>2, <3>1 DEF NextOn
  <2>3. CASE w.np[v] = NULL /\ \A z \in L : ~(pos[z] < pos[v])
    BY <2>3 DEF NextOn
  <2> QED BY <2>1, <2>2, <2>3 DEF NextOn
<1>3. Listed(w.np, u, M, pos) BY <1>1, <1>2 DEF Listed
<1> HIDE DEF M
<1>4. OnList(w, u) = M BY <1>0, <1>3, OnListIs
<1> QED BY <1>4 DEF M, Behind

(* What a list is depends on its members only. *)
LEMMA ListedFrame ==
    ASSUME NEW np, NEW head, NEW L, NEW pos, Listed(np, head, L, pos), NEW np1, NEW pos1,
           \A u \in L : np1[u] = np[u] /\ pos1[u] = pos[u]
    PROVE  Listed(np1, head, L, pos1)
<1>1. \A u \in L : NextOn(L, pos, u, np[u]) BY DEF Listed
<1>2. ASSUME NEW u \in L PROVE NextOn(L, pos1, u, np1[u])
  BY <1>1 DEF NextOn
<1> QED BY <1>2 DEF Listed

(* A structure is put at the head. *)
LEMMA Push ==
    ASSUME NEW np \in [Undo -> Undo \cup {NULL}], NEW head, NEW L \in SUBSET Undo,
           NEW pos, Positions(pos), Listed(np, head, L, pos), NEW u \in Undo \ L
    PROVE  \E pos1 : /\ Positions(pos1) /\ \A v \in Undo \ {u} : pos1[v] = pos[v]
                     /\ Listed([np EXCEPT ![u] = head], u, L \cup {u}, pos1)
<1>1. PICK b \in Nat : \A v \in Undo : pos[v] <= b BY DEF Positions
<1>0. pos \in [Undo -> Nat] BY DEF Positions
<1> DEFINE p1 == [pos EXCEPT ![u] = b + 1]
           n1 == [np EXCEPT ![u] = head]
           M  == L \cup {u}
<1>2. p1 \in [Undo -> Nat] /\ p1[u] = b + 1 /\ \A v \in Undo \ {u} : p1[v] = pos[v]
  BY <1>0
<1>3. \A v \in Undo : p1[v] <= b + 1
  <2>1. ASSUME NEW v \in Undo PROVE p1[v] <= b + 1
    <3>1. pos[v] \in Nat /\ pos[v] <= b BY <1>0, <1>1
    <3> QED BY <1>2, <3>1
  <2> QED BY <2>1
<1>4. Positions(p1) BY <1>2, <1>3 DEF Positions
<1>5. n1[u] = head /\ \A v \in L : n1[v] = np[v] OBVIOUS
<1>6. \A v \in L : p1[v] = pos[v] /\ pos[v] < p1[u] /\ pos[v] \in Nat
  <2>1. ASSUME NEW v \in L PROVE p1[v] = pos[v] /\ pos[v] < p1[u] /\ pos[v] \in Nat
    <3>1. pos[v] \in Nat /\ pos[v] <= b BY <1>0, <1>1
    <3> QED BY <1>2, <3>1
  <2> QED BY <2>1
<1> HIDE DEF p1, n1
<1>7. ASSUME NEW v \in M PROVE NextOn(M, p1, v, n1[v])
  <2>1. CASE v = u
    <3>1. CASE head \in L /\ \A z \in L : pos[z] <= pos[head]
      BY <2>1, <3>1, <1>2, <1>5, <1>6 DEF NextOn
    <3>2. CASE head = NULL /\ L = {}
      BY <2>1, <3>2, <1>2, <1>5, <1>6 DEF NextOn
    <3> QED BY <3>1, <3>2 DEF Listed
  <2>2. CASE v \in L
    <3>1. NextOn(L, pos, v, np[v]) BY <2>2 DEF Listed
    <3>2. CASE np[v] \in L /\ pos[np[v]] < pos[v]
               /\ \A z \in L : pos[z] < pos[v] => pos[z] <= pos[np[v]]
      <4>1. n1[v] \in M /\ p1[n1[v]] < p1[v] BY <2>2, <3>2, <1>5, <1>6
      <4>2. ASSUME NEW z \in M, p1[z] < p1[v] PROVE p1[z] <= p1[n1[v]]
        <5>1. z # u BY <4>2, <2>2, <1>6, <1>2
        <5> QED BY <5>1, <4>2, <2>2, <3>2, <1>5, <1>6
      <4> QED BY <4>1, <4>2 DEF NextOn
    <3>3. CASE np[v] = NULL /\ \A z \in L : ~(pos[z] < pos[v])
      <4>1. ASSUME NEW z \in M PROVE ~(p1[z] < p1[v])
        BY <2>2, <3>3, <1>2, <1>6
      <4> QED BY <4>1, <2>2, <3>3, <1>5 DEF NextOn
    <3> QED BY <3>1, <3>2, <3>3 DEF NextOn
  <2> QED BY <2>1, <2>2
<1>8. \A v, z \in M : p1[v] = p1[z] => v = z
  <2>1. ASSUME NEW v \in M, NEW z \in M, p1[v] = p1[z] PROVE v = z
    <3>1. CASE v = u \/ z = u BY <3>1, <2>1, <1>2, <1>6
    <3>2. CASE v \in L /\ z \in L BY <3>2, <2>1, <1>6 DEF Listed
    <3> QED BY <3>1, <3>2
  <2> QED BY <2>1
<1>9. u \in M /\ \A v \in M : p1[v] <= p1[u]
  BY <1>2, <1>6
<1>10. Listed(n1, u, M, p1) BY <1>7, <1>8, <1>9 DEF Listed
<1> QED BY <1>4, <1>2, <1>10 DEF n1

(* How many entries a function of them has; Count of a structure. *)
Size(e) == Cardinality({k \in UndoKey : e[k] # 0})

(* There are finitely many entries in a structure. *)
LEMMA KeysFinite == IsFiniteSet(UndoKey)
<1>1. IsFiniteSet(Semid) /\ IsFiniteSet(Semnum)
  BY SemAssumption, FS_Interval DEF Semid, Semnum
<1> QED BY <1>1, FS_Product DEF UndoKey

(* How the number of entries changes with one of them. *)
LEMMA SizeFacts ==
    ASSUME NEW e \in [UndoKey -> Int]
    PROVE  /\ Size(e) \in Nat
           /\ Size(e) = 0 <=> e = NoEntry
           /\ \A k \in UndoKey, x \in Int :
                 LET f == [e EXCEPT ![k] = x]
                 IN  Size(f) = IF e[k] = 0 /\ x # 0 THEN Size(e) + 1
                               ELSE IF e[k] # 0 /\ x = 0 THEN Size(e) - 1 ELSE Size(e)
<1> DEFINE S(g) == {k \in UndoKey : g[k] # 0}
<1>1. ASSUME NEW g \in [UndoKey -> Int] PROVE IsFiniteSet(S(g)) /\ Size(g) \in Nat /\ Size(g) = Cardinality(S(g))
  BY KeysFinite, FS_Subset, FS_CardinalityType DEF Size
<1>2. Size(e) = 0 <=> S(e) = {} BY <1>1, FS_EmptySet
<1>3. S(e) = {} <=> e = NoEntry BY DEF NoEntry
<1>4. ASSUME NEW k \in UndoKey, NEW x \in Int
      PROVE  Size([e EXCEPT ![k] = x]) = IF e[k] = 0 /\ x # 0 THEN Size(e) + 1
                               ELSE IF e[k] # 0 /\ x = 0 THEN Size(e) - 1 ELSE Size(e)
  <2> DEFINE f == [e EXCEPT ![k] = x]
  <2>1. f \in [UndoKey -> Int] /\ f[k] = x /\ \A j \in UndoKey \ {k} : f[j] = e[j] OBVIOUS
  <2>2. Size(f) = Cardinality(S(f)) /\ Size(e) = Cardinality(S(e))
        /\ IsFiniteSet(S(f)) /\ IsFiniteSet(S(e))
    BY <1>1, <2>1
  <2>3. CASE e[k] = 0 /\ x # 0
    <3>1. S(f) = S(e) \cup {k} /\ k \notin S(e) BY <2>1, <2>3
    <3> QED BY <2>2, <2>3, <3>1, FS_AddElement
  <2>4. CASE e[k] # 0 /\ x = 0
    <3>1. S(f) = S(e) \ {k} /\ k \in S(e) BY <2>1, <2>4
    <3> QED BY <2>2, <2>4, <3>1, FS_RemoveElement
  <2>5. CASE (e[k] = 0) <=> (x = 0)
    <3>1. S(f) = S(e) BY <2>1, <2>5
    <3> QED BY <2>2, <2>5, <3>1
  <2> QED BY <2>3, <2>4, <2>5
<1> QED BY <1>1, <1>2, <1>3, <1>4

(* un_cnt is that number, and 0 just for a structure without entries. *)
LEMMA CountFacts ==
    ASSUME NEW w \in UndoType, NEW u \in Undo
    PROVE  /\ Count(w, u) = Size(w.aoe[u]) /\ w.aoe[u] \in [UndoKey -> Int]
           /\ Count(w, u) \in Nat
           /\ Count(w, u) = 0 <=> w.aoe[u] = NoEntry
<1>1. Count(w, u) = Size(w.aoe[u]) /\ w.aoe[u] \in [UndoKey -> Int]
  BY DEF Count, Size, UndoType
<1> QED BY <1>1, SizeFacts

(* Taking a structure off the list of those with entries. *)
LEMMA UnlinkFacts ==
    ASSUME NEW w \in UndoType, NEW L \in SUBSET Undo, NEW pos, Positions(pos),
           Listed(w.np, w.semunp, L, pos), NEW u \in L
    PROVE  LET r == Unlink(w, u)
           IN  /\ r \in UndoType /\ r.aoe = w.aoe /\ r.semfup = w.semfup
               /\ r.sem_undo = w.sem_undo /\ \A v \in Undo \ L : r.np[v] = w.np[v]
               /\ Listed(r.np, r.semunp, L \ {u}, pos)
<1> DEFINE r == Unlink(w, u)
           K == L \ {u}
<1> USE SemAssumption
<1>0. pos \in [Undo -> Nat] /\ u \in Undo /\ w.np \in [Undo -> Undo \cup {NULL}]
      /\ \A v \in L : pos[v] \in Nat
  BY DEF Positions, UndoType
<1>n. \A v \in L : NextOn(L, pos, v, w.np[v]) BY DEF Listed
<1>i. \A v, z \in L : pos[v] = pos[z] => v = z BY DEF Listed
<1>j. \A v, z \in K : pos[v] = pos[z] => v = z BY <1>i
\* Those that do not lead to u lead on as before.
<1>k. ASSUME NEW v \in K, w.np[v] # u PROVE NextOn(K, pos, v, w.np[v])
  <2>1. CASE w.np[v] \in L BY <2>1, <1>k, <1>n DEF NextOn
  <2>2. CASE w.np[v] \notin L BY <2>2, <1>n DEF NextOn
  <2> QED BY <2>1, <2>2
<1>1. CASE w.semunp = u
  <2>1. r = [w EXCEPT !.semunp = w.np[u]] BY <1>1 DEF Unlink
  <2>2. /\ r \in UndoType /\ r.aoe = w.aoe /\ r.semfup = w.semfup /\ r.np = w.np
        /\ r.sem_undo = w.sem_undo /\ r.semunp = w.np[u]
    BY <2>1, <1>0 DEF UndoType
  <2>3. \A v \in L : pos[v] <= pos[u] BY <1>1 DEF Listed
  <2>4. \A v \in K : pos[v] < pos[u] BY <2>3, <1>0, <1>i
  <2>5. NextOn(L, pos, u, w.np[u]) BY <1>n
  <2>6. \/ w.np[u] \in K /\ \A v \in K : pos[v] <= pos[w.np[u]]
        \/ w.np[u] = NULL /\ K = {}
    <3>1. CASE w.np[u] \in L /\ pos[w.np[u]] < pos[u]
               /\ \A v \in L : pos[v] < pos[u] => pos[v] <= pos[w.np[u]]
      <4>1. w.np[u] # u BY <3>1, <1>0
      <4> QED BY <4>1, <3>1, <2>4
    <3>2. CASE w.np[u] = NULL /\ \A v \in L : ~(pos[v] < pos[u])
      BY <3>2, <2>4
    <3> QED BY <2>5, <3>1, <3>2 DEF NextOn
  <2>7. ASSUME NEW v \in K PROVE w.np[v] # u
    BY <2>4, <1>n, <1>0 DEF NextOn
  <2>8. Listed(w.np, w.np[u], K, pos)
    BY <2>6, <2>7, <1>j, <1>k DEF Listed
  <2> QED BY <2>2, <2>8
<1>2. CASE w.semunp # u
  <2> DEFINE A == {v \in L : pos[u] < pos[v]}
             P == {v \in OnList(w, w.semunp) : w.np[v] = u}
  <2>1. OnList(w, w.semunp) = L BY OnListIs
  <2>2. A # {}
    <3>1. w.semunp \in L /\ pos[u] <= pos[w.semunp] BY DEF Listed
    <3> QED BY <3>1, <1>2, <1>0, <1>i
  <2>3. PICK v \in A : \A z \in A : pos[v] <= pos[z] BY <2>2, Lowest
  <2>4. w.np[v] = u
    <3>1. w.np[v] \in L /\ pos[w.np[v]] < pos[v] /\ pos[u] <= pos[w.np[v]]
      BY <2>3, <1>n DEF NextOn
    <3>2. ~(pos[u] < pos[w.np[v]]) BY <3>1, <2>3, <1>0
    <3> QED BY <3>1, <3>2, <1>0, <1>i
  <2>5. ASSUME NEW z \in L, w.np[z] = u PROVE z = v
    <3>1. NextOn(L, pos, z, u) /\ NextOn(L, pos, v, u) BY <2>3, <2>4, <2>5, <1>n
    <3>2. pos[u] < pos[z] /\ pos[u] < pos[v] BY <3>1 DEF NextOn
    <3>3. ~(pos[z] < pos[v]) /\ ~(pos[v] < pos[z])
      BY <3>1, <3>2, <2>3, <1>0 DEF NextOn
    <3> QED BY <3>3, <2>3, <1>0, <1>i
  <2>6. P = {v} BY <2>1, <2>3, <2>4, <2>5
  <2>7. (CHOOSE z \in P : TRUE) = v BY <2>6
  <2>8. r = [w EXCEPT !.np[v] = w.np[u]]
    <3>1. r = IF P = {} THEN w ELSE [w EXCEPT !.np[CHOOSE z \in P : TRUE] = w.np[u]]
      BY <1>2 DEF Unlink
    <3> QED BY <3>1, <2>6, <2>7
  <2>9. /\ r \in UndoType /\ r.aoe = w.aoe /\ r.semfup = w.semfup /\ r.semunp = w.semunp
        /\ r.sem_undo = w.sem_undo /\ r.np = [w.np EXCEPT ![v] = w.np[u]]
    <3> DEFINE m == [w.np EXCEPT ![v] = w.np[u]]
    <3>1. m \in [Undo -> Undo \cup {NULL}] BY <1>0, <2>3
    <3>2. r = [w EXCEPT !.np = m] BY <2>8
    <3> HIDE DEF m, r
    <3>3. /\ r \in UndoType /\ r.aoe = w.aoe /\ r.semfup = w.semfup /\ r.semunp = w.semunp
          /\ r.sem_undo = w.sem_undo /\ r.np = m
      BY <3>1, <3>2 DEF UndoType
    <3> QED BY <3>3 DEF m
  <2>10. r.np[v] = w.np[u] /\ \A z \in Undo \ {v} : r.np[z] = w.np[z]
    BY <2>9, <2>3, <1>0
  <2>11. v \in K BY <2>3, <1>0
  <2>12. NextOn(K, pos, v, w.np[u])
    <3>1. NextOn(L, pos, u, w.np[u]) /\ NextOn(L, pos, v, u) BY <1>n, <2>3, <2>4
    <3>2. \A z \in K : pos[z] < pos[v] => pos[z] < pos[u]
      BY <3>1, <1>0, <1>i DEF NextOn
    <3>3. pos[u] < pos[v] BY <2>3
    <3>4. CASE w.np[u] \in L /\ pos[w.np[u]] < pos[u]
               /\ \A z \in L : pos[z] < pos[u] => pos[z] <= pos[w.np[u]]
      <4>1. w.np[u] \in K BY <3>4, <1>0
      <4>2. pos[w.np[u]] < pos[v] BY <3>4, <3>3, <1>0, <2>3
      <4>3. \A z \in K : pos[z] < pos[v] => pos[z] <= pos[w.np[u]] BY <3>2, <3>4
      <4> QED BY <4>1, <4>2, <4>3 DEF NextOn
    <3>5. CASE w.np[u] = NULL /\ \A z \in L : ~(pos[z] < pos[u])
      BY <3>5, <3>2 DEF NextOn
    <3> QED BY <3>1, <3>4, <3>5 DEF NextOn
  <2>13. ASSUME NEW z \in K PROVE NextOn(K, pos, z, r.np[z])
    <3>1. CASE z = v BY <3>1, <2>10, <2>12
    <3>2. CASE z # v BY <3>2, <2>5, <2>10, <1>k
    <3> QED BY <3>1, <3>2
  <2>14. w.semunp \in K /\ \A z \in K : pos[z] <= pos[w.semunp]
    BY <1>2 DEF Listed
  <2>15. Listed(r.np, r.semunp, K, pos)
    BY <2>9, <2>13, <2>14, <1>j DEF Listed
  <2> QED BY <2>9, <2>10, <2>11, <2>15
<1> QED BY <1>1, <1>2

(***************************************************************************)
(* What the undo structures satisfy: the free list holds those that no     *)
(* living process has, the list semunp those with entries.                 *)
(***************************************************************************)

(* The structures that living processes have. *)
Owned(w, lv) == {w.sem_undo[p] : p \in {q \in Proc : lv[q]}} \ {NULL}

(* The structures with entries. *)
Filled(w) == {u \in Undo : w.aoe[u] # NoEntry}

(* The free list and the list semunp, with positions they share. *)
Lists(w, lv, pos) ==
    /\ Positions(pos)
    /\ Listed(w.np, w.semfup, Undo \ Owned(w, lv), pos)
    /\ Listed(w.np, w.semunp, Filled(w), pos)

(* No structure belongs to two living processes. *)
Private(w, lv) ==
    \A p, q \in Proc : p # q /\ lv[p] /\ lv[q] /\ w.sem_undo[p] # NULL =>
        w.sem_undo[p] # w.sem_undo[q]

(* Types, limits, owners and lists of the undo structures. *)
UndoOK(w, lv) ==
    /\ w \in UndoType
    /\ \A u \in Undo, k \in UndoKey : ~TooLarge(w.aoe[u][k])
    /\ \A u \in Undo : Size(w.aoe[u]) <= SEMUME
    /\ Filled(w) \subseteq Owned(w, lv)
    /\ Private(w, lv)
    /\ \E pos : Lists(w, lv, pos)

(* The head is taken off a list. *)
LEMMA Pop ==
    ASSUME NEW np, NEW u, NEW L \in SUBSET Undo, NEW pos, Positions(pos),
           Listed(np, u, L, pos), u \in L
    PROVE  Listed(np, np[u], L \ {u}, pos)
<1> DEFINE K == L \ {u}
<1>0. \A v \in L : pos[v] \in Nat BY DEF Positions
<1>1. \A v, z \in L : pos[v] = pos[z] => v = z BY DEF Listed
<1>2. \A v \in L : NextOn(L, pos, v, np[v]) BY DEF Listed
<1>3. u # NULL BY SemAssumption
<1>4. \A v \in K : pos[v] < pos[u] BY <1>0, <1>1, <1>3 DEF Listed
<1>5. ASSUME NEW v \in K PROVE NextOn(K, pos, v, np[v])
  <2>1. np[v] # u BY <1>0, <1>2, <1>3, <1>4 DEF NextOn
  <2>2. CASE np[v] \in L BY <2>1, <2>2, <1>2 DEF NextOn
  <2>3. CASE np[v] \notin L BY <2>3, <1>2 DEF NextOn
  <2> QED BY <2>2, <2>3
<1>6. \/ np[u] \in K /\ \A v \in K : pos[v] <= pos[np[u]]
      \/ np[u] = NULL /\ K = {}
  <2>1. CASE np[u] \in L /\ pos[np[u]] < pos[u]
             /\ \A v \in L : pos[v] < pos[u] => pos[v] <= pos[np[u]]
    <3>1. np[u] # u BY <2>1, <1>0
    <3> QED BY <3>1, <2>1, <1>4
  <2>2. CASE np[u] = NULL /\ \A v \in L : ~(pos[v] < pos[u])
    BY <2>2, <1>4
  <2> QED BY <1>2, <2>1, <2>2 DEF NextOn
<1>7. \A v, z \in K : pos[v] = pos[z] => v = z BY <1>1
<1> QED BY <1>5, <1>6, <1>7 DEF Listed

(* semaoe's structure: the process's own, or one from the free list. *)
LEMMA UndoForFacts ==
    ASSUME NEW w, NEW lv, UndoOK(w, lv), NEW p \in Proc, lv[p],
           w.sem_undo[p] # NULL \/ w.semfup # NULL
    PROVE  LET w1 == UndoFor(w, p)
           IN  /\ UndoOK(w1, lv) /\ w1.aoe = w.aoe /\ Aoe(w1, p) = Aoe(w, p)
               /\ w1.sem_undo[p] \in Owned(w1, lv) /\ w1.sem_undo[p] \in Undo
<1> DEFINE w1 == UndoFor(w, p)
<1> USE SemAssumption
<1>t. /\ w \in UndoType /\ w.sem_undo \in [Proc -> Undo \cup {NULL}]
      /\ w.np \in [Undo -> Undo \cup {NULL}]
  BY DEF UndoOK, UndoType
<1>1. CASE w.sem_undo[p] # NULL
  BY <1>1, <1>t DEF UndoFor, Owned
<1>2. CASE w.sem_undo[p] = NULL
  <2> DEFINE u == w.semfup
             so == [w.sem_undo EXCEPT ![p] = u]
             nx == [w.np EXCEPT ![u] = NULL]
             F == Undo \ Owned(w, lv)
  <2>1. PICK pos : Lists(w, lv, pos) BY DEF UndoOK
  <2>2. u \in F /\ u \in Undo /\ u \notin Owned(w, lv) /\ u # NULL
    BY <1>2, <2>1 DEF Lists, Listed
  <2>3. w.np[u] \in Undo \cup {NULL} /\ so \in [Proc -> Undo \cup {NULL}]
        /\ nx \in [Undo -> Undo \cup {NULL}]
    BY <2>2, <1>t
  <2>4. w1 = [w EXCEPT !.sem_undo = so, !.semfup = w.np[u], !.np = nx]
    BY <1>2 DEF UndoFor
  <2>5. so[p] = u /\ \A q \in Proc \ {p} : so[q] = w.sem_undo[q] BY <1>t
  <2>6. nx[u] = NULL /\ \A v \in Undo \ {u} : nx[v] = w.np[v] BY <1>t, <2>2
  <2> HIDE DEF so, nx, u, w1
  <2>7. /\ w1 \in UndoType /\ w1.aoe = w.aoe /\ w1.np = nx /\ w1.sem_undo = so
        /\ w1.semfup = w.np[u] /\ w1.semunp = w.semunp
    BY <2>3, <2>4, <1>t DEF UndoType
  <2>8. Owned(w1, lv) = Owned(w, lv) \cup {u}
    BY <2>7, <2>5, <2>2, <1>2, <1>t DEF Owned
  <2>9. Filled(w1) = Filled(w) /\ u \notin Filled(w)
    BY <2>7, <2>2 DEF Filled, UndoOK
  <2>10. Private(w1, lv)
    <3>1. ASSUME NEW q \in Proc, lv[q], q # p PROVE w.sem_undo[q] # u
      BY <3>1, <2>2 DEF Owned
    <3> QED BY <3>1, <2>5, <2>7 DEF Private, UndoOK
  <2>11. Undo \ Owned(w1, lv) = F \ {u} BY <2>8
  <2>12. Listed(w.np, w.np[u], F \ {u}, pos)
    <3>1. Listed(w.np, u, F, pos) /\ Positions(pos) BY <2>1 DEF Lists, u
    <3> QED BY <3>1, <2>2, Pop
  <2>13. Listed(w1.np, w1.semfup, Undo \ Owned(w1, lv), pos)
    <3>1. \A v \in F \ {u} : nx[v] = w.np[v] BY <2>6
    <3>2. Listed(nx, w.np[u], F \ {u}, pos) BY <2>12, <3>1, ListedFrame
    <3> QED BY <3>2, <2>7, <2>11
  <2>14. Listed(w1.np, w1.semunp, Filled(w1), pos)
    <3>1. \A v \in Filled(w) : nx[v] = w.np[v] BY <2>6, <2>9 DEF Filled
    <3>2. Listed(w.np, w.semunp, Filled(w), pos) BY <2>1 DEF Lists
    <3>3. Listed(nx, w.semunp, Filled(w), pos) BY <3>1, <3>2, ListedFrame
    <3> QED BY <3>3, <2>7, <2>9
  <2>15. Lists(w1, lv, pos) BY <2>1, <2>13, <2>14 DEF Lists
  <2>16. UndoOK(w1, lv)
    BY <2>7, <2>8, <2>9, <2>10, <2>15 DEF UndoOK
  <2>17. Aoe(w1, p) = Aoe(w, p)
    BY <1>2, <2>2, <2>5, <2>7, <2>9 DEF Aoe, Filled
  <2> QED BY <2>16, <2>17, <2>7, <2>8, <2>5, <2>2 DEF w1
<1> QED BY <1>1, <1>2

(* An entry of a structure that a process has takes a new value, and the   *)
(* structure joins or leaves the list semunp.                              *)
SetAoe(w, u, k, x) == [w EXCEPT !.aoe[u][k] = x]

(* Only the one entry changes. *)
LEMMA SetAoeFacts ==
    ASSUME NEW w \in UndoType, NEW u \in Undo, NEW k \in UndoKey, NEW x \in Int
    PROVE  LET r == SetAoe(w, u, k, x)
           IN  /\ r \in UndoType /\ r.np = w.np /\ r.semunp = w.semunp /\ r.semfup = w.semfup
               /\ r.sem_undo = w.sem_undo /\ r.aoe[u] = [w.aoe[u] EXCEPT ![k] = x]
               /\ \A v \in Undo \ {u} : r.aoe[v] = w.aoe[v]
<1> DEFINE e == [w.aoe[u] EXCEPT ![k] = x]
           a == [w.aoe EXCEPT ![u] = e]
           r == SetAoe(w, u, k, x)
<1>1. w.aoe \in [Undo -> [UndoKey -> Int]] BY DEF UndoType
<1>2. e \in [UndoKey -> Int] BY <1>1
<1>3. r = [w EXCEPT !.aoe = a] BY DEF SetAoe
<1> HIDE DEF e
<1>4. a \in [Undo -> [UndoKey -> Int]] /\ a[u] = e /\ \A v \in Undo \ {u} : a[v] = w.aoe[v]
  BY <1>1, <1>2
<1> HIDE DEF a, r
<1>5. /\ r \in UndoType /\ r.np = w.np /\ r.semunp = w.semunp /\ r.semfup = w.semfup
      /\ r.sem_undo = w.sem_undo /\ r.aoe = a
  BY <1>3, <1>4 DEF UndoType
<1> QED BY <1>4, <1>5 DEF e, r

(* The first entry of a structure: it goes to the head of semunp. *)
LEMMA FirstEntry ==
    ASSUME NEW w, NEW lv, UndoOK(w, lv), NEW u \in Owned(w, lv), u \in Undo,
           NEW k \in UndoKey, NEW x \in Int, ~TooLarge(x), x # 0,
           w.aoe[u] = NoEntry, SEMUME >= 1
    PROVE  LET r == Link(SetAoe(w, u, k, x), u)
           IN  UndoOK(r, lv) /\ r.sem_undo = w.sem_undo
               /\ r.aoe[u] = [w.aoe[u] EXCEPT ![k] = x]
               /\ \A v \in Undo \ {u} : r.aoe[v] = w.aoe[v]
<1> DEFINE m == SetAoe(w, u, k, x)
           nx == [w.np EXCEPT ![u] = w.semunp]
           r == Link(m, u)
<1>t. w \in UndoType BY DEF UndoOK
<1>1. /\ m \in UndoType /\ m.np = w.np /\ m.semunp = w.semunp /\ m.semfup = w.semfup
      /\ m.sem_undo = w.sem_undo /\ m.aoe[u] = [w.aoe[u] EXCEPT ![k] = x]
      /\ \A v \in Undo \ {u} : m.aoe[v] = w.aoe[v]
  BY <1>t, SetAoeFacts
<1>2. r = [m EXCEPT !.np = nx, !.semunp = u] BY <1>1 DEF Link
<1>3. nx \in [Undo -> Undo \cup {NULL}] /\ \A v \in Undo \ {u} : nx[v] = w.np[v]
  BY <1>t DEF UndoType
<1>0. w.np \in [Undo -> Undo \cup {NULL}] /\ w.aoe[u] \in [UndoKey -> Int] BY <1>t DEF UndoType
<1>9. m.aoe[u] \in [UndoKey -> Int] /\ m.aoe[u][k] = x
      /\ \A j \in UndoKey \ {k} : m.aoe[u][j] = w.aoe[u][j]
  BY <1>0, <1>1
<1> HIDE DEF m, nx, r
<1>4. /\ r \in UndoType /\ r.np = nx /\ r.semunp = u /\ r.semfup = m.semfup
      /\ r.sem_undo = m.sem_undo /\ r.aoe = m.aoe
  BY <1>1, <1>2, <1>3 DEF UndoType
<1>5. PICK pos : Lists(w, lv, pos) BY DEF UndoOK
<1>6. u \notin Filled(w) /\ Filled(r) = Filled(w) \cup {u}
  <2>1. u \notin Filled(w) BY DEF Filled
  <2>2. m.aoe[u] # NoEntry BY <1>9 DEF NoEntry
  <2> QED BY <2>1, <2>2, <1>1, <1>4 DEF Filled
<1>7. PICK pos1 : /\ Positions(pos1) /\ \A v \in Undo \ {u} : pos1[v] = pos[v]
                  /\ Listed(nx, u, Filled(w) \cup {u}, pos1)
  <2>1. Listed(w.np, w.semunp, Filled(w), pos) /\ Positions(pos) /\ Filled(w) \in SUBSET Undo
    BY <1>5 DEF Lists, Filled
  <2>2. \E pos1 : /\ Positions(pos1) /\ \A v \in Undo \ {u} : pos1[v] = pos[v]
                  /\ Listed([w.np EXCEPT ![u] = w.semunp], u, Filled(w) \cup {u}, pos1)
    <3> DEFINE L == Filled(w)
               np == w.np
               h == w.semunp
    <3>1. u \in Undo \ L /\ np \in [Undo -> Undo \cup {NULL}] /\ L \in SUBSET Undo
          /\ Listed(np, h, L, pos) /\ Positions(pos)
      BY <2>1, <1>0, <1>6
    <3> HIDE DEF L, np, h
    <3>2. \E pos1 : /\ Positions(pos1) /\ \A v \in Undo \ {u} : pos1[v] = pos[v]
                    /\ Listed([np EXCEPT ![u] = h], u, L \cup {u}, pos1)
      BY <3>1, Push
    <3> QED BY <3>2 DEF L, np, h
  <2> QED BY <2>2 DEF nx
<1>8. Owned(r, lv) = Owned(w, lv) BY <1>1, <1>4 DEF Owned
<1>10. Listed(nx, w.semfup, Undo \ Owned(w, lv), pos1)
  <2>1. Listed(w.np, w.semfup, Undo \ Owned(w, lv), pos) BY <1>5 DEF Lists
  <2>2. \A v \in Undo \ Owned(w, lv) : nx[v] = w.np[v] /\ pos1[v] = pos[v]
    BY <1>3, <1>7
  <2> QED BY <2>1, <2>2, ListedFrame
<1>11. Lists(r, lv, pos1) BY <1>1, <1>4, <1>6, <1>7, <1>8, <1>10 DEF Lists
<1>12. Size(m.aoe[u]) <= SEMUME
  <2>1. Size(NoEntry) = 0 /\ w.aoe[u][k] = 0 BY <1>0, SizeFacts DEF NoEntry
  <2>2. Size([w.aoe[u] EXCEPT ![k] = x]) = IF w.aoe[u][k] = 0 /\ x # 0 THEN Size(w.aoe[u]) + 1
               ELSE IF w.aoe[u][k] # 0 /\ x = 0 THEN Size(w.aoe[u]) - 1 ELSE Size(w.aoe[u])
    <3> DEFINE e == w.aoe[u]
    <3>1. e \in [UndoKey -> Int] BY <1>0
    <3> HIDE DEF e
    <3>2. Size([e EXCEPT ![k] = x]) = IF e[k] = 0 /\ x # 0 THEN Size(e) + 1
             ELSE IF e[k] # 0 /\ x = 0 THEN Size(e) - 1 ELSE Size(e)
      BY <3>1, SizeFacts
    <3> QED BY <3>2 DEF e
  <2>3. Size([w.aoe[u] EXCEPT ![k] = x]) = 1 BY <2>1, <2>2
  <2> QED BY <2>3, <1>1, SemAssumption
<1>13. \A v \in Undo : Size(r.aoe[v]) <= SEMUME
  BY <1>1, <1>4, <1>12 DEF UndoOK
<1>14. \A v \in Undo, j \in UndoKey : ~TooLarge(r.aoe[v][j])
  <2>1. \A j \in UndoKey : r.aoe[u][j] = IF j = k THEN x ELSE w.aoe[u][j] BY <1>4, <1>9
  <2> QED BY <2>1, <1>1, <1>4 DEF UndoOK
<1>15. Private(r, lv) BY <1>1, <1>4 DEF UndoOK, Private
<1>16. Filled(r) \subseteq Owned(r, lv) BY <1>6, <1>8 DEF UndoOK
<1>17. UndoOK(r, lv) BY <1>4, <1>11, <1>13, <1>14, <1>15, <1>16 DEF UndoOK
<1> QED BY <1>17, <1>1, <1>4 DEF r, m

(* The last entry of a structure goes, and the structure leaves semunp. *)
LEMMA LastEntry ==
    ASSUME NEW w, NEW lv, UndoOK(w, lv), NEW u \in Owned(w, lv), u \in Undo,
           NEW k \in UndoKey, w.aoe[u] # NoEntry, \A j \in UndoKey \ {k} : w.aoe[u][j] = 0
    PROVE  LET r == [Unlink(SetAoe(w, u, k, 0), u) EXCEPT !.np[u] = NULL]
           IN  UndoOK(r, lv) /\ r.sem_undo = w.sem_undo
               /\ r.aoe[u] = [w.aoe[u] EXCEPT ![k] = 0]
               /\ \A v \in Undo \ {u} : r.aoe[v] = w.aoe[v]
<1> DEFINE m == SetAoe(w, u, k, 0)
           n == Unlink(m, u)
           nx == [n.np EXCEPT ![u] = NULL]
           r == [n EXCEPT !.np[u] = NULL]
<1>t. w \in UndoType BY DEF UndoOK
<1>e. [w.aoe[u] EXCEPT ![k] = 0] = NoEntry
  <2>1. w.aoe[u] \in [UndoKey -> Int] BY <1>t DEF UndoType
  <2> QED BY <2>1 DEF NoEntry
<1>1. /\ m \in UndoType /\ m.np = w.np /\ m.semunp = w.semunp /\ m.semfup = w.semfup
      /\ m.sem_undo = w.sem_undo /\ m.aoe[u] = [w.aoe[u] EXCEPT ![k] = 0]
      /\ \A v \in Undo \ {u} : m.aoe[v] = w.aoe[v]
  BY <1>t, SetAoeFacts
<1>2. PICK pos : Lists(w, lv, pos) BY DEF UndoOK
<1>3. u \in Filled(w) /\ Filled(w) \in SUBSET Undo BY DEF Filled
<1> HIDE DEF m
<1>4. Listed(m.np, m.semunp, Filled(w), pos) /\ Positions(pos)
  BY <1>1, <1>2 DEF Lists
<1>5. /\ n \in UndoType /\ n.aoe = m.aoe /\ n.semfup = m.semfup
      /\ n.sem_undo = m.sem_undo /\ \A v \in Undo \ Filled(w) : n.np[v] = m.np[v]
      /\ Listed(n.np, n.semunp, Filled(w) \ {u}, pos)
  BY <1>1, <1>3, <1>4, UnlinkFacts
<1> HIDE DEF n
<1>6. n.np \in [Undo -> Undo \cup {NULL}] BY <1>5 DEF UndoType
<1>7. nx \in [Undo -> Undo \cup {NULL}] /\ \A v \in Undo \ {u} : nx[v] = n.np[v] BY <1>6
<1>8. r = [n EXCEPT !.np = nx] OBVIOUS
<1> HIDE DEF nx, r
<1>9. /\ r \in UndoType /\ r.np = nx /\ r.semunp = n.semunp /\ r.semfup = n.semfup
      /\ r.sem_undo = n.sem_undo /\ r.aoe = n.aoe
  BY <1>5, <1>7, <1>8 DEF UndoType
<1>10. Filled(r) = Filled(w) \ {u}
  BY <1>e, <1>1, <1>5, <1>9 DEF Filled
<1>11. Owned(r, lv) = Owned(w, lv) BY <1>1, <1>5, <1>9 DEF Owned
<1>12. Listed(nx, n.semunp, Filled(w) \ {u}, pos)
  <2>1. \A v \in Filled(w) \ {u} : nx[v] = n.np[v] BY <1>7 DEF Filled
  <2> QED BY <2>1, <1>5, ListedFrame
<1>13. Listed(nx, w.semfup, Undo \ Owned(w, lv), pos)
  <2>1. Listed(w.np, w.semfup, Undo \ Owned(w, lv), pos) BY <1>2 DEF Lists
  <2>2. \A v \in Undo \ Owned(w, lv) : nx[v] = w.np[v]
    BY <1>1, <1>5, <1>7 DEF UndoOK
  <2> QED BY <2>1, <2>2, ListedFrame
<1>14. Lists(r, lv, pos) BY <1>1, <1>4, <1>5, <1>9, <1>10, <1>11, <1>12, <1>13 DEF Lists
<1>15. \A v \in Undo : Size(r.aoe[v]) <= SEMUME
  <2>1. Size(NoEntry) = 0
    <3>1. NoEntry \in [UndoKey -> Int] BY DEF NoEntry
    <3> QED BY <3>1, SizeFacts
  <2> QED BY <2>1, <1>e, <1>1, <1>5, <1>9, SemAssumption DEF UndoOK
<1>16. \A v \in Undo, j \in UndoKey : ~TooLarge(r.aoe[v][j])
  <2>1. \A j \in UndoKey : NoEntry[j] = 0 BY DEF NoEntry
  <2>2. ~TooLarge(0) BY SemAssumption DEF TooLarge
  <2> QED BY <2>1, <2>2, <1>e, <1>1, <1>5, <1>9 DEF UndoOK
<1>17. Private(r, lv) BY <1>1, <1>5, <1>9 DEF UndoOK, Private
<1>18. Filled(r) \subseteq Owned(r, lv) BY <1>10, <1>11 DEF UndoOK
<1>19. UndoOK(r, lv) BY <1>9, <1>14, <1>15, <1>16, <1>17, <1>18 DEF UndoOK
<1> QED BY <1>19, <1>1, <1>5, <1>9 DEF r, n, m

(* Any other change of an entry. *)
LEMMA OtherEntry ==
    ASSUME NEW w, NEW lv, UndoOK(w, lv), NEW u \in Owned(w, lv), u \in Undo,
           NEW k \in UndoKey, NEW x \in Int, ~TooLarge(x),
           w.aoe[u] # NoEntry, [w.aoe[u] EXCEPT ![k] = x] # NoEntry,
           w.aoe[u][k] = 0 => Size(w.aoe[u]) < SEMUME
    PROVE  LET r == SetAoe(w, u, k, x)
           IN  UndoOK(r, lv) /\ r.sem_undo = w.sem_undo
               /\ r.aoe[u] = [w.aoe[u] EXCEPT ![k] = x]
               /\ \A v \in Undo \ {u} : r.aoe[v] = w.aoe[v]
<1> DEFINE r == SetAoe(w, u, k, x)
<1>t. w \in UndoType BY DEF UndoOK
<1>1. /\ r \in UndoType /\ r.np = w.np /\ r.semunp = w.semunp /\ r.semfup = w.semfup
      /\ r.sem_undo = w.sem_undo /\ r.aoe[u] = [w.aoe[u] EXCEPT ![k] = x]
      /\ \A v \in Undo \ {u} : r.aoe[v] = w.aoe[v]
  BY <1>t, SetAoeFacts
<1>0. w.aoe[u] \in [UndoKey -> Int] BY <1>t DEF UndoType
<1> HIDE DEF r
<1>2. Filled(r) = Filled(w) BY <1>1 DEF Filled
<1>3. Owned(r, lv) = Owned(w, lv) BY <1>1 DEF Owned
<1>4. \E pos : Lists(r, lv, pos) BY <1>1, <1>2, <1>3 DEF UndoOK, Lists
<1>5. Size(r.aoe[u]) <= SEMUME
  <2>1. Size(w.aoe[u]) \in Nat /\ Size(w.aoe[u]) <= SEMUME /\ SEMUME \in Nat
    BY <1>0, SizeFacts, SemAssumption DEF UndoOK
  <2>2. Size([w.aoe[u] EXCEPT ![k] = x]) = IF w.aoe[u][k] = 0 /\ x # 0 THEN Size(w.aoe[u]) + 1
               ELSE IF w.aoe[u][k] # 0 /\ x = 0 THEN Size(w.aoe[u]) - 1 ELSE Size(w.aoe[u])
    BY <1>0, SizeFacts
  <2> QED BY <1>1, <2>1, <2>2
<1>6. \A v \in Undo : Size(r.aoe[v]) <= SEMUME BY <1>1, <1>5 DEF UndoOK
<1>7. \A v \in Undo, j \in UndoKey : ~TooLarge(r.aoe[v][j])
  <2>1. \A j \in UndoKey : r.aoe[u][j] = IF j = k THEN x ELSE w.aoe[u][j] BY <1>0, <1>1
  <2> QED BY <2>1, <1>1, ZenonT(40) DEF UndoOK
<1>8. Private(r, lv) BY <1>1 DEF UndoOK, Private
<1>9. UndoOK(r, lv) BY <1>1, <1>2, <1>3, <1>4, <1>6, <1>7, <1>8 DEF UndoOK
<1> QED BY <1>1, <1>9 DEF r

(***************************************************************************)
(* Sums over the undo structures.                                          *)
(***************************************************************************)

(* How many undo structures there are, SEMMNU. *)
NUndo == Cardinality(Undo)

(* f lists every structure once. *)
Enumerates(f) ==
    /\ f \in [1 .. NUndo -> Undo]
    /\ \A u \in Undo : \E j \in 1 .. NUndo : \A k \in 1 .. NUndo : f[k] = u <=> k = j

(* The enumeration Total() adds along, semu[]. *)
semuList == CHOOSE f \in [1 .. NUndo -> Undo] :
                \A u \in Undo : \E j \in 1 .. NUndo : \A k \in 1 .. NUndo : f[k] = u <=> k = j

(* s[j] is the sum of the first j. *)
Sums(s, e) == s = [j \in 0 .. NUndo |-> IF j = 0 THEN 0 ELSE s[j - 1] + e[semuList[j]]]

(* There is such an enumeration. *)
LEMMA Listing == NUndo \in Nat /\ Enumerates(semuList)
<1>1. NUndo \in Nat /\ ExistsBijection(1 .. NUndo, Undo) BY SemAssumption, FS_CardinalityType DEF NUndo
<1>2. PICK f : f \in Bijection(1 .. NUndo, Undo) BY <1>1 DEF ExistsBijection
<1>3. f \in [1 .. NUndo -> Undo] /\ (\A m, n \in 1 .. NUndo : f[m] = f[n] => m = n)
      /\ \A u \in Undo : \E j \in 1 .. NUndo : f[j] = u
  BY <1>2 DEF Bijection, Injection, Surjection, IsInjective
<1>4. Enumerates(f) BY <1>3 DEF Enumerates
<1>5. \E g \in [1 .. NUndo -> Undo] :
         \A u \in Undo : \E j \in 1 .. NUndo : \A k \in 1 .. NUndo : g[k] = u <=> k = j
  BY <1>4 DEF Enumerates
<1>6. Enumerates(semuList) BY <1>5, Zenon DEF Enumerates, semuList
<1> QED BY <1>1, <1>6

(* The partial sums exist. *)
LEMMA SumsExist == ASSUME NEW e PROVE \E s : Sums(s, e)
<1> DEFINE Q(m) == \E v : v = [k \in 0 .. m |-> IF k = 0 THEN 0 ELSE v[k - 1] + e[semuList[k]]]
           S == {m \in Nat : ~Q(m)}
<1>0. Q(NUndo)
  <2>0. NUndo \in Nat BY Listing
  <2>1. SUFFICES ASSUME NUndo \in S PROVE FALSE BY <2>0
  <2>2. S \in SUBSET Nat OBVIOUS
  <2>3. PICK m \in S : \A z \in S : m <= z
    <3> HIDE DEF S
    <3> QED BY <2>1, <2>2, Least
  <2>4. m \in Nat /\ ~Q(m) OBVIOUS
  <2>5. CASE m = 0
    <3> DEFINE v == [k \in 0 .. m |-> 0]
    <3>1. v = [k \in 0 .. m |-> IF k = 0 THEN 0 ELSE v[k - 1] + e[semuList[k]]] BY <2>5
    <3> QED BY <2>4, <3>1
  <2>6. CASE m # 0
    <3>1. m - 1 \in Nat /\ ~(m <= m - 1) BY <2>4, <2>6
    <3>2. Q(m - 1) BY <2>3, <3>1
    <3>3. PICK w : w = [k \in 0 .. m - 1 |-> IF k = 0 THEN 0 ELSE w[k - 1] + e[semuList[k]]] BY <3>2
    <3> DEFINE v == [k \in 0 .. m |-> IF k = m THEN w[m - 1] + e[semuList[m]] ELSE w[k]]
    <3>4. \A k \in 0 .. m : v[k] = IF k = 0 THEN 0 ELSE v[k - 1] + e[semuList[k]]
      <4> SUFFICES ASSUME NEW k \in 0 .. m PROVE v[k] = IF k = 0 THEN 0 ELSE v[k - 1] + e[semuList[k]]
        OBVIOUS
      <4>1. CASE k = m
        <5>1. v[k - 1] = w[m - 1] BY <2>4, <2>6, <4>1
        <5> QED BY <2>4, <2>6, <4>1, <5>1
      <4>2. CASE k # m
        <5>1. k \in 0 .. m - 1 /\ v[k] = w[k] BY <2>4, <4>2
        <5>2. w[k] = IF k = 0 THEN 0 ELSE w[k - 1] + e[semuList[k]] BY <3>3, <5>1
        <5>3. k # 0 => v[k - 1] = w[k - 1] BY <2>4, <5>1
        <5> QED BY <5>1, <5>2, <5>3
      <4> QED BY <4>1, <4>2
    <3>5. v = [k \in 0 .. m |-> v[k]] OBVIOUS
    <3> HIDE DEF v
    <3>6. v = [k \in 0 .. m |-> IF k = 0 THEN 0 ELSE v[k - 1] + e[semuList[k]]] BY <3>4, <3>5
    <3> QED BY <2>4, <3>6
  <2> QED BY <2>5, <2>6
<1> QED BY <1>0 DEF Sums

(* Total() is the last of them. *)
LEMMA TotalIs == ASSUME NEW e PROVE \E s : Sums(s, e) /\ Total(e) = s[NUndo]
<1> DEFINE sum == CHOOSE s : s = [j \in 0 .. NUndo |-> IF j = 0 THEN 0 ELSE s[j - 1] + e[semuList[j]]]
<1>1. Sums(sum, e)
  <2>1. \E s : Sums(s, e) BY SumsExist
  <2> QED BY <2>1, Zenon DEF Sums
<1>2. Total(e) = sum[NUndo] BY DEF Total, NUndo, semuList
<1> QED BY <1>1, <1>2

(* What a sum is made of, one structure after the other. *)
LEMMA SumSteps ==
    ASSUME NEW e, NEW s, Sums(s, e)
    PROVE  /\ s[0] = 0
           /\ \A j \in 1 .. NUndo : s[j] = s[j - 1] + e[semuList[j]]
<1>0. NUndo \in Nat BY Listing
<1>1. \A j \in 0 .. NUndo : s[j] = IF j = 0 THEN 0 ELSE s[j - 1] + e[semuList[j]] BY DEF Sums
<1>2. 0 \in 0 .. NUndo BY <1>0
<1>3. \A j \in 1 .. NUndo : j \in 0 .. NUndo /\ j # 0 BY <1>0
<1> QED BY <1>1, <1>2, <1>3

(* If nothing differs but the number of u, by d, so do the sums. *)
LEMMA TotalShift ==
    ASSUME NEW e \in [Undo -> Int], NEW f \in [Undo -> Int], NEW u \in Undo, NEW d \in Int,
           f[u] = e[u] + d, \A v \in Undo \ {u} : f[v] = e[v]
    PROVE  Total(e) \in Int /\ Total(f) = Total(e) + d
<1>1. PICK s : Sums(s, e) /\ Total(e) = s[NUndo] BY TotalIs
<1>2. PICK t : Sums(t, f) /\ Total(f) = t[NUndo] BY TotalIs
<1>3. NUndo \in Nat /\ Enumerates(semuList) BY Listing
<1>4. PICK m \in 1 .. NUndo : \A k \in 1 .. NUndo : semuList[k] = u <=> k = m BY <1>3 DEF Enumerates
<1>5. \A j \in 1 .. NUndo : semuList[j] \in Undo BY <1>3 DEF Enumerates
<1>6. s[0] = 0 /\ \A j \in 1 .. NUndo : s[j] = s[j - 1] + e[semuList[j]] BY <1>1, SumSteps
<1>7. t[0] = 0 /\ \A j \in 1 .. NUndo : t[j] = t[j - 1] + f[semuList[j]] BY <1>2, SumSteps
<1> DEFINE R(j) == s[j] \in Int /\ t[j] = s[j] + (IF m <= j THEN d ELSE 0)
           S == {j \in Nat : j <= NUndo /\ ~R(j)}
<1>8. S = {}
  <2> SUFFICES ASSUME NEW x \in S PROVE FALSE OBVIOUS
  <2>1. S \in SUBSET Nat OBVIOUS
  <2>2. PICK j \in S : \A z \in S : j <= z
    <3> HIDE DEF S
    <3> QED BY <2>1, Least
  <2>3. j \in Nat /\ j <= NUndo /\ ~R(j) OBVIOUS
  <2>4. j # 0 BY <2>3, <1>3, <1>4, <1>6, <1>7
  <2>5. j \in 1 .. NUndo /\ j - 1 \in Nat /\ j - 1 <= NUndo /\ ~(j <= j - 1) BY <2>3, <2>4, <1>3
  <2>6. R(j - 1) BY <2>2, <2>5
  <2>7. /\ semuList[j] \in Undo /\ s[j] = s[j - 1] + e[semuList[j]]
        /\ t[j] = t[j - 1] + f[semuList[j]]
    BY <2>5, <1>5, <1>6, <1>7
  <2>8. e[semuList[j]] \in Int /\ f[semuList[j]] = e[semuList[j]] + (IF j = m THEN d ELSE 0)
    BY <2>5, <2>7, <1>4
  <2> HIDE DEF S
  <2>9. m \in Int /\ j \in Int BY <2>3, <1>3, <1>4
  <2>10. R(j) BY <2>6, <2>7, <2>8, <2>9
  <2> QED BY <2>3, <2>10
<1>9. R(NUndo)
  <2>1. NUndo \notin S BY <1>8
  <2> QED BY <2>1, <1>3
<1>10. m <= NUndo BY <1>3, <1>4
<1> QED BY <1>1, <1>2, <1>9, <1>10

(* A sum of nothing. *)
LEMMA TotalZero ==
    ASSUME NEW e, \A v \in Undo : e[v] = 0
    PROVE  Total(e) = 0
<1>1. PICK s : Sums(s, e) /\ Total(e) = s[NUndo] BY TotalIs
<1>3. NUndo \in Nat /\ Enumerates(semuList) BY Listing
<1>5. \A j \in 1 .. NUndo : semuList[j] \in Undo BY <1>3 DEF Enumerates
<1>6. s[0] = 0 /\ \A j \in 1 .. NUndo : s[j] = s[j - 1] + e[semuList[j]] BY <1>1, SumSteps
<1> DEFINE S == {j \in Nat : j <= NUndo /\ s[j] # 0}
<1>8. S = {}
  <2> SUFFICES ASSUME NEW x \in S PROVE FALSE OBVIOUS
  <2>1. S \in SUBSET Nat OBVIOUS
  <2>2. PICK j \in S : \A z \in S : j <= z
    <3> HIDE DEF S
    <3> QED BY <2>1, Least
  <2>3. j \in Nat /\ j <= NUndo /\ s[j] # 0 OBVIOUS
  <2>4. j # 0 BY <2>3, <1>6
  <2>5. j \in 1 .. NUndo /\ j - 1 \in Nat /\ j - 1 <= NUndo /\ ~(j <= j - 1) BY <2>3, <2>4, <1>3
  <2>6. s[j - 1] = 0 BY <2>2, <2>5
  <2>7. s[j] = 0 + 0 BY <2>5, <2>6, <1>5, <1>6
  <2> QED BY <2>3, <2>7
<1>9. NUndo \notin S BY <1>8
<1> QED BY <1>1, <1>3, <1>9

(* The entries of all structures for one semaphore. *)
Col(w, k) == [u \in Undo |-> w.aoe[u][k]]

(* From w0 to w one structure's entry for k changes by d, or none does. *)
Shifts(w, w0, k, d) ==
    \/ d = 0 /\ \A u \in Undo : w.aoe[u][k] = w0.aoe[u][k]
    \/ \E u \in Undo : /\ w.aoe[u][k] = w0.aoe[u][k] + d
                       /\ \A v \in Undo \ {u} : w.aoe[v][k] = w0.aoe[v][k]

(* The sum of a column changes as its one entry does. *)
LEMMA ColShift ==
    ASSUME NEW w \in UndoType, NEW w0 \in UndoType, NEW k \in UndoKey, NEW d \in Int,
           Shifts(w, w0, k, d)
    PROVE  Total(Col(w0, k)) \in Int /\ Total(Col(w, k)) = Total(Col(w0, k)) + d
<1>0. w.aoe \in [Undo -> [UndoKey -> Int]] /\ w0.aoe \in [Undo -> [UndoKey -> Int]]
  BY DEF UndoType
<1>1. Col(w, k) \in [Undo -> Int] /\ Col(w0, k) \in [Undo -> Int] BY <1>0 DEF Col
<1>2. \A u \in Undo : Col(w, k)[u] = w.aoe[u][k] /\ Col(w0, k)[u] = w0.aoe[u][k] BY DEF Col
<1>3. PICK u \in Undo : /\ Col(w, k)[u] = Col(w0, k)[u] + d
                        /\ \A v \in Undo \ {u} : Col(w, k)[v] = Col(w0, k)[v]
  <2>1. CASE d = 0 /\ \A u \in Undo : w.aoe[u][k] = w0.aoe[u][k]
    <3>1. PICK u \in Undo : TRUE BY SemAssumption
    <3>2. Col(w0, k)[u] \in Int BY <1>1, <3>1
    <3> HIDE DEF Col
    <3>3. Col(w, k)[u] = Col(w0, k)[u] + d BY <2>1, <3>1, <3>2, <1>2
    <3> QED BY <2>1, <3>1, <3>3, <1>2
  <2>2. CASE ~(d = 0 /\ \A u \in Undo : w.aoe[u][k] = w0.aoe[u][k])
    BY <2>2, <1>2 DEF Shifts
  <2> QED BY <2>1, <2>2
<1> QED BY <1>1, <1>3, TotalShift

(* The entries of a process are within semaoe's limits. *)
LEMMA AoeFacts ==
    ASSUME NEW w, NEW lv, UndoOK(w, lv), NEW p \in Proc
    PROVE  /\ Aoe(w, p) \in [UndoKey -> Int] /\ Size(Aoe(w, p)) <= SEMUME
           /\ \A k \in UndoKey : ~TooLarge(Aoe(w, p)[k])
           /\ w.sem_undo[p] # NULL => w.sem_undo[p] \in Undo /\ Aoe(w, p) = w.aoe[w.sem_undo[p]]
<1>1. NoEntry \in [UndoKey -> Int] /\ Size(NoEntry) = 0 /\ \A k \in UndoKey : NoEntry[k] = 0
  <2>1. NoEntry \in [UndoKey -> Int] BY DEF NoEntry
  <2> QED BY <2>1, SizeFacts DEF NoEntry
<1>2. ~TooLarge(0) /\ 0 <= SEMUME BY SemAssumption DEF TooLarge
<1>3. CASE w.sem_undo[p] = NULL
  BY <1>1, <1>2, <1>3 DEF Aoe
<1>4. CASE w.sem_undo[p] # NULL
  <2>1. w.sem_undo[p] \in Undo /\ w.aoe \in [Undo -> [UndoKey -> Int]]
    BY <1>4 DEF UndoOK, UndoType
  <2> QED BY <1>4, <2>1 DEF Aoe, UndoOK
<1> QED BY <1>3, <1>4

(* semaoe keeps the structures in order and changes one entry of one of    *)
(* them, or none.                                                          *)
LEMMA SemaoeFacts ==
    ASSUME NEW w, NEW lv, UndoOK(w, lv), NEW p \in Proc, lv[p], NEW val \in Int,
           NEW id \in Semid, NEW num \in Semnum
    PROVE  LET r == Semaoe(w, p, val, id, num)
               k == <<id, num>>
           IN  /\ UndoOK(r.un, lv)
               /\ Aoe(r.un, p) = IF r.fails \/ val = 0 THEN Aoe(w, p)
                                 ELSE [Aoe(w, p) EXCEPT ![k] = @ - val]
               /\ ~r.fails /\ val # 0 => r.un.sem_undo[p] # NULL /\ ~TooLarge(val)
               /\ w.sem_undo[p] # NULL => r.un.sem_undo[p] # NULL
               /\ \A u \in Undo, j \in UndoKey \ {k} : r.un.aoe[u][j] = w.aoe[u][j]
               /\ r.fails \/ val = 0 => Shifts(r.un, w, k, 0)
               /\ ~r.fails => Shifts(r.un, w, k, -val)
               /\ /\ ~TooLarge(val) /\ w.sem_undo[p] # NULL
                  /\ ~TooLarge(Aoe(w, p)[k] - val)
                  /\ Aoe(w, p)[k] = 0 => Size(Aoe(w, p)) < SEMUME
                  => ~r.fails
<1> DEFINE r == Semaoe(w, p, val, id, num)
           k == <<id, num>>
           w1 == UndoFor(w, p)
           u == w1.sem_undo[p]
           old == w1.aoe[u][k]
           w2 == SetAoe(w1, u, k, old - val)
<1>k. k \in UndoKey BY DEF UndoKey
<1>1. CASE val = 0
  <2>1. r = [fails |-> FALSE, un |-> w] BY <1>1 DEF Semaoe
  <2>2. r.un = w BY <2>1
  <2> HIDE DEF r
  <2>3. Shifts(r.un, w, k, 0) BY <2>2 DEF Shifts
  <2>4. -val = 0
    <3>1. \A x \in Int : x <= 0 /\ x >= 0 => -x <= 0 /\ -x >= 0 OBVIOUS
    <3>2. -val \in Int /\ -val <= 0 /\ -val >= 0 BY <3>1, <1>1
    <3> QED BY <3>2
  <2> QED BY <1>1, <2>1, <2>3, <2>4
<1>2. CASE val # 0 /\ (TooLarge(val) \/ (w.sem_undo[p] = NULL /\ w.semfup = NULL))
  <2>1. r = [fails |-> TRUE, un |-> w] BY <1>2 DEF Semaoe
  <2>2. Shifts(r.un, w, k, 0) BY <2>1 DEF Shifts
  <2> QED BY <1>2, <2>1, <2>2, SMTT(30)
<1>3. CASE val # 0 /\ ~TooLarge(val) /\ ~(w.sem_undo[p] = NULL /\ w.semfup = NULL)
  <2>1. /\ UndoOK(w1, lv) /\ w1.aoe = w.aoe /\ Aoe(w1, p) = Aoe(w, p)
        /\ u \in Owned(w1, lv) /\ u \in Undo
    BY <1>3, UndoForFacts, SMTT(30)
  <2>2. r = IF (old = 0 /\ Count(w1, u) >= SEMUME) \/ TooLarge(old - val)
            THEN [fails |-> TRUE, un |-> w1]
            ELSE [fails |-> FALSE,
                  un |-> IF Count(w1, u) = 0 THEN Link(w2, u)
                         ELSE IF Count(w2, u) = 0 THEN [Unlink(w2, u) EXCEPT !.np[u] = NULL]
                         ELSE w2]
    BY <1>3 DEF Semaoe, SetAoe
  <2>3. u # NULL /\ Aoe(w1, p) = w1.aoe[u] BY <2>1, SemAssumption DEF Aoe
  <2>4. w1 \in UndoType BY <2>1 DEF UndoOK
  <2> HIDE DEF w1, u
  <2>5. /\ Count(w1, u) = Size(w1.aoe[u]) /\ w1.aoe[u] \in [UndoKey -> Int]
        /\ Count(w1, u) \in Nat
        /\ Count(w1, u) = 0 <=> w1.aoe[u] = NoEntry
    BY <2>1, <2>4, CountFacts
  <2>6. old \in Int /\ old - val \in Int BY <2>5, <1>k
  <2> HIDE DEF old, k
  <2>7. /\ w2 \in UndoType /\ w2.aoe[u] = [w1.aoe[u] EXCEPT ![k] = old - val]
        /\ Count(w2, u) = 0 <=> [w1.aoe[u] EXCEPT ![k] = old - val] = NoEntry
    <3>1. w2 \in UndoType /\ w2.aoe[u] = [w1.aoe[u] EXCEPT ![k] = old - val]
      BY <2>1, <2>4, <2>6, <1>k, SetAoeFacts
    <3> HIDE DEF w2
    <3>2. Count(w2, u) = 0 <=> w2.aoe[u] = NoEntry BY <3>1, <2>1, CountFacts
    <3> QED BY <3>1, <3>2
  <2>8. ASSUME (old = 0 /\ Count(w1, u) >= SEMUME) \/ TooLarge(old - val)
        PROVE  r = [fails |-> TRUE, un |-> w1]
    BY <2>2, <2>8
  <2>o. old = Aoe(w, p)[k] BY <2>1, <2>3 DEF old
  <2>10. CASE (old = 0 /\ Count(w1, u) >= SEMUME) \/ TooLarge(old - val)
    <3>1. r.fails /\ r.un = w1 BY <2>8, <2>10
    <3>2. \/ Aoe(w, p)[k] = 0 /\ ~(Size(Aoe(w, p)) < SEMUME)
          \/ TooLarge(Aoe(w, p)[k] - val)
      <4>1. Size(Aoe(w, p)) = Count(w1, u) BY <2>1, <2>3, <2>5
      <4>2. Count(w1, u) >= SEMUME => ~(Count(w1, u) < SEMUME) BY <2>5, SemAssumption
      <4> QED BY <4>1, <4>2, <2>10, <2>o
    <3>3. Shifts(r.un, w, k, 0) BY <3>1, <2>1 DEF Shifts
    <3> QED BY <3>1, <3>2, <3>3, <2>1, <2>3 DEF k, u
  <2>11. CASE ~((old = 0 /\ Count(w1, u) >= SEMUME) \/ TooLarge(old - val))
    <3>1. /\ ~r.fails
          /\ r.un = IF Count(w1, u) = 0 THEN Link(w2, u)
                    ELSE IF Count(w2, u) = 0 THEN [Unlink(w2, u) EXCEPT !.np[u] = NULL]
                    ELSE w2
      BY <2>2, <2>11
    <3> DEFINE n == r.un
    <3>2. UndoOK(n, lv) /\ n.sem_undo = w1.sem_undo
          /\ n.aoe[u] = [w1.aoe[u] EXCEPT ![k] = old - val]
          /\ \A v \in Undo \ {u} : n.aoe[v] = w1.aoe[v]
      <4>1. CASE Count(w1, u) = 0
        <5>1. w1.aoe[u] = NoEntry /\ old = 0 BY <4>1, <2>5, <1>k DEF old, NoEntry
        <5>2. old - val # 0 /\ SEMUME >= 1 /\ ~TooLarge(old - val)
          BY <5>1, <1>3, <4>1, <2>11, SemAssumption
        <5>3. n = Link(SetAoe(w1, u, k, old - val), u) BY <3>1, <4>1
        <5> HIDE DEF n, w2
        <5> QED BY <5>1, <5>2, <5>3, <2>1, <2>6, <1>k, FirstEntry
      <4>2. CASE Count(w1, u) # 0 /\ Count(w2, u) = 0
        <5>1. w1.aoe[u] # NoEntry /\ [w1.aoe[u] EXCEPT ![k] = old - val] = NoEntry
          BY <4>2, <2>5, <2>7
        <5>2. old - val = 0
          <6>1. [w1.aoe[u] EXCEPT ![k] = old - val][k] = old - val BY <2>5, <1>k
          <6> QED BY <5>1, <6>1, <1>k DEF NoEntry
        <5>3. n = [Unlink(SetAoe(w1, u, k, 0), u) EXCEPT !.np[u] = NULL]
          BY <3>1, <4>2, <5>2
        <5>4. \A j \in UndoKey \ {k} : w1.aoe[u][j] = 0
          <6>1. \A j \in UndoKey \ {k} : [w1.aoe[u] EXCEPT ![k] = old - val][j] = w1.aoe[u][j]
            BY <2>5
          <6>2. \A j \in UndoKey : NoEntry[j] = 0 BY DEF NoEntry
          <6> QED BY <6>1, <6>2, <5>1
        <5> HIDE DEF n, w2
        <5>5. UndoOK(n, lv) /\ n.sem_undo = w1.sem_undo
              /\ n.aoe[u] = [w1.aoe[u] EXCEPT ![k] = 0]
              /\ \A v \in Undo \ {u} : n.aoe[v] = w1.aoe[v]
          BY <5>1, <5>3, <5>4, <2>1, <1>k, LastEntry
        <5> QED BY <5>5, <5>2
      <4>3. CASE Count(w1, u) # 0 /\ Count(w2, u) # 0
        <5>1. w1.aoe[u] # NoEntry /\ [w1.aoe[u] EXCEPT ![k] = old - val] # NoEntry
          BY <4>3, <2>5, <2>7
        <5>2. w1.aoe[u][k] = 0 => Size(w1.aoe[u]) < SEMUME
          <6>1. w1.aoe[u][k] = old /\ Count(w1, u) = Size(w1.aoe[u]) BY <2>5 DEF old
          <6>2. ~(Count(w1, u) >= SEMUME) => Count(w1, u) < SEMUME BY <2>5, SemAssumption
          <6> QED BY <6>1, <6>2, <2>11
        <5>3. n = SetAoe(w1, u, k, old - val) BY <3>1, <4>3
        <5>4. ~TooLarge(old - val) BY <2>11
        <5> HIDE DEF n, w2
        <5> QED BY <5>1, <5>2, <5>3, <5>4, <2>1, <2>6, <1>k, OtherEntry
      <4> QED BY <4>1, <4>2, <4>3
    <3>3. n.sem_undo[p] = u BY <3>2 DEF u
    <3>4. Aoe(n, p) = [Aoe(w, p) EXCEPT ![k] = @ - val]
      BY <3>2, <3>3, <2>3, <2>1, <2>o DEF Aoe
    <3>5. \A v \in Undo, j \in UndoKey \ {k} : n.aoe[v][j] = w.aoe[v][j]
      BY <3>2, <2>1, <2>5
    <3>6. Shifts(n, w, k, -val)
      <4>1. n.aoe[u][k] = old - val BY <3>2, <2>5, <1>k
      <4>2. w.aoe[u][k] = old BY <2>1 DEF old
      <4>3. n.aoe[u][k] = w.aoe[u][k] + (-val) BY <4>1, <4>2, <2>6
      <4>4. \A v \in Undo \ {u} : n.aoe[v][k] = w.aoe[v][k] BY <3>2, <2>1
      <4> QED BY <4>3, <4>4, <2>1 DEF Shifts
    <3> QED BY <3>1, <3>2, <3>3, <3>4, <3>5, <3>6, <2>3, <1>3 DEF k
  <2> QED BY <2>10, <2>11
<1> QED BY <1>1, <1>2, <1>3

(* The structures from u on that are not in E, and the first of them. *)
Rest(w, E, u) == OnList(w, u) \ E

(* Where semunrm links on when it drops the structures in E. *)
Skip(w, E, u) ==
    IF Rest(w, E, u) = {} THEN NULL
    ELSE CHOOSE v \in Rest(w, E, u) : Rest(w, E, u) \subseteq OnList(w, v)

(* The walk finds the highest one that stays, or the end. *)
LEMMA SkipFacts ==
    ASSUME NEW w, NEW head, NEW L \in SUBSET Undo, NEW pos, Positions(pos),
           Listed(w.np, head, L, pos), NEW E \in SUBSET L, NEW x \in L
    PROVE  /\ Rest(w, E, x) = {v \in L \ E : pos[v] <= pos[x]}
           /\ \/ /\ Skip(w, E, x) \in Rest(w, E, x)
                 /\ \A v \in Rest(w, E, x) : pos[v] <= pos[Skip(w, E, x)]
              \/ Skip(w, E, x) = NULL /\ Rest(w, E, x) = {}
<1> DEFINE R == Rest(w, E, x)
<1>1. \A u \in L : OnList(w, u) = Behind(L, pos, u) BY OnListFrom
<1>2. R = {v \in L \ E : pos[v] <= pos[x]} BY <1>1 DEF Rest, Behind
<1>3. CASE R = {} BY <1>2, <1>3 DEF Skip
<1>4. CASE R # {}
  <2>0. R \in SUBSET Undo BY <1>2
  <2>s. Skip(w, E, x) = CHOOSE v \in R : R \subseteq OnList(w, v) BY <1>4 DEF Skip
  <2> HIDE DEF R
  <2>1. PICK v \in R : \A z \in R : pos[z] <= pos[v] BY <1>4, <2>0, Highest
  <2>2. \A y \in R : OnList(w, y) = {z \in L : pos[z] <= pos[y]} BY <1>1, <1>2 DEF Behind
  <2>3. R \subseteq OnList(w, v) BY <2>1, <2>2, <1>2
  <2>4. Skip(w, E, x) \in R /\ R \subseteq OnList(w, Skip(w, E, x)) BY <2>3, <2>s
  <2>5. \A z \in R : pos[z] <= pos[Skip(w, E, x)] BY <2>2, <2>4
  <2> QED BY <2>4, <2>5, <1>2 DEF R
<1> QED BY <1>3, <1>4

(* semunrm clears the entries of a range of semaphores, and what is left   *)
(* empty leaves the list.                                                  *)
LEMMA SemunrmFacts ==
    ASSUME NEW w, NEW lv, UndoOK(w, lv), NEW id, NEW low \in Int, NEW high \in Int
    PROVE  LET r == Semunrm(w, id, low, high)
           IN  /\ UndoOK(r, lv) /\ r.sem_undo = w.sem_undo
               /\ \A u \in Undo, k \in UndoKey :
                     r.aoe[u][k] = IF k[1] = id /\ InUnrm(k[2], low, high)
                                   THEN 0 ELSE w.aoe[u][k]
<1> DEFINE list  == OnList(w, w.semunp)
           a1    == [u \in Undo |-> [k \in UndoKey |->
                       IF u \in list /\ k[1] = id /\ InUnrm(k[2], low, high)
                       THEN 0 ELSE w.aoe[u][k]]]
           w1    == [w EXCEPT !.aoe = a1]
           empty == {u \in list : Count(w1, u) = 0}
           rest(u) == OnList(w, u) \ empty
           to(u)   == IF rest(u) = {} THEN NULL
                      ELSE CHOOSE v \in rest(u) : rest(u) \subseteq OnList(w, v)
           nx    == [u \in Undo |-> IF u \in empty THEN NULL
                                    ELSE IF u \in list THEN to(w.np[u]) ELSE w.np[u]]
           r     == Semunrm(w, id, low, high)
           K     == list \ empty
<1> USE SemAssumption
<1>t. /\ w \in UndoType /\ w.aoe \in [Undo -> [UndoKey -> Int]]
      /\ w.np \in [Undo -> Undo \cup {NULL}] /\ w.semunp \in Undo \cup {NULL}
  BY DEF UndoOK, UndoType
<1>p. PICK pos : Lists(w, lv, pos) BY DEF UndoOK
<1>l. list = Filled(w) /\ Filled(w) \in SUBSET Undo /\ Positions(pos)
      /\ Listed(w.np, w.semunp, list, pos)
  <2>1. Filled(w) \in SUBSET Undo /\ Positions(pos) /\ Listed(w.np, w.semunp, Filled(w), pos)
    BY <1>p DEF Lists, Filled
  <2>2. list = Filled(w) BY <2>1, OnListIs
  <2> QED BY <2>1, <2>2
<1>1. a1 \in [Undo -> [UndoKey -> Int]] BY <1>t
<1>2. \A u \in Undo, k \in UndoKey :
         a1[u][k] = IF k[1] = id /\ InUnrm(k[2], low, high) THEN 0 ELSE w.aoe[u][k]
  <2>1. \A u \in Undo \ list, k \in UndoKey : w.aoe[u][k] = 0
    BY <1>l DEF Filled, NoEntry
  <2> QED BY <2>1
<1>3. r = [w1 EXCEPT !.semunp = to(w1.semunp), !.np = [u \in Undo |-> IF u \in empty THEN NULL
                                    ELSE IF u \in list THEN to(w1.np[u]) ELSE w1.np[u]]]
  BY DEF Semunrm
<1> HIDE DEF a1
<1>4. /\ w1 \in UndoType /\ w1.aoe = a1 /\ w1.np = w.np /\ w1.semunp = w.semunp
      /\ w1.semfup = w.semfup /\ w1.sem_undo = w.sem_undo
  BY <1>1, <1>t DEF UndoType
<1>5. r = [w1 EXCEPT !.semunp = to(w.semunp), !.np = nx] BY <1>3, <1>4
<1>6. ASSUME NEW u \in Undo PROVE Count(w1, u) = 0 <=> a1[u] = NoEntry
  BY <1>4, CountFacts
<1>7. K = {u \in Undo : a1[u] # NoEntry}
  <2>1. ASSUME NEW u \in Undo, a1[u] # NoEntry PROVE u \in list
    <3>1. PICK k \in UndoKey : a1[u][k] # 0 BY <2>1, <1>1 DEF NoEntry
    <3>2. w.aoe[u][k] # 0 BY <3>1, <1>2
    <3> QED BY <3>2, <1>l DEF Filled, NoEntry
  <2> QED BY <2>1, <1>6, <1>l
<1> HIDE DEF w1, r
\* Where the list goes on from u: to the first that stays.
<1>8. ASSUME NEW x \in Undo, x \in list
      PROVE  /\ rest(x) = {v \in K : pos[v] <= pos[x]}
             /\ \/ to(x) \in rest(x) /\ \A v \in rest(x) : pos[v] <= pos[to(x)]
                \/ to(x) = NULL /\ rest(x) = {}
  <2>1. Filled(w) \in SUBSET Undo /\ Positions(pos) /\ Listed(w.np, w.semunp, Filled(w), pos)
        /\ x \in Filled(w) /\ empty \in SUBSET Filled(w)
    BY <1>8, <1>l
  <2>2. to(x) = Skip(w, empty, x) /\ rest(x) = Rest(w, empty, x) BY DEF Skip, Rest
  <2>3. K = Filled(w) \ empty BY <1>l
  <2> HIDE DEF to, rest, K, list, empty
  <2>4. /\ Rest(w, empty, x) = {v \in Filled(w) \ empty : pos[v] <= pos[x]}
        /\ \/ /\ Skip(w, empty, x) \in Rest(w, empty, x)
              /\ \A v \in Rest(w, empty, x) : pos[v] <= pos[Skip(w, empty, x)]
           \/ Skip(w, empty, x) = NULL /\ Rest(w, empty, x) = {}
    BY <2>1, SkipFacts, Zenon
  <2> QED BY <2>2, <2>3, <2>4
<1>9. OnList(w, NULL) = {} /\ to(NULL) = NULL
  <2>1. {} \in SUBSET Undo /\ NULL \in {} \cup {NULL} /\ \A v \in {} : w.np[v] \in {} \cup {NULL}
    OBVIOUS
  <2>2. ASSUME NEW u \in OnList(w, NULL) PROVE FALSE
    <3>1. u \in {} BY <2>1, <2>2 DEF OnList
    <3> QED BY <3>1
  <2>3. OnList(w, NULL) = {} BY <2>2
  <2> QED BY <2>3
<1>t2. \A x \in list \cup {NULL} : to(x) \in K \cup {NULL}
  <2>1. ASSUME NEW x \in list PROVE to(x) \in K \cup {NULL}
    <3>1. x \in Undo BY <1>l
    <3> HIDE DEF to
    <3> QED BY <3>1, <1>8
  <2> QED BY <2>1, <1>9
<1>n. \A v \in list : NextOn(list, pos, v, w.np[v]) BY <1>l DEF Listed
<1>t3. to(w.semunp) \in K \cup {NULL} /\ nx \in [Undo -> Undo \cup {NULL}]
  <2>1. w.semunp \in list \cup {NULL} /\ \A v \in list : w.np[v] \in list \cup {NULL}
    BY <1>l, <1>n DEF Listed, NextOn
  <2>2. ASSUME NEW v \in Undo PROVE nx[v] \in Undo \cup {NULL}
    <3>1. CASE v \in list /\ v \notin empty
      <4>1. nx[v] = to(w.np[v]) BY <3>1
      <4> HIDE DEF to, nx
      <4> QED BY <4>1, <3>1, <2>1, <1>t2, <1>l
    <3>2. CASE ~(v \in list /\ v \notin empty) BY <3>2, <1>t
    <3> QED BY <3>1, <3>2
  <2>3. DOMAIN nx = Undo OBVIOUS
  <2>4. to(w.semunp) \in K \cup {NULL}
    <3> HIDE DEF to
    <3> QED BY <2>1, <1>t2
  <2>5. nx \in [Undo -> Undo \cup {NULL}]
    <3>1. nx = [v \in Undo |-> nx[v]] OBVIOUS
    <3> HIDE DEF nx
    <3> QED BY <3>1, <2>2
  <2> QED BY <2>4, <2>5
<1>nk. \A v \in K : nx[v] = to(w.np[v]) BY <1>l
<1>nf. \A v \in Undo \ list : nx[v] = w.np[v] OBVIOUS
<1> HIDE DEF nx
<1>i. \A v, z \in K : pos[v] = pos[z] => v = z BY <1>l DEF Listed
<1>o. \A v \in list : pos[v] \in Nat BY <1>l DEF Positions
<1>10. ASSUME NEW v \in K PROVE NextOn(K, pos, v, nx[v])
  <2>1. NextOn(list, pos, v, w.np[v]) BY <1>n
  <2>2. CASE w.np[v] \in list /\ pos[w.np[v]] < pos[v]
             /\ \A z \in list : pos[z] < pos[v] => pos[z] <= pos[w.np[v]]
    <3> DEFINE x == w.np[v]
    <3>0. x \in list /\ x \in Undo /\ pos[x] < pos[v]
          /\ \A z \in list : pos[z] < pos[v] => pos[z] <= pos[x] BY <2>2, <1>l
    <3>n. nx[v] = to(x) BY <1>nk
    <3> HIDE DEF x, to
    <3>1. /\ rest(x) = {z \in K : pos[z] <= pos[x]}
          /\ \/ to(x) \in rest(x) /\ \A z \in rest(x) : pos[z] <= pos[to(x)]
             \/ to(x) = NULL /\ rest(x) = {}
      BY <3>0, <1>8
    <3>2. \A z \in K : pos[z] < pos[v] => z \in rest(x) BY <3>0, <3>1
    <3>3. \A z \in rest(x) : z \in K /\ pos[z] < pos[v]
      <4>1. ASSUME NEW z \in rest(x) PROVE z \in K /\ pos[z] < pos[v]
        <5>1. z \in K /\ pos[z] <= pos[x] BY <3>1
        <5>2. pos[z] \in Nat /\ pos[x] \in Nat /\ pos[v] \in Nat BY <5>1, <3>0, <1>o
        <5> QED BY <5>1, <5>2, <3>0
      <4> QED BY <4>1
    <3> HIDE DEF rest, K
    <3>4. CASE to(x) \in rest(x) /\ \A z \in rest(x) : pos[z] <= pos[to(x)]
      BY <3>4, <3>2, <3>3, <3>n DEF NextOn
    <3>5. CASE to(x) = NULL /\ rest(x) = {}
      BY <3>5, <3>2, <3>n DEF NextOn
    <3> QED BY <3>1, <3>4, <3>5
  <2>3. CASE w.np[v] = NULL /\ \A z \in list : ~(pos[z] < pos[v])
    <3>1. nx[v] = NULL BY <2>3, <1>nk, <1>9
    <3> QED BY <3>1, <2>3 DEF NextOn
  <2> QED BY <2>1, <2>2, <2>3 DEF NextOn
<1>11. \/ to(w.semunp) \in K /\ \A v \in K : pos[v] <= pos[to(w.semunp)]
       \/ to(w.semunp) = NULL /\ K = {}
  <2>1. CASE w.semunp \in list /\ \A v \in list : pos[v] <= pos[w.semunp]
    <3> DEFINE x == w.semunp
    <3>0. x \in list /\ x \in Undo /\ \A v \in list : pos[v] <= pos[x] BY <2>1, <1>l
    <3> HIDE DEF x, to
    <3>1. /\ rest(x) = {z \in K : pos[z] <= pos[x]}
          /\ \/ to(x) \in rest(x) /\ \A z \in rest(x) : pos[z] <= pos[to(x)]
             \/ to(x) = NULL /\ rest(x) = {}
      BY <3>0, <1>8
    <3>2. rest(x) = K BY <3>0, <3>1
    <3> HIDE DEF rest
    <3> QED BY <3>1, <3>2 DEF x
  <2>2. CASE w.semunp = NULL /\ list = {}
    BY <2>2, <1>9
  <2> QED BY <2>1, <2>2, <1>l DEF Listed
<1> DEFINE h == to(w.semunp)
<1>12. Listed(nx, h, K, pos) BY <1>10, <1>11, <1>i DEF Listed
<1>h. h \in Undo \cup {NULL} BY <1>t3, <1>l
<1>5h. r = [w1 EXCEPT !.semunp = h, !.np = nx] BY <1>5
<1> HIDE DEF to, h
<1>13. /\ r \in UndoType /\ r.aoe = a1 /\ r.np = nx /\ r.semunp = h
       /\ r.semfup = w.semfup /\ r.sem_undo = w.sem_undo
  BY <1>4, <1>5h, <1>h, <1>t3 DEF UndoType
<1>14. Filled(r) = K /\ Owned(r, lv) = Owned(w, lv) BY <1>7, <1>13 DEF Filled, Owned
<1>15. Filled(w) \subseteq Owned(w, lv) BY DEF UndoOK
<1>16. Listed(nx, w.semfup, Undo \ Owned(w, lv), pos)
  <2>1. Listed(w.np, w.semfup, Undo \ Owned(w, lv), pos) BY <1>p DEF Lists
  <2>2. \A v \in Undo \ Owned(w, lv) : nx[v] = w.np[v] BY <1>15, <1>l, <1>nf
  <2> QED BY <2>1, <2>2, ListedFrame
<1> HIDE DEF K, empty
<1>17. Lists(r, lv, pos) BY <1>12, <1>13, <1>14, <1>16, <1>l DEF Lists
<1>18. \A u \in Undo : Size(r.aoe[u]) <= SEMUME
  <2>1. ASSUME NEW u \in Undo PROVE Size(a1[u]) <= SEMUME
    <3> DEFINE S(g) == {k \in UndoKey : g[k] # 0}
    <3>1. S(a1[u]) \subseteq S(w.aoe[u]) BY <1>2
    <3>2. IsFiniteSet(S(w.aoe[u])) BY KeysFinite, FS_Subset
    <3>3. Size(a1[u]) = Cardinality(S(a1[u])) /\ Size(w.aoe[u]) = Cardinality(S(w.aoe[u]))
      BY DEF Size
    <3> HIDE DEF S
    <3>4. Size(a1[u]) <= Size(w.aoe[u]) BY <3>1, <3>2, <3>3, FS_Subset
    <3>5. Size(a1[u]) \in Nat /\ Size(w.aoe[u]) \in Nat BY <1>1, <1>t, SizeFacts
    <3>6. Size(w.aoe[u]) <= SEMUME BY DEF UndoOK
    <3> QED BY <3>4, <3>5, <3>6
  <2> QED BY <2>1, <1>13
<1>19. \A u \in Undo, k \in UndoKey : ~TooLarge(r.aoe[u][k])
  <2>1. ~TooLarge(0) BY DEF TooLarge
  <2> QED BY <2>1, <1>2, <1>13 DEF UndoOK
<1>20. Private(r, lv) BY <1>13 DEF Private, UndoOK
<1>21. Filled(r) \subseteq Owned(r, lv)
  BY <1>14, <1>15, <1>l DEF K
<1>22. UndoOK(r, lv) BY <1>13, <1>17, <1>18, <1>19, <1>20, <1>21 DEF UndoOK
<1> QED BY <1>2, <1>13, <1>22 DEF r

(***************************************************************************)
(* The calls in progress, when no copyin misses its page and no slot of    *)
(* the process table is used twice.                                        *)
(***************************************************************************)

(* The hypothesis: no page is missing, and no slot is used again. *)
Calm == FaultAt = {} /\ SlotReuse = FALSE

(* Types of the calls in progress. *)
CallTypes ==
    /\ semtmp \in Seq(Op) /\ live \in [Proc -> BOOLEAN] /\ pc \in [Proc -> Where]
    /\ call \in [Proc -> CallType] /\ sig \in [Proc -> BOOLEAN]
    /\ cpu \in Proc \cup {NULL} /\ i \in Nat /\ after \in {"sleep", "fail"}

(* The processor belongs to the process in semop's loops, and semtmp holds *)
(* its list; only a living process is in the kernel, always in semop.      *)
CallOf(p) ==
    /\ pc[p] # "fault"
    /\ (cpu = p) <=> (pc[p] \in {"check", "undo"})
    /\ pc[p] # "user" => live[p] /\ call[p].cmd = "semop"
    /\ pc[p] = "check" => i \in 1 .. Len(semtmp) + 1
    /\ pc[p] = "undo" => i \in 0 .. Len(semtmp)
    /\ cpu = p => semtmp = call[p].ops

(* The calls in progress, for every process. *)
CallInv == CallTypes /\ \A p \in Proc : CallOf(p)

(* wakeup() moves nobody but sleepers. *)
LEMMA WakeupMoves ==
    ASSUME NEW C, NEW pcs \in [Proc -> Where], Wakeup(C, pcs)
    PROVE  /\ pc' \in [Proc -> Where]
           /\ \A q \in Proc : pc'[q] = pcs[q] \/ (pcs[q] = "asleep" /\ pc'[q] = "woken")
BY DEF Wakeup, Where

(* The processor and the calls stay, some sleepers are woken. *)
LEMMA OthersMove ==
    ASSUME CallInv, pc' \in [Proc -> Where], semtmp' \in Seq(Op), live' \in [Proc -> BOOLEAN],
           sig' \in [Proc -> BOOLEAN], UNCHANGED <<call, cpu, i, after>>,
           cpu # NULL => semtmp' = semtmp,
           \A q \in Proc : pc'[q] = pc[q] \/ (pc[q] = "asleep" /\ pc'[q] = "woken"),
           \A q \in Proc : pc[q] # "user" => live'[q]
    PROVE  CallInv'
<1>1. CallTypes' BY DEF CallInv, CallTypes
<1>2. ASSUME NEW q \in Proc PROVE CallOf(q)'
  <2>1. CallOf(q) /\ q # NULL BY SemAssumption DEF CallInv
  <2> QED BY <2>1 DEF CallOf
<1> QED BY <1>1, <1>2 DEF CallInv

(* p gives up the processor, or takes it; others are at most woken. *)
LEMMA CallerLeaves ==
    ASSUME CallInv, NEW p \in Proc, cpu \in {p, NULL}, Leave,
           pc' \in [Proc -> Where], pc'[p] \in {"user", "asleep"},
           pc'[p] = "asleep" => pc[p] # "user" /\ call' = call,
           \A q \in Proc \ {p} : pc'[q] = pc[q] \/ (pc[q] = "asleep" /\ pc'[q] = "woken"),
           \A q \in Proc \ {p} : call'[q] = call[q], call' \in [Proc -> CallType],
           sig' \in [Proc -> BOOLEAN], UNCHANGED <<live, semtmp>>
    PROVE  CallInv'
<1>1. CallTypes' BY DEF CallInv, CallTypes, Leave
<1>2. ASSUME NEW q \in Proc PROVE CallOf(q)'
  <2>1. CallOf(q) /\ CallOf(p) /\ q # NULL BY SemAssumption DEF CallInv
  <2>2. CASE q = p BY <2>1, <2>2 DEF CallOf, Leave
  <2>3. CASE q # p BY <2>1, <2>3 DEF CallOf, Leave
  <2> QED BY <2>2, <2>3
<1> QED BY <1>1, <1>2 DEF CallInv

(* p takes the processor at the label check. *)
LEMMA CallerEnters ==
    ASSUME CallInv, NEW p \in Proc, cpu = NULL, NEW tmp \in Seq(Op), Check(p, tmp),
           \A q \in Proc \ {p} : call'[q] = call[q], call' \in [Proc -> CallType],
           call'[p].cmd = "semop", tmp = call'[p].ops, live[p], UNCHANGED <<live, sig>>
    PROVE  CallInv'
<1>1. CallTypes' BY DEF CallInv, CallTypes, Check, Where
<1>2. ASSUME NEW q \in Proc PROVE CallOf(q)'
  <2>1. CallOf(q) /\ CallOf(p) /\ q # NULL BY SemAssumption DEF CallInv
  <2>4. Len(tmp) \in Nat OBVIOUS
  <2>5. cpu' = p /\ i' = 1 /\ semtmp' = tmp /\ pc' = [pc EXCEPT ![p] = "check"]
    BY DEF Check
  <2>2. CASE q = p BY <2>1, <2>2, <2>4, <2>5 DEF CallOf, CallInv, CallTypes
  <2>3. CASE q # p BY <2>1, <2>3, <2>5 DEF CallOf, CallInv, CallTypes
  <2> QED BY <2>2, <2>3
<1> QED BY <1>1, <1>2 DEF CallInv

(* p goes on in its loops. *)
LEMMA CallerGoesOn ==
    ASSUME CallInv, NEW p \in Proc, cpu = p, i' \in Nat, after' \in {"sleep", "fail"},
           pc' \in [Proc -> Where], pc'[p] \in {"check", "undo"},
           pc'[p] = "check" => i' \in 1 .. Len(semtmp) + 1,
           pc'[p] = "undo" => i' \in 0 .. Len(semtmp),
           \A q \in Proc \ {p} : pc'[q] = pc[q] \/ (pc[q] = "asleep" /\ pc'[q] = "woken"),
           UNCHANGED <<call, live, sig, semtmp, cpu>>
    PROVE  CallInv'
<1>1. CallTypes' BY DEF CallInv, CallTypes
<1>2. ASSUME NEW q \in Proc PROVE CallOf(q)'
  <2>1. CallOf(q) /\ CallOf(p) BY DEF CallInv
  <2>2. CASE q = p BY <2>1, <2>2 DEF CallOf
  <2>3. CASE q # p BY <2>1, <2>3 DEF CallOf
  <2> QED BY <2>2, <2>3
<1> QED BY <1>1, <1>2 DEF CallInv

(* The arguments of no call. *)
LEMMA NoCallType == NoCall \in CallType
<1>1. NoVals \in [Semnum -> 0 .. SEMVMX] BY SemAssumption DEF NoVals
<1>2. 0 \in Semid BY SemAssumption DEF Semid
<1>3. <<>> \in Seq(Op) OBVIOUS
<1> QED BY <1>1, <1>2, <1>3 DEF NoCall, CallType

(* What the end of a call leaves. *)
LEMMA FinishFacts ==
    ASSUME CallInv, NEW p \in Proc, Finish(p)
    PROVE  /\ Leave /\ live' = live /\ sig' \in [Proc -> BOOLEAN]
           /\ call' \in [Proc -> CallType] /\ \A q \in Proc \ {p} : call'[q] = call[q]
BY NoCallType DEF Finish, CallInv, CallTypes

(* What a signal in sleep() does to the program counters. *)
LEMMA InterruptedMoves ==
    ASSUME pc \in [Proc -> Where], NEW p \in Proc, NEW c, NEW n, Interrupted(p, c, n)
    PROVE  /\ pc' \in [Proc -> Where] /\ pc'[p] = "user"
           /\ \A q \in Proc \ {p} : pc'[q] = pc[q] \/ (pc[q] = "asleep" /\ pc'[q] = "woken")
BY DEF Interrupted, User, Where

(* What a return to user mode does to them. *)
LEMMA UserMoves ==
    ASSUME pc \in [Proc -> Where], NEW p \in Proc, pc' = User(p)
    PROVE  /\ pc' \in [Proc -> Where] /\ pc'[p] = "user"
           /\ \A q \in Proc \ {p} : pc'[q] = pc[q]
BY DEF User, Where

(* Nobody is in the kernel after seminit. *)
LEMMA InitCall == Init => CallInv
<1> SUFFICES ASSUME Init PROVE CallInv OBVIOUS
<1>1. <<>> \in Seq(Op) OBVIOUS
<1>2. CallTypes BY <1>1, NoCallType DEF Init, CallTypes, Where
<1>3. ASSUME NEW p \in Proc PROVE CallOf(p)
  BY SemAssumption DEF Init, CallOf
<1> QED BY <1>2, <1>3 DEF CallInv

(* Every step keeps the processor and semtmp with one caller. *)
LEMMA NextCall == ASSUME Calm, CallInv, [Next]_vars PROVE CallInv'
<1> USE DEF sets, sems, proc, run
<1>t. CallTypes /\ \A p \in Proc : CallOf(p) BY DEF CallInv
<1>o. Overlay \in Seq(Op)
  <2>1. ZeroOp \in Op BY SemAssumption DEF ZeroOp, Op, Semnum
  <2> QED BY <2>1, SemAssumption DEF Overlay
<1>1. CASE UNCHANGED vars
  BY <1>1, <1>t DEF vars, CallInv, CallTypes, CallOf
<1>2. ASSUME NEW p \in Proc, NEW key \in Key, NEW creat \in BOOLEAN, NEW n \in 1 .. SEMMSL,
             Semget(p, key, creat, n)
      PROVE  CallInv'
  BY <1>2, <1>t DEF Semget, CallInv, CallTypes, CallOf
<1>3. ASSUME NEW p \in Proc, Semctl(p) PROVE CallInv'
  <2>1. ASSUME NEW id \in Semid, Rmid(p, id) PROVE CallInv'
    <3>1. PICK C : Wakeup(C, pc) BY <2>1 DEF Rmid
    <3> QED BY <2>1, <3>1, <1>t, WakeupMoves, OthersMove DEF Rmid, CallTypes, CallOf
  <2>2. ASSUME NEW id \in Semid, Ipcset(p, id) PROVE CallInv'
    BY <2>2, <1>t, <1>o, OthersMove DEF Ipcset, Faults, Calm, Enters, CallTypes, CallOf
  <2>3. ASSUME NEW id \in Semid, NEW num \in Semnum, NEW val \in 0 .. SEMVMX,
               Setval(p, id, num, val)
        PROVE  CallInv'
    <3>1. PICK C : Wakeup(C, pc) BY <2>3 DEF Setval, SetVals
    <3> QED BY <2>3, <3>1, <1>t, WakeupMoves, OthersMove DEF Setval, CallTypes, CallOf
  <2>4. ASSUME NEW id \in Semid, NEW vals \in [Semnum -> 0 .. SEMVMX], Setall(p, id, vals)
        PROVE  CallInv'
    <3>0. SetAllVals(id, vals, pc) /\ UNCHANGED <<sets, proc, run>> /\ cpu = NULL
      BY <2>4 DEF Setall, Faults, Calm, Enters
    <3>1. PICK C : Wakeup(C, pc) BY <3>0 DEF SetAllVals, SetVals
    <3>2. semtmp' = Overlay BY <3>0 DEF SetAllVals
    <3> QED BY <3>0, <3>1, <3>2, <1>t, <1>o, WakeupMoves, OthersMove DEF CallTypes, CallOf
  <2> QED BY <1>3, <2>1, <2>2, <2>3, <2>4 DEF Semctl
<1>4. ASSUME NEW p \in Proc, NEW id \in Semid, NEW ops \in Ops, Semop(p, id, ops)
      PROVE  CallInv'
  <2>0. ops \in Seq(Op) /\ cpu = NULL /\ live[p] /\ UNCHANGED <<live, sig>>
    BY <1>4, OpsAssumption DEF Semop, Enters
  <2>1. CASE ~InRange(id, ops)
    <3>1. semtmp' = ops /\ UNCHANGED <<pc, call, run>>
      BY <1>4, <2>1 DEF Semop, Faults, Calm
    <3> QED BY <3>1, <2>0, <1>t, OthersMove DEF CallTypes, CallOf
  <2>2. CASE InRange(id, ops)
    <3> DEFINE c == [cmd |-> "semop", id |-> id, ops |-> ops, done |-> 0, vals |-> NoVals]
    <3>1. Check(p, ops) /\ call' = [call EXCEPT ![p] = c]
      BY <1>4, <2>2 DEF Semop, Faults, Calm
    <3>2. c \in CallType
      BY <1>4, <2>0, SemAssumption DEF CallType, NoVals
    <3>3. /\ call'[p] = c /\ call' \in [Proc -> CallType]
          /\ \A q \in Proc \ {p} : call'[q] = call[q]
      BY <3>1, <3>2, <1>t DEF CallTypes
    <3>4. call'[p].cmd = "semop" /\ call'[p].ops = ops BY <3>3
    <3> QED BY <3>1, <3>3, <3>4, <2>0, CallerEnters
  <2> QED BY <2>1, <2>2
<1>5. ASSUME NEW p \in Proc, SemopStep(p) PROVE CallInv'
  <2>t. /\ CallOf(p) /\ pc \in [Proc -> Where] /\ Len(semtmp) \in Nat /\ i \in Nat
        /\ after \in {"sleep", "fail"}
    BY <1>t DEF CallTypes
  <2>1. CASE OpApplies(p)
    <3>1. PICK C : Wakeup(C, pc) BY <2>1 DEF OpApplies
    <3>2. /\ cpu = p /\ pc[p] = "check" /\ i <= Len(semtmp) /\ i' = i + 1
          /\ UNCHANGED <<call, live, sig, semtmp, cpu, after>>
      BY <2>1 DEF OpApplies, Running
    <3>3. /\ pc' \in [Proc -> Where]
          /\ \A q \in Proc : pc'[q] = pc[q] \/ (pc[q] = "asleep" /\ pc'[q] = "woken")
      BY <2>t, <3>1, WakeupMoves
    <3>4. pc'[p] = "check" BY <3>2, <3>3
    <3>5. i' \in Nat /\ i' \in 1 .. Len(semtmp) + 1 BY <2>t, <3>2 DEF CallOf
    <3> QED BY <2>t, <3>2, <3>3, <3>4, <3>5, CallerGoesOn
  <2>2. CASE OpPasses(p)
    <3>2. /\ cpu = p /\ pc[p] = "check" /\ i <= Len(semtmp) /\ i' = i + 1
          /\ UNCHANGED <<call, live, sig, semtmp, cpu, after, pc>>
      BY <2>2 DEF OpPasses, Running
    <3>5. i' \in Nat /\ i' \in 1 .. Len(semtmp) + 1 BY <2>t, <3>2 DEF CallOf
    <3> QED BY <2>t, <3>2, <3>5, CallerGoesOn
  <2>3. CASE OpFails(p) \/ OpWaits(p)
    <3>2. /\ cpu = p /\ pc[p] = "check" /\ i <= Len(semtmp) /\ i' = i - 1
          /\ after' \in {"sleep", "fail"} /\ pc' = [pc EXCEPT ![p] = "undo"]
          /\ UNCHANGED <<call, live, sig, semtmp, cpu>>
      BY <2>3 DEF OpFails, OpWaits, Running
    <3>5. i' \in Nat /\ i' \in 0 .. Len(semtmp) BY <2>t, <3>2 DEF CallOf
    <3>6. pc' \in [Proc -> Where] /\ pc'[p] = "undo" /\ \A q \in Proc \ {p} : pc'[q] = pc[q]
      BY <2>t, <3>2 DEF Where
    <3> QED BY <2>t, <3>2, <3>5, <3>6, CallerGoesOn
  <2>4. CASE SemundoStep(p)
    <3>2. /\ cpu = p /\ pc[p] = "undo" /\ i > 0 /\ i' = i - 1
          /\ UNCHANGED <<call, live, sig, semtmp, cpu, after, pc>>
      BY <2>4 DEF SemundoStep, Running
    <3>5. i' \in Nat /\ i' \in 0 .. Len(semtmp) BY <2>t, <3>2 DEF CallOf
    <3> QED BY <2>t, <3>2, <3>5, CallerGoesOn
  <2>5. CASE OpsDone(p)
    <3>1. cpu = p /\ pc' = User(p) /\ Finish(p) /\ UNCHANGED semtmp
      BY <2>5 DEF OpsDone, Running
    <3> QED BY <3>1, <2>t, UserMoves, FinishFacts, CallerLeaves
  <2>7. CASE SemundoDone(p)
    <3>0. cpu = p /\ pc[p] = "undo" /\ UNCHANGED semtmp BY <2>7 DEF SemundoDone, Running
    <3>1. CASE pc' = User(p) /\ Finish(p)
      BY <3>0, <3>1, <2>t, UserMoves, FinishFacts, CallerLeaves
    <3>2. CASE Interrupted(p, chan[p], cnt[chan[p]] + 1) /\ Finish(p)
      BY <3>0, <3>2, <2>t, InterruptedMoves, FinishFacts, CallerLeaves
    <3>3. CASE pc' = [pc EXCEPT ![p] = "asleep"] /\ Leave /\ UNCHANGED proc
      <4>1. pc' \in [Proc -> Where] /\ pc'[p] = "asleep" /\ \A q \in Proc \ {p} : pc'[q] = pc[q]
        BY <2>t, <3>3 DEF Where
      <4> QED BY <3>0, <3>3, <4>1, <1>t, CallerLeaves DEF CallTypes
    <3> QED BY <2>7, <3>1, <3>2, <3>3 DEF SemundoDone
  <2> QED BY <1>5, <2>1, <2>2, <2>3, <2>4, <2>5, <2>7 DEF SemopStep
<1>6. ASSUME NEW p \in Proc, Continue(p) PROVE CallInv'
  <2>t. CallOf(p) /\ pc \in [Proc -> Where] BY <1>t DEF CallTypes
  <2>1. CASE Resume(p)
    <3>0. cpu = NULL /\ pc[p] = "woken" BY <2>1 DEF Resume
    <3>1. CASE Interrupted(p, chan[p], cnt[chan[p]]) /\ Finish(p) /\ UNCHANGED semtmp
      BY <3>0, <3>1, <2>t, InterruptedMoves, FinishFacts, CallerLeaves
    <3>2. CASE pc' = User(p) /\ Finish(p) /\ UNCHANGED semtmp
      BY <3>0, <3>2, <2>t, UserMoves, FinishFacts, CallerLeaves
    <3>3. CASE Check(p, call[p].ops) /\ UNCHANGED <<call, sig, live>>
      <4>1. call[p].ops \in Seq(Op) /\ live[p] /\ call[p].cmd = "semop"
        BY <3>0, <1>t, <2>t DEF CallTypes, CallType, CallOf
      <4> QED BY <3>0, <3>3, <4>1, <1>t, CallerEnters DEF CallTypes
    <3> QED BY <2>1, <3>1, <3>2, <3>3 DEF Resume, Faults, Calm
  <2>2. CASE ~Resume(p)
    BY <1>6, <2>t, <2>2 DEF Continue, SemopFaulted, ResumeFaulted, SetallFaulted, IpcsetFaulted,
       CallOf
  <2> QED BY <2>1, <2>2
<1>7. ASSUME NEW p \in Proc, Signal(p) PROVE CallInv'
  <2>1. /\ pc' \in [Proc -> Where] /\ sig' \in [Proc -> BOOLEAN]
        /\ \A q \in Proc : pc'[q] = pc[q] \/ (pc[q] = "asleep" /\ pc'[q] = "woken")
    BY <1>7, <1>t DEF Signal, CallTypes, Where
  <2> QED BY <1>7, <2>1, <1>t, OthersMove DEF Signal, CallTypes, CallOf
<1>8. ASSUME NEW p \in Proc, Exit(p) PROVE CallInv'
  <2>1. PICK C : Wakeup(C, pc) BY <1>8, Zenon DEF Exit
  <2>2. /\ pc[p] = "user" /\ live' = [live EXCEPT ![p] = FALSE]
        /\ UNCHANGED <<semtmp, call, chan, sig, run>>
    BY <1>8, Zenon DEF Exit, Enters
  <2>3. live' \in [Proc -> BOOLEAN] /\ \A q \in Proc : pc[q] # "user" => live'[q]
    BY <2>2, <1>t DEF CallTypes, CallOf
  <2> QED BY <2>1, <2>2, <2>3, <1>t, WakeupMoves, OthersMove DEF CallTypes
<1>9. ASSUME NEW p \in Proc, Fork(p) PROVE CallInv'
  BY <1>9 DEF Fork, Calm
<1> QED BY <1>1, <1>2, <1>3, <1>4, <1>5, <1>6, <1>7, <1>8, <1>9 DEF Next

(* A structure without entries. *)
LEMMA NoEntryFacts ==
    /\ NoEntry \in [UndoKey -> Int] /\ Size(NoEntry) = 0
    /\ \A k \in UndoKey : NoEntry[k] = 0 /\ ~TooLarge(NoEntry[k])
<1>1. NoEntry \in [UndoKey -> Int] BY DEF NoEntry
<1>2. Size(NoEntry) = 0 BY <1>1, SizeFacts
<1> QED BY <1>1, <1>2, SemAssumption DEF NoEntry, TooLarge

(* A structure goes to the head of the free list. *)
LEMMA GiveBack ==
    ASSUME NEW w \in UndoType, NEW F \in SUBSET Undo, NEW u \in Undo \ F,
           NEW G \in SUBSET Undo \ {u}, NEW pos, Positions(pos),
           Listed(w.np, w.semfup, F, pos), Listed(w.np, w.semunp, G, pos)
    PROVE  LET r == [w EXCEPT !.aoe[u] = NoEntry, !.np[u] = w.semfup, !.semfup = u]
           IN  /\ r \in UndoType /\ r.sem_undo = w.sem_undo /\ r.aoe[u] = NoEntry
               /\ \A v \in Undo \ {u} : r.aoe[v] = w.aoe[v]
               /\ \E pos1 : /\ Positions(pos1) /\ Listed(r.np, r.semfup, F \cup {u}, pos1)
                            /\ Listed(r.np, r.semunp, G, pos1)
<1> DEFINE np == w.np
           h == w.semfup
           a1 == [w.aoe EXCEPT ![u] = NoEntry]
           nx == [w.np EXCEPT ![u] = w.semfup]
           r == [w EXCEPT !.aoe[u] = NoEntry, !.np[u] = w.semfup, !.semfup = u]
<1>1. /\ np \in [Undo -> Undo \cup {NULL}] /\ h \in Undo \cup {NULL}
      /\ w.aoe \in [Undo -> [UndoKey -> Int]]
  BY DEF UndoType
<1>2. \E pos1 : /\ Positions(pos1) /\ \A v \in Undo \ {u} : pos1[v] = pos[v]
                /\ Listed([np EXCEPT ![u] = h], u, F \cup {u}, pos1)
  <2>1. Listed(np, h, F, pos) OBVIOUS
  <2> HIDE DEF np, h
  <2> QED BY <1>1, <2>1, Push
<1>3. PICK pos1 : /\ Positions(pos1) /\ \A v \in Undo \ {u} : pos1[v] = pos[v]
                  /\ Listed(nx, u, F \cup {u}, pos1)
  BY <1>2
<1>4. /\ nx \in [Undo -> Undo \cup {NULL}] /\ \A v \in Undo \ {u} : nx[v] = w.np[v]
      /\ a1 \in [Undo -> [UndoKey -> Int]] /\ a1[u] = NoEntry
      /\ \A v \in Undo \ {u} : a1[v] = w.aoe[v]
  BY <1>1, NoEntryFacts
<1>5. r = [w EXCEPT !.aoe = a1, !.np = nx, !.semfup = u] OBVIOUS
<1> HIDE DEF a1, nx, r, np, h
<1>6. /\ r \in UndoType /\ r.aoe = a1 /\ r.np = nx /\ r.semfup = u
      /\ r.semunp = w.semunp /\ r.sem_undo = w.sem_undo
  BY <1>4, <1>5 DEF UndoType
<1>7. Listed(nx, w.semunp, G, pos1)
  <2>1. \A v \in G : nx[v] = w.np[v] /\ pos1[v] = pos[v] BY <1>3, <1>4
  <2> QED BY <2>1, ListedFrame
<1> QED BY <1>3, <1>4, <1>6, <1>7 DEF r

(* semexit takes a structure with entries off semunp. *)
OffList(w, u) == IF Count(w, u) = 0 THEN w ELSE Unlink(w, u)

(* The undo structures after semexit of u's process. *)
Exited(w0, u) ==
    LET w == OffList(w0, u)
    IN  [w EXCEPT !.aoe[u] = NoEntry, !.np[u] = w.semfup, !.semfup = u]

(* Nobody else loses or gains an entry. *)
SameBut(w, w0, u) == \A v \in Undo \ {u} : w.aoe[v] = w0.aoe[v]

(* u is p's structure. *)
Has(w, p, u) == w.sem_undo[p] = u

(* semexit gives the process's structure back, without entries. *)
LEMMA ExitFacts ==
    ASSUME NEW w0, NEW lv \in [Proc -> BOOLEAN], UndoOK(w0, lv), NEW p \in Proc, lv[p],
           NEW u \in Undo, Has(w0, p, u)
    PROVE  /\ UndoOK(Exited(w0, u), [lv EXCEPT ![p] = FALSE])
           /\ Exited(w0, u).aoe[u] = NoEntry
           /\ SameBut(Exited(w0, u), w0, u)
<1> USE SemAssumption
<1> DEFINE w == OffList(w0, u)
           lv1 == [lv EXCEPT ![p] = FALSE]
           F == Undo \ Owned(w0, lv)
           r == [w EXCEPT !.aoe[u] = NoEntry, !.np[u] = w.semfup, !.semfup = u]
<1>t. w0 \in UndoType /\ w0.sem_undo \in [Proc -> Undo \cup {NULL}] BY DEF UndoOK, UndoType
<1>1. PICK pos : Lists(w0, lv, pos) BY DEF UndoOK
<1>2. u \in Owned(w0, lv) /\ u \notin F BY <1>t DEF Owned, Has
<1>3. Filled(w0) \in SUBSET Undo /\ Filled(w0) \subseteq Owned(w0, lv) /\ Filled(w0) \cap F = {}
  BY DEF Filled, UndoOK
<1>4. /\ w \in UndoType /\ w.aoe = w0.aoe /\ w.semfup = w0.semfup /\ w.sem_undo = w0.sem_undo
      /\ \A v \in F : w.np[v] = w0.np[v]
      /\ Listed(w.np, w.semunp, Filled(w0) \ {u}, pos)
  <2>1. CASE Count(w0, u) = 0
    <3>1. u \notin Filled(w0) BY <2>1, <1>t, CountFacts DEF Filled
    <3>2. Filled(w0) \ {u} = Filled(w0) BY <3>1
    <3> QED BY <2>1, <3>2, <1>1, <1>t DEF Lists, OffList
  <2>2. CASE Count(w0, u) # 0
    <3>1. u \in Filled(w0) BY <2>2, <1>t, CountFacts DEF Filled
    <3>2. Listed(w0.np, w0.semunp, Filled(w0), pos) /\ Positions(pos) BY <1>1 DEF Lists
    <3>3. w = Unlink(w0, u) BY <2>2 DEF OffList
    <3>4. \A v \in F : v \in Undo \ Filled(w0) BY <1>3
    <3>5. /\ w \in UndoType /\ w.aoe = w0.aoe /\ w.semfup = w0.semfup
          /\ w.sem_undo = w0.sem_undo /\ \A v \in Undo \ Filled(w0) : w.np[v] = w0.np[v]
          /\ Listed(w.np, w.semunp, Filled(w0) \ {u}, pos)
      <4> HIDE DEF F
      <4> HIDE DEF w
      <4>1. LET y == Unlink(w0, u)
            IN  /\ y \in UndoType /\ y.aoe = w0.aoe /\ y.semfup = w0.semfup
                /\ y.sem_undo = w0.sem_undo /\ \A v \in Undo \ Filled(w0) : y.np[v] = w0.np[v]
                /\ Listed(y.np, y.semunp, Filled(w0) \ {u}, pos)
        BY <3>1, <3>2, <1>t, <1>3, UnlinkFacts
      <4> QED BY <3>3, <4>1
    <3> QED BY <3>4, <3>5
  <2> QED BY <2>1, <2>2
<1> HIDE DEF w
<1>5. Positions(pos) /\ Listed(w0.np, w0.semfup, F, pos) BY <1>1 DEF Lists
<1>6. Listed(w.np, w.semfup, F, pos) BY <1>4, <1>5, ListedFrame
<1>7. /\ w.np \in [Undo -> Undo \cup {NULL}] /\ w.semfup \in Undo \cup {NULL}
      /\ w.aoe \in [Undo -> [UndoKey -> Int]]
  BY <1>4 DEF UndoType
<1>8. F \in SUBSET Undo /\ u \in Undo \ F /\ Filled(w0) \ {u} \in SUBSET Undo \ {u}
  BY <1>2, <1>3
<1> HIDE DEF r
<1>9. /\ r \in UndoType /\ r.sem_undo = w.sem_undo /\ r.aoe[u] = NoEntry
      /\ \A v \in Undo \ {u} : r.aoe[v] = w.aoe[v]
      /\ \E pos1 : /\ Positions(pos1) /\ Listed(r.np, r.semfup, F \cup {u}, pos1)
                   /\ Listed(r.np, r.semunp, Filled(w0) \ {u}, pos1)
  BY <1>4, <1>5, <1>6, <1>8, GiveBack DEF r
<1>10. PICK pos1 : /\ Positions(pos1) /\ Listed(r.np, r.semfup, F \cup {u}, pos1)
                   /\ Listed(r.np, r.semunp, Filled(w0) \ {u}, pos1)
  BY <1>9
<1>11. r.sem_undo = w0.sem_undo /\ \A v \in Undo \ {u} : r.aoe[v] = w0.aoe[v]
  BY <1>4, <1>9
<1>12. Filled(r) = Filled(w0) \ {u}
  BY <1>9, <1>11 DEF Filled
<1>13. lv1[p] = FALSE /\ \A q \in Proc \ {p} : lv1[q] = lv[q] OBVIOUS
<1> HIDE DEF lv1
<1>14. Owned(r, lv1) = Owned(w0, lv) \ {u}
  <2>1. ASSUME NEW q \in Proc, lv1[q] PROVE q # p /\ lv[q] /\ w0.sem_undo[q] # u
    BY <2>1, <1>13 DEF UndoOK, Private, Has
  <2> QED BY <2>1, <1>11, <1>13, <1>t DEF Owned, Has
<1>15. Undo \ Owned(r, lv1) = F \cup {u} BY <1>14, <1>2
<1>17. Lists(r, lv1, pos1) BY <1>10, <1>12, <1>15 DEF Lists
<1>18. Private(r, lv1) BY <1>11, <1>13 DEF Private, UndoOK
<1>19. Filled(r) \subseteq Owned(r, lv1) BY <1>12, <1>14, <1>3
<1>20. \A v \in Undo : /\ Size(r.aoe[v]) <= SEMUME
                       /\ \A k \in UndoKey : ~TooLarge(r.aoe[v][k])
  <2>1. ASSUME NEW v \in Undo
        PROVE  Size(r.aoe[v]) <= SEMUME /\ \A k \in UndoKey : ~TooLarge(r.aoe[v][k])
    <3>1. CASE v = u BY <3>1, <1>9, NoEntryFacts
    <3>2. CASE v # u BY <3>2, <1>11 DEF UndoOK
    <3> QED BY <3>1, <3>2
  <2> QED BY <2>1
<1>21. UndoOK(r, lv1) BY <1>9, <1>17, <1>18, <1>19, <1>20 DEF UndoOK
<1> QED BY <1>9, <1>11, <1>21 DEF r, lv1, w, Exited, SameBut

(* seminit links all structures on the free list. *)
LEMMA InitUndo == Init => UndoOK(un, live)
<1> SUFFICES ASSUME Init PROVE UndoOK(un, live) OBVIOUS
<1> USE SemAssumption
<1> DEFINE N == Cardinality(Undo)
<1>0. N \in Nat /\ N # 0 BY FS_CardinalityType, FS_EmptySet
<1>1. PICK semu \in [1 .. N -> Undo] :
         /\ \A u \in Undo : \E n \in DOMAIN semu : semu[n] = u
         /\ un = [aoe |-> [u \in Undo |-> NoEntry],
                  np |-> [u \in Undo |->
                            LET n == CHOOSE n \in DOMAIN semu : semu[n] = u
                            IN  IF n = Cardinality(Undo) THEN NULL ELSE semu[n + 1]],
                  semunp |-> NULL, semfup |-> semu[1],
                  sem_undo |-> [p \in Proc |-> NULL]]
  BY DEF Init
<1>2. \A m, n \in 1 .. N : semu[m] = semu[n] => m = n
  <2>1. IsFiniteSet(1 .. N) /\ Cardinality(1 .. N) = N BY <1>0, FS_Interval
  <2>2. semu \in Surjection(1 .. N, Undo) BY <1>1 DEF Surjection
  <2>3. semu \in Injection(1 .. N, Undo) BY <2>1, <2>2, FS_SurjSameCardinalityImpliesInj
  <2> QED BY <2>3 DEF Injection, IsInjective
<1> DEFINE at == [u \in Undo |-> CHOOSE n \in DOMAIN semu : semu[n] = u]
           pos == [u \in Undo |-> N - at[u]]
<1>3. \A u \in Undo : at[u] \in 1 .. N /\ semu[at[u]] = u BY <1>1
<1>4. \A n \in 1 .. N : semu[n] \in Undo /\ at[semu[n]] = n BY <1>2, <1>3
<1>5. \A u \in Undo : un.np[u] = IF at[u] = N THEN NULL ELSE semu[at[u] + 1] BY <1>1
<1>6. /\ un.aoe = [u \in Undo |-> NoEntry] /\ un.semunp = NULL /\ un.semfup = semu[1]
      /\ un.sem_undo = [p \in Proc |-> NULL] /\ DOMAIN un.np = Undo
  BY <1>1
<1>r. un = [aoe |-> un.aoe, np |-> un.np, semunp |-> un.semunp, semfup |-> un.semfup,
            sem_undo |-> un.sem_undo]
  BY <1>1
<1>f. un.np = [u \in Undo |-> un.np[u]] BY <1>1
<1> HIDE DEF at
<1>7. \A u \in Undo : pos[u] = N - at[u] /\ pos[u] \in 0 .. N - 1 BY <1>0, <1>3
<1>8. Positions(pos)
  <2>1. pos \in [Undo -> Nat] BY <1>7, <1>0
  <2> QED BY <2>1, <1>7, <1>0 DEF Positions
<1> HIDE DEF pos, N
<1>9. un \in UndoType
  <2>1. \A u \in Undo : un.np[u] \in Undo \cup {NULL}
    <3>1. ASSUME NEW u \in Undo PROVE un.np[u] \in Undo \cup {NULL}
      <4>1. at[u] # N => at[u] + 1 \in 1 .. N BY <1>3, <1>0
      <4> QED BY <4>1, <1>4, <1>5
    <3> QED BY <3>1
  <2>2. un.np \in [Undo -> Undo \cup {NULL}] BY <2>1, <1>f
  <2>3. 1 \in 1 .. N BY <1>0
  <2>4. un.semfup \in Undo BY <2>3, <1>4, <1>6
  <2>5. un.aoe \in [Undo -> [UndoKey -> Int]] BY <1>6, NoEntryFacts
  <2>6. un.sem_undo \in [Proc -> Undo \cup {NULL}] BY <1>6
  <2> QED BY <2>2, <2>4, <2>5, <2>6, <1>6, <1>r DEF UndoType
<1>10. Owned(un, live) = {} /\ Filled(un) = {} BY <1>6 DEF Owned, Filled
<1>11. Listed(un.np, un.semfup, Undo, pos)
  <2>1. \A u, v \in Undo : pos[u] = pos[v] => u = v BY <1>3, <1>7, <1>0
  <2>2. un.semfup \in Undo /\ \A v \in Undo : pos[v] <= pos[un.semfup]
    <3>1. 1 \in 1 .. N BY <1>0
    <3>2. un.semfup \in Undo /\ at[un.semfup] = 1 BY <3>1, <1>4, <1>6
    <3> QED BY <3>2, <1>3, <1>7, <1>0
  <2>3. ASSUME NEW u \in Undo PROVE NextOn(Undo, pos, u, un.np[u])
    <3>1. CASE at[u] = N
      <4>1. un.np[u] = NULL BY <3>1, <1>5
      <4>2. \A v \in Undo : ~(pos[v] < pos[u]) BY <3>1, <1>3, <1>7, <1>0
      <4> QED BY <4>1, <4>2 DEF NextOn
    <3>2. CASE at[u] # N
      <4>1. at[u] + 1 \in 1 .. N BY <3>2, <1>3, <1>0
      <4>2. un.np[u] \in Undo /\ at[un.np[u]] = at[u] + 1 BY <3>2, <4>1, <1>4, <1>5
      <4>4. /\ pos[un.np[u]] = N - (at[u] + 1) /\ pos[u] = N - at[u] /\ at[u] \in Nat
        BY <4>2, <1>3, <1>7, <1>0
      <4>5. ASSUME NEW v \in Undo, pos[v] < pos[u] PROVE pos[v] <= pos[un.np[u]]
        <5>1. pos[v] = N - at[v] /\ at[v] \in Nat BY <1>3, <1>7, <1>0
        <5> QED BY <5>1, <4>4, <4>5, <1>0
      <4>3. pos[un.np[u]] < pos[u] /\ \A v \in Undo : pos[v] < pos[u] => pos[v] <= pos[un.np[u]]
        BY <4>4, <4>5, <1>0
      <4> QED BY <4>2, <4>3 DEF NextOn
    <3> QED BY <3>1, <3>2
  <2> QED BY <2>1, <2>2, <2>3 DEF Listed
<1>12. Listed(un.np, un.semunp, {}, pos) BY <1>6 DEF Listed
<1>13. Undo \ {} = Undo OBVIOUS
<1>14. Lists(un, live, pos) BY <1>8, <1>10, <1>11, <1>12, <1>13 DEF Lists
<1>15. \A u \in Undo : un.aoe[u] = NoEntry BY <1>6
<1>16. Private(un, live) BY <1>6 DEF Private
<1> QED BY <1>9, <1>10, <1>14, <1>15, <1>16, NoEntryFacts DEF UndoOK

(* semaoe, called for the operation semop is at, keeps them in order. *)
LEMMA AdjustFacts ==
    ASSUME CallInv, UndoOK(un, live), NEW p \in Proc, cpu = p, i \in 1 .. Len(semtmp),
           NEW val \in Int
    PROVE  /\ UndoOK(Adjust(p, val).un, live) /\ Doing \in Op
           /\ call[p].id \in Semid /\ Doing.num \in Semnum /\ Doing.op \in Int /\ live[p]
           /\ Doing.undo \in BOOLEAN
<1>1. semtmp \in Seq(Op) /\ CallOf(p) /\ call \in [Proc -> CallType]
  BY DEF CallInv, CallTypes
<1>2. Doing \in Op BY <1>1 DEF Doing
<1>3. Doing.num \in Semnum /\ Doing.op \in Int /\ Doing.undo \in BOOLEAN BY <1>2 DEF Op
<1>4. call[p].id \in Semid BY <1>1 DEF CallType
<1>5. live[p] BY <1>1 DEF CallOf
<1>6. UndoOK(Adjust(p, val).un, live)
  BY <1>3, <1>4, <1>5, SemaoeFacts DEF Adjust
<1> QED BY <1>2, <1>3, <1>4, <1>5, <1>6

(* Every step keeps the undo structures in order. *)
LEMMA NextUndo ==
    ASSUME Calm, CallInv, UndoOK(un, live), [Next]_vars,
           \A x \in SetIndex : sema[x].nsems \in Nat
    PROVE  UndoOK(un, live)'
<1> USE DEF sets, sems, proc, run
<1>t. CallTypes /\ \A p \in Proc : CallOf(p) BY DEF CallInv
<1>n. ASSUME NEW id \in Semid PROVE sema[Index(id, SEMMNI)].nsems \in Int
  <2>1. Index(id, SEMMNI) \in SetIndex BY SemAssumption DEF Index, SetIndex, Semid
  <2> QED BY <2>1
<1>d. ASSUME i \in 1 .. Len(semtmp) PROVE Doing.op \in Int
  <2>1. semtmp \in Seq(Op) BY <1>t DEF CallTypes
  <2>2. semtmp[i] \in Op BY <1>d, <2>1
  <2>3. semtmp[i].op \in Int BY <2>2 DEF Op
  <2> QED BY <2>3 DEF Doing
<1>s. CASE UNCHANGED <<un, live>> BY <1>s
<1>u. ASSUME NEW id, NEW low \in Int, NEW high \in Int, un' = Semunrm(un, id, low, high),
             live' = live
      PROVE  UndoOK(un, live)'
  BY <1>u, SemunrmFacts
<1>3. ASSUME NEW p \in Proc, Semctl(p) PROVE UndoOK(un, live)'
  <2>1. ASSUME NEW id \in Semid, Rmid(p, id) PROVE UndoOK(un, live)'
    BY <2>1, <1>n, <1>u DEF Rmid
  <2>2. ASSUME NEW id \in Semid, Ipcset(p, id) PROVE UndoOK(un, live)'
    BY <2>2, <1>s DEF Ipcset
  <2>3. ASSUME NEW id \in Semid, NEW num \in Semnum, NEW val \in 0 .. SEMVMX,
               Setval(p, id, num, val)
        PROVE  UndoOK(un, live)'
    <3>1. num \in Int BY SemAssumption DEF Semnum
    <3> QED BY <2>3, <3>1, <1>u DEF Setval
  <2>4. ASSUME NEW id \in Semid, NEW vals \in [Semnum -> 0 .. SEMVMX], Setall(p, id, vals)
        PROVE  UndoOK(un, live)'
    <3>1. SetAllVals(id, vals, pc) /\ live' = live
      BY <2>4 DEF Setall, Faults, Calm
    <3>2. un' = Semunrm(un, id, 0, sema[Index(id, SEMMNI)].nsems) BY <3>1 DEF SetAllVals
    <3> QED BY <3>1, <3>2, <1>n, <1>u
  <2> QED BY <1>3, <2>1, <2>2, <2>3, <2>4 DEF Semctl
<1>5. ASSUME NEW p \in Proc, SemopStep(p) PROVE UndoOK(un, live)'
  <2>1. CASE OpApplies(p) \/ OpFails(p)
    <3>1. /\ cpu = p /\ pc[p] = "check" /\ i <= Len(semtmp) /\ live' = live
          /\ un' = un \/ un' = Adjust(p, Doing.op).un
      BY <2>1 DEF OpApplies, OpFails, Running
    <3>2. i \in 1 .. Len(semtmp) BY <3>1, <1>t DEF CallOf, CallTypes
    <3>3. Doing.op \in Int BY <3>1, <3>2, <1>d
    <3> QED BY <3>1, <3>2, <3>3, AdjustFacts
  <2>2. CASE SemundoStep(p)
    <3>1. cpu = p /\ pc[p] = "undo" /\ i > 0 /\ live' = live /\ un' = Reverse(p)
      BY <2>2 DEF SemundoStep, Running
    <3>2. i \in 1 .. Len(semtmp) BY <3>1, <1>t DEF CallOf, CallTypes
    <3>3. Doing.op \in Int BY <3>1, <3>2, <1>d
    <3> QED BY <3>1, <3>2, <3>3, AdjustFacts DEF Reverse
  <2>3. CASE OpPasses(p) \/ OpWaits(p) \/ OpsDone(p) \/ SemundoDone(p)
    BY <2>3, <1>s DEF OpPasses, OpWaits, OpsDone, SemundoDone, Finish
  <2> QED BY <1>5, <2>1, <2>2, <2>3 DEF SemopStep
<1>6. ASSUME NEW p \in Proc, Continue(p) PROVE UndoOK(un, live)'
  <2>1. CASE Resume(p) BY <2>1, <1>s DEF Resume, Finish, Faults, Calm
  <2>2. CASE ~Resume(p)
    BY <1>6, <1>t, <2>2 DEF Continue, SemopFaulted, ResumeFaulted, SetallFaulted, IpcsetFaulted,
       CallOf
  <2> QED BY <2>1, <2>2
<1>8. ASSUME NEW p \in Proc, Exit(p) PROVE UndoOK(un, live)'
  <2> DEFINE u == un.sem_undo[p]
  <2>1. /\ live[p] /\ live' = [live EXCEPT ![p] = FALSE]
        /\ un' = IF u = NULL THEN un
                 ELSE LET w == IF Count(un, u) = 0 THEN un ELSE Unlink(un, u)
                      IN  [w EXCEPT !.aoe[u] = NoEntry, !.np[u] = w.semfup, !.semfup = u]
    BY <1>8, Zenon DEF Exit, Enters
  <2>2. live \in [Proc -> BOOLEAN] /\ un.sem_undo \in [Proc -> Undo \cup {NULL}]
    BY <1>t DEF CallTypes, UndoOK, UndoType
  <2>3. CASE u # NULL
    <3>2. un' = Exited(un, u) BY <2>1, <2>3 DEF OffList, Exited
    <3>3. u \in Undo /\ Has(un, p, u) /\ live[p] BY <2>1, <2>2, <2>3 DEF Has
    <3> HIDE DEF u
    <3>6. UndoOK(Exited(un, u), [live EXCEPT ![p] = FALSE]) BY <3>3, <2>2, ExitFacts
    <3>5. UndoOK(un', live') BY <3>2, <3>6, <2>1
    <3> QED BY <3>5
  <2>4. CASE u = NULL
    <3>1. un' = un BY <2>1, <2>4
    <3>2. Owned(un, live') = Owned(un, live)
      BY <2>1, <2>2, <2>4 DEF Owned
    <3>3. Private(un, live') BY <2>1, <2>2 DEF Private, UndoOK
    <3>4. \A pos : Lists(un, live, pos) => Lists(un, live', pos) BY <3>2 DEF Lists
    <3>5. UndoOK(un, live') BY <3>2, <3>3, <3>4 DEF UndoOK
    <3> QED BY <3>1, <3>5
  <2> QED BY <2>3, <2>4
<1>9. CASE \E p \in Proc : Fork(p)
  BY <1>9 DEF Fork, Calm
<1>10. CASE \E p \in Proc :
          \/ \E key \in Key, creat \in BOOLEAN, n \in 1 .. SEMMSL : Semget(p, key, creat, n)
          \/ \E id \in Semid, ops \in Ops : Semop(p, id, ops)
          \/ Signal(p)
  BY <1>10, <1>s, Zenon DEF Semget, Semop, Signal
<1>11. CASE UNCHANGED vars BY <1>11, <1>s DEF vars
<1> QED BY <1>3, <1>5, <1>6, <1>8, <1>9, <1>10, <1>11 DEF Next

(* What was to be shown of the lists. *)
LEMMA ListsFollow ==
    ASSUME UndoOK(un, live)
    PROVE  UndoLists /\ UndoPrivate
<1>1. PICK pos : Lists(un, live, pos) BY DEF UndoOK
<1>2. un \in UndoType BY DEF UndoOK
<1>3. Filled(un) = {u \in Undo : Count(un, u) # 0}
  BY <1>2, CountFacts DEF Filled
<1>4. /\ Filled(un) \in SUBSET Undo /\ Undo \ Owned(un, live) \in SUBSET Undo
      /\ Positions(pos) /\ Listed(un.np, un.semfup, Undo \ Owned(un, live), pos)
      /\ Listed(un.np, un.semunp, Filled(un), pos)
  BY <1>1 DEF Lists, Filled
<1>5. OnList(un, un.semunp) = Filled(un) BY <1>4, OnListIs
<1>6. OnList(un, un.semfup) = Undo \ Owned(un, live) BY <1>4, OnListIs
<1>7. Filled(un) \subseteq Owned(un, live) BY DEF UndoOK
<1>8. UndoLists BY <1>3, <1>5, <1>6, <1>7 DEF UndoLists, Owned
<1> QED BY <1>8 DEF UndoOK, Private, UndoPrivate

(***************************************************************************)
(* The sets, the resource map behind them, and who works on which set.     *)
(***************************************************************************)

(* No identifier comes back: IPC_RMID never resets a sequence number. *)
NoWrap == \A id \in Semid : id \div SEMMNI < MaxSeq => id + SEMMNI <= IntMax

(* The sequence number an identifier was made from. *)
Gen(id) == id \div SEMMNI

(* A header, semid_ds. *)
HeaderType == [alloc : BOOLEAN, key : Key, seq : Nat, base : SemIndex, nsems : 0 .. SEMMSL]

(* Types of the headers. *)
SetTypes == sema \in [SetIndex -> HeaderType]

(* semmap is a resource map of semaphores. *)
MapOK ==
    Shape(semmap) /\ Ordered(semmap) /\ FreeUnits(semmap) \subseteq SemIndex

(* A set has semaphores, and none of them is free. *)
SetOK(x) ==
    sema[x].alloc => /\ sema[x].nsems >= 1 /\ SetOf(x) \subseteq SemIndex
                     /\ SetOf(x) \cap FreeUnits(semmap) = {}

(* No semaphore is in two sets. *)
Apart ==
    \A x, y \in SetIndex : x # y /\ sema[x].alloc /\ sema[y].alloc => SetOf(x) \cap SetOf(y) = {}

(* The set of id is gone for good, or still there with more than num       *)
(* semaphores for every num in N.                                          *)
Bound(id, N) ==
    LET x == Index(id, SEMMNI)
    IN  \/ Gen(id) < sema[x].seq
        \/ /\ Gen(id) = sema[x].seq /\ sema[x].alloc
           /\ \A n \in N : n < sema[x].nsems

(* The semaphores a list names. *)
Nums(ops) == {ops[j].num : j \in 1 .. Len(ops)}

(* The counts of the semaphores of a set. *)
WaitsAt(id) == {"semncnt", "semzcnt"} \X SetOf(Index(id, SEMMNI))

(* A caller's set is the one it asked for; one that sleeps or is about to, *)
(* waits on a count of it.                                                 *)
Caller(p) ==
    /\ pc[p] # "user" => Bound(call[p].id, Nums(call[p].ops))
    /\ cpu = p => Semconv(call[p].id)
    /\ pc[p] = "asleep" => Semconv(call[p].id) /\ chan[p] \in WaitsAt(call[p].id)
    /\ cpu = p /\ pc[p] = "undo" /\ after = "sleep" => chan[p] \in WaitsAt(call[p].id)

(* The sets, their map and their callers. *)
SetInv ==
    /\ SetTypes /\ MapOK /\ Apart
    /\ \A x \in SetIndex : SetOK(x)
    /\ \A p \in Proc : Caller(p)

(* An identifier is an index and a sequence number. *)
LEMMA IdFacts == ASSUME NEW id \in Semid PROVE Index(id, SEMMNI) \in SetIndex /\ Gen(id) \in Nat
<1>1. SEMMNI \in Nat \ {0} /\ id \in Nat BY SemAssumption DEF Semid
<1>2. id % SEMMNI \in 0 .. SEMMNI - 1 /\ id \div SEMMNI \in Nat BY <1>1
<1> QED BY <1>2 DEF Index, SetIndex, Gen

(* No set after seminit, and every semaphore free. *)
LEMMA InitSets == Init => SetInv
<1> SUFFICES ASSUME Init PROVE SetInv OBVIOUS
<1> USE SemAssumption, MapSlotsAssumption
<1>1. Shape(MapInit) /\ Ordered(MapInit) /\ FreeUnits(MapInit) = {}
  <2>1. MapInit \in MapType BY DEF MapInit, MapType, EndEntry, Entry
  <2>2. MapInit.size = MapSlots /\ MapInit.ent = [j \in Slot |-> EndEntry] BY DEF MapInit
  <2>3. Shape(MapInit) /\ Used(MapInit) = 0 BY <2>1, <2>2 DEF Shape, Used, Slot
  <2>4. Ordered(MapInit) BY <2>3 DEF Ordered
  <2>5. FreeUnits(MapInit) = {} BY <2>3, InFreeUnits
  <2> QED BY <2>3, <2>4, <2>5
<1>2. MapOK
  <2>1. semmap = Rmfree(MapInit, SEMMNS, 1) BY DEF Init
  <2>2. SEMMNS \in Nat \ {0} /\ SEMMNS \in Nat /\ 1 \in Nat \ {0} /\ 1 \in Nat OBVIOUS
  <2>3. Shape(semmap) BY <2>1, <2>2, <1>1, RmfreeShape
  <2>4. CASE Overflows(MapInit, SEMMNS, 1)
    <3>1. semmap = MapInit BY <2>1, <2>4 DEF Rmfree
    <3> QED BY <3>1, <1>1 DEF MapOK
  <2>5. CASE ~Overflows(MapInit, SEMMNS, 1)
    <3>1. Span(1, SEMMNS) \cap FreeUnits(MapInit) = {} BY <1>1
    <3>2. /\ FreeUnits(Rmfree(MapInit, SEMMNS, 1)) = FreeUnits(MapInit) \cup Span(1, SEMMNS)
          /\ Ordered(Rmfree(MapInit, SEMMNS, 1))
      BY <2>2, <2>5, <3>1, <1>1, RmfreeUnits
    <3>3. Span(1, SEMMNS) = SemIndex BY DEF Span, SemIndex
    <3> QED BY <2>1, <2>3, <3>2, <3>3, <1>1 DEF MapOK
  <2> QED BY <2>4, <2>5
<1>3. \A x \in SetIndex : ~sema[x].alloc BY DEF Init
<1>4. SetTypes BY DEF Init, SetTypes, HeaderType, SemIndex
<1>5. \A p \in Proc : Caller(p) BY DEF Init, Caller
<1> QED BY <1>2, <1>3, <1>4, <1>5 DEF SetInv, Apart, SetOK

(* semop's operation is on a semaphore of the caller's set. *)
LEMMA AtHome ==
    ASSUME CallInv, SetInv, NEW p \in Proc, cpu = p, i \in 1 .. Len(semtmp)
    PROVE  /\ At(p) \in SetOf(Index(call[p].id, SEMMNI)) /\ At(p) \in SemIndex
           /\ call[p].id \in Semid /\ Index(call[p].id, SEMMNI) \in SetIndex
           /\ sema[Index(call[p].id, SEMMNI)].alloc
           /\ Gen(call[p].id) = sema[Index(call[p].id, SEMMNI)].seq
           /\ Doing.num < sema[Index(call[p].id, SEMMNI)].nsems
           /\ Doing.num \in Nat
<1>1. /\ semtmp \in Seq(Op) /\ CallOf(p) /\ call \in [Proc -> CallType] /\ Caller(p)
      /\ SetTypes
  BY DEF CallInv, CallTypes, SetInv
<1> DEFINE id == call[p].id
           x == Index(id, SEMMNI)
<1>2. id \in Semid BY <1>1 DEF CallType
<1>3. x \in SetIndex /\ Gen(id) \in Nat BY <1>2, IdFacts
<1>4. sema[x] \in HeaderType BY <1>1, <1>3 DEF SetTypes
<1>5. sema[x].alloc /\ sema[x].seq = Gen(id) BY <1>1 DEF Caller, Semconv, Valid, Gen
<1>6. /\ sema[x].seq \in Nat /\ sema[x].base \in SemIndex /\ sema[x].base \in Nat
      /\ sema[x].nsems \in Nat
  BY <1>4, SemAssumption DEF HeaderType, SemIndex
<1>7. pc[p] # "user" /\ call[p].ops = semtmp BY <1>1 DEF CallOf
<1>8. Bound(id, Nums(semtmp)) BY <1>1, <1>7 DEF Caller
<1>9. Doing.num \in Nums(semtmp) BY DEF Nums, Doing
<1>10. Doing.num < sema[x].nsems BY <1>5, <1>6, <1>8, <1>9 DEF Bound
<1>11. Doing.num \in Semnum
  <2>1. semtmp[i] \in Op BY <1>1
  <2> QED BY <2>1 DEF Op, Doing
<1>12. Doing.num \in Nat BY <1>11, SemAssumption DEF Semnum
<1>13. At(p) = sema[x].base + Doing.num BY DEF At, SemOf, Header
<1> HIDE DEF x
<1>14. At(p) \in SetOf(x) BY <1>6, <1>10, <1>12, <1>13 DEF SetOf
<1>15. SetOf(x) \subseteq SemIndex BY <1>3, <1>5 DEF SetInv, SetOK
<1> QED BY <1>2, <1>3, <1>5, <1>10, <1>12, <1>14, <1>15 DEF x

(* The hypothesis of CountsKept, from the other invariants. *)
LEMMA StaysInTable == CallInv /\ SetInv => InTable
<1> SUFFICES ASSUME CallInv, SetInv, NEW p \in Proc, Running(p, "check"), i <= Len(semtmp)
             PROVE  At(p) \in SemIndex
  BY DEF InTable
<1>1. cpu = p /\ i \in 1 .. Len(semtmp)
  BY DEF Running, CallInv, CallTypes, CallOf
<1> QED BY <1>1, AtHome

(* The sets do not change, nor what q does with its own. *)
LEMMA CallerKept ==
    ASSUME NEW q \in Proc, Caller(q), UNCHANGED <<sema, semmap>>,
           call'[q] = call[q], chan'[q] = chan[q],
           pc'[q] = pc[q] \/ (pc[q] = "asleep" /\ pc'[q] = "woken"),
           cpu' = q => cpu = q /\ after' = after
    PROVE  Caller(q)'
<1>1. Bound(call[q].id, Nums(call[q].ops))' <=> Bound(call[q].id, Nums(call[q].ops))
  BY DEF Bound, Nums
<1>2. WaitsAt(call[q].id)' = WaitsAt(call[q].id) BY DEF WaitsAt, SetOf
<1>3. Semconv(call[q].id)' <=> Semconv(call[q].id) BY DEF Semconv
<1> QED BY <1>1, <1>2, <1>3 DEF Caller

(* The sets do not change. *)
LEMMA SetsFrame ==
    ASSUME SetInv, UNCHANGED <<sema, semmap>>, \A q \in Proc : Caller(q)'
    PROVE  SetInv'
<1>1. \A x : SetOf(x)' = SetOf(x) BY DEF SetOf
<1> QED BY <1>1 DEF SetInv, SetTypes, MapOK, Apart, SetOK

(* The sets do not change and the others are at most woken. *)
LEMMA SetsKept ==
    ASSUME SetInv, NEW p \in Proc, UNCHANGED <<sema, semmap>>, Caller(p)',
           \A q \in Proc \ {p} : /\ call'[q] = call[q] /\ chan'[q] = chan[q]
                                 /\ pc'[q] = pc[q] \/ (pc[q] = "asleep" /\ pc'[q] = "woken"),
           cpu' \in {NULL, p}
    PROVE  SetInv'
<1>1. ASSUME NEW q \in Proc PROVE Caller(q)'
  <2>1. CASE q = p BY <2>1
  <2>2. CASE q # p
    <3>1. Caller(q) /\ cpu' # q BY <2>2, SemAssumption DEF SetInv
    <3> QED BY <2>2, <3>1, CallerKept
  <2> QED BY <2>1, <2>2
<1> QED BY <1>1, SetsFrame

(* A set is a span of units of semmap. *)
LEMMA SetOfSpan == ASSUME NEW x PROVE SetOf(x) = Span(sema[x].base, sema[x].nsems)
BY DEF SetOf, Span

(* A header given to a new set. *)
Taken(e, key, a, n) == [e EXCEPT !.alloc = TRUE, !.key = key, !.base = a, !.nsems = n]

(* The new set's header. *)
LEMMA HeaderTaken ==
    ASSUME NEW e \in HeaderType, NEW key \in Key, NEW a \in SemIndex, NEW n \in 1 .. SEMMSL
    PROVE  /\ Taken(e, key, a, n) \in HeaderType /\ Taken(e, key, a, n).alloc
           /\ Taken(e, key, a, n).seq = e.seq /\ Taken(e, key, a, n).base = a
           /\ Taken(e, key, a, n).nsems = n
<1>1. n \in 0 .. SEMMSL BY SemAssumption
<1> QED BY <1>1 DEF HeaderType, Taken

(* A removed set's header. *)
LEMMA HeaderLeft ==
    ASSUME NEW e \in HeaderType, NEW q \in Nat
    PROVE  LET g == [e EXCEPT !.alloc = FALSE, !.seq = q]
           IN  g \in HeaderType /\ ~g.alloc /\ g.seq = q
BY DEF HeaderType

(* semget makes a set of free semaphores and disturbs no other. *)
LEMMA SemgetSets ==
    ASSUME SetInv, CallInv, NEW p \in Proc, NEW key \in Key, NEW creat \in BOOLEAN,
           NEW n \in 1 .. SEMMSL, Semget(p, key, creat, n)
    PROVE  SetInv' /\ FreeUnits(semmap') \subseteq FreeUnits(semmap)
           /\ \E y \in SetIndex : /\ FreeUnits(semmap) \subseteq FreeUnits(semmap') \cup SetOf(y)'
                                  /\ ~sema[y].alloc /\ sema'[y].alloc /\ sema'[y].seq = sema[y].seq
                                  /\ \A z \in SetIndex \ {y} : sema'[z] = sema[z]
<1> USE SemAssumption DEF sets, sems, proc, run
<1>1. PICK x \in SetIndex :
         /\ ~sema[x].alloc
         /\ sema' = [sema EXCEPT ![x].alloc = TRUE, ![x].key = key,
                                 ![x].base = RmallocAddr(semmap, n), ![x].nsems = n]
  BY DEF Semget, Creates, Unused
<1> DEFINE a == RmallocAddr(semmap, n)
           h == Taken(sema[x], key, a, n)
<1>2. sema \in [SetIndex -> HeaderType] /\ Shape(semmap) /\ Ordered(semmap)
      /\ FreeUnits(semmap) \subseteq SemIndex
  BY DEF SetInv, SetTypes, MapOK
<1>3. sema[x] \in HeaderType BY <1>2
<1>4. sema' = [sema EXCEPT ![x] = h] BY <1>1, <1>2 DEF Taken
<1>5. n \in Nat /\ CanAlloc(semmap, n) /\ semmap' = Rmalloc(semmap, n)
      /\ UNCHANGED <<call, chan, pc, cpu, after>> /\ cpu = NULL
  BY DEF Semget, Enters
<1>6. /\ Shape(semmap') /\ Ordered(semmap') /\ a \in Nat /\ a # 0
      /\ Span(a, n) \subseteq FreeUnits(semmap)
      /\ FreeUnits(semmap') = FreeUnits(semmap) \ Span(a, n)
  BY <1>2, <1>5, RmallocUnits
<1> HIDE DEF a
<1>7. a \in SemIndex
  <2>1. a \in Span(a, n) BY <1>5, <1>6 DEF Span
  <2> QED BY <2>1, <1>2, <1>6
<1>8. h \in HeaderType /\ h.alloc /\ h.seq = sema[x].seq /\ h.base = a /\ h.nsems = n
  BY <1>3, <1>7, HeaderTaken
<1> HIDE DEF h
<1>9. /\ sema' \in [SetIndex -> HeaderType] /\ sema'[x] = h
      /\ \A y \in SetIndex \ {x} : sema'[y] = sema[y]
  BY <1>2, <1>4, <1>8
<1>10. SetOf(x)' = Span(a, n) /\ \A y \in SetIndex \ {x} : SetOf(y)' = SetOf(y)
  BY <1>9, <1>8 DEF SetOf, Span
<1>11. MapOK' BY <1>2, <1>6 DEF MapOK
<1>12. ASSUME NEW y \in SetIndex PROVE SetOK(y)'
  <2>1. CASE y = x BY <2>1, <1>2, <1>6, <1>9, <1>10, <1>8 DEF SetOK
  <2>2. CASE y # x
    <3>1. SetOK(y) BY DEF SetInv
    <3> QED BY <2>2, <3>1, <1>6, <1>9, <1>10 DEF SetOK
  <2> QED BY <2>1, <2>2
<1>13. Apart'
  <2>1. ASSUME NEW y \in SetIndex \ {x}, sema[y].alloc PROVE SetOf(y) \cap Span(a, n) = {}
    BY <2>1, <1>6 DEF SetInv, SetOK
  <2>2. ASSUME NEW y \in SetIndex, NEW z \in SetIndex, y # z, sema'[y].alloc, sema'[z].alloc
        PROVE  SetOf(y)' \cap SetOf(z)' = {}
    <3>1. CASE y = x BY <3>1, <2>1, <2>2, <1>9, <1>10
    <3>2. CASE z = x BY <3>2, <2>1, <2>2, <1>9, <1>10
    <3>3. CASE y # x /\ z # x
      <4>1. SetOf(y) \cap SetOf(z) = {} BY <3>3, <2>2, <1>9 DEF SetInv, Apart
      <4> QED BY <3>3, <4>1, <1>10
    <3> QED BY <3>1, <3>2, <3>3
  <2> QED BY <2>2 DEF Apart
<1>14. ASSUME NEW q \in Proc PROVE Caller(q)'
  <2> DEFINE id == call[q].id
             y == Index(id, SEMMNI)
  <2>1. id \in Semid BY DEF CallInv, CallTypes, CallType
  <2>2. y \in SetIndex BY <2>1, IdFacts
  <2>3. Caller(q) /\ cpu' # q BY <1>5 DEF SetInv
  <2>4. sema'[y].seq = sema[y].seq BY <2>2, <1>9, <1>8
  <2>5. sema[y].alloc => y # x BY <1>1
  <2>6. y # x => Bound(id, Nums(call[q].ops))' = Bound(id, Nums(call[q].ops))
    BY <2>2, <1>5, <1>9 DEF Bound, Nums
  <2>7. Bound(id, Nums(call[q].ops)) => Bound(id, Nums(call[q].ops))'
    <3>1. CASE Gen(id) < sema[y].seq BY <3>1, <2>4, <1>5 DEF Bound
    <3>2. CASE sema[y].alloc BY <3>2, <2>5, <2>6
    <3> QED BY <3>1, <3>2 DEF Bound
  <2>8. Semconv(id) => Semconv(id)' /\ WaitsAt(id)' = WaitsAt(id)
    <3>1. Semconv(id) => y # x BY <2>5 DEF Semconv, Valid
    <3> QED BY <3>1, <2>2, <1>5, <1>9, <1>10 DEF Semconv, Valid, WaitsAt
  <2>9. call'[q] = call[q] /\ chan'[q] = chan[q] /\ pc'[q] = pc[q] BY <1>5
  <2> HIDE DEF y
  <2> QED BY <2>3, <2>7, <2>8, <2>9 DEF Caller
<1>15. SetInv' BY <1>9, <1>11, <1>12, <1>13, <1>14 DEF SetInv, SetTypes
<1> QED BY <1>15, <1>1, <1>6, <1>9, <1>10, <1>8

(* IPC_RMID ends one set, wakes all who sleep on it, and the identifier    *)
(* is gone for good.                                                       *)
LEMMA RmidSets ==
    ASSUME NoWrap, SetInv, CallInv, WaitInv, NEW p \in Proc, NEW id \in Semid, Rmid(p, id)
    PROVE  LET x == Index(id, SEMMNI)
           IN  /\ SetInv' /\ x \in SetIndex /\ sema[x].alloc /\ ~sema'[x].alloc
               /\ sema'[x].seq = sema[x].seq + 1
               /\ \A y \in SetIndex \ {x} : sema'[y] = sema[y]
               /\ ~Overflows(semmap, sema[x].nsems, sema[x].base)
                     => FreeUnits(semmap') = FreeUnits(semmap) \cup SetOf(x)
<1> USE SemAssumption DEF sets, sems, proc, run
<1> DEFINE x == Index(id, SEMMNI)
           n == sema[x].nsems
           b == sema[x].base
           h == [sema[x] EXCEPT !.alloc = FALSE, !.seq = sema[x].seq + 1]
<1>1. x \in SetIndex BY IdFacts
<1>2. sema \in [SetIndex -> HeaderType] /\ Shape(semmap) /\ Ordered(semmap)
      /\ FreeUnits(semmap) \subseteq SemIndex
  BY DEF SetInv, SetTypes, MapOK
<1>3. sema[x] \in HeaderType BY <1>1, <1>2
<1>4. sema[x].alloc /\ sema[x].seq = Gen(id) /\ sema[x].seq < MaxSeq
  BY DEF Rmid, Semconv, Valid, Gen
<1>5. /\ sema[x].seq \in Nat /\ b \in SemIndex /\ b \in Nat \ {0} /\ n \in Nat
      /\ sema[x].key \in Key /\ n \in 0 .. SEMMSL
  BY <1>3 DEF HeaderType, SemIndex
<1>6. n >= 1 /\ SetOf(x) \subseteq SemIndex /\ SetOf(x) \cap FreeUnits(semmap) = {}
  BY <1>1, <1>4 DEF SetInv, SetOK
<1>7. NextSeq(id, sema[x].seq, SEMMNI) = sema[x].seq + 1
  <2>1. id \div SEMMNI < MaxSeq BY <1>4 DEF Gen
  <2>2. id + SEMMNI <= IntMax BY <2>1 DEF NoWrap
  <2>3. id \in Int /\ SEMMNI \in Int /\ IntMax \in Int BY DEF Semid
  <2> QED BY <2>2, <2>3 DEF NextSeq
<1>8. sema' = [sema EXCEPT ![x] = h]
  <2>1. sema' = [sema EXCEPT ![x].alloc = FALSE, ![x].seq = sema[x].seq + 1]
    BY <1>1, <1>2, <1>7 DEF Rmid
  <2> QED BY <2>1, <1>1, <1>2
<1>9. h \in HeaderType /\ ~h.alloc /\ h.seq = sema[x].seq + 1
  <2>1. sema[x].seq + 1 \in Nat BY <1>5
  <2> QED BY <2>1, <1>3, HeaderLeft
<1> HIDE DEF h
<1>10. /\ sema' \in [SetIndex -> HeaderType] /\ sema'[x] = h
       /\ \A y \in SetIndex \ {x} : sema'[y] = sema[y]
  BY <1>1, <1>2, <1>8, <1>9
<1>11. semmap' = Rmfree(semmap, n, b) BY DEF Rmid, RmidMap
<1>12. /\ UNCHANGED <<call, chan, cpu, after>> /\ cpu = NULL
       /\ Wakeup(RmidWakes(SetOf(x)), pc)
  BY DEF Rmid, Enters
<1>13. \A y \in SetIndex \ {x} : SetOf(y)' = SetOf(y) BY <1>10 DEF SetOf
<1>14. /\ Shape(semmap') /\ Ordered(semmap')
       /\ FreeUnits(semmap') \subseteq FreeUnits(semmap) \cup SetOf(x)
       /\ ~Overflows(semmap, n, b) => FreeUnits(semmap') = FreeUnits(semmap) \cup SetOf(x)
  <2>1. Shape(Rmfree(semmap, n, b)) BY <1>2, <1>5, RmfreeShape
  <2>2. CASE Overflows(semmap, n, b)
    <3>1. semmap' = semmap BY <2>2, <1>11 DEF Rmfree
    <3> QED BY <2>2, <3>1, <1>2
  <2>3. CASE ~Overflows(semmap, n, b)
    <3>1. SetOf(x) = Span(b, n) BY SetOfSpan
    <3>2. n \in Nat \ {0} BY <1>5, <1>6
    <3>3. Span(b, n) \cap FreeUnits(semmap) = {} BY <3>1, <1>6
    <3>4. /\ FreeUnits(Rmfree(semmap, n, b)) = FreeUnits(semmap) \cup Span(b, n)
          /\ Ordered(Rmfree(semmap, n, b))
      <4> HIDE DEF n, b
      <4> QED BY <2>3, <3>2, <3>3, <1>2, <1>5, RmfreeUnits
    <3> QED BY <2>1, <3>1, <3>4, <1>11
  <2> QED BY <2>2, <2>3
<1>15. MapOK' BY <1>2, <1>6, <1>14 DEF MapOK
<1>16. ASSUME NEW y \in SetIndex PROVE SetOK(y)'
  <2>1. CASE y = x BY <2>1, <1>10, <1>9 DEF SetOK
  <2>2. CASE y # x
    <3>1. SetOK(y) BY DEF SetInv
    <3>2. sema[y].alloc => SetOf(y) \cap SetOf(x) = {} BY <2>2, <1>1, <1>4 DEF SetInv, Apart
    <3> QED BY <2>2, <3>1, <3>2, <1>14, <1>10, <1>13 DEF SetOK
  <2> QED BY <2>1, <2>2
<1>17. Apart'
  <2>1. ASSUME NEW y \in SetIndex, NEW z \in SetIndex, y # z, sema'[y].alloc, sema'[z].alloc
        PROVE  SetOf(y)' \cap SetOf(z)' = {}
    <3>1. y # x /\ z # x BY <2>1, <1>10, <1>9
    <3>2. SetOf(y) \cap SetOf(z) = {} BY <3>1, <2>1, <1>10 DEF SetInv, Apart
    <3> QED BY <3>1, <3>2, <1>13
  <2> QED BY <2>1 DEF Apart
<1>18. ASSUME NEW q \in Proc PROVE Caller(q)'
  <2> DEFINE d == call[q].id
             y == Index(d, SEMMNI)
  <2>1. d \in Semid BY DEF CallInv, CallTypes, CallType
  <2>2. y \in SetIndex /\ Gen(d) \in Nat BY <2>1, IdFacts
  <2>3. Caller(q) /\ Waits(q) /\ cpu' # q BY <1>12 DEF SetInv, WaitInv
  <2>4. pc \in [Proc -> Where] /\ cnt \in [Chan -> Nat] BY DEF WaitInv, WaitTypes
  <2>5. /\ pc'[q] = pc[q] \/ (pc[q] = "asleep" /\ pc'[q] = "woken")
        /\ pc'[q] = "asleep" /\ chan[q] \in Chan /\ cnt[chan[q]] > 0
              => chan[q] \notin RmidWakes(SetOf(x)) /\ pc[q] = "asleep"
    BY <2>4, <1>12, WakeupFacts
  <2>6. y # x => Bound(d, Nums(call[q].ops))' = Bound(d, Nums(call[q].ops))
    BY <2>2, <1>10, <1>12 DEF Bound, Nums
  <2>7. Bound(d, Nums(call[q].ops)) => Bound(d, Nums(call[q].ops))'
    <3>1. CASE y = x
      <4>1. Bound(d, Nums(call[q].ops)) => Gen(d) <= sema[x].seq
        BY <3>1, <2>2, <1>5 DEF Bound
      <4>2. sema'[x].seq = sema[x].seq + 1 BY <1>10, <1>9
      <4>3. Gen(d) <= sema[x].seq => Gen(d) < sema'[x].seq BY <4>2, <2>2, <1>5
      <4>4. Gen(d) < sema'[y].seq => Bound(d, Nums(call[q].ops))' BY <1>12 DEF Bound
      <4> QED BY <3>1, <4>1, <4>3, <4>4
    <3> QED BY <3>1, <2>6
  <2>8. Semconv(d) /\ y # x => Semconv(d)' /\ WaitsAt(d)' = WaitsAt(d)
    BY <2>2, <1>10, <1>12, <1>13 DEF Semconv, Valid, WaitsAt
  <2>9. pc'[q] = "asleep" => y # x
    <3>1. SUFFICES ASSUME pc'[q] = "asleep", y = x PROVE FALSE OBVIOUS
    <3>2. pc[q] = "asleep" BY <3>1, <2>5
    <3>3. chan[q] \in WaitsAt(d) /\ chan[q] \in Chan /\ cnt[chan[q]] > 0
      BY <3>2, <2>3 DEF Caller, Waits
    <3>4. chan[q] \in RmidWakes(SetOf(x))
      BY <3>1, <3>3 DEF WaitsAt, RmidWakes, NCnt, ZCnt
    <3> QED BY <3>1, <3>3, <3>4, <2>5
  <2>10. call'[q] = call[q] /\ chan'[q] = chan[q] BY <1>12
  <2> HIDE DEF y, x
  <2>11. pc'[q] # "user" => Bound(d, Nums(call[q].ops))'
    BY <2>3, <2>5, <2>7 DEF Caller
  <2>12. pc'[q] = "asleep" => Semconv(d)' /\ chan'[q] \in WaitsAt(d)'
    <3>1. pc'[q] = "asleep" => Semconv(d) /\ chan[q] \in WaitsAt(d) /\ y # x
      BY <2>3, <2>5, <2>9 DEF Caller
    <3> QED BY <3>1, <2>8, <2>10
  <2> QED BY <2>3, <2>11, <2>12 DEF Caller
<1>19. SetInv' BY <1>10, <1>15, <1>16, <1>17, <1>18 DEF SetInv, SetTypes
<1> QED BY <1>1, <1>4, <1>10, <1>14, <1>19, <1>9

(* Nobody's call changes, at most sleepers are woken. *)
LEMMA AllKept ==
    ASSUME SetInv, UNCHANGED <<sema, semmap, call, chan, cpu, after>>,
           \A q \in Proc : pc'[q] = pc[q] \/ (pc[q] = "asleep" /\ pc'[q] = "woken")
    PROVE  SetInv'
<1>1. ASSUME NEW q \in Proc PROVE Caller(q)'
  <2>1. Caller(q) BY DEF SetInv
  <2> QED BY <2>1, CallerKept
<1> QED BY <1>1, SetsFrame

(* p returns to user mode. *)
LEMMA CallerReturns ==
    ASSUME SetInv, NEW p \in Proc, UNCHANGED <<sema, semmap>>, Finish(p), CallInv,
           chan \in [Proc -> Chan \cup {NULL}], pc'[p] = "user",
           \A q \in Proc \ {p} : pc'[q] = pc[q] \/ (pc[q] = "asleep" /\ pc'[q] = "woken")
    PROVE  SetInv'
<1>1. cpu' = NULL /\ p # NULL BY SemAssumption DEF Finish, Leave
<1>2. Caller(p)' BY <1>1 DEF Caller
<1>3. \A q \in Proc \ {p} : call'[q] = call[q] /\ chan'[q] = chan[q]
  BY DEF Finish, CallInv, CallTypes
<1> QED BY <1>1, <1>2, <1>3, SetsKept

(* Every step keeps the sets apart and the callers with theirs. *)
LEMMA NextSets ==
    ASSUME Calm, NoWrap, CallInv, WaitInv, SetInv, chan \in [Proc -> Chan \cup {NULL}],
           [Next]_vars
    PROVE  SetInv' /\ chan' \in [Proc -> Chan \cup {NULL}]
<1> USE DEF sets, sems, proc, run
<1>t. /\ CallTypes /\ \A p \in Proc : CallOf(p) /\ Caller(p) /\ Waits(p)
      /\ pc \in [Proc -> Where]
  BY DEF CallInv, CallTypes, SetInv, WaitInv
<1>c. UNCHANGED chan => chan' \in [Proc -> Chan \cup {NULL}] OBVIOUS
<1>d. ASSUME NEW p \in Proc, chan' = [chan EXCEPT ![p] = NULL]
      PROVE  /\ chan' \in [Proc -> Chan \cup {NULL}] /\ chan'[p] = NULL
             /\ \A q \in Proc \ {p} : chan'[q] = chan[q]
  BY <1>d
<1> DEFINE Goal == SetInv' /\ chan' \in [Proc -> Chan \cup {NULL}]
<1> HIDE DEF Goal
<1>1. CASE UNCHANGED vars
  <2>1. UNCHANGED <<sema, semmap, call, chan, cpu, after, pc>> BY <1>1 DEF vars
  <2> QED BY <2>1, <1>c, AllKept DEF Goal
<1>2. ASSUME NEW p \in Proc, NEW key \in Key, NEW creat \in BOOLEAN, NEW n \in 1 .. SEMMSL,
             Semget(p, key, creat, n)
      PROVE  Goal
  <2>1. SetInv' BY <1>2, SemgetSets
  <2>2. UNCHANGED chan BY <1>2 DEF Semget
  <2> QED BY <2>1, <2>2, <1>c DEF Goal
<1>3. ASSUME NEW p \in Proc, Semctl(p) PROVE Goal
  <2>1. ASSUME NEW id \in Semid, Rmid(p, id) PROVE Goal
    <3>1. SetInv' BY <2>1, RmidSets
    <3>2. UNCHANGED chan BY <2>1 DEF Rmid
    <3> QED BY <3>1, <3>2, <1>c DEF Goal
  <2>2. ASSUME NEW id \in Semid, Ipcset(p, id) PROVE Goal
    <3>1. UNCHANGED <<sema, semmap, call, chan, cpu, after, pc>>
      BY <2>2 DEF Ipcset, Faults, Calm
    <3> QED BY <3>1, <1>c, AllKept DEF Goal
  <2>3. ASSUME NEW id \in Semid, NEW num \in Semnum, NEW val \in 0 .. SEMVMX,
               Setval(p, id, num, val)
        PROVE  Goal
    <3>1. PICK C : Wakeup(C, pc) BY <2>3 DEF Setval, SetVals
    <3>2. UNCHANGED <<sema, semmap, call, chan, cpu, after>> BY <2>3 DEF Setval
    <3>3. \A q \in Proc : pc'[q] = pc[q] \/ (pc[q] = "asleep" /\ pc'[q] = "woken")
      BY <3>1, <1>t, WakeupMoves
    <3> QED BY <3>2, <3>3, <1>c, AllKept DEF Goal
  <2>4. ASSUME NEW id \in Semid, NEW vals \in [Semnum -> 0 .. SEMVMX], Setall(p, id, vals)
        PROVE  Goal
    <3>0. SetAllVals(id, vals, pc) /\ UNCHANGED <<sema, semmap, call, chan, cpu, after>>
      BY <2>4 DEF Setall, Faults, Calm
    <3>1. PICK C : Wakeup(C, pc) BY <3>0 DEF SetAllVals, SetVals
    <3>3. \A q \in Proc : pc'[q] = pc[q] \/ (pc[q] = "asleep" /\ pc'[q] = "woken")
      BY <3>1, <1>t, WakeupMoves
    <3> QED BY <3>0, <3>3, <1>c, AllKept DEF Goal
  <2> QED BY <1>3, <2>1, <2>2, <2>3, <2>4 DEF Semctl
<1>4. ASSUME NEW p \in Proc, NEW id \in Semid, NEW ops \in Ops, Semop(p, id, ops)
      PROVE  Goal
  <2>0. Semconv(id) /\ cpu = NULL /\ UNCHANGED <<sema, semmap, chan>> BY <1>4 DEF Semop, Enters
  <2>1. CASE ~InRange(id, ops)
    <3>1. UNCHANGED <<pc, call, cpu, after>> BY <1>4, <2>1 DEF Semop, Faults, Calm
    <3> QED BY <3>1, <2>0, <1>c, AllKept DEF Goal
  <2>2. CASE InRange(id, ops)
    <3> DEFINE c == [cmd |-> "semop", id |-> id, ops |-> ops, done |-> 0, vals |-> NoVals]
    <3>1. Check(p, ops) /\ call' = [call EXCEPT ![p] = c]
      BY <1>4, <2>2 DEF Semop, Faults, Calm
    <3>2. call'[p] = c /\ \A q \in Proc \ {p} : call'[q] = call[q]
      BY <3>1, <1>t DEF CallTypes
    <3>3. call'[p].id = id /\ call'[p].ops = ops BY <3>2
    <3>4. /\ cpu' = p /\ after' = "fail" /\ pc'[p] = "check"
          /\ \A q \in Proc \ {p} : pc'[q] = pc[q]
      BY <3>1, <1>t DEF Check
    <3>5. Semconv(id)' BY <2>0 DEF Semconv
    <3>6. Bound(id, Nums(ops))'
      <4>1. \A m \in Nums(ops) : m < sema[Index(id, SEMMNI)].nsems
        BY <2>2 DEF InRange, Nums, Header
      <4> QED BY <4>1, <2>0 DEF Bound, Semconv, Valid, Gen
    <3>7. Caller(p)'
      <4> HIDE DEF c
      <4>1. Bound(call[p].id, Nums(call[p].ops))' BY <3>3, <3>6 DEF Bound, Nums
      <4>2. Semconv(call[p].id)' BY <3>3, <3>5 DEF Semconv
      <4> QED BY <3>4, <4>1, <4>2 DEF Caller
    <3> QED BY <2>0, <3>2, <3>4, <3>7, <1>c, SetsKept DEF Goal
  <2> QED BY <2>1, <2>2
<1>5. ASSUME NEW p \in Proc, SemopStep(p) PROVE Goal
  <2>t. CallOf(p) /\ Caller(p) /\ Len(semtmp) \in Nat BY <1>t DEF CallTypes
  <2>p. cpu = p BY <1>5 DEF SemopStep, OpApplies, OpPasses, OpFails, OpWaits, OpsDone,
          SemundoStep, SemundoDone, Running
  <2>s. Semconv(call[p].id) /\ Bound(call[p].id, Nums(call[p].ops))
    BY <2>t, <2>p DEF Caller, CallOf
  <2>1. CASE OpApplies(p)
    <3>1. PICK C : Wakeup(C, pc) BY <2>1 DEF OpApplies
    <3>2. UNCHANGED <<sema, semmap, call, chan, cpu, after>> BY <2>1 DEF OpApplies
    <3>3. \A q \in Proc : pc'[q] = pc[q] \/ (pc[q] = "asleep" /\ pc'[q] = "woken")
      BY <3>1, <1>t, WakeupMoves
    <3> QED BY <3>2, <3>3, <1>c, AllKept DEF Goal
  <2>2. CASE OpPasses(p) \/ SemundoStep(p)
    <3>2. UNCHANGED <<sema, semmap, call, chan, cpu, after, pc>>
      BY <2>2 DEF OpPasses, SemundoStep
    <3> QED BY <3>2, <1>c, AllKept DEF Goal
  <2>3. CASE OpFails(p)
    <3>1. /\ after' = "fail" /\ pc' = [pc EXCEPT ![p] = "undo"]
          /\ UNCHANGED <<sema, semmap, call, chan, cpu>>
      BY <2>3 DEF OpFails
    <3>2. pc'[p] = "undo" /\ \A q \in Proc \ {p} : pc'[q] = pc[q] BY <3>1, <1>t
    <3>3. Caller(p)'
      <4>1. Semconv(call[p].id)' /\ Bound(call[p].id, Nums(call[p].ops))'
        BY <3>1, <2>s DEF Semconv, Bound, Nums
      <4> QED BY <4>1, <3>1, <3>2 DEF Caller
    <3> QED BY <3>1, <3>2, <3>3, <2>p, <1>c, SetsKept DEF Goal
  <2>4. CASE OpWaits(p)
    <3>1. /\ pc[p] = "check" /\ i <= Len(semtmp)
          /\ pc' = [pc EXCEPT ![p] = "undo"]
          /\ chan' = [chan EXCEPT ![p] = <<IF Doing.op < 0 THEN "semncnt" ELSE "semzcnt", At(p)>>]
          /\ UNCHANGED <<sema, semmap, call, cpu>>
      BY <2>4 DEF OpWaits, Running
    <3>2. pc'[p] = "undo" /\ \A q \in Proc \ {p} : pc'[q] = pc[q] BY <3>1, <1>t
    <3>3. i \in 1 .. Len(semtmp) BY <3>1, <2>t DEF CallOf
    <3>4. At(p) \in SetOf(Index(call[p].id, SEMMNI)) /\ At(p) \in SemIndex
      BY <2>p, <3>3, AtHome
    <3>5. /\ chan' \in [Proc -> Chan \cup {NULL}] /\ chan'[p] \in WaitsAt(call[p].id)
          /\ \A q \in Proc \ {p} : chan'[q] = chan[q]
      BY <3>1, <3>4 DEF Chan, WaitsAt
    <3>6. Caller(p)'
      <4>1. Semconv(call[p].id)' /\ Bound(call[p].id, Nums(call[p].ops))'
        BY <3>1, <2>s DEF Semconv, Bound, Nums
      <4>2. WaitsAt(call[p].id)' = WaitsAt(call[p].id) BY <3>1 DEF WaitsAt, SetOf
      <4> QED BY <4>1, <4>2, <3>2, <3>5 DEF Caller
    <3> QED BY <3>1, <3>2, <3>5, <3>6, <2>p, SetsKept DEF Goal
  <2>5. CASE OpsDone(p)
    <3>1. pc' = User(p) /\ Finish(p) /\ UNCHANGED <<sema, semmap>> BY <2>5 DEF OpsDone
    <3>2. pc'[p] = "user" /\ \A q \in Proc \ {p} : pc'[q] = pc[q] BY <3>1, <1>t, UserMoves
    <3>3. chan' = [chan EXCEPT ![p] = NULL] BY <3>1 DEF Finish
    <3> QED BY <3>1, <3>2, <3>3, <1>d, CallerReturns DEF Goal
  <2>7. CASE SemundoDone(p)
    <3>0. pc[p] = "undo" /\ UNCHANGED <<sema, semmap>> BY <2>7 DEF SemundoDone, Running
    <3>1. CASE pc' = User(p) /\ Finish(p)
      <4>2. pc'[p] = "user" /\ \A q \in Proc \ {p} : pc'[q] = pc[q] BY <3>1, <1>t, UserMoves
      <4>3. chan' = [chan EXCEPT ![p] = NULL] BY <3>1 DEF Finish
      <4> QED BY <3>0, <3>1, <4>2, <4>3, <1>d, CallerReturns DEF Goal
    <3>2. CASE Interrupted(p, chan[p], cnt[chan[p]] + 1) /\ Finish(p)
      <4>2. /\ pc'[p] = "user"
            /\ \A q \in Proc \ {p} : pc'[q] = pc[q] \/ (pc[q] = "asleep" /\ pc'[q] = "woken")
        BY <3>2, <1>t, InterruptedMoves
      <4>3. chan' = [chan EXCEPT ![p] = NULL] BY <3>2 DEF Finish
      <4> QED BY <3>0, <3>2, <4>2, <4>3, <1>d, CallerReturns DEF Goal
    <3>3. CASE after = "sleep" /\ pc' = [pc EXCEPT ![p] = "asleep"] /\ Leave /\ UNCHANGED proc
      <4>1. pc'[p] = "asleep" /\ \A q \in Proc \ {p} : pc'[q] = pc[q] BY <3>3, <1>t
      <4>2. cpu' = NULL /\ p # NULL /\ UNCHANGED <<call, chan>>
        BY <3>3, SemAssumption DEF Leave
      <4>3. chan[p] \in WaitsAt(call[p].id) BY <3>0, <3>3, <2>t, <2>p DEF Caller
      <4>4. Caller(p)'
        <5>1. Semconv(call[p].id)' /\ Bound(call[p].id, Nums(call[p].ops))'
          BY <3>0, <4>2, <2>s DEF Semconv, Bound, Nums
        <5>2. WaitsAt(call[p].id)' = WaitsAt(call[p].id) BY <3>0, <4>2 DEF WaitsAt, SetOf
        <5> QED BY <5>1, <5>2, <4>1, <4>2, <4>3 DEF Caller
      <4> QED BY <3>0, <4>1, <4>2, <4>4, <1>c, SetsKept DEF Goal
    <3> QED BY <2>7, <3>1, <3>2, <3>3 DEF SemundoDone
  <2> QED BY <1>5, <2>1, <2>2, <2>3, <2>4, <2>5, <2>7 DEF SemopStep
<1>6. ASSUME NEW p \in Proc, Continue(p) PROVE Goal
  <2>1. CASE Resume(p)
    <3>0. cpu = NULL /\ pc[p] = "woken" /\ UNCHANGED <<sema, semmap>> BY <2>1 DEF Resume
    <3>1. CASE Interrupted(p, chan[p], cnt[chan[p]]) /\ Finish(p)
      <4>2. /\ pc'[p] = "user"
            /\ \A q \in Proc \ {p} : pc'[q] = pc[q] \/ (pc[q] = "asleep" /\ pc'[q] = "woken")
        BY <3>1, <1>t, InterruptedMoves
      <4>3. chan' = [chan EXCEPT ![p] = NULL] BY <3>1 DEF Finish
      <4> QED BY <3>0, <3>1, <4>2, <4>3, <1>d, CallerReturns DEF Goal
    <3>2. CASE pc' = User(p) /\ Finish(p)
      <4>2. pc'[p] = "user" /\ \A q \in Proc \ {p} : pc'[q] = pc[q] BY <3>2, <1>t, UserMoves
      <4>3. chan' = [chan EXCEPT ![p] = NULL] BY <3>2 DEF Finish
      <4> QED BY <3>0, <3>2, <4>2, <4>3, <1>d, CallerReturns DEF Goal
    <3>3. CASE /\ Semconv(call[p].id) /\ Check(p, call[p].ops)
               /\ chan' = [chan EXCEPT ![p] = NULL] /\ UNCHANGED call
      <4>1. /\ cpu' = p /\ after' = "fail" /\ pc'[p] = "check"
            /\ \A q \in Proc \ {p} : pc'[q] = pc[q]
        BY <3>3, <1>t DEF Check
      <4>2. Bound(call[p].id, Nums(call[p].ops)) BY <3>0, <1>t DEF Caller
      <4>3. Caller(p)'
        <5>1. Semconv(call[p].id)' /\ Bound(call[p].id, Nums(call[p].ops))'
          BY <3>0, <3>3, <4>2 DEF Semconv, Bound, Nums
        <5> QED BY <5>1, <4>1 DEF Caller
      <4>4. /\ chan' \in [Proc -> Chan \cup {NULL}]
            /\ \A q \in Proc \ {p} : chan'[q] = chan[q]
        BY <3>3, <1>d
      <4> QED BY <3>0, <3>3, <4>1, <4>3, <4>4, SetsKept DEF Goal
    <3> QED BY <2>1, <3>1, <3>2, <3>3 DEF Resume, Faults, Calm
  <2>2. CASE ~Resume(p)
    BY <1>6, <1>t, <2>2 DEF Continue, SemopFaulted, ResumeFaulted, SetallFaulted, IpcsetFaulted,
       CallOf
  <2> QED BY <2>1, <2>2
<1>7. ASSUME NEW p \in Proc, Signal(p) PROVE Goal
  <2>1. /\ UNCHANGED <<sema, semmap, call, chan, cpu, after>>
        /\ \A q \in Proc : pc'[q] = pc[q] \/ (pc[q] = "asleep" /\ pc'[q] = "woken")
    BY <1>7, <1>t DEF Signal
  <2> QED BY <2>1, <1>c, AllKept DEF Goal
<1>8. ASSUME NEW p \in Proc, Exit(p) PROVE Goal
  <2>1. PICK C : Wakeup(C, pc) BY <1>8, Zenon DEF Exit
  <2>2. UNCHANGED <<sema, semmap, call, chan, cpu, after>> BY <1>8, Zenon DEF Exit
  <2>3. \A q \in Proc : pc'[q] = pc[q] \/ (pc[q] = "asleep" /\ pc'[q] = "woken")
    BY <2>1, <1>t, WakeupMoves
  <2> QED BY <2>2, <2>3, <1>c, AllKept DEF Goal
<1>9. CASE \E p \in Proc : Fork(p)
  BY <1>9 DEF Fork, Calm
<1> QED BY <1>1, <1>2, <1>3, <1>4, <1>5, <1>6, <1>7, <1>8, <1>9 DEF Next, Goal

(***************************************************************************)
(* Free semaphores.  A map with an entry for every second semaphore is     *)
(* never full.                                                             *)
(***************************************************************************)

(* The hypothesis.  (Without it rmfree may drop what it is given.) *)
Roomy == SEMMNS <= 2 * MapSlots

(* Numbers that grow by 2 at every step. *)
LEMMA Growth ==
    ASSUME NEW m \in Nat \ {0}, NEW n \in Nat, NEW f, \A k \in m .. n : f[k] \in Nat,
           NEW d \in Nat, m <= n => f[m] >= 2 * m - 1 + d,
           \A k \in m .. n : k + 1 <= n => f[k] + 2 <= f[k + 1]
    PROVE  \A k \in m .. n : f[k] >= 2 * k - 1 + d
<1> DEFINE S == {k \in m .. n : ~(f[k] >= 2 * k - 1 + d)}
<1>1. SUFFICES ASSUME NEW x \in S PROVE FALSE OBVIOUS
<1>2. S \in SUBSET Nat OBVIOUS
<1>3. PICK y \in S : \A z \in S : y <= z BY <1>2, Least
<1>4. y \in m .. n /\ ~(f[y] >= 2 * y - 1 + d) OBVIOUS
<1>5. y # m BY <1>4
<1>6. y - 1 \in m .. n /\ y - 1 \notin S BY <1>3, <1>4, <1>5
<1>7. f[y - 1] >= 2 * (y - 1) - 1 + d BY <1>6
<1>8. f[y - 1] + 2 <= f[(y - 1) + 1] BY <1>4, <1>6
<1>9. (y - 1) + 1 = y BY <1>4
<1>10. f[y] \in Nat /\ f[y - 1] \in Nat BY <1>4, <1>6
<1> QED BY <1>4, <1>7, <1>8, <1>9, <1>10

(* The map has room for what is given back. *)
LEMMA NoOverflow ==
    ASSUME Roomy, NEW m, Shape(m), Ordered(m), FreeUnits(m) \subseteq SemIndex,
           NEW size \in Nat \ {0}, NEW a \in Nat \ {0}, Span(a, size) \subseteq SemIndex,
           Span(a, size) \cap FreeUnits(m) = {}
    PROVE  ~Overflows(m, size, a)
<1> USE MapSlotsAssumption, SemAssumption
<1> DEFINE U == Used(m)
           bp == FreeSlot(m, a)
<1>0. SUFFICES ASSUME Overflows(m, size, a) PROVE FALSE OBVIOUS
<1>1. m.size = 0 /\ ~JoinsLow(m, a, bp) /\ ~JoinsHigh(m, size, a, bp) BY <1>0 DEF Overflows
<1>2. U = MapSlots BY <1>1 DEF Used
<1>3. /\ \A k \in 1 .. U : k < bp => m.ent[k].m_addr + m.ent[k].m_size <= a
      /\ \A k \in 1 .. U : k >= bp => a + size <= m.ent[k].m_addr
  BY RmfreeNeighbours
<1>4. bp \in 1 .. Used(m) + 1 BY FreeSlotExists
<1>5. bp \in 1 .. MapSlots + 1 BY <1>2, <1>4
<1>6. \A k \in 1 .. U : m.ent[k].m_addr \in Nat /\ m.ent[k].m_size \in Nat \ {0}
  BY EntryFacts
<1> HIDE DEF bp, U
<1> DEFINE f == [k \in 1 .. U |-> m.ent[k].m_addr]
<1>7. \A k \in 1 .. U : f[k] = m.ent[k].m_addr /\ f[k] \in Nat BY <1>6
<1>8. \A k \in 1 .. U : k + 1 <= U => f[k] + 2 <= f[k + 1]
  <2>1. ASSUME NEW k \in 1 .. U, k + 1 <= U PROVE f[k] + 2 <= f[k + 1]
    <3>1. k + 1 \in 1 .. U BY <2>1, <1>2
    <3>2. m.ent[k].m_addr + m.ent[k].m_size < m.ent[k + 1].m_addr
      BY <2>1, <3>1, <1>2 DEF Ordered, U
    <3> QED BY <3>1, <3>2, <1>6, <1>7
  <2> QED BY <2>1
<1>9. \A k \in 1 .. U : f[k] >= 1 BY <1>6, <1>7 DEF Ordered, U
<1> HIDE DEF f
<1>10. \A k \in 1 .. U : f[k] >= 2 * k - 1
  <2>1. 1 \in Nat \ {0} /\ U \in Nat /\ 0 \in Nat BY <1>2
  <2>2. 1 <= U => f[1] >= 2 * 1 - 1 + 0 BY <1>9, <1>2
  <2>3. \A k \in 1 .. U : f[k] >= 2 * k - 1 + 0 BY <2>1, <2>2, <1>7, <1>8, Growth
  <2> QED BY <2>3, <1>7, <1>2
<1>11. a >= 2 * bp - 1
  <2>1. CASE bp = 1 BY <2>1
  <2>2. CASE bp # 1
    <3>1. bp - 1 \in 1 .. U /\ bp - 1 < bp BY <2>2, <1>2, <1>5
    <3>2. m.ent[bp - 1].m_addr + m.ent[bp - 1].m_size <= a BY <3>1, <1>3
    <3>3. m.ent[bp - 1].m_addr + m.ent[bp - 1].m_size # a
      BY <2>2, <1>1, <1>5 DEF JoinsLow
    <3>4. f[bp - 1] >= 2 * (bp - 1) - 1 BY <3>1, <1>10
    <3>5. /\ f[bp - 1] = m.ent[bp - 1].m_addr /\ m.ent[bp - 1].m_addr \in Nat
          /\ m.ent[bp - 1].m_size \in Nat \ {0}
      BY <3>1, <1>6, <1>7
    <3>6. m.ent[bp - 1].m_addr + 2 <= a BY <3>2, <3>3, <3>5
    <3>7. m.ent[bp - 1].m_addr >= 2 * (bp - 1) - 1 BY <3>4, <3>5
    <3>8. bp \in Nat /\ 2 * (bp - 1) - 1 = 2 * bp - 3 BY <1>5
    <3> QED BY <3>5, <3>6, <3>7, <3>8
  <2> QED BY <2>1, <2>2
<1>12. CASE bp = U + 1
  <2>1. a + size - 1 \in Span(a, size) BY DEF Span
  <2>2. a + size - 1 <= SEMMNS BY <2>1 DEF SemIndex
  <2> QED BY <2>2, <1>11, <1>12, <1>2 DEF Roomy
<1>13. CASE bp <= U
  <2>1. bp \in 1 .. U BY <1>13, <1>5, <1>2
  <2>2. a + size <= m.ent[bp].m_addr BY <2>1, <1>3, <1>5
  <2>3. a + size # m.ent[bp].m_addr
    <3>1. m.ent[bp].m_addr \in Nat /\ m.ent[bp].m_size # 0 BY <2>1, <1>6
    <3>2. m.ent[bp].m_addr # 0 BY <2>2, <3>1
    <3> QED BY <1>1, <3>1, <3>2 DEF JoinsHigh
  <2>4. f[bp] >= 2 * bp - 1 + 2 BY <2>1, <2>2, <2>3, <1>11, <1>5, <1>6, <1>7
  <2>5. bp \in Nat \ {0} /\ U \in Nat /\ 2 \in Nat BY <1>2, <1>5
  <2>6. \A k \in bp .. U : f[k] \in Nat BY <1>7, <1>5, <1>2
  <2>7. \A k \in bp .. U : k + 1 <= U => f[k] + 2 <= f[k + 1] BY <1>8, <1>5, <1>2
  <2>8. \A k \in bp .. U : f[k] >= 2 * k - 1 + 2 BY <2>4, <2>5, <2>6, <2>7, Growth
  <2>9. U \in bp .. U /\ U \in 1 .. U BY <2>1, <1>2
  <2>10. f[U] >= 2 * U + 1 BY <2>8, <2>9, <1>2, <1>7
  <2>11. m.ent[U].m_addr \in Extent(m.ent[U]) BY <2>9, <1>6 DEF Extent
  <2>12. m.ent[U].m_addr \in FreeUnits(m) BY <2>9, <2>11, InFreeUnits DEF U
  <2>13. m.ent[U].m_addr <= SEMMNS BY <2>12 DEF SemIndex
  <2> QED BY <2>9, <2>10, <2>13, <1>2, <1>7 DEF Roomy
<1> QED BY <1>12, <1>13, <1>2, <1>5

(* A semaphore that belongs to no set. *)
Unowned(s) == \A x \in SetIndex : sema[x].alloc => s \notin SetOf(x)

(* What is in no set is free. *)
FreeKept == \A s \in SemIndex : Unowned(s) => s \in FreeUnits(semmap)

(* So it is after seminit. *)
LEMMA InitFree == Roomy /\ Init => FreeKept
<1> SUFFICES ASSUME Roomy, Init PROVE FreeKept OBVIOUS
<1> USE SemAssumption, MapSlotsAssumption
<1>1. Shape(MapInit) /\ Ordered(MapInit) /\ FreeUnits(MapInit) = {}
  <2>1. MapInit \in MapType BY DEF MapInit, MapType, EndEntry, Entry
  <2>2. MapInit.size = MapSlots /\ MapInit.ent = [j \in Slot |-> EndEntry] BY DEF MapInit
  <2>3. Shape(MapInit) /\ Used(MapInit) = 0 BY <2>1, <2>2 DEF Shape, Used, Slot
  <2>4. Ordered(MapInit) BY <2>3 DEF Ordered
  <2>5. FreeUnits(MapInit) = {} BY <2>3, InFreeUnits
  <2> QED BY <2>3, <2>4, <2>5
<1>2. SEMMNS \in Nat \ {0} /\ 1 \in Nat \ {0} OBVIOUS
<1>3. Span(1, SEMMNS) = SemIndex BY DEF Span, SemIndex
<1>4. ~Overflows(MapInit, SEMMNS, 1)
  <2>1. FreeUnits(MapInit) \subseteq SemIndex /\ Span(1, SEMMNS) \subseteq SemIndex
        /\ Span(1, SEMMNS) \cap FreeUnits(MapInit) = {}
    BY <1>1, <1>3
  <2> QED BY <2>1, <1>1, <1>2, NoOverflow
<1>5. FreeUnits(Rmfree(MapInit, SEMMNS, 1)) = FreeUnits(MapInit) \cup Span(1, SEMMNS)
  <2>1. Span(1, SEMMNS) \cap FreeUnits(MapInit) = {} BY <1>1
  <2> QED BY <2>1, <1>1, <1>2, <1>4, RmfreeUnits
<1> QED BY <1>3, <1>5 DEF Init, FreeKept

(* Every step keeps it so: rmfree never drops what it is given. *)
LEMMA NextFree ==
    ASSUME Calm, NoWrap, Roomy, CallInv, WaitInv, SetInv, FreeKept, [Next]_vars
    PROVE  FreeKept'
<1> USE DEF sets, sems, proc, run
<1>1. ASSUME NEW p \in Proc, NEW key \in Key, NEW creat \in BOOLEAN, NEW n \in 1 .. SEMMSL,
             Semget(p, key, creat, n)
      PROVE  FreeKept'
  <2>1. PICK y \in SetIndex :
           /\ FreeUnits(semmap) \subseteq FreeUnits(semmap') \cup SetOf(y)'
           /\ ~sema[y].alloc /\ sema'[y].alloc
           /\ \A z \in SetIndex \ {y} : sema'[z] = sema[z]
    BY <1>1, SemgetSets
  <2>2. ASSUME NEW s \in SemIndex, Unowned(s)' PROVE s \in FreeUnits(semmap')
    <3>1. s \notin SetOf(y)' BY <2>1, <2>2 DEF Unowned
    <3>2. \A z \in SetIndex \ {y} : SetOf(z)' = SetOf(z) BY <2>1 DEF SetOf
    <3>3. Unowned(s) BY <2>1, <2>2, <3>2 DEF Unowned
    <3> QED BY <2>1, <3>1, <3>3 DEF FreeKept
  <2> QED BY <2>2 DEF FreeKept
<1>2. ASSUME NEW p \in Proc, NEW id \in Semid, Rmid(p, id) PROVE FreeKept'
  <2> DEFINE x == Index(id, SEMMNI)
  <2>1. /\ x \in SetIndex /\ sema[x].alloc /\ ~sema'[x].alloc
        /\ \A y \in SetIndex \ {x} : sema'[y] = sema[y]
        /\ ~Overflows(semmap, sema[x].nsems, sema[x].base)
              => FreeUnits(semmap') = FreeUnits(semmap) \cup SetOf(x)
    BY <1>2, RmidSets
  <2> HIDE DEF x
  <2>2. ~Overflows(semmap, sema[x].nsems, sema[x].base)
    <3>1. SetOf(x) = Span(sema[x].base, sema[x].nsems) BY SetOfSpan
    <3>2. sema[x] \in HeaderType BY <2>1 DEF SetInv, SetTypes
    <3>3. SetOK(x) /\ Shape(semmap) /\ Ordered(semmap) /\ FreeUnits(semmap) \subseteq SemIndex
      BY <2>1 DEF SetInv, MapOK
    <3>4. sema[x].nsems \in Nat \ {0} /\ sema[x].base \in Nat \ {0}
      BY <2>1, <3>2, <3>3, SemAssumption DEF SetOK, HeaderType, SemIndex
    <3>5. SetOf(x) \subseteq SemIndex /\ SetOf(x) \cap FreeUnits(semmap) = {}
      BY <2>1, <3>3 DEF SetOK
    <3>6. /\ Span(sema[x].base, sema[x].nsems) \subseteq SemIndex
          /\ Span(sema[x].base, sema[x].nsems) \cap FreeUnits(semmap) = {}
      BY <3>1, <3>5
    <3> QED BY <3>3, <3>4, <3>6, NoOverflow
  <2>3. ASSUME NEW s \in SemIndex, Unowned(s)' PROVE s \in FreeUnits(semmap')
    <3>1. \A z \in SetIndex \ {x} : SetOf(z)' = SetOf(z) BY <2>1 DEF SetOf
    <3>2. s \in SetOf(x) \/ Unowned(s) BY <2>1, <2>3, <3>1 DEF Unowned
    <3> QED BY <2>1, <2>2, <3>2 DEF FreeKept
  <2> QED BY <2>3 DEF FreeKept
<1>3. CASE UNCHANGED <<sema, semmap>>
  BY <1>3 DEF FreeKept, Unowned, SetOf
<1>4. \/ UNCHANGED <<sema, semmap>>
      \/ \E p \in Proc, key \in Key, creat \in BOOLEAN, n \in 1 .. SEMMSL :
            Semget(p, key, creat, n)
      \/ \E p \in Proc, id \in Semid : Rmid(p, id)
  <2>1. CASE UNCHANGED vars BY <2>1 DEF vars
  <2>2. ASSUME NEW p \in Proc, Semctl(p)
        PROVE  UNCHANGED <<sema, semmap>> \/ \E id \in Semid : Rmid(p, id)
    BY <2>2 DEF Semctl, Ipcset, Setval, Setall
  <2>3. ASSUME NEW p \in Proc, SemopStep(p) PROVE UNCHANGED <<sema, semmap>>
    BY <2>3 DEF SemopStep, OpApplies, OpPasses, OpFails, OpWaits, OpsDone, SemundoStep, SemundoDone
  <2>4. ASSUME NEW p \in Proc, Continue(p) PROVE UNCHANGED <<sema, semmap>>
    <3>1. CallOf(p) BY DEF CallInv
    <3> QED BY <2>4, <3>1 DEF Continue, Resume, SemopFaulted, ResumeFaulted, SetallFaulted,
              IpcsetFaulted, CallOf
  <2>5. ASSUME NEW p \in Proc, Signal(p) \/ Exit(p) \/ Fork(p) PROVE UNCHANGED <<sema, semmap>>
    BY <2>5, Zenon DEF Signal, Exit, Fork
  <2>6. ASSUME NEW p \in Proc, NEW id \in Semid, NEW ops \in Ops, Semop(p, id, ops)
        PROVE  UNCHANGED <<sema, semmap>>
    BY <2>6 DEF Semop
  <2> QED BY <2>1, <2>2, <2>3, <2>4, <2>5, <2>6 DEF Next
<1> QED BY <1>1, <1>2, <1>3, <1>4

(* An undo entry is for a set that is gone, or for one of its semaphores. *)
Entries == \A u \in Undo, k \in UndoKey : un.aoe[u][k] # 0 => Bound(k[1], {k[2]})

(* A set that is gone stays gone, one that is there may go. *)
LEMMA BoundMoves ==
    ASSUME SetTypes, NEW id \in Semid, NEW N, Bound(id, N),
           \A x \in SetIndex : \/ sema'[x] = sema[x]
                               \/ ~sema[x].alloc /\ sema'[x].seq = sema[x].seq
                               \/ sema'[x].seq = sema[x].seq + 1
    PROVE  Bound(id, N)'
<1> DEFINE x == Index(id, SEMMNI)
<1>1. x \in SetIndex /\ Gen(id) \in Nat BY IdFacts
<1>2. sema[x].seq \in Nat BY <1>1 DEF SetTypes, HeaderType
<1> HIDE DEF x
<1>3. \/ Gen(id) < sema[x].seq
      \/ Gen(id) = sema[x].seq /\ sema[x].alloc /\ \A n \in N : n < sema[x].nsems
  BY DEF Bound, x
<1>4. \/ Gen(id) < sema'[x].seq
      \/ Gen(id) = sema'[x].seq /\ sema'[x].alloc /\ \A n \in N : n < sema'[x].nsems
  BY <1>1, <1>2, <1>3
<1> QED BY <1>4 DEF Bound, x

(* What a step may do to a header. *)
LEMMA SetsMove ==
    ASSUME Calm, NoWrap, CallInv, WaitInv, SetInv, [Next]_vars
    PROVE  \A x \in SetIndex : \/ sema'[x] = sema[x]
                               \/ ~sema[x].alloc /\ sema'[x].seq = sema[x].seq
                               \/ sema'[x].seq = sema[x].seq + 1
<1> USE DEF sets, sems, proc, run
<1>1. UNCHANGED vars => UNCHANGED sema BY DEF vars
<1>2. ASSUME NEW p \in Proc, Semctl(p)
      PROVE  UNCHANGED sema \/ \E id \in Semid : Rmid(p, id)
  BY <1>2 DEF Semctl, Ipcset, Setval, Setall
<1>3. ASSUME NEW p \in Proc, SemopStep(p) PROVE UNCHANGED sema
  BY <1>3 DEF SemopStep, OpApplies, OpPasses, OpFails, OpWaits, OpsDone, SemundoStep, SemundoDone
<1>4. ASSUME NEW p \in Proc, Continue(p) PROVE UNCHANGED sema
  <2>1. CallOf(p) BY DEF CallInv
  <2> QED BY <1>4, <2>1 DEF Continue, Resume, SemopFaulted, ResumeFaulted, SetallFaulted,
            IpcsetFaulted, CallOf
<1>5. ASSUME NEW p \in Proc, Signal(p) \/ Exit(p) \/ Fork(p) PROVE UNCHANGED sema
  BY <1>5, Zenon DEF Signal, Exit, Fork
<1>6. ASSUME NEW p \in Proc, NEW id \in Semid, NEW ops \in Ops, Semop(p, id, ops)
      PROVE  UNCHANGED sema
  BY <1>6 DEF Semop
<1>7. \/ UNCHANGED sema
      \/ \E p \in Proc, key \in Key, creat \in BOOLEAN, n \in 1 .. SEMMSL :
            Semget(p, key, creat, n)
      \/ \E p \in Proc, id \in Semid : Rmid(p, id)
  BY <1>1, <1>2, <1>3, <1>4, <1>5, <1>6 DEF Next
<1>8. ASSUME NEW p \in Proc, NEW key \in Key, NEW creat \in BOOLEAN, NEW n \in 1 .. SEMMSL,
             Semget(p, key, creat, n)
      PROVE  \A x \in SetIndex : sema'[x] = sema[x] \/ (~sema[x].alloc /\ sema'[x].seq = sema[x].seq)
  BY <1>8, SemgetSets
<1>9. ASSUME NEW p \in Proc, NEW id \in Semid, Rmid(p, id)
      PROVE  \A x \in SetIndex : sema'[x] = sema[x] \/ sema'[x].seq = sema[x].seq + 1
  BY <1>9, RmidSets
<1> QED BY <1>7, <1>8, <1>9

(* What semaoe does for the operation semop is at. *)
LEMMA AdjustEntry ==
    ASSUME CallInv, UndoOK(un, live), NEW p \in Proc, cpu = p, i \in 1 .. Len(semtmp),
           NEW val \in Int
    PROVE  LET r == Adjust(p, val)
               k == <<call[p].id, Doing.num>>
           IN  /\ k \in UndoKey
               /\ \A u \in Undo, j \in UndoKey \ {k} : r.un.aoe[u][j] = un.aoe[u][j]
               /\ Aoe(r.un, p) = IF r.fails \/ val = 0 \/ ~Doing.undo THEN Aoe(un, p)
                                 ELSE [Aoe(un, p) EXCEPT ![k] = @ - val]
               /\ r.fails \/ ~Doing.undo => Shifts(r.un, un, k, 0)
               /\ ~r.fails /\ Doing.undo => Shifts(r.un, un, k, -val)
               /\ ~r.fails /\ val # 0 /\ Doing.undo => r.un.sem_undo[p] # NULL /\ ~TooLarge(val)
               /\ un.sem_undo[p] # NULL => r.un.sem_undo[p] # NULL
               /\ /\ ~TooLarge(val) /\ un.sem_undo[p] # NULL
                  /\ ~TooLarge(Aoe(un, p)[k] - val)
                  /\ Aoe(un, p)[k] = 0 => Size(Aoe(un, p)) < SEMUME
                  => ~r.fails
<1> DEFINE id == call[p].id
           num == Doing.num
           k == <<id, num>>
           r == Adjust(p, val)
           a == Semaoe(un, p, val, id, num)
<1>1. id \in Semid /\ num \in Semnum /\ live[p] BY AdjustFacts
<1>2. k \in UndoKey BY <1>1 DEF UndoKey
<1>3. CASE Doing.undo
  <2>1. r = a BY <1>3 DEF Adjust
  <2> HIDE DEF id, num, r
  <2>2. /\ \A u \in Undo, j \in UndoKey \ {k} : a.un.aoe[u][j] = un.aoe[u][j]
        /\ Aoe(a.un, p) = IF a.fails \/ val = 0 THEN Aoe(un, p)
                          ELSE [Aoe(un, p) EXCEPT ![k] = @ - val]
        /\ a.fails => Shifts(a.un, un, k, 0)
        /\ ~a.fails => Shifts(a.un, un, k, -val)
        /\ ~a.fails /\ val # 0 => a.un.sem_undo[p] # NULL /\ ~TooLarge(val)
        /\ un.sem_undo[p] # NULL => a.un.sem_undo[p] # NULL
        /\ /\ ~TooLarge(val) /\ un.sem_undo[p] # NULL
           /\ ~TooLarge(Aoe(un, p)[k] - val)
           /\ Aoe(un, p)[k] = 0 => Size(Aoe(un, p)) < SEMUME
           => ~a.fails
    BY <1>1, SemaoeFacts
  <2> HIDE DEF a, k
  <2>3. /\ \A u \in Undo, j \in UndoKey \ {k} : r.un.aoe[u][j] = un.aoe[u][j]
        /\ Aoe(r.un, p) = IF r.fails \/ val = 0 THEN Aoe(un, p)
                          ELSE [Aoe(un, p) EXCEPT ![k] = @ - val]
        /\ r.fails => Shifts(r.un, un, k, 0)
        /\ ~r.fails => Shifts(r.un, un, k, -val)
        /\ ~r.fails /\ val # 0 => r.un.sem_undo[p] # NULL /\ ~TooLarge(val)
        /\ un.sem_undo[p] # NULL => r.un.sem_undo[p] # NULL
        /\ /\ ~TooLarge(val) /\ un.sem_undo[p] # NULL
           /\ ~TooLarge(Aoe(un, p)[k] - val)
           /\ Aoe(un, p)[k] = 0 => Size(Aoe(un, p)) < SEMUME
           => ~r.fails
    BY <2>1, <2>2
  <2> QED BY <1>2, <1>3, <2>3 DEF r, k, id, num
<1>4. CASE ~Doing.undo
  <2>1. r.fails = FALSE /\ r.un = un BY <1>4 DEF Adjust
  <2> HIDE DEF r, k
  <2>2. /\ \A u \in Undo, j \in UndoKey \ {k} : r.un.aoe[u][j] = un.aoe[u][j]
        /\ Aoe(r.un, p) = Aoe(un, p)
        /\ un.sem_undo[p] # NULL => r.un.sem_undo[p] # NULL
        /\ ~r.fails
    BY <2>1
  <2>3. Shifts(r.un, un, k, 0) BY <2>1 DEF Shifts
  <2> QED BY <1>2, <1>4, <2>2, <2>3 DEF r, k, id, num
<1> QED BY <1>3, <1>4

(* The entries there are after a step: those before, and the one of the    *)
(* operation semop is at.                                                  *)
LEMMA EntriesMove ==
    ASSUME Calm, CallInv, SetInv, UndoOK(un, live), [Next]_vars
    PROVE  \A u \in Undo, k \in UndoKey :
              un'.aoe[u][k] # 0 => \/ un.aoe[u][k] # 0
                                   \/ \E p \in Proc : /\ cpu = p /\ i \in 1 .. Len(semtmp)
                                                      /\ k = <<call[p].id, Doing.num>>
<1> USE DEF sets, sems, proc, run
<1> DEFINE Goal == \A u \in Undo, k \in UndoKey :
              un'.aoe[u][k] # 0 => \/ un.aoe[u][k] # 0
                                   \/ \E p \in Proc : /\ cpu = p /\ i \in 1 .. Len(semtmp)
                                                      /\ k = <<call[p].id, Doing.num>>
<1> SUFFICES Goal OBVIOUS
<1>t. CallTypes /\ \A p \in Proc : CallOf(p) BY DEF CallInv
<1>n. ASSUME NEW id \in Semid PROVE sema[Index(id, SEMMNI)].nsems \in Int
  <2>1. Index(id, SEMMNI) \in SetIndex BY IdFacts
  <2>2. sema[Index(id, SEMMNI)] \in HeaderType BY <2>1 DEF SetInv, SetTypes
  <2> QED BY <2>2, SemAssumption DEF HeaderType
<1>s. UNCHANGED un => Goal OBVIOUS
<1>u. ASSUME NEW id, NEW low \in Int, NEW high \in Int, un' = Semunrm(un, id, low, high)
      PROVE  Goal
  BY <1>u, SemunrmFacts
<1> HIDE DEF Goal
<1>3. ASSUME NEW p \in Proc, Semctl(p) PROVE Goal
  <2>1. ASSUME NEW id \in Semid, Rmid(p, id) PROVE Goal
    BY <2>1, <1>n, <1>u DEF Rmid
  <2>2. ASSUME NEW id \in Semid, Ipcset(p, id) PROVE Goal
    BY <2>2, <1>s DEF Ipcset
  <2>3. ASSUME NEW id \in Semid, NEW num \in Semnum, NEW val \in 0 .. SEMVMX,
               Setval(p, id, num, val)
        PROVE  Goal
    <3>1. num \in Int BY SemAssumption DEF Semnum
    <3> QED BY <2>3, <3>1, <1>u DEF Setval
  <2>4. ASSUME NEW id \in Semid, NEW vals \in [Semnum -> 0 .. SEMVMX], Setall(p, id, vals)
        PROVE  Goal
    <3>1. SetAllVals(id, vals, pc) BY <2>4 DEF Setall, Faults, Calm
    <3>2. un' = Semunrm(un, id, 0, sema[Index(id, SEMMNI)].nsems) BY <3>1 DEF SetAllVals
    <3> QED BY <3>2, <1>n, <1>u
  <2> QED BY <1>3, <2>1, <2>2, <2>3, <2>4 DEF Semctl
<1>a. ASSUME NEW p \in Proc, cpu = p, i \in 1 .. Len(semtmp), NEW val \in Int,
             un' = Adjust(p, val).un
      PROVE  Goal
  <2>1. \A u \in Undo, j \in UndoKey \ {<<call[p].id, Doing.num>>} :
           Adjust(p, val).un.aoe[u][j] = un.aoe[u][j]
    BY <1>a, AdjustEntry
  <2> QED BY <1>a, <2>1 DEF Goal
<1>5. ASSUME NEW p \in Proc, SemopStep(p) PROVE Goal
  <2>1. CASE OpApplies(p) \/ OpFails(p)
    <3>1. /\ cpu = p /\ pc[p] = "check" /\ i <= Len(semtmp)
          /\ un' = un \/ un' = Adjust(p, Doing.op).un
      BY <2>1 DEF OpApplies, OpFails, Running
    <3>2. i \in 1 .. Len(semtmp) BY <3>1, <1>t DEF CallOf, CallTypes
    <3>3. Doing.op \in Int BY <3>1, <3>2, AdjustFacts
    <3> QED BY <3>1, <3>2, <3>3, <1>a, <1>s
  <2>2. CASE SemundoStep(p)
    <3>1. cpu = p /\ pc[p] = "undo" /\ i > 0 /\ un' = Reverse(p)
      BY <2>2 DEF SemundoStep, Running
    <3>2. i \in 1 .. Len(semtmp) BY <3>1, <1>t DEF CallOf, CallTypes
    <3>3. Doing.op \in Int BY <3>1, <3>2, AdjustFacts
    <3>4. -Doing.op \in Int BY <3>3
    <3>5. un' = un \/ un' = Adjust(p, -Doing.op).un BY <3>1 DEF Reverse
    <3> QED BY <3>1, <3>2, <3>4, <3>5, <1>a, <1>s
  <2>3. CASE OpPasses(p) \/ OpWaits(p) \/ OpsDone(p) \/ SemundoDone(p)
    BY <2>3, <1>s DEF OpPasses, OpWaits, OpsDone, SemundoDone
  <2> QED BY <1>5, <2>1, <2>2, <2>3 DEF SemopStep
<1>6. ASSUME NEW p \in Proc, Continue(p) PROVE Goal
  <2>1. CASE Resume(p) BY <2>1, <1>s DEF Resume
  <2>2. CASE ~Resume(p)
    BY <1>6, <1>t, <2>2 DEF Continue, SemopFaulted, ResumeFaulted, SetallFaulted, IpcsetFaulted,
       CallOf
  <2> QED BY <2>1, <2>2
<1>8. ASSUME NEW p \in Proc, Exit(p) PROVE Goal
  <2> DEFINE u == un.sem_undo[p]
  <2>1. /\ live[p]
        /\ un' = IF u = NULL THEN un
                 ELSE LET w == IF Count(un, u) = 0 THEN un ELSE Unlink(un, u)
                      IN  [w EXCEPT !.aoe[u] = NoEntry, !.np[u] = w.semfup, !.semfup = u]
    BY <1>8, Zenon DEF Exit, Enters
  <2>2. live \in [Proc -> BOOLEAN] /\ un.sem_undo \in [Proc -> Undo \cup {NULL}]
    BY <1>t DEF CallTypes, UndoOK, UndoType
  <2>3. CASE u # NULL
    <3>2. un' = Exited(un, u) BY <2>1, <2>3 DEF OffList, Exited
    <3>3. u \in Undo /\ Has(un, p, u) /\ live[p] BY <2>1, <2>2, <2>3 DEF Has
    <3> HIDE DEF u
    <3>7. Exited(un, u).aoe[u] = NoEntry BY <3>3, <2>2, ExitFacts
    <3>8. SameBut(Exited(un, u), un, u) BY <3>3, <2>2, ExitFacts
    <3>6. Exited(un, u).aoe[u] = NoEntry /\ \A v \in Undo \ {u} : Exited(un, u).aoe[v] = un.aoe[v]
      BY <3>7, <3>8 DEF SameBut
    <3>5. un'.aoe[u] = NoEntry /\ \A v \in Undo \ {u} : un'.aoe[v] = un.aoe[v] BY <3>2, <3>6
    <3> QED BY <3>5, NoEntryFacts DEF Goal
  <2>4. CASE u = NULL BY <2>1, <2>4, <1>s
  <2> QED BY <2>3, <2>4
<1>9. CASE \E p \in Proc : Fork(p)
  BY <1>9 DEF Fork, Calm
<1>10. CASE \E p \in Proc :
          \/ \E key \in Key, creat \in BOOLEAN, n \in 1 .. SEMMSL : Semget(p, key, creat, n)
          \/ \E id \in Semid, ops \in Ops : Semop(p, id, ops)
          \/ Signal(p)
  BY <1>10, <1>s, Zenon DEF Semget, Semop, Signal
<1>11. CASE UNCHANGED vars BY <1>11, <1>s DEF vars
<1> QED BY <1>3, <1>5, <1>6, <1>8, <1>9, <1>10, <1>11 DEF Next

(* Every step keeps the entries with their sets. *)
LEMMA NextEntries ==
    ASSUME Calm, NoWrap, CallInv, WaitInv, SetInv, UndoOK(un, live), Entries, [Next]_vars
    PROVE  Entries'
<1>1. SUFFICES ASSUME NEW u \in Undo, NEW k \in UndoKey, un'.aoe[u][k] # 0
               PROVE  Bound(k[1], {k[2]})'
  BY DEF Entries
<1>2. Bound(k[1], {k[2]})
  <2>1. CASE un.aoe[u][k] # 0 BY <2>1 DEF Entries
  <2>2. ASSUME NEW p \in Proc, cpu = p, i \in 1 .. Len(semtmp), k = <<call[p].id, Doing.num>>
        PROVE  Bound(k[1], {k[2]})
    <3>1. /\ sema[Index(call[p].id, SEMMNI)].alloc
          /\ Gen(call[p].id) = sema[Index(call[p].id, SEMMNI)].seq
          /\ Doing.num < sema[Index(call[p].id, SEMMNI)].nsems
      BY <2>2, AtHome
    <3>2. k[1] = call[p].id /\ k[2] = Doing.num BY <2>2
    <3>3. \A n \in {k[2]} : n < sema[Index(call[p].id, SEMMNI)].nsems BY <3>1, <3>2
    <3> QED BY <3>1, <3>2, <3>3 DEF Bound
  <2> QED BY <1>1, <2>1, <2>2, EntriesMove
<1>3. k[1] \in Semid BY DEF UndoKey
<1>4. SetTypes BY DEF SetInv
<1> QED BY <1>2, <1>3, <1>4, SetsMove, BoundMoves

(***************************************************************************)
(* What sleepers wait for, when no list names a semaphore twice.           *)
(***************************************************************************)

(* No semaphore is named twice. *)
Singly(ops) == \A j, k \in 1 .. Len(ops) : j # k => ops[j].num # ops[k].num

(* Every list is such a list. *)
Single == \A ops \in Ops : Singly(ops)

(* The operation o has to wait while its semaphore has the value v. *)
Blocks(o, v) == IF o.op = 0 THEN v # 0 ELSE o.op < 0 /\ v < -o.op

(* The count on which a process waits for the operation o. *)
ChanOf(id, o) == <<IF o.op < 0 THEN "semncnt" ELSE "semzcnt", SemOf(id, o.num)>>

(* q waits for an operation that has to wait with the values a. *)
Stuck(q, a) ==
    \E j \in 1 .. Len(call[q].ops) :
        LET o == call[q].ops[j]
        IN  chan[q] = ChanOf(call[q].id, o) /\ Blocks(o, a[SemOf(call[q].id, o.num)])

(* So it is for every sleeper. *)
Pending(a) == Single => \A q \in Proc : pc[q] = "asleep" => Stuck(q, a)

(* The callers' lists are such lists. *)
Lists1 == Single => \A q \in Proc : Singly(call[q].ops)

(* Neither the call nor the place of its set changes. *)
LEMMA StuckKept ==
    ASSUME NEW q \in Proc, NEW a, Stuck(q, a), call'[q] = call[q], chan'[q] = chan[q],
           sema'[Index(call[q].id, SEMMNI)].base = sema[Index(call[q].id, SEMMNI)].base
    PROVE  Stuck(q, a)'
<1>1. Header(call[q].id)'.base = Header(call[q].id).base BY DEF Header
<1>2. \A n : SemOf(call[q].id, n)' = SemOf(call[q].id, n) BY <1>1 DEF SemOf
<1>3. PICK j \in 1 .. Len(call[q].ops) :
         /\ chan[q] = ChanOf(call[q].id, call[q].ops[j])
         /\ Blocks(call[q].ops[j], a[SemOf(call[q].id, call[q].ops[j].num)])
  BY DEF Stuck
<1>4. ChanOf(call[q].id, call[q].ops[j])' = ChanOf(call[q].id, call[q].ops[j])
  BY <1>2 DEF ChanOf
<1>5. /\ chan'[q] = ChanOf(call[q].id, call[q].ops[j])'
      /\ Blocks(call[q].ops[j], a[SemOf(call[q].id, call[q].ops[j].num)'])
  BY <1>2, <1>3, <1>4
<1> QED BY <1>3, <1>5 DEF Stuck, Blocks

(* Sleepers stay as they are, or are woken. *)
LEMMA PendingKept ==
    ASSUME NEW a, Pending(a), UNCHANGED sema,
           \A q \in Proc : pc'[q] = "asleep" =>
              pc[q] = "asleep" /\ call'[q] = call[q] /\ chan'[q] = chan[q]
    PROVE  Pending(a)'
<1> SUFFICES ASSUME Single, NEW q \in Proc, pc'[q] = "asleep" PROVE Stuck(q, a)'
  BY DEF Pending
<1>1. Stuck(q, a) /\ call'[q] = call[q] /\ chan'[q] = chan[q] BY DEF Pending
<1> QED BY <1>1, StuckKept

(* Other values, with the wakeups they call for, leave the sleepers stuck. *)
LEMMA StuckMoves ==
    ASSUME CallInv, WaitInv, NEW a \in [SemIndex -> Int], NEW b \in [SemIndex -> Int], NEW C,
           Wakeup(C, pc), NEW q \in Proc, pc'[q] = "asleep", Stuck(q, a),
           \A s \in SemIndex : b[s] > a[s] => <<"semncnt", s>> \in C,
           \A s \in SemIndex : b[s] = 0 /\ a[s] # 0 => <<"semzcnt", s>> \in C
    PROVE  Stuck(q, b) /\ pc[q] = "asleep"
<1>1. pc[q] = "asleep" /\ chan[q] \notin {c \in C : cnt[c] # 0}
  BY DEF Wakeup
<1>2. chan[q] \in Chan /\ cnt[chan[q]] > 0 /\ cnt[chan[q]] \in Nat
  BY <1>1 DEF WaitInv, WaitTypes, Waits
<1>3. chan[q] \notin C BY <1>1, <1>2
<1>4. PICK j \in 1 .. Len(call[q].ops) :
         /\ chan[q] = ChanOf(call[q].id, call[q].ops[j])
         /\ Blocks(call[q].ops[j], a[SemOf(call[q].id, call[q].ops[j].num)])
  BY DEF Stuck
<1> DEFINE o == call[q].ops[j]
           s == SemOf(call[q].id, o.num)
<1>5. chan[q] = <<IF o.op < 0 THEN "semncnt" ELSE "semzcnt", s>> /\ Blocks(o, a[s])
  BY <1>4 DEF ChanOf
<1>p. o.op \in Int
  <2>1. call[q].ops \in Seq(Op) BY DEF CallInv, CallTypes, CallType
  <2>2. o \in Op BY <2>1
  <2> QED BY <2>2 DEF Op
<1> HIDE DEF o, s
<1>6. s \in SemIndex BY <1>2, <1>5 DEF Chan
<1>7. a[s] \in Int /\ b[s] \in Int BY <1>6
<1>8. CASE o.op = 0
  <2>1. <<"semzcnt", s>> \notin C BY <1>3, <1>5, <1>8
  <2> QED BY <2>1, <1>1, <1>4, <1>5, <1>6, <1>7, <1>8 DEF Blocks, Stuck, s, o
<1>9. CASE o.op # 0
  <2>1. o.op < 0 BY <1>5, <1>9 DEF Blocks
  <2>2. <<"semncnt", s>> \notin C BY <1>3, <1>5, <2>1
  <2>3. b[s] <= a[s] BY <2>2, <1>6, <1>7
  <2>4. a[s] < -o.op BY <1>5, <1>9 DEF Blocks
  <2>5. b[s] < -o.op BY <2>3, <2>4, <1>7, <1>p
  <2>6. Blocks(o, b[s]) BY <2>1, <2>5, <1>9 DEF Blocks
  <2> QED BY <2>6, <1>1, <1>4 DEF Stuck, s, o
<1> QED BY <1>8, <1>9

(***************************************************************************)
(* semop as a sequence of values and undo entries: what an operation makes *)
(* of them, and the states between the operations done so far.             *)
(***************************************************************************)

(* What the operation o on the set id makes of the values a and the entries *)
(* e: b and f.                                                             *)
OpEffect(id, o, a, b, e, f) ==
    /\ b = [a EXCEPT ![SemOf(id, o.num)] = @ + o.op]
    /\ IF o.undo /\ o.op # 0
       THEN /\ f = [e EXCEPT ![<<id, o.num>>] = @ - o.op] /\ ~TooLarge(o.op)
            /\ ~TooLarge(e[<<id, o.num>>]) /\ Size(e) <= SEMUME
       ELSE f = e

(* Legal values. *)
Vals == [SemIndex -> 0 .. SEMVMX]

(* How many operations are done and not undone. *)
Done(p) == IF pc[p] = "check" THEN i - 1 ELSE i

(* h and g are the values and the entries since the label check, one       *)
(* state per operation done; sleepers are stuck with all of them.          *)
Follows(p, h, g) ==
    /\ h[0] = snap.val /\ g[0] = snap.aoe
    /\ semval = h[Done(p)] /\ Aoe(un, p) = g[Done(p)]
    /\ \A j \in 1 .. Done(p) :
          /\ OpEffect(call[p].id, semtmp[j], h[j - 1], h[j], g[j - 1], g[j])
          /\ semtmp[j].undo /\ semtmp[j].op # 0 => un.sem_undo[p] # NULL
    /\ \A j \in 0 .. Done(p) : Pending(h[j])

(* There are such states. *)
Traced(p) ==
    \E h \in [0 .. Len(semtmp) -> Vals], g \in [0 .. Len(semtmp) -> [UndoKey -> Int]] :
        Follows(p, h, g)

(* What is known of the operation semop is at. *)
LEMMA OpFacts ==
    ASSUME CallInv, SetInv, UndoOK(un, live), NEW p \in Proc, cpu = p, i \in 1 .. Len(semtmp)
    PROVE  /\ At(p) = SemOf(call[p].id, Doing.num) /\ At(p) \in SemIndex
           /\ Doing.op \in Int /\ Doing.undo \in BOOLEAN
           /\ <<call[p].id, Doing.num>> \in UndoKey
           /\ Aoe(un, p) \in [UndoKey -> Int] /\ Size(Aoe(un, p)) <= SEMUME
           /\ \A k \in UndoKey : ~TooLarge(Aoe(un, p)[k])
<1>1. At(p) \in SemIndex BY AtHome
<1>2. At(p) = SemOf(call[p].id, Doing.num) BY DEF At
<1>3. 0 \in Int OBVIOUS
<1>4. /\ call[p].id \in Semid /\ Doing.num \in Semnum /\ Doing.op \in Int
      /\ Doing.undo \in BOOLEAN
  BY <1>3, AdjustFacts
<1> QED BY <1>1, <1>2, <1>4, AoeFacts DEF UndoKey

(* The processor is taken: nothing is done yet. *)
LEMMA TraceStarts ==
    ASSUME NEW p \in Proc, NEW tmp \in Seq(Op), Check(p, tmp), semval \in Vals, pc \in [Proc -> Where],
           Aoe(un, p) \in [UndoKey -> Int], UNCHANGED <<semval, un>>, \A a : a = semval => Pending(a)'
    PROVE  Traced(p)'
<1>h. PICK h : h = [j \in 0 .. Len(tmp) |-> semval] OBVIOUS
<1>g. PICK g : g = [j \in 0 .. Len(tmp) |-> Aoe(un, p)] OBVIOUS
<1>1. /\ semtmp' = tmp /\ i' = 1 /\ pc'[p] = "check"
      /\ snap' = [val |-> semval, aoe |-> Aoe(un, p)]
  BY DEF Check
<1>2. Len(tmp) \in Nat OBVIOUS
<1>3. h \in [0 .. Len(semtmp') -> Vals] /\ g \in [0 .. Len(semtmp') -> [UndoKey -> Int]]
  BY <1>1, <1>h, <1>g
<1>4. h[0] = semval /\ g[0] = Aoe(un, p) BY <1>2, <1>h, <1>g
<1>5. Aoe(un', p) = Aoe(un, p) /\ semval' = semval OBVIOUS
<1>6. snap'.val = semval /\ snap'.aoe = Aoe(un, p) BY <1>1
<1>7. Done(p)' = 0 BY <1>1 DEF Done
<1>p. Pending(h[0])' BY <1>4
<1>8. Follows(p, h, g)' BY <1>4, <1>5, <1>6, <1>7, <1>p DEF Follows
<1> QED BY <1>3, <1>8 DEF Traced

(* One more operation is done. *)
LEMMA TraceGrows ==
    ASSUME CallInv, NEW p \in Proc, Running(p, "check"), i \in 1 .. Len(semtmp), Traced(p),
           semval' \in Vals, Aoe(un', p) \in [UndoKey -> Int], i' = i + 1, pc'[p] = "check",
           UNCHANGED <<sema, semtmp, call, snap>>,
           OpEffect(call[p].id, semtmp[i], semval, semval', Aoe(un, p), Aoe(un', p)),
           semtmp[i].undo /\ semtmp[i].op # 0 => un'.sem_undo[p] # NULL,
           \A a : Pending(a) \/ a = semval' => Pending(a)',
           un.sem_undo[p] # NULL => un'.sem_undo[p] # NULL
    PROVE  Traced(p)'
<1>L. PICK L : L = Len(semtmp) OBVIOUS
<1>n. PICK n : n = i OBVIOUS
<1>0. L \in Nat /\ n \in Nat BY <1>L, <1>n DEF CallInv, CallTypes
<1>1. PICK h0 \in [0 .. L -> Vals], g0 \in [0 .. L -> [UndoKey -> Int]] : Follows(p, h0, g0)
  BY <1>L DEF Traced
<1>2. n \in 1 .. L BY <1>L, <1>n
<1>h. PICK h : h = [h0 EXCEPT ![n] = semval'] OBVIOUS
<1>g. PICK g : g = [g0 EXCEPT ![n] = Aoe(un', p)] OBVIOUS
<1>3. /\ h \in [0 .. L -> Vals] /\ h[n] = semval' /\ \A j \in 0 .. n - 1 : h[j] = h0[j]
      /\ g \in [0 .. L -> [UndoKey -> Int]] /\ g[n] = Aoe(un', p)
      /\ \A j \in 0 .. n - 1 : g[j] = g0[j]
  BY <1>0, <1>2, <1>h, <1>g
<1>4. Done(p) = n - 1 /\ Done(p)' = n BY <1>0, <1>n DEF Running, Done
<1>5. /\ h0[0] = snap.val /\ g0[0] = snap.aoe /\ semval = h0[n - 1] /\ Aoe(un, p) = g0[n - 1]
      /\ \A j \in 1 .. n - 1 :
            /\ OpEffect(call[p].id, semtmp[j], h0[j - 1], h0[j], g0[j - 1], g0[j])
            /\ semtmp[j].undo /\ semtmp[j].op # 0 => un.sem_undo[p] # NULL
      /\ \A j \in 0 .. n - 1 : Pending(h0[j])
  BY <1>1, <1>4 DEF Follows
<1>6. 0 \in 0 .. n - 1 /\ n - 1 \in 0 .. n - 1 BY <1>0, <1>2
<1>7. h[0] = snap'.val /\ g[0] = snap'.aoe BY <1>3, <1>5, <1>6
<1>8. \A a, b, e, f, o : OpEffect(call[p].id, o, a, b, e, f)' <=> OpEffect(call[p].id, o, a, b, e, f)
  BY DEF OpEffect, SemOf, Header
<1>9. ASSUME NEW j \in 1 .. n
      PROVE  /\ OpEffect(call[p].id, semtmp[j], h[j - 1], h[j], g[j - 1], g[j])
             /\ semtmp[j].undo /\ semtmp[j].op # 0 => un'.sem_undo[p] # NULL
  <2>1. CASE j = n
    <3>1. h[n - 1] = semval /\ g[n - 1] = Aoe(un, p) BY <1>3, <1>5, <1>6
    <3> QED BY <2>1, <3>1, <1>3, <1>n
  <2>2. CASE j # n
    <3>1. j \in 1 .. n - 1 /\ j \in 0 .. n - 1 /\ j - 1 \in 0 .. n - 1 BY <2>2, <1>0
    <3>2. h[j] = h0[j] /\ h[j - 1] = h0[j - 1] /\ g[j] = g0[j] /\ g[j - 1] = g0[j - 1]
      BY <3>1, <1>3
    <3> QED BY <3>1, <3>2, <1>5
  <2> QED BY <2>1, <2>2
<1>10. \A j \in 1 .. n :
          /\ OpEffect(call[p].id, semtmp[j], h[j - 1], h[j], g[j - 1], g[j])'
          /\ (semtmp[j].undo /\ semtmp[j].op # 0 => un.sem_undo[p] # NULL)'
  BY <1>8, <1>9
<1>p. ASSUME NEW j \in 0 .. n PROVE Pending(h[j])'
  <2>1. CASE j = n BY <2>1, <1>3
  <2>2. CASE j # n
    <3>1. j \in 0 .. n - 1 BY <2>2, <1>0
    <3> QED BY <3>1, <1>3, <1>5
  <2> QED BY <2>1, <2>2
<1>11. Follows(p, h, g)' BY <1>3, <1>4, <1>7, <1>10, <1>p DEF Follows
<1>12. Len(semtmp)' = L BY <1>L
<1> QED BY <1>3, <1>11, <1>12 DEF Traced

(* The loop turns back: what is done stays the same. *)
LEMMA TraceTurns ==
    ASSUME CallInv, NEW p \in Proc, Running(p, "check"), i \in 1 .. Len(semtmp), Traced(p),
           Aoe(un', p) = Aoe(un, p), i' = i - 1, pc'[p] = "undo",
           UNCHANGED <<sema, semtmp, call, snap, semval>>,
           un.sem_undo[p] # NULL => un'.sem_undo[p] # NULL, \A a : Pending(a) => Pending(a)'
    PROVE  Traced(p)'
<1>1. PICK h \in [0 .. Len(semtmp) -> Vals], g \in [0 .. Len(semtmp) -> [UndoKey -> Int]] :
         Follows(p, h, g)
  BY DEF Traced
<1>2. i \in Nat BY DEF CallInv, CallTypes
<1>3. Done(p)' = Done(p) BY <1>2 DEF Running, Done
<1>4. \A a, b, e, f, o : OpEffect(call[p].id, o, a, b, e, f)' <=> OpEffect(call[p].id, o, a, b, e, f)
  BY DEF OpEffect, SemOf, Header
<1>5. Follows(p, h, g)' BY <1>1, <1>3, <1>4 DEF Follows
<1> QED BY <1>5 DEF Traced

(* The last operation is undone. *)
LEMMA TraceShrinks ==
    ASSUME CallInv, NEW p \in Proc, Running(p, "undo"), i \in 1 .. Len(semtmp),
           NEW h \in [0 .. Len(semtmp) -> Vals], NEW g \in [0 .. Len(semtmp) -> [UndoKey -> Int]],
           Follows(p, h, g), semval' = h[i - 1], Aoe(un', p) = g[i - 1], i' = i - 1,
           UNCHANGED <<sema, semtmp, call, snap, pc>>,
           un.sem_undo[p] # NULL => un'.sem_undo[p] # NULL, \A a : Pending(a) => Pending(a)'
    PROVE  Traced(p)'
<1>2. i \in Nat BY DEF CallInv, CallTypes
<1>3. Done(p) = i /\ Done(p)' = i - 1 BY <1>2 DEF Running, Done
<1>4. \A a, b, e, f, o : OpEffect(call[p].id, o, a, b, e, f)' <=> OpEffect(call[p].id, o, a, b, e, f)
  BY DEF OpEffect, SemOf, Header
<1>5. (\A j \in 1 .. i - 1 : j \in 1 .. i) /\ \A j \in 0 .. i - 1 : j \in 0 .. i BY <1>2
<1>6. Follows(p, h, g)' BY <1>3, <1>4, <1>5 DEF Follows
<1> QED BY <1>6 DEF Traced

(***************************************************************************)
(* The values: legal, and 0 for a semaphore of no set.                     *)
(***************************************************************************)

(* Legal values, and zero for what is in no set. *)
Values ==
    /\ semval \in Vals /\ plain \in [SemIndex -> Int]
    /\ \A s \in SemIndex : Unowned(s) => semval[s] = 0

(* Only semaphores of sets are changed. *)
LEMMA ValuesKept ==
    ASSUME Values, semval' \in Vals, plain' \in [SemIndex -> Int],
           \A s \in SemIndex :
              Unowned(s)' => semval'[s] = 0 \/ (Unowned(s) /\ semval'[s] = semval[s])
    PROVE  Values'
BY DEF Values

(* Who belongs to no set depends on the headers only. *)
LEMMA SameSets == ASSUME UNCHANGED sema, NEW s PROVE Unowned(s)' <=> Unowned(s)
BY DEF Unowned, SetOf

(* SETVAL and SETALL. *)
LEMMA SetValsValues ==
    ASSUME Values, UNCHANGED sema, NEW x \in SetIndex, sema[x].alloc, NEW S \in SUBSET SetOf(x),
           NEW val \in [S -> 0 .. SEMVMX], NEW pcs, SetVals(val, pcs)
    PROVE  Values'
<1>1. /\ semval' = [s \in SemIndex |-> IF s \in S THEN val[s] ELSE semval[s]]
      /\ plain' = [s \in SemIndex |-> IF s \in S THEN val[s] ELSE plain[s]]
  <2>1. DOMAIN val = S OBVIOUS
  <2> QED BY <2>1 DEF SetVals
<1>2. semval \in [SemIndex -> 0 .. SEMVMX] /\ plain \in [SemIndex -> Int]
  BY DEF Values, Vals
<1>3. semval' \in Vals /\ plain' \in [SemIndex -> Int]
  BY <1>1, <1>2, SemAssumption DEF Vals
<1>4. ASSUME NEW s \in SemIndex, Unowned(s)' PROVE Unowned(s) /\ semval'[s] = semval[s]
  <2>1. Unowned(s) BY <1>4, SameSets
  <2>2. s \notin S BY <2>1 DEF Unowned
  <2> QED BY <2>1, <2>2, <1>1
<1> QED BY <1>3, <1>4, ValuesKept

(* semctl. *)
LEMMA SemctlValues ==
    ASSUME Calm, NoWrap, CallInv, WaitInv, SetInv, Values, NEW p \in Proc, Semctl(p)
    PROVE  Values'
<1> USE DEF sets, sems, proc, run
<1>h. ASSUME NEW id \in Semid, Semconv(id)
      PROVE  /\ Index(id, SEMMNI) \in SetIndex /\ sema[Index(id, SEMMNI)].alloc
             /\ sema[Index(id, SEMMNI)].base \in SemIndex
             /\ sema[Index(id, SEMMNI)].nsems \in 0 .. SEMMSL
             /\ SetOf(Index(id, SEMMNI)) \subseteq SemIndex
  <2>1. Index(id, SEMMNI) \in SetIndex BY IdFacts
  <2>2. sema[Index(id, SEMMNI)].alloc BY <1>h DEF Semconv, Valid
  <2>3. sema[Index(id, SEMMNI)] \in HeaderType BY <2>1 DEF SetInv, SetTypes
  <2> QED BY <2>1, <2>2, <2>3 DEF SetInv, SetOK, HeaderType
<1>1. ASSUME NEW id \in Semid, Rmid(p, id) PROVE Values'
  <2> DEFINE x == Index(id, SEMMNI)
  <2>1. /\ x \in SetIndex /\ sema[x].alloc /\ ~sema'[x].alloc
        /\ \A y \in SetIndex \ {x} : sema'[y] = sema[y]
    BY <1>1, RmidSets
  <2>2. /\ semval' = [s \in SemIndex |-> IF s \in SetOf(x) THEN 0 ELSE semval[s]]
        /\ plain' = [s \in SemIndex |-> IF s \in SetOf(x) THEN 0 ELSE plain[s]]
    BY <1>1 DEF Rmid
  <2> HIDE DEF x
  <2>3. semval \in [SemIndex -> 0 .. SEMVMX] /\ plain \in [SemIndex -> Int]
    BY DEF Values, Vals
  <2>4. semval' \in Vals /\ plain' \in [SemIndex -> Int]
    BY <2>2, <2>3, SemAssumption DEF Vals
  <2>5. ASSUME NEW s \in SemIndex, Unowned(s)'
        PROVE  semval'[s] = 0 \/ (Unowned(s) /\ semval'[s] = semval[s])
    <3>1. \A z \in SetIndex \ {x} : SetOf(z)' = SetOf(z) BY <2>1 DEF SetOf
    <3>2. s \in SetOf(x) \/ Unowned(s) BY <2>1, <2>5, <3>1 DEF Unowned
    <3> QED BY <2>2, <3>2
  <2> QED BY <2>4, <2>5, ValuesKept
<1>2. ASSUME NEW id \in Semid, Ipcset(p, id) PROVE Values'
  <2>1. UNCHANGED <<sema, semval, plain>> BY <1>2 DEF Ipcset
  <2> QED BY <2>1, SameSets DEF Values
<1>3. ASSUME NEW id \in Semid, NEW num \in Semnum, NEW val \in 0 .. SEMVMX,
             Setval(p, id, num, val)
      PROVE  Values'
  <2> DEFINE x == Index(id, SEMMNI)
             s == SemOf(id, num)
  <2>1. /\ Semconv(id) /\ num < sema[x].nsems /\ UNCHANGED sema
        /\ SetVals([t \in {s} |-> val], pc)
    BY <1>3 DEF Setval, Header
  <2>2. x \in SetIndex /\ sema[x].alloc /\ sema[x].base \in SemIndex /\ sema[x].nsems \in 0 .. SEMMSL
    BY <2>1, <1>h
  <2>3. s \in SetOf(x)
    BY <2>1, <2>2, SemAssumption DEF SemOf, Header, SetOf, SemIndex, Semnum
  <2> HIDE DEF s, x
  <2>4. [t \in {s} |-> val] \in [{s} -> 0 .. SEMVMX] OBVIOUS
  <2>5. {s} \in SUBSET SetOf(x) BY <2>3
  <2> QED BY <2>1, <2>2, <2>4, <2>5, SetValsValues
<1>4. ASSUME NEW id \in Semid, NEW vals \in [Semnum -> 0 .. SEMVMX], Setall(p, id, vals)
      PROVE  Values'
  <2> DEFINE x == Index(id, SEMMNI)
  <2>1. Semconv(id) /\ SetAllVals(id, vals, pc) /\ UNCHANGED sema
    BY <1>4 DEF Setall, Faults, Calm
  <2>2. x \in SetIndex /\ sema[x].alloc /\ sema[x].base \in SemIndex /\ sema[x].nsems \in 0 .. SEMMSL
    BY <2>1, <1>h
  <2>3. SetVals([s \in SetOf(x) |-> vals[s - sema[x].base]], pc) BY <2>1 DEF SetAllVals
  <2> HIDE DEF x
  <2>4. ASSUME NEW s \in SetOf(x) PROVE s - sema[x].base \in Semnum
    <3>1. sema[x].base \in Nat /\ sema[x].nsems \in Nat /\ sema[x].nsems <= SEMMSL /\ SEMMSL \in Nat
      BY <2>2, SemAssumption DEF SemIndex
    <3>2. s \in Nat /\ sema[x].base <= s /\ s <= sema[x].base + sema[x].nsems - 1
      BY <3>1 DEF SetOf
    <3> QED BY <3>1, <3>2 DEF Semnum
  <2>5. [s \in SetOf(x) |-> vals[s - sema[x].base]] \in [SetOf(x) -> 0 .. SEMVMX]
    BY <2>4
  <2>6. SetOf(x) \in SUBSET SetOf(x) OBVIOUS
  <2> QED BY <2>1, <2>2, <2>3, <2>5, <2>6, SetValsValues
<1> QED BY <1>1, <1>2, <1>3, <1>4 DEF Semctl

(* The adjustments made at exit are for semaphores of sets. *)
LEMMA ExitValues ==
    ASSUME CallInv, SetInv, UndoOK(un, live), Entries, Values, NEW p \in Proc, Exit(p)
    PROVE  Values'
<1> USE DEF sets, sems, proc, run
<1> DEFINE u == un.sem_undo[p]
           E(s) == {k \in UndoKey : /\ u # NULL /\ un.aoe[u][k] # 0
                                    /\ Semconv(k[1]) /\ SemOf(k[1], k[2]) = s}
           adj(s) == un.aoe[u][CHOOSE k \in E(s) : TRUE]
           has == {s \in SemIndex : E(s) # {}}
           done == {s \in has : semval[s] + adj(s) \in 0 .. SEMVMX}
<1>1. /\ semval' = [s \in SemIndex |-> IF s \in done THEN semval[s] + adj(s) ELSE semval[s]]
      /\ plain' = [s \in SemIndex |-> IF s \in has \ done THEN plain[s] - adj(s) ELSE plain[s]]
      /\ UNCHANGED sema
  BY Zenon DEF Exit
<1>2. semval \in [SemIndex -> 0 .. SEMVMX] /\ plain \in [SemIndex -> Int]
  BY DEF Values, Vals
<1>3. un.aoe \in [Undo -> [UndoKey -> Int]] /\ un.sem_undo \in [Proc -> Undo \cup {NULL}]
  BY DEF UndoOK, UndoType
<1>4. \A s \in has : adj(s) \in Int /\ u \in Undo
  <2> SUFFICES ASSUME NEW s \in has PROVE adj(s) \in Int /\ u \in Undo OBVIOUS
  <2>1. E(s) # {} OBVIOUS
  <2>2. (CHOOSE k \in E(s) : TRUE) \in E(s) BY <2>1, SMTT(30)
  <2> HIDE DEF adj
  <2>3. u # NULL /\ (CHOOSE k \in E(s) : TRUE) \in UndoKey BY <2>2
  <2>4. u \in Undo BY <2>3, <1>3
  <2> QED BY <2>3, <2>4, <1>3 DEF adj
<1>5. \A s \in has : ~Unowned(s)
  <2> SUFFICES ASSUME NEW s \in has PROVE ~Unowned(s) OBVIOUS
  <2>1. PICK k \in UndoKey : un.aoe[u][k] # 0 /\ Semconv(k[1]) /\ SemOf(k[1], k[2]) = s OBVIOUS
  <2>2. u \in Undo BY <1>4
  <2>3. Bound(k[1], {k[2]}) BY <2>1, <2>2 DEF Entries
  <2> DEFINE x == Index(k[1], SEMMNI)
  <2>4. k[1] \in Semid /\ k[2] \in Semnum BY DEF UndoKey
  <2>5. x \in SetIndex BY <2>4, IdFacts
  <2>6. sema[x].alloc /\ sema[x].seq = Gen(k[1]) BY <2>1 DEF Semconv, Valid, Gen
  <2>7. sema[x] \in HeaderType BY <2>5 DEF SetInv, SetTypes
  <2>8. sema[x].base \in Nat /\ sema[x].nsems \in Nat /\ sema[x].seq \in Nat /\ k[2] \in Nat
    BY <2>4, <2>7, SemAssumption DEF HeaderType, SemIndex, Semnum
  <2>9. k[2] < sema[x].nsems BY <2>3, <2>6, <2>8 DEF Bound
  <2>10. s = sema[x].base + k[2] BY <2>1 DEF SemOf, Header
  <2> HIDE DEF x
  <2>11. s \in SetOf(x) BY <2>8, <2>9, <2>10 DEF SetOf
  <2> QED BY <2>5, <2>6, <2>11 DEF Unowned
<1>6. done \subseteq has /\ \A s \in done : semval[s] + adj(s) \in 0 .. SEMVMX BY Zenon
<1> HIDE DEF adj, has, done
<1>7. semval' \in Vals BY <1>1, <1>2, <1>6 DEF Vals
<1>8. plain' \in [SemIndex -> Int]
  <2>1. \A s \in SemIndex : plain[s] \in Int BY <1>2
  <2> QED BY <1>1, <1>4, <2>1
<1>9. ASSUME NEW s \in SemIndex, Unowned(s)' PROVE Unowned(s) /\ semval'[s] = semval[s]
  <2>1. Unowned(s) BY <1>1, <1>9, SameSets
  <2>2. s \notin done BY <2>1, <1>5, <1>6
  <2> QED BY <2>1, <2>2, <1>1
<1> QED BY <1>7, <1>8, <1>9, ValuesKept

(* The process in semop: everything it did since `check' is recorded. *)
Traces == \A p \in Proc : cpu = p => Traced(p)

(* The values semop has made so far leave the sleepers stuck. *)
LEMMA TracePending ==
    ASSUME CallInv, NEW p \in Proc, cpu = p, Traced(p)
    PROVE  Pending(semval)
<1>1. PICK h \in [0 .. Len(semtmp) -> Vals], g \in [0 .. Len(semtmp) -> [UndoKey -> Int]] :
         Follows(p, h, g)
  BY DEF Traced
<1>2. Done(p) \in Nat BY DEF Done, CallInv, CallTypes, CallOf
<1>3. Done(p) \in 0 .. Done(p) BY <1>2
<1> QED BY <1>1, <1>3 DEF Follows

(* An operation done wakes everybody whose wait it may have ended. *)
LEMMA ApplyWakes ==
    ASSUME CallInv, WaitInv, NEW s \in SemIndex, NEW op \in Int, NEW v \in Int,
           NEW a, a \in Vals, v = a[s] + op, op # 0, NEW b, b = [a EXCEPT ![s] = v],
           Wakeup(OpWakes(s, op, v), pc), Pending(a), UNCHANGED <<sema, call, chan>>
    PROVE  Pending(b)'
<1> SUFFICES ASSUME Single, NEW q \in Proc, pc'[q] = "asleep" PROVE Stuck(q, b)'
  BY DEF Pending
<1>1. a \in [SemIndex -> Int] /\ b \in [SemIndex -> Int] BY SemAssumption DEF Vals
<1>2. Stuck(q, a)
  <2>1. pc[q] = "asleep" BY DEF Wakeup
  <2> QED BY <2>1 DEF Pending
<1> DEFINE C == OpWakes(s, op, v)
<1>3. \A t \in SemIndex : b[t] > a[t] => <<"semncnt", t>> \in C
  <2> SUFFICES ASSUME NEW t \in SemIndex, b[t] > a[t] PROVE <<"semncnt", t>> \in C OBVIOUS
  <2>1. t = s BY <1>1
  <2>2. op > 0 BY <2>1, <1>1
  <2> QED BY <2>1, <2>2 DEF OpWakes, NCnt
<1>4. \A t \in SemIndex : b[t] = 0 /\ a[t] # 0 => <<"semzcnt", t>> \in C
  <2> SUFFICES ASSUME NEW t \in SemIndex, b[t] = 0, a[t] # 0 PROVE <<"semzcnt", t>> \in C OBVIOUS
  <2>1. t = s BY <1>1
  <2>2. v = 0 BY <2>1, <1>1
  <2> QED BY <2>1, <2>2 DEF OpWakes, ZCnt
<1> HIDE DEF C
<1>5. Wakeup(C, pc) BY DEF C
<1>6. Stuck(q, b) BY <1>1, <1>2, <1>3, <1>4, <1>5, StuckMoves
<1> QED BY <1>6, StuckKept

(* An operation done. *)
LEMMA ApplyStep ==
    ASSUME CallInv, WaitInv, SetInv, UndoOK(un, live), Values, NEW p \in Proc, Traced(p), OpApplies(p),
           pc'[p] = "check"
    PROVE  Values' /\ Traced(p)'
<1> USE DEF sets, proc
<1> DEFINE s == At(p)
           v == semval[s] + Doing.op
           r == Adjust(p, Doing.op)
           k == <<call[p].id, Doing.num>>
<1>1. /\ Running(p, "check") /\ i <= Len(semtmp) /\ InBounds(p) /\ ~r.fails
      /\ semval' = [semval EXCEPT ![s] = v]
      /\ plain' = [plain EXCEPT ![s] = IF Doing.undo THEN @ ELSE @ + Doing.op]
      /\ un' = r.un /\ i' = i + 1 /\ UNCHANGED <<sema, semtmp, call, snap>>
  BY DEF OpApplies
<1>2. cpu = p /\ i \in 1 .. Len(semtmp)
  <2>1. CallTypes /\ CallOf(p) BY DEF CallInv
  <2> QED BY <2>1, <1>1 DEF Running, CallOf, CallTypes
<1>3. /\ s = SemOf(call[p].id, Doing.num) /\ s \in SemIndex /\ Doing.op \in Int
      /\ Doing.undo \in BOOLEAN /\ k \in UndoKey /\ Aoe(un, p) \in [UndoKey -> Int]
      /\ Size(Aoe(un, p)) <= SEMUME /\ ~TooLarge(Aoe(un, p)[k])
  BY <1>2, OpFacts
<1>4. semval \in [SemIndex -> 0 .. SEMVMX] /\ plain \in [SemIndex -> Int] BY DEF Values, Vals
<1>5. v \in 0 .. SEMVMX /\ Doing.op # 0
  <2>1. semval[s] \in 0 .. SEMVMX BY <1>3, <1>4
  <2> HIDE DEF s
  <2>2. \/ Doing.op > 0 /\ semval[s] + Doing.op <= SEMVMX
        \/ Doing.op < 0 /\ semval[s] >= -Doing.op
    BY <1>1 DEF InBounds, s
  <2> QED BY <2>1, <2>2, <1>3, SemAssumption
<1>6. /\ Aoe(r.un, p) = IF r.fails \/ Doing.op = 0 \/ ~Doing.undo THEN Aoe(un, p)
                        ELSE [Aoe(un, p) EXCEPT ![k] = @ - Doing.op]
      /\ ~r.fails /\ Doing.op # 0 /\ Doing.undo
            => r.un.sem_undo[p] # NULL /\ ~TooLarge(Doing.op)
      /\ un.sem_undo[p] # NULL => r.un.sem_undo[p] # NULL
  BY <1>2, <1>3, AdjustEntry
<1> HIDE DEF s, v, r, k
<1>7. /\ Aoe(un', p) = IF Doing.undo THEN [Aoe(un, p) EXCEPT ![k] = @ - Doing.op]
                       ELSE Aoe(un, p)
      /\ Doing.undo => un'.sem_undo[p] # NULL /\ ~TooLarge(Doing.op)
      /\ un.sem_undo[p] # NULL => un'.sem_undo[p] # NULL
  BY <1>1, <1>3, <1>5, <1>6
<1>8. semval' \in Vals /\ plain' \in [SemIndex -> Int]
  <2>1. plain[s] \in Int BY <1>3, <1>4
  <2>2. (IF Doing.undo THEN plain[s] ELSE plain[s] + Doing.op) \in Int BY <2>1, <1>3
  <2> QED BY <1>1, <1>3, <1>4, <1>5, <2>2 DEF Vals
<1>9. Aoe(un', p) \in [UndoKey -> Int]
  <2>1. Aoe(un, p)[k] - Doing.op \in Int BY <1>3
  <2> QED BY <1>3, <1>7, <2>1
<1>10. semval' = [semval EXCEPT ![s] = @ + Doing.op] BY <1>1 DEF v
<1>11. OpEffect(call[p].id, semtmp[i], semval, semval', Aoe(un, p), Aoe(un', p))
  BY <1>3, <1>5, <1>7, <1>10 DEF OpEffect, Doing, k
<1>12. semtmp[i].undo /\ semtmp[i].op # 0 => un'.sem_undo[p] # NULL BY <1>7 DEF Doing
<1>p. Pending(semval) BY <1>2, TracePending
<1>q. Wakeup(OpWakes(s, Doing.op, v), pc) /\ UNCHANGED <<chan, call, sema>>
  BY DEF OpApplies, s, v
<1>r. \A q \in Proc : pc'[q] = "asleep" => pc[q] = "asleep" BY <1>q DEF Wakeup
<1>x. ASSUME NEW a, a = semval' PROVE Pending(a)'
  <2>1. v \in Int BY <1>5, SemAssumption
  <2>2. PICK c : c = semval OBVIOUS
  <2>3. Pending(c) /\ c \in Vals /\ v = c[s] + Doing.op /\ a = [c EXCEPT ![s] = v]
    BY <1>1, <1>4, <1>p, <1>x, <2>2 DEF v, Vals
  <2> QED BY <1>3, <1>5, <1>q, <2>1, <2>3, ApplyWakes
<1>y. ASSUME NEW a, Pending(a) PROVE Pending(a)' BY <1>q, <1>r, <1>y, PendingKept
<1>13. Traced(p)'
  BY <1>1, <1>2, <1>7, <1>8, <1>9, <1>11, <1>12, <1>x, <1>y, TraceGrows
<1>14. ASSUME NEW t \in SemIndex, Unowned(t)' PROVE Unowned(t) /\ semval'[t] = semval[t]
  <2>1. Unowned(t) BY <1>1, <1>14, SameSets
  <2>2. ~Unowned(s) BY <1>2, AtHome DEF Unowned, s
  <2> QED BY <2>1, <2>2, <1>1, <1>4
<1> QED BY <1>8, <1>13, <1>14, ValuesKept

(* An operation that need not wait. *)
LEMMA PassStep ==
    ASSUME CallInv, SetInv, UndoOK(un, live), Values, NEW p \in Proc, Traced(p), OpPasses(p)
    PROVE  Traced(p)'
<1> USE DEF sets, sems, proc
<1>1. /\ Running(p, "check") /\ i <= Len(semtmp) /\ Doing.op = 0
      /\ i' = i + 1 /\ UNCHANGED <<sema, semtmp, call, snap, pc, semval, un>>
  BY DEF OpPasses
<1>2. cpu = p /\ i \in 1 .. Len(semtmp)
  <2>1. CallTypes /\ CallOf(p) BY DEF CallInv
  <2> QED BY <2>1, <1>1 DEF Running, CallOf, CallTypes
<1>3. /\ At(p) = SemOf(call[p].id, Doing.num) /\ At(p) \in SemIndex
      /\ Aoe(un, p) \in [UndoKey -> Int]
  BY <1>2, OpFacts
<1>4. semval \in [SemIndex -> 0 .. SEMVMX] BY DEF Values, Vals
<1>5. semval = [semval EXCEPT ![At(p)] = @ + 0]
  <2>1. semval[At(p)] + 0 = semval[At(p)] BY <1>3, <1>4
  <2> QED BY <2>1, <1>3, <1>4
<1>6. OpEffect(call[p].id, semtmp[i], semval, semval', Aoe(un, p), Aoe(un', p))
  BY <1>1, <1>3, <1>5 DEF OpEffect, Doing
<1>7. semval' \in Vals /\ Aoe(un', p) \in [UndoKey -> Int] /\ pc'[p] = "check"
  BY <1>1, <1>3, <1>4 DEF Vals, Running
<1>8. semtmp[i].undo /\ semtmp[i].op # 0 => un'.sem_undo[p] # NULL BY <1>1 DEF Doing
<1>9. un.sem_undo[p] # NULL => un'.sem_undo[p] # NULL BY <1>1
<1>10. Pending(semval) BY <1>2, TracePending
<1>11. ASSUME NEW a, Pending(a) \/ a = semval' PROVE Pending(a)'
  <2>1. Pending(a) BY <1>1, <1>10, <1>11
  <2> QED BY <2>1, <1>1, PendingKept DEF OpPasses
<1> QED BY <1>1, <1>2, <1>6, <1>7, <1>8, <1>9, <1>11, TraceGrows

(* An operation that cannot be done. *)
LEMMA TurnStep ==
    ASSUME CallInv, SetInv, UndoOK(un, live), NEW p \in Proc, Traced(p),
           chan \in [Proc -> Chan \cup {NULL}], OpFails(p) \/ OpWaits(p)
    PROVE  Traced(p)'
<1> USE DEF sets, sems, proc
<1> DEFINE r == Adjust(p, Doing.op)
<1>1. /\ Running(p, "check") /\ i <= Len(semtmp)
      /\ un' = un \/ (r.fails /\ un' = r.un)
      /\ i' = i - 1 /\ UNCHANGED <<sema, semtmp, call, snap, semval>>
      /\ pc' = [pc EXCEPT ![p] = "undo"]
  BY DEF OpFails, OpWaits
<1>2. cpu = p /\ i \in 1 .. Len(semtmp) /\ pc'[p] = "undo"
  <2>1. CallTypes /\ CallOf(p) BY DEF CallInv
  <2> QED BY <2>1, <1>1 DEF Running, CallOf, CallTypes
<1>3. Doing.op \in Int BY <1>2, OpFacts
<1>4. /\ Aoe(r.un, p) = IF r.fails \/ Doing.op = 0 \/ ~Doing.undo THEN Aoe(un, p)
                        ELSE [Aoe(un, p) EXCEPT ![<<call[p].id, Doing.num>>] = @ - Doing.op]
      /\ un.sem_undo[p] # NULL => r.un.sem_undo[p] # NULL
  BY <1>2, <1>3, AdjustEntry
<1> HIDE DEF r
<1>5. Aoe(un', p) = Aoe(un, p) /\ (un.sem_undo[p] # NULL => un'.sem_undo[p] # NULL)
  BY <1>1, <1>4
<1>6. \A q \in Proc : pc'[q] = "asleep" => q # p /\ pc[q] = "asleep"
  BY <1>1 DEF CallInv, CallTypes
<1>7. \A q \in Proc : q # p => chan'[q] = chan[q]
  <2>1. chan' = chan \/ \E c : chan' = [chan EXCEPT ![p] = c] BY DEF OpFails, OpWaits
  <2> QED BY <2>1
<1>9. ASSUME NEW a, Pending(a) PROVE Pending(a)' BY <1>1, <1>6, <1>7, <1>9, PendingKept
<1> QED BY <1>1, <1>2, <1>5, <1>9, TraceTurns

(* What is taken back is what was done. *)
LEMMA EntryBack ==
    ASSUME NEW k \in UndoKey, NEW op \in Int, op # 0, NEW e \in [UndoKey -> Int], NEW f,
           f = [e EXCEPT ![k] = @ - op], ~TooLarge(op), ~TooLarge(e[k]), Size(e) <= SEMUME
    PROVE  /\ [f EXCEPT ![k] = @ - (-op)] = e
           /\ ~TooLarge(f[k] - (-op)) /\ ~TooLarge(-op)
           /\ f[k] = 0 => Size(f) < SEMUME
<1>1. e[k] \in Int /\ e[k] - op \in Int OBVIOUS
<1>2. f = [e EXCEPT ![k] = e[k] - op] OBVIOUS
<1>3. f[k] = e[k] - op BY <1>2
<1>4. f[k] - (-op) = e[k] BY <1>1, <1>3
<1>5. [f EXCEPT ![k] = e[k]] = e BY <1>2
<1>6. [f EXCEPT ![k] = f[k] - (-op)] = e BY <1>4, <1>5
<1>7. ~TooLarge(-op) BY SemAssumption DEF TooLarge
<1>8. ASSUME f[k] = 0 PROVE Size(f) < SEMUME
  <2>1. e[k] # 0 BY <1>1, <1>3, <1>8
  <2>2. \A x \in Int : Size([e EXCEPT ![k] = x]) = IF e[k] = 0 /\ x # 0 THEN Size(e) + 1
                               ELSE IF e[k] # 0 /\ x = 0 THEN Size(e) - 1 ELSE Size(e)
    BY SizeFacts
  <2>3. PICK x \in Int : x = e[k] - op BY <1>1
  <2>4. Size(e) \in Nat BY SizeFacts
  <2>5. Size([e EXCEPT ![k] = x]) = Size(e) - 1 BY <2>1, <2>2, <2>3, <1>3, <1>8
  <2>6. Size(f) = Size(e) - 1 BY <2>3, <2>5, <1>2
  <2> QED BY <2>4, <2>6, SemAssumption
<1> QED BY <1>4, <1>6, <1>7, <1>8

(* semundo. *)
LEMMA UndoStep ==
    ASSUME CallInv, SetInv, UndoOK(un, live), Values, NEW p \in Proc, Traced(p), SemundoStep(p)
    PROVE  /\ Values' /\ Traced(p)'
           /\ Doing.undo /\ Doing.op # 0 => ~Adjust(p, -Doing.op).fails
<1> USE DEF sets, proc
<1> DEFINE s == At(p)
           r == Adjust(p, -Doing.op)
           k == <<call[p].id, Doing.num>>
<1>1. /\ Running(p, "undo") /\ i > 0
      /\ semval' = [semval EXCEPT ![s] = @ - Doing.op]
      /\ plain' = [plain EXCEPT ![s] = IF Doing.undo THEN @ ELSE @ - Doing.op]
      /\ un' = IF Doing.op = 0 THEN un ELSE r.un
      /\ i' = i - 1 /\ UNCHANGED <<sema, semtmp, call, snap, pc>>
  BY DEF SemundoStep, Reverse
<1>2. cpu = p /\ i \in 1 .. Len(semtmp)
  <2>1. CallTypes /\ CallOf(p) BY DEF CallInv
  <2> QED BY <2>1, <1>1 DEF Running, CallOf, CallTypes
<1>3. /\ s = SemOf(call[p].id, Doing.num) /\ s \in SemIndex /\ Doing.op \in Int
      /\ Doing.undo \in BOOLEAN /\ k \in UndoKey /\ Aoe(un, p) \in [UndoKey -> Int]
  BY <1>2, OpFacts
<1>4. semval \in [SemIndex -> 0 .. SEMVMX] /\ plain \in [SemIndex -> Int] BY DEF Values, Vals
<1>5. PICK h \in [0 .. Len(semtmp) -> Vals], g \in [0 .. Len(semtmp) -> [UndoKey -> Int]] :
         Follows(p, h, g)
  BY DEF Traced
<1>6. Done(p) = i BY <1>1 DEF Running, Done
<1>7. /\ semval = h[i] /\ Aoe(un, p) = g[i]
      /\ OpEffect(call[p].id, Doing, h[i - 1], h[i], g[i - 1], g[i])
      /\ Doing.undo /\ Doing.op # 0 => un.sem_undo[p] # NULL
  <2>1. i \in 1 .. Done(p)
    <3>1. Len(semtmp) \in Nat BY DEF CallInv, CallTypes
    <3> QED BY <3>1, <1>2, <1>6
  <2>2. semval = h[Done(p)] /\ Aoe(un, p) = g[Done(p)] BY <1>5 DEF Follows
  <2>3. \A j \in 1 .. Done(p) :
           /\ OpEffect(call[p].id, semtmp[j], h[j - 1], h[j], g[j - 1], g[j])
           /\ semtmp[j].undo /\ semtmp[j].op # 0 => un.sem_undo[p] # NULL
    BY <1>5 DEF Follows
  <2> QED BY <2>1, <2>2, <2>3, <1>6 DEF Doing
<1>8. h[i - 1] \in Vals /\ g[i - 1] \in [UndoKey -> Int]
  <2>1. i - 1 \in 0 .. Len(semtmp)
    <3>1. Len(semtmp) \in Nat BY DEF CallInv, CallTypes
    <3> QED BY <3>1, <1>2
  <2> QED BY <2>1
<1>9. -Doing.op \in Int BY <1>3
<1>10. /\ Aoe(r.un, p) = IF r.fails \/ -Doing.op = 0 \/ ~Doing.undo THEN Aoe(un, p)
                         ELSE [Aoe(un, p) EXCEPT ![k] = @ - (-Doing.op)]
       /\ un.sem_undo[p] # NULL => r.un.sem_undo[p] # NULL
       /\ /\ ~TooLarge(-Doing.op) /\ un.sem_undo[p] # NULL
          /\ ~TooLarge(Aoe(un, p)[k] - (-Doing.op))
          /\ Aoe(un, p)[k] = 0 => Size(Aoe(un, p)) < SEMUME
          => ~r.fails
  BY <1>2, <1>9, AdjustEntry
<1>e. /\ h[i] = [h[i - 1] EXCEPT ![s] = @ + Doing.op]
      /\ IF Doing.undo /\ Doing.op # 0
         THEN /\ g[i] = [g[i - 1] EXCEPT ![k] = @ - Doing.op] /\ ~TooLarge(Doing.op)
              /\ ~TooLarge(g[i - 1][k]) /\ Size(g[i - 1]) <= SEMUME
         ELSE g[i] = g[i - 1]
  BY <1>3, <1>7 DEF OpEffect
<1> HIDE DEF s, r, k
<1>11. /\ [h[i] EXCEPT ![s] = @ - Doing.op] = h[i - 1]
       /\ Doing.undo /\ Doing.op # 0 =>
             /\ [g[i] EXCEPT ![k] = @ - (-Doing.op)] = g[i - 1]
             /\ ~TooLarge(g[i][k] - (-Doing.op)) /\ ~TooLarge(-Doing.op)
             /\ g[i][k] = 0 => Size(g[i]) < SEMUME
  <2>1. [h[i] EXCEPT ![s] = @ - Doing.op] = h[i - 1]
    <3>1. PICK a \in Vals : a = h[i - 1] BY <1>8
    <3>2. PICK op \in Int : op = Doing.op BY <1>3
    <3>3. PICK b : b = h[i] OBVIOUS
    <3>4. b = [a EXCEPT ![s] = a[s] + op] BY <3>1, <3>2, <3>3, <1>e
    <3>5. a[s] \in Int /\ a \in [SemIndex -> 0 .. SEMVMX] BY <1>3, SemAssumption DEF Vals
    <3>6. b[s] - op = a[s] BY <1>3, <3>4, <3>5
    <3>7. [b EXCEPT ![s] = a[s]] = a BY <3>4, <3>5
    <3>8. [b EXCEPT ![s] = b[s] - op] = a BY <3>6, <3>7
    <3> QED BY <3>1, <3>2, <3>3, <3>8
  <2> QED BY <2>1, <1>3, <1>8, <1>e, EntryBack
<1>12. semval' = h[i - 1] BY <1>1, <1>7, <1>11
<1>f. Doing.undo /\ Doing.op # 0 => ~r.fails BY <1>7, <1>10, <1>11
<1>13. Aoe(un', p) = g[i - 1]
  <2>1. CASE Doing.undo /\ Doing.op # 0
    <3>1. ~r.fails BY <2>1, <1>f
    <3>2. -Doing.op # 0 BY <2>1, <1>3
    <3>3. Aoe(r.un, p) = [g[i] EXCEPT ![k] = @ - (-Doing.op)] BY <2>1, <3>1, <3>2, <1>7, <1>10
    <3> QED BY <2>1, <3>3, <1>1, <1>11
  <2>2. CASE ~(Doing.undo /\ Doing.op # 0)
    <3>1. Aoe(un', p) = Aoe(un, p)
      <4>1. CASE Doing.op = 0 BY <4>1, <1>1
      <4>2. CASE Doing.op # 0 BY <2>2, <4>2, <1>1, <1>10
      <4> QED BY <4>1, <4>2
    <3> QED BY <2>2, <3>1, <1>7, <1>e
  <2> QED BY <2>1, <2>2
<1>14. un.sem_undo[p] # NULL => un'.sem_undo[p] # NULL BY <1>1, <1>10
<1>p. ASSUME NEW a, Pending(a) PROVE Pending(a)'
  <2>1. UNCHANGED <<pc, call, chan, sema>> BY DEF SemundoStep
  <2> QED BY <2>1, <1>p, PendingKept
<1>15. Traced(p)' BY <1>1, <1>2, <1>5, <1>12, <1>13, <1>14, <1>p, TraceShrinks
<1>16. semval' \in Vals /\ plain' \in [SemIndex -> Int]
  <2>1. plain[s] \in Int BY <1>3, <1>4
  <2>2. (IF Doing.undo THEN plain[s] ELSE plain[s] - Doing.op) \in Int BY <2>1, <1>3
  <2> QED BY <1>1, <1>3, <1>4, <1>8, <1>12, <2>2
<1>17. ASSUME NEW t \in SemIndex, Unowned(t)' PROVE Unowned(t) /\ semval'[t] = semval[t]
  <2>1. Unowned(t) BY <1>1, <1>17, SameSets
  <2>2. ~Unowned(s) BY <1>2, AtHome DEF Unowned, s
  <2> QED BY <2>1, <2>2, <1>1, <1>4
<1>18. Values' BY <1>16, <1>17, ValuesKept
<1> QED BY <1>15, <1>18, <1>f DEF r

(* While nobody is in semop's loops every sleeper is stuck, and one that   *)
(* is about to sleep was stuck with the values it found.                   *)
Idle == cpu = NULL => Pending(semval)

(* The one about to sleep. *)
Turned == \A p \in Proc : Running(p, "undo") /\ after = "sleep" => (Single => Stuck(p, snap.val))

(* Other values and the wakeups they call for. *)
LEMMA PendingMoves ==
    ASSUME CallInv, WaitInv, semval \in Vals, semval' \in Vals, Pending(semval), NEW C,
           Wakeup(C, pc), UNCHANGED <<call, chan>>,
           \A q \in Proc : pc[q] = "asleep" =>
              sema'[Index(call[q].id, SEMMNI)].base = sema[Index(call[q].id, SEMMNI)].base,
           \A s \in SemIndex : semval'[s] > semval[s] => <<"semncnt", s>> \in C,
           \A s \in SemIndex : semval'[s] = 0 /\ semval[s] # 0 => <<"semzcnt", s>> \in C
    PROVE  Pending(semval)'
<1> SUFFICES ASSUME Single, NEW q \in Proc, pc'[q] = "asleep" PROVE Stuck(q, semval)'
  BY DEF Pending
<1>1. PICK b : b = semval' OBVIOUS
<1>2. semval \in [SemIndex -> Int] /\ b \in [SemIndex -> Int] BY <1>1, SemAssumption DEF Vals
<1>3. pc[q] = "asleep" BY DEF Wakeup
<1>4. Stuck(q, semval) BY <1>3 DEF Pending
<1>5. Stuck(q, b) BY <1>1, <1>2, <1>4, StuckMoves
<1>6. Stuck(q, b)' BY <1>3, <1>5, StuckKept
<1> QED BY <1>1, <1>6

(* SETVAL and SETALL wake those whose wait they may have ended. *)
LEMMA SetValsPending ==
    ASSUME CallInv, WaitInv, Values, Values', Pending(semval), UNCHANGED <<sema, call, chan>>, NEW S \in SUBSET SemIndex,
           NEW val \in [S -> 0 .. SEMVMX], SetVals(val, pc)
    PROVE  Pending(semval)'
<1> DEFINE C == NCnt({s \in S : val[s] # 0}) \cup ZCnt({s \in S : val[s] = 0})
<1>1. DOMAIN val = S OBVIOUS
<1>2. /\ semval' = [s \in SemIndex |-> IF s \in S THEN val[s] ELSE semval[s]]
      /\ Wakeup(C, pc)
  BY <1>1 DEF SetVals
<1>3. semval \in Vals /\ semval' \in Vals BY DEF Values
<1>4. \A s \in SemIndex : semval[s] \in Int /\ semval[s] >= 0 BY <1>3, SemAssumption DEF Vals
<1>5. \A s \in S : val[s] \in Int BY SemAssumption
<1>6. \A s \in SemIndex : semval'[s] > semval[s] => s \in S /\ val[s] # 0
  BY <1>2, <1>4, <1>5
<1>7. \A s \in SemIndex : semval'[s] = 0 /\ semval[s] # 0 => s \in S /\ val[s] = 0
  BY <1>2
<1>8. \A s \in S : val[s] # 0 => <<"semncnt", s>> \in C BY DEF NCnt
<1>9. \A s \in S : val[s] = 0 => <<"semzcnt", s>> \in C BY DEF ZCnt
<1> HIDE DEF C
<1> QED BY <1>2, <1>3, <1>6, <1>7, <1>8, <1>9, PendingMoves

(* So does every semctl. *)
LEMMA SemctlPending ==
    ASSUME Calm, NoWrap, CallInv, WaitInv, SetInv, Values, Values', Pending(semval), NEW p \in Proc, Semctl(p)
    PROVE  Pending(semval)'
<1> USE DEF sets, sems, proc, run
<1>1. ASSUME NEW id \in Semid, Rmid(p, id) PROVE Pending(semval)'
  <2> DEFINE x == Index(id, SEMMNI)
             S == SetOf(x)
             C == RmidWakes(S)
  <2>1. /\ semval' = [s \in SemIndex |-> IF s \in S THEN 0 ELSE semval[s]]
        /\ sema' = [sema EXCEPT ![x].alloc = FALSE, ![x].seq = NextSeq(id, @, SEMMNI)]
        /\ Wakeup(C, pc) /\ UNCHANGED <<call, chan>>
    BY <1>1 DEF Rmid
  <2>2. semval \in Vals /\ semval' \in Vals BY DEF Values
  <2>3. \A s \in SemIndex : semval[s] \in Int /\ semval[s] >= 0 BY <2>2, SemAssumption DEF Vals
  <2>4. x \in SetIndex /\ sema \in [SetIndex -> HeaderType] BY IdFacts DEF SetInv, SetTypes
  <2> HIDE DEF x, S
  <2>5. \A y \in SetIndex : sema'[y].base = sema[y].base
    BY <2>1, <2>4 DEF HeaderType
  <2>6. \A q \in Proc : Index(call[q].id, SEMMNI) \in SetIndex
    BY IdFacts DEF CallInv, CallTypes, CallType
  <2>7. \A s \in SemIndex : ~(semval'[s] > semval[s]) BY <2>1, <2>3
  <2>8. \A s \in SemIndex : semval'[s] = 0 /\ semval[s] # 0 => <<"semzcnt", s>> \in C
    BY <2>1 DEF RmidWakes, ZCnt
  <2> HIDE DEF C
  <2> QED BY <2>1, <2>2, <2>5, <2>6, <2>7, <2>8, PendingMoves
<1>2. ASSUME NEW id \in Semid, Ipcset(p, id) PROVE Pending(semval)'
  <2>1. UNCHANGED <<sema, semval, pc, call, chan>> BY <1>2 DEF Ipcset, Faults, Calm
  <2> QED BY <2>1 DEF Pending, Stuck, ChanOf, SemOf, Header
<1>3. ASSUME NEW id \in Semid, NEW num \in Semnum, NEW val \in 0 .. SEMVMX,
             Setval(p, id, num, val)
      PROVE  Pending(semval)'
  <2> DEFINE s == SemOf(id, num)
             f == [t \in {s} |-> val]
  <2>1. /\ Semconv(id) /\ num < Header(id).nsems /\ SetVals(f, pc) /\ UNCHANGED <<sema, call, chan>>
    BY <1>3 DEF Setval
  <2>2. s \in SemIndex
    <3> DEFINE x == Index(id, SEMMNI)
    <3>1. x \in SetIndex /\ sema[x].alloc BY <2>1, IdFacts DEF Semconv, Valid
    <3>2. sema[x] \in HeaderType /\ SetOf(x) \subseteq SemIndex BY <3>1 DEF SetInv, SetTypes, SetOK
    <3>3. s \in SetOf(x)
      BY <2>1, <3>2, SemAssumption DEF SemOf, Header, SetOf, SemIndex, Semnum, HeaderType
    <3> QED BY <3>2, <3>3
  <2> HIDE DEF s
  <2>3. f \in [{s} -> 0 .. SEMVMX] /\ {s} \in SUBSET SemIndex BY <2>2
  <2> HIDE DEF f
  <2> QED BY <2>1, <2>3, SetValsPending
<1>4. ASSUME NEW id \in Semid, NEW vals \in [Semnum -> 0 .. SEMVMX], Setall(p, id, vals)
      PROVE  Pending(semval)'
  <2> DEFINE x == Index(id, SEMMNI)
             f == [s \in SetOf(x) |-> vals[s - sema[x].base]]
  <2>1. Semconv(id) /\ SetAllVals(id, vals, pc) /\ UNCHANGED <<sema, call, chan>>
    BY <1>4 DEF Setall, Faults, Calm
  <2>2. SetVals(f, pc) BY <2>1 DEF SetAllVals
  <2>3. x \in SetIndex /\ sema[x].alloc BY <2>1, IdFacts DEF Semconv, Valid
  <2> HIDE DEF x
  <2>4. sema[x] \in HeaderType /\ SetOf(x) \subseteq SemIndex BY <2>3 DEF SetInv, SetTypes, SetOK
  <2>5. ASSUME NEW s \in SetOf(x) PROVE s - sema[x].base \in Semnum
    <3>1. sema[x].base \in Nat /\ sema[x].nsems \in Nat /\ sema[x].nsems <= SEMMSL /\ SEMMSL \in Nat
      BY <2>4, SemAssumption DEF SemIndex, HeaderType
    <3>2. s \in Nat /\ sema[x].base <= s /\ s <= sema[x].base + sema[x].nsems - 1
      BY <3>1 DEF SetOf
    <3> QED BY <3>1, <3>2 DEF Semnum
  <2>6. f \in [SetOf(x) -> 0 .. SEMVMX] BY <2>5
  <2>7. SetOf(x) \in SUBSET SemIndex BY <2>4
  <2> HIDE DEF f
  <2> QED BY <2>1, <2>2, <2>6, <2>7, SetValsPending
<1> QED BY <1>1, <1>2, <1>3, <1>4 DEF Semctl

(* So do the adjustments at exit. *)
LEMMA ExitPending ==
    ASSUME CallInv, WaitInv, UndoOK(un, live), Values, Values', Pending(semval), NEW p \in Proc, Exit(p)
    PROVE  Pending(semval)'
<1> USE DEF sets, sems, proc, run
<1> DEFINE u == un.sem_undo[p]
           E(s) == {k \in UndoKey : /\ u # NULL /\ un.aoe[u][k] # 0
                                    /\ Semconv(k[1]) /\ SemOf(k[1], k[2]) = s}
           adj(s) == un.aoe[u][CHOOSE k \in E(s) : TRUE]
           has == {s \in SemIndex : E(s) # {}}
           done == {s \in has : semval[s] + adj(s) \in 0 .. SEMVMX}
           C == ZCnt({s \in done : semval[s] + adj(s) = 0}) \cup NCnt({s \in done : adj(s) > 0})
<1>1. /\ semval' = [s \in SemIndex |-> IF s \in done THEN semval[s] + adj(s) ELSE semval[s]]
      /\ Wakeup(C, pc) /\ UNCHANGED <<sema, call, chan>>
  BY Zenon DEF Exit
<1>2. semval \in Vals /\ semval' \in Vals BY DEF Values
<1>3. \A s \in SemIndex : semval[s] \in Int BY <1>2, SemAssumption DEF Vals
<1>4. un.aoe \in [Undo -> [UndoKey -> Int]] /\ un.sem_undo \in [Proc -> Undo \cup {NULL}]
  BY DEF UndoOK, UndoType
<1>5. \A s \in done : adj(s) \in Int /\ s \in SemIndex
  <2> SUFFICES ASSUME NEW s \in done PROVE adj(s) \in Int BY Zenon
  <2>1. E(s) # {} OBVIOUS
  <2>2. (CHOOSE k \in E(s) : TRUE) \in E(s) BY <2>1, Zenon
  <2> HIDE DEF adj
  <2>3. u # NULL /\ (CHOOSE k \in E(s) : TRUE) \in UndoKey BY <2>2
  <2>4. u \in Undo BY <2>3, <1>4
  <2> QED BY <2>3, <2>4, <1>4, Zenon DEF adj
<1> HIDE DEF adj, has, done
<1>6. \A s \in SemIndex : semval'[s] > semval[s] => s \in done /\ adj(s) > 0
  BY <1>1, <1>3, <1>5
<1>7. \A s \in SemIndex : semval'[s] = 0 /\ semval[s] # 0 => s \in done /\ semval[s] + adj(s) = 0
  BY <1>1
<1>8. \A s \in done : adj(s) > 0 => <<"semncnt", s>> \in C BY DEF NCnt
<1>9. \A s \in done : semval[s] + adj(s) = 0 => <<"semzcnt", s>> \in C BY DEF ZCnt
<1> HIDE DEF C
<1> QED BY <1>1, <1>2, <1>6, <1>7, <1>8, <1>9, PendingMoves

(* Nobody is in semop's loops afterwards. *)
LEMMA NobodyIn == cpu' = NULL => Traces'
BY SemAssumption DEF Traces

(* Nothing the recorded states depend on changes. *)
LEMMA TracesKept ==
    ASSUME Traces, CallInv, UNCHANGED <<sema, semval, un, semtmp, call, chan, i, snap, cpu>>,
           \A q \in Proc : pc'[q] = pc[q] \/ (pc[q] = "asleep" /\ pc'[q] = "woken")
    PROVE  Traces'
<1> SUFFICES ASSUME NEW p \in Proc, cpu' = p PROVE Traced(p)' BY DEF Traces
<1>1. cpu = p /\ Traced(p) BY DEF Traces
<1>2. pc'[p] = pc[p] BY <1>1 DEF CallInv, CallOf
<1>3. PICK h \in [0 .. Len(semtmp) -> Vals], g \in [0 .. Len(semtmp) -> [UndoKey -> Int]] :
         Follows(p, h, g)
  BY <1>1 DEF Traced
<1>4. \A a, b, e, f, o : OpEffect(call[p].id, o, a, b, e, f)' <=> OpEffect(call[p].id, o, a, b, e, f)
  BY DEF OpEffect, SemOf, Header
<1>5. Done(p)' = Done(p) BY <1>2 DEF Done
<1>6. ASSUME NEW a, Pending(a) PROVE Pending(a)' BY <1>6, PendingKept
<1>7. Follows(p, h, g)' BY <1>3, <1>4, <1>5, <1>6 DEF Follows
<1> QED BY <1>7 DEF Traced

(* An operation before the one semop is at has not touched its semaphore. *)
LEMMA Untouched ==
    ASSUME CallInv, SetInv, UndoOK(un, live), NEW p \in Proc, Running(p, "check"),
           i \in 1 .. Len(semtmp), Traced(p), Singly(semtmp)
    PROVE  semval[At(p)] = snap.val[At(p)]
<1>1. PICK h \in [0 .. Len(semtmp) -> Vals], g \in [0 .. Len(semtmp) -> [UndoKey -> Int]] :
         Follows(p, h, g)
  BY DEF Traced
<1> DEFINE s == At(p)
           n == i - 1
           S == {k \in Nat : k <= n /\ h[k][s] # h[0][s]}
<1>2. i \in Nat /\ n \in Nat /\ Done(p) = n /\ cpu = p
  BY DEF Running, Done, CallInv, CallTypes
<1>3. /\ h[0] = snap.val /\ semval = h[n]
      /\ \A j \in 1 .. n : OpEffect(call[p].id, semtmp[j], h[j - 1], h[j], g[j - 1], g[j])
  BY <1>1, <1>2 DEF Follows
<1>4. SUFFICES ASSUME n \in S PROVE FALSE BY <1>2, <1>3
<1>5. S \in SUBSET Nat OBVIOUS
<1>6. PICK k \in S : \A z \in S : k <= z
  <2> HIDE DEF S
  <2> QED BY <1>4, <1>5, Least
<1>7. k \in Nat /\ k <= n /\ h[k][s] # h[0][s] OBVIOUS
<1>8. k \in 1 .. n /\ k - 1 \in Nat /\ k - 1 \notin S BY <1>2, <1>6, <1>7
<1>9. h[k - 1][s] = h[0][s] BY <1>2, <1>7, <1>8
<1>10. OpEffect(call[p].id, semtmp[k], h[k - 1], h[k], g[k - 1], g[k]) BY <1>3, <1>8
<1>11. h[k] = [h[k - 1] EXCEPT ![SemOf(call[p].id, semtmp[k].num)] = @ + semtmp[k].op]
  BY <1>10 DEF OpEffect
<1>12. SemOf(call[p].id, semtmp[k].num) # s
  <2>1. k \in 1 .. Len(semtmp) /\ k # i BY <1>2, <1>8
  <2>2. semtmp \in Seq(Op) BY DEF CallInv, CallTypes
  <2>3. semtmp[k] \in Op /\ semtmp[i] \in Op BY <2>1, <2>2
  <2>4. semtmp[k].num \in Int /\ semtmp[i].num \in Int BY <2>3, SemAssumption DEF Op, Semnum
  <2>5. semtmp[k].num # semtmp[i].num BY <2>1 DEF Singly
  <2>6. Header(call[p].id).base \in Int
    <3>1. Index(call[p].id, SEMMNI) \in SetIndex BY <1>2, AtHome
    <3> QED BY <3>1, SemAssumption DEF SetInv, SetTypes, HeaderType, Header, SemIndex
  <2> QED BY <2>4, <2>5, <2>6 DEF SemOf, At, Doing
<1>13. s \in SemIndex BY <1>2, AtHome
<1>14. k - 1 \in 0 .. Len(semtmp) BY <1>2, <1>8
<1>15. h[k - 1] \in [SemIndex -> 0 .. SEMVMX] BY <1>14 DEF Vals
<1> HIDE DEF s
<1>16. h[k][s] = h[k - 1][s] BY <1>11, <1>12, <1>13, <1>15
<1> QED BY <1>7, <1>9, <1>16

(* An operation that has to wait is stuck with the values semop found. *)
LEMMA WaitTurns ==
    ASSUME CallInv, SetInv, UndoOK(un, live), chan \in [Proc -> Chan \cup {NULL}],
           NEW p \in Proc, Traced(p), OpWaits(p), Singly(call[p].ops)
    PROVE  Stuck(p, snap.val)'
<1> USE DEF sets, sems, proc
<1> DEFINE s == At(p)
<1>1. /\ Running(p, "check") /\ i <= Len(semtmp)
      /\ \/ Doing.op = 0 /\ semval[s] # 0
         \/ Doing.op < 0 /\ ~InBounds(p)
      /\ chan' = [chan EXCEPT ![p] = <<IF Doing.op < 0 THEN "semncnt" ELSE "semzcnt", s>>]
      /\ UNCHANGED <<sema, call, snap>>
  BY DEF OpWaits
<1>2. cpu = p /\ i \in 1 .. Len(semtmp) /\ semtmp = call[p].ops
  <2>1. CallTypes /\ CallOf(p) BY DEF CallInv
  <2> QED BY <2>1, <1>1 DEF Running, CallOf, CallTypes
<1>3. semval[s] = snap.val[s] BY <1>1, <1>2, Untouched
<1>4. s = SemOf(call[p].id, Doing.num) /\ Doing.op \in Int BY <1>2, OpFacts
<1>5. Blocks(Doing, semval[s])
  <2>1. CASE Doing.op = 0 BY <1>1, <2>1 DEF Blocks
  <2>2. CASE Doing.op # 0
    <3>1. Doing.op < 0 /\ ~(semval[s] >= -Doing.op) BY <1>1, <2>2 DEF InBounds
    <3>2. semval[s] \in Int
      <4>1. PICK h \in [0 .. Len(semtmp) -> Vals], g \in [0 .. Len(semtmp) -> [UndoKey -> Int]] :
               Follows(p, h, g) BY DEF Traced
      <4>2. Done(p) \in 0 .. Len(semtmp) BY <1>1, <1>2 DEF Running, Done
      <4>3. semval \in Vals BY <4>1, <4>2 DEF Follows
      <4>4. s \in SemIndex BY <1>2, AtHome
      <4> QED BY <4>3, <4>4, SemAssumption DEF Vals
    <3> QED BY <3>1, <3>2, <1>4, <2>2 DEF Blocks
  <2> QED BY <2>1, <2>2
<1>6. chan'[p] = ChanOf(call[p].id, Doing) BY <1>1, <1>4 DEF ChanOf
<1>7. \A n : SemOf(call[p].id, n)' = SemOf(call[p].id, n) BY <1>1 DEF SemOf, Header
<1> HIDE DEF s
<1>8. Blocks(Doing, snap.val[SemOf(call[p].id, Doing.num)]) BY <1>3, <1>4, <1>5
<1>9. i \in 1 .. Len(call'[p].ops) /\ call'[p].ops[i] = Doing /\ call' = call /\ snap' = snap
  BY <1>1, <1>2 DEF Doing
<1>10. ChanOf(call[p].id, Doing) = <<IF Doing.op < 0 THEN "semncnt" ELSE "semzcnt", SemOf(call[p].id, Doing.num)>>
  BY DEF ChanOf
<1> PICK o : o = Doing OBVIOUS
<1> PICK j : j = i OBVIOUS
<1>11. /\ j \in 1 .. Len(call'[p].ops) /\ call'[p].ops[j] = o
       /\ chan'[p] = ChanOf(call[p].id, o)'
       /\ Blocks(o, snap'.val[SemOf(call[p].id, o.num)'])
  BY <1>6, <1>7, <1>8, <1>9, <1>10 DEF ChanOf
<1> QED BY <1>11 DEF Stuck, Blocks

(* The invariant of those who sleep. *)
Sleepers == Idle /\ Turned /\ Lists1

(* Nobody is in semop's loops afterwards, and sleepers stay as they are,   *)
(* except that some are woken.                                             *)
LEMMA SleepersKept ==
    ASSUME Pending(semval), Lists1, cpu' = NULL, UNCHANGED <<sema, semval>>,
           \A q \in Proc : pc'[q] = "asleep" =>
              pc[q] = "asleep" /\ call'[q] = call[q] /\ chan'[q] = chan[q],
           \A q \in Proc : call'[q] = call[q] \/ call'[q] = NoCall
    PROVE  Sleepers'
<1>1. PICK a : a = semval OBVIOUS
<1>2. Pending(a)' BY <1>1, PendingKept
<1>3. Idle' BY <1>1, <1>2 DEF Idle
<1>4. Turned' BY SemAssumption DEF Turned, Running
<1>5. Singly(NoCall.ops) BY DEF Singly, NoCall
<1>6. Lists1' BY <1>5 DEF Lists1
<1> QED BY <1>3, <1>4, <1>6 DEF Sleepers

(* p is in semop's loops and stays there. *)
LEMMA SleepersGoOn ==
    ASSUME Lists1, NEW p \in Proc, cpu' = p, UNCHANGED call,
           pc'[p] = "undo" /\ after' = "sleep" => (Single => Stuck(p, snap.val)')
    PROVE  Sleepers'
<1>1. Idle' BY SemAssumption DEF Idle
<1>2. Turned' BY DEF Turned, Running
<1>3. Lists1' BY DEF Lists1
<1> QED BY <1>1, <1>2, <1>3 DEF Sleepers

(* The end of p's system call. *)
LEMMA FinishSleepers ==
    ASSUME CallInv, chan \in [Proc -> Chan \cup {NULL}], Pending(semval), Lists1, NEW p \in Proc, Finish(p),
           UNCHANGED <<sema, semval>>, pc'[p] = "user",
           \A q \in Proc \ {p} : pc'[q] = pc[q] \/ (pc[q] = "asleep" /\ pc'[q] = "woken")
    PROVE  Sleepers'
<1>1. call \in [Proc -> CallType] BY DEF CallInv, CallTypes
<1>2. cpu' = NULL /\ call' = [call EXCEPT ![p] = NoCall] /\ chan' = [chan EXCEPT ![p] = NULL]
  BY DEF Finish, Leave
<1>3. \A q \in Proc : pc'[q] = "asleep" =>
         pc[q] = "asleep" /\ call'[q] = call[q] /\ chan'[q] = chan[q]
  BY <1>1, <1>2
<1>4. \A q \in Proc : call'[q] = call[q] \/ call'[q] = NoCall BY <1>1, <1>2
<1> QED BY <1>2, <1>3, <1>4, SleepersKept

(* semop's loops. *)
LEMMA SemopTraces ==
    ASSUME CallInv, WaitInv, SetInv, UndoOK(un, live), chan \in [Proc -> Chan \cup {NULL}],
           Values, Traces, NEW p \in Proc, SemopStep(p)
    PROVE  Values' /\ Traces'
<1> USE DEF sets, sems, proc, run
<1>t. CallTypes /\ CallOf(p) /\ p # NULL BY SemAssumption DEF CallInv
<1>s. UNCHANGED <<sema, semval, plain>> => Values' BY SameSets DEF Values
<1>o. ASSUME cpu = p, UNCHANGED cpu, Traced(p)' PROVE Traces' BY <1>o DEF Traces
<1>h. cpu = p => Traced(p) BY DEF Traces
<1>1. CASE OpApplies(p)
  <2>1. Running(p, "check") /\ UNCHANGED cpu BY <1>1 DEF OpApplies
  <2>2. PICK C : Wakeup(C, pc) BY <1>1 DEF OpApplies
  <2>3. pc'[p] = "check"
    <3>1. pc \in [Proc -> Where] BY <1>t DEF CallTypes
    <3>2. pc'[p] = pc[p] \/ (pc[p] = "asleep" /\ pc'[p] = "woken") BY <2>2, <3>1, WakeupMoves
    <3> QED BY <2>1, <3>2 DEF Running
  <2>4. Values' /\ Traced(p)' BY <1>1, <2>1, <2>3, <1>h, ApplyStep DEF Running
  <2> QED BY <2>1, <2>4, <1>o DEF Running
<1>2. CASE OpPasses(p)
  <2>1. Running(p, "check") /\ UNCHANGED <<cpu, sema, semval, plain>> BY <1>2 DEF OpPasses
  <2>2. Traced(p)' BY <1>2, <2>1, <1>h, PassStep DEF Running
  <2> QED BY <2>1, <2>2, <1>o, <1>s DEF Running
<1>3. CASE OpFails(p) \/ OpWaits(p)
  <2>1. Running(p, "check") /\ UNCHANGED <<cpu, sema, semval, plain>>
    BY <1>3 DEF OpFails, OpWaits
  <2>2. Traced(p)' BY <1>3, <2>1, <1>h, TurnStep DEF Running
  <2> QED BY <2>1, <2>2, <1>o, <1>s DEF Running
<1>4. CASE OpsDone(p)
  <2>1. cpu' = NULL /\ UNCHANGED <<sema, semval, plain>> BY <1>4 DEF OpsDone, Finish, Leave
  <2> QED BY <2>1, <1>s, NobodyIn
<1>5. CASE SemundoStep(p)
  <2>1. Running(p, "undo") /\ UNCHANGED cpu BY <1>5 DEF SemundoStep
  <2>2. Values' /\ Traced(p)' BY <1>5, <2>1, <1>h, UndoStep DEF Running
  <2> QED BY <2>1, <2>2, <1>o DEF Running
<1>6. CASE SemundoDone(p)
  <2>1. cpu' = NULL /\ UNCHANGED <<sema, semval, plain>> BY <1>6 DEF SemundoDone, Finish, Leave
  <2> QED BY <2>1, <1>s, NobodyIn
<1> QED BY <1>1, <1>2, <1>3, <1>4, <1>5, <1>6 DEF SemopStep

(* semop's loops keep the sleepers stuck, and the one that goes to sleep   *)
(* is stuck with the values it leaves, which are those it found.           *)
LEMMA SemopSleepers ==
    ASSUME CallInv, WaitInv, SetInv, UndoOK(un, live), chan \in [Proc -> Chan \cup {NULL}],
           Values, Traces, Sleepers, NEW p \in Proc, SemopStep(p)
    PROVE  Sleepers'
<1> USE DEF sets, sems, proc, run
<1>t. CallTypes /\ CallOf(p) /\ p # NULL BY SemAssumption DEF CallInv
<1>l. Lists1 /\ Turned BY DEF Sleepers
<1>h. cpu = p => Traced(p) /\ Pending(semval)
  <2>1. cpu = p => Traced(p) BY DEF Traces
  <2> QED BY <2>1, TracePending
<1>1. CASE OpApplies(p)
  <2>1. Running(p, "check") /\ UNCHANGED <<cpu, call>> BY <1>1 DEF OpApplies
  <2>2. PICK C : Wakeup(C, pc) BY <1>1 DEF OpApplies
  <2>3. pc'[p] # "undo" BY <2>1, <2>2 DEF Wakeup, Running
  <2> QED BY <2>1, <2>3, <1>l, SleepersGoOn DEF Running
<1>2. CASE OpPasses(p) \/ OpFails(p)
  <2>1. Running(p, "check") /\ UNCHANGED <<cpu, call>> /\ (pc' = pc \/ after' = "fail")
    BY <1>2 DEF OpPasses, OpFails
  <2> QED BY <2>1, <1>l, SleepersGoOn DEF Running
<1>3. CASE OpWaits(p)
  <2>1. Running(p, "check") /\ UNCHANGED <<cpu, call>> BY <1>3 DEF OpWaits
  <2>2. Single => Stuck(p, snap.val)' BY <1>3, <2>1, <1>h, <1>l, WaitTurns DEF Lists1, Running
  <2> QED BY <2>1, <2>2, <1>l, SleepersGoOn DEF Running
<1>4. CASE OpsDone(p)
  <2>1. Running(p, "check") /\ UNCHANGED <<sema, semval>> /\ Finish(p) /\ pc' = User(p)
    BY <1>4 DEF OpsDone
  <2>2. pc'[p] = "user" /\ \A q \in Proc \ {p} : pc'[q] = pc[q]
    BY <2>1, <1>t DEF User, CallTypes
  <2> QED BY <2>1, <2>2, <1>h, <1>l, FinishSleepers DEF Running
<1>5. CASE SemundoStep(p)
  <2>1. Running(p, "undo") /\ UNCHANGED <<cpu, call, pc, after, snap, chan, sema>>
    BY <1>5 DEF SemundoStep
  <2>2. ASSUME after = "sleep", Single PROVE Stuck(p, snap.val)'
    <3>1. PICK a : a = snap.val OBVIOUS
    <3>2. Stuck(p, a) BY <2>1, <2>2, <3>1, <1>l DEF Turned
    <3>3. Stuck(p, a)' BY <2>1, <3>2, StuckKept
    <3> QED BY <2>1, <3>1, <3>3
  <2> QED BY <2>1, <2>2, <1>l, SleepersGoOn DEF Running
<1>6. CASE SemundoDone(p)
  <2>0. Running(p, "undo") /\ i = 0 /\ UNCHANGED <<sema, semval>> BY <1>6 DEF SemundoDone
  <2>1. CASE after = "fail"
    <3>1. Finish(p) /\ pc' = User(p) BY <1>6, <2>1 DEF SemundoDone
    <3>2. pc'[p] = "user" /\ \A q \in Proc \ {p} : pc'[q] = pc[q]
      BY <3>1, <1>t DEF User, CallTypes
    <3> QED BY <2>0, <3>1, <3>2, <1>h, <1>l, FinishSleepers DEF Running
  <2>2. CASE after = "sleep" /\ sig[p]
    <3>1. Finish(p) /\ Interrupted(p, chan[p], cnt[chan[p]] + 1) BY <1>6, <2>2 DEF SemundoDone
    <3>2. /\ pc'[p] = "user"
          /\ \A q \in Proc \ {p} : pc'[q] = pc[q] \/ (pc[q] = "asleep" /\ pc'[q] = "woken")
      BY <3>1, <1>t DEF Interrupted, User, CallTypes
    <3> QED BY <2>0, <3>1, <3>2, <1>h, <1>l, FinishSleepers DEF Running
  <2>3. CASE after = "sleep" /\ ~sig[p]
    <3>1. pc' = [pc EXCEPT ![p] = "asleep"] /\ cpu' = NULL /\ UNCHANGED <<call, chan>>
      BY <1>6, <2>3 DEF SemundoDone, Leave
    <3>2. semval = snap.val
      <4>1. Traced(p) /\ Done(p) = 0 BY <2>0, <1>h DEF Running, Done
      <4> QED BY <4>1 DEF Traced, Follows
    <3>3. PICK a : a = semval OBVIOUS
    <3>4. ASSUME Single, NEW q \in Proc, pc'[q] = "asleep" PROVE Stuck(q, a)'
      <4>1. Stuck(q, a)
        <5>1. CASE q = p BY <2>0, <2>3, <3>2, <3>3, <3>4, <5>1, <1>l DEF Turned
        <5>2. CASE q # p
          <6>1. pc[q] = "asleep" BY <3>1, <3>4, <5>2, <1>t DEF CallTypes
          <6> QED BY <2>0, <3>3, <3>4, <6>1, <1>h DEF Pending, Running
        <5> QED BY <5>1, <5>2
      <4> QED BY <2>0, <3>1, <4>1, StuckKept
    <3>5. Idle' BY <2>0, <3>3, <3>4 DEF Idle, Pending
    <3>6. Turned' BY <3>1, SemAssumption DEF Turned, Running
    <3>7. Lists1' BY <3>1, <1>l DEF Lists1
    <3> QED BY <3>5, <3>6, <3>7 DEF Sleepers
  <2> QED BY <2>1, <2>2, <2>3, <1>t DEF CallTypes, SemundoDone
<1> QED BY <1>1, <1>2, <1>3, <1>4, <1>5, <1>6 DEF SemopStep

(* Every step keeps the values legal and the record of semop exact. *)
LEMMA NextValues ==
    ASSUME Calm, NoWrap, CallInv, WaitInv, SetInv, UndoOK(un, live),
           chan \in [Proc -> Chan \cup {NULL}], Entries, Values, Traces, Sleepers, [Next]_vars
    PROVE  Values' /\ Traces' /\ Sleepers'
<1> USE DEF sets, sems, proc, run
<1>t. CallTypes /\ \A p \in Proc : CallOf(p) BY DEF CallInv
<1>l. Lists1 /\ Turned /\ (cpu = NULL => Pending(semval)) BY DEF Sleepers, Idle
<1>s. UNCHANGED <<sema, semval, plain>> => Values' BY SameSets DEF Values
<1>v. semval \in Vals BY DEF Values
<1>k. ASSUME UNCHANGED <<sema, semval, plain, call, chan, un, semtmp, i, snap, cpu, after>>,
             \A q \in Proc : pc'[q] = pc[q] \/ (pc[q] = "asleep" /\ pc'[q] = "woken")
      PROVE  Values' /\ Traces' /\ Sleepers'
  <2>1. Values' /\ Traces' BY <1>k, <1>s, TracesKept
  <2>2. CASE cpu = NULL BY <1>k, <1>l, <2>1, <2>2, SleepersKept
  <2>3. CASE cpu # NULL
    <3>1. cpu \in Proc BY <2>3, <1>t DEF CallTypes
    <3>2. PICK q \in Proc : q = cpu BY <3>1
    <3>3. pc'[q] = pc[q] BY <3>2, <1>t, <1>k DEF CallOf
    <3>4. ASSUME pc[q] = "undo", after = "sleep", Single PROVE Stuck(q, snap.val)'
      <4>1. PICK a : a = snap.val OBVIOUS
      <4>2. Stuck(q, a) BY <3>2, <3>4, <4>1, <1>l DEF Turned, Running
      <4>3. Stuck(q, a)' BY <1>k, <4>2, StuckKept
      <4> QED BY <1>k, <4>1, <4>3
    <3>5. Sleepers' BY <1>k, <1>l, <3>2, <3>3, <3>4, SleepersGoOn
    <3> QED BY <2>1, <3>5
  <2> QED BY <2>2, <2>3
<1>1. CASE UNCHANGED vars BY <1>1, <1>k DEF vars
<1>n. ASSUME cpu' = NULL, UNCHANGED call, Pending(semval)' PROVE Sleepers'
  BY <1>n, <1>l, SemAssumption DEF Sleepers, Idle, Turned, Running, Lists1
<1>2. ASSUME NEW p \in Proc, NEW key \in Key, NEW creat \in BOOLEAN, NEW n \in 1 .. SEMMSL,
             Semget(p, key, creat, n)
      PROVE  Values' /\ Traces' /\ Sleepers'
  <2>1. cpu = NULL /\ cpu' = NULL /\ UNCHANGED <<semval, plain, call, chan, pc>>
    BY <1>2 DEF Semget, Enters
  <2>2. PICK y \in SetIndex :
           ~sema[y].alloc /\ sema'[y].alloc /\ \A z \in SetIndex \ {y} : sema'[z] = sema[z]
    BY <1>2, SemgetSets
  <2>3. ASSUME NEW s \in SemIndex, Unowned(s)' PROVE Unowned(s)
    <3>1. \A z \in SetIndex \ {y} : SetOf(z)' = SetOf(z) BY <2>2 DEF SetOf
    <3> QED BY <2>2, <2>3, <3>1 DEF Unowned
  <2>4. Values' BY <2>1, <2>3 DEF Values
  <2>5. PICK a : a = semval OBVIOUS
  <2>6. ASSUME Single, NEW q \in Proc, pc'[q] = "asleep" PROVE Stuck(q, a)'
    <3>1. pc[q] = "asleep" /\ Stuck(q, a) BY <2>1, <2>5, <2>6, <1>l DEF Pending
    <3>2. Semconv(call[q].id) /\ call[q].id \in Semid
      BY <3>1, <1>t DEF SetInv, Caller, CallTypes, CallType
    <3>3. Index(call[q].id, SEMMNI) \in SetIndex \ {y}
      BY <2>2, <3>2, IdFacts DEF Semconv, Valid
    <3> QED BY <2>1, <2>2, <3>1, <3>3, StuckKept
  <2>7. Pending(semval)' BY <2>1, <2>5, <2>6 DEF Pending
  <2> QED BY <2>1, <2>4, <2>7, <1>n, NobodyIn
<1>3. ASSUME NEW p \in Proc, Semctl(p) PROVE Values' /\ Traces' /\ Sleepers'
  <2>1. cpu = NULL /\ cpu' = NULL /\ UNCHANGED call
    BY <1>3 DEF Semctl, Rmid, Ipcset, Setval, Setall, Enters, Faults, Leave, Calm
  <2>2. Values' BY <1>3, SemctlValues
  <2>3. Pending(semval)' BY <1>3, <2>1, <2>2, <1>l, SemctlPending
  <2> QED BY <2>1, <2>2, <2>3, <1>n, NobodyIn
<1>c. ASSUME NEW p \in Proc, NEW tmp \in Seq(Op), Check(p, tmp), cpu = NULL,
             UNCHANGED <<sema, semval, plain, un>>,
             \A q \in Proc \ {p} : call'[q] = call[q] /\ chan'[q] = chan[q],
             Single => Singly(call'[p].ops)
      PROVE  Values' /\ Traces' /\ Sleepers'
  <2>1. pc \in [Proc -> Where] BY <1>t DEF CallTypes
  <2>2. Aoe(un, p) \in [UndoKey -> Int] BY AoeFacts
  <2>3. pc' = [pc EXCEPT ![p] = "check"] /\ cpu' = p BY <1>c DEF Check
  <2>4. ASSUME NEW a, a = semval PROVE Pending(a)'
    <3>1. Pending(a) BY <1>c, <1>l, <2>4
    <3>2. \A q \in Proc : pc'[q] = "asleep" =>
             pc[q] = "asleep" /\ call'[q] = call[q] /\ chan'[q] = chan[q]
      BY <2>1, <2>3, <1>c
    <3> QED BY <1>c, <3>1, <3>2, PendingKept
  <2>5. Traced(p)' BY <1>c, <1>v, <2>1, <2>2, <2>4, TraceStarts
  <2>6. Sleepers'
    <3>1. Idle' BY <2>3, SemAssumption DEF Idle
    <3>2. Turned' BY <2>1, <2>3 DEF Turned, Running
    <3>3. Lists1' BY <1>c, <1>l DEF Lists1
    <3> QED BY <3>1, <3>2, <3>3 DEF Sleepers
  <2> QED BY <1>c, <1>s, <2>3, <2>5, <2>6 DEF Traces
<1>4. ASSUME NEW p \in Proc, NEW id \in Semid, NEW ops \in Ops, Semop(p, id, ops)
      PROVE  Values' /\ Traces' /\ Sleepers'
  <2>1. ops \in Seq(Op) /\ UNCHANGED <<sema, semval, plain, un, chan>> /\ cpu = NULL
    BY <1>4, OpsAssumption DEF Semop, Enters
  <2>2. \/ /\ Check(p, ops)
           /\ call' = [call EXCEPT ![p] = [cmd |-> "semop", id |-> id, ops |-> ops,
                                           done |-> 0, vals |-> NoVals]]
        \/ UNCHANGED <<cpu, pc, call>>
    BY <1>4 DEF Semop, Faults, Calm
  <2>3. CASE UNCHANGED <<cpu, pc, call>>
    BY <2>1, <2>3, <1>l, <1>s, SleepersKept, NobodyIn
  <2>4. CASE /\ Check(p, ops)
             /\ call' = [call EXCEPT ![p] = [cmd |-> "semop", id |-> id, ops |-> ops,
                                             done |-> 0, vals |-> NoVals]]
    <3>1. call \in [Proc -> CallType] BY <1>t DEF CallTypes
    <3>2. call'[p].ops = ops /\ \A q \in Proc \ {p} : call'[q] = call[q] BY <2>4, <3>1
    <3>3. Single => Singly(call'[p].ops) BY <3>2 DEF Single
    <3> QED BY <2>1, <2>4, <3>2, <3>3, <1>c
  <2> QED BY <2>2, <2>3, <2>4
<1>5. ASSUME NEW p \in Proc, SemopStep(p) PROVE Values' /\ Traces' /\ Sleepers'
  BY <1>5, SemopTraces, SemopSleepers
<1>6. ASSUME NEW p \in Proc, Continue(p) PROVE Values' /\ Traces' /\ Sleepers'
  <2>1. CASE Resume(p)
    <3>1. call[p].ops \in Seq(Op) BY <1>t DEF CallTypes, CallType
    <3>2. UNCHANGED <<sema, semval, plain, un>> /\ cpu = NULL BY <2>1 DEF Resume
    <3>3. \/ Check(p, call[p].ops) /\ UNCHANGED call /\ chan' = [chan EXCEPT ![p] = NULL]
          \/ Finish(p) /\ (pc' = User(p) \/ Interrupted(p, chan[p], cnt[chan[p]]))
      BY <2>1 DEF Resume, Faults, Calm
    <3>4. CASE Check(p, call[p].ops) /\ UNCHANGED call /\ chan' = [chan EXCEPT ![p] = NULL]
      <4>1. Single => Singly(call'[p].ops) BY <3>4, <1>l DEF Lists1
      <4>2. \A q \in Proc \ {p} : call'[q] = call[q] /\ chan'[q] = chan[q] BY <3>4
      <4> QED BY <3>1, <3>2, <3>4, <4>1, <4>2, <1>c
    <3>5. CASE Finish(p) /\ (pc' = User(p) \/ Interrupted(p, chan[p], cnt[chan[p]]))
      <4>1. /\ pc'[p] = "user"
            /\ \A q \in Proc \ {p} : pc'[q] = pc[q] \/ (pc[q] = "asleep" /\ pc'[q] = "woken")
        BY <3>5, <1>t DEF Interrupted, User, CallTypes
      <4>2. Sleepers' BY <3>2, <3>5, <4>1, <1>l, FinishSleepers
      <4>3. cpu' = NULL BY <3>5 DEF Finish, Leave
      <4> QED BY <3>2, <4>2, <4>3, <1>s, NobodyIn
    <3> QED BY <3>3, <3>4, <3>5
  <2>2. CASE ~Resume(p)
    BY <1>6, <1>t, <2>2 DEF Continue, SemopFaulted, ResumeFaulted, SetallFaulted, IpcsetFaulted,
       CallOf
  <2> QED BY <2>1, <2>2
<1>7. ASSUME NEW p \in Proc, Signal(p) PROVE Values' /\ Traces' /\ Sleepers'
  <2>1. UNCHANGED <<sema, semval, plain, un, semtmp, call, chan, i, snap, cpu, after>>
    BY <1>7 DEF Signal
  <2>2. \A q \in Proc : pc'[q] = pc[q] \/ (pc[q] = "asleep" /\ pc'[q] = "woken")
    BY <1>7, <1>t DEF Signal, CallTypes
  <2> QED BY <2>1, <2>2, <1>k
<1>8. ASSUME NEW p \in Proc, Exit(p) PROVE Values' /\ Traces' /\ Sleepers'
  <2>1. cpu = NULL /\ cpu' = NULL /\ UNCHANGED call BY <1>8, Zenon DEF Exit, Enters
  <2>2. Values' BY <1>8, ExitValues
  <2>3. Pending(semval)' BY <1>8, <2>1, <2>2, <1>l, ExitPending
  <2> QED BY <2>1, <2>2, <2>3, <1>n, NobodyIn
<1>9. CASE \E p \in Proc : Fork(p) BY <1>9 DEF Fork, Calm
<1> QED BY <1>1, <1>2, <1>3, <1>4, <1>5, <1>6, <1>7, <1>8, <1>9 DEF Next

(***************************************************************************)
(* The undo entries are exact.                                             *)
(***************************************************************************)

(* No identifier has wrapped around. *)
Ids == \A x \in SetIndex : IdOf(sema, x, SEMMNI) <= IntMax

(* The entries for semaphore n of set x account for its value. *)
BalAt(x, n) ==
    semval[sema[x].base + n] + Total(Col(un, <<IdOf(sema, x, SEMMNI), n>>))
        = plain[sema[x].base + n]

(* There is a semaphore n in set x. *)
Member(x, n) == x \in SetIndex /\ sema[x].alloc /\ n \in Semnum /\ n < sema[x].nsems

(* The entries are exact for every semaphore of every set, and a           *)
(* semaphore of no set starts from 0.                                      *)
Balance ==
    /\ Ids
    /\ \A s \in SemIndex : Unowned(s) => plain[s] = 0
    /\ \A x, n : Member(x, n) => BalAt(x, n)

(* Division. *)
LEMMA Divides ==
    ASSUME NEW c \in Nat \ {0}, NEW a \in Nat, NEW x \in 0 .. c - 1
    PROVE  (a * c + x) % c = x /\ (a * c + x) \div c = a
<1> DEFINE d == a * c + x
           q == d \div c
           r == d % c
<1>1. d \in Nat /\ a * c \in Nat OBVIOUS
<1> HIDE DEF d
<1>2. q \in Int /\ r \in 0 .. c - 1 /\ d = c * q + r BY <1>1
<1> HIDE DEF q, r
<1>3. ~(q >= a + 1)
  <2> SUFFICES ASSUME q >= a + 1 PROVE FALSE OBVIOUS
  <2>1. c * q >= c * (a + 1) BY <1>2
  <2>2. c * (a + 1) = a * c + c OBVIOUS
  <2> QED BY <1>1, <1>2, <2>1, <2>2 DEF d
<1>4. ~(q <= a - 1)
  <2> SUFFICES ASSUME q <= a - 1 PROVE FALSE OBVIOUS
  <2>1. c * q <= c * (a - 1) BY <1>2
  <2>2. c * (a - 1) = a * c - c OBVIOUS
  <2> QED BY <1>1, <1>2, <2>1, <2>2 DEF d
<1>5. q = a BY <1>2, <1>3, <1>4
<1>6. c * a = a * c OBVIOUS
<1>7. r = x BY <1>1, <1>2, <1>5, <1>6 DEF d
<1> QED BY <1>5, <1>7 DEF q, r, d

(* The identifier of a set leads back to it. *)
LEMMA IdBack ==
    ASSUME SetTypes, Ids, NEW x \in SetIndex
    PROVE  /\ IdOf(sema, x, SEMMNI) \in Semid /\ Index(IdOf(sema, x, SEMMNI), SEMMNI) = x
           /\ Gen(IdOf(sema, x, SEMMNI)) = sema[x].seq
<1>1. sema[x].seq \in Nat BY DEF SetTypes, HeaderType
<1>2. SEMMNI \in Nat \ {0} /\ IntMax \in Nat BY SemAssumption
<1>3. x \in 0 .. SEMMNI - 1 BY DEF SetIndex
<1>4. PICK a \in Nat : a = sema[x].seq BY <1>1
<1>5. IdOf(sema, x, SEMMNI) = a * SEMMNI + x BY <1>4 DEF IdOf
<1>6. (a * SEMMNI + x) % SEMMNI = x /\ (a * SEMMNI + x) \div SEMMNI = a
  BY <1>2, <1>3, Divides
<1>7. a * SEMMNI + x \in Nat
  <2>1. a * SEMMNI \in Nat BY <1>2
  <2> QED BY <2>1, <1>2, <1>3
<1>8. IdOf(sema, x, SEMMNI) <= IntMax BY DEF Ids
<1>9. IdOf(sema, x, SEMMNI) \in Semid BY <1>2, <1>5, <1>7, <1>8 DEF Semid
<1> QED BY <1>4, <1>5, <1>6, <1>9 DEF Index, Gen

(* A valid identifier is that of its set. *)
LEMMA IdValid ==
    ASSUME NEW id \in Semid, Semconv(id), SetTypes
    PROVE  IdOf(sema, Index(id, SEMMNI), SEMMNI) = id
<1>1. SEMMNI \in Nat \ {0} /\ id \in Nat BY SemAssumption DEF Semid
<1>2. sema[Index(id, SEMMNI)].seq = id \div SEMMNI BY DEF Semconv, Valid
<1> DEFINE q == id \div SEMMNI
           r == id % SEMMNI
<1>3. q \in Int /\ r \in 0 .. SEMMNI - 1 /\ id = SEMMNI * q + r BY <1>1
<1>4. IdOf(sema, Index(id, SEMMNI), SEMMNI) = q * SEMMNI + r BY <1>2 DEF IdOf, Index
<1> HIDE DEF q, r
<1> QED BY <1>1, <1>3, <1>4

(* Where the semaphores of a set are. *)
LEMMA MemberFacts ==
    ASSUME SetInv, Ids, NEW x, NEW n, Member(x, n)
    PROVE  /\ x \in SetIndex /\ sema[x].alloc /\ n \in Nat /\ sema[x].base \in Nat
           /\ sema[x].base + n \in SetOf(x) /\ sema[x].base + n \in SemIndex
           /\ <<IdOf(sema, x, SEMMNI), n>> \in UndoKey
<1>1. x \in SetIndex /\ sema[x].alloc /\ n \in Semnum /\ n < sema[x].nsems BY DEF Member
<1>2. SetTypes /\ SetOK(x) BY <1>1 DEF SetInv
<1>3. sema[x].base \in Nat /\ sema[x].nsems \in Nat /\ n \in Nat
  BY <1>1, <1>2, SemAssumption DEF SetTypes, HeaderType, SemIndex, Semnum
<1>4. sema[x].base + n \in SetOf(x) BY <1>1, <1>3 DEF SetOf
<1>5. SetOf(x) \subseteq SemIndex BY <1>1, <1>2 DEF SetOK
<1>6. IdOf(sema, x, SEMMNI) \in Semid BY <1>1, <1>2, IdBack
<1> QED BY <1>1, <1>3, <1>4, <1>5, <1>6 DEF UndoKey

(* Two semaphores of sets are in different places, and have different      *)
(* entries.                                                                *)
LEMMA MembersApart ==
    ASSUME SetInv, Ids, NEW x, NEW n, Member(x, n), NEW y, NEW m, Member(y, m),
           x # y \/ n # m
    PROVE  /\ sema[x].base + n # sema[y].base + m
           /\ <<IdOf(sema, x, SEMMNI), n>> # <<IdOf(sema, y, SEMMNI), m>>
<1>1. /\ x \in SetIndex /\ sema[x].alloc /\ n \in Nat /\ sema[x].base \in Nat
      /\ sema[x].base + n \in SetOf(x)
  BY MemberFacts
<1>2. /\ y \in SetIndex /\ sema[y].alloc /\ m \in Nat /\ sema[y].base \in Nat
      /\ sema[y].base + m \in SetOf(y)
  BY MemberFacts
<1>3. CASE x # y
  <2>1. SetOf(x) \cap SetOf(y) = {} BY <1>1, <1>2, <1>3 DEF SetInv, Apart
  <2>2. Index(IdOf(sema, x, SEMMNI), SEMMNI) = x /\ Index(IdOf(sema, y, SEMMNI), SEMMNI) = y
    BY <1>1, <1>2, IdBack DEF SetInv
  <2> QED BY <1>1, <1>2, <1>3, <2>1, <2>2
<1>4. CASE x = y /\ n # m
  BY <1>1, <1>2, <1>4
<1> QED BY <1>3, <1>4

(* One entry and the value it accounts for change together. *)
LEMMA BalKept ==
    ASSUME SetInv, Ids, UndoOK(un, live), UndoOK(un, live)', Values, Values', UNCHANGED sema,
           NEW x, NEW n, Member(x, n), BalAt(x, n), NEW d \in Int,
           Shifts(un', un, <<IdOf(sema, x, SEMMNI), n>>, d),
           semval'[sema[x].base + n] + d - plain'[sema[x].base + n]
              = semval[sema[x].base + n] - plain[sema[x].base + n]
    PROVE  BalAt(x, n)'
<1> DEFINE s == sema[x].base + n
           k == <<IdOf(sema, x, SEMMNI), n>>
<1>1. s \in SemIndex /\ k \in UndoKey BY MemberFacts
<1>2. un \in UndoType /\ un' \in UndoType BY DEF UndoOK
<1>3. s = (sema[x].base + n)' /\ k = <<IdOf(sema, x, SEMMNI), n>>' BY DEF IdOf
<1>4. semval[s] + Total(Col(un, k)) = plain[s] BY DEF BalAt
<1> HIDE DEF s, k
<1>5. /\ semval[s] \in Int /\ semval'[s] \in Int /\ plain[s] \in Int /\ plain'[s] \in Int
  BY <1>1, SemAssumption DEF Values, Vals
<1>6. Total(Col(un, k)) \in Int /\ Total(Col(un', k)) = Total(Col(un, k)) + d
  BY <1>1, <1>2, ColShift DEF k
<1>7. semval'[s] + d - plain'[s] = semval[s] - plain[s] BY DEF s
<1>8. semval'[s] + Total(Col(un', k)) = plain'[s] BY <1>4, <1>5, <1>6, <1>7
<1> QED BY <1>3, <1>8 DEF BalAt

(* The headers stay as they are: what is left to show. *)
LEMMA BalanceMoves ==
    ASSUME Balance, UNCHANGED sema,
           \A s \in SemIndex : Unowned(s) => plain'[s] = plain[s],
           \A x, n : Member(x, n) => BalAt(x, n)'
    PROVE  Balance'
<1>1. Ids' BY DEF Balance, Ids, IdOf
<1>2. \A s \in SemIndex : Unowned(s)' => Unowned(s) BY SameSets
<1>3. \A x, n : Member(x, n)' => Member(x, n) BY DEF Member
<1> QED BY <1>1, <1>2, <1>3 DEF Balance

(* Nothing moves. *)
LEMMA BalanceSame ==
    ASSUME Balance, UNCHANGED <<sema, semval, plain, un>>
    PROVE  Balance'
<1>1. \A x, n : BalAt(x, n) => BalAt(x, n)' BY DEF BalAt, Col, IdOf
<1>2. \A x, n : Member(x, n) => BalAt(x, n) BY DEF Balance
<1>3. \A x, n : Member(x, n) => BalAt(x, n)' BY <1>1, <1>2
<1>4. UNCHANGED sema /\ \A s \in SemIndex : Unowned(s) => plain'[s] = plain[s] OBVIOUS
<1> QED BY <1>3, <1>4, BalanceMoves

(* A step of semop's loops moves one semaphore, and the entry for it. *)
LEMMA BalanceOne ==
    ASSUME SetInv, UndoOK(un, live), UndoOK(un, live)', Values, Values', UNCHANGED sema, Balance,
           NEW y, NEW m, Member(y, m), NEW s, s = sema[y].base + m,
           NEW k, k = <<IdOf(sema, y, SEMMNI), m>>,
           \A t \in SemIndex \ {s} : semval'[t] = semval[t] /\ plain'[t] = plain[t],
           \A u \in Undo, j \in UndoKey \ {k} : un'.aoe[u][j] = un.aoe[u][j],
           NEW d \in Int, Shifts(un', un, k, d),
           semval'[s] + d - plain'[s] = semval[s] - plain[s]
    PROVE  Balance'
<1>0. Ids /\ \A x, n : Member(x, n) => BalAt(x, n) BY DEF Balance
<1>1. ASSUME NEW x, NEW n, Member(x, n) PROVE BalAt(x, n)'
  <2>0. BalAt(x, n) BY <1>0, <1>1
  <2>1. CASE x = y /\ n = m
    BY <2>0, <2>1, <1>0, BalKept
  <2>2. CASE x # y \/ n # m
    <3> DEFINE t == sema[x].base + n
               j == <<IdOf(sema, x, SEMMNI), n>>
    <3>1. t # s /\ j # k BY <1>0, <1>1, <2>2, MembersApart
    <3>2. t \in SemIndex /\ j \in UndoKey BY <1>0, <1>1, MemberFacts
    <3>3. semval'[t] = semval[t] /\ plain'[t] = plain[t] BY <3>1, <3>2
    <3>4. semval[t] \in Int /\ plain[t] \in Int BY <3>2, SemAssumption DEF Values, Vals
    <3>5. semval'[t] + 0 - plain'[t] = semval[t] - plain[t]
      <4> HIDE DEF t
      <4> QED BY <3>3, <3>4
    <3>6. Shifts(un', un, j, 0)
      <4> HIDE DEF j
      <4> QED BY <3>1, <3>2 DEF Shifts
    <3> QED BY <2>0, <3>5, <3>6, <1>0, <1>1, BalKept
  <2> QED BY <2>1, <2>2
<1>2. ~Unowned(s)
  <2>1. y \in SetIndex /\ sema[y].alloc /\ s \in SetOf(y) BY <1>0, MemberFacts
  <2> QED BY <2>1 DEF Unowned
<1>3. \A t \in SemIndex : Unowned(t) => plain'[t] = plain[t] BY <1>2
<1> QED BY <1>1, <1>3, BalanceMoves

(* The operation semop is at is on a semaphore of a set. *)
LEMMA AtMember ==
    ASSUME CallInv, SetInv, Ids, NEW p \in Proc, cpu = p, i \in 1 .. Len(semtmp)
    PROVE  \E y : /\ Member(y, Doing.num) /\ At(p) = sema[y].base + Doing.num
                  /\ call[p].id = IdOf(sema, y, SEMMNI)
<1> DEFINE y == Index(call[p].id, SEMMNI)
<1>1. /\ call[p].id \in Semid /\ y \in SetIndex /\ sema[y].alloc
      /\ Doing.num < sema[y].nsems
  BY AtHome
<1>2. Semconv(call[p].id) BY DEF SetInv, Caller
<1>3. IdOf(sema, y, SEMMNI) = call[p].id BY <1>1, <1>2, IdValid DEF SetInv
<1>4. Doing.num \in Semnum
  <2>1. semtmp \in Seq(Op) BY DEF CallInv, CallTypes
  <2>2. Doing \in Op BY <2>1 DEF Doing
  <2> QED BY <2>2 DEF Op
<1>5. At(p) = sema[y].base + Doing.num BY DEF At, SemOf, Header
<1>6. Member(y, Doing.num) BY <1>1, <1>4 DEF Member
<1> QED BY <1>3, <1>5, <1>6

(* An operation is done. *)
LEMMA ApplyBalance ==
    ASSUME CallInv, SetInv, UndoOK(un, live), UndoOK(un, live)', Values, Values', Balance,
           NEW p \in Proc, OpApplies(p)
    PROVE  Balance'
<1> USE DEF sets, proc
<1>0. Ids BY DEF Balance
<1> DEFINE s == At(p)
           r == Adjust(p, Doing.op)
           k == <<call[p].id, Doing.num>>
<1>1. /\ Running(p, "check") /\ i <= Len(semtmp) /\ ~r.fails
      /\ semval' = [semval EXCEPT ![s] = semval[s] + Doing.op]
      /\ plain' = [plain EXCEPT ![s] = IF Doing.undo THEN @ ELSE @ + Doing.op]
      /\ un' = r.un /\ UNCHANGED sema
  BY DEF OpApplies
<1>2. cpu = p /\ i \in 1 .. Len(semtmp)
  <2>1. CallTypes /\ CallOf(p) BY DEF CallInv
  <2> QED BY <2>1, <1>1 DEF Running, CallOf, CallTypes
<1>3. s \in SemIndex /\ Doing.op \in Int /\ Doing.undo \in BOOLEAN BY <1>2, OpFacts
<1>4. PICK y : /\ Member(y, Doing.num) /\ s = sema[y].base + Doing.num
               /\ call[p].id = IdOf(sema, y, SEMMNI)
  BY <1>0, <1>2, AtMember
<1>5. /\ \A u \in Undo, j \in UndoKey \ {k} : r.un.aoe[u][j] = un.aoe[u][j]
      /\ r.fails \/ ~Doing.undo => Shifts(r.un, un, k, 0)
      /\ ~r.fails /\ Doing.undo => Shifts(r.un, un, k, -Doing.op)
  BY <1>2, <1>3, AdjustEntry
<1>6. semval \in [SemIndex -> 0 .. SEMVMX] /\ plain \in [SemIndex -> Int] BY DEF Values, Vals
<1>7. semval[s] \in Int /\ plain[s] \in Int BY <1>3, <1>6, SemAssumption
<1> DEFINE d == IF Doing.undo THEN -Doing.op ELSE 0
<1>k. k = <<IdOf(sema, y, SEMMNI), Doing.num>> BY <1>4
<1> HIDE DEF s, r, k
<1>8. d \in Int /\ Shifts(un', un, k, d)
  <2>1. -Doing.op \in Int BY <1>3
  <2> QED BY <2>1, <1>1, <1>3, <1>5
<1>9. semval'[s] + d - plain'[s] = semval[s] - plain[s]
  <2>1. semval'[s] = semval[s] + Doing.op BY <1>1, <1>3, <1>6
  <2>2. plain'[s] = IF Doing.undo THEN plain[s] ELSE plain[s] + Doing.op BY <1>1, <1>3, <1>6
  <2>3. CASE Doing.undo BY <2>1, <2>2, <2>3, <1>3, <1>7
  <2>4. CASE ~Doing.undo BY <2>1, <2>2, <2>4, <1>3, <1>7
  <2> QED BY <2>3, <2>4
<1>10. \A t \in SemIndex \ {s} : semval'[t] = semval[t] /\ plain'[t] = plain[t]
  BY <1>1, <1>6
<1>11. \A u \in Undo, j \in UndoKey \ {k} : un'.aoe[u][j] = un.aoe[u][j] BY <1>1, <1>5
<1> HIDE DEF d
<1> QED BY <1>1, <1>4, <1>k, <1>8, <1>9, <1>10, <1>11, BalanceOne

(* semundo takes an operation back. *)
LEMMA UndoBack ==
    ASSUME CallInv, SetInv, UndoOK(un, live), UndoOK(un, live)', Values, Values', Balance,
           NEW p \in Proc, Traced(p), SemundoStep(p)
    PROVE  Balance'
<1> USE DEF sets, proc
<1>0. Ids BY DEF Balance
<1> DEFINE s == At(p)
           r == Adjust(p, -Doing.op)
           k == <<call[p].id, Doing.num>>
<1>1. /\ Running(p, "undo") /\ i > 0
      /\ semval' = [semval EXCEPT ![s] = @ - Doing.op]
      /\ plain' = [plain EXCEPT ![s] = IF Doing.undo THEN @ ELSE @ - Doing.op]
      /\ un' = (IF Doing.op = 0 THEN un ELSE r.un) /\ UNCHANGED sema
  BY DEF SemundoStep, Reverse
<1>f. Doing.undo /\ Doing.op # 0 => ~r.fails BY UndoStep
<1>2. cpu = p /\ i \in 1 .. Len(semtmp)
  <2>1. CallTypes /\ CallOf(p) BY DEF CallInv
  <2> QED BY <2>1, <1>1 DEF Running, CallOf, CallTypes
<1>3. s \in SemIndex /\ Doing.op \in Int /\ Doing.undo \in BOOLEAN BY <1>2, OpFacts
<1>4. PICK y : /\ Member(y, Doing.num) /\ s = sema[y].base + Doing.num
               /\ call[p].id = IdOf(sema, y, SEMMNI)
  BY <1>0, <1>2, AtMember
<1>n. -Doing.op \in Int BY <1>3
<1>5. /\ \A u \in Undo, j \in UndoKey \ {k} : r.un.aoe[u][j] = un.aoe[u][j]
      /\ r.fails \/ ~Doing.undo => Shifts(r.un, un, k, 0)
      /\ ~r.fails /\ Doing.undo => Shifts(r.un, un, k, -(-Doing.op))
  BY <1>2, <1>n, AdjustEntry
<1>6. semval \in [SemIndex -> 0 .. SEMVMX] /\ plain \in [SemIndex -> Int] BY DEF Values, Vals
<1>7. semval[s] \in Int /\ plain[s] \in Int BY <1>3, <1>6, SemAssumption
<1> DEFINE d == IF Doing.undo THEN Doing.op ELSE 0
<1>k. k = <<IdOf(sema, y, SEMMNI), Doing.num>> BY <1>4
<1>m. -(-Doing.op) = Doing.op BY <1>3
<1> HIDE DEF s, r, k
<1>8. d \in Int /\ Shifts(un', un, k, d)
  <2>1. CASE Doing.op = 0
    <3>1. un' = un /\ d = 0 BY <2>1, <1>1
    <3> QED BY <3>1 DEF Shifts
  <2>2. CASE Doing.op # 0 /\ Doing.undo
    <3>1. Shifts(r.un, un, k, -(-Doing.op)) /\ un' = r.un BY <2>2, <1>1, <1>5, <1>f
    <3>2. Shifts(r.un, un, k, Doing.op) BY <3>1, <1>m
    <3> QED BY <2>2, <3>1, <3>2, <1>3
  <2>3. CASE Doing.op # 0 /\ ~Doing.undo
    BY <2>3, <1>1, <1>5
  <2> QED BY <2>1, <2>2, <2>3
<1>9. semval'[s] + d - plain'[s] = semval[s] - plain[s]
  <2>1. semval'[s] = semval[s] - Doing.op BY <1>1, <1>3, <1>6
  <2>2. plain'[s] = IF Doing.undo THEN plain[s] ELSE plain[s] - Doing.op BY <1>1, <1>3, <1>6
  <2>3. CASE Doing.undo BY <2>1, <2>2, <2>3, <1>3, <1>7
  <2>4. CASE ~Doing.undo BY <2>1, <2>2, <2>4, <1>3, <1>7
  <2> QED BY <2>3, <2>4
<1>10. \A t \in SemIndex \ {s} : semval'[t] = semval[t] /\ plain'[t] = plain[t]
  BY <1>1, <1>6
<1>11. \A u \in Undo, j \in UndoKey \ {k} : un'.aoe[u][j] = un.aoe[u][j] BY <1>1, <1>5
<1> HIDE DEF d
<1> QED BY <1>1, <1>4, <1>k, <1>8, <1>9, <1>10, <1>11, BalanceOne

(* semunrm and the values set for the same semaphores. *)
LEMMA SetBalance ==
    ASSUME SetInv, UndoOK(un, live), UndoOK(un, live)', Values, Values', UNCHANGED sema, Balance,
           NEW x \in SetIndex, sema[x].alloc, NEW id, id = IdOf(sema, x, SEMMNI),
           NEW S \in SUBSET SetOf(x), NEW val \in [S -> 0 .. SEMVMX], SetVals(val, pc),
           NEW low \in Int, NEW high \in Int, un' = Semunrm(un, id, low, high),
           \A n : Member(x, n) => (sema[x].base + n \in S <=> InUnrm(n, low, high))
    PROVE  Balance'
<1>0. Ids /\ \A y, n : Member(y, n) => BalAt(y, n) BY DEF Balance
<1>1. /\ semval' = [s \in SemIndex |-> IF s \in S THEN val[s] ELSE semval[s]]
      /\ plain' = [s \in SemIndex |-> IF s \in S THEN val[s] ELSE plain[s]]
  BY DEF SetVals
<1>2. \A u \in Undo, k \in UndoKey :
         un'.aoe[u][k] = IF k[1] = id /\ InUnrm(k[2], low, high) THEN 0 ELSE un.aoe[u][k]
  BY SemunrmFacts
<1>3. ASSUME NEW y, NEW n, Member(y, n) PROVE BalAt(y, n)'
  <2> DEFINE s == sema[y].base + n
             k == <<IdOf(sema, y, SEMMNI), n>>
  <2>1. s \in SemIndex /\ k \in UndoKey /\ y \in SetIndex /\ sema[y].alloc /\ s \in SetOf(y)
    BY <1>0, <1>3, MemberFacts
  <2>2. s = (sema[y].base + n)' /\ k = <<IdOf(sema, y, SEMMNI), n>>' BY DEF IdOf
  <2>3. k[1] = IdOf(sema, y, SEMMNI) /\ k[2] = n OBVIOUS
  <2>4. CASE y = x /\ InUnrm(n, low, high)
    <3>1. s \in S BY <1>3, <2>4
    <3>2. semval'[s] = val[s] /\ plain'[s] = val[s] /\ val[s] \in Int
      <4> HIDE DEF s
      <4> QED BY <1>1, <2>1, <3>1, SemAssumption
    <3>3. Total(Col(un', k)) = 0
      <4>1. \A u \in Undo : un'.aoe[u][k] = 0 BY <1>2, <2>1, <2>3, <2>4
      <4> HIDE DEF k
      <4>2. \A u \in Undo : Col(un', k)[u] = 0 BY <4>1 DEF Col
      <4> QED BY <4>2, TotalZero
    <3> HIDE DEF s, k
    <3>4. semval'[s] + Total(Col(un', k)) = plain'[s] BY <3>2, <3>3
    <3> QED BY <3>4, <2>2 DEF BalAt
  <2>5. CASE ~(y = x /\ InUnrm(n, low, high))
    <3>1. s \notin S
      <4>1. CASE y = x BY <4>1, <1>3, <2>5
      <4>2. CASE y # x
        <5>1. SetOf(y) \cap SetOf(x) = {} BY <4>2, <2>1 DEF SetInv, Apart
        <5> QED BY <5>1, <2>1
      <4> QED BY <4>1, <4>2
    <3>2. semval'[s] = semval[s] /\ plain'[s] = plain[s]
      <4> HIDE DEF s
      <4> QED BY <1>1, <2>1, <3>1
    <3>3. semval[s] \in Int /\ plain[s] \in Int
      <4> HIDE DEF s
      <4> QED BY <2>1, SemAssumption DEF Values, Vals
    <3>4. semval'[s] + 0 - plain'[s] = semval[s] - plain[s]
      <4> HIDE DEF s
      <4> QED BY <3>2, <3>3
    <3>5. ~(k[1] = id /\ InUnrm(k[2], low, high))
      <4>1. y # x => IdOf(sema, y, SEMMNI) # id
        <5>1. Index(IdOf(sema, y, SEMMNI), SEMMNI) = y /\ Index(id, SEMMNI) = x
          BY <1>0, <2>1, IdBack DEF SetInv
        <5> QED BY <5>1
      <4> QED BY <4>1, <2>3, <2>5
    <3>6. Shifts(un', un, k, 0)
      <4>1. \A u \in Undo : un'.aoe[u][k] = un.aoe[u][k] BY <1>2, <2>1, <3>5
      <4> HIDE DEF k
      <4> QED BY <4>1 DEF Shifts
    <3> QED BY <3>4, <3>6, <1>0, <1>3, BalKept
  <2> QED BY <2>4, <2>5
<1>4. \A s \in SemIndex : Unowned(s) => plain'[s] = plain[s]
  <2>1. \A s \in S : ~Unowned(s) BY DEF Unowned
  <2> QED BY <1>1, <2>1
<1> QED BY <1>3, <1>4, BalanceMoves

(* A set is removed. *)
LEMMA RmidBalance ==
    ASSUME NoWrap, CallInv, WaitInv, SetInv, UndoOK(un, live), UndoOK(un, live)', Values, Values',
           Balance, NEW p \in Proc, NEW id \in Semid, Rmid(p, id)
    PROVE  Balance'
<1> DEFINE x == Index(id, SEMMNI)
<1>0. Ids /\ (\A s \in SemIndex : Unowned(s) => plain[s] = 0)
      /\ \A y, n : Member(y, n) => BalAt(y, n)
  BY DEF Balance
<1>1. /\ SetInv' /\ x \in SetIndex /\ sema[x].alloc /\ ~sema'[x].alloc
      /\ sema'[x].seq = sema[x].seq + 1
      /\ \A y \in SetIndex \ {x} : sema'[y] = sema[y]
  BY RmidSets
<1>2. /\ semval' = [s \in SemIndex |-> IF s \in SetOf(x) THEN 0 ELSE semval[s]]
      /\ plain' = [s \in SemIndex |-> IF s \in SetOf(x) THEN 0 ELSE plain[s]]
      /\ un' = Semunrm(un, id, 0, sema[x].nsems) /\ Semconv(id) /\ sema[x].seq < MaxSeq
  BY DEF Rmid
<1>3. IdOf(sema, x, SEMMNI) = id BY <1>2, IdValid DEF SetInv
<1>4. SetTypes /\ SetTypes' BY <1>1 DEF SetInv
<1>5. 0 \in Int /\ sema[x].nsems \in Int
  BY <1>1, <1>4, SemAssumption DEF SetTypes, HeaderType
<1>6. \A u \in Undo, k \in UndoKey :
         un'.aoe[u][k] = IF k[1] = id /\ InUnrm(k[2], 0, sema[x].nsems) THEN 0 ELSE un.aoe[u][k]
  BY <1>2, <1>5, SemunrmFacts
<1> HIDE DEF x
<1>7. Ids'
  <2>1. \A y \in SetIndex \ {x} : IdOf(sema, y, SEMMNI)' <= IntMax
    BY <1>0, <1>1 DEF Ids, IdOf
  <2>2. IdOf(sema, x, SEMMNI)' <= IntMax
    <3>1. id \div SEMMNI = sema[x].seq BY <1>2 DEF Semconv, Valid, x
    <3>2. id + SEMMNI <= IntMax BY <1>2, <3>1 DEF NoWrap
    <3>3. sema[x].seq \in Nat /\ SEMMNI \in Nat /\ x \in Nat
      BY <1>1, <1>4, SemAssumption DEF SetTypes, HeaderType, SetIndex
    <3>4. PICK a \in Nat : a = sema[x].seq BY <3>3
    <3>5. IdOf(sema, x, SEMMNI)' = (a + 1) * SEMMNI + x BY <1>1, <3>4 DEF IdOf
    <3>6. id = a * SEMMNI + x BY <1>3, <3>4 DEF IdOf
    <3>7. (a + 1) * SEMMNI = a * SEMMNI + SEMMNI /\ a * SEMMNI \in Nat BY <3>3
    <3>8. IdOf(sema, x, SEMMNI)' = id + SEMMNI BY <3>3, <3>5, <3>6, <3>7
    <3> QED BY <3>2, <3>8
  <2> QED BY <2>1, <2>2 DEF Ids
<1>8. ASSUME NEW s \in SemIndex, Unowned(s)' PROVE plain'[s] = 0
  <2>1. \A z \in SetIndex \ {x} : SetOf(z)' = SetOf(z) BY <1>1 DEF SetOf
  <2>2. s \in SetOf(x) \/ Unowned(s) BY <1>1, <1>8, <2>1 DEF Unowned
  <2> QED BY <1>0, <1>2, <2>2
<1>9. ASSUME NEW y, NEW n, Member(y, n)' PROVE BalAt(y, n)'
  <2>1. y \in SetIndex \ {x} BY <1>1, <1>9 DEF Member
  <2>2. Member(y, n) /\ sema'[y] = sema[y] BY <1>1, <1>9, <2>1 DEF Member
  <2> DEFINE s == sema[y].base + n
             k == <<IdOf(sema, y, SEMMNI), n>>
  <2>3. s \in SemIndex /\ k \in UndoKey /\ y \in SetIndex /\ sema[y].alloc /\ s \in SetOf(y)
    BY <1>0, <2>2, MemberFacts
  <2>4. s = (sema[y].base + n)' /\ k = <<IdOf(sema, y, SEMMNI), n>>' BY <2>2 DEF IdOf
  <2>5. s \notin SetOf(x)
    <3>1. SetOf(y) \cap SetOf(x) = {} BY <1>1, <2>1, <2>3 DEF SetInv, Apart
    <3> QED BY <3>1, <2>3
  <2>6. k[1] # id
    <3>1. Index(IdOf(sema, y, SEMMNI), SEMMNI) = y BY <1>0, <1>4, <2>3, IdBack
    <3> QED BY <3>1, <2>1 DEF x
  <2>7. BalAt(y, n) BY <1>0, <2>2
  <2>8. semval[s] + Total(Col(un, k)) = plain[s] BY <2>7 DEF BalAt
  <2> HIDE DEF s, k
  <2>9. semval'[s] = semval[s] /\ plain'[s] = plain[s] BY <1>2, <2>3, <2>5
  <2>10. Col(un', k) = Col(un, k) BY <1>6, <2>3, <2>6 DEF Col
  <2>11. semval'[s] + Total(Col(un', k)) = plain'[s] BY <2>8, <2>9, <2>10
  <2> QED BY <2>4, <2>11 DEF BalAt
<1> QED BY <1>7, <1>8, <1>9 DEF Balance

(* A set is made. *)
LEMMA SemgetBalance ==
    ASSUME CallInv, SetInv, UndoOK(un, live), Entries, Values, Balance,
           NEW p \in Proc, NEW key \in Key, NEW creat \in BOOLEAN, NEW c \in 1 .. SEMMSL,
           Semget(p, key, creat, c)
    PROVE  Balance'
<1>0. Ids /\ (\A s \in SemIndex : Unowned(s) => plain[s] = 0)
      /\ \A y, n : Member(y, n) => BalAt(y, n)
  BY DEF Balance
<1>1. SetInv' BY SemgetSets
<1>2. PICK x \in SetIndex : /\ ~sema[x].alloc /\ sema'[x].alloc /\ sema'[x].seq = sema[x].seq
                            /\ \A z \in SetIndex \ {x} : sema'[z] = sema[z]
  BY SemgetSets
<1>3. UNCHANGED <<semval, plain, un>> BY DEF Semget, sems
<1>4. \A z \in SetIndex : IdOf(sema, z, SEMMNI)' = IdOf(sema, z, SEMMNI)
  BY <1>2 DEF IdOf
<1>5. Ids' BY <1>0, <1>4 DEF Ids
<1>6. \A z \in SetIndex \ {x} : SetOf(z)' = SetOf(z) BY <1>2 DEF SetOf
<1>7. ASSUME NEW s \in SemIndex, Unowned(s)' PROVE plain'[s] = 0
  <2>1. Unowned(s) BY <1>2, <1>6, <1>7 DEF Unowned
  <2> QED BY <2>1, <1>0, <1>3
<1>8. ASSUME NEW y, NEW n, Member(y, n)' PROVE BalAt(y, n)'
  <2>0. y \in SetIndex BY <1>8 DEF Member
  <2>1. CASE y # x
    <3>1. Member(y, n) /\ sema'[y] = sema[y] BY <1>2, <1>8, <2>0, <2>1 DEF Member
    <3>2. BalAt(y, n) BY <1>0, <3>1
    <3> QED BY <3>1, <3>2, <1>3, <1>4, <2>0 DEF BalAt, Col
  <2>2. CASE y = x
    <3> DEFINE s == (sema[x].base + n)'
               k == <<IdOf(sema, x, SEMMNI), n>>
    <3>1. s \in SetOf(x)' /\ s \in SemIndex /\ k \in UndoKey
      <4>1. n \in Semnum /\ n < sema'[x].nsems BY <1>8, <2>2 DEF Member
      <4>2. SetTypes' /\ SetOK(x)' BY <1>1 DEF SetInv
      <4>3. sema'[x].base \in Nat /\ sema'[x].nsems \in Nat /\ n \in Nat
        BY <4>1, <4>2, SemAssumption DEF SetTypes, HeaderType, SemIndex, Semnum
      <4>4. s \in SetOf(x)' BY <4>1, <4>3 DEF SetOf
      <4>5. SetOf(x)' \subseteq SemIndex BY <1>2, <4>2 DEF SetOK
      <4>6. IdOf(sema, x, SEMMNI) \in Semid BY <1>0, IdBack DEF SetInv
      <4> QED BY <4>1, <4>4, <4>5, <4>6 DEF UndoKey
    <3>2. Unowned(s)
      <4>1. \A z \in SetIndex \ {x} : sema[z].alloc => SetOf(z)' \cap SetOf(x)' = {}
        BY <1>1, <1>2 DEF SetInv, Apart
      <4> QED BY <4>1, <3>1, <1>2, <1>6 DEF Unowned
    <3>3. semval[s] = 0 /\ plain[s] = 0 BY <3>1, <3>2, <1>0 DEF Values
    <3>4. \A u \in Undo : un.aoe[u][k] = 0
      <4>1. Gen(IdOf(sema, x, SEMMNI)) = sema[x].seq /\ Index(IdOf(sema, x, SEMMNI), SEMMNI) = x
        BY <1>0, IdBack DEF SetInv
      <4>2. sema[x].seq \in Nat BY DEF SetInv, SetTypes, HeaderType
      <4>3. ~Bound(k[1], {k[2]}) BY <4>1, <4>2, <1>2 DEF Bound
      <4> QED BY <3>1, <4>3 DEF Entries
    <3>5. k = <<IdOf(sema, x, SEMMNI), n>>' BY <1>4
    <3> HIDE DEF s, k
    <3>6. Total(Col(un, k)) = 0
      <4>1. \A u \in Undo : Col(un, k)[u] = 0 BY <3>4 DEF Col
      <4> QED BY <4>1, TotalZero
    <3>7. semval[s] + Total(Col(un, k)) = plain[s] BY <3>3, <3>6
    <3>8. semval'[s] + Total(Col(un', k)) = plain'[s] BY <3>7, <1>3
    <3> QED BY <3>8, <3>5, <2>2 DEF BalAt, s
  <2> QED BY <2>1, <2>2
<1> QED BY <1>5, <1>7, <1>8 DEF Balance

(* semexit makes the adjustment of every entry, or drops it, and clears it. *)
LEMMA ExitBalance ==
    ASSUME CallInv, SetInv, UndoOK(un, live), UndoOK(un, live)', Entries, Values, Values', Balance,
           NEW p \in Proc, Exit(p)
    PROVE  Balance'
<1> USE DEF sets
<1> DEFINE u == un.sem_undo[p]
           E(s) == {k \in UndoKey : /\ u # NULL /\ un.aoe[u][k] # 0
                                    /\ Semconv(k[1]) /\ SemOf(k[1], k[2]) = s}
           adj(s) == un.aoe[u][CHOOSE k \in E(s) : TRUE]
           has == {s \in SemIndex : E(s) # {}}
           done == {s \in has : semval[s] + adj(s) \in 0 .. SEMVMX}
<1>0. Ids /\ \A y, n : Member(y, n) => BalAt(y, n) BY DEF Balance
<1>1. /\ semval' = [s \in SemIndex |-> IF s \in done THEN semval[s] + adj(s) ELSE semval[s]]
      /\ plain' = [s \in SemIndex |-> IF s \in has \ done THEN plain[s] - adj(s) ELSE plain[s]]
      /\ UNCHANGED sema
      /\ un' = IF u = NULL THEN un ELSE Exited(un, u)
  BY Zenon DEF Exit, Exited, OffList
<1>2. semval \in [SemIndex -> 0 .. SEMVMX] /\ plain \in [SemIndex -> Int]
  BY DEF Values, Vals
<1>3. un.aoe \in [Undo -> [UndoKey -> Int]] /\ u \in Undo \cup {NULL}
  BY DEF UndoOK, UndoType
<1>4. live \in [Proc -> BOOLEAN] /\ live[p] BY Zenon DEF CallInv, CallTypes, Exit, Enters
<1>5. \A s : \A j \in E(s) : j \in UndoKey /\ u \in Undo /\ un.aoe[u][j] # 0 /\ Semconv(j[1])
                             /\ SemOf(j[1], j[2]) = s
  BY <1>3
<1>6. ASSUME NEW s, NEW j \in E(s)
      PROVE  \E y, m : /\ Member(y, m) /\ s = sema[y].base + m
                       /\ j = <<IdOf(sema, y, SEMMNI), m>>
  <2>1. j \in UndoKey /\ u \in Undo /\ un.aoe[u][j] # 0 /\ Semconv(j[1]) /\ SemOf(j[1], j[2]) = s
    BY <1>5, <1>6
  <2> HIDE DEF E
  <2>2. Bound(j[1], {j[2]}) BY <2>1 DEF Entries
  <2> DEFINE y == Index(j[1], SEMMNI)
  <2>3. j[1] \in Semid /\ j[2] \in Semnum /\ j = <<j[1], j[2]>> BY <2>1 DEF UndoKey
  <2>4. y \in SetIndex BY <2>3, IdFacts
  <2>5. sema[y].alloc /\ sema[y].seq = Gen(j[1]) BY <2>1 DEF Semconv, Valid, Gen
  <2>6. sema[y].seq \in Nat BY <2>4 DEF SetInv, SetTypes, HeaderType
  <2>7. j[2] < sema[y].nsems BY <2>2, <2>5, <2>6 DEF Bound
  <2>8. s = sema[y].base + j[2] BY <2>1 DEF SemOf, Header
  <2>9. IdOf(sema, y, SEMMNI) = j[1] BY <2>1, <2>3, IdValid DEF SetInv
  <2>10. Member(y, j[2]) BY <2>3, <2>4, <2>5, <2>7 DEF Member
  <2> HIDE DEF y
  <2> QED BY <2>3, <2>8, <2>9, <2>10
<1>7. ASSUME NEW x, NEW n, Member(x, n) PROVE BalAt(x, n)'
  <2> DEFINE s == sema[x].base + n
             k == <<IdOf(sema, x, SEMMNI), n>>
  <2>1. s \in SemIndex /\ k \in UndoKey /\ x \in SetIndex /\ sema[x].alloc
    BY <1>0, <1>7, MemberFacts
  <2>2. E(s) \subseteq {k}
    <3> SUFFICES ASSUME NEW j \in E(s) PROVE j = k OBVIOUS
    <3>1. PICK y, m : /\ Member(y, m) /\ s = sema[y].base + m
                      /\ j = <<IdOf(sema, y, SEMMNI), m>>
      BY <1>6
    <3>2. x = y /\ n = m BY <1>0, <1>7, <3>1, MembersApart
    <3> QED BY <3>1, <3>2
  <2>3. Semconv(k[1]) /\ SemOf(k[1], k[2]) = s
    <3>1. /\ Index(IdOf(sema, x, SEMMNI), SEMMNI) = x
          /\ Gen(IdOf(sema, x, SEMMNI)) = sema[x].seq
      BY <1>0, <2>1, IdBack DEF SetInv
    <3> QED BY <2>1, <3>1 DEF Semconv, Valid, Gen, SemOf, Header
  <2>4. BalAt(x, n) BY <1>0, <1>7
  <2>5. semval[s] \in Int /\ plain[s] \in Int
    <3> HIDE DEF s
    <3> QED BY <1>2, <2>1, SemAssumption
  <2>6. CASE u # NULL /\ un.aoe[u][k] # 0
    <3>1. k \in E(s) BY <2>1, <2>3, <2>6
    <3>2. E(s) = {k} BY <2>2, <3>1
    <3>3. adj(s) = un.aoe[u][k]
      <4>1. (CHOOSE j \in E(s) : TRUE) = k BY <3>2
      <4> QED BY <4>1
    <3>4. u \in Undo BY <1>3, <2>6
    <3>5. s \in has BY <2>1, <3>1
    <3>6. semval'[s] = (IF s \in done THEN semval[s] + adj(s) ELSE semval[s])
          /\ plain'[s] = (IF s \in done THEN plain[s] ELSE plain[s] - adj(s))
      <4> HIDE DEF adj, has, done, s
      <4> QED BY <1>1, <2>1, <3>5
    <3> HIDE DEF E, adj, has, done, k, s
    <3>7. PICK a \in Int : a = un.aoe[u][k] BY <1>3, <2>1, <3>4
    <3>8. -a \in Int OBVIOUS
    <3>9. semval'[s] + (-a) - plain'[s] = semval[s] - plain[s]
      <4>1. CASE s \in done BY <4>1, <2>5, <3>3, <3>6, <3>7
      <4>2. CASE s \notin done BY <4>2, <2>5, <3>3, <3>6, <3>7
      <4> QED BY <4>1, <4>2
    <3>10. /\ Exited(un, u).aoe[u] = NoEntry /\ SameBut(Exited(un, u), un, u)
      BY <1>4, <3>4, ExitFacts DEF Has
    <3>11. Shifts(un', un, k, -a)
      <4>1. un'.aoe[u][k] = 0 BY <1>1, <2>1, <2>6, <3>10, NoEntryFacts
      <4>2. un'.aoe[u][k] = un.aoe[u][k] + (-a) BY <4>1, <3>7
      <4>3. \A v \in Undo \ {u} : un'.aoe[v][k] = un.aoe[v][k]
        BY <1>1, <2>6, <3>10 DEF SameBut
      <4> QED BY <4>2, <4>3, <3>4 DEF Shifts
    <3> QED BY <1>0, <1>1, <1>7, <2>4, <3>8, <3>9, <3>11, BalKept DEF s, k
  <2>7. CASE ~(u # NULL /\ un.aoe[u][k] # 0)
    <3>1. E(s) = {}
      <4>1. k \notin E(s) BY <2>7, SMTT(30)
      <4> QED BY <2>2, <4>1
    <3>2. s \notin has /\ s \notin done BY <3>1
    <3>3. semval'[s] = semval[s] /\ plain'[s] = plain[s]
      <4> HIDE DEF E, adj, has, done, s
      <4> QED BY <1>1, <2>1, <3>2
    <3> HIDE DEF E, adj, has, done, k, s
    <3>4. semval'[s] + 0 - plain'[s] = semval[s] - plain[s] BY <2>5, <3>3
    <3>5. Shifts(un', un, k, 0)
      <4>1. CASE u = NULL BY <1>1, <4>1 DEF Shifts
      <4>2. CASE u # NULL
        <5>1. u \in Undo /\ un.aoe[u][k] = 0 BY <1>3, <2>7, <4>2
        <5>2. /\ Exited(un, u).aoe[u] = NoEntry /\ SameBut(Exited(un, u), un, u)
          BY <1>4, <5>1, ExitFacts DEF Has
        <5>3. \A v \in Undo : un'.aoe[v][k] = un.aoe[v][k]
          BY <1>1, <2>1, <4>2, <5>1, <5>2, NoEntryFacts DEF SameBut
        <5> QED BY <5>3 DEF Shifts
      <4> QED BY <4>1, <4>2
    <3> QED BY <1>0, <1>1, <1>7, <2>4, <3>4, <3>5, BalKept DEF s, k
  <2> QED BY <2>6, <2>7
<1>8. ASSUME NEW s \in SemIndex, Unowned(s) PROVE plain'[s] = plain[s]
  <2>1. s \notin has
    <3> SUFFICES ASSUME s \in has PROVE FALSE OBVIOUS
    <3>1. PICK j : j \in E(s) OBVIOUS
    <3>2. PICK y, m : Member(y, m) /\ s = sema[y].base + m BY <1>6, <3>1
    <3>3. y \in SetIndex /\ sema[y].alloc /\ s \in SetOf(y) BY <1>0, <3>2, MemberFacts
    <3> QED BY <3>3, <1>8 DEF Unowned
  <2> HIDE DEF adj, has, done
  <2> QED BY <1>1, <2>1
<1> HIDE DEF E, adj, has, done, u
<1> QED BY <1>1, <1>7, <1>8, BalanceMoves

(* Every step keeps the entries exact. *)
LEMMA NextBalance ==
    ASSUME Calm, NoWrap, CallInv, WaitInv, SetInv, UndoOK(un, live), UndoOK(un, live)',
           Entries, Values, Values', Traces, Balance, [Next]_vars
    PROVE  Balance'
<1> USE DEF sets, sems, proc, run
<1>0. Ids BY DEF Balance
<1>t. CallTypes /\ \A p \in Proc : CallOf(p) BY DEF CallInv
<1>h. ASSUME NEW id \in Semid, Semconv(id)
      PROVE  /\ Index(id, SEMMNI) \in SetIndex /\ sema[Index(id, SEMMNI)].alloc
             /\ sema[Index(id, SEMMNI)].base \in Nat
             /\ sema[Index(id, SEMMNI)].nsems \in Nat /\ sema[Index(id, SEMMNI)].nsems <= SEMMSL
             /\ id = IdOf(sema, Index(id, SEMMNI), SEMMNI)
  <2>1. Index(id, SEMMNI) \in SetIndex BY IdFacts
  <2>2. sema[Index(id, SEMMNI)].alloc BY <1>h DEF Semconv, Valid
  <2>3. sema[Index(id, SEMMNI)] \in HeaderType BY <2>1 DEF SetInv, SetTypes
  <2>4. id = IdOf(sema, Index(id, SEMMNI), SEMMNI) BY <1>h, IdValid DEF SetInv
  <2> QED BY <2>1, <2>2, <2>3, <2>4, SemAssumption DEF HeaderType, SemIndex
<1>1. CASE UNCHANGED vars BY <1>1, BalanceSame DEF vars
<1>2. ASSUME NEW p \in Proc, NEW key \in Key, NEW creat \in BOOLEAN, NEW n \in 1 .. SEMMSL,
             Semget(p, key, creat, n)
      PROVE  Balance'
  BY <1>2, SemgetBalance
<1>3. ASSUME NEW p \in Proc, Semctl(p) PROVE Balance'
  <2>1. ASSUME NEW id \in Semid, Rmid(p, id) PROVE Balance'
    BY <2>1, RmidBalance
  <2>2. ASSUME NEW id \in Semid, Ipcset(p, id) PROVE Balance'
    BY <2>2, BalanceSame DEF Ipcset
  <2>3. ASSUME NEW id \in Semid, NEW num \in Semnum, NEW val \in 0 .. SEMVMX,
               Setval(p, id, num, val)
        PROVE  Balance'
    <3> DEFINE x == Index(id, SEMMNI)
               s == SemOf(id, num)
               f == [t \in {s} |-> val]
    <3>1. /\ Semconv(id) /\ num < sema[x].nsems /\ UNCHANGED sema /\ SetVals(f, pc)
          /\ un' = Semunrm(un, id, num, num)
      BY <2>3 DEF Setval, Header
    <3>2. /\ x \in SetIndex /\ sema[x].alloc /\ sema[x].base \in Nat /\ sema[x].nsems \in Nat
          /\ id = IdOf(sema, x, SEMMNI)
      BY <3>1, <1>h
    <3>3. num \in Int /\ s = sema[x].base + num
      BY SemAssumption DEF SemOf, Header, Semnum
    <3>4. s \in SetOf(x)
      BY <3>1, <3>2, <3>3, SemAssumption DEF SetOf, Semnum
    <3> HIDE DEF x, s
    <3>5. {s} \in SUBSET SetOf(x) /\ f \in [{s} -> 0 .. SEMVMX] BY <3>4
    <3>6. ASSUME NEW n, Member(x, n) PROVE sema[x].base + n \in {s} <=> InUnrm(n, num, num)
      <4>1. n \in Int BY <3>6, SemAssumption DEF Member, Semnum
      <4> QED BY <4>1, <3>2, <3>3 DEF InUnrm
    <3> HIDE DEF f
    <3> QED BY <3>1, <3>2, <3>3, <3>5, <3>6, SetBalance
  <2>4. ASSUME NEW id \in Semid, NEW vals \in [Semnum -> 0 .. SEMVMX], Setall(p, id, vals)
        PROVE  Balance'
    <3> DEFINE x == Index(id, SEMMNI)
               f == [s \in SetOf(x) |-> vals[s - sema[x].base]]
    <3>1. Semconv(id) /\ SetAllVals(id, vals, pc) /\ UNCHANGED sema
      BY <2>4 DEF Setall, Faults, Calm
    <3>2. SetVals(f, pc) /\ un' = Semunrm(un, id, 0, sema[x].nsems) BY <3>1 DEF SetAllVals
    <3>3. /\ x \in SetIndex /\ sema[x].alloc /\ sema[x].base \in Nat /\ sema[x].nsems \in Nat
          /\ sema[x].nsems <= SEMMSL /\ id = IdOf(sema, x, SEMMNI)
      BY <3>1, <1>h
    <3> HIDE DEF x
    <3>4. ASSUME NEW s \in SetOf(x) PROVE s - sema[x].base \in Semnum
      <4>1. s \in Nat /\ sema[x].base <= s /\ s <= sema[x].base + sema[x].nsems - 1
        BY <3>3 DEF SetOf
      <4>2. SEMMSL \in Nat BY SemAssumption
      <4>3. sema[x].base \in Nat /\ sema[x].nsems \in Nat /\ sema[x].nsems <= SEMMSL BY <3>3
      <4> HIDE DEF x, f
      <4> QED BY <4>1, <4>2, <4>3 DEF Semnum
    <3>5. SetOf(x) \in SUBSET SetOf(x) /\ f \in [SetOf(x) -> 0 .. SEMVMX] BY <3>4
    <3>6. ASSUME NEW n, Member(x, n)
          PROVE  sema[x].base + n \in SetOf(x) <=> InUnrm(n, 0, sema[x].nsems)
      <4>1. n \in Nat /\ n < sema[x].nsems BY <3>6, SemAssumption DEF Member, Semnum
      <4>2. sema[x].base + n \in SetOf(x) BY <4>1, <3>3 DEF SetOf
      <4> QED BY <4>1, <4>2, <3>3 DEF InUnrm
    <3>7. 0 \in Int /\ sema[x].nsems \in Int BY <3>3
    <3> HIDE DEF f
    <3> QED BY <3>1, <3>2, <3>3, <3>5, <3>6, <3>7, SetBalance
  <2> QED BY <1>3, <2>1, <2>2, <2>3, <2>4 DEF Semctl
<1>4. ASSUME NEW p \in Proc, NEW id \in Semid, NEW ops \in Ops, Semop(p, id, ops)
      PROVE  Balance'
  BY <1>4, BalanceSame DEF Semop
<1>5. ASSUME NEW p \in Proc, SemopStep(p) PROVE Balance'
  <2>1. CASE OpApplies(p) BY <2>1, ApplyBalance
  <2>2. CASE SemundoStep(p)
    <3>1. Traced(p) BY <2>2 DEF Traces, SemundoStep, Running
    <3> QED BY <2>2, <3>1, UndoBack
  <2>3. CASE OpFails(p)
    <3> DEFINE r == Adjust(p, Doing.op)
               k == <<call[p].id, Doing.num>>
    <3>1. /\ Running(p, "check") /\ i <= Len(semtmp) /\ UNCHANGED <<sema, semval, plain>>
          /\ un' = un \/ (r.fails /\ un' = r.un)
      BY <2>3 DEF OpFails
    <3>2. cpu = p /\ i \in 1 .. Len(semtmp)
      BY <1>t, <3>1 DEF Running, CallOf, CallTypes
    <3>3. Doing.op \in Int BY <3>2, OpFacts
    <3>4. /\ \A u \in Undo, j \in UndoKey \ {k} : r.un.aoe[u][j] = un.aoe[u][j]
          /\ r.fails \/ ~Doing.undo => Shifts(r.un, un, k, 0)
      BY <3>2, <3>3, AdjustEntry
    <3>5. PICK y : /\ Member(y, Doing.num) /\ At(p) = sema[y].base + Doing.num
                   /\ call[p].id = IdOf(sema, y, SEMMNI)
      BY <1>0, <3>2, AtMember
    <3>6. CASE un' = un BY <3>1, <3>6, BalanceSame
    <3>7. CASE r.fails /\ un' = r.un
      <4>1. k = <<IdOf(sema, y, SEMMNI), Doing.num>> BY <3>5
      <4> HIDE DEF k, r
      <4>2. PICK s : s = At(p) OBVIOUS
      <4>3. s \in SemIndex BY <1>0, <3>5, <4>2, MemberFacts
      <4>4. semval[s] \in Int /\ plain[s] \in Int BY <4>3, SemAssumption DEF Values, Vals
      <4>5. semval'[s] + 0 - plain'[s] = semval[s] - plain[s] BY <3>1, <4>4
      <4>6. Shifts(un', un, k, 0) BY <3>4, <3>7
      <4>7. \A u \in Undo, j \in UndoKey \ {k} : un'.aoe[u][j] = un.aoe[u][j] BY <3>4, <3>7
      <4>8. \A t \in SemIndex \ {s} : semval'[t] = semval[t] /\ plain'[t] = plain[t] BY <3>1
      <4>9. UNCHANGED sema /\ s = sema[y].base + Doing.num /\ 0 \in Int BY <3>1, <3>5, <4>2
      <4> QED BY <3>5, <4>1, <4>5, <4>6, <4>7, <4>8, <4>9, BalanceOne
    <3> QED BY <3>1, <3>6, <3>7
  <2>4. CASE OpPasses(p) \/ OpWaits(p) \/ OpsDone(p) \/ SemundoDone(p)
    <3>1. UNCHANGED <<sema, semval, plain, un>>
      BY <2>4 DEF OpPasses, OpWaits, OpsDone, SemundoDone
    <3> QED BY <3>1, BalanceSame
  <2> QED BY <1>5, <2>1, <2>2, <2>3, <2>4 DEF SemopStep
<1>6. ASSUME NEW p \in Proc, Continue(p) PROVE Balance'
  <2>1. Resume(p)
    BY <1>6, <1>t DEF Continue, SemopFaulted, ResumeFaulted, SetallFaulted, IpcsetFaulted, CallOf
  <2>2. UNCHANGED <<sema, semval, plain, un>> BY <2>1 DEF Resume
  <2> QED BY <2>2, BalanceSame
<1>7. ASSUME NEW p \in Proc, Signal(p) PROVE Balance'
  BY <1>7, BalanceSame DEF Signal
<1>8. ASSUME NEW p \in Proc, Exit(p) PROVE Balance'
  BY <1>8, ExitBalance
<1>9. CASE \E p \in Proc : Fork(p) BY <1>9 DEF Fork, Calm
<1> QED BY <1>1, <1>2, <1>3, <1>4, <1>5, <1>6, <1>7, <1>8, <1>9 DEF Next

(* seminit. *)
LEMMA InitBalance == Init => Balance
<1> SUFFICES ASSUME Init PROVE Balance OBVIOUS
<1>1. Ids
  <2> SUFFICES ASSUME NEW x \in SetIndex PROVE IdOf(sema, x, SEMMNI) <= IntMax BY DEF Ids
  <2>1. sema[x].seq = 0 BY DEF Init
  <2>2. x \in Nat /\ x <= SEMMNI - 1 /\ SEMMNI \in Nat /\ IntMax \in Nat /\ SEMMNI - 1 <= IntMax
    BY SemAssumption DEF SetIndex
  <2> QED BY <2>1, <2>2 DEF IdOf
<1>2. \A s \in SemIndex : plain[s] = 0 BY DEF Init
<1>3. \A x, n : ~Member(x, n) BY DEF Init, Member
<1> QED BY <1>1, <1>2, <1>3 DEF Balance

(* v is the values while a list is replayed: each is made of those before. *)
Replays(v, a, id, ops, n) ==
    v = [k \in 0 .. n |->
           IF k = 0 THEN a ELSE [v[k - 1] EXCEPT ![SemOf(id, ops[k].num)] = @ + ops[k].op]]

(* A list can be replayed on any values. *)
LEMMA ReplayExists ==
    ASSUME NEW a, NEW n \in Nat, NEW id, NEW ops
    PROVE  \E v : Replays(v, a, id, ops, n)
<1> DEFINE D(f, k) == [f EXCEPT ![SemOf(id, ops[k].num)] = @ + ops[k].op]
           Q(m) == \E v : v = [k \in 0 .. m |-> IF k = 0 THEN a ELSE D(v[k - 1], k)]
           S == {m \in Nat : ~Q(m)}
<1> HIDE DEF D
<1>0. Q(n)
  <2>1. SUFFICES ASSUME n \in S PROVE FALSE OBVIOUS
  <2>2. S \in SUBSET Nat OBVIOUS
  <2>3. PICK m \in S : \A z \in S : m <= z
    <3> HIDE DEF S
    <3> QED BY <2>1, <2>2, Least
  <2>4. m \in Nat /\ ~Q(m) OBVIOUS
  <2>5. CASE m = 0
    <3> DEFINE v == [k \in 0 .. m |-> a]
    <3>1. v = [k \in 0 .. m |-> IF k = 0 THEN a ELSE D(v[k - 1], k)] BY <2>5
    <3> QED BY <2>4, <3>1
  <2>6. CASE m # 0
    <3>1. m - 1 \in Nat /\ ~(m <= m - 1) BY <2>4, <2>6
    <3>2. Q(m - 1) BY <2>3, <3>1
    <3>3. PICK w : w = [k \in 0 .. m - 1 |-> IF k = 0 THEN a ELSE D(w[k - 1], k)] BY <3>2
    <3> DEFINE v == [k \in 0 .. m |-> IF k = m THEN D(w[m - 1], m) ELSE w[k]]
    <3>4. \A k \in 0 .. m : v[k] = IF k = 0 THEN a ELSE D(v[k - 1], k)
      <4> SUFFICES ASSUME NEW k \in 0 .. m PROVE v[k] = IF k = 0 THEN a ELSE D(v[k - 1], k)
        OBVIOUS
      <4>1. CASE k = m
        <5>1. v[k - 1] = w[m - 1] BY <2>4, <2>6, <4>1
        <5> QED BY <2>4, <2>6, <4>1, <5>1
      <4>2. CASE k # m
        <5>1. k \in 0 .. m - 1 /\ v[k] = w[k] BY <2>4, <4>2
        <5>2. w[k] = IF k = 0 THEN a ELSE D(w[k - 1], k) BY <3>3, <5>1
        <5>3. k # 0 => v[k - 1] = w[k - 1] BY <2>4, <5>1
        <5> QED BY <5>1, <5>2, <5>3
      <4> QED BY <4>1, <4>2
    <3>5. v = [k \in 0 .. m |-> v[k]] OBVIOUS
    <3> HIDE DEF v
    <3>6. v = [k \in 0 .. m |-> IF k = 0 THEN a ELSE D(v[k - 1], k)] BY <3>4, <3>5
    <3> QED BY <2>4, <3>6
  <2> QED BY <2>5, <2>6
<1> QED BY <1>0 DEF D, Replays

(* A process that is stuck cannot do all its operations. *)
LEMMA StuckIsBlocked ==
    ASSUME CallInv, SetInv, semval \in Vals, NEW p \in Proc, pc[p] = "asleep",
           Singly(call[p].ops), Stuck(p, semval)
    PROVE  ~Satisfied(p)
<1> DEFINE ops == call[p].ops
           n == Len(ops)
           id == call[p].id
           val == CHOOSE v : v = [k \in 0 .. n |->
                     IF k = 0 THEN semval
                     ELSE [v[k - 1] EXCEPT ![SemOf(id, ops[k].num)] = @ + ops[k].op]]
<1>1. call[p] \in CallType BY DEF CallInv, CallTypes
<1>2. ops \in Seq(Op) /\ id \in Semid /\ n \in Nat BY <1>1 DEF CallType
<1>3. val = [k \in 0 .. n |->
               IF k = 0 THEN semval
               ELSE [val[k - 1] EXCEPT ![SemOf(id, ops[k].num)] = @ + ops[k].op]]
  <2> HIDE DEF ops, n, id
  <2>1. \E v : Replays(v, semval, id, ops, n) BY <1>2, ReplayExists
  <2> QED BY <2>1, Zenon DEF Replays
<1>4. Satisfied(p) <=>
        \A k \in 1 .. n :
            LET v == val[k - 1][SemOf(id, ops[k].num)]
            IN  IF ops[k].op = 0 THEN v = 0 ELSE v + ops[k].op \in 0 .. SEMVMX
  BY DEF Satisfied
<1> HIDE DEF val
<1>5. PICK j \in 1 .. n :
         chan[p] = ChanOf(id, ops[j]) /\ Blocks(ops[j], semval[SemOf(id, ops[j].num)])
  BY DEF Stuck
<1> DEFINE s == SemOf(id, ops[j].num)
<1> HIDE DEF ops, n, id
<1>6. \A k \in 1 .. n : ops[k] \in Op /\ ops[k].num \in Int /\ ops[k].op \in Int
  <2>1. \A k \in 1 .. n : ops[k] \in Op BY <1>2 DEF n
  <2> QED BY <2>1, SemAssumption DEF Op, Semnum
<1>7. Header(id).base \in Int
  <2>1. Index(id, SEMMNI) \in SetIndex BY <1>2, IdFacts
  <2> QED BY <2>1, SemAssumption DEF SetInv, SetTypes, HeaderType, Header, SemIndex
<1>8. \A k \in 1 .. n : k # j => SemOf(id, ops[k].num) # s
  <2> SUFFICES ASSUME NEW k \in 1 .. n, k # j PROVE SemOf(id, ops[k].num) # s OBVIOUS
  <2>1. ops[k].num # ops[j].num BY <1>5 DEF Singly, ops, n
  <2> QED BY <2>1, <1>6, <1>7 DEF SemOf
<1>9. s \in SemIndex
  <2>1. chan[p] \in WaitsAt(id) /\ Semconv(id) BY DEF SetInv, Caller, id
  <2>2. s \in SetOf(Index(id, SEMMNI)) BY <2>1, <1>5 DEF WaitsAt, ChanOf
  <2>3. Index(id, SEMMNI) \in SetIndex /\ sema[Index(id, SEMMNI)].alloc
    BY <2>1, <1>2, IdFacts DEF Semconv, Valid
  <2> QED BY <2>2, <2>3 DEF SetInv, SetOK
<1> HIDE DEF s
<1>10. \A k \in 0 .. n : val[k] = IF k = 0 THEN semval
          ELSE [val[k - 1] EXCEPT ![SemOf(id, ops[k].num)] = @ + ops[k].op]
  BY <1>3
<1>11. val[j - 1][s] = semval[s]
  <2> DEFINE S == {k \in Nat : k <= j - 1 /\ ~(s \in DOMAIN val[k] /\ val[k][s] = semval[s])}
  <2>1. S = {}
    <3> SUFFICES ASSUME NEW x \in S PROVE FALSE OBVIOUS
    <3>1. S \in SUBSET Nat OBVIOUS
    <3>2. PICK k \in S : \A z \in S : k <= z
      <4> HIDE DEF S
      <4> QED BY <3>1, Least
    <3>3. k \in Nat /\ k <= j - 1 /\ ~(s \in DOMAIN val[k] /\ val[k][s] = semval[s]) OBVIOUS
    <3>4. k # 0
      <4>0. 0 \in 0 .. n BY <1>2 DEF n
      <4>1. val[0] = semval BY <4>0, <1>10
      <4>2. s \in DOMAIN semval BY <1>9 DEF Vals
      <4> QED BY <3>3, <4>1, <4>2
    <3>5. k \in 1 .. n /\ k # j /\ k \in 0 .. n /\ k - 1 \in Nat BY <1>2, <1>5, <3>3, <3>4 DEF n
    <3>6. k - 1 \notin S BY <3>2, <3>5
    <3>7. s \in DOMAIN val[k - 1] /\ val[k - 1][s] = semval[s]
      <4>1. k - 1 <= j - 1 BY <3>3, <3>5, <1>5, <1>2 DEF n
      <4> QED BY <3>5, <3>6, <4>1
    <3>8. val[k] = [val[k - 1] EXCEPT ![SemOf(id, ops[k].num)] = @ + ops[k].op]
      BY <1>10, <3>4, <3>5
    <3>9. SemOf(id, ops[k].num) # s BY <1>8, <3>5
    <3> HIDE DEF S
    <3>10. s \in DOMAIN val[k] /\ val[k][s] = val[k - 1][s] BY <3>7, <3>8, <3>9
    <3> QED BY <3>3, <3>7, <3>10
  <2>2. j - 1 \in Nat BY <1>5, <1>2 DEF n
  <2>3. j - 1 \notin S BY <2>1
  <2> QED BY <2>2, <2>3
<1>12. semval[s] \in Int BY <1>9, SemAssumption DEF Vals
<1>13. Blocks(ops[j], semval[s]) /\ ops[j].op \in Int BY <1>5, <1>6 DEF s
<1>14. SUFFICES ASSUME Satisfied(p) PROVE FALSE OBVIOUS
<1>15. IF ops[j].op = 0 THEN val[j - 1][s] = 0 ELSE val[j - 1][s] + ops[j].op \in 0 .. SEMVMX
  BY <1>4, <1>5, <1>14 DEF ops, n, id, s
<1> QED BY <1>11, <1>12, <1>13, <1>15, SemAssumption DEF Blocks

-----------------------------------------------------------------------------

(* The inductive invariant. *)
SemInv ==
    /\ WaitInv /\ CallInv /\ chan \in [Proc -> Chan \cup {NULL}] /\ SetInv
    /\ UndoOK(un, live) /\ Entries /\ Values /\ Traces /\ Sleepers
    /\ Balance

(* The inductive invariant holds, for any number of processes, sets, undo  *)
(* structures and any operation lists, when no copyin faults, no process   *)
(* slot is used twice and no identifier wraps around.                      *)
THEOREM SemInvariant == ASSUME Calm, NoWrap PROVE Spec => []SemInv
<1>1. Init => SemInv
  <2> SUFFICES ASSUME Init PROVE SemInv OBVIOUS
  <2>1. WaitInv /\ CallInv /\ SetInv /\ UndoOK(un, live)
    BY InitWait, InitCall, InitSets, InitUndo
  <2>2. chan \in [Proc -> Chan \cup {NULL}] BY DEF Init
  <2>3. Entries
    <3>1. un.aoe = [u \in Undo |-> NoEntry] BY DEF Init
    <3> QED BY <3>1, NoEntryFacts DEF Entries
  <2>4. Values BY SemAssumption DEF Init, Values, Vals
  <2>5. Traces BY SemAssumption DEF Init, Traces
  <2>6. Sleepers
    <3>1. Idle BY DEF Init, Idle, Pending
    <3>2. Turned BY DEF Init, Turned, Running
    <3>3. Singly(NoCall.ops) BY DEF Singly, NoCall
    <3>4. Lists1 BY <3>3 DEF Init, Lists1
    <3> QED BY <3>1, <3>2, <3>4 DEF Sleepers
  <2>7. Balance BY InitBalance
  <2> QED BY <2>1, <2>2, <2>3, <2>4, <2>5, <2>6, <2>7 DEF SemInv
<1>2. SemInv /\ [Next]_vars => SemInv'
  <2> SUFFICES ASSUME SemInv, [Next]_vars PROVE SemInv' OBVIOUS
  <2>1. /\ WaitInv /\ CallInv /\ chan \in [Proc -> Chan \cup {NULL}] /\ SetInv
        /\ UndoOK(un, live) /\ Entries /\ Values /\ Traces /\ Sleepers /\ Balance
    BY DEF SemInv
  <2>2. InTable BY <2>1, StaysInTable
  <2>3. WaitInv' BY <2>1, <2>2, NextWait
  <2>4. CallInv' BY <2>1, NextCall
  <2>5. SetInv' /\ chan' \in [Proc -> Chan \cup {NULL}] BY <2>1, NextSets
  <2>6. \A x \in SetIndex : sema[x].nsems \in Nat
    BY <2>1, SemAssumption DEF SetInv, SetTypes, HeaderType
  <2>7. UndoOK(un, live)' BY <2>1, <2>6, NextUndo
  <2>8. Entries' BY <2>1, NextEntries
  <2>9. Values' /\ Traces' /\ Sleepers' BY <2>1, NextValues
  <2>10. Balance' BY <2>1, <2>7, <2>9, NextBalance
  <2> QED BY <2>3, <2>4, <2>5, <2>7, <2>8, <2>9, <2>10 DEF SemInv
<1> QED BY <1>1, <1>2, PTL DEF Spec

(* The tables of sem.c keep their types; in particular no sequence of      *)
(* semop, semctl and exit takes a value out of 0 .. SEMVMX.                *)
THEOREM SemTypes == ASSUME Calm, NoWrap PROVE Spec => []TypeOK
<1>1. SemInv => TypeOK
  <2> SUFFICES ASSUME SemInv PROVE TypeOK OBVIOUS
  <2>1. sema \in [SetIndex -> [alloc : BOOLEAN, key : Key, seq : Nat,
                               base : SemIndex, nsems : 0 .. SEMMSL]]
    BY DEF SemInv, SetInv, SetTypes, HeaderType
  <2>2. semmap \in MapType BY DEF SemInv, SetInv, MapOK, Shape
  <2>3. semval \in [SemIndex -> 0 .. SEMVMX] /\ plain \in [SemIndex -> Int]
    BY DEF SemInv, Values, Vals
  <2>4. cnt \in [Chan -> Nat] /\ un \in UndoType
    BY DEF SemInv, WaitInv, WaitTypes, UndoOK
  <2>5. /\ semtmp \in Seq(Op) /\ live \in [Proc -> BOOLEAN] /\ call \in [Proc -> CallType]
        /\ pc \in [Proc -> {"user", "fault", "check", "undo", "asleep", "woken"}]
        /\ sig \in [Proc -> BOOLEAN] /\ cpu \in Proc \cup {NULL} /\ i \in Nat
        /\ after \in {"sleep", "fail"}
    BY DEF SemInv, CallInv, CallTypes, Where
  <2>6. chan \in [Proc -> Chan \cup {NULL}] BY DEF SemInv
  <2> QED BY <2>1, <2>2, <2>3, <2>4, <2>5, <2>6 DEF TypeOK
<1> QED BY <1>1, SemInvariant, PTL

(* The tables keep their types, the undo structures are on the lists they  *)
(* belong to, and the entries of all processes account for exactly what    *)
(* was done under SEM_UNDO: semop, semundo, semctl and semexit forget no   *)
(* adjustment and make none twice.                                         *)
THEOREM TablesStaySound == ASSUME Calm, NoWrap PROVE Spec => []TablesSound
<1>1. SemInv => UndoLists BY ListsFollow DEF SemInv
<1>2. SemInv => UndoBalance
  <2> SUFFICES ASSUME SemInv, NEW x \in SetIndex, sema[x].alloc,
                      NEW n \in 0 .. sema[x].nsems - 1
               PROVE  BalAt(x, n)
    BY DEF UndoBalance, BalAt, Col
  <2>1. sema[x].nsems \in Nat /\ sema[x].nsems <= SEMMSL /\ SEMMSL \in Nat
    BY SemAssumption DEF SemInv, SetInv, SetTypes, HeaderType
  <2>2. n \in Semnum /\ n < sema[x].nsems BY <2>1 DEF Semnum
  <2> QED BY <2>2 DEF SemInv, Balance, Member
<1> QED BY <1>1, <1>2, SemTypes, SemInvariant, PTL DEF TablesSound

(* A semop that fails or goes to sleep has left all values and all of its  *)
(* undo entries as it found them: semundo exactly reverses what the loop   *)
(* did, semaoe's limits included.                                          *)
THEOREM NothingHalfDone == ASSUME Calm, NoWrap PROVE Spec => []AllOrNothing
<1>1. SemInv => AllOrNothing
  <2> SUFFICES ASSUME SemInv, NEW p \in Proc, Running(p, "undo"), i = 0
               PROVE  semval = snap.val /\ Aoe(un, p) = snap.aoe
    BY DEF AllOrNothing
  <2>1. Traced(p) /\ Done(p) = 0 BY DEF SemInv, Traces, Running, Done
  <2>2. PICK h \in [0 .. Len(semtmp) -> Vals], g \in [0 .. Len(semtmp) -> [UndoKey -> Int]] :
           Follows(p, h, g)
    BY <2>1 DEF Traced
  <2> QED BY <2>1, <2>2 DEF Follows
<1> QED BY <1>1, SemInvariant, PTL

(* Whoever sleeps in semop cannot do its operations with the present       *)
(* values, if no list names a semaphore twice: every change that could     *)
(* let a sleeper go on wakes it.                                           *)
THEOREM SleepersAreBlocked == ASSUME Calm, NoWrap, Single PROVE Spec => []SleepsOnlyIfBlocked
<1>1. SemInv => SleepsOnlyIfBlocked
  <2> SUFFICES ASSUME SemInv, cpu = NULL, NEW p \in Proc, pc[p] = "asleep" PROVE ~Satisfied(p)
    BY DEF SleepsOnlyIfBlocked
  <2>1. Singly(call[p].ops) /\ Stuck(p, semval)
    BY DEF SemInv, Sleepers, Idle, Pending, Lists1
  <2> QED BY <2>1, StuckIsBlocked DEF SemInv, Values
<1> QED BY <1>1, SemInvariant, PTL

(* Nobody sleeps on a set that is gone: IPC_RMID wakes all its sleepers,   *)
(* and a sleeper's channel is a count of its own set.                      *)
THEOREM NobodyOrphaned == ASSUME Calm, NoWrap PROVE Spec => []NoOrphanSleeper
<1>1. SemInv => NoOrphanSleeper
  BY DEF SemInv, SetInv, Caller, WaitsAt, NoOrphanSleeper
<1> QED BY <1>1, SemInvariant, PTL

(* No wakeup is lost: whoever sleeps is counted, so that the next wakeup   *)
(* of its channel, made only if the count is not 0, will be made.          *)
THEOREM NobodyForgotten == ASSUME Calm, NoWrap PROVE Spec => []NoLostWakeup
<1>1. SemInv => NoLostWakeup BY DEF SemInv, WaitInv, Waits, NoLostWakeup
<1> QED BY <1>1, SemInvariant, PTL

(* Undo structures are private to a process, and are free or on the list   *)
(* semunp just when they should be, whatever semaoe, semunrm and semexit   *)
(* did before.                                                             *)
THEOREM UndoStructuresKept == ASSUME Calm, NoWrap PROVE Spec => [](UndoLists /\ UndoPrivate)
<1>1. SemInv => UndoLists /\ UndoPrivate BY ListsFollow DEF SemInv
<1> QED BY <1>1, SemInvariant, PTL

(* semop's loops run their own caller's operations on a set that exists,   *)
(* although there is one semtmp for all.                                   *)
THEOREM OwnOperations == ASSUME Calm, NoWrap PROVE Spec => [](OwnOps /\ NotStale)
<1>1. SemInv => OwnOps /\ NotStale
  BY DEF SemInv, CallInv, CallOf, SetInv, Caller, OwnOps, NotStale
<1> QED BY <1>1, SemInvariant, PTL

(* Sets never share a semaphore, and every semaphore in no set is free and *)
(* zero, if the map has an entry for every second semaphore: rmfree then   *)
(* never has to drop what it is given.                                     *)
THEOREM SetsStayDisjoint == ASSUME Calm, NoWrap, Roomy PROVE Spec => []SetsDisjoint
<1>1. Init => FreeKept BY InitFree
<1>2. SemInv /\ FreeKept /\ [Next]_vars => FreeKept' BY NextFree DEF SemInv
<1>3. SemInv /\ FreeKept => SetsDisjoint
  <2> SUFFICES ASSUME SemInv, FreeKept PROVE SetsDisjoint OBVIOUS
  <2> DEFINE used == {x \in SetIndex : sema[x].alloc}
  <2>1. \A x \in used : SetOf(x) \cap FreeUnits(semmap) = {} BY DEF SemInv, SetInv, SetOK
  <2>2. \A x, y \in used : x # y => SetOf(x) \cap SetOf(y) = {} BY DEF SemInv, SetInv, Apart
  <2>3. ASSUME NEW s \in SemIndex, s \notin UNION {SetOf(x) : x \in used} PROVE Unowned(s)
    BY <2>3 DEF Unowned
  <2>4. \A s \in SemIndex \ UNION {SetOf(x) : x \in used} :
           s \in FreeUnits(semmap) /\ semval[s] = 0
    BY <2>3 DEF FreeKept, SemInv, Values
  <2> QED BY <2>1, <2>2, <2>4 DEF SetsDisjoint
<1> QED BY <1>1, <1>2, <1>3, SemInvariant, PTL DEF Spec

===============================================================================
