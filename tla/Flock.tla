-------------------------------- MODULE Flock --------------------------------
(***************************************************************************)
(* File and record locking, os/flock.c: reclock (fcntl F_SETLK, F_SETLKW,  *)
(* F_GETLK and, through chklock, every read and write of a file with       *)
(* mandatory locks), deadlock detection, and the cleanup at close.         *)
(*                                                                         *)
(* The kernel is not preempted and insflck does not wait for memory, so a  *)
(* call runs without interruption until it returns or sleeps on the lock   *)
(* that blocks it; each of these pieces is one step.  The loop of flckadj  *)
(* is a function of the records visited.  Calls that fail before they      *)
(* reach the lock list, F_GETLK and a chklock that need not wait change    *)
(* nothing and are not steps; what they answer is Convert and Blocked.     *)
(*                                                                         *)
(* An owner (l_pid, l_sysid) is a process.  In place of its address, which *)
(* is also the channel slept on, a record is known by its owner and its    *)
(* start: no two in a list share them (ListCanonical), a record never      *)
(* changes them, and sleepers do not look at the record again.             *)
(***************************************************************************)
EXTENDS Integers, Sequences, FiniteSets, FiniteSetsExt, SequencesExt

CONSTANTS Proc,        \* the processes, and as l_pid the owners of locks
          Remote,      \* those that act for one other machine (l_sysid)
          Vnode,
          NULL,
          MAXEND,      \* the last offset, and the largest long
          Size,        \* va_size of the files
          Requests,    \* calls made: [type, whence, start, len, cmd]
          Offset       \* the file offset of every process

F_RDLCK == "F_RDLCK"
F_WRLCK == "F_WRLCK"
F_UNLCK == "F_UNLCK"

ASSUME FlockAssumption ==
    /\ MAXEND \in Nat /\ Size \in 0 .. MAXEND /\ Offset \in 0 .. MAXEND
    /\ Remote \subseteq Proc /\ NULL \notin Proc \cup (Proc \X (0 .. MAXEND))
    /\ Requests \subseteq [type : {F_RDLCK, F_WRLCK, F_UNLCK}, whence : 0 .. 2,
                           start : -(MAXEND + 1) .. MAXEND, len : -(MAXEND + 1) .. MAXEND,
                           cmd : SUBSET {"SETFLCK", "SLPFLCK"}]

Byte == 0 .. MAXEND
Lock == [own : Proc, type : {F_RDLCK, F_WRLCK, F_UNLCK}, start : Byte, end : Byte]
Filock == [own : Proc, type : {F_RDLCK, F_WRLCK}, start : Byte, end : Byte,
           wakeflg : BOOLEAN]
Rec == Proc \X Byte              \* stands for the address of a record

(* cmd: SETFLCK asks for the lock, SLPFLCK to wait for it.  F_SETLK,       *)
(* F_SETLKW, F_GETLK (or a chklock of a file opened with O_NDELAY), and    *)
(* chklock.                                                                *)
Cmd == SUBSET {"SETFLCK", "SLPFLCK"}

VARIABLES
    v_filocks, \* v_filocks[v]: the list of the locks of a file
    blk,       \* blk[p]: stat.blk of p's entry in sleeplcks, NULL without one
    pc,        \* "user", "asleep" or "woken"
    chan,      \* chan[p]: the record p sleeps on
    call,      \* call[p]: the file, lock and command of p's reclock
    sig        \* sig[p]: a signal is pending

vars == <<v_filocks, blk, pc, chan, call, sig>>

NoCall == NULL

Init ==
    /\ v_filocks = [v \in Vnode |-> <<>>]
    /\ blk = [p \in Proc |-> NULL]
    /\ pc = [p \in Proc |-> "user"]
    /\ chan = [p \in Proc |-> NULL]
    /\ call = [p \in Proc |-> NoCall]
    /\ sig = [p \in Proc |-> FALSE]

(***************************************************************************)
(* The arguments: convoff and the conversion of l_len to l_end.            *)
(***************************************************************************)
Long(n) == IF n > MAXEND THEN n - 2 * (MAXEND + 1) ELSE n   \* a sum of longs

Convoff(r) == Long(r.start + (CASE r.whence = 0 -> 0
                                [] r.whence = 1 -> Offset
                                [] r.whence = 2 -> Size))

(* The lock p asks for, or NULL: EINVAL. *)
Convert(p, r) ==
    LET start == Convoff(r)
        end   == IF r.len = 0 THEN MAXEND ELSE Long(r.len + (start - 1))
    IN  IF start < 0 \/ r.len < 0 \/ start > end THEN NULL
        ELSE [own |-> p, type |-> r.type, start |-> start, end |-> end]

(***************************************************************************)
(* The list                                                                *)
(***************************************************************************)
Id(f)          == <<f.own, f.start>>
IndexOf(L, id) == IF id = NULL THEN 0 ELSE CHOOSE k \in DOMAIN L : Id(L[k]) = id
IdAt(L, k)     == IF k \in DOMAIN L THEN Id(L[k]) ELSE NULL
PrevOf(L, id)  == IdAt(L, IndexOf(L, id) - 1)

(* f and the lock l cannot both be held. *)
Excludes(f, l) == f.own # l.own /\ (f.type = F_WRLCK \/ l.type = F_WRLCK)

(* Mutant: the second scan stops one lock early. *)
BlockedShort(L, l) ==
    LET n       == Len(L)
        hit(k)  == l.start <= L[k].end /\ Excludes(L[k], l)
        own(k)  == L[k].own = l.own /\ l.start - 1 <= L[k].end
        first   == Min({n + 1} \cup {k \in 1 .. n : L[k].start >= l.start \/ own(k) \/ hit(k)})
        past(k) == l.end <= L[k].start
        second  == Min({n + 1} \cup {k \in first .. n : past(k) \/ hit(k)})
        stop    == IF first <= n /\ L[first].start < l.start THEN first ELSE first - 1
    IN  [insrt |-> IdAt(L, stop),
         found |-> IF second <= n /\ past(second) THEN NULL ELSE IdAt(L, second)]

(* blocked(): the first lock of another owner that excludes l, and where   *)
(* flckadj is to start.  The first scan ends at the first lock that starts *)
(* at l_start or behind, at a lock of the same owner that l overlaps or    *)
(* adjoins, or at a lock that blocks; the second goes on from there.       *)
Blocked(L, l) ==
    LET n       == Len(L)
        hit(k)  == l.start <= L[k].end /\ Excludes(L[k], l)
        own(k)  == L[k].own = l.own /\ l.start - 1 <= L[k].end
        first   == Min({n + 1} \cup {k \in 1 .. n : L[k].start >= l.start \/ own(k) \/ hit(k)})
        past(k) == l.end < L[k].start
        second  == Min({n + 1} \cup {k \in first .. n : past(k) \/ hit(k)})
        stop    == IF first <= n /\ L[first].start < l.start THEN first ELSE first - 1
    IN  [insrt |-> IdAt(L, stop),
         found |-> IF second <= n /\ past(second) THEN NULL ELSE IdAt(L, second)]

(* regflck(): where l starts and ends relative to f. *)
Regflck(l, f) ==
    IF l.start > f.start /\ l.start - 1 = f.end THEN <<"S_END", "E_AFTER">>
    ELSE IF l.start > f.start /\ l.start > f.end THEN <<"S_AFTER", "E_AFTER">>
    ELSE << CASE l.start > f.start -> "S_MIDDLE"
              [] l.start = f.start -> "S_START"
              [] l.start < f.start -> "S_BEFORE",
            CASE l.end = f.end -> "E_END"
              [] l.end > f.end -> "E_AFTER"
              [] l.end < f.end /\ l.end = f.start - 1 -> "E_START"
              [] l.end < f.end /\ l.end < f.start - 1 -> "E_BEFORE"
              [] l.end < f.end /\ l.end > f.start - 1 -> "E_MIDDLE" >>

(***************************************************************************)
(* flckadj.  s holds the list L, the lock ld as far as it has been joined  *)
(* with others, the place insrtp, the records whose sleepers were woken,   *)
(* and how the scan goes on: "scan", "stop" (insert ld now), or the value  *)
(* to return.  nomem is the call of insflck that finds no memory: "piece"  *)
(* for what is left behind the (un)lock, "new" for the lock itself.        *)
(***************************************************************************)
WakeOf(s, f) == IF f.wakeflg THEN s.wake \cup {Id(f)} ELSE s.wake

Delflck(s, f) ==
    [s EXCEPT !.L = RemoveAt(@, IndexOf(s.L, Id(f))), !.wake = WakeOf(s, f)]

(* Mutant: the sleepers on a lock that shrinks are not woken. *)
TrimQuiet(s, f) ==
    [s EXCEPT !.L = ReplaceAt(@, IndexOf(@, Id(f)), [f EXCEPT !.end = s.ld.start - 1]),
              !.insrtp = Id(f)]

(* f keeps what is before ld; its sleepers are woken and the flag cleared. *)
Trim(s, f) ==
    [s EXCEPT !.L = ReplaceAt(@, IndexOf(@, Id(f)),
                              [f EXCEPT !.end = s.ld.start - 1, !.wakeflg = FALSE]),
              !.wake = WakeOf(s, f), !.insrtp = Id(f)]

(* Mutant: the lock goes right behind the given record. *)
PlaceHere(L, id, start) == IndexOf(L, id)

(* How many records stay before a lock that starts at start, sought from   *)
(* the record id on.                                                       *)
Place(L, id, start) ==
    LET k == IndexOf(L, id)
    IN  IF k = 0 THEN 0
        ELSE Max({k} \cup {j \in k .. Len(L) : \A i \in k .. j : L[i].start < start})

(* insflck() of a lock behind the first k records. *)
Insflck(s, l, k, fails) ==
    IF fails THEN [s EXCEPT !.at = "ENOLCK"]
    ELSE [s EXCEPT !.L = InsertAt(@, k + 1,
            [own |-> l.own, type |-> l.type, start |-> l.start, end |-> l.end,
             wakeflg |-> FALSE])]

(* The (un)lock ends inside f, which is of another type: f's rest behind   *)
(* it becomes a record of its own.                                         *)
Split(s, f, nomem) ==
    LET k  == Place(s.L, Id(f), s.ld.end + 1)
        s1 == Insflck(s, [f EXCEPT !.start = s.ld.end + 1], k, nomem = "piece")
    IN  IF s1.at = "ENOLCK" THEN s1
        ELSE IF s.ld.start > f.start THEN Trim(s1, f) ELSE Delflck(s1, f)

(* Mutant: a lock of the same type is joined, its start is forgotten. *)
JoinBeforeShort(s, f) ==
    [Delflck(s, f) EXCEPT !.insrtp = PrevOf(s.L, Id(f))]

JoinBefore(s, f) ==
    [Delflck(s, f) EXCEPT !.ld.start = f.start, !.insrtp = PrevOf(s.L, Id(f))]

(* One turn of the loop, for the record f. *)
Adjust(s, f, nomem) ==
    LET reg  == Regflck(s.ld, f)
        same == s.ld.type = f.type
        stop(t) == IF t.at = "scan" THEN [t EXCEPT !.at = "stop"] ELSE t
    IN  CASE s.at # "scan" \/ f.own # s.ld.own -> s
          [] s.at = "scan" /\ f.own = s.ld.own ->
        CASE reg = <<"S_BEFORE", "E_BEFORE">> -> stop(s)
          [] reg = <<"S_BEFORE", "E_START">> ->
                IF same THEN stop([Delflck(s, f) EXCEPT !.ld.end = f.end]) ELSE stop(s)
          [] same /\ reg \in {"S_START", "S_MIDDLE"} \X {"E_MIDDLE", "E_END"} ->
                [s EXCEPT !.at = "done"]
          [] reg[1] = "S_START" /\ (reg[2] = "E_AFTER" \/ (reg[2] = "E_END" /\ ~same)) ->
                [Delflck(s, f) EXCEPT !.insrtp = PrevOf(s.L, Id(f))]
          [] reg = <<"S_BEFORE", "E_END">> ->
                IF same THEN stop(Delflck(s, f)) ELSE Delflck(s, f)
          [] reg = <<"S_BEFORE", "E_AFTER">> -> Delflck(s, f)
          [] reg = <<"S_BEFORE", "E_MIDDLE">> /\ same ->
                stop([Delflck(s, f) EXCEPT !.ld.end = f.end])
          [] reg[2] = "E_MIDDLE" /\ ~same ->
                stop(Split(IF reg[1] = "S_START" THEN [s EXCEPT !.insrtp = PrevOf(s.L, Id(f))]
                           ELSE s, f, nomem))
          [] reg = <<"S_MIDDLE", "E_END">> /\ ~same -> Trim(s, f)
          [] reg = <<"S_MIDDLE", "E_AFTER">> ->
                IF same THEN JoinBefore(s, f) ELSE Trim(s, f)
          [] reg = <<"S_END", "E_AFTER">> -> IF same THEN JoinBefore(s, f) ELSE s
          [] reg = <<"S_AFTER", "E_AFTER">> -> [s EXCEPT !.insrtp = Id(f)]

(* The loop from the record number from on.  A record is as it was when    *)
(* the loop comes to it: what changes is the record visited, or the scan   *)
(* is over.                                                                *)
Scan(L, from, s, nomem) ==
    LET after[k \in 0 .. Len(L)] ==
            IF k < from THEN s ELSE Adjust(after[k - 1], L[k], nomem)
    IN  after[Len(L)]

(* The whole of flckadj from the record insrtp on, or from the head. *)
Flckadj(L, insrtp, ld, nomem) ==
    LET from == IF insrtp = NULL THEN 1 ELSE IndexOf(L, insrtp)
        s == Scan(L, from, [L |-> L, ld |-> ld, insrtp |-> insrtp, wake |-> {},
                            at |-> "scan"], nomem)
    IN  IF s.at \in {"done", "ENOLCK"} \/ ld.type = F_UNLCK THEN s
        ELSE Insflck(s, s.ld, Place(s.L, s.insrtp, s.ld.start), nomem = "new")

(***************************************************************************)
(* reclock                                                                 *)
(***************************************************************************)
FilockAt(v, id) == v_filocks[v][IndexOf(v_filocks[v], id)]

(* wakeup() of all who sleep on one of the records of v. *)
Woken(v, ids) ==
    [q \in Proc |-> IF pc[q] = "asleep" /\ call[q].v = v /\ chan[q] \in ids
                    THEN "woken" ELSE pc[q]]

(* Mutant: only the owner of the lock that blocks is looked at. *)
DeadflckDirect(owner, p) == owner = p \/ blk[owner] = p

(* deadflck(): p is the owner of the lock in the way, or met by following  *)
(* blk from there.  (The walk ends, see DeadflckEnds.)                     *)
Deadflck(owner, p) ==
    \A S \in SUBSET Proc :
        owner \in S /\ (\A q \in S : blk[q] # NULL => blk[q] \in S) => p \in S

(* The return to user mode; a pending signal is taken there. *)
Return(p, pcs) ==
    /\ pc' = [pcs EXCEPT ![p] = "user"]
    /\ blk' = [blk EXCEPT ![p] = NULL]
    /\ chan' = [chan EXCEPT ![p] = NULL]
    /\ call' = [call EXCEPT ![p] = NoCall]
    /\ sig' = [sig EXCEPT ![p] = FALSE]

(* flckadj changes the list. *)
Set(p, v, l, insrtp) ==
    \E nomem \in {"none", "piece", "new"} :
        LET s == Flckadj(v_filocks[v], insrtp, l, nomem)
        IN  /\ v_filocks' = [v_filocks EXCEPT ![v] = s.L]
            /\ Return(p, Woken(v, s.wake))

Mark(v, found) ==
    [v_filocks EXCEPT ![v][IndexOf(v_filocks[v], found)].wakeflg = TRUE]

(* The lock is taken by another owner and the caller waits: EDEADLK, no    *)
(* memory for the entry in sleeplcks, EINTR at once when a signal has come *)
(* since the call began, or sleep.                                         *)
Wait(p, v, l, cmd, found) ==
    \/ /\ Return(p, pc)                     \* ENOLCK, and EDEADLK
       /\ UNCHANGED v_filocks
    \/ /\ ~Deadflck(FilockAt(v, found).own, p)
       /\ v_filocks' = Mark(v, found)
       /\ \/ Return(p, pc)
          \/ /\ pc' = [pc EXCEPT ![p] = "asleep"]
             /\ blk' = [blk EXCEPT ![p] = FilockAt(v, found).own]
             /\ chan' = [chan EXCEPT ![p] = found]
             /\ call' = [call EXCEPT ![p] = [v |-> v, l |-> l, cmd |-> cmd]]
             /\ UNCHANGED sig

(* The loop of reclock, once. *)
Reclock(p, v, l, cmd) ==
    LET b == Blocked(v_filocks[v], l)
    IN  \/ /\ l.type = F_UNLCK /\ "SETFLCK" \in cmd
           /\ Set(p, v, l, IdAt(v_filocks[v], 1))
        \/ /\ l.type # F_UNLCK /\ b.found = NULL /\ "SETFLCK" \in cmd
           /\ Set(p, v, l, b.insrt)
        \/ /\ l.type # F_UNLCK /\ b.found = NULL /\ "SETFLCK" \notin cmd
           /\ Return(p, pc)
           /\ UNCHANGED v_filocks
        \/ /\ l.type # F_UNLCK /\ b.found # NULL /\ "SLPFLCK" \in cmd
           /\ Wait(p, v, l, cmd, b.found)

(* fcntl or chklock. *)
Call(p, v, r) ==
    /\ pc[p] = "user"
    /\ Convert(p, r) # NULL
    /\ Reclock(p, v, Convert(p, r), r.cmd)

(* sleep() returns: EINTR, or once more.  The entry in sleeplcks goes      *)
(* first, and the call finds the list as it is now.                        *)
Resume(p) ==
    /\ pc[p] = "woken"
    /\ \/ /\ sig[p]
          /\ Return(p, pc)
          /\ UNCHANGED v_filocks
       \/ /\ ~sig[p]
          /\ Reclock(p, call[p].v, call[p].l, call[p].cmd)

(* psignal: the sleep is interruptible. *)
Signal(p) ==
    /\ pc[p] # "user" /\ ~sig[p]
    /\ sig' = [sig EXCEPT ![p] = TRUE]
    /\ pc' = [pc EXCEPT ![p] = "woken"]
    /\ UNCHANGED <<v_filocks, blk, chan, call>>

(* The loop of cleanlocks over the records of the owners P. *)
Cleaned(L, P) ==
    LET after[k \in 0 .. Len(L)] ==
            IF k = 0 THEN [L |-> L, wake |-> {}]
            ELSE IF L[k].own \in P THEN Delflck(after[k - 1], L[k])
            ELSE after[k - 1]
    IN  after[Len(L)]

(* cleanlocks(): a process closes the file, or with IGN_PID the other      *)
(* machine is gone.                                                        *)
Cleanlocks(v, P) ==
    LET s == Cleaned(v_filocks[v], P)
    IN  /\ \E f \in ToSet(v_filocks[v]) : f.own \in P
        /\ v_filocks' = [v_filocks EXCEPT ![v] = s.L]
        /\ pc' = Woken(v, s.wake)
        /\ UNCHANGED <<blk, chan, call, sig>>

Close(p, v) == pc[p] = "user" /\ Cleanlocks(v, {p})

Next ==
    \/ \E p \in Proc, v \in Vnode :
          \/ \E r \in Requests : Call(p, v, r)
          \/ Close(p, v)
    \/ \E p \in Proc : Resume(p) \/ Signal(p)
    \/ \E v \in Vnode : Cleanlocks(v, Remote)

Spec == Init /\ [][Next]_vars

-----------------------------------------------------------------------------
(* Types of the lists and of the calls in progress. *)
TypeOK ==
    /\ v_filocks \in [Vnode -> Seq(Filock)]
    /\ blk \in [Proc -> Proc \cup {NULL}]
    /\ pc \in [Proc -> {"user", "asleep", "woken"}]
    /\ chan \in [Proc -> Rec \cup {NULL}]
    /\ call \in [Proc -> [v : Vnode, l : Lock, cmd : Cmd] \cup {NoCall}]
    /\ sig \in [Proc -> BOOLEAN]

(* "All record lock lists ... are ordered by starting position" (flock.c   *)
(* 13), which every scan relies on, and the locks of one owner neither     *)
(* overlap nor adjoin in the same type: flckadj joins, trims and splits    *)
(* them so, in whatever order they were asked for.  None is empty: a range *)
(* whose end overflows is refused (flock.c 411).                           *)
ListCanonical ==
    \A v \in Vnode : LET L == v_filocks[v] IN
        /\ \A k \in DOMAIN L : L[k].start <= L[k].end
        /\ \A j, k \in DOMAIN L : j < k =>
            /\ L[j].start <= L[k].start
            /\ Id(L[j]) # Id(L[k])
            /\ L[j].own = L[k].own =>
                 IF L[j].type = L[k].type THEN L[j].end + 1 < L[k].start
                                          ELSE L[j].end < L[k].start

(* The lock list and the calls keep their types, and the list its shape.   *)
ListSound == TypeOK /\ ListCanonical

Overlap(f, l) == f.start <= l.end /\ l.start <= f.end

(* blocked() answers right for every lock anybody could ask for: it finds  *)
(* a lock if and only if one is in the way, although it stops early.       *)
BlockedExact ==
    \A v \in Vnode, p \in Proc, t \in {F_RDLCK, F_WRLCK}, a, b \in Byte : a <= b =>
        LET l == [own |-> p, type |-> t, start |-> a, end |-> b]
            f == Blocked(v_filocks[v], l).found
            inway == {g \in ToSet(v_filocks[v]) : Overlap(g, l) /\ Excludes(g, l)}
        IN  IF inway = {} THEN f = NULL ELSE f \in {Id(g) : g \in inway}

(* Whoever sleeps in reclock sleeps on a lock that is still in the list,   *)
(* still in its way and marked, so that its release will wake it: no       *)
(* wakeup is lost when locks are joined, split, trimmed or upgraded.       *)
NoLostWakeup ==
    \A p \in Proc : pc[p] = "asleep" =>
        \E f \in ToSet(v_filocks[call[p].v]) :
            /\ Id(f) = chan[p] /\ f.wakeflg
            /\ Overlap(f, call[p].l) /\ Excludes(f, call[p].l)

(* Processes asleep on locks do not wait for one another in a circle.      *)
WaitsFor(p) == FilockAt(call[p].v, chan[p]).own

NoDeadlock ==
    \A C \in SUBSET Proc : C # {} => \E p \in C : pc[p] = "asleep" => WaitsFor(p) \notin C

(* The walk of deadflck ends from wherever it starts: what sleeplcks says, *)
(* the entries of processes that have been woken but have not run yet      *)
(* included, has no circle.                                                *)
DeadflckEnds ==
    \A C \in SUBSET Proc : C # {} => \E p \in C : blk[p] # NULL => blk[p] \notin C

(* flock.c 556: "If the blocking process is sleeping on a locked region,   *)
(* change the blocked lock to this one."  A lock is refused with EDEADLK   *)
(* only if the processes on the way back to the caller are asleep.         *)
DeadlockReal ==
    \A p \in Proc, v \in Vnode, r \in Requests :
        LET l == Convert(p, r)
            f == Blocked(v_filocks[v], l).found
        IN  (pc[p] = "user" /\ "SLPFLCK" \in r.cmd /\ l # NULL /\ f # NULL) =>
                LET owner == FilockAt(v, f).own
                IN  Deadflck(owner, p) =>
                        \A S \in SUBSET Proc :
                            owner \in S /\ (\A q \in S : pc[q] = "asleep" => WaitsFor(q) \in S)
                                => p \in S

(***************************************************************************)
(* What the locks promise, byte by byte.                                   *)
(***************************************************************************)
HeldAt(L, p, b) ==
    LET f == {g \in ToSet(L) : g.own = p /\ g.start <= b /\ b <= g.end}
    IN  IF f = {} THEN F_UNLCK ELSE (CHOOSE g \in f : TRUE).type

Bytes == INSTANCE ByteLocks WITH
    held <- [v \in Vnode |-> [p \in Proc |-> [b \in Byte |-> HeldAt(v_filocks[v], p, b)]]]

(* Every call changes the bytes it was asked to change, for its owner, and *)
(* no others; two owners never hold a byte in conflict; a call that runs   *)
(* out of memory loses at most bytes it was to change, and bytes of the    *)
(* same type next to them.                                                 *)
ImplementsByteLocks == Bytes!Spec
=============================================================================
