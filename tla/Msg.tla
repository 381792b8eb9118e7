--------------------------------- MODULE Msg ---------------------------------
(***************************************************************************)
(* System V messages, os/msg.c: msgget, msgsnd, msgrcv and msgctl.         *)
(*                                                                         *)
(* A call runs until it sleeps: in sleep(), or on a page fault in copyin   *)
(* or copyout.  `cpu' is the process between two such points and nobody    *)
(* else takes a step while it is set; pc names the place in the code.      *)
(* msglock is what protects a queue across a fault; MSG_RWAIT, MSG_WWAIT,  *)
(* an empty msgfp and mapwant are what the sleepers rely on.               *)
(*                                                                         *)
(* Left out: message text, pids, times and permissions.  Headers are       *)
(* alike, so the free list msgfp is its length.  A call refused for its    *)
(* arguments or by a failing copy takes the error exits (FirstFails,       *)
(* CopyinFails, CopyoutFails) at the point where it is refused.            *)
(***************************************************************************)
EXTENDS Ipc, ResourceMap, SequencesExt

CONSTANTS Proc, NULL,
          MSGMNI, MSGTQL, MSGSEG, MSGSSZ, MSGMNB,    \* msginfo
          Key,         \* keys passed to msgget
          Calls,       \* the calls made: [cmd, type, size, nowait, trunc],
                       \*   cmd one of "snd", "rcv", "rmid", "set", "stat";
                       \*   nowait is IPC_NOWAIT, trunc MSG_NOERROR; size is
                       \*   the new msg_qbytes in a "set"
          MaxSeq       \* bound: IPC_RMIDs of one header

ASSUME MsgAssumption ==
    /\ MSGMNI \in Nat \ {0} /\ MSGTQL \in Nat \ {0} /\ MSGSEG \in Nat \ {0}
    /\ MSGSSZ \in Nat \ {0} /\ MSGMNB \in Nat /\ MaxSeq \in Nat /\ IntMax \in Nat
    /\ Calls \subseteq [cmd : {"snd", "rcv", "rmid", "set", "stat"}, type : Int,
                       size : Nat, nowait : BOOLEAN, trunc : BOOLEAN]
    /\ \A c \in Calls : c.cmd = "snd" => c.type > 0
    /\ NULL \notin Proc
    /\ IPC_PRIVATE \in Key

Queue == 0 .. MSGMNI - 1
Msqid == 0 .. IntMax

(* The addresses processes sleep on: a lock, qp (room on the queue),       *)
(* &qp->msg_qnum (a message), &msgfp (a header), msgmap (segments).        *)
Chan == ({"lock", "qp", "qnum"} \X Queue) \cup {<<"msgfp", 0>>, <<"msgmap", 0>>}

VARIABLES
    perm,     \* perm[q]: [alloc, key, seq], the msg_perm of a queue
    qbytes,   \* msg_qbytes
    cbytes,   \* msg_cbytes
    rwait,    \* MSG_RWAIT
    wwait,    \* MSG_WWAIT
    mq,       \* mq[q]: its messages [type, size, spot], msg_first first
    msglock,  \* msglock[q]
    msgfp,    \* number of free headers
    msgmap,   \* resource map of the segments
    pc,       \* place in the code, "user", "asleep", "woken"
    next,     \* next[p]: where msgconv returns to
    call,     \* call[p]: arguments of p's system call
    chan,     \* chan[p]: what p slept on last
    held,     \* held[p]: segment of the message p is sending, 0 if none;
              \*   position of the message p is receiving
    sig,      \* sig[p]: a signal is pending
    cpu       \* the process in the kernel, or NULL

msgque == <<perm, qbytes, cbytes, rwait, wwait>>
pool == <<msgfp, msgmap>>
vars == <<msgque, mq, msglock, pool, pc, next, call, chan, held, sig, cpu>>

NoCall == [cmd |-> "none", id |-> 0, type |-> 0, size |-> 0, nowait |-> FALSE,
           trunc |-> FALSE]

(***************************************************************************)
(* msginit                                                                 *)
(***************************************************************************)
Init ==
    /\ perm = [q \in Queue |-> [alloc |-> FALSE, key |-> IPC_PRIVATE, seq |-> 0]]
    /\ qbytes = [q \in Queue |-> MSGMNB]
    /\ cbytes = [q \in Queue |-> 0]
    /\ rwait = [q \in Queue |-> FALSE]
    /\ wwait = [q \in Queue |-> FALSE]
    /\ mq = [q \in Queue |-> <<>>]
    /\ msglock = [q \in Queue |-> FALSE]
    /\ msgfp = MSGTQL
    /\ msgmap = Rmfree(MapInit, MSGSEG, 1)
    /\ pc = [p \in Proc |-> "user"]
    /\ next = [p \in Proc |-> "first"]
    /\ call = [p \in Proc |-> NoCall]
    /\ chan = [p \in Proc |-> NULL]
    /\ held = [p \in Proc |-> 0]
    /\ sig = [p \in Proc |-> FALSE]
    /\ cpu = NULL

Btoq(n) == (n + MSGSSZ - 1) \div MSGSSZ

Q(p) == Index(call[p].id, MSGMNI)

Running(p, where) == cpu = p /\ pc[p] = where

(* The program counters after p moves to `to' and wakeups on C. *)
Moves(p, to, C) ==
    pc' = [r \in Proc |-> IF r = p THEN to
                          ELSE IF pc[r] = "asleep" /\ chan[r] \in C THEN "woken"
                          ELSE pc[r]]

Unlock(p) == msglock' = [msglock EXCEPT ![Q(p)] = FALSE]
LockChan(p) == <<"lock", Q(p)>>

(* The call of p is over; signals are taken on the way to user mode. *)
Forget(p) ==
    /\ call' = [call EXCEPT ![p] = NoCall]
    /\ next' = [next EXCEPT ![p] = "first"]
    /\ chan' = [chan EXCEPT ![p] = NULL]
    /\ held' = [held EXCEPT ![p] = 0]
    /\ sig' = [sig EXCEPT ![p] = FALSE]
    /\ cpu' = NULL

(* The exits msgsnd_out, msgrcv_out and the end of msgctl, after wakeups   *)
(* on C.                                                                   *)
Out(p, C) == Unlock(p) /\ Moves(p, "user", C \cup {LockChan(p)}) /\ Forget(p)

(* Unlock, then go back to msgconv to take the lock again. *)
Relock(p) ==
    /\ Unlock(p)
    /\ Moves(p, "conv", {LockChan(p)})
    /\ next' = [next EXCEPT ![p] = "again"]
    /\ cpu' = p
    /\ UNCHANGED <<call, chan, held, sig>>

(* Unlock and sleep(c, PMSG|PCATCH); with a signal pending sleep() returns *)
(* at once, to the interrupted-sleep code of the caller.  D: wakeups made. *)
SleepOn(p, c, D) ==
    /\ Unlock(p)
    /\ chan' = [chan EXCEPT ![p] = c]
    /\ Moves(p, IF sig[p] THEN "woken" ELSE "asleep", D \cup {LockChan(p)})
    /\ cpu' = IF sig[p] THEN p ELSE NULL
    /\ UNCHANGED <<next, call, held, sig>>

(* Mutant: the lock is released for the time of the fault. *)
FaultUnlocks(p, where) ==
    /\ pc' = [pc EXCEPT ![p] = where]
    /\ cpu' = NULL
    /\ Unlock(p)
    /\ UNCHANGED <<msgque, mq, pool, next, call, chan, held, sig>>

(* A page fault: the processor is given up with the lock held. *)
Fault(p, where) ==
    /\ pc' = [pc EXCEPT ![p] = where]
    /\ cpu' = NULL
    /\ UNCHANGED <<msgque, mq, msglock, pool, next, call, chan, held, sig>>

(***************************************************************************)
(* Entry, msgget, msgconv                                                  *)
(***************************************************************************)
Enters(p) == pc[p] = "user" /\ cpu = NULL

(* A msgget that finds its queue, or fails, changes nothing.  The lock is  *)
(* not taken.                                                              *)
Msgget(p, key, creat) ==
    /\ Enters(p)
    /\ \E q \in Queue :
        /\ Creates(perm, key, creat, MSGMNI, q)
        /\ perm' = [perm EXCEPT ![q] = [alloc |-> TRUE, key |-> key, seq |-> perm[q].seq]]
        /\ qbytes' = [qbytes EXCEPT ![q] = MSGMNB]
        /\ rwait' = [rwait EXCEPT ![q] = FALSE]
        /\ wwait' = [wwait EXCEPT ![q] = FALSE]
        /\ mq' = [mq EXCEPT ![q] = <<>>]
    /\ UNCHANGED <<cbytes, msglock, pool, pc, next, call, chan, held, sig, cpu>>

Msgsys(p, id, c) ==
    /\ Enters(p)
    /\ call' = [call EXCEPT ![p] =
                  [cmd |-> c.cmd, id |-> id, type |-> c.type, size |-> c.size,
                   nowait |-> c.nowait, trunc |-> c.trunc]]
    /\ pc' = [pc EXCEPT ![p] = "conv"]
    /\ cpu' = p
    /\ UNCHANGED <<msgque, mq, msglock, pool, next, chan, held, sig>>

(* msgconv finds the queue locked: sleep(lockp, PMSG), without PCATCH, so  *)
(* that a signal leaves the system call by longjmp.                        *)
ConvSleeps(p) ==
    /\ Running(p, "conv") /\ msglock[Q(p)]
    /\ \/ /\ ~sig[p]
          /\ pc' = [pc EXCEPT ![p] = "asleep"]
          /\ chan' = [chan EXCEPT ![p] = LockChan(p)]
          /\ cpu' = NULL
          /\ UNCHANGED <<next, call, held, sig>>
       \/ /\ sig[p]
          /\ pc' = [pc EXCEPT ![p] = "user"]
          /\ Forget(p)
    /\ UNCHANGED <<msgque, mq, msglock, pool>>

(* Mutant: the lock is looked at on the first msgconv of a call only. *)
ConvLocksOnce(p) ==
    /\ Running(p, "conv") /\ (next[p] = "first" => ~msglock[Q(p)])
    /\ Valid(perm, call[p].id, MSGMNI)
    /\ msglock' = [msglock EXCEPT ![Q(p)] = TRUE]
    /\ pc' = [pc EXCEPT ![p] = next[p]]
    /\ UNCHANGED <<msgque, mq, pool, next, call, chan, held, sig, cpu>>

(* Mutant: the identifier is looked at on the first msgconv of a call only. *)
ConvLocksTrusting(p) ==
    /\ Running(p, "conv") /\ ~msglock[Q(p)]
    /\ next[p] = "first" => Valid(perm, call[p].id, MSGMNI)
    /\ msglock' = [msglock EXCEPT ![Q(p)] = TRUE]
    /\ pc' = [pc EXCEPT ![p] = next[p]]
    /\ UNCHANGED <<msgque, mq, pool, next, call, chan, held, sig, cpu>>

ConvLocks(p) ==
    /\ Running(p, "conv") /\ ~msglock[Q(p)]
    /\ Valid(perm, call[p].id, MSGMNI)
    /\ msglock' = [msglock EXCEPT ![Q(p)] = TRUE]
    /\ pc' = [pc EXCEPT ![p] = next[p]]
    /\ UNCHANGED <<msgque, mq, pool, next, call, chan, held, sig, cpu>>

(* EINVAL or EIDRM; the lock was taken and is given back. *)
ConvFails(p) ==
    /\ Running(p, "conv") /\ ~msglock[Q(p)]
    /\ ~Valid(perm, call[p].id, MSGMNI)
    /\ Out(p, {})
    /\ UNCHANGED <<msgque, mq, pool>>

(* A sleeper runs again. *)
Resume(p) ==
    /\ pc[p] = "woken" /\ cpu \in {NULL, p}
    /\ \/ /\ sig[p] /\ chan[p][1] \in {"lock", "qnum"}       \* longjmp; EINTR
          /\ pc' = [pc EXCEPT ![p] = "user"]
          /\ Forget(p)
       \/ /\ sig[p] /\ chan[p][1] \notin {"lock", "qnum"}
          /\ pc' = [pc EXCEPT ![p] = "conv"]
          /\ next' = [next EXCEPT ![p] = "eintr"]
          /\ cpu' = p
          /\ UNCHANGED <<call, chan, held, sig>>
       \/ /\ ~sig[p]
          /\ pc' = [pc EXCEPT ![p] = "conv"]
          /\ cpu' = p
          /\ UNCHANGED <<next, call, chan, held, sig>>
    /\ UNCHANGED <<msgque, mq, msglock, pool>>

(* The end of an interrupted msgsnd.  One that waited for room passes the  *)
(* flag's duty on: everybody who waits with it looks again.                *)
Eintr(p) ==
    LET room == chan[p] = <<"qp", Q(p)>>
    IN  /\ Running(p, "eintr")
        /\ wwait' = IF room THEN [wwait EXCEPT ![Q(p)] = FALSE] ELSE wwait
        /\ Out(p, IF room THEN {chan[p]} ELSE {})
        /\ UNCHANGED <<perm, qbytes, cbytes, rwait, mq, pool>>

(***************************************************************************)
(* The locked part between the two msgconvs                                *)
(***************************************************************************)
(* EACCES, EPERM, EINVAL or EFAULT. *)
FirstFails(p) ==
    /\ Running(p, "first")
    /\ Out(p, {})
    /\ UNCHANGED <<msgque, mq, pool>>

(* msgsnd copies the message type in. *)
SndFirst(p) ==
    /\ Running(p, "first") /\ call[p].cmd = "snd"
    /\ \/ Fault(p, "typein")
       \/ Relock(p) /\ UNCHANGED <<msgque, mq, pool>>

Typein(p) ==
    /\ cpu = NULL /\ pc[p] = "typein"
    /\ \/ Relock(p)
       \/ Out(p, {})
    /\ UNCHANGED <<msgque, mq, pool>>

RcvFirst(p) ==
    /\ Running(p, "first") /\ call[p].cmd = "rcv"
    /\ Relock(p)
    /\ UNCHANGED <<msgque, mq, pool>>

(***************************************************************************)
(* Freed headers and segments                                              *)
(***************************************************************************)
(* Mutant: off by one, a list of one header is taken for the empty one. *)
HdrWakesLate == IF msgfp = 1 THEN {<<"msgfp", 0>>} ELSE {}

(* A header goes back to msgfp: who finds the list empty wakes.            *)
HdrWakes == IF msgfp = 0 THEN {<<"msgfp", 0>>} ELSE {}

(* Mutant: the last segment of a message is not given back. *)
MapFreedShort(size, spot) ==
    IF size = 0 THEN msgmap ELSE Rmfree(msgmap, Btoq(size) - 1, spot)

(* rmfree of the segments of a message, and what it wakes. *)
MapFreed(size, spot) == IF size = 0 THEN msgmap ELSE Rmfree(msgmap, Btoq(size), spot)
MapWakes(size, spot) ==
    IF size # 0 /\ WakesMap(msgmap, Btoq(size), spot) THEN {<<"msgmap", 0>>} ELSE {}

(* msgfree of the k-th message of q (MSG_WWAIT is cleared with the rest of *)
(* the queue header by the callers), and the wakeups it makes.             *)
Msgfree(q, k) ==
    /\ mq' = [mq EXCEPT ![q] = RemoveAt(@, k)]
    /\ msgmap' = MapFreed(mq[q][k].size, mq[q][k].spot)
    /\ msgfp' = msgfp + 1

(* Mutant: the writers of the queue are not woken. *)
FreeWakesPools(q, k) == HdrWakes \cup MapWakes(mq[q][k].size, mq[q][k].spot)

FreeWakes(q, k) ==
    HdrWakes \cup MapWakes(mq[q][k].size, mq[q][k].spot)
             \cup (IF wwait[q] THEN {<<"qp", q>>} ELSE {})

(***************************************************************************)
(* msgsnd from the label getres on: room on the queue, a header, segments. *)
(***************************************************************************)
Snd(p) == Running(p, "again") /\ call[p].cmd = "snd"

(* Mutant: the message's own bytes are left out. *)
HasRoomBefore(p) == cbytes[Q(p)] < qbytes[Q(p)]

HasRoom(p) == call[p].size + cbytes[Q(p)] <= qbytes[Q(p)]

HasHdr == msgfp # 0

HasSegs(p) == call[p].size = 0 \/ CanAlloc(msgmap, Btoq(call[p].size))

SndNoRoom(p) ==
    /\ Snd(p) /\ ~HasRoom(p)
    /\ \/ /\ call[p].nowait
          /\ Out(p, {})
          /\ UNCHANGED wwait
       \/ /\ ~call[p].nowait
          /\ wwait' = [wwait EXCEPT ![Q(p)] = TRUE]
          /\ SleepOn(p, <<"qp", Q(p)>>, {})
    /\ UNCHANGED <<perm, qbytes, cbytes, rwait, mq, pool>>

SndNoHdr(p) ==
    /\ Snd(p) /\ HasRoom(p) /\ ~HasHdr
    /\ \/ call[p].nowait /\ Out(p, {})
       \/ ~call[p].nowait /\ SleepOn(p, <<"msgfp", 0>>, {})
    /\ UNCHANGED <<msgque, mq, pool>>

(* The header is taken before rmalloc and put back when that fails: if it  *)
(* was the last one, the list was empty and its sleepers are woken.        *)
SndNoSegs(p) ==
    LET C == IF msgfp = 1 THEN {<<"msgfp", 0>>} ELSE {}
    IN  /\ Snd(p) /\ HasRoom(p) /\ HasHdr /\ ~HasSegs(p)
        /\ \/ /\ call[p].nowait
              /\ Out(p, C)
              /\ UNCHANGED msgmap
           \/ /\ ~call[p].nowait
              /\ msgmap' = Want(msgmap)
              /\ SleepOn(p, <<"msgmap", 0>>, C)
        /\ UNCHANGED <<msgque, mq, msgfp>>

SndTakes(p) ==
    LET n == Btoq(call[p].size)
    IN  /\ Snd(p) /\ HasRoom(p) /\ HasHdr /\ HasSegs(p)
        /\ msgfp' = msgfp - 1
        /\ msgmap' = IF call[p].size = 0 THEN msgmap ELSE Rmalloc(msgmap, n)
        /\ held' = [held EXCEPT ![p] = IF call[p].size = 0 THEN 0
                                       ELSE RmallocAddr(msgmap, n)]
        /\ pc' = [pc EXCEPT ![p] = "text"]
        /\ UNCHANGED <<msgque, mq, msglock, next, call, chan, sig, cpu>>

(* The text is copied in; the message goes on the queue and readers wake.  *)
Enqueue(p) ==
    LET q == Q(p)
    IN  /\ mq' = [mq EXCEPT ![q] = Append(@, [type |-> call[p].type, size |-> call[p].size,
                                             spot |-> held[p]])]
        /\ cbytes' = [cbytes EXCEPT ![q] = @ + call[p].size]
        /\ rwait' = [rwait EXCEPT ![q] = FALSE]
        /\ Out(p, IF rwait[q] THEN {<<"qnum", q>>} ELSE {})
        /\ UNCHANGED <<perm, qbytes, wwait, pool>>

(* EFAULT: segments and header go back. *)
CopyinFails(p) ==
    /\ call[p].size # 0
    /\ msgmap' = MapFreed(call[p].size, held[p])
    /\ msgfp' = msgfp + 1
    /\ Out(p, HdrWakes \cup MapWakes(call[p].size, held[p]))
    /\ UNCHANGED <<msgque, mq>>

SndText(p) ==
    /\ Running(p, "text")
    /\ Enqueue(p) \/ CopyinFails(p) \/ (call[p].size # 0 /\ Fault(p, "textin"))

Textin(p) ==
    /\ cpu = NULL /\ pc[p] = "textin"
    /\ Enqueue(p) \/ CopyinFails(p)

(***************************************************************************)
(* msgrcv from the label findmsg on.                                       *)
(***************************************************************************)
Rcv(p) == Running(p, "again") /\ call[p].cmd = "rcv"

(* The messages a type lets a receiver take: any (0), those of the type,   *)
(* or those of a type up to -msgtyp.                                       *)
Eligible(m, typ) ==
    \/ typ = 0
    \/ typ > 0 /\ m.type = typ
    \/ typ < 0 /\ m.type <= -typ

AnyEligible(s, typ) == \E k \in 1 .. Len(s) : Eligible(s[k], typ)

(* Mutant: of the messages of the lowest type the scan keeps the last. *)
PrecedesLast(s, typ, k, j) ==
    IF typ < 0 THEN s[k].type < s[j].type \/ (s[k].type = s[j].type /\ k >= j) ELSE k <= j

(* What the scan leaves in smp: the first eligible message, and for a      *)
(* negative type the first of the lowest type.                             *)
Precedes(s, typ, k, j) ==
    IF typ < 0 /\ s[k].type # s[j].type THEN s[k].type < s[j].type ELSE k <= j

Find(s, typ) ==
    CHOOSE k \in 1 .. Len(s) :
        /\ Eligible(s[k], typ)
        /\ \A j \in 1 .. Len(s) : Eligible(s[j], typ) => Precedes(s, typ, k, j)

Some(p)  == AnyEligible(mq[Q(p)], call[p].type)
Found(p) == Find(mq[Q(p)], call[p].type)

TooBig(p) == mq[Q(p)][Found(p)].size > call[p].size /\ ~call[p].trunc

RcvNone(p) ==
    /\ Rcv(p) /\ ~Some(p)
    /\ \/ /\ call[p].nowait
          /\ Out(p, {})
          /\ UNCHANGED rwait
       \/ /\ ~call[p].nowait
          /\ rwait' = [rwait EXCEPT ![Q(p)] = TRUE]
          /\ SleepOn(p, <<"qnum", Q(p)>>, {})
    /\ UNCHANGED <<perm, qbytes, cbytes, wwait, mq, pool>>

RcvTooBig(p) ==
    /\ Rcv(p) /\ Some(p) /\ TooBig(p)
    /\ Out(p, {})
    /\ UNCHANGED <<msgque, mq, pool>>

RcvFinds(p) ==
    /\ Rcv(p) /\ Some(p) /\ ~TooBig(p)
    /\ held' = [held EXCEPT ![p] = Found(p)]
    /\ pc' = [pc EXCEPT ![p] = "copyout"]
    /\ UNCHANGED <<msgque, mq, msglock, pool, next, call, chan, sig, cpu>>

(* The message has been copied out: it leaves the queue. *)
Dequeue(p) ==
    LET q == Q(p)
    IN  /\ Msgfree(q, held[p])
        /\ cbytes' = [cbytes EXCEPT ![q] = @ - mq[q][held[p]].size]
        /\ wwait' = [wwait EXCEPT ![q] = FALSE]
        /\ Out(p, FreeWakes(q, held[p]))
        /\ UNCHANGED <<perm, qbytes, rwait>>

CopyoutFails(p) == Out(p, {}) /\ UNCHANGED <<msgque, mq, pool>>

RcvCopyout(p) ==
    /\ Running(p, "copyout")
    /\ Dequeue(p) \/ CopyoutFails(p) \/ Fault(p, "textout")

Textout(p) ==
    /\ cpu = NULL /\ pc[p] = "textout"
    /\ Dequeue(p) \/ CopyoutFails(p)

(***************************************************************************)
(* msgctl: one step per message that IPC_RMID frees.                       *)
(***************************************************************************)
RmidFirst(p) ==
    /\ Running(p, "first") /\ call[p].cmd = "rmid"
    /\ perm[Q(p)].seq < MaxSeq
    /\ pc' = [pc EXCEPT ![p] = "rmid"]
    /\ UNCHANGED <<msgque, mq, msglock, pool, next, call, chan, held, sig, cpu>>

RmidFree(p) ==
    LET q == Q(p)
    IN  /\ Running(p, "rmid") /\ mq[q] # <<>>
        /\ Msgfree(q, 1)
        /\ wwait' = [wwait EXCEPT ![q] = FALSE]
        /\ Moves(p, "rmid", FreeWakes(q, 1))
        /\ UNCHANGED <<perm, qbytes, cbytes, rwait, msglock, next, call, chan, held, sig, cpu>>

RmidBytes(q) == [cbytes EXCEPT ![q] = 0]

RmidDone(p) ==
    LET q == Q(p)
    IN  /\ Running(p, "rmid") /\ mq[q] = <<>>
        /\ perm' = [perm EXCEPT ![q] =
                      [alloc |-> FALSE, key |-> perm[q].key,
                       seq |-> NextSeq(call[p].id, perm[q].seq, MSGMNI)]]
        /\ cbytes' = RmidBytes(q)
        /\ rwait' = [rwait EXCEPT ![q] = FALSE]
        /\ wwait' = [wwait EXCEPT ![q] = FALSE]
        /\ Out(p, (IF rwait[q] THEN {<<"qnum", q>>} ELSE {})
                  \cup (IF wwait[q] THEN {<<"qp", q>>} ELSE {}))
        /\ UNCHANGED <<qbytes, mq, pool>>

(* IPC_SET: the new limit is stored and nobody is woken. *)
SetLimit(p) ==
    /\ qbytes' = [qbytes EXCEPT ![Q(p)] = call[p].size]
    /\ Out(p, {})
    /\ UNCHANGED <<perm, cbytes, rwait, wwait, mq, pool>>

SetFirst(p) ==
    /\ Running(p, "first") /\ call[p].cmd = "set"
    /\ SetLimit(p) \/ Fault(p, "setin")

Setin(p) ==
    /\ cpu = NULL /\ pc[p] = "setin"
    /\ \/ SetLimit(p)
       \/ Out(p, {}) /\ UNCHANGED <<msgque, mq, pool>>

(* IPC_STAT: a copyout under the lock. *)
StatFirst(p) ==
    /\ Running(p, "first") /\ call[p].cmd = "stat"
    /\ \/ Out(p, {}) /\ UNCHANGED <<msgque, mq, pool>>
       \/ Fault(p, "statout")

Statout(p) ==
    /\ cpu = NULL /\ pc[p] = "statout"
    /\ Out(p, {})
    /\ UNCHANGED <<msgque, mq, pool>>

(* psignal: a process asleep at PMSG, above PZERO, is set running.  One    *)
(* that waits for a page is not.                                           *)
Signal(p) ==
    /\ pc[p] # "user" /\ ~sig[p]
    /\ sig' = [sig EXCEPT ![p] = TRUE]
    /\ pc' = [pc EXCEPT ![p] = IF @ = "asleep" THEN "woken" ELSE @]
    /\ UNCHANGED <<msgque, mq, msglock, pool, next, call, chan, held, cpu>>

-----------------------------------------------------------------------------
Call(p) ==
    \/ \E key \in Key, creat \in BOOLEAN : Msgget(p, key, creat)
    \/ \E id \in Msqid, c \in Calls : Msgsys(p, id, c)

Step(p) ==          \* p has the processor
    \/ ConvSleeps(p) \/ ConvLocks(p) \/ ConvFails(p) \/ Eintr(p) \/ FirstFails(p)
    \/ SndFirst(p) \/ SndNoRoom(p) \/ SndNoHdr(p) \/ SndNoSegs(p) \/ SndTakes(p)
    \/ SndText(p) \/ RcvFirst(p) \/ RcvNone(p) \/ RcvTooBig(p) \/ RcvFinds(p)
    \/ RcvCopyout(p) \/ RmidFirst(p) \/ RmidFree(p) \/ RmidDone(p)
    \/ SetFirst(p) \/ StatFirst(p)

Continue(p) ==      \* p runs again after a sleep or a fault
    \/ Resume(p) \/ Typein(p) \/ Textin(p) \/ Textout(p) \/ Setin(p) \/ Statout(p)

Next == \E p \in Proc : Call(p) \/ Step(p) \/ Continue(p) \/ Signal(p)

Spec == Init /\ [][Next]_vars

-----------------------------------------------------------------------------
Faulted == {"typein", "textin", "textout", "setin", "statout"}
Locked  == {"first", "eintr", "again", "text", "copyout", "rmid"} \cup Faulted
Places  == {"user", "conv", "asleep", "woken"} \cup Locked

Perm == [alloc : BOOLEAN, key : Key, seq : Nat]

Message == [type : Nat, size : Nat, spot : Nat]

CallType == [cmd : {"none", "snd", "rcv", "rmid", "set", "stat"}, id : Msqid,
             type : Int, size : Nat, nowait : BOOLEAN, trunc : BOOLEAN]

(* Types of the queues, the pools and the calls in progress. *)
TypeOK ==
    /\ perm \in [Queue -> Perm]
    /\ qbytes \in [Queue -> Nat]
    /\ cbytes \in [Queue -> Int]
    /\ rwait \in [Queue -> BOOLEAN]
    /\ wwait \in [Queue -> BOOLEAN]
    /\ mq \in [Queue -> Seq(Message)]
    /\ msglock \in [Queue -> BOOLEAN]
    /\ msgfp \in Nat
    /\ msgmap \in MapType
    /\ pc \in [Proc -> Places]
    /\ next \in [Proc -> {"first", "again", "eintr"}]
    /\ call \in [Proc -> CallType]
    /\ chan \in [Proc -> Chan \cup {NULL}]
    /\ held \in [Proc -> Nat]
    /\ sig \in [Proc -> BOOLEAN]
    /\ cpu \in Proc \cup {NULL}

(* msglock excludes: at most one process is between a successful msgconv   *)
(* and the release of the lock of a queue, page faults included, and the   *)
(* lock is set exactly while there is one.                                 *)
MutualExclusion ==
    \A q \in Queue :
        /\ msglock[q] <=> \E p \in Proc : pc[p] \in Locked /\ Q(p) = q
        /\ \A p, r \in Proc : pc[p] \in Locked /\ pc[r] \in Locked
                              /\ Q(p) = q /\ Q(r) = q => p = r

(* The queue a lock holder works on is the one its identifier names: the   *)
(* lock keeps IPC_RMID away while the holder sleeps on a fault.            *)
HolderValid ==
    \A p \in Proc : pc[p] \in Locked => Valid(perm, call[p].id, MSGMNI)

(* A receiver that faults in copyout takes off the message it copied: it   *)
(* is still where it was found, and still the one the type selects.        *)
ReceiverStable ==
    \A p \in Proc : pc[p] \in {"copyout", "textout"} =>
        Some(p) /\ held[p] = Found(p)

(* No lost wakeup, one clause per channel: a sleeper sleeps only while     *)
(* what it waits for is missing and whoever brings it will wake it.        *)
LockSleepers ==
    \A p \in Proc : pc[p] = "asleep" /\ chan[p] = LockChan(p) => msglock[Q(p)]

HdrSleepers ==
    \A p \in Proc : pc[p] = "asleep" /\ chan[p] = <<"msgfp", 0>> => msgfp = 0

SegSleepers ==
    \A p \in Proc : pc[p] = "asleep" /\ chan[p] = <<"msgmap", 0>> =>
        msgmap.want /\ ~HasSegs(p)

Readers ==
    \A p \in Proc : pc[p] = "asleep" /\ chan[p][1] = "qnum" =>
        /\ Valid(perm, call[p].id, MSGMNI)
        /\ rwait[Q(p)] /\ ~Some(p)

(* MSG_WWAIT, msg.h:35 "a writer is waiting to send". *)
Writers ==
    \A p \in Proc : pc[p] = "asleep" /\ chan[p][1] = "qp" =>
        Valid(perm, call[p].id, MSGMNI) /\ wwait[Q(p)]

NoLostWakeup == LockSleepers /\ HdrSleepers /\ SegSleepers /\ Readers /\ Writers

(* A writer sleeps only while its message does not fit on the queue.       *)
WritersBlocked ==
    \A p \in Proc : pc[p] = "asleep" /\ chan[p][1] = "qp" => ~HasRoom(p)

-----------------------------------------------------------------------------
(* Msg implements MsgQueue.  A queue is gone for its users as soon as      *)
(* IPC_RMID starts on it.                                                  *)
Going(q) == \E p \in Proc : pc[p] = "rmid" /\ Q(p) = q

(* A message as its users see it, without the place of its text. *)
Seen(m) == [type |-> m.type, size |-> m.size]

Exists == [q \in Queue |-> perm[q].alloc /\ ~Going(q)]

Msgs == [q \in Queue |-> IF Going(q) THEN <<>>
                         ELSE [k \in 1 .. Len(mq[q]) |-> Seen(mq[q][k])]]

Limits == {MSGMNB} \cup {c.size : c \in {d \in Calls : d.cmd = "set"}}

Abstract == INSTANCE MsgQueue WITH
    exists <- Exists,
    msgs   <- Msgs,
    qbytes <- qbytes,
    Message  <- {Seen(c) : c \in {d \in Calls : d.cmd = "snd"}},
    MsgType  <- {c.type : c \in {d \in Calls : d.cmd = "rcv"}},
    Limit    <- Limits,
    NewLimit <- MSGMNB

(* Every step of msg.c is a step of the queues it promises, or none.       *)
ImplementsMsgQueue == Abstract!Spec

-----------------------------------------------------------------------------
(* A msgsnd has taken a header and segments for q, and is copying its text *)
(* in.                                                                     *)
Fills(p, q) == pc[p] \in {"text", "textin"} /\ Q(p) = q
Filled(q)   == \E p \in Proc : Fills(p, q)

Headers(q) == Len(mq[q]) + (IF Filled(q) THEN 1 ELSE 0)

(* Every message header is free, on a queue, or with the one msgsnd that   *)
(* is copying its text in.                                                 *)
HeadersConserved ==
    LET used[n \in 0 .. MSGMNI] == IF n = 0 THEN 0 ELSE used[n - 1] + Headers(n - 1)
    IN  msgfp + used[MSGMNI] = MSGTQL

(* The segments of a message, of the messages x = <<q, k>> on queues and   *)
(* of those being filled.                                                  *)
Segs(size, spot) == IF size = 0 THEN {} ELSE spot .. spot + Btoq(size) - 1

Texts     == UNION {{<<q, k>> : k \in 1 .. Len(mq[q])} : q \in Queue}
TextOf(x) == Segs(mq[x[1]][x[2]].size, mq[x[1]][x[2]].spot)
Fillers   == {p \in Proc : pc[p] \in {"text", "textin"}}
TextBy(p) == Segs(call[p].size, held[p])

(* Every segment is free in msgmap, in just one message on a queue, or     *)
(* with the msgsnd that fills it.                                          *)
SegmentsConserved ==
    /\ FreeUnits(msgmap) \cup (UNION {TextOf(x) : x \in Texts})
          \cup (UNION {TextBy(p) : p \in Fillers}) = 1 .. MSGSEG
    /\ \A x \in Texts : TextOf(x) \cap FreeUnits(msgmap) = {}
    /\ \A x, y \in Texts : x # y => TextOf(x) \cap TextOf(y) = {}
    /\ \A p \in Fillers : /\ TextBy(p) \cap FreeUnits(msgmap) = {}
                          /\ \A x \in Texts : TextOf(x) \cap TextBy(p) = {}
                          /\ \A r \in Fillers : r # p => TextBy(r) \cap TextBy(p) = {}

(* msg_cbytes is the bytes on the queue, whenever the queue is not being   *)
(* removed.                                                                *)
BytesExact == \A q \in Queue : ~Going(q) => cbytes[q] = Abstract!Bytes(mq[q])

(* The pools and the counts of a queue are exact after every success,      *)
(* failure and removal.                                                    *)
PoolsExact == HeadersConserved /\ SegmentsConserved /\ BytesExact

(* The loop of msgrcv (msg.c:413-432), with smp and 0 for NULL, leaves the *)
(* message the model calls Find, whatever is on a queue.                   *)
Scan(s, typ) ==
    LET smp[k \in 0 .. Len(s)] ==
          IF k = 0 THEN 0
          ELSE IF typ > 0
          THEN IF smp[k - 1] = 0 /\ s[k].type = typ THEN k ELSE smp[k - 1]
          ELSE IF s[k].type <= -typ /\ ~(smp[k - 1] # 0 /\ s[smp[k - 1]].type <= s[k].type)
          THEN k ELSE smp[k - 1]
    IN  IF typ # 0 THEN smp[Len(s)] ELSE IF s = <<>> THEN 0 ELSE 1

ScanFinds ==
    \A q \in Queue, typ \in {c.type : c \in Calls} :
        Scan(mq[q], typ) = IF AnyEligible(mq[q], typ) THEN Find(mq[q], typ) ELSE 0

=============================================================================
