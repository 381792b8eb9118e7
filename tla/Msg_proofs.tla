----------------------------- MODULE Msg_proofs ------------------------------
(***************************************************************************)
(* msg.c for every number of processes, queues, headers and segments.      *)
(* First msglock: the lock excludes, its holder works on the queue it      *)
(* named, and nobody sleeps for a lock that is free (LockInv).  Then the   *)
(* types, the message of a receiver and no lost wakeup (IInv); the scan of *)
(* msgrcv; the headers, msg_cbytes and the refinement of MsgQueue (DInv);  *)
(* the writers, if no limit is raised; and the segments (SegInv).          *)
(***************************************************************************)
EXTENDS Msg, ResourceMap_proofs, SequenceTheorems, FiniteSetTheorems

(* The part of the state the lock concerns has its types. *)
LockTypes ==
    /\ DOMAIN perm = Queue
    /\ msglock \in [Queue -> BOOLEAN]
    /\ pc \in [Proc -> Places]
    /\ next \in [Proc -> {"first", "again", "eintr"}]
    /\ DOMAIN call = Proc /\ \A p \in Proc : call[p].id \in Msqid
    /\ DOMAIN chan = Proc

(* The lock's waiters, as they are kept by the steps. *)
LockInv == LockTypes /\ MutualExclusion /\ HolderValid /\ LockSleepers

(* An identifier names an entry of the table. *)
LEMMA IndexType == ASSUME NEW id \in Msqid PROVE Index(id, MSGMNI) \in Queue
BY MsgAssumption DEF Index, Queue, Msqid

(* Nothing is locked by msginit. *)
LEMMA InitLock == Init => LockInv
<1> SUFFICES ASSUME Init PROVE LockInv OBVIOUS
<1>1. \A p \in Proc : pc[p] = "user" /\ "user" \notin Locked BY DEF Init, Locked, Faulted
<1>2. 0 \in Msqid BY MsgAssumption DEF Msqid
<1>3. LockTypes BY <1>2 DEF Init, LockTypes, Places, NoCall
<1>4. MutualExclusion BY <1>1 DEF Init, MutualExclusion
<1> QED BY <1>1, <1>3, <1>4 DEF LockInv, HolderValid, LockSleepers

-----------------------------------------------------------------------------
(* How a step of p changes the program counters: p goes to `to', others    *)
(* change only from asleep to woken.                                       *)
Runs(p, to) ==
    /\ pc' \in [Proc -> Places] /\ pc'[p] = to
    /\ \A r \in Proc \ {p} : pc'[r] = pc[r] \/ (pc[r] = "asleep" /\ pc'[r] = "woken")

(* What no step of p touches, and the types of what it may. *)
Frame(p) ==
    /\ DOMAIN call' = Proc /\ DOMAIN chan' = Proc
    /\ \A r \in Proc \ {p} : call'[r] = call[r] /\ chan'[r] = chan[r]
    /\ call'[p].id \in Msqid
    /\ next' \in [Proc -> {"first", "again", "eintr"}]

(* Sleepers are outside the lock. *)
LEMMA Outside ==
    /\ "asleep" \notin Locked /\ "woken" \notin Locked
    /\ "user" \notin Locked /\ "conv" \notin Locked
    /\ Locked \subseteq Places
    /\ {"user", "conv", "asleep", "woken"} \subseteq Places
BY DEF Locked, Faulted, Places

(* Moves is such a change, and leaves nobody asleep on C. *)
LEMMA MovesRuns ==
    ASSUME LockInv, NEW p \in Proc, NEW to \in Places, NEW C, Moves(p, to, C)
    PROVE  /\ Runs(p, to)
           /\ \A r \in Proc \ {p} : pc'[r] = "asleep" => pc[r] = "asleep" /\ chan[r] \notin C
<1>1. pc \in [Proc -> Places] BY DEF LockInv, LockTypes
<1>2. \A r \in Proc : pc'[r] = IF r = p THEN to
          ELSE IF pc[r] = "asleep" /\ chan[r] \in C THEN "woken" ELSE pc[r]
  BY DEF Moves
<1>3. pc' \in [Proc -> Places] BY <1>1, Outside DEF Moves
<1>4. \A r \in Proc \ {p} : pc'[r] = "asleep" => pc[r] = "asleep" /\ chan[r] \notin C
  BY <1>2
<1> QED BY <1>2, <1>3, <1>4 DEF Runs

(* p gives the lock of its queue back and wakes who waits for it. *)
LEMMA Release ==
    ASSUME LockInv, NEW p \in Proc, NEW to \in Places \ Locked,
           pc[p] \in Locked \/ ~msglock[Q(p)],
           Unlock(p), Runs(p, to), Frame(p),
           \A r \in Proc \ {p} : pc'[r] = "asleep" => pc[r] = "asleep" /\ chan[r] # LockChan(p),
           to = "asleep" => chan'[p][1] # "lock",
           DOMAIN perm' = Queue, \A q \in Queue \ {Q(p)} : perm'[q] = perm[q]
    PROVE  LockInv'
<1>1. LockTypes /\ MutualExclusion /\ HolderValid /\ LockSleepers BY DEF LockInv
<1>2. \A r \in Proc : call[r].id \in Msqid /\ Q(r) \in Queue /\ Q(r)' \in Queue
  BY <1>1, IndexType DEF LockTypes, Q, Frame
<1>3. \A r \in Proc \ {p} : Q(r)' = Q(r) BY DEF Frame, Q
<1>4. /\ msglock' \in [Queue -> BOOLEAN] /\ ~msglock'[Q(p)]
      /\ \A q \in Queue \ {Q(p)} : msglock'[q] = msglock[q]
  BY <1>1, <1>2 DEF LockTypes, Unlock
<1>5. \A r \in Proc : pc'[r] \in Locked => r # p /\ pc[r] \in Locked /\ Q(r) # Q(p)
  <2> SUFFICES ASSUME NEW r \in Proc, pc'[r] \in Locked
               PROVE  r # p /\ pc[r] \in Locked /\ Q(r) # Q(p)
    OBVIOUS
  <2>1. r # p /\ pc[r] \in Locked BY Outside DEF Runs
  <2>2. Q(r) # Q(p)
    <3>1. CASE pc[p] \in Locked BY <3>1, <2>1, <1>1, <1>2 DEF MutualExclusion
    <3>2. CASE ~msglock[Q(p)] BY <3>2, <2>1, <1>1, <1>2 DEF MutualExclusion
    <3> QED BY <3>1, <3>2
  <2> QED BY <2>1, <2>2
<1>6. \A r \in Proc : r # p /\ pc[r] \in Locked => pc'[r] \in Locked BY Outside DEF Runs
<1>7. LockTypes'
  <2>1. \A r \in Proc : call'[r].id \in Msqid BY <1>1 DEF LockTypes, Frame
  <2> QED BY <2>1, <1>4 DEF LockTypes, Frame, Runs
<1>8. MutualExclusion'
  <2> SUFFICES ASSUME NEW q \in Queue
        PROVE  /\ msglock'[q] <=> \E r \in Proc : pc'[r] \in Locked /\ Q(r)' = q
               /\ \A r, s \in Proc : pc'[r] \in Locked /\ pc'[s] \in Locked
                                     /\ Q(r)' = q /\ Q(s)' = q => r = s
    BY DEF MutualExclusion
  <2>1. /\ msglock[q] <=> \E r \in Proc : pc[r] \in Locked /\ Q(r) = q
        /\ \A r, s \in Proc : pc[r] \in Locked /\ pc[s] \in Locked
                              /\ Q(r) = q /\ Q(s) = q => r = s
    BY <1>1 DEF MutualExclusion
  <2>2. CASE q = Q(p) BY <2>2, <1>3, <1>4, <1>5
  <2>3. CASE q # Q(p) BY <2>1, <2>3, <1>3, <1>4, <1>5, <1>6
  <2> QED BY <2>2, <2>3
<1>9. HolderValid'
  <2> SUFFICES ASSUME NEW r \in Proc, pc'[r] \in Locked
               PROVE  Valid(perm', call'[r].id, MSGMNI)
    BY DEF HolderValid
  <2>1. Valid(perm, call[r].id, MSGMNI) BY <1>1, <1>5 DEF HolderValid
  <2>2. call'[r] = call[r] /\ perm'[Q(r)] = perm[Q(r)] BY <1>2, <1>5 DEF Frame
  <2> QED BY <2>1, <2>2 DEF Valid, Q
<1>10. LockSleepers'
  <2> SUFFICES ASSUME NEW r \in Proc, pc'[r] = "asleep", chan'[r] = <<"lock", Q(r)'>>
               PROVE  msglock'[Q(r)']
    BY DEF LockSleepers, LockChan
  <2>1. r # p BY DEF Runs
  <2>2. pc[r] = "asleep" /\ chan[r] # LockChan(p) /\ chan'[r] = chan[r] /\ Q(r)' = Q(r)
    BY <2>1, <1>3 DEF Frame
  <2>3. msglock[Q(r)] BY <2>2, <1>1 DEF LockSleepers, LockChan
  <2>4. Q(r) # Q(p) BY <2>2 DEF LockChan
  <2> QED BY <2>2, <2>3, <2>4, <1>2, <1>4
<1> QED BY <1>7, <1>8, <1>9, <1>10 DEF LockInv

(* p neither takes nor releases a lock; entries in use keep their msg_perm. *)
LEMMA Stay ==
    ASSUME LockInv, NEW p \in Proc, NEW to \in Places, Runs(p, to), Frame(p),
           msglock' = msglock, to \in Locked <=> pc[p] \in Locked,
           to \in Locked => call'[p].id = call[p].id,
           to = "asleep" /\ chan'[p] = LockChan(p)' => msglock[Q(p)'],
           DOMAIN perm' = Queue, \A q \in Queue : perm[q].alloc => perm'[q] = perm[q]
    PROVE  LockInv'
<1>1. LockTypes /\ MutualExclusion /\ HolderValid /\ LockSleepers BY DEF LockInv
<1>2. \A r \in Proc : call[r].id \in Msqid /\ Q(r) \in Queue
  BY <1>1, IndexType DEF LockTypes, Q
<1>3. \A r \in Proc \ {p} : Q(r)' = Q(r) BY DEF Frame, Q
<1>4. \A r \in Proc : /\ pc'[r] \in Locked <=> pc[r] \in Locked
                      /\ pc[r] \in Locked => call'[r].id = call[r].id /\ Q(r)' = Q(r)
  <2> SUFFICES ASSUME NEW r \in Proc
        PROVE  /\ pc'[r] \in Locked <=> pc[r] \in Locked
               /\ pc[r] \in Locked => call'[r].id = call[r].id /\ Q(r)' = Q(r)
    OBVIOUS
  <2>1. CASE r = p BY <2>1 DEF Runs, Q
  <2>2. CASE r # p BY <2>2, <1>3, Outside DEF Runs, Frame
  <2> QED BY <2>1, <2>2
<1>5. LockTypes'
  <2>1. \A r \in Proc : call'[r].id \in Msqid BY <1>1 DEF LockTypes, Frame
  <2> QED BY <2>1, <1>1 DEF LockTypes, Frame, Runs
<1>6. MutualExclusion' BY <1>1, <1>4 DEF MutualExclusion
<1>7. HolderValid'
  <2> SUFFICES ASSUME NEW r \in Proc, pc'[r] \in Locked
               PROVE  Valid(perm', call'[r].id, MSGMNI)
    BY DEF HolderValid
  <2>1. Valid(perm, call[r].id, MSGMNI) /\ call'[r].id = call[r].id
    BY <1>1, <1>4 DEF HolderValid
  <2>2. perm'[Q(r)] = perm[Q(r)] BY <2>1, <1>2 DEF Valid, Q
  <2> QED BY <2>1, <2>2 DEF Valid, Q
<1>8. LockSleepers'
  <2> SUFFICES ASSUME NEW r \in Proc, pc'[r] = "asleep", chan'[r] = <<"lock", Q(r)'>>
               PROVE  msglock'[Q(r)']
    BY DEF LockSleepers, LockChan
  <2>1. CASE r = p BY <2>1 DEF Runs, LockChan
  <2>2. CASE r # p
    <3>1. pc[r] = "asleep" /\ chan'[r] = chan[r] /\ Q(r)' = Q(r)
      BY <2>2, <1>3 DEF Runs, Frame
    <3> QED BY <3>1, <1>1 DEF LockSleepers, LockChan
  <2> QED BY <2>1, <2>2
<1> QED BY <1>5, <1>6, <1>7, <1>8 DEF LockInv

(* msgconv takes a lock that is free. *)
LEMMA Take == ASSUME LockInv, NEW p \in Proc, ConvLocks(p) PROVE LockInv'
<1>1. LockTypes /\ MutualExclusion /\ HolderValid /\ LockSleepers BY DEF LockInv
<1>2. \A r \in Proc : call[r].id \in Msqid /\ Q(r) \in Queue
  BY <1>1, IndexType DEF LockTypes, Q
<1>3. /\ pc[p] = "conv" /\ ~msglock[Q(p)] /\ Valid(perm, call[p].id, MSGMNI)
      /\ pc' = [pc EXCEPT ![p] = next[p]]
      /\ msglock' = [msglock EXCEPT ![Q(p)] = TRUE]
      /\ perm' = perm /\ next' = next /\ call' = call /\ chan' = chan
  BY DEF ConvLocks, Running, msgque
<1>4. next[p] \in Locked BY <1>1 DEF LockTypes, Locked
<1>5. /\ pc' \in [Proc -> Places] /\ pc'[p] \in Locked
      /\ \A r \in Proc \ {p} : pc'[r] = pc[r]
  BY <1>1, <1>3, <1>4, Outside DEF LockTypes
<1>6. /\ msglock' \in [Queue -> BOOLEAN] /\ msglock'[Q(p)]
      /\ \A q \in Queue \ {Q(p)} : msglock'[q] = msglock[q]
  BY <1>1, <1>2, <1>3 DEF LockTypes
<1>7. \A r \in Proc : Q(r)' = Q(r) BY <1>3 DEF Q
<1>8. \A r \in Proc : pc[r] \in Locked => Q(r) # Q(p)
  BY <1>1, <1>2, <1>3 DEF MutualExclusion
<1>9. LockTypes' BY <1>1, <1>3, <1>5, <1>6 DEF LockTypes
<1>10. MutualExclusion'
  <2> SUFFICES ASSUME NEW q \in Queue
        PROVE  /\ msglock'[q] <=> \E r \in Proc : pc'[r] \in Locked /\ Q(r)' = q
               /\ \A r, s \in Proc : pc'[r] \in Locked /\ pc'[s] \in Locked
                                     /\ Q(r)' = q /\ Q(s)' = q => r = s
    BY DEF MutualExclusion
  <2>1. /\ msglock[q] <=> \E r \in Proc : pc[r] \in Locked /\ Q(r) = q
        /\ \A r, s \in Proc : pc[r] \in Locked /\ pc[s] \in Locked
                              /\ Q(r) = q /\ Q(s) = q => r = s
    BY <1>1 DEF MutualExclusion
  <2>2. CASE q = Q(p) BY <2>2, <1>5, <1>6, <1>7, <1>8
  <2>3. CASE q # Q(p) BY <2>1, <2>3, <1>3, <1>5, <1>6, <1>7, Outside
  <2> QED BY <2>2, <2>3
<1>11. HolderValid'
  BY <1>1, <1>3, <1>5 DEF HolderValid, Valid
<1>12. LockSleepers'
  <2> SUFFICES ASSUME NEW r \in Proc, pc'[r] = "asleep", chan'[r] = <<"lock", Q(r)'>>
               PROVE  msglock'[Q(r)']
    BY DEF LockSleepers, LockChan
  <2>1. r # p /\ pc[r] = "asleep" BY <1>5, Outside
  <2>2. msglock[Q(r)] BY <2>1, <1>1, <1>3, <1>7 DEF LockSleepers, LockChan
  <2> QED BY <2>2, <1>2, <1>6, <1>7
<1> QED BY <1>9, <1>10, <1>11, <1>12 DEF LockInv

-----------------------------------------------------------------------------
(* The ways a handler ends or pauses. *)

(* The exits: the call is over. *)
LEMMA OutStep ==
    ASSUME LockInv, NEW p \in Proc, NEW C, pc[p] \in Locked \/ ~msglock[Q(p)], Out(p, C),
           DOMAIN perm' = Queue, \A q \in Queue \ {Q(p)} : perm'[q] = perm[q]
    PROVE  LockInv'
<1>1. LockTypes BY DEF LockInv
<1>2. Unlock(p) /\ Moves(p, "user", C \cup {LockChan(p)}) /\ Forget(p) BY DEF Out
<1>3. Frame(p) BY <1>1, <1>2, MsgAssumption DEF Frame, Forget, LockTypes, NoCall, Msqid
<1>4. /\ Runs(p, "user")
      /\ \A r \in Proc \ {p} : pc'[r] = "asleep" => pc[r] = "asleep"
                                /\ chan[r] \notin C \cup {LockChan(p)}
  BY <1>2, MovesRuns, Outside
<1>5. \A r \in Proc \ {p} : pc'[r] = "asleep" => pc[r] = "asleep" /\ chan[r] # LockChan(p)
  BY <1>4
<1>6. "user" \in Places \ Locked BY Outside
<1> QED BY <1>2, <1>3, <1>4, <1>5, <1>6, Release

(* A sleep for room, a header, segments or a message. *)
LEMMA SleepOnStep ==
    ASSUME LockInv, NEW p \in Proc, NEW c, NEW D, pc[p] \in Locked, SleepOn(p, c, D),
           c[1] # "lock", perm' = perm
    PROVE  LockInv'
<1>1. LockTypes BY DEF LockInv
<1> DEFINE to == IF sig[p] THEN "woken" ELSE "asleep"
<1>2. /\ Unlock(p) /\ Moves(p, to, D \cup {LockChan(p)})
      /\ chan' = [chan EXCEPT ![p] = c] /\ next' = next /\ call' = call
  BY DEF SleepOn
<1>3. Frame(p) /\ chan'[p] = c BY <1>1, <1>2 DEF Frame, LockTypes
<1>4. to \in Places \ Locked BY Outside
<1> HIDE DEF to
<1>5. /\ Runs(p, to)
      /\ \A r \in Proc \ {p} : pc'[r] = "asleep" => pc[r] = "asleep"
                                /\ chan[r] \notin D \cup {LockChan(p)}
  BY <1>2, <1>4, MovesRuns
<1>6. \A r \in Proc \ {p} : pc'[r] = "asleep" => pc[r] = "asleep" /\ chan[r] # LockChan(p)
  BY <1>5
<1>7. DOMAIN perm' = Queue /\ \A q \in Queue \ {Q(p)} : perm'[q] = perm[q]
  BY <1>1 DEF LockTypes
<1> QED BY <1>2, <1>3, <1>4, <1>5, <1>6, <1>7, Release

(* Unlock and back to msgconv. *)
LEMMA RelockStep ==
    ASSUME LockInv, NEW p \in Proc, pc[p] \in Locked, Relock(p), perm' = perm
    PROVE  LockInv'
<1>1. LockTypes BY DEF LockInv
<1>2. /\ Unlock(p) /\ Moves(p, "conv", {LockChan(p)})
      /\ next' = [next EXCEPT ![p] = "again"] /\ call' = call /\ chan' = chan
  BY DEF Relock
<1>3. Frame(p) BY <1>1, <1>2 DEF Frame, LockTypes
<1>4. "conv" \in Places \ Locked BY Outside
<1>5. /\ Runs(p, "conv")
      /\ \A r \in Proc \ {p} : pc'[r] = "asleep" => pc[r] = "asleep"
                                /\ chan[r] \notin {LockChan(p)}
  BY <1>2, <1>4, MovesRuns
<1>6. DOMAIN perm' = Queue /\ \A q \in Queue \ {Q(p)} : perm'[q] = perm[q]
  BY <1>1 DEF LockTypes
<1> QED BY <1>2, <1>3, <1>4, <1>5, <1>6, Release

(* p moves alone, under the lock or outside it. *)
LEMMA MoveStep ==
    ASSUME LockInv, NEW p \in Proc, NEW to \in Places, pc' = [pc EXCEPT ![p] = to],
           to \in Locked <=> pc[p] \in Locked, Frame(p), msglock' = msglock,
           to \in Locked => call'[p].id = call[p].id,
           to = "asleep" /\ chan'[p] = LockChan(p)' => msglock[Q(p)'],
           DOMAIN perm' = Queue, \A q \in Queue : perm[q].alloc => perm'[q] = perm[q]
    PROVE  LockInv'
<1>1. LockTypes BY DEF LockInv
<1>2. Runs(p, to) BY <1>1 DEF Runs, LockTypes
<1> QED BY <1>2, Stay

(* A step under the lock that leaves it and the call alone. *)
LEMMA InsideStep ==
    ASSUME LockInv, NEW p \in Proc, NEW to \in Locked, pc[p] \in Locked,
           pc' = [pc EXCEPT ![p] = to], msglock' = msglock, perm' = perm,
           next' = next, call' = call, chan' = chan
    PROVE  LockInv'
<1>1. LockTypes BY DEF LockInv
<1>2. Frame(p) BY <1>1 DEF Frame, LockTypes
<1>3. DOMAIN perm' = Queue /\ \A q \in Queue : perm[q].alloc => perm'[q] = perm[q]
  BY <1>1 DEF LockTypes
<1>4. to \in Places /\ to # "asleep" BY Outside
<1> QED BY <1>2, <1>3, <1>4, MoveStep

(* A page fault. *)
LEMMA FaultStep ==
    ASSUME LockInv, NEW p \in Proc, NEW to \in Locked, pc[p] \in Locked, Fault(p, to)
    PROVE  LockInv'
BY InsideStep DEF Fault, msgque

-----------------------------------------------------------------------------
(* The steps of calls that enter, of msgconv and of sleepers. *)
LEMMA CallStep == ASSUME LockInv, NEW p \in Proc, Call(p) PROVE LockInv'
<1>1. LockTypes BY DEF LockInv
<1>2. ASSUME NEW key \in Key, NEW creat \in BOOLEAN, Msgget(p, key, creat) PROVE LockInv'
  <2>1. PICK q \in Queue :
          /\ Creates(perm, key, creat, MSGMNI, q)
          /\ perm' = [perm EXCEPT ![q] = [alloc |-> TRUE, key |-> key, seq |-> perm[q].seq]]
    BY <1>2 DEF Msgget
  <2>2. ~perm[q].alloc BY <2>1 DEF Creates, Unused
  <2>3. DOMAIN perm' = Queue /\ \A x \in Queue : perm[x].alloc => perm'[x] = perm[x]
    BY <1>1, <2>1, <2>2 DEF LockTypes
  <2>4. /\ pc[p] = "user" /\ pc' = pc /\ msglock' = msglock
        /\ next' = next /\ call' = call /\ chan' = chan
    BY <1>2 DEF Msgget, Enters
  <2>5. pc' = [pc EXCEPT ![p] = "user"] BY <1>1, <2>4 DEF LockTypes
  <2>6. Frame(p) BY <1>1, <2>4 DEF Frame, LockTypes
  <2> QED BY <2>3, <2>4, <2>5, <2>6, MoveStep, Outside
<1>3. ASSUME NEW id \in Msqid, NEW c \in Calls, Msgsys(p, id, c) PROVE LockInv'
  <2>1. /\ pc[p] = "user" /\ pc' = [pc EXCEPT ![p] = "conv"] /\ msglock' = msglock
        /\ next' = next /\ chan' = chan /\ perm' = perm
        /\ call' = [call EXCEPT ![p] =
                      [cmd |-> c.cmd, id |-> id, type |-> c.type, size |-> c.size,
                       nowait |-> c.nowait, trunc |-> c.trunc]]
    BY <1>3 DEF Msgsys, Enters, msgque
  <2>2. Frame(p) BY <1>1, <2>1 DEF Frame, LockTypes
  <2>3. DOMAIN perm' = Queue /\ \A x \in Queue : perm[x].alloc => perm'[x] = perm[x]
    BY <1>1, <2>1 DEF LockTypes
  <2> QED BY <2>1, <2>2, <2>3, MoveStep, Outside
<1> QED BY <1>2, <1>3 DEF Call

(* msgconv finds the lock taken: p waits for it, or leaves on a signal. *)
LEMMA ConvSleepsStep == ASSUME LockInv, NEW p \in Proc, ConvSleeps(p) PROVE LockInv'
<1>1. LockTypes BY DEF LockInv
<1>2. pc[p] = "conv" /\ msglock[Q(p)] /\ msglock' = msglock /\ perm' = perm
  BY DEF ConvSleeps, Running, msgque
<1>3. DOMAIN perm' = Queue /\ \A x \in Queue : perm[x].alloc => perm'[x] = perm[x]
  BY <1>1, <1>2 DEF LockTypes
<1>4. CASE ~sig[p]
  <2>1. /\ pc' = [pc EXCEPT ![p] = "asleep"] /\ next' = next /\ call' = call
        /\ chan' = [chan EXCEPT ![p] = LockChan(p)]
    BY <1>4 DEF ConvSleeps
  <2>2. Frame(p) /\ Q(p)' = Q(p) BY <1>1, <2>1 DEF Frame, LockTypes, Q
  <2> QED BY <1>2, <1>3, <2>1, <2>2, MoveStep, Outside
<1>5. CASE sig[p]
  <2>1. pc' = [pc EXCEPT ![p] = "user"] /\ Forget(p) BY <1>5 DEF ConvSleeps
  <2>2. Frame(p) BY <1>1, <2>1, MsgAssumption DEF Frame, Forget, LockTypes, NoCall, Msqid
  <2> QED BY <1>2, <1>3, <2>1, <2>2, MoveStep, Outside
<1> QED BY <1>4, <1>5

(* A sleeper runs again, outside the lock. *)
LEMMA ResumeStep == ASSUME LockInv, NEW p \in Proc, Resume(p) PROVE LockInv'
<1>1. LockTypes BY DEF LockInv
<1>2. pc[p] = "woken" /\ msglock' = msglock /\ perm' = perm BY DEF Resume, msgque
<1>3. DOMAIN perm' = Queue /\ \A x \in Queue : perm[x].alloc => perm'[x] = perm[x]
  BY <1>1, <1>2 DEF LockTypes
<1>4. CASE pc' = [pc EXCEPT ![p] = "user"] /\ Forget(p)
  <2>1. Frame(p) BY <1>1, <1>4, MsgAssumption DEF Frame, Forget, LockTypes, NoCall, Msqid
  <2> QED BY <1>2, <1>3, <1>4, <2>1, MoveStep, Outside
<1>5. CASE /\ pc' = [pc EXCEPT ![p] = "conv"] /\ call' = call /\ chan' = chan
           /\ next' \in {next, [next EXCEPT ![p] = "eintr"]}
  <2>1. Frame(p) BY <1>1, <1>5 DEF Frame, LockTypes
  <2> QED BY <1>2, <1>3, <1>5, <2>1, MoveStep, Outside
<1> QED BY <1>4, <1>5 DEF Resume

(* A signal moves a process only from asleep to woken. *)
LEMMA SignalStep == ASSUME LockInv, NEW p \in Proc, Signal(p) PROVE LockInv'
<1>1. LockTypes BY DEF LockInv
<1> DEFINE to == IF pc[p] = "asleep" THEN "woken" ELSE pc[p]
<1>2. /\ pc' = [pc EXCEPT ![p] = to] /\ msglock' = msglock /\ perm' = perm
      /\ next' = next /\ call' = call /\ chan' = chan
  BY DEF Signal, msgque
<1>3. DOMAIN perm' = Queue /\ \A x \in Queue : perm[x].alloc => perm'[x] = perm[x]
  BY <1>1, <1>2 DEF LockTypes
<1>4. Frame(p) BY <1>1, <1>2 DEF Frame, LockTypes
<1>5. to \in Places /\ (to \in Locked <=> pc[p] \in Locked) /\ to # "asleep"
  BY <1>1, Outside DEF LockTypes
<1> QED BY <1>2, <1>3, <1>4, <1>5, MoveStep

(* The exit of a handler that leaves every msg_perm alone. *)
LEMMA PlainOut ==
    ASSUME LockInv, NEW p \in Proc, NEW C, pc[p] \in Locked, Out(p, C), perm' = perm
    PROVE  LockInv'
BY OutStep DEF LockInv, LockTypes

-----------------------------------------------------------------------------
(* The steps under the lock.  Where they are, and the places they go to:   *)
LEMMA LockedPlaces ==
    {"first", "eintr", "again", "text", "copyout", "rmid",
     "typein", "textin", "textout", "setin", "statout"} \subseteq Locked
BY DEF Locked, Faulted

(* msgsnd *)
LEMMA SndStep ==
    ASSUME LockInv, NEW p \in Proc,
           \/ SndFirst(p) \/ Typein(p) \/ SndNoRoom(p) \/ SndNoHdr(p) \/ SndNoSegs(p)
           \/ SndTakes(p) \/ SndText(p) \/ Textin(p) \/ Eintr(p)
    PROVE  LockInv'
<1>1. CASE SndFirst(p)
  BY <1>1, FaultStep, RelockStep, LockedPlaces DEF SndFirst, Running, msgque
<1>2. CASE Typein(p)
  BY <1>2, PlainOut, RelockStep, LockedPlaces DEF Typein, msgque
<1>3. CASE SndNoRoom(p)
  <2>1. pc[p] \in Locked /\ perm' = perm BY <1>3, LockedPlaces DEF SndNoRoom, Snd, Running
  <2>2. Out(p, {}) \/ SleepOn(p, <<"qp", Q(p)>>, {}) BY <1>3 DEF SndNoRoom
  <2>3. <<"qp", Q(p)>>[1] # "lock" OBVIOUS
  <2> QED BY <2>1, <2>2, <2>3, PlainOut, SleepOnStep
<1>4. CASE SndNoHdr(p)
  <2>1. pc[p] \in Locked /\ perm' = perm
    BY <1>4, LockedPlaces DEF SndNoHdr, Snd, Running, msgque
  <2>2. Out(p, {}) \/ SleepOn(p, <<"msgfp", 0>>, {}) BY <1>4 DEF SndNoHdr
  <2>3. <<"msgfp", 0>>[1] # "lock" OBVIOUS
  <2> QED BY <2>1, <2>2, <2>3, PlainOut, SleepOnStep
<1>5. CASE SndNoSegs(p)
  <2>1. pc[p] \in Locked /\ perm' = perm
    BY <1>5, LockedPlaces DEF SndNoSegs, Snd, Running, msgque
  <2>2. PICK C : Out(p, C) \/ SleepOn(p, <<"msgmap", 0>>, C) BY <1>5 DEF SndNoSegs
  <2>3. <<"msgmap", 0>>[1] # "lock" OBVIOUS
  <2> QED BY <2>1, <2>2, <2>3, PlainOut, SleepOnStep
<1>6. CASE SndTakes(p)
  BY <1>6, InsideStep, LockedPlaces DEF SndTakes, Snd, Running, msgque
<1>7. ASSUME pc[p] \in {"text", "textin"}, Enqueue(p) \/ CopyinFails(p) PROVE LockInv'
  <2>1. pc[p] \in Locked /\ perm' = perm
    BY <1>7, LockedPlaces DEF Enqueue, CopyinFails, msgque
  <2>2. \E C : Out(p, C) BY <1>7 DEF Enqueue, CopyinFails
  <2> QED BY <2>1, <2>2, PlainOut
<1>8. CASE SndText(p)
  BY <1>7, <1>8, FaultStep, LockedPlaces DEF SndText, Running
<1>9. CASE Textin(p) BY <1>7, <1>9 DEF Textin
<1>10. CASE Eintr(p)
  <2>1. pc[p] \in Locked /\ perm' = perm BY <1>10, LockedPlaces DEF Eintr, Running
  <2>2. \E C : Out(p, C) BY <1>10 DEF Eintr
  <2> QED BY <2>1, <2>2, PlainOut
<1> QED BY <1>1, <1>2, <1>3, <1>4, <1>5, <1>6, <1>8, <1>9, <1>10

(* msgrcv *)
LEMMA RcvStep ==
    ASSUME LockInv, NEW p \in Proc,
           \/ RcvFirst(p) \/ RcvNone(p) \/ RcvTooBig(p) \/ RcvFinds(p)
           \/ RcvCopyout(p) \/ Textout(p)
    PROVE  LockInv'
<1>1. CASE RcvFirst(p)
  BY <1>1, RelockStep, LockedPlaces DEF RcvFirst, Running, msgque
<1>2. CASE RcvNone(p)
  <2>1. pc[p] \in Locked /\ perm' = perm BY <1>2, LockedPlaces DEF RcvNone, Rcv, Running
  <2>2. Out(p, {}) \/ SleepOn(p, <<"qnum", Q(p)>>, {}) BY <1>2 DEF RcvNone
  <2>3. <<"qnum", Q(p)>>[1] # "lock" OBVIOUS
  <2> QED BY <2>1, <2>2, <2>3, PlainOut, SleepOnStep
<1>3. CASE RcvTooBig(p)
  BY <1>3, PlainOut, LockedPlaces DEF RcvTooBig, Rcv, Running, msgque
<1>4. CASE RcvFinds(p)
  BY <1>4, InsideStep, LockedPlaces DEF RcvFinds, Rcv, Running, msgque
<1>5. ASSUME pc[p] \in {"copyout", "textout"}, Dequeue(p) \/ CopyoutFails(p) PROVE LockInv'
  <2>1. pc[p] \in Locked /\ perm' = perm
    BY <1>5, LockedPlaces DEF Dequeue, CopyoutFails, msgque
  <2>2. \E C : Out(p, C) BY <1>5 DEF Dequeue, CopyoutFails
  <2> QED BY <2>1, <2>2, PlainOut
<1>6. CASE RcvCopyout(p)
  BY <1>5, <1>6, FaultStep, LockedPlaces DEF RcvCopyout, Running
<1>7. CASE Textout(p) BY <1>5, <1>7 DEF Textout
<1> QED BY <1>1, <1>2, <1>3, <1>4, <1>6, <1>7

(* msgctl.  IPC_RMID changes the msg_perm of the queue it has locked. *)
LEMMA CtlStep ==
    ASSUME LockInv, NEW p \in Proc,
           \/ FirstFails(p) \/ RmidFirst(p) \/ RmidFree(p) \/ RmidDone(p)
           \/ SetFirst(p) \/ Setin(p) \/ StatFirst(p) \/ Statout(p)
    PROVE  LockInv'
<1> USE LockedPlaces
<1>1. LockTypes BY DEF LockInv
<1>2. CASE FirstFails(p) BY <1>2, PlainOut DEF FirstFails, Running, msgque
<1>3. CASE RmidFirst(p) BY <1>3, InsideStep DEF RmidFirst, Running, msgque
<1>4. CASE RmidFree(p)
  <2>1. /\ pc[p] = "rmid" /\ perm' = perm /\ msglock' = msglock /\ next' = next
        /\ call' = call /\ chan' = chan /\ Moves(p, "rmid", FreeWakes(Q(p), 1))
    BY <1>4 DEF RmidFree, Running
  <2>2. Runs(p, "rmid") BY <2>1, MovesRuns, Outside
  <2>3. Frame(p) BY <1>1, <2>1 DEF Frame, LockTypes
  <2>4. DOMAIN perm' = Queue /\ \A q \in Queue : perm[q].alloc => perm'[q] = perm[q]
    BY <1>1, <2>1 DEF LockTypes
  <2> QED BY <2>1, <2>2, <2>3, <2>4, Stay, Outside
<1>5. CASE RmidDone(p)
  <2>1. PICK C, x : /\ pc[p] = "rmid" /\ Out(p, C) /\ perm' = [perm EXCEPT ![Q(p)] = x]
    BY <1>5 DEF RmidDone, Running
  <2>2. DOMAIN perm' = Queue /\ \A q \in Queue \ {Q(p)} : perm'[q] = perm[q]
    BY <1>1, <2>1 DEF LockTypes
  <2> QED BY <2>1, <2>2, OutStep
<1>6. ASSUME pc[p] \in Locked, SetLimit(p) PROVE LockInv'
  BY <1>6, PlainOut DEF SetLimit
<1>7. CASE SetFirst(p) BY <1>6, <1>7, FaultStep DEF SetFirst, Running
<1>8. CASE Setin(p) BY <1>6, <1>8, PlainOut DEF Setin, msgque
<1>9. CASE StatFirst(p) BY <1>9, PlainOut, FaultStep DEF StatFirst, Running, msgque
<1>10. CASE Statout(p) BY <1>10, PlainOut DEF Statout, msgque
<1> QED BY <1>2, <1>3, <1>4, <1>5, <1>7, <1>8, <1>9, <1>10

-----------------------------------------------------------------------------
(* Every step of every call keeps the lock's invariant. *)
LEMMA NextLock == LockInv /\ [Next]_vars => LockInv'
<1> SUFFICES ASSUME LockInv, [Next]_vars PROVE LockInv' OBVIOUS
<1>1. ASSUME NEW p \in Proc, Call(p) \/ Step(p) \/ Continue(p) \/ Signal(p) PROVE LockInv'
  <2>1. CASE Call(p) BY <2>1, CallStep
  <2>2. CASE Step(p)
    <3>1. CASE ConvFails(p)
      <4>1. ~msglock[Q(p)] /\ Out(p, {}) /\ perm' = perm BY <3>1 DEF ConvFails, msgque
      <4> QED BY <4>1, OutStep DEF LockInv, LockTypes
    <3>2. CASE ~ConvFails(p)
      BY <2>2, <3>2, ConvSleepsStep, Take, SndStep, RcvStep, CtlStep DEF Step
    <3> QED BY <3>1, <3>2
  <2>3. CASE Continue(p) BY <2>3, ResumeStep, SndStep, RcvStep, CtlStep DEF Continue
  <2>4. CASE Signal(p) BY <2>4, SignalStep
  <2> QED BY <1>1, <2>1, <2>2, <2>3, <2>4
<1>2. CASE UNCHANGED vars
  <2>1. /\ perm' = perm /\ msglock' = msglock /\ pc' = pc /\ next' = next
        /\ call' = call /\ chan' = chan
    BY <1>2 DEF vars, msgque
  <2> QED BY <2>1 DEF LockInv, LockTypes, MutualExclusion, HolderValid, LockSleepers,
                       Q, LockChan
<1> QED BY <1>1, <1>2 DEF Next

(* The lock's invariant holds of every reachable state of msg.c. *)
THEOREM LockInvariant == Spec => []LockInv
BY InitLock, NextLock, PTL DEF Spec

(* msglock excludes across page faults and sleeps, for every number of     *)
(* processes and queues, and is set just while somebody is inside.         *)
THEOREM LockExcludes == Spec => []MutualExclusion
<1>1. LockInv => MutualExclusion BY DEF LockInv
<1> QED BY <1>1, LockInvariant, PTL

(* A call works on the queue its identifier names as long as it has the    *)
(* lock, whatever is removed and made in the meantime.                     *)
THEOREM HoldersValid == Spec => []HolderValid
<1>1. LockInv => HolderValid BY DEF LockInv
<1> QED BY <1>1, LockInvariant, PTL

(* Nobody sleeps in msgconv for a lock that is free. *)
THEOREM LockSleepersNoticed == Spec => []LockSleepers
<1>1. LockInv => LockSleepers BY DEF LockInv
<1> QED BY <1>1, LockInvariant, PTL

-----------------------------------------------------------------------------
(***************************************************************************)
(* TypeOK in two parts: what the queues and pools hold, and the processes. *)
(***************************************************************************)
ShareTypes ==
    /\ perm \in [Queue -> Perm]
    /\ qbytes \in [Queue -> Nat]
    /\ cbytes \in [Queue -> Int]
    /\ rwait \in [Queue -> BOOLEAN]
    /\ wwait \in [Queue -> BOOLEAN]
    /\ mq \in [Queue -> Seq(Message)]
    /\ msgfp \in Nat
    /\ Shape(msgmap)

ProcTypes ==
    /\ msglock \in [Queue -> BOOLEAN]
    /\ pc \in [Proc -> Places]
    /\ next \in [Proc -> {"first", "again", "eintr"}]
    /\ call \in [Proc -> CallType]
    /\ chan \in [Proc -> Chan \cup {NULL}]
    /\ held \in [Proc -> Nat]
    /\ sig \in [Proc -> BOOLEAN]
    /\ cpu \in Proc \cup {NULL}

(* A process asleep in msg.c sleeps on a channel of its own queue or of a  *)
(* pool, and what it waits for is missing and announced.                   *)
Sleeper(r) ==
    /\ chan[r] \in {<<"lock", Q(r)>>, <<"qp", Q(r)>>, <<"qnum", Q(r)>>,
                    <<"msgfp", 0>>, <<"msgmap", 0>>}
    /\ chan[r] = <<"msgfp", 0>> => msgfp = 0
    /\ chan[r] = <<"msgmap", 0>> => msgmap.want /\ ~HasSegs(r)
    /\ chan[r] = <<"qnum", Q(r)>> => /\ Valid(perm, call[r].id, MSGMNI)
                                     /\ rwait[Q(r)] /\ ~Some(r)
    /\ chan[r] = <<"qp", Q(r)>> => Valid(perm, call[r].id, MSGMNI) /\ wwait[Q(r)]

(* A process between finding a message and taking it off the queue. *)
Receives(r) == Some(r) /\ held[r] = Found(r)

(* A message is sent with a positive type, by a msgsnd. *)
Sends(r) == /\ call[r].cmd = "snd" => call[r].type > 0
            /\ pc[r] \in {"text", "textin"} => call[r].cmd = "snd"

IInv ==
    /\ LockInv /\ ShareTypes /\ ProcTypes
    /\ \A r \in Proc : /\ Sends(r)
                       /\ pc[r] \in {"copyout", "textout"} => Receives(r)
                       /\ pc[r] = "asleep" => Sleeper(r)

-----------------------------------------------------------------------------
(* The inductive invariant gives what the runs check. *)
LEMMA Consequences == IInv => TypeOK /\ ReceiverStable /\ NoLostWakeup
<1> SUFFICES ASSUME IInv PROVE TypeOK /\ ReceiverStable /\ NoLostWakeup OBVIOUS
<1>1. TypeOK BY DEF IInv, TypeOK, ShareTypes, ProcTypes, Shape
<1>2. ReceiverStable BY DEF IInv, ReceiverStable, Receives
<1>3. LockSleepers BY DEF IInv, LockInv
<1>4. ASSUME NEW p \in Proc, pc[p] = "asleep" PROVE Sleeper(p) BY <1>4 DEF IInv
<1>5. HdrSleepers BY <1>4 DEF HdrSleepers, Sleeper
<1>6. SegSleepers BY <1>4 DEF SegSleepers, Sleeper
<1>7. Readers BY <1>4 DEF Readers, Sleeper
<1>8. Writers BY <1>4 DEF Writers, Sleeper
<1> QED BY <1>1, <1>2, <1>3, <1>5, <1>6, <1>7, <1>8 DEF NoLostWakeup

(* What is left when the i-th is taken out. *)
LEMMA RemoveAtIs ==
    ASSUME NEW S, NEW s \in Seq(S), NEW i \in 1 .. Len(s)
    PROVE  /\ RemoveAt(s, i) \in Seq(S) /\ Len(RemoveAt(s, i)) = Len(s) - 1
           /\ \A k \in 1 .. Len(s) - 1 : RemoveAt(s, i)[k] = IF k < i THEN s[k] ELSE s[k + 1]
<1>a. PICK a, b : a = SubSeq(s, 1, i - 1) /\ b = SubSeq(s, i + 1, Len(s)) OBVIOUS
<1>1. Len(s) \in Nat /\ i \in Nat BY LenProperties
<1>2. /\ a \in Seq(S) /\ Len(a) = i - 1 /\ \A k \in 1 .. i - 1 : a[k] = s[k]
  BY <1>a, <1>1
<1>3. /\ b \in Seq(S) /\ Len(b) = Len(s) - i
      /\ \A k \in 1 .. Len(s) - i : b[k] = s[k + i]
  BY <1>a, <1>1
<1>4. RemoveAt(s, i) = a \o b BY <1>a DEF RemoveAt
<1>c. PICK c : c = a \o b OBVIOUS
<1>5. /\ c \in Seq(S) /\ Len(c) = Len(a) + Len(b)
      /\ \A k \in 1 .. Len(a) + Len(b) : c[k] = IF k <= Len(a) THEN a[k] ELSE b[k - Len(a)]
  BY <1>2, <1>3, <1>c, ConcatProperties
<1>n. Len(a) + Len(b) = Len(s) - 1 BY <1>1, <1>2, <1>3
<1>6. ASSUME NEW k \in 1 .. Len(s) - 1 PROVE c[k] = IF k < i THEN s[k] ELSE s[k + 1]
  <2>0. k \in Nat /\ k >= 1 /\ k <= Len(s) - 1 BY <1>1
  <2>1. CASE k <= i - 1
    <3>1. c[k] = a[k] /\ a[k] = s[k] BY <1>1, <1>2, <1>5, <1>n, <2>0, <2>1
    <3> QED BY <3>1, <1>1, <2>0, <2>1
  <2>2. CASE ~(k <= i - 1)
    <3>1. k - (i - 1) \in 1 .. Len(s) - i /\ k + 1 \in 1 .. Len(s) BY <1>1, <2>0, <2>2
    <3>2. c[k] = b[k - (i - 1)] BY <1>1, <1>2, <1>5, <1>n, <2>0, <2>2
    <3>3. b[k - (i - 1)] = s[(k - (i - 1)) + i] BY <1>3, <3>1
    <3>4. (k - (i - 1)) + i = k + 1 /\ ~(k < i) BY <1>1, <2>0, <2>2
    <3> QED BY <3>1, <3>2, <3>3, <3>4
  <2> QED BY <2>1, <2>2
<1> QED BY <1>4, <1>5, <1>6, <1>c, <1>n

(* A message taken out of a queue leaves messages that were on it. *)
LEMMA RemoveAtFacts ==
    ASSUME NEW S, NEW s \in Seq(S), NEW i \in 1 .. Len(s)
    PROVE  /\ RemoveAt(s, i) \in Seq(S)
           /\ \A k \in 1 .. Len(RemoveAt(s, i)) : \E j \in 1 .. Len(s) : RemoveAt(s, i)[k] = s[j]
<1>1. Len(s) \in Nat BY LenProperties
<1>2. PICK t : t = RemoveAt(s, i) OBVIOUS
<1>3. /\ t \in Seq(S) /\ Len(t) = Len(s) - 1
      /\ \A k \in 1 .. Len(s) - 1 : t[k] = IF k < i THEN s[k] ELSE s[k + 1]
  BY <1>2, RemoveAtIs
<1>4. ASSUME NEW k \in 1 .. Len(t) PROVE \E j \in 1 .. Len(s) : t[k] = s[j]
  <2>1. k \in 1 .. Len(s) /\ k + 1 \in 1 .. Len(s) BY <1>1, <1>3
  <2> QED BY <1>3, <2>1
<1> QED BY <1>2, <1>3, <1>4

(* k is the eligible message of s that goes before all others. *)
First(s, typ, k) ==
    /\ k \in 1 .. Len(s) /\ Eligible(s[k], typ)
    /\ \A j \in 1 .. Len(s) : Eligible(s[j], typ) => Precedes(s, typ, k, j)

(* There is one whenever there is a message to find, and it is Find. *)
LEMMA FindFacts ==
    ASSUME NEW s \in Seq(Message), NEW typ \in Int, AnyEligible(s, typ)
    PROVE  Find(s, typ) \in 1 .. Len(s) /\ First(s, typ, Find(s, typ))
<1> DEFINE E == {k \in 1 .. Len(s) : Eligible(s[k], typ)}
<1>0. Len(s) \in Nat /\ \A k \in 1 .. Len(s) : s[k] \in Message
  BY LenProperties, ElementOfSeq
<1>1. Len(s) \in Nat /\ E \subseteq Nat /\ \A k \in 1 .. Len(s) : s[k].type \in Nat
  BY <1>0 DEF Message
<1>2. PICK x \in E : TRUE BY DEF AnyEligible
<1>3. \E k \in E : \A j \in E : Precedes(s, typ, k, j)
  <2>1. CASE ~(typ < 0)
    <3>1. \E k \in E : \A j \in E : k <= j BY <1>1, <1>2, Least
    <3> QED BY <2>1, <3>1 DEF Precedes
  <2>2. CASE typ < 0
    <3> DEFINE T == {s[k].type : k \in E}
    <3>1. T \subseteq Nat /\ s[x].type \in T BY <1>1, <1>2
    <3>2. PICK t \in T : \A u \in T : t <= u BY <3>1, Least
    <3> DEFINE F == {k \in E : s[k].type = t}
    <3>3. F \subseteq Nat /\ \E y : y \in F BY <1>1, <3>2
    <3>4. PICK k \in F : \A j \in F : k <= j BY <3>3, Least
    <3>5. ASSUME NEW j \in E PROVE Precedes(s, typ, k, j)
      <4>1. s[j].type \in T /\ t <= s[j].type BY <3>2
      <4>2. CASE s[j].type = t BY <4>2, <3>4 DEF Precedes
      <4>3. CASE s[j].type # t
        BY <4>1, <4>3, <1>1, <2>2, <3>1, <3>4 DEF Precedes
      <4> QED BY <4>2, <4>3
    <3> QED BY <3>4, <3>5
  <2> QED BY <2>1, <2>2
<1> HIDE DEF E
<1>4. \E k \in 1 .. Len(s) : First(s, typ, k) BY <1>3 DEF First, E
<1>5. First(s, typ, Find(s, typ))
  <2>1. \E k \in 1 .. Len(s) :
          /\ Eligible(s[k], typ)
          /\ \A j \in 1 .. Len(s) : Eligible(s[j], typ) => Precedes(s, typ, k, j)
    BY <1>4, Zenon DEF First
  <2> QED BY <2>1, Zenon DEF Find, First
<1> QED BY <1>5 DEF First

-----------------------------------------------------------------------------
(* What a step of p does to the processes: p goes to `to', everybody else  *)
(* stays, but for those asleep on C, who are woken.                        *)
Ends(p, to, C) ==
    /\ ProcTypes' /\ pc'[p] = to
    /\ \A r \in Proc \ {p} :
          /\ call'[r] = call[r] /\ chan'[r] = chan[r] /\ held'[r] = held[r]
          /\ pc'[r] = pc[r] \/ (pc[r] = "asleep" /\ pc'[r] = "woken")
          /\ pc'[r] = "asleep" => chan[r] \notin C
    /\ call'[p].cmd = "snd" => call'[p].type > 0

(* The queue index of a process. *)
LEMMA QType == ASSUME ProcTypes, NEW p \in Proc PROVE Q(p) \in Queue
<1>1. call[p].id \in Msqid BY DEF ProcTypes, CallType
<1> QED BY <1>1, IndexType DEF Q

(* NoCall is a call. *)
LEMMA NoCallType == NoCall \in CallType /\ NoCall.cmd = "none"
<1>1. 0 \in Msqid BY MsgAssumption DEF Msqid
<1> QED BY <1>1 DEF NoCall, CallType

(* Wakeups as Moves makes them. *)
LEMMA MovesTypes ==
    ASSUME ProcTypes, NEW p \in Proc, NEW to \in Places, NEW C, Moves(p, to, C)
    PROVE  /\ pc' \in [Proc -> Places] /\ pc'[p] = to
           /\ \A r \in Proc \ {p} :
                 /\ pc'[r] = pc[r] \/ (pc[r] = "asleep" /\ pc'[r] = "woken")
                 /\ pc'[r] = "asleep" => chan[r] \notin C
<1>1. pc \in [Proc -> Places] /\ "woken" \in Places BY Outside DEF ProcTypes
<1> QED BY <1>1 DEF Moves

(* The exits. *)
LEMMA OutEnds ==
    ASSUME IInv, NEW p \in Proc, NEW C, Out(p, C)
    PROVE  Ends(p, "user", C)
<1>1. ProcTypes BY DEF IInv
<1>2. /\ Unlock(p) /\ Moves(p, "user", C \cup {LockChan(p)})
      /\ call' = [call EXCEPT ![p] = NoCall] /\ next' = [next EXCEPT ![p] = "first"]
      /\ chan' = [chan EXCEPT ![p] = NULL] /\ held' = [held EXCEPT ![p] = 0]
      /\ sig' = [sig EXCEPT ![p] = FALSE] /\ cpu' = NULL
  BY DEF Out, Forget
<1>3. /\ pc' \in [Proc -> Places] /\ pc'[p] = "user"
      /\ \A r \in Proc \ {p} :
            /\ pc'[r] = pc[r] \/ (pc[r] = "asleep" /\ pc'[r] = "woken")
            /\ pc'[r] = "asleep" => chan[r] \notin C
  BY <1>1, <1>2, MovesTypes, Outside
<1>4. ProcTypes' BY <1>1, <1>2, <1>3, QType, NoCallType DEF ProcTypes, Unlock
<1>5. call'[p] = NoCall /\ \A r \in Proc \ {p} :
          call'[r] = call[r] /\ chan'[r] = chan[r] /\ held'[r] = held[r]
  BY <1>1, <1>2 DEF ProcTypes
<1> QED BY <1>3, <1>4, <1>5, NoCallType DEF Ends

(* Sleeping. *)
LEMMA SleepOnEnds ==
    ASSUME IInv, NEW p \in Proc, NEW c \in Chan, NEW D, SleepOn(p, c, D)
    PROVE  /\ Ends(p, IF sig[p] THEN "woken" ELSE "asleep", D)
           /\ chan'[p] = c /\ call' = call
<1>1. ProcTypes /\ Sends(p) BY DEF IInv
<1> DEFINE to == IF sig[p] THEN "woken" ELSE "asleep"
<1>2. /\ Unlock(p) /\ Moves(p, to, D \cup {LockChan(p)})
      /\ chan' = [chan EXCEPT ![p] = c] /\ next' = next /\ call' = call
      /\ held' = held /\ sig' = sig /\ cpu' \in {p, NULL}
  BY DEF SleepOn
<1>3. to \in Places BY Outside
<1> HIDE DEF to
<1>4. /\ pc' \in [Proc -> Places] /\ pc'[p] = to
      /\ \A r \in Proc \ {p} :
            /\ pc'[r] = pc[r] \/ (pc[r] = "asleep" /\ pc'[r] = "woken")
            /\ pc'[r] = "asleep" => chan[r] \notin D
  BY <1>1, <1>2, <1>3, MovesTypes
<1>5. ProcTypes' BY <1>1, <1>2, <1>4, QType DEF ProcTypes, Unlock
<1>6. Ends(p, to, D) BY <1>1, <1>2, <1>4, <1>5 DEF Ends, ProcTypes, Sends
<1> QED BY <1>1, <1>2, <1>6 DEF ProcTypes, to

(* Back to msgconv. *)
LEMMA RelockEnds ==
    ASSUME IInv, NEW p \in Proc, Relock(p)
    PROVE  Ends(p, "conv", {})
<1>1. ProcTypes /\ Sends(p) BY DEF IInv
<1>2. /\ Unlock(p) /\ Moves(p, "conv", {LockChan(p)}) /\ cpu' = p
      /\ next' = [next EXCEPT ![p] = "again"]
      /\ call' = call /\ chan' = chan /\ held' = held /\ sig' = sig
  BY DEF Relock
<1>3. /\ pc' \in [Proc -> Places] /\ pc'[p] = "conv"
      /\ \A r \in Proc \ {p} : pc'[r] = pc[r] \/ (pc[r] = "asleep" /\ pc'[r] = "woken")
  BY <1>1, <1>2, MovesTypes, Outside
<1>4. ProcTypes' BY <1>1, <1>2, <1>3, QType DEF ProcTypes, Unlock
<1> QED BY <1>1, <1>2, <1>3, <1>4 DEF Ends, ProcTypes, Sends

(* p moves alone. *)
LEMMA MoveEnds ==
    ASSUME IInv, NEW p \in Proc, NEW to \in Places, pc' = [pc EXCEPT ![p] = to], ProcTypes',
           \A r \in Proc \ {p} : call'[r] = call[r] /\ chan'[r] = chan[r] /\ held'[r] = held[r],
           call'[p].cmd = "snd" => call'[p].type > 0
    PROVE  Ends(p, to, {})
<1>1. ProcTypes BY DEF IInv
<1> QED BY <1>1 DEF Ends, ProcTypes

-----------------------------------------------------------------------------
(* The invariant after a step of p, from its parts. *)
LEMMA Assemble ==
    ASSUME IInv, LockInv', ShareTypes', NEW p \in Proc, NEW to \in Places, NEW C, Ends(p, to, C),
           to \in {"text", "textin"} => call'[p].cmd = "snd",
           to \in {"copyout", "textout"} => Receives(p)',
           to = "asleep" => Sleeper(p)',
           \A r \in Proc \ {p} : pc[r] \in Locked => mq'[Q(r)] = mq[Q(r)],
           \A r \in Proc \ {p} : pc'[r] = "asleep" => Sleeper(r)'
    PROVE  IInv'
<1>1. ASSUME NEW r \in Proc
      PROVE  /\ Sends(r)'
             /\ pc'[r] \in {"copyout", "textout"} => Receives(r)'
             /\ pc'[r] = "asleep" => Sleeper(r)'
  <2>1. CASE r = p BY <2>1 DEF Ends, Sends
  <2>2. CASE r # p
    <3>1. Sends(r) /\ (pc[r] \in {"copyout", "textout"} => Receives(r)) BY DEF IInv
    <3>2. /\ call'[r] = call[r] /\ held'[r] = held[r] /\ Q(r)' = Q(r)
          /\ pc'[r] # "woken" => pc'[r] = pc[r]
      BY <2>2 DEF Ends, Q
    <3>3. Sends(r)' BY <3>1, <3>2 DEF Sends
    <3>4. ASSUME pc'[r] \in {"copyout", "textout"} PROVE Receives(r)'
      <4>1. pc[r] \in Locked /\ Receives(r) BY <3>1, <3>2, <3>4, LockedPlaces
      <4>2. mq'[Q(r)] = mq[Q(r)] BY <4>1, <2>2
      <4> QED BY <4>1, <4>2, <3>2 DEF Receives, Some, Found
    <3> QED BY <2>2, <3>3, <3>4
  <2> QED BY <2>1, <2>2
<1>2. ProcTypes' BY DEF Ends
<1> QED BY <1>1, <1>2 DEF IInv

(* The segments a sender needs. *)
LEMMA BtoqType ==
    ASSUME NEW n \in Nat PROVE Btoq(n) \in Nat /\ (n # 0 => Btoq(n) # 0)
<1>1. MSGSSZ \in Nat /\ MSGSSZ # 0 BY MsgAssumption
<1>2. PICK d, x : x = n + MSGSSZ - 1 /\ d = x \div MSGSSZ OBVIOUS
<1>3. x \in Nat /\ (n # 0 => x >= MSGSSZ) BY <1>1, <1>2
<1>4. d \in Int /\ x % MSGSSZ \in 0 .. MSGSSZ - 1 /\ x = MSGSSZ * d + (x % MSGSSZ)
  BY <1>1, <1>2, <1>3
<1>5. d >= 0
  <2>1. CASE d <= -1
    <3>1. MSGSSZ * d <= -MSGSSZ BY <2>1, <1>1, <1>4
    <3> QED BY <3>1, <1>1, <1>3, <1>4
  <2> QED BY <2>1, <1>4
<1>6. n # 0 => d # 0
  <2>1. CASE d = 0 BY <2>1, <1>1, <1>3, <1>4
  <2> QED BY <2>1
<1> QED BY <1>2, <1>4, <1>5, <1>6 DEF Btoq

(* A process that p does not wake goes on sleeping with reason, when what  *)
(* p changed does not concern it.                                          *)
LEMMA OtherSleeper ==
    ASSUME IInv, NEW p \in Proc, NEW to, NEW C, Ends(p, to, C),
           NEW r \in Proc \ {p}, pc'[r] = "asleep",
           chan[r] = <<"msgfp", 0>> => msgfp' = msgfp,
           chan[r] = <<"msgmap", 0>> =>
              msgmap'.want /\ \A n \in Nat : CanAlloc(msgmap', n) => CanAlloc(msgmap, n),
           chan[r] = <<"qnum", Q(r)>> =>
              /\ perm'[Q(r)] = perm[Q(r)] /\ rwait'[Q(r)]
              /\ \A k \in 1 .. Len(mq'[Q(r)]) : \E j \in 1 .. Len(mq[Q(r)]) :
                    mq'[Q(r)][k] = mq[Q(r)][j],
           chan[r] = <<"qp", Q(r)>> => perm'[Q(r)] = perm[Q(r)] /\ wwait'[Q(r)]
    PROVE  Sleeper(r)'
<1>1. /\ call'[r] = call[r] /\ chan'[r] = chan[r] /\ Q(r)' = Q(r) /\ pc[r] = "asleep"
  BY DEF Ends, Q
<1>2. Sleeper(r) /\ call[r].size \in Nat BY <1>1 DEF IInv, ProcTypes, CallType
<1>3. chan[r] = <<"msgmap", 0>> => ~HasSegs(r)'
  <2> SUFFICES ASSUME chan[r] = <<"msgmap", 0>>, HasSegs(r)' PROVE FALSE OBVIOUS
  <2>1. ~HasSegs(r) BY <1>2 DEF Sleeper
  <2>2. Btoq(call[r].size) \in Nat BY <1>2, BtoqType
  <2>3. call[r].size # 0 /\ CanAlloc(msgmap', Btoq(call[r].size))
    BY <2>1, <1>1 DEF HasSegs, Btoq, CanAlloc, Fit, Live
  <2> QED BY <2>1, <2>2, <2>3 DEF HasSegs
<1>4. chan[r] = <<"qnum", Q(r)>> => Valid(perm', call'[r].id, MSGMNI) /\ ~Some(r)'
  <2> SUFFICES ASSUME chan[r] = <<"qnum", Q(r)>>
               PROVE  Valid(perm', call'[r].id, MSGMNI) /\ ~Some(r)'
    OBVIOUS
  <2>1. Valid(perm, call[r].id, MSGMNI) /\ ~Some(r) BY <1>2 DEF Sleeper
  <2>2. Valid(perm', call'[r].id, MSGMNI) BY <2>1, <1>1 DEF Valid, Q
  <2>3. ~Some(r)' BY <2>1, <1>1 DEF Some, AnyEligible
  <2> QED BY <2>2, <2>3
<1>5. chan[r] = <<"qp", Q(r)>> => Valid(perm', call'[r].id, MSGMNI)
  BY <1>1, <1>2 DEF Sleeper, Valid, Q
<1> QED BY <1>1, <1>2, <1>3, <1>4, <1>5 DEF Sleeper

(* A step that changes no queue, flag or pool. *)
LEMMA Quiet ==
    ASSUME IInv, LockInv', NEW p \in Proc, NEW to \in Places, NEW C, Ends(p, to, C),
           UNCHANGED <<perm, rwait, wwait, mq, msgfp, msgmap>>,
           qbytes' \in [Queue -> Nat], cbytes' \in [Queue -> Int],
           to \in {"text", "textin"} => call'[p].cmd = "snd",
           to \in {"copyout", "textout"} => Receives(p)',
           to = "asleep" => Sleeper(p)'
    PROVE  IInv'
<1>1. ShareTypes' BY DEF IInv, ShareTypes, Shape, Used
<1>2. ASSUME NEW r \in Proc \ {p}, pc'[r] = "asleep" PROVE Sleeper(r)'
  <2>1. Sleeper(r) BY <1>2 DEF IInv, Ends
  <2> QED BY <1>2, <2>1, OtherSleeper DEF Sleeper
<1> QED BY <1>1, <1>2, Assemble

-----------------------------------------------------------------------------
(* Handlers that end or pause without a change to queues or pools. *)
LEMMA QuietOut ==
    ASSUME IInv, LockInv', NEW p \in Proc, NEW C, Out(p, C),
           UNCHANGED <<perm, rwait, wwait, mq, msgfp, msgmap>>,
           qbytes' \in [Queue -> Nat], cbytes' \in [Queue -> Int]
    PROVE  IInv'
<1>1. Ends(p, "user", C) BY OutEnds
<1> QED BY <1>1, Quiet, Outside

(* Back to msgconv between the two halves of a call. *)
LEMMA QuietRelock ==
    ASSUME IInv, LockInv', NEW p \in Proc, Relock(p), UNCHANGED <<msgque, mq, pool>>
    PROVE  IInv'
<1>1. Ends(p, "conv", {}) BY RelockEnds
<1>2. /\ UNCHANGED <<perm, rwait, wwait, mq, msgfp, msgmap>>
      /\ qbytes' \in [Queue -> Nat] /\ cbytes' \in [Queue -> Int]
  BY DEF msgque, pool, IInv, ShareTypes
<1> QED BY <1>1, <1>2, Quiet, Outside

(* p moves and nothing changes but what is its own. *)
LEMMA QuietMove ==
    ASSUME IInv, LockInv', NEW p \in Proc, NEW to \in Places, pc' = [pc EXCEPT ![p] = to],
           ProcTypes', UNCHANGED <<msgque, mq, pool>>,
           \A r \in Proc \ {p} : call'[r] = call[r] /\ chan'[r] = chan[r] /\ held'[r] = held[r],
           call'[p].cmd = "snd" => call'[p].type > 0,
           to \in {"text", "textin"} => call'[p].cmd = "snd",
           to \in {"copyout", "textout"} => Receives(p)',
           to = "asleep" => Sleeper(p)'
    PROVE  IInv'
<1>1. Ends(p, to, {}) BY MoveEnds
<1>2. /\ UNCHANGED <<perm, rwait, wwait, mq, msgfp, msgmap>>
      /\ qbytes' \in [Queue -> Nat] /\ cbytes' \in [Queue -> Int]
  BY DEF msgque, pool, IInv, ShareTypes
<1> QED BY <1>1, <1>2, Quiet

(* A page fault under the lock. *)
LEMMA QuietFault ==
    ASSUME IInv, LockInv', NEW p \in Proc, NEW to \in Places \ {"asleep"}, Fault(p, to),
           to \in {"text", "textin"} => call[p].cmd = "snd",
           to \in {"copyout", "textout"} => Receives(p)
    PROVE  IInv'
<1>1. ProcTypes /\ Sends(p) BY DEF IInv
<1>2. /\ pc' = [pc EXCEPT ![p] = to] /\ cpu' = NULL /\ UNCHANGED <<msgque, mq, pool>>
      /\ UNCHANGED <<msglock, next, call, chan, held, sig>>
  BY DEF Fault
<1>3. ProcTypes' BY <1>1, <1>2 DEF ProcTypes
<1>4. to \in {"copyout", "textout"} => Receives(p)'
  BY <1>2 DEF Receives, Some, Found, Q
<1> QED BY <1>1, <1>2, <1>3, <1>4, QuietMove DEF Sends

-----------------------------------------------------------------------------
(* msginit *)
LEMMA InitIInv == Init => IInv
<1> SUFFICES ASSUME Init PROVE IInv OBVIOUS
<1>1. LockInv BY InitLock
<1>2. MapInit \in MapType /\ Shape(MapInit)
  <2>1. MapInit.size = MapSlots /\ Used(MapInit) = 0 BY MapSlotsAssumption DEF MapInit, Used
  <2>e. \A i \in Slot : MapInit.ent[i] = EndEntry BY DEF MapInit
  <2>2. EndEntry \in Entry BY DEF EndEntry, Entry
  <2>3. MapInit \in MapType BY <2>2, MapSlotsAssumption DEF MapInit, MapType
  <2>4. \A i \in Slot : ~(i <= 0) BY MapSlotsAssumption DEF Slot
  <2> QED BY <2>1, <2>e, <2>3, <2>4, MapSlotsAssumption DEF Shape
<1>3. Shape(msgmap) BY <1>2, RmfreeShape, MsgAssumption DEF Init
<1>4. ShareTypes BY <1>3, MsgAssumption DEF Init, ShareTypes, Perm
<1>5. ProcTypes BY NoCallType, Outside DEF Init, ProcTypes
<1> QED BY <1>1, <1>4, <1>5, NoCallType DEF IInv, Init, Sends

(* msgget makes a queue of an entry nobody works or waits on; a call       *)
(* enters.                                                                 *)
LEMMA CallIInv == ASSUME IInv, LockInv', NEW p \in Proc, Call(p) PROVE IInv'
<1>1. ProcTypes /\ ShareTypes /\ LockInv /\ Sends(p) BY DEF IInv
<1>2. ASSUME NEW key \in Key, NEW creat \in BOOLEAN, Msgget(p, key, creat) PROVE IInv'
  <2>1. PICK q \in Queue :
          /\ Creates(perm, key, creat, MSGMNI, q)
          /\ perm' = [perm EXCEPT ![q] = [alloc |-> TRUE, key |-> key, seq |-> perm[q].seq]]
          /\ qbytes' = [qbytes EXCEPT ![q] = MSGMNB]
          /\ rwait' = [rwait EXCEPT ![q] = FALSE]
          /\ wwait' = [wwait EXCEPT ![q] = FALSE]
          /\ mq' = [mq EXCEPT ![q] = <<>>]
    BY <1>2 DEF Msgget
  <2>2. ~perm[q].alloc BY <2>1 DEF Creates, Unused
  <2>3. /\ pc[p] = "user" /\ pc' = pc /\ call' = call /\ chan' = chan /\ held' = held
        /\ cbytes' = cbytes /\ msgfp' = msgfp /\ msgmap' = msgmap /\ msglock' = msglock
        /\ next' = next /\ sig' = sig /\ cpu' = cpu
    BY <1>2 DEF Msgget, Enters, pool
  <2>4. pc' = [pc EXCEPT ![p] = "user"] /\ ProcTypes' BY <1>1, <2>3 DEF ProcTypes
  <2>5. Ends(p, "user", {}) BY <1>1, <2>3, <2>4, MoveEnds, Outside DEF Sends
  <2>6. ShareTypes'
    BY <1>1, <2>1, <2>3, MsgAssumption DEF ShareTypes, Perm, Shape, Used
  <2>7. ASSUME NEW r \in Proc \ {p}, pc[r] \in Locked PROVE mq'[Q(r)] = mq[Q(r)]
    <3>1. Valid(perm, call[r].id, MSGMNI) BY <1>1, <2>7 DEF LockInv, HolderValid
    <3>2. Q(r) # q BY <3>1, <2>2 DEF Valid, Q
    <3> QED BY <3>2, <2>1, <1>1, QType DEF ShareTypes
  <2>8. ASSUME NEW r \in Proc \ {p}, pc'[r] = "asleep" PROVE Sleeper(r)'
    <3>1. Sleeper(r) /\ Q(r) \in Queue BY <2>3, <2>8, <1>1, QType DEF IInv
    <3>2. chan[r] \in {<<"qnum", Q(r)>>, <<"qp", Q(r)>>} => Q(r) # q
      BY <3>1, <2>2 DEF Sleeper, Valid, Q
    <3>3. Q(r) # q => /\ perm'[Q(r)] = perm[Q(r)] /\ rwait'[Q(r)] = rwait[Q(r)]
                      /\ wwait'[Q(r)] = wwait[Q(r)] /\ mq'[Q(r)] = mq[Q(r)]
      BY <3>1, <2>1, <1>1 DEF ShareTypes
    <3> QED BY <3>1, <3>2, <3>3, <2>3, <2>5, <2>8, OtherSleeper DEF Sleeper
  <2> QED BY <2>5, <2>6, <2>7, <2>8, Assemble, Outside
<1>3. ASSUME NEW id \in Msqid, NEW c \in Calls, Msgsys(p, id, c) PROVE IInv'
  <2> DEFINE n == [cmd |-> c.cmd, id |-> id, type |-> c.type, size |-> c.size,
                   nowait |-> c.nowait, trunc |-> c.trunc]
  <2>1. /\ pc' = [pc EXCEPT ![p] = "conv"] /\ call' = [call EXCEPT ![p] = n] /\ cpu' = p
        /\ UNCHANGED <<msgque, mq, pool>> /\ UNCHANGED <<msglock, next, chan, held, sig>>
    BY <1>3 DEF Msgsys
  <2>2. n \in CallType /\ (n.cmd = "snd" => n.type > 0) BY MsgAssumption DEF CallType
  <2> HIDE DEF n
  <2>3. ProcTypes' BY <1>1, <2>1, <2>2, Outside DEF ProcTypes
  <2>4. /\ call'[p] = n
        /\ \A r \in Proc \ {p} : call'[r] = call[r] /\ chan'[r] = chan[r] /\ held'[r] = held[r]
    BY <1>1, <2>1 DEF ProcTypes
  <2> QED BY <2>1, <2>2, <2>3, <2>4, QuietMove, Outside
<1> QED BY <1>2, <1>3 DEF Call

-----------------------------------------------------------------------------
(* A call that is over without the lock: p forgets it. *)
LEMMA QuietForget ==
    ASSUME IInv, LockInv', NEW p \in Proc, pc' = [pc EXCEPT ![p] = "user"], Forget(p),
           UNCHANGED <<msgque, mq, msglock, pool>>
    PROVE  IInv'
<1>1. ProcTypes BY DEF IInv
<1>2. /\ ProcTypes' /\ call'[p] = NoCall
      /\ \A r \in Proc \ {p} : call'[r] = call[r] /\ chan'[r] = chan[r] /\ held'[r] = held[r]
  BY <1>1, NoCallType, Outside DEF Forget, ProcTypes
<1> QED BY <1>2, QuietMove, NoCallType, Outside

(* p moves on with its call as it is. *)
LEMMA QuietGo ==
    ASSUME IInv, LockInv', NEW p \in Proc,
           NEW to \in Places \ {"asleep", "text", "textin", "copyout", "textout"},
           pc' = [pc EXCEPT ![p] = to], UNCHANGED <<msgque, mq, pool>>,
           msglock' \in [Queue -> BOOLEAN], call' = call, chan' = chan, held' = held,
           next' \in [Proc -> {"first", "again", "eintr"}],
           sig' \in [Proc -> BOOLEAN], cpu' \in Proc \cup {NULL}
    PROVE  IInv'
<1>1. ProcTypes /\ Sends(p) BY DEF IInv
<1>2. ProcTypes' BY <1>1 DEF ProcTypes
<1> QED BY <1>1, <1>2, QuietMove DEF Sends

(* The places that QuietGo is for. *)
LEMMA PlainPlaces ==
    /\ {"user", "conv", "woken", "first", "eintr", "again", "rmid", "typein", "setin", "statout"}
          \subseteq Places \ {"asleep", "text", "textin", "copyout", "textout"}
    /\ {"text", "textin", "copyout", "textout"} \subseteq Places
BY DEF Places, Locked, Faulted

(* msgconv *)
LEMMA ConvIInv ==
    ASSUME IInv, LockInv', NEW p \in Proc, ConvSleeps(p) \/ ConvLocks(p) \/ ConvFails(p)
    PROVE  IInv'
<1>1. ProcTypes /\ ShareTypes /\ Sends(p) /\ Q(p) \in Queue BY QType DEF IInv
<1>2. CASE ConvSleeps(p)
  <2>1. UNCHANGED <<msgque, mq, msglock, pool>> BY <1>2 DEF ConvSleeps
  <2>2. CASE sig[p] BY <1>2, <2>1, <2>2, QuietForget DEF ConvSleeps
  <2>3. CASE ~sig[p]
    <3>1. /\ pc' = [pc EXCEPT ![p] = "asleep"] /\ chan' = [chan EXCEPT ![p] = LockChan(p)]
          /\ cpu' = NULL /\ next' = next /\ call' = call /\ held' = held /\ sig' = sig
          /\ msglock' = msglock
      BY <1>2, <2>3 DEF ConvSleeps
    <3>2. LockChan(p) \in Chan BY <1>1 DEF LockChan, Chan
    <3>3. ProcTypes' BY <1>1, <3>1, <3>2, Outside DEF ProcTypes
    <3>4. /\ chan'[p] = <<"lock", Q(p)'>>
          /\ \A r \in Proc \ {p} : call'[r] = call[r] /\ chan'[r] = chan[r] /\ held'[r] = held[r]
      BY <1>1, <3>1 DEF ProcTypes, LockChan, Q
    <3>5. Sleeper(p)' BY <3>4 DEF Sleeper
    <3> QED BY <1>1, <2>1, <3>1, <3>3, <3>4, <3>5, QuietMove, Outside DEF Sends
  <2> QED BY <2>2, <2>3
<1>3. CASE ConvLocks(p)
  <2>1. /\ pc' = [pc EXCEPT ![p] = next[p]] /\ UNCHANGED <<msgque, mq, pool>>
        /\ msglock' = [msglock EXCEPT ![Q(p)] = TRUE]
        /\ next' = next /\ call' = call /\ chan' = chan /\ held' = held
        /\ sig' = sig /\ cpu' = cpu
    BY <1>3 DEF ConvLocks
  <2>2. next[p] \in {"first", "again", "eintr"} BY <1>1 DEF ProcTypes
  <2>3. /\ msglock' \in [Queue -> BOOLEAN] /\ next' \in [Proc -> {"first", "again", "eintr"}]
        /\ sig' \in [Proc -> BOOLEAN] /\ cpu' \in Proc \cup {NULL}
    BY <1>1, <2>1 DEF ProcTypes
  <2> QED BY <2>1, <2>2, <2>3, QuietGo, PlainPlaces
<1>4. CASE ConvFails(p)
  BY <1>1, <1>4, QuietOut DEF ConvFails, msgque, pool, ShareTypes
<1> QED BY <1>2, <1>3, <1>4

(* A sleeper runs again; a signal comes. *)
LEMMA ResumeIInv ==
    ASSUME IInv, LockInv', NEW p \in Proc, Resume(p) \/ Signal(p)
    PROVE  IInv'
<1>1. ProcTypes /\ Sends(p) BY DEF IInv
<1>2. CASE Resume(p)
  <2>1. UNCHANGED <<msgque, mq, msglock, pool>> BY <1>2 DEF Resume
  <2>2. CASE pc' = [pc EXCEPT ![p] = "user"] /\ Forget(p) BY <2>1, <2>2, QuietForget
  <2>3. CASE /\ pc' = [pc EXCEPT ![p] = "conv"] /\ cpu' = p
             /\ UNCHANGED <<call, chan, held, sig>>
             /\ next' \in {next, [next EXCEPT ![p] = "eintr"]}
    <3>1. /\ msglock' \in [Queue -> BOOLEAN] /\ next' \in [Proc -> {"first", "again", "eintr"}]
          /\ sig' \in [Proc -> BOOLEAN] /\ cpu' \in Proc \cup {NULL}
      BY <1>1, <2>1, <2>3 DEF ProcTypes
    <3> QED BY <2>1, <2>3, <3>1, QuietGo, PlainPlaces
  <2> QED BY <1>2, <2>2, <2>3 DEF Resume
<1>3. CASE Signal(p)
  <2>1. /\ pc' = [pc EXCEPT ![p] = IF pc[p] = "asleep" THEN "woken" ELSE pc[p]]
        /\ sig' = [sig EXCEPT ![p] = TRUE] /\ UNCHANGED <<msgque, mq, pool>>
        /\ msglock' = msglock /\ next' = next /\ call' = call /\ chan' = chan
        /\ held' = held /\ cpu' = cpu
    BY <1>3 DEF Signal
  <2>2. /\ msglock' \in [Queue -> BOOLEAN] /\ next' \in [Proc -> {"first", "again", "eintr"}]
        /\ sig' \in [Proc -> BOOLEAN] /\ cpu' \in Proc \cup {NULL}
    BY <1>1, <2>1 DEF ProcTypes
  <2>3. CASE pc[p] = "asleep" BY <2>1, <2>2, <2>3, QuietGo, PlainPlaces
  <2>4. CASE pc[p] # "asleep"
    <3>1. pc' = [pc EXCEPT ![p] = pc[p]] /\ pc[p] \in Places BY <1>1, <2>1, <2>4 DEF ProcTypes
    <3>2. ProcTypes' BY <1>1, <2>1, <2>2, <3>1 DEF ProcTypes
    <3>3. pc[p] \in {"copyout", "textout"} => Receives(p)'
      <4>1. mq' = mq BY <2>1
      <4>2. pc[p] \in {"copyout", "textout"} => Receives(p) BY DEF IInv
      <4> QED BY <2>1, <4>1, <4>2 DEF Receives, Some, Found, Q
    <3> QED BY <1>1, <2>1, <2>4, <3>1, <3>2, <3>3, QuietMove DEF Sends
  <2> QED BY <2>3, <2>4
<1> QED BY <1>2, <1>3

(* The handlers that change no queue or pool, up to the second msgconv and *)
(* in msgctl; IPC_SET changes msg_qbytes only.                             *)
LEMMA QuietIInv ==
    ASSUME IInv, LockInv', NEW p \in Proc,
           \/ FirstFails(p) \/ SndFirst(p) \/ Typein(p) \/ RcvFirst(p) \/ RcvTooBig(p)
           \/ RmidFirst(p) \/ SetFirst(p) \/ Setin(p) \/ StatFirst(p) \/ Statout(p)
           \/ CopyoutFails(p)
    PROVE  IInv'
<1>1. ProcTypes /\ ShareTypes /\ Q(p) \in Queue BY QType DEF IInv
<1>2. ASSUME Out(p, {}), UNCHANGED <<msgque, mq, pool>> PROVE IInv'
  BY <1>1, <1>2, QuietOut DEF msgque, pool, ShareTypes
<1>3. ASSUME NEW to \in {"typein", "setin", "statout"}, Fault(p, to) PROVE IInv'
  BY <1>3, QuietFault, PlainPlaces
<1>4. ASSUME SetLimit(p) PROVE IInv'
  <2>1. call[p].size \in Nat BY <1>1 DEF ProcTypes, CallType
  <2>2. qbytes' \in [Queue -> Nat] BY <1>1, <1>4, <2>1 DEF SetLimit, ShareTypes
  <2> QED BY <1>1, <1>4, <2>2, QuietOut DEF SetLimit, pool, ShareTypes
<1>5. CASE FirstFails(p) BY <1>2, <1>5 DEF FirstFails
<1>6. CASE SndFirst(p) BY <1>3, <1>6, QuietRelock DEF SndFirst
<1>7. CASE Typein(p) BY <1>2, <1>7, QuietRelock DEF Typein
<1>8. CASE RcvFirst(p) BY <1>8, QuietRelock DEF RcvFirst
<1>9. CASE RcvTooBig(p) BY <1>2, <1>9 DEF RcvTooBig
<1>10. CASE RmidFirst(p)
  <2>1. /\ pc' = [pc EXCEPT ![p] = "rmid"] /\ UNCHANGED <<msgque, mq, pool>>
        /\ UNCHANGED <<msglock, next, call, chan, held, sig, cpu>>
    BY <1>10 DEF RmidFirst
  <2> QED BY <1>1, <2>1, QuietGo, PlainPlaces DEF ProcTypes
<1>11. CASE SetFirst(p) BY <1>3, <1>4, <1>11 DEF SetFirst
<1>12. CASE Setin(p) BY <1>2, <1>4, <1>12 DEF Setin
<1>13. CASE StatFirst(p) BY <1>2, <1>3, <1>13 DEF StatFirst
<1>14. CASE Statout(p) BY <1>2, <1>14 DEF Statout
<1>15. CASE CopyoutFails(p) BY <1>2, <1>15 DEF CopyoutFails
<1> QED BY <1>5, <1>6, <1>7, <1>8, <1>9, <1>10, <1>11, <1>12, <1>13, <1>14, <1>15

-----------------------------------------------------------------------------
(* Sleeps under the lock: p announces itself, nothing else changes. *)
LEMMA SleepIInv ==
    ASSUME IInv, LockInv', NEW p \in Proc, NEW c \in Chan, NEW D, SleepOn(p, c, D),
           ShareTypes', perm' = perm, mq' = mq, msgfp' = msgfp,
           msgmap' \in {msgmap, Want(msgmap)},
           \A q \in Queue : (rwait[q] => rwait'[q]) /\ (wwait[q] => wwait'[q]),
           chan'[p] = c /\ call' = call => Sleeper(p)'
    PROVE  IInv'
<1>1. ProcTypes /\ ShareTypes BY DEF IInv
<1> DEFINE to == IF sig[p] THEN "woken" ELSE "asleep"
<1>2. /\ Ends(p, to, D) /\ chan'[p] = c /\ call' = call BY SleepOnEnds
<1>3. /\ to \in Places /\ to \notin {"text", "textin", "copyout", "textout"} BY Outside
<1>4. /\ msgmap.want => msgmap'.want
      /\ \A n \in Nat : CanAlloc(msgmap', n) => CanAlloc(msgmap, n)
  BY <1>1, WantUnits DEF ShareTypes
<1>5. ASSUME NEW r \in Proc \ {p}, pc'[r] = "asleep" PROVE Sleeper(r)'
  <2>1. Sleeper(r) /\ Q(r) \in Queue BY <1>1, <1>2, <1>5, QType DEF IInv, Ends
  <2> QED BY <1>2, <1>4, <1>5, <2>1, OtherSleeper DEF Sleeper
<1> QED BY <1>2, <1>3, <1>5, Assemble

(* The sleeps of msgsnd and msgrcv, and their IPC_NOWAIT returns. *)
LEMMA WaitIInv ==
    ASSUME IInv, LockInv', NEW p \in Proc,
           SndNoRoom(p) \/ SndNoHdr(p) \/ SndNoSegs(p) \/ RcvNone(p)
    PROVE  IInv'
<1>1. ProcTypes /\ ShareTypes /\ Q(p) \in Queue BY QType DEF IInv
<1>2. pc[p] = "again" BY DEF SndNoRoom, SndNoHdr, SndNoSegs, RcvNone, Snd, Rcv, Running
<1>3. Valid(perm, call[p].id, MSGMNI)
  BY <1>2, LockedPlaces DEF IInv, LockInv, HolderValid
<1>4. /\ <<"qp", Q(p)>> \in Chan /\ <<"qnum", Q(p)>> \in Chan
      /\ <<"msgfp", 0>> \in Chan /\ <<"msgmap", 0>> \in Chan
  BY <1>1 DEF Chan
<1>5. ASSUME NEW C, Out(p, C), UNCHANGED <<msgque, mq, pool>> PROVE IInv'
  BY <1>1, <1>5, QuietOut DEF msgque, pool, ShareTypes
<1>6. CASE SndNoRoom(p)
  <2>1. perm' = perm /\ qbytes' = qbytes /\ cbytes' = cbytes /\ rwait' = rwait /\ mq' = mq
        /\ msgfp' = msgfp /\ msgmap' = msgmap
    BY <1>6 DEF SndNoRoom, pool
  <2>2. CASE Out(p, {}) /\ wwait' = wwait
    BY <1>1, <2>1, <2>2, QuietOut DEF ShareTypes
  <2>3. CASE wwait' = [wwait EXCEPT ![Q(p)] = TRUE] /\ SleepOn(p, <<"qp", Q(p)>>, {})
    <3>1. /\ ShareTypes' /\ wwait'[Q(p)] /\ \A q \in Queue : wwait[q] => wwait'[q]
      BY <1>1, <2>1, <2>3 DEF ShareTypes, Shape, Used
    <3>2. ASSUME chan'[p] = <<"qp", Q(p)>>, call' = call PROVE Sleeper(p)'
      <4>1. Q(p)' = Q(p) BY <3>2 DEF Q
      <4> QED BY <1>3, <2>1, <3>1, <3>2, <4>1 DEF Sleeper
    <3> QED BY <1>4, <2>1, <2>3, <3>1, <3>2, SleepIInv
  <2> QED BY <1>6, <2>2, <2>3 DEF SndNoRoom
<1>7. CASE SndNoHdr(p)
  <2>1. UNCHANGED <<msgque, mq, pool>> /\ msgfp = 0 BY <1>7 DEF SndNoHdr, HasHdr
  <2>2. CASE SleepOn(p, <<"msgfp", 0>>, {})
    <3>1. /\ perm' = perm /\ mq' = mq /\ msgfp' = msgfp /\ msgmap' = msgmap
          /\ rwait' = rwait /\ wwait' = wwait /\ qbytes' = qbytes /\ cbytes' = cbytes
      BY <2>1 DEF msgque, pool
    <3>2. ShareTypes' BY <1>1, <3>1 DEF ShareTypes, Shape, Used
    <3>3. ASSUME chan'[p] = <<"msgfp", 0>>, call' = call PROVE Sleeper(p)'
      BY <2>1, <3>1, <3>3 DEF Sleeper
    <3> QED BY <1>4, <2>2, <3>1, <3>2, <3>3, SleepIInv
  <2> QED BY <1>5, <1>7, <2>1, <2>2 DEF SndNoHdr
<1>8. CASE SndNoSegs(p)
  <2>1. /\ ~HasSegs(p) /\ perm' = perm /\ mq' = mq /\ msgfp' = msgfp
        /\ rwait' = rwait /\ wwait' = wwait /\ qbytes' = qbytes /\ cbytes' = cbytes
    BY <1>8 DEF SndNoSegs, msgque
  <2>2. PICK C : \/ Out(p, C) /\ msgmap' = msgmap
                 \/ msgmap' = Want(msgmap) /\ SleepOn(p, <<"msgmap", 0>>, C)
    BY <1>8 DEF SndNoSegs
  <2>3. CASE Out(p, C) /\ msgmap' = msgmap
    BY <1>5, <2>1, <2>3 DEF msgque, pool
  <2>4. CASE msgmap' = Want(msgmap) /\ SleepOn(p, <<"msgmap", 0>>, C)
    <3>1. /\ Shape(msgmap') /\ msgmap'.want
          /\ \A n : CanAlloc(msgmap', n) <=> CanAlloc(msgmap, n)
      BY <1>1, <2>4, WantUnits DEF ShareTypes
    <3>2. ShareTypes'
      <4>1. Shape(msgmap)' BY <3>1 DEF Shape, Used
      <4> QED BY <1>1, <2>1, <4>1 DEF ShareTypes
    <3>3. ASSUME chan'[p] = <<"msgmap", 0>>, call' = call PROVE Sleeper(p)'
      <4>1. ~HasSegs(p)'
        <5>1. call[p].size # 0 /\ ~CanAlloc(msgmap', Btoq(call[p].size))
          BY <2>1, <3>1 DEF HasSegs
        <5> QED BY <5>1, <3>3 DEF HasSegs, Btoq, CanAlloc, Fit, Live
      <4> QED BY <3>1, <3>3, <4>1 DEF Sleeper
    <3> QED BY <1>4, <2>1, <2>4, <3>2, <3>3, SleepIInv
  <2> QED BY <2>2, <2>3, <2>4
<1>9. CASE RcvNone(p)
  <2>1. /\ perm' = perm /\ qbytes' = qbytes /\ cbytes' = cbytes /\ wwait' = wwait /\ mq' = mq
        /\ msgfp' = msgfp /\ msgmap' = msgmap /\ ~Some(p)
    BY <1>9 DEF RcvNone, pool
  <2>2. CASE Out(p, {}) /\ rwait' = rwait
    BY <1>1, <2>1, <2>2, QuietOut DEF ShareTypes
  <2>3. CASE rwait' = [rwait EXCEPT ![Q(p)] = TRUE] /\ SleepOn(p, <<"qnum", Q(p)>>, {})
    <3>1. /\ ShareTypes' /\ rwait'[Q(p)] /\ \A q \in Queue : rwait[q] => rwait'[q]
      BY <1>1, <2>1, <2>3 DEF ShareTypes, Shape, Used
    <3>2. ASSUME chan'[p] = <<"qnum", Q(p)>>, call' = call PROVE Sleeper(p)'
      <4>1. Q(p)' = Q(p) /\ ~Some(p)' BY <2>1, <3>2 DEF Q, Some
      <4> QED BY <1>3, <2>1, <3>1, <3>2, <4>1 DEF Sleeper
    <3> QED BY <1>4, <2>1, <2>3, <3>1, <3>2, SleepIInv
  <2> QED BY <1>9, <2>2, <2>3 DEF RcvNone
<1> QED BY <1>6, <1>7, <1>8, <1>9

-----------------------------------------------------------------------------
(* msgsnd takes a header and segments: who sleeps for one finds no more.   *)
LEMMA TakesIInv == ASSUME IInv, LockInv', NEW p \in Proc, SndTakes(p) PROVE IInv'
<1>1. ProcTypes /\ ShareTypes /\ Sends(p) BY DEF IInv
<1>a. PICK n : n = Btoq(call[p].size) OBVIOUS
<1>2. /\ call[p].cmd = "snd" /\ msgfp # 0 /\ HasSegs(p) /\ msgfp' = msgfp - 1
      /\ msgmap' = IF call[p].size = 0 THEN msgmap ELSE Rmalloc(msgmap, n)
      /\ held' = [held EXCEPT ![p] = IF call[p].size = 0 THEN 0 ELSE RmallocAddr(msgmap, n)]
      /\ pc' = [pc EXCEPT ![p] = "text"] /\ UNCHANGED <<msgque, mq>>
      /\ UNCHANGED <<msglock, next, call, chan, sig, cpu>>
  BY <1>a DEF SndTakes, Snd, HasHdr
<1>3. n \in Nat /\ Shape(msgmap) /\ msgfp \in Nat
  BY <1>1, <1>a, BtoqType DEF ProcTypes, ShareTypes, CallType
<1>4. RmallocAddr(msgmap, n) \in Nat
  <2>1. CASE CanAlloc(msgmap, n)
    <3>1. PICK i : i = AllocSlot(msgmap, n) OBVIOUS
    <3>2. i \in 1 .. Used(msgmap) BY <1>3, <2>1, <3>1, AllocSlotExists
    <3>3. msgmap.ent[i].m_addr \in Nat BY <1>3, <3>2, EntryFacts
    <3> QED BY <2>1, <3>1, <3>3 DEF RmallocAddr
  <2>2. CASE ~CanAlloc(msgmap, n) BY <2>2 DEF RmallocAddr
  <2> QED BY <2>1, <2>2
<1>5. /\ Shape(msgmap') /\ msgmap'.want = msgmap.want
      /\ \A k \in Nat : CanAlloc(msgmap', k) => CanAlloc(msgmap, k)
  BY <1>2, <1>3, RmallocShape, RmallocMonotone
<1>6. ProcTypes' BY <1>1, <1>2, <1>4, PlainPlaces DEF ProcTypes
<1>7. \A r \in Proc \ {p} : call'[r] = call[r] /\ chan'[r] = chan[r] /\ held'[r] = held[r]
  BY <1>1, <1>2 DEF ProcTypes
<1>8. Ends(p, "text", {}) BY <1>1, <1>2, <1>6, <1>7, MoveEnds, PlainPlaces DEF Sends
<1>9. /\ perm' = perm /\ mq' = mq /\ rwait' = rwait /\ wwait' = wwait
      /\ qbytes' = qbytes /\ cbytes' = cbytes
  BY <1>2 DEF msgque
<1>10. ShareTypes'
  <2>1. Shape(msgmap)' BY <1>5 DEF Shape, Used
  <2>2. msgfp' \in Nat BY <1>2, <1>3
  <2> QED BY <1>1, <1>9, <2>1, <2>2 DEF ShareTypes
<1>11. ASSUME NEW r \in Proc \ {p}, pc'[r] = "asleep" PROVE Sleeper(r)'
  <2>1. Sleeper(r) BY <1>8, <1>11 DEF IInv, Ends
  <2> QED BY <1>2, <1>5, <1>8, <1>9, <1>11, <2>1, OtherSleeper DEF Sleeper
<1> QED BY <1>2, <1>8, <1>9, <1>10, <1>11, Assemble, PlainPlaces

(* msgrcv finds its message. *)
LEMMA FindsIInv == ASSUME IInv, LockInv', NEW p \in Proc, RcvFinds(p) PROVE IInv'
<1>1. ProcTypes /\ ShareTypes /\ Sends(p) /\ Q(p) \in Queue BY QType DEF IInv
<1>2. /\ Some(p) /\ held' = [held EXCEPT ![p] = Found(p)]
      /\ pc' = [pc EXCEPT ![p] = "copyout"] /\ UNCHANGED <<msgque, mq, pool>>
      /\ UNCHANGED <<msglock, next, call, chan, sig, cpu>>
  BY DEF RcvFinds
<1>3. Found(p) \in Nat
  <2>1. mq[Q(p)] \in Seq(Message) /\ call[p].type \in Int
    BY <1>1 DEF ShareTypes, ProcTypes, CallType
  <2>2. Found(p) \in 1 .. Len(mq[Q(p)]) BY <1>2, <2>1, FindFacts DEF Some, Found
  <2>3. Len(mq[Q(p)]) \in Nat BY <2>1, LenProperties
  <2> QED BY <2>2, <2>3
<1>4. ProcTypes' BY <1>1, <1>2, <1>3, PlainPlaces DEF ProcTypes
<1>5. /\ held'[p] = Found(p)
      /\ \A r \in Proc \ {p} : call'[r] = call[r] /\ chan'[r] = chan[r] /\ held'[r] = held[r]
  BY <1>1, <1>2 DEF ProcTypes
<1>6. Receives(p)'
  <2>1. mq' = mq /\ call' = call BY <1>2
  <2> QED BY <1>2, <1>5, <2>1 DEF Receives, Some, Found, Q
<1> QED BY <1>1, <1>2, <1>4, <1>5, <1>6, QuietMove, PlainPlaces DEF Sends

(* A locked queue is only p's. *)
LEMMA Alone ==
    ASSUME IInv, NEW p \in Proc, pc[p] \in Locked, NEW r \in Proc \ {p}, pc[r] \in Locked
    PROVE  Q(r) # Q(p)
<1>1. Q(p) \in Queue BY QType DEF IInv
<1> QED BY <1>1 DEF IInv, LockInv, MutualExclusion

(* The message goes on the queue; all who wait for one are woken. *)
LEMMA EnqueueIInv ==
    ASSUME IInv, LockInv', NEW p \in Proc, pc[p] \in {"text", "textin"}, Enqueue(p)
    PROVE  IInv'
<1>1. ProcTypes /\ ShareTypes /\ Q(p) \in Queue /\ pc[p] \in Locked
  BY QType, LockedPlaces DEF IInv
<1> DEFINE q == Q(p)
           m == [type |-> call[p].type, size |-> call[p].size, spot |-> held[p]]
           C == IF rwait[q] THEN {<<"qnum", q>>} ELSE {}
<1>2. /\ mq' = [mq EXCEPT ![q] = Append(mq[q], m)]
      /\ cbytes' = [cbytes EXCEPT ![q] = cbytes[q] + call[p].size]
      /\ rwait' = [rwait EXCEPT ![q] = FALSE] /\ Out(p, C)
      /\ perm' = perm /\ qbytes' = qbytes /\ wwait' = wwait
      /\ msgfp' = msgfp /\ msgmap' = msgmap
  BY DEF Enqueue, pool
<1>3. m \in Message
  <2>1. call[p].type > 0 /\ call[p].type \in Int /\ call[p].size \in Nat /\ held[p] \in Nat
    BY <1>1 DEF IInv, Sends, ProcTypes, CallType
  <2> QED BY <2>1 DEF Message
<1>4. Ends(p, "user", C) BY <1>2, OutEnds
<1>5. ShareTypes'
  <2>1. mq' \in [Queue -> Seq(Message)]
    <3>1. Append(mq[q], m) \in Seq(Message) BY <1>1, <1>3, AppendProperties DEF ShareTypes
    <3> QED BY <1>1, <1>2, <3>1 DEF ShareTypes
  <2>2. cbytes' \in [Queue -> Int]
    <3>1. cbytes[q] + call[p].size \in Int BY <1>1 DEF ShareTypes, ProcTypes, CallType
    <3> QED BY <1>1, <1>2, <3>1 DEF ShareTypes
  <2>3. rwait' \in [Queue -> BOOLEAN] BY <1>1, <1>2 DEF ShareTypes
  <2> QED BY <1>1, <1>2, <2>1, <2>2, <2>3 DEF ShareTypes, Shape, Used
<1>6. \A x \in Queue \ {q} : mq'[x] = mq[x] /\ rwait'[x] = rwait[x]
  BY <1>1, <1>2 DEF ShareTypes
<1>7. ASSUME NEW r \in Proc \ {p}, pc[r] \in Locked PROVE mq'[Q(r)] = mq[Q(r)]
  BY <1>1, <1>6, <1>7, Alone, QType
<1>8. ASSUME NEW r \in Proc \ {p}, pc'[r] = "asleep" PROVE Sleeper(r)'
  <2>1. Sleeper(r) /\ Q(r) \in Queue /\ chan[r] \notin C
    BY <1>1, <1>4, <1>8, QType DEF IInv, Ends
  <2>2. chan[r] = <<"qnum", Q(r)>> => Q(r) # q /\ rwait[Q(r)] BY <2>1 DEF Sleeper
  <2> HIDE DEF q, C
  <2> QED BY <1>2, <1>4, <1>6, <1>8, <2>1, <2>2, OtherSleeper DEF Sleeper
<1> HIDE DEF q, m, C
<1> QED BY <1>4, <1>5, <1>7, <1>8, Assemble, Outside

-----------------------------------------------------------------------------
(* Segments given back: the map changes only if its sleepers are woken.    *)
LEMMA FreedMap ==
    ASSUME ShareTypes, NEW size \in Nat, NEW spot \in Nat
    PROVE  /\ Shape(MapFreed(size, spot))
           /\ msgmap.want /\ <<"msgmap", 0>> \notin MapWakes(size, spot)
                => MapFreed(size, spot) = msgmap
<1>1. Shape(msgmap) /\ Btoq(size) \in Nat BY BtoqType DEF ShareTypes
<1>2. Shape(MapFreed(size, spot)) BY <1>1, RmfreeShape DEF MapFreed
<1>3. ASSUME msgmap.want, <<"msgmap", 0>> \notin MapWakes(size, spot)
      PROVE  MapFreed(size, spot) = msgmap
  <2>1. size = 0 \/ ~WakesMap(msgmap, Btoq(size), spot) BY <1>3 DEF MapWakes
  <2> QED BY <1>3, <2>1 DEF MapFreed, WakesMap, Rmfree
<1> QED BY <1>2, <1>3

(* A header and segments go back to the pools.  The sleepers of the pools  *)
(* that p leaves asleep are right to sleep on.                             *)
LEMMA PoolSleepers ==
    ASSUME IInv, NEW p \in Proc, NEW to, NEW C, Ends(p, to, C),
           NEW size \in Nat, NEW spot \in Nat,
           HdrWakes \cup MapWakes(size, spot) \subseteq C,
           msgfp' = msgfp + 1, msgmap' = MapFreed(size, spot),
           NEW r \in Proc \ {p}, pc'[r] = "asleep"
    PROVE  /\ Sleeper(r) /\ chan[r] \notin C
           /\ chan[r] # <<"msgfp", 0>>
           /\ chan[r] = <<"msgmap", 0>> =>
                 msgmap'.want /\ \A n \in Nat : CanAlloc(msgmap', n) => CanAlloc(msgmap, n)
<1>1. Sleeper(r) /\ chan[r] \notin C /\ ShareTypes BY DEF IInv, Ends
<1>2. chan[r] # <<"msgfp", 0>> BY <1>1 DEF Sleeper, HdrWakes
<1>3. chan[r] = <<"msgmap", 0>> => msgmap' = msgmap /\ msgmap.want
  BY <1>1, FreedMap DEF Sleeper
<1> QED BY <1>1, <1>2, <1>3

(* The copyin of the text fails. *)
LEMMA CopyinIInv ==
    ASSUME IInv, LockInv', NEW p \in Proc, CopyinFails(p)
    PROVE  IInv'
<1>1. ProcTypes /\ ShareTypes BY DEF IInv
<1>a. PICK size, spot : size = call[p].size /\ spot = held[p] OBVIOUS
<1>2. size \in Nat /\ spot \in Nat BY <1>1, <1>a DEF ProcTypes, CallType
<1> DEFINE C == HdrWakes \cup MapWakes(size, spot)
<1>3. /\ msgmap' = MapFreed(size, spot) /\ msgfp' = msgfp + 1 /\ Out(p, C)
      /\ perm' = perm /\ mq' = mq /\ rwait' = rwait /\ wwait' = wwait
      /\ qbytes' = qbytes /\ cbytes' = cbytes
  BY <1>a DEF CopyinFails, msgque
<1>4. Ends(p, "user", C) BY <1>3, OutEnds
<1>5. ShareTypes'
  <2>1. Shape(msgmap') BY <1>1, <1>2, <1>3, FreedMap
  <2>2. Shape(msgmap)' BY <2>1 DEF Shape, Used
  <2> QED BY <1>1, <1>3, <2>2 DEF ShareTypes
<1>6. ASSUME NEW r \in Proc \ {p}, pc'[r] = "asleep" PROVE Sleeper(r)'
  <2>1. /\ Sleeper(r) /\ chan[r] # <<"msgfp", 0>>
        /\ chan[r] = <<"msgmap", 0>> =>
              msgmap'.want /\ \A n \in Nat : CanAlloc(msgmap', n) => CanAlloc(msgmap, n)
    BY <1>2, <1>3, <1>4, <1>6, PoolSleepers
  <2> HIDE DEF C
  <2> QED BY <1>3, <1>4, <1>6, <2>1, OtherSleeper DEF Sleeper
<1> HIDE DEF C
<1> QED BY <1>3, <1>4, <1>5, <1>6, Assemble, Outside

(* msgfree, by msgrcv or IPC_RMID: one message leaves the queue, its       *)
(* header and segments go back, and the writers of the queue are woken.    *)
LEMMA MsgfreeIInv ==
    ASSUME IInv, LockInv', NEW p \in Proc, pc[p] \in Locked,
           NEW k \in 1 .. Len(mq[Q(p)]), NEW to \in {"user", "rmid"},
           Msgfree(Q(p), k), Ends(p, to, FreeWakes(Q(p), k)),
           wwait' = [wwait EXCEPT ![Q(p)] = FALSE], cbytes' \in [Queue -> Int],
           UNCHANGED <<perm, qbytes, rwait>>
    PROVE  IInv'
<1>1. ProcTypes /\ ShareTypes /\ Q(p) \in Queue BY QType DEF IInv
<1>q. PICK q : q = Q(p) OBVIOUS
<1>s. mq[q] \in Seq(Message) /\ mq[q][k] \in Message
  BY <1>1, <1>q, ElementOfSeq DEF ShareTypes
<1>a. PICK size, spot, C : /\ size = mq[q][k].size /\ spot = mq[q][k].spot
                           /\ C = FreeWakes(q, k)
  OBVIOUS
<1>2. size \in Nat /\ spot \in Nat BY <1>s, <1>a DEF Message
<1>3. /\ mq' = [mq EXCEPT ![q] = RemoveAt(mq[q], k)]
      /\ msgmap' = MapFreed(size, spot) /\ msgfp' = msgfp + 1
  BY <1>a, <1>q DEF Msgfree
<1>4. /\ HdrWakes \cup MapWakes(size, spot) \subseteq C
      /\ wwait[q] => <<"qp", q>> \in C
      /\ Ends(p, to, C)
  BY <1>a, <1>q DEF FreeWakes
<1>b. PICK s : s = RemoveAt(mq[q], k) OBVIOUS
<1>5. /\ s \in Seq(Message)
      /\ \A i \in 1 .. Len(s) : \E j \in 1 .. Len(mq[q]) : s[i] = mq[q][j]
  BY <1>b, <1>s, <1>q, RemoveAtFacts
<1>6. /\ mq' \in [Queue -> Seq(Message)] /\ wwait' \in [Queue -> BOOLEAN]
      /\ mq'[q] = s
      /\ \A x \in Queue \ {q} : mq'[x] = mq[x] /\ wwait'[x] = wwait[x]
  BY <1>1, <1>3, <1>5, <1>b, <1>q DEF ShareTypes
<1>7. ShareTypes'
  <2>1. Shape(msgmap') BY <1>1, <1>2, <1>3, FreedMap
  <2>2. Shape(msgmap)' BY <2>1 DEF Shape, Used
  <2> QED BY <1>1, <1>3, <1>6, <2>2 DEF ShareTypes
<1>8. ASSUME NEW r \in Proc \ {p}, pc[r] \in Locked PROVE mq'[Q(r)] = mq[Q(r)]
  BY <1>1, <1>6, <1>8, <1>q, Alone, QType
<1>9. ASSUME NEW r \in Proc \ {p}, pc'[r] = "asleep" PROVE Sleeper(r)'
  <2>1. /\ Sleeper(r) /\ chan[r] # <<"msgfp", 0>> /\ chan[r] \notin C /\ Q(r) \in Queue
        /\ chan[r] = <<"msgmap", 0>> =>
              msgmap'.want /\ \A n \in Nat : CanAlloc(msgmap', n) => CanAlloc(msgmap, n)
    BY <1>1, <1>2, <1>3, <1>4, <1>9, PoolSleepers, QType
  <2>2. chan[r] = <<"qp", Q(r)>> => wwait'[Q(r)]
    <3>1. chan[r] = <<"qp", Q(r)>> => wwait[Q(r)] /\ Q(r) # q BY <1>4, <2>1 DEF Sleeper
    <3> QED BY <1>6, <2>1, <3>1
  <2>3. \A i \in 1 .. Len(mq'[Q(r)]) : \E j \in 1 .. Len(mq[Q(r)]) : mq'[Q(r)][i] = mq[Q(r)][j]
    <3>1. CASE Q(r) = q
      <4>1. mq'[Q(r)] = s /\ mq[Q(r)] = mq[q] BY <1>6, <3>1
      <4> QED BY <1>5, <4>1, Zenon
    <3>2. CASE Q(r) # q BY <1>6, <2>1, <3>2
    <3> QED BY <3>1, <3>2
  <2> QED BY <1>4, <1>9, <2>1, <2>2, <2>3, OtherSleeper DEF Sleeper
<1> QED BY <1>4, <1>7, <1>8, <1>9, Assemble, PlainPlaces

(* msgrcv takes off the message it found before it slept in copyout. *)
LEMMA DequeueIInv ==
    ASSUME IInv, LockInv', NEW p \in Proc, pc[p] \in {"copyout", "textout"}, Dequeue(p)
    PROVE  IInv'
<1>1. ProcTypes /\ ShareTypes /\ Q(p) \in Queue /\ pc[p] \in Locked /\ Receives(p)
  BY QType, LockedPlaces DEF IInv
<1>q. PICK q, k : q = Q(p) /\ k = held[p] OBVIOUS
<1>2. /\ Msgfree(q, k) /\ Out(p, FreeWakes(q, k))
      /\ cbytes' = [cbytes EXCEPT ![q] = cbytes[q] - mq[q][k].size]
      /\ wwait' = [wwait EXCEPT ![q] = FALSE] /\ UNCHANGED <<perm, qbytes, rwait>>
  BY <1>q DEF Dequeue
<1>3. mq[q] \in Seq(Message) /\ call[p].type \in Int
  BY <1>1, <1>q DEF ShareTypes, ProcTypes, CallType
<1>4. k \in 1 .. Len(mq[q]) BY <1>1, <1>3, <1>q, FindFacts DEF Receives, Some, Found
<1>5. cbytes' \in [Queue -> Int]
  <2>1. mq[q][k] \in Message BY <1>3, <1>4, ElementOfSeq
  <2>2. cbytes[q] - mq[q][k].size \in Int BY <1>1, <1>q, <2>1 DEF ShareTypes, Message
  <2> QED BY <1>1, <1>2, <2>2 DEF ShareTypes
<1>6. Ends(p, "user", FreeWakes(q, k)) BY <1>2, OutEnds
<1> QED BY <1>1, <1>2, <1>4, <1>5, <1>6, <1>q, MsgfreeIInv

(* IPC_RMID frees a message. *)
LEMMA RmidFreeIInv == ASSUME IInv, LockInv', NEW p \in Proc, RmidFree(p) PROVE IInv'
<1>1. ProcTypes /\ ShareTypes /\ Sends(p) /\ Q(p) \in Queue BY QType DEF IInv
<1>q. PICK q : q = Q(p) OBVIOUS
<1>2. /\ pc[p] = "rmid" /\ mq[q] # <<>> /\ Msgfree(q, 1)
      /\ wwait' = [wwait EXCEPT ![q] = FALSE] /\ Moves(p, "rmid", FreeWakes(q, 1))
      /\ UNCHANGED <<perm, qbytes, rwait>> /\ cbytes' = cbytes
      /\ UNCHANGED <<msglock, next, call, chan, held, sig, cpu>>
  BY <1>q DEF RmidFree, Running
<1>3. mq[q] \in Seq(Message) BY <1>1, <1>q DEF ShareTypes
<1>4. 1 \in 1 .. Len(mq[q])
  <2>1. Len(mq[q]) \in Nat /\ Len(mq[q]) # 0 BY <1>2, <1>3, EmptySeq, LenProperties
  <2> QED BY <2>1
<1>5. /\ pc' \in [Proc -> Places] /\ pc'[p] = "rmid"
      /\ \A r \in Proc \ {p} :
            /\ pc'[r] = pc[r] \/ (pc[r] = "asleep" /\ pc'[r] = "woken")
            /\ pc'[r] = "asleep" => chan[r] \notin FreeWakes(q, 1)
  BY <1>1, <1>2, MovesTypes, PlainPlaces
<1>6. ProcTypes' BY <1>1, <1>2, <1>5 DEF ProcTypes
<1>7. Ends(p, "rmid", FreeWakes(q, 1)) BY <1>1, <1>2, <1>5, <1>6 DEF Ends, Sends
<1>8. pc[p] \in Locked /\ cbytes' \in [Queue -> Int]
  BY <1>1, <1>2, LockedPlaces DEF ShareTypes
<1> QED BY <1>2, <1>4, <1>7, <1>8, <1>q, MsgfreeIInv

(* The queue is gone: its readers and writers are woken, and the flags     *)
(* are off.                                                                *)
LEMMA RmidDoneIInv == ASSUME IInv, LockInv', NEW p \in Proc, RmidDone(p) PROVE IInv'
<1>1. ProcTypes /\ ShareTypes /\ Q(p) \in Queue BY QType DEF IInv
<1>q. PICK q, seq, C : /\ q = Q(p) /\ seq = NextSeq(call[p].id, perm[q].seq, MSGMNI)
                       /\ C = (IF rwait[q] THEN {<<"qnum", q>>} ELSE {})
                               \cup (IF wwait[q] THEN {<<"qp", q>>} ELSE {})
  OBVIOUS
<1>2. /\ perm' = [perm EXCEPT ![q] = [alloc |-> FALSE, key |-> perm[q].key, seq |-> seq]]
      /\ cbytes' = [cbytes EXCEPT ![q] = 0] /\ rwait' = [rwait EXCEPT ![q] = FALSE]
      /\ wwait' = [wwait EXCEPT ![q] = FALSE] /\ Out(p, C)
      /\ qbytes' = qbytes /\ mq' = mq /\ msgfp' = msgfp /\ msgmap' = msgmap
  BY <1>q DEF RmidDone, RmidBytes, pool
<1>3. perm[q] \in Perm /\ seq \in Nat
  BY <1>1, <1>q DEF ShareTypes, Perm, NextSeq
<1>4. ShareTypes'
  <2>1. perm' \in [Queue -> Perm] BY <1>1, <1>2, <1>3 DEF ShareTypes, Perm
  <2>2. cbytes' \in [Queue -> Int]
    <3>1. cbytes \in [Queue -> Int] BY <1>1 DEF ShareTypes
    <3>2. cbytes' = [cbytes EXCEPT ![q] = 0] BY <1>2
    <3>3. 0 \in Int OBVIOUS
    <3> QED BY <3>1, <3>2, <3>3, Zenon
  <2>3. rwait' \in [Queue -> BOOLEAN] /\ wwait' \in [Queue -> BOOLEAN]
    BY <1>1, <1>2 DEF ShareTypes
  <2> QED BY <1>1, <1>2, <2>1, <2>2, <2>3 DEF ShareTypes, Shape, Used
<1>5. Ends(p, "user", C) BY <1>2, OutEnds
<1>6. \A x \in Queue \ {q} :
          perm'[x] = perm[x] /\ rwait'[x] = rwait[x] /\ wwait'[x] = wwait[x]
  BY <1>1, <1>2 DEF ShareTypes
<1>7. ASSUME NEW r \in Proc \ {p}, pc'[r] = "asleep" PROVE Sleeper(r)'
  <2>1. Sleeper(r) /\ Q(r) \in Queue /\ chan[r] \notin C
    BY <1>1, <1>5, <1>7, QType DEF IInv, Ends
  <2>2. chan[r] \in {<<"qnum", Q(r)>>, <<"qp", Q(r)>>} => Q(r) # q
    BY <1>q, <2>1 DEF Sleeper
  <2> QED BY <1>2, <1>5, <1>6, <1>7, <2>1, <2>2, OtherSleeper DEF Sleeper
<1> QED BY <1>2, <1>4, <1>5, <1>7, Assemble, Outside

(* An interrupted writer clears MSG_WWAIT and wakes the others. *)
LEMMA EintrIInv == ASSUME IInv, LockInv', NEW p \in Proc, Eintr(p) PROVE IInv'
<1>1. ProcTypes /\ ShareTypes /\ Q(p) \in Queue BY QType DEF IInv
<1>q. PICK q, C : /\ q = Q(p)
                  /\ C = IF chan[p] = <<"qp", q>> THEN {chan[p]} ELSE {}
  OBVIOUS
<1>2. /\ wwait' = IF chan[p] = <<"qp", q>> THEN [wwait EXCEPT ![q] = FALSE] ELSE wwait
      /\ Out(p, C) /\ perm' = perm /\ qbytes' = qbytes /\ cbytes' = cbytes
      /\ rwait' = rwait /\ mq' = mq /\ msgfp' = msgfp /\ msgmap' = msgmap
  BY <1>q DEF Eintr, pool
<1>3. ShareTypes' BY <1>1, <1>2 DEF ShareTypes, Shape, Used
<1>4. Ends(p, "user", C) BY <1>2, OutEnds
<1>5. ASSUME NEW r \in Proc \ {p}, pc'[r] = "asleep" PROVE Sleeper(r)'
  <2>1. Sleeper(r) /\ Q(r) \in Queue /\ chan[r] \notin C
    BY <1>1, <1>4, <1>5, QType DEF IInv, Ends
  <2>2. chan[r] = <<"qp", Q(r)>> => wwait'[Q(r)]
    <3>1. CASE chan[p] = <<"qp", q>>
      <4>1. chan[r] # <<"qp", q>> BY <1>q, <2>1, <3>1
      <4>2. \A x \in Queue \ {q} : wwait'[x] = wwait[x] BY <1>1, <1>2, <3>1 DEF ShareTypes
      <4> QED BY <2>1, <4>1, <4>2 DEF Sleeper
    <3>2. CASE chan[p] # <<"qp", q>>
      <4>1. wwait' = wwait BY <1>2, <3>2
      <4> QED BY <2>1, <4>1 DEF Sleeper
    <3> QED BY <3>1, <3>2
  <2> QED BY <1>2, <1>4, <1>5, <2>1, <2>2, OtherSleeper DEF Sleeper
<1> QED BY <1>2, <1>3, <1>4, <1>5, Assemble, Outside

-----------------------------------------------------------------------------
(* Every step of every call keeps the invariant. *)
LEMMA NextIInv == IInv /\ [Next]_vars => IInv'
<1> SUFFICES ASSUME IInv, [Next]_vars PROVE IInv' OBVIOUS
<1>1. LockInv' BY NextLock DEF IInv
<1>2. ASSUME NEW p \in Proc, Call(p) \/ Step(p) \/ Continue(p) \/ Signal(p) PROVE IInv'
  <2>1. CASE Call(p) BY <1>1, <2>1, CallIInv
  <2>2. CASE SndText(p) \/ Textin(p)
    <3>1. pc[p] \in {"text", "textin"} BY <2>2 DEF SndText, Textin, Running
    <3>2. call[p].cmd = "snd" BY <3>1 DEF IInv, Sends
    <3>3. CASE Enqueue(p) BY <1>1, <3>1, <3>3, EnqueueIInv
    <3>4. CASE CopyinFails(p) BY <1>1, <3>4, CopyinIInv
    <3>5. CASE Fault(p, "textin") BY <1>1, <3>2, <3>5, QuietFault, PlainPlaces
    <3> QED BY <2>2, <3>3, <3>4, <3>5 DEF SndText, Textin
  <2>3. CASE RcvCopyout(p) \/ Textout(p)
    <3>1. pc[p] \in {"copyout", "textout"} BY <2>3 DEF RcvCopyout, Textout, Running
    <3>2. Receives(p) BY <3>1 DEF IInv
    <3>3. CASE Dequeue(p) BY <1>1, <3>1, <3>3, DequeueIInv
    <3>4. CASE CopyoutFails(p) BY <1>1, <3>4, QuietIInv
    <3>5. CASE Fault(p, "textout") BY <1>1, <3>2, <3>5, QuietFault, PlainPlaces
    <3> QED BY <2>3, <3>3, <3>4, <3>5 DEF RcvCopyout, Textout
  <2>4. CASE Step(p) /\ ~SndText(p) /\ ~RcvCopyout(p)
    BY <1>1, <2>4, ConvIInv, EintrIInv, QuietIInv, WaitIInv, TakesIInv, FindsIInv,
       RmidFreeIInv, RmidDoneIInv DEF Step
  <2>5. CASE Continue(p) /\ ~Textin(p) /\ ~Textout(p)
    BY <1>1, <2>5, ResumeIInv, QuietIInv DEF Continue
  <2>6. CASE Signal(p) BY <1>1, <2>6, ResumeIInv
  <2> QED BY <1>2, <2>1, <2>2, <2>3, <2>4, <2>5, <2>6
<1>3. CASE UNCHANGED vars
  <2>1. ShareTypes' BY <1>3 DEF vars, msgque, pool, IInv, ShareTypes, Shape, Used
  <2>2. ProcTypes' BY <1>3 DEF vars, IInv, ProcTypes
  <2>3. ASSUME NEW r \in Proc
        PROVE  /\ Sends(r)'
               /\ pc'[r] \in {"copyout", "textout"} => Receives(r)'
               /\ pc'[r] = "asleep" => Sleeper(r)'
    <3>1. /\ pc' = pc /\ call' = call /\ chan' = chan /\ held' = held /\ mq' = mq
          /\ perm' = perm /\ rwait' = rwait /\ wwait' = wwait
          /\ msgfp' = msgfp /\ msgmap' = msgmap
      BY <1>3 DEF vars, msgque, pool
    <3>2. /\ Sends(r) /\ (pc[r] \in {"copyout", "textout"} => Receives(r))
          /\ pc[r] = "asleep" => Sleeper(r)
      BY DEF IInv
    <3> QED BY <3>1, <3>2 DEF Sends, Receives, Sleeper, Q, Some, Found, HasSegs
  <2> QED BY <1>1, <2>1, <2>2, <2>3 DEF IInv
<1> QED BY <1>2, <1>3 DEF Next

(* The invariant holds of every reachable state of msg.c. *)
THEOREM Inductive == Spec => []IInv
BY InitIInv, NextIInv, PTL DEF Spec

(* Queues, pools and calls keep their types: no header is taken from an    *)
(* empty free list, and msgmap always has the terminator its scans need.   *)
THEOREM TypeCorrect == Spec => []TypeOK
<1>1. IInv => TypeOK BY Consequences
<1> QED BY <1>1, Inductive, PTL

(* A msgrcv that sleeps on a fault in copyout takes off just the message   *)
(* it copied.                                                              *)
THEOREM ReceiversStable == Spec => []ReceiverStable
<1>1. IInv => ReceiverStable BY Consequences
<1> QED BY <1>1, Inductive, PTL

(* No wakeup is lost: whoever sleeps for a lock, a header, segments or a   *)
(* message does without it, and every sleeper, writers for room included,  *)
(* is announced to the one who will wake it.                               *)
THEOREM WakeupsKept == Spec => []NoLostWakeup
<1>1. IInv => NoLostWakeup BY Consequences
<1> QED BY <1>1, Inductive, PTL

-----------------------------------------------------------------------------
(* v[k] is the sum of the first k of the n numbers e. *)
IsSum(v, e, n) == v[0] = 0 /\ \A k \in 1 .. n : v[k] = v[k - 1] + e[k]

(* The recursive definition of such sums. *)
AddsUp(v, e, n) == v = [k \in 0 .. n |-> IF k = 0 THEN 0 ELSE v[k - 1] + e[k]]

(* The sums exist. *)
LEMMA SumExists == ASSUME NEW e, NEW n \in Nat PROVE \E v : AddsUp(v, e, n)
<1> DEFINE S == {m \in Nat : ~\E v : AddsUp(v, e, m)}
<1>1. SUFFICES ASSUME n \in S PROVE FALSE OBVIOUS
<1>2. S \in SUBSET Nat OBVIOUS
<1>3. PICK m \in S : \A z \in S : m <= z
  <2> HIDE DEF S
  <2> QED BY <1>1, <1>2, Least
<1>4. m \in Nat /\ ~\E v : AddsUp(v, e, m) OBVIOUS
<1>5. CASE m = 0
  <2> DEFINE v == [k \in 0 .. m |-> 0]
  <2>1. v = [k \in 0 .. m |-> IF k = 0 THEN 0 ELSE v[k - 1] + e[k]] BY <1>5
  <2> QED BY <1>4, <2>1 DEF AddsUp
<1>6. CASE m # 0
  <2>1. m - 1 \in Nat /\ ~(m <= m - 1) BY <1>4, <1>6
  <2>2. \E v : AddsUp(v, e, m - 1) BY <1>3, <2>1
  <2>3. PICK w : w = [k \in 0 .. m - 1 |-> IF k = 0 THEN 0 ELSE w[k - 1] + e[k]] BY <2>2 DEF AddsUp
  <2> DEFINE v == [k \in 0 .. m |-> IF k = m THEN w[m - 1] + e[m] ELSE w[k]]
  <2>4. ASSUME NEW k \in 0 .. m PROVE v[k] = IF k = 0 THEN 0 ELSE v[k - 1] + e[k]
    <3>1. CASE k = m
      <4>1. v[k - 1] = w[m - 1] BY <1>4, <1>6, <3>1
      <4> QED BY <1>4, <1>6, <3>1, <4>1
    <3>2. CASE k # m
      <4>1. k \in 0 .. m - 1 /\ v[k] = w[k] BY <1>4, <3>2
      <4>2. w[k] = IF k = 0 THEN 0 ELSE w[k - 1] + e[k] BY <2>3, <4>1
      <4>3. k # 0 => v[k - 1] = w[k - 1] BY <1>4, <4>1
      <4> QED BY <4>1, <4>2, <4>3
    <3> QED BY <3>1, <3>2
  <2>5. v = [k \in 0 .. m |-> v[k]] OBVIOUS
  <2> HIDE DEF v
  <2>6. v = [k \in 0 .. m |-> IF k = 0 THEN 0 ELSE v[k - 1] + e[k]] BY <2>4, <2>5
  <2> QED BY <1>4, <2>6 DEF AddsUp
<1> QED BY <1>5, <1>6

(* What the recursive definition says of every number. *)
LEMMA SumSteps == ASSUME NEW e, NEW n \in Nat, NEW v, AddsUp(v, e, n) PROVE IsSum(v, e, n)
<1>1. \A k \in 0 .. n : v[k] = IF k = 0 THEN 0 ELSE v[k - 1] + e[k] BY DEF AddsUp
<1>2. 0 \in 0 .. n /\ \A k \in 1 .. n : k \in 0 .. n /\ k # 0 OBVIOUS
<1> QED BY <1>1, <1>2 DEF IsSum

(* Sums of the same numbers agree. *)
LEMMA SumsAgree ==
    ASSUME NEW n \in Nat, NEW e, NEW f, NEW u, NEW v, IsSum(u, e, n), IsSum(v, f, n),
           \A k \in 1 .. n : e[k] \in Int /\ f[k] = e[k]
    PROVE  \A j \in 0 .. n : u[j] \in Int /\ v[j] = u[j]
<1> DEFINE S == {j \in Nat : j <= n /\ ~(u[j] \in Int /\ v[j] = u[j])}
<1>1. SUFFICES S = {} OBVIOUS
<1>2. SUFFICES ASSUME NEW x \in S PROVE FALSE OBVIOUS
<1>3. S \in SUBSET Nat OBVIOUS
<1>4. PICK j \in S : \A z \in S : j <= z
  <2> HIDE DEF S
  <2> QED BY <1>3, Least
<1>5. j \in Nat /\ j <= n /\ ~(u[j] \in Int /\ v[j] = u[j]) OBVIOUS
<1>6. j # 0 BY <1>5 DEF IsSum
<1>7. j \in 1 .. n /\ j - 1 \in Nat /\ j - 1 <= n /\ ~(j <= j - 1) BY <1>5, <1>6
<1>8. u[j - 1] \in Int /\ v[j - 1] = u[j - 1] BY <1>4, <1>7
<1>9. u[j] = u[j - 1] + e[j] /\ v[j] = v[j - 1] + f[j] BY <1>7 DEF IsSum
<1> QED BY <1>5, <1>7, <1>8, <1>9

(* If one of the numbers changes by d, so does the sum. *)
LEMMA SumShifts ==
    ASSUME NEW n \in Nat, NEW e, NEW f, NEW u, NEW v, IsSum(u, e, n), IsSum(v, f, n),
           NEW i \in 1 .. n, NEW d \in Int, f[i] = e[i] + d,
           \A k \in 1 .. n : e[k] \in Int /\ (k # i => f[k] = e[k])
    PROVE  u[n] \in Int /\ v[n] = u[n] + d
<1> DEFINE R(j) == u[j] \in Int /\ v[j] = u[j] + (IF i <= j THEN d ELSE 0)
           S == {j \in Nat : j <= n /\ ~R(j)}
<1>1. SUFFICES S = {} BY i <= n
<1>2. SUFFICES ASSUME NEW x \in S PROVE FALSE OBVIOUS
<1>3. S \in SUBSET Nat OBVIOUS
<1>4. PICK j \in S : \A z \in S : j <= z
  <2> HIDE DEF S
  <2> QED BY <1>3, Least
<1>5. j \in Nat /\ j <= n /\ ~R(j) OBVIOUS
<1>6. j # 0 BY <1>5 DEF IsSum
<1>7. j \in 1 .. n /\ j - 1 \in Nat /\ j - 1 <= n /\ ~(j <= j - 1) BY <1>5, <1>6
<1>8. R(j - 1) BY <1>4, <1>7
<1>9. u[j] = u[j - 1] + e[j] /\ v[j] = v[j - 1] + f[j] BY <1>7 DEF IsSum
<1>10. e[j] \in Int /\ f[j] = e[j] + (IF j = i THEN d ELSE 0) BY <1>7
<1> HIDE DEF S
<1>11. i \in Int /\ j \in Int BY <1>5
<1>12. R(j) BY <1>7, <1>8, <1>9, <1>10, <1>11
<1> QED BY <1>5, <1>12

(* f are the n numbers e without the i-th. *)
LeftOut(f, e, i, n) == \A k \in 1 .. n - 1 : f[k] = IF k < i THEN e[k] ELSE e[k + 1]

(* If one of the numbers is left out, the sum is less by it. *)
LEMMA SumDrops ==
    ASSUME NEW n \in Nat, NEW e, NEW f, NEW u, NEW v, NEW i \in 1 .. n,
           IsSum(u, e, n), IsSum(v, f, n - 1), \A k \in 1 .. n : e[k] \in Int,
           LeftOut(f, e, i, n)
    PROVE  u[n] \in Int /\ v[n - 1] = u[n] - e[i]
<1> DEFINE R(j) == /\ u[j] \in Int /\ u[j + 1] \in Int
                   /\ v[j] = IF j < i THEN u[j] ELSE u[j + 1] - e[i]
           S == {j \in Nat : j <= n - 1 /\ ~R(j)}
<1>0. n - 1 \in Nat /\ n >= 1 /\ i \in Nat /\ i >= 1 /\ i <= n /\ e[i] \in Int OBVIOUS
<1>u. \A k \in 1 .. n : u[k] = u[k - 1] + e[k] BY DEF IsSum
<1>1. S = {}
  <2>2. SUFFICES ASSUME NEW x \in S PROVE FALSE OBVIOUS
  <2>3. S \in SUBSET Nat OBVIOUS
  <2>4. PICK j \in S : \A z \in S : j <= z
    <3> HIDE DEF S
    <3> QED BY <2>3, Least
  <2>5. j \in Nat /\ j <= n - 1 /\ ~R(j) OBVIOUS
  <2>6. j + 1 \in 1 .. n /\ u[j + 1] = u[j] + e[j + 1] /\ e[j + 1] \in Int
    <3>1. j + 1 \in 1 .. n /\ (j + 1) - 1 = j BY <2>5
    <3> QED BY <3>1, <1>u
  <2>7. CASE j = 0
    <3>1. u[0] = 0 /\ v[0] = 0 BY DEF IsSum
    <3> QED BY <1>0, <2>5, <2>6, <2>7, <3>1
  <2>8. CASE j # 0
    <3>1. j \in 1 .. n - 1 /\ j - 1 \in Nat /\ j - 1 <= n - 1 /\ ~(j <= j - 1) /\ (j - 1) + 1 = j
      BY <2>5, <2>8
    <3>2. R(j - 1) BY <2>4, <3>1
    <3>3. v[j] = v[j - 1] + f[j] BY <3>1 DEF IsSum
    <3>4. f[j] = IF j < i THEN e[j] ELSE e[j + 1] BY <3>1 DEF LeftOut
    <3>5. j \in 1 .. n /\ u[j] = u[j - 1] + e[j] /\ e[j] \in Int BY <3>1, <1>u
    <3>6. u[j - 1] \in Int /\ u[j] \in Int /\ v[j - 1] = IF j - 1 < i THEN u[j - 1] ELSE u[j] - e[i]
      BY <3>1, <3>2
    <3> HIDE DEF S
    <3>7. CASE j < i BY <1>0, <2>5, <2>6, <3>3, <3>4, <3>5, <3>6, <3>7
    <3>8. CASE j = i BY <1>0, <2>5, <2>6, <3>3, <3>4, <3>5, <3>6, <3>8
    <3>9. CASE j > i BY <1>0, <2>5, <2>6, <3>3, <3>4, <3>5, <3>6, <3>9
    <3> QED BY <3>7, <3>8, <3>9, <2>5, <1>0
  <2> QED BY <2>7, <2>8
<1>2. R(n - 1)
  <2>1. n - 1 \notin S BY <1>1
  <2> QED BY <2>1, <1>0
<1>3. (n - 1) + 1 = n /\ (n - 1 < i => i = n) BY <1>0
<1>4. u[n] = u[n - 1] + e[n] BY <1>0, <1>u
<1> QED BY <1>0, <1>2, <1>3, <1>4

(* The bytes of a sequence of messages are such a sum. *)
LEMMA BytesSum ==
    ASSUME NEW s, Len(s) \in Nat
    PROVE  \E v : IsSum(v, [k \in 1 .. Len(s) |-> s[k].size], Len(s)) /\ Abstract!Bytes(s) = v[Len(s)]
<1> DEFINE n == Len(s)
           e == [k \in 1 .. n |-> s[k].size]
           P(v) == v = [k \in 0 .. n |-> IF k = 0 THEN 0 ELSE v[k - 1] + s[k].size]
           sum == CHOOSE v : P(v)
<1>1. PICK w : AddsUp(w, e, n) BY SumExists
<1>2. P(w)
  <2>0. \A k \in 0 .. n : k # 0 => k \in 1 .. n /\ e[k] = s[k].size OBVIOUS
  <2>a. \A k \in 0 .. n : w[k] = IF k = 0 THEN 0 ELSE w[k - 1] + e[k]
    <3> HIDE DEF e, n
    <3> QED BY <1>1 DEF AddsUp
  <2>1. \A k \in 0 .. n : w[k] = IF k = 0 THEN 0 ELSE w[k - 1] + s[k].size
    <3> HIDE DEF e, n
    <3> QED BY <2>0, <2>a
  <2>2. w = [k \in 0 .. n |-> w[k]] BY <1>1 DEF AddsUp
  <2> HIDE DEF n
  <2> QED BY <2>1, <2>2
<1>3. P(sum)
  <2> HIDE DEF P
  <2> QED BY <1>2, Zenon
<1>4. Abstract!Bytes(s) = sum[n] BY DEF Abstract!Bytes
<1> HIDE DEF sum
<1>5. \A k \in 0 .. n : sum[k] = IF k = 0 THEN 0 ELSE sum[k - 1] + s[k].size BY <1>3
<1>6. IsSum(sum, e, n)
  <2>1. 0 \in 0 .. n /\ \A k \in 1 .. n : k \in 0 .. n /\ k # 0 OBVIOUS
  <2> QED BY <1>5, <2>1 DEF IsSum
<1> QED BY <1>4, <1>6

(* Sequences of messages of the same sizes have the same bytes. *)
LEMMA BytesSame ==
    ASSUME NEW s, NEW t, Len(s) \in Nat, Len(t) = Len(s),
           \A k \in 1 .. Len(s) : s[k].size \in Int /\ t[k].size = s[k].size
    PROVE  Abstract!Bytes(t) = Abstract!Bytes(s)
<1> DEFINE e == [k \in 1 .. Len(s) |-> s[k].size]
           f == [k \in 1 .. Len(t) |-> t[k].size]
<1>1. PICK u : IsSum(u, e, Len(s)) /\ Abstract!Bytes(s) = u[Len(s)] BY BytesSum
<1>2. PICK v : IsSum(v, f, Len(s)) /\ Abstract!Bytes(t) = v[Len(s)] BY BytesSum
<1>3. \A k \in 1 .. Len(s) : e[k] \in Int /\ f[k] = e[k] OBVIOUS
<1> HIDE DEF e, f
<1>4. \A j \in 0 .. Len(s) : u[j] \in Int /\ v[j] = u[j] BY <1>1, <1>2, <1>3, SumsAgree
<1> QED BY <1>1, <1>2, <1>4

(* None at all. *)
LEMMA BytesNone == Abstract!Bytes(<<>>) = 0
<1>1. Len(<<>>) = 0 OBVIOUS
<1>2. PICK v : IsSum(v, [k \in 1 .. Len(<<>>) |-> <<>>[k].size], Len(<<>>))
               /\ Abstract!Bytes(<<>>) = v[Len(<<>>)]
  BY <1>1, BytesSum
<1> QED BY <1>1, <1>2 DEF IsSum

(* One more message. *)
LEMMA BytesAppend ==
    ASSUME NEW s \in Seq(Message), NEW m \in Message
    PROVE  Abstract!Bytes(s) \in Int /\ Abstract!Bytes(Append(s, m)) = Abstract!Bytes(s) + m.size
<1>n. PICK n, t : n = Len(s) /\ t = Append(s, m) OBVIOUS
<1>0. n \in Nat /\ \A k \in 1 .. n : s[k] \in Message BY <1>n, LenProperties, ElementOfSeq
<1>1. Len(t) = n + 1 /\ t[n + 1] = m /\ \A k \in 1 .. n : t[k] = s[k] BY <1>n, <1>0, AppendProperties
<1> DEFINE e == [k \in 1 .. Len(s) |-> s[k].size]
           f == [k \in 1 .. Len(t) |-> t[k].size]
<1>2. PICK u : IsSum(u, e, n) /\ Abstract!Bytes(s) = u[n] BY <1>0, <1>n, BytesSum
<1>3. PICK v : IsSum(v, f, n + 1) /\ Abstract!Bytes(t) = v[n + 1]
  <2>1. Len(t) \in Nat BY <1>0, <1>1
  <2>2. PICK v : IsSum(v, f, Len(t)) /\ Abstract!Bytes(t) = v[Len(t)] BY <2>1, BytesSum
  <2> QED BY <2>2, <1>1
<1>4. \A k \in 1 .. n : e[k] \in Int /\ f[k] = e[k] BY <1>0, <1>1, <1>n DEF Message
<1>5. f[n + 1] = m.size BY <1>0, <1>1
<1> HIDE DEF e, f
<1>6. IsSum(v, f, n) BY <1>3, <1>0 DEF IsSum
<1>7. \A j \in 0 .. n : u[j] \in Int /\ v[j] = u[j] BY <1>0, <1>2, <1>4, <1>6, SumsAgree
<1>8. v[n + 1] = v[n] + f[n + 1]
  <2>1. n + 1 \in 1 .. n + 1 /\ (n + 1) - 1 = n BY <1>0
  <2> QED BY <2>1, <1>3 DEF IsSum
<1> QED BY <1>0, <1>2, <1>3, <1>5, <1>7, <1>8, <1>n

(* One message less. *)
LEMMA BytesRemove ==
    ASSUME NEW s \in Seq(Message), NEW i \in 1 .. Len(s)
    PROVE  Abstract!Bytes(RemoveAt(s, i)) = Abstract!Bytes(s) - s[i].size
<1>n. PICK n, t : n = Len(s) /\ t = RemoveAt(s, i) OBVIOUS
<1>0. /\ n \in Nat /\ i \in 1 .. n /\ n - 1 \in Nat /\ \A k \in 1 .. n : s[k] \in Message
  BY <1>n, LenProperties, ElementOfSeq
<1>1. Len(t) = n - 1 /\ \A k \in 1 .. n - 1 : t[k] = IF k < i THEN s[k] ELSE s[k + 1]
  BY <1>n, RemoveAtIs
<1> DEFINE e == [k \in 1 .. Len(s) |-> s[k].size]
           f == [k \in 1 .. Len(t) |-> t[k].size]
<1>2. PICK u : IsSum(u, e, n) /\ Abstract!Bytes(s) = u[n] BY <1>0, <1>n, BytesSum
<1>3. PICK v : IsSum(v, f, n - 1) /\ Abstract!Bytes(t) = v[n - 1] BY <1>0, <1>1, BytesSum
<1>4. (\A k \in 1 .. n : e[k] \in Int) /\ e[i] = s[i].size BY <1>0, <1>n DEF Message
<1>5. LeftOut(f, e, i, n) BY <1>0, <1>1, <1>n DEF LeftOut
<1> HIDE DEF e, f
<1>6. v[n - 1] = u[n] - e[i] BY <1>0, <1>2, <1>3, <1>4, <1>5, SumDrops
<1> QED BY <1>2, <1>3, <1>4, <1>6, <1>n

-----------------------------------------------------------------------------
(* The loop of msgrcv looks at message k with x in smp. *)
Look(s, typ, k, x) ==
    IF typ > 0
    THEN IF x = 0 /\ s[k].type = typ THEN k ELSE x
    ELSE IF s[k].type <= -typ /\ ~(x # 0 /\ s[x].type <= s[k].type) THEN k ELSE x

(* v[k] is smp after k messages. *)
Scans(v, s, typ, n) == v = [k \in 0 .. n |-> IF k = 0 THEN 0 ELSE Look(s, typ, k, v[k - 1])]

(* The loop ends with every sequence. *)
LEMMA ScanExists == ASSUME NEW s, NEW typ, NEW n \in Nat PROVE \E v : Scans(v, s, typ, n)
<1> DEFINE S == {m \in Nat : ~\E v : Scans(v, s, typ, m)}
<1>1. SUFFICES ASSUME n \in S PROVE FALSE OBVIOUS
<1>2. S \in SUBSET Nat OBVIOUS
<1>3. PICK m \in S : \A z \in S : m <= z
  <2> HIDE DEF S
  <2> QED BY <1>1, <1>2, Least
<1>4. m \in Nat /\ ~\E v : Scans(v, s, typ, m) OBVIOUS
<1>5. CASE m = 0
  <2> DEFINE v == [k \in 0 .. m |-> 0]
  <2>1. v = [k \in 0 .. m |-> IF k = 0 THEN 0 ELSE Look(s, typ, k, v[k - 1])] BY <1>5
  <2> QED BY <1>4, <2>1 DEF Scans
<1>6. CASE m # 0
  <2>1. m - 1 \in Nat /\ ~(m <= m - 1) BY <1>4, <1>6
  <2>2. \E v : Scans(v, s, typ, m - 1) BY <1>3, <2>1
  <2>3. PICK w : w = [k \in 0 .. m - 1 |-> IF k = 0 THEN 0 ELSE Look(s, typ, k, w[k - 1])]
    BY <2>2 DEF Scans
  <2> DEFINE v == [k \in 0 .. m |-> IF k = m THEN Look(s, typ, m, w[m - 1]) ELSE w[k]]
  <2>4. ASSUME NEW k \in 0 .. m PROVE v[k] = IF k = 0 THEN 0 ELSE Look(s, typ, k, v[k - 1])
    <3>1. CASE k = m
      <4>1. v[k - 1] = w[m - 1] BY <1>4, <1>6, <3>1
      <4> QED BY <1>4, <1>6, <3>1, <4>1
    <3>2. CASE k # m
      <4>1. k \in 0 .. m - 1 /\ v[k] = w[k] BY <1>4, <3>2
      <4>2. w[k] = IF k = 0 THEN 0 ELSE Look(s, typ, k, w[k - 1]) BY <2>3, <4>1
      <4>3. k # 0 => v[k - 1] = w[k - 1] BY <1>4, <4>1
      <4> QED BY <4>1, <4>2, <4>3
    <3> QED BY <3>1, <3>2
  <2>5. v = [k \in 0 .. m |-> v[k]] OBVIOUS
  <2> HIDE DEF v
  <2>6. v = [k \in 0 .. m |-> IF k = 0 THEN 0 ELSE Look(s, typ, k, v[k - 1])] BY <2>4, <2>5
  <2> QED BY <1>4, <2>6 DEF Scans
<1> QED BY <1>5, <1>6

(* smp after k messages is the best of them, NULL if none is eligible. *)
Best(s, typ, k, x) ==
    \/ x = 0 /\ \A j \in 1 .. k : ~Eligible(s[j], typ)
    \/ /\ x \in 1 .. k /\ Eligible(s[x], typ)
       /\ \A j \in 1 .. k : Eligible(s[j], typ) => Precedes(s, typ, x, j)

(* One round of the loop. *)
LEMMA LookBest ==
    ASSUME NEW s \in Seq(Message), NEW typ \in Int, typ # 0, NEW k \in 1 .. Len(s),
           NEW x, Best(s, typ, k - 1, x)
    PROVE  Best(s, typ, k, Look(s, typ, k, x))
<1>1. /\ Len(s) \in Nat /\ k \in Nat
      /\ \A j \in 1 .. k : s[j].type \in Nat
  <2>1. Len(s) \in Nat /\ k \in Nat /\ k <= Len(s) BY LenProperties
  <2>2. \A j \in 1 .. Len(s) : s[j] \in Message BY ElementOfSeq
  <2>3. \A j \in 1 .. k : j \in 1 .. Len(s) BY <2>1
  <2>4. \A m \in Message : m.type \in Nat BY DEF Message
  <2> QED BY <2>1, <2>2, <2>3, <2>4
<1>2. \A j \in 1 .. k : j \in 1 .. k - 1 \/ j = k BY <1>1
<1>y. PICK y : y = Look(s, typ, k, x) OBVIOUS
<1>3. CASE typ > 0
  <2>1. \A j \in 1 .. k : Eligible(s[j], typ) <=> s[j].type = typ BY <1>3 DEF Eligible
  <2>2. \A i, j \in 1 .. k : Precedes(s, typ, i, j) <=> i <= j BY <1>3 DEF Precedes
  <2>3. y = IF x = 0 /\ s[k].type = typ THEN k ELSE x BY <1>3, <1>y DEF Look
  <2>4. CASE x = 0
    <3>1. \A j \in 1 .. k - 1 : s[j].type # typ
      <4>1. x \notin 1 .. k - 1 BY <2>4
      <4>2. \A j \in 1 .. k - 1 : ~Eligible(s[j], typ) BY <4>1 DEF Best
      <4>3. \A j \in 1 .. k - 1 : j \in 1 .. k BY <1>1
      <4> QED BY <2>1, <4>2, <4>3
    <3>2. CASE s[k].type = typ
      <4>1. y = k BY <2>3, <2>4, <3>2
      <4>2. y \in 1 .. k BY <4>1, <1>1
      <4>3. \A j \in 1 .. k : Eligible(s[j], typ) => j = k BY <1>2, <2>1, <3>1
      <4>4. Eligible(s[k], typ) /\ Precedes(s, typ, k, k) BY <2>1, <2>2, <3>2, <4>1, <4>2, <1>1
      <4> QED BY <4>1, <4>2, <4>3, <4>4, <1>y, Zenon DEF Best
    <3>3. CASE s[k].type # typ
      <4>1. y = 0 BY <2>3, <2>4, <3>3
      <4>2. \A j \in 1 .. k : ~Eligible(s[j], typ) BY <1>2, <2>1, <3>1, <3>3
      <4> QED BY <4>1, <4>2, <1>y DEF Best
    <3> QED BY <3>2, <3>3
  <2>5. CASE x # 0
    <3>1. /\ x \in 1 .. k - 1 /\ Eligible(s[x], typ)
          /\ \A j \in 1 .. k - 1 : Eligible(s[j], typ) => Precedes(s, typ, x, j)
      BY <2>5 DEF Best
    <3>2. x \in 1 .. k /\ x <= k BY <3>1, <1>1
    <3>3. y = x BY <2>3, <2>5
    <3>4. \A j \in 1 .. k : Eligible(s[j], typ) => Precedes(s, typ, x, j)
      <4>1. Precedes(s, typ, x, k) BY <2>2, <3>2, <1>1
      <4> QED BY <1>2, <3>1, <4>1
    <3> QED BY <3>1, <3>2, <3>3, <3>4, <1>y, Zenon DEF Best
  <2> QED BY <2>4, <2>5
<1>4. CASE typ < 0
  <2>1. \A j \in 1 .. k : Eligible(s[j], typ) <=> s[j].type <= -typ BY <1>4 DEF Eligible
  <2>2. \A i, j \in 1 .. k : Precedes(s, typ, i, j) <=>
            s[i].type < s[j].type \/ (s[i].type = s[j].type /\ i <= j)
    BY <1>1, <1>4 DEF Precedes
  <2>3. y = IF s[k].type <= -typ /\ ~(x # 0 /\ s[x].type <= s[k].type) THEN k ELSE x
    BY <1>4, <1>y DEF Look
  <2>k. k \in 1 .. k BY <1>1
  <2>4. CASE x = 0
    <3>1. \A j \in 1 .. k - 1 : ~Eligible(s[j], typ)
      <4>1. x \notin 1 .. k - 1 BY <2>4
      <4> QED BY <4>1 DEF Best
    <3>2. CASE s[k].type <= -typ
      <4>1. y = k BY <2>3, <2>4, <3>2
      <4>2. \A j \in 1 .. k : Eligible(s[j], typ) => j = k BY <1>2, <3>1
      <4>3. Precedes(s, typ, k, k) BY <2>k, <2>2, <1>1
      <4> QED BY <2>1, <2>k, <3>2, <4>1, <4>2, <4>3, <1>y, Zenon DEF Best
    <3>3. CASE ~(s[k].type <= -typ)
      <4>1. y = 0 BY <2>3, <2>4, <3>3
      <4>2. \A j \in 1 .. k : ~Eligible(s[j], typ) BY <1>2, <2>1, <2>k, <3>1, <3>3
      <4> QED BY <4>1, <4>2, <1>y DEF Best
    <3> QED BY <3>2, <3>3
  <2>5. CASE x # 0
    <3>1. /\ x \in 1 .. k - 1 /\ Eligible(s[x], typ)
          /\ \A j \in 1 .. k - 1 : Eligible(s[j], typ) => Precedes(s, typ, x, j)
      BY <2>5 DEF Best
    <3>2. x \in 1 .. k /\ x <= k BY <3>1, <1>1
    <3>3. CASE s[k].type <= -typ /\ ~(s[x].type <= s[k].type)
      <4>1. y = k BY <2>3, <2>5, <3>3
      <4>2. s[k].type < s[x].type BY <1>1, <2>k, <3>2, <3>3
      <4>3. ASSUME NEW j \in 1 .. k, Eligible(s[j], typ) PROVE Precedes(s, typ, k, j)
        <5>1. CASE j = k BY <5>1, <2>2, <2>k, <1>1
        <5>2. CASE j \in 1 .. k - 1
          <6>1. Precedes(s, typ, x, j) BY <3>1, <4>3, <5>2
          <6>2. s[x].type <= s[j].type BY <6>1, <2>2, <3>2, <1>1
          <6>3. s[k].type < s[j].type BY <6>2, <4>2, <3>2, <2>k, <1>1
          <6> QED BY <6>3, <2>2, <2>k
        <5> QED BY <5>1, <5>2, <1>2
      <4> QED BY <2>1, <2>k, <3>3, <4>1, <4>3, <1>y, Zenon DEF Best
    <3>4. CASE ~(s[k].type <= -typ /\ ~(s[x].type <= s[k].type))
      <4>1. y = x BY <2>3, <2>5, <3>4
      <4>2. Eligible(s[k], typ) => Precedes(s, typ, x, k)
        BY <2>1, <2>2, <2>k, <3>2, <3>4, <1>1
      <4>3. \A j \in 1 .. k : Eligible(s[j], typ) => Precedes(s, typ, x, j)
        BY <1>2, <3>1, <4>2
      <4> QED BY <3>1, <3>2, <4>1, <4>3, <1>y DEF Best
    <3> QED BY <3>3, <3>4
  <2> QED BY <2>4, <2>5
<1> QED BY <1>3, <1>4

(* There is but one first. *)
LEMMA FirstOne ==
    ASSUME NEW s \in Seq(Message), NEW typ \in Int, NEW k, NEW x, First(s, typ, k), First(s, typ, x)
    PROVE  k = x
<1>1. Len(s) \in Nat /\ \A j \in 1 .. Len(s) : s[j].type \in Nat
  <2>1. Len(s) \in Nat BY LenProperties
  <2>2. \A j \in 1 .. Len(s) : s[j] \in Message BY ElementOfSeq
  <2>4. \A m \in Message : m.type \in Nat BY DEF Message
  <2> QED BY <2>1, <2>2, <2>4
<1>2. k \in 1 .. Len(s) /\ x \in 1 .. Len(s) /\ Precedes(s, typ, k, x) /\ Precedes(s, typ, x, k)
  BY DEF First
<1>3. k \in Nat /\ x \in Nat /\ s[k].type \in Nat /\ s[x].type \in Nat BY <1>1, <1>2
<1> QED BY <1>2, <1>3 DEF Precedes

(* What the whole loop leaves. *)
LEMMA ScanBest ==
    ASSUME NEW s \in Seq(Message), NEW typ \in Int, typ # 0
    PROVE  Best(s, typ, Len(s), Scan(s, typ))
<1>n. PICK n : n = Len(s) OBVIOUS
<1>0. n \in Nat BY <1>n, LenProperties
<1> DEFINE P(v) == v = [k \in 0 .. Len(s) |->
                          IF k = 0 THEN 0
                          ELSE IF typ > 0
                          THEN IF v[k - 1] = 0 /\ s[k].type = typ THEN k ELSE v[k - 1]
                          ELSE IF s[k].type <= -typ
                                  /\ ~(v[k - 1] # 0 /\ s[v[k - 1]].type <= s[k].type)
                          THEN k ELSE v[k - 1]]
           smp == CHOOSE v : P(v)
<1>1. PICK w : Scans(w, s, typ, n) BY <1>0, ScanExists
<1>2. P(w)
  <2>1. w = [k \in 0 .. n |-> IF k = 0 THEN 0 ELSE Look(s, typ, k, w[k - 1])] BY <1>1 DEF Scans
  <2> QED BY <2>1, <1>n DEF Look
<1>3. P(smp)
  <2> HIDE DEF P
  <2> QED BY <1>2, Zenon
<1>4. Scan(s, typ) = smp[n] BY <1>n DEF Scan
<1> HIDE DEF smp
<1>5. \A k \in 0 .. n : smp[k] = IF k = 0 THEN 0 ELSE Look(s, typ, k, smp[k - 1])
  BY <1>3, <1>n DEF Look
<1> DEFINE S == {j \in Nat : j <= n /\ ~Best(s, typ, j, smp[j])}
<1>6. S = {}
  <2>2. SUFFICES ASSUME NEW x \in S PROVE FALSE OBVIOUS
  <2>3. S \in SUBSET Nat OBVIOUS
  <2>4. PICK j \in S : \A z \in S : j <= z
    <3> HIDE DEF S
    <3> QED BY <2>3, Least
  <2>5. j \in Nat /\ j <= n /\ ~Best(s, typ, j, smp[j]) OBVIOUS
  <2>6. CASE j = 0
    <3>1. smp[0] = 0 BY <1>0, <1>5
    <3>2. \A z \in 1 .. 0 : FALSE OBVIOUS
    <3> QED BY <2>5, <2>6, <3>1, <3>2 DEF Best
  <2>7. CASE j # 0
    <3>1. j \in 1 .. n /\ j - 1 \in Nat /\ j - 1 <= n /\ ~(j <= j - 1) BY <1>0, <2>5, <2>7
    <3>2. Best(s, typ, j - 1, smp[j - 1]) BY <2>4, <3>1
    <3>3. smp[j] = Look(s, typ, j, smp[j - 1]) BY <1>5, <2>5, <2>7
    <3> QED BY <2>5, <3>1, <3>2, <3>3, <1>n, LookBest
  <2> QED BY <2>6, <2>7
<1>7. n \notin S BY <1>6
<1> QED BY <1>0, <1>4, <1>7, <1>n

(* The loop finds what the model calls Find. *)
LEMMA ScanIsFind ==
    ASSUME NEW s \in Seq(Message), NEW typ \in Int
    PROVE  Scan(s, typ) = IF AnyEligible(s, typ) THEN Find(s, typ) ELSE 0
<1>0. Len(s) \in Nat BY LenProperties
<1>1. ASSUME NEW x, First(s, typ, x) PROVE AnyEligible(s, typ) /\ Find(s, typ) = x
  <2>1. AnyEligible(s, typ) BY <1>1 DEF First, AnyEligible
  <2>2. First(s, typ, Find(s, typ)) BY <2>1, FindFacts
  <2> QED BY <1>1, <2>1, <2>2, FirstOne
<1>2. CASE typ # 0
  <2>x. PICK x : x = Scan(s, typ) OBVIOUS
  <2>1. Best(s, typ, Len(s), x) BY <1>2, <2>x, ScanBest
  <2>2. CASE x = 0 /\ \A j \in 1 .. Len(s) : ~Eligible(s[j], typ)
    BY <2>2, <2>x DEF AnyEligible
  <2>3. CASE First(s, typ, x) BY <1>1, <2>3, <2>x
  <2> QED BY <2>1, <2>2, <2>3 DEF Best, First
<1>3. CASE typ = 0 /\ s = <<>>
  <2>1. ~AnyEligible(s, typ) BY <1>3 DEF AnyEligible
  <2> QED BY <1>3, <2>1 DEF Scan
<1>4. CASE typ = 0 /\ s # <<>>
  <2>1. Len(s) # 0 BY <1>4, EmptySeq
  <2>2. 1 \in 1 .. Len(s) BY <1>0, <2>1
  <2>3. First(s, typ, 1) BY <1>4, <2>2 DEF First, Eligible, Precedes
  <2>4. Scan(s, typ) = 1 BY <1>4 DEF Scan
  <2> QED BY <1>1, <2>3, <2>4
<1> QED BY <1>2, <1>3, <1>4

(* Whatever is on a queue, the loop of msgrcv leaves the message the type  *)
(* selects: the first, the first of the type, or the first of the lowest   *)
(* type.                                                                   *)
THEOREM ScansFind == Spec => []ScanFinds
<1>1. IInv => ScanFinds
  <2> SUFFICES ASSUME IInv, NEW q \in Queue, NEW c \in Calls
               PROVE  Scan(mq[q], c.type) =
                         IF AnyEligible(mq[q], c.type) THEN Find(mq[q], c.type) ELSE 0
    BY DEF ScanFinds
  <2>1. mq[q] \in Seq(Message) BY DEF IInv, ShareTypes
  <2>2. c.type \in Int BY MsgAssumption
  <2> QED BY <2>1, <2>2, ScanIsFind
<1> QED BY <1>1, Inductive, PTL

-----------------------------------------------------------------------------
(* The arguments of a call are those of one of the calls made. *)
Args(r) == \E c \in Calls : call[r].cmd = c.cmd /\ call[r].type = c.type /\ call[r].size = c.size

(* What a process knows between its tests and the end of its call: a       *)
(* sender that there is room, whatever happens while it sleeps on a fault. *)
CallInv(r) ==
    /\ pc[r] # "user" => Args(r)
    /\ pc[r] \in {"text", "textin"} => HasRoom(r)
    /\ pc[r] \in {"copyout", "textout"} => call[r].cmd = "rcv"
    /\ pc[r] = "setin" => call[r].cmd = "set"

(* A queue that is not in use is empty; msg_cbytes is exact but during     *)
(* IPC_RMID.                                                               *)
QueueInv(q) ==
    /\ ~perm[q].alloc => mq[q] = <<>> /\ cbytes[q] = 0
    /\ qbytes[q] \in Limits
    /\ ~Going(q) => cbytes[q] = Abstract!Bytes(mq[q])

DInv ==
    /\ IInv /\ HeadersConserved
    /\ \A r \in Proc : CallInv(r)
    /\ \A q \in Queue : QueueInv(q)

(* HeadersConserved adds the headers of the queues up. *)
AllHeaders == [n \in 1 .. MSGMNI |-> Headers(n - 1)]

AddedUp ==
    \E v : IsSum(v, AllHeaders, MSGMNI) /\ (HeadersConserved <=> msgfp + v[MSGMNI] = MSGTQL)

LEMMA HeadersSum == AddedUp
<1> DEFINE P(v) == v = [n \in 0 .. MSGMNI |-> IF n = 0 THEN 0 ELSE v[n - 1] + Headers(n - 1)]
           used == CHOOSE v : P(v)
<1>0. MSGMNI \in Nat BY MsgAssumption
<1>1. PICK w : AddsUp(w, AllHeaders, MSGMNI) BY <1>0, SumExists
<1>2. P(w)
  <2>0. \A k \in 0 .. MSGMNI : k # 0 => k \in 1 .. MSGMNI /\ AllHeaders[k] = Headers(k - 1)
    BY <1>0 DEF AllHeaders
  <2>1. \A k \in 0 .. MSGMNI : w[k] = IF k = 0 THEN 0 ELSE w[k - 1] + AllHeaders[k]
    BY <1>1 DEF AddsUp
  <2>2. \A k \in 0 .. MSGMNI : w[k] = IF k = 0 THEN 0 ELSE w[k - 1] + Headers(k - 1)
    BY <2>0, <2>1
  <2>3. w = [k \in 0 .. MSGMNI |-> w[k]] BY <1>1 DEF AddsUp
  <2> QED BY <2>2, <2>3
<1>3. P(used)
  <2> HIDE DEF P
  <2> QED BY <1>2, Zenon
<1>4. HeadersConserved <=> msgfp + used[MSGMNI] = MSGTQL BY DEF HeadersConserved
<1> HIDE DEF used
<1>5. \A k \in 0 .. MSGMNI : used[k] = IF k = 0 THEN 0 ELSE used[k - 1] + Headers(k - 1)
  BY <1>3
<1>6. IsSum(used, AllHeaders, MSGMNI)
  <2>1. 0 \in 0 .. MSGMNI /\ \A k \in 1 .. MSGMNI : k \in 0 .. MSGMNI /\ k # 0 BY <1>0
  <2> QED BY <1>5, <2>1 DEF IsSum, AllHeaders
<1> QED BY <1>4, <1>6 DEF AddedUp

(* A header moves between the free list and queue x. *)
LEMMA HeadersMove ==
    ASSUME HeadersConserved, NEW x \in Queue, NEW d \in Int, msgfp \in Int,
           msgfp' = msgfp - d, Headers(x)' = Headers(x) + d,
           \A q \in Queue : Headers(q) \in Int /\ (q # x => Headers(q)' = Headers(q))
    PROVE  HeadersConserved'
<1>0. MSGMNI \in Nat /\ MSGTQL \in Int /\ x \in 0 .. MSGMNI - 1 BY MsgAssumption DEF Queue
<1>1. PICK u : IsSum(u, AllHeaders, MSGMNI) /\ (HeadersConserved <=> msgfp + u[MSGMNI] = MSGTQL)
  BY HeadersSum DEF AddedUp
<1>a. AddedUp' BY HeadersSum, PTL
<1>2. PICK v : /\ IsSum(v, AllHeaders', MSGMNI)
               /\ (HeadersConserved' <=> msgfp' + v[MSGMNI] = MSGTQL)
  BY <1>a DEF AddedUp, IsSum
<1>i. x + 1 \in 1 .. MSGMNI /\ \A k \in 1 .. MSGMNI : k - 1 \in Queue /\ (k # x + 1 => k - 1 # x)
  BY <1>0 DEF Queue
<1>3. AllHeaders'[x + 1] = AllHeaders[x + 1] + d
  <2>1. (x + 1) - 1 = x BY <1>0
  <2> QED BY <2>1, <1>i DEF AllHeaders
<1>4. \A k \in 1 .. MSGMNI : AllHeaders[k] \in Int /\ (k # x + 1 => AllHeaders'[k] = AllHeaders[k])
  BY <1>i DEF AllHeaders
<1>5. u[MSGMNI] \in Int /\ v[MSGMNI] = u[MSGMNI] + d
  BY <1>0, <1>1, <1>2, <1>3, <1>4, <1>i, SumShifts
<1> QED BY <1>0, <1>1, <1>2, <1>5

-----------------------------------------------------------------------------
(* p goes to `to'; the others keep their calls and where they are, but for *)
(* sleepers that are woken.                                                *)
Light(p, to) ==
    /\ pc'[p] = to
    /\ \A r \in Proc \ {p} : /\ call'[r] = call[r]
                             /\ pc'[r] = pc[r] \/ (pc[r] = "asleep" /\ pc'[r] = "woken")

(* The exits, sleeps and moves are such steps. *)
LEMMA OutLight == ASSUME IInv, NEW p \in Proc, NEW C, Out(p, C) PROVE Light(p, "user")
BY OutEnds DEF Ends, Light

LEMMA SleepLight ==
    ASSUME IInv, NEW p \in Proc, NEW c, NEW D, SleepOn(p, c, D)
    PROVE  Light(p, IF sig[p] THEN "woken" ELSE "asleep") /\ call' = call
<1>1. ProcTypes BY DEF IInv
<1> DEFINE to == IF sig[p] THEN "woken" ELSE "asleep"
<1>2. Moves(p, to, D \cup {LockChan(p)}) /\ call' = call BY DEF SleepOn
<1>3. to \in Places BY Outside
<1> HIDE DEF to
<1>4. /\ pc'[p] = to
      /\ \A r \in Proc \ {p} : pc'[r] = pc[r] \/ (pc[r] = "asleep" /\ pc'[r] = "woken")
  BY <1>1, <1>2, <1>3, MovesTypes
<1> QED BY <1>2, <1>4 DEF Light, to

LEMMA RelockLight == ASSUME IInv, NEW p \in Proc, Relock(p) PROVE Light(p, "conv") /\ call' = call
<1>1. Ends(p, "conv", {}) BY RelockEnds
<1> QED BY <1>1 DEF Ends, Light, Relock

LEMMA MoveLight ==
    ASSUME IInv, NEW p \in Proc, NEW to, pc' = [pc EXCEPT ![p] = to],
           \A r \in Proc \ {p} : call'[r] = call[r]
    PROVE  Light(p, to)
<1>1. pc \in [Proc -> Places] BY DEF IInv, ProcTypes
<1> QED BY <1>1 DEF Light

(* The places where a process stands for a queue: sending to it, removing  *)
(* it.                                                                     *)
Busy == {"text", "textin", "rmid"}

(* Who else stands for a queue goes on doing so. *)
LEMMA OthersPut ==
    ASSUME NEW p \in Proc, NEW to, Light(p, to), NEW r \in Proc \ {p}
    PROVE  /\ Q(r)' = Q(r)
           /\ pc'[r] = "rmid" <=> pc[r] = "rmid"
           /\ pc'[r] \in {"text", "textin"} <=> pc[r] \in {"text", "textin"}
<1>1. /\ call'[r] = call[r]
      /\ pc'[r] = pc[r] \/ (pc[r] = "asleep" /\ pc'[r] = "woken")
  BY DEF Light
<1>2. Q(r)' = Q(r) BY <1>1 DEF Q
<1> QED BY <1>1, <1>2

(* A queue p does not stand for, before or after. *)
LEMMA Elsewhere ==
    ASSUME NEW p \in Proc, NEW to, Light(p, to), NEW q,
           pc[p] \in Busy => Q(p) # q, to \in Busy => Q(p)' # q
    PROVE  (Going(q)' <=> Going(q)) /\ (Filled(q)' <=> Filled(q))
<1>1. \A r \in Proc \ {p} : /\ Q(r)' = Q(r)
                            /\ pc'[r] = "rmid" <=> pc[r] = "rmid"
                            /\ pc'[r] \in {"text", "textin"} <=> pc[r] \in {"text", "textin"}
  BY OthersPut
<1>2. pc'[p] = to BY DEF Light
<1>3. Going(q)' <=> Going(q) BY <1>1, <1>2 DEF Going, Busy
<1>4. Filled(q)' <=> Filled(q) BY <1>1, <1>2 DEF Filled, Fills, Busy
<1> QED BY <1>3, <1>4

(* p stays where it stands. *)
LEMMA StaysPut ==
    ASSUME NEW p \in Proc, NEW to, Light(p, to), NEW q, Q(p)' = Q(p),
           pc[p] = "rmid" <=> to = "rmid",
           pc[p] \in {"text", "textin"} <=> to \in {"text", "textin"}
    PROVE  (Going(q)' <=> Going(q)) /\ (Filled(q)' <=> Filled(q))
<1>1. ASSUME NEW r \in Proc
      PROVE  /\ Q(r)' = Q(r)
             /\ pc'[r] = "rmid" <=> pc[r] = "rmid"
             /\ pc'[r] \in {"text", "textin"} <=> pc[r] \in {"text", "textin"}
  <2>1. CASE r # p BY <2>1, OthersPut
  <2>2. CASE r = p BY <2>2 DEF Light
  <2> QED BY <2>1, <2>2
<1>3. Going(q)' <=> Going(q) BY <1>1 DEF Going
<1>4. Filled(q)' <=> Filled(q) BY <1>1 DEF Filled, Fills
<1> QED BY <1>3, <1>4

(* The queue p has locked. *)
LEMMA Own ==
    ASSUME IInv, NEW p \in Proc, NEW to, Light(p, to), pc[p] \in Locked, NEW x, x = Q(p),
           to \in Busy => Q(p)' = x
    PROVE  /\ Going(x) <=> pc[p] = "rmid"
           /\ Filled(x) <=> pc[p] \in {"text", "textin"}
           /\ Going(x)' <=> to = "rmid"
           /\ Filled(x)' <=> to \in {"text", "textin"}
<1>0. {"text", "textin", "rmid"} \subseteq Locked BY LockedPlaces
<1>1. \A r \in Proc \ {p} : pc[r] \in Locked => Q(r) # x BY Alone
<1>2. \A r \in Proc \ {p} : /\ Q(r)' = Q(r)
                            /\ pc'[r] = "rmid" <=> pc[r] = "rmid"
                            /\ pc'[r] \in {"text", "textin"} <=> pc[r] \in {"text", "textin"}
  BY OthersPut
<1>3. pc'[p] = to BY DEF Light
<1>4. Going(x) <=> pc[p] = "rmid" BY <1>0, <1>1 DEF Going
<1>5. Filled(x) <=> pc[p] \in {"text", "textin"} BY <1>0, <1>1 DEF Filled, Fills
<1>6. Going(x)' <=> to = "rmid" BY <1>0, <1>1, <1>2, <1>3 DEF Going, Busy
<1>7. Filled(x)' <=> to \in {"text", "textin"}
  BY <1>0, <1>1, <1>2, <1>3 DEF Filled, Fills, Busy
<1> QED BY <1>4, <1>5, <1>6, <1>7

-----------------------------------------------------------------------------
(* The step leaves queue q as its users see it, or leaves it alone. *)
LooksSame(q) ==
    /\ perm'[q] = perm[q] /\ mq'[q] = mq[q]
    /\ (Going(q)' <=> Going(q))

SameAt(q) ==
    /\ LooksSame(q)
    /\ qbytes'[q] = qbytes[q] /\ cbytes'[q] = cbytes[q]
    /\ (Filled(q)' <=> Filled(q))

(* The bytes on a queue after the step. *)
LEMMA BytesPrime == ASSUME NEW q PROVE Abstract!Bytes(mq[q])' = Abstract!Bytes(mq'[q])
BY DEF Abstract!Bytes

LEMMA HeadersType == ASSUME IInv, NEW q \in Queue PROVE Headers(q) \in Int
<1>1. Len(mq[q]) \in Nat BY LenProperties DEF IInv, ShareTypes
<1> QED BY <1>1 DEF Headers

LEMMA HeadersSame == ASSUME NEW q, SameAt(q) PROVE Headers(q)' = Headers(q)
BY DEF Headers, SameAt, LooksSame

(* The invariant after a step of p that concerns queue x. *)
LEMMA DAssemble ==
    ASSUME DInv, IInv', NEW p \in Proc, NEW to, Light(p, to), NEW x \in Queue, NEW d \in Int,
           \A q \in Queue \ {x} : SameAt(q),
           msgfp' = msgfp - d, Headers(x)' = Headers(x) + d,
           \A r \in Proc \ {p} : pc[r] \in {"text", "textin"} =>
               Q(r) # x \/ (cbytes'[x] = cbytes[x] /\ qbytes'[x] = qbytes[x]),
           CallInv(p)', QueueInv(x)'
    PROVE  DInv'
<1>1. IInv /\ HeadersConserved /\ (\A r \in Proc : CallInv(r)) /\ (\A q \in Queue : QueueInv(q))
  BY DEF DInv
<1>2. HeadersConserved'
  <2>1. msgfp \in Int BY <1>1 DEF IInv, ShareTypes
  <2>2. \A q \in Queue : Headers(q) \in Int /\ (q # x => Headers(q)' = Headers(q))
    BY <1>1, HeadersType, HeadersSame
  <2> QED BY <1>1, <2>1, <2>2, HeadersMove
<1>3. ASSUME NEW r \in Proc PROVE CallInv(r)'
  <2>1. CASE r = p BY <2>1
  <2>2. CASE r # p
    <3>1. /\ call'[r] = call[r] /\ Q(r)' = Q(r) /\ Q(r) \in Queue
          /\ pc'[r] = pc[r] \/ (pc[r] = "asleep" /\ pc'[r] = "woken")
      BY <2>2, <1>1, QType DEF Light, Q, IInv
    <3>2. CallInv(r) BY <1>1
    <3>3. pc'[r] # "user" => Args(r)' BY <3>1, <3>2 DEF CallInv, Args
    <3>4. ASSUME pc'[r] \in {"text", "textin"} PROVE HasRoom(r)'
      <4>1. pc[r] \in {"text", "textin"} /\ HasRoom(r) BY <3>1, <3>2, <3>4 DEF CallInv
      <4>2. cbytes'[Q(r)] = cbytes[Q(r)] /\ qbytes'[Q(r)] = qbytes[Q(r)]
        <5>1. CASE Q(r) = x BY <2>2, <4>1, <5>1
        <5>2. CASE Q(r) # x BY <3>1, <5>2 DEF SameAt
        <5> QED BY <5>1, <5>2
      <4> QED BY <3>1, <4>1, <4>2 DEF HasRoom
    <3> QED BY <3>1, <3>2, <3>3, <3>4 DEF CallInv
  <2> QED BY <2>1, <2>2
<1>4. ASSUME NEW q \in Queue PROVE QueueInv(q)'
  <2>1. CASE q = x BY <2>1
  <2>2. CASE q # x
    <3>1. SameAt(q) /\ QueueInv(q) BY <2>2, <1>1
    <3>2. Abstract!Bytes(mq[q])' = Abstract!Bytes(mq[q]) BY <3>1, BytesPrime DEF SameAt, LooksSame
    <3> QED BY <3>1, <3>2 DEF SameAt, LooksSame, QueueInv, Limits
  <2> QED BY <2>1, <2>2
<1> QED BY <1>2, <1>3, <1>4 DEF DInv

-----------------------------------------------------------------------------
(* The queues as MsgQueue sees them. *)
avars == <<Exists, Msgs, qbytes>>
View(s) == [k \in 1 .. Len(s) |-> Seen(s[k])]

LEMMA ViewAt ==
    ASSUME NEW q \in Queue
    PROVE  /\ Exists[q] <=> perm[q].alloc /\ ~Going(q)
           /\ Msgs[q] = IF Going(q) THEN <<>> ELSE View(mq[q])
           /\ Exists'[q] <=> perm'[q].alloc /\ ~Going(q)'
           /\ Msgs'[q] = IF Going(q)' THEN <<>> ELSE View(mq'[q])
BY DEF Exists, Msgs, View

(* The abstract queues change as queue x does. *)
LEMMA ViewChange ==
    ASSUME NEW x \in Queue, \A q \in Queue \ {x} : LooksSame(q)
    PROVE  /\ Exists' = [Exists EXCEPT ![x] = Exists'[x]]
           /\ Msgs' = [Msgs EXCEPT ![x] = Msgs'[x]]
<1>1. ASSUME NEW q \in Queue, q # x PROVE Exists'[q] = Exists[q] /\ Msgs'[q] = Msgs[q]
  <2>1. LooksSame(q) BY <1>1
  <2>2. Exists'[q] = Exists[q] BY <2>1 DEF LooksSame, Exists
  <2>3. Msgs'[q] = Msgs[q] BY <2>1, ViewAt DEF LooksSame
  <2> QED BY <2>2, <2>3
<1>2. /\ DOMAIN Exists = Queue /\ DOMAIN Exists' = Queue
      /\ DOMAIN Msgs = Queue /\ DOMAIN Msgs' = Queue
  BY DEF Exists, Msgs
<1>3. Exists' = [q \in Queue |-> Exists'[q]] /\ Exists = [q \in Queue |-> Exists[q]] BY DEF Exists
<1>4. Msgs' = [q \in Queue |-> Msgs'[q]] /\ Msgs = [q \in Queue |-> Msgs[q]] BY DEF Msgs
<1>5. Exists' = [Exists EXCEPT ![x] = Exists'[x]] BY <1>1, <1>2, <1>3
<1>6. Msgs' = [Msgs EXCEPT ![x] = Msgs'[x]] BY <1>1, <1>2, <1>4
<1> QED BY <1>5, <1>6

(* Nothing changes to be seen. *)
LEMMA Unseen ==
    ASSUME \A q \in Queue : LooksSame(q), IInv
    PROVE  Exists' = Exists /\ Msgs' = Msgs
<1>0. 0 \in Queue BY MsgAssumption DEF Queue
<1>1. /\ Exists' = [Exists EXCEPT ![0] = Exists'[0]]
      /\ Msgs' = [Msgs EXCEPT ![0] = Msgs'[0]]
  BY <1>0, ViewChange
<1>2. LooksSame(0) BY <1>0
<1>3. Exists'[0] = Exists[0] BY <1>0, <1>2 DEF LooksSame, Exists
<1>4. Msgs'[0] = Msgs[0] BY <1>0, <1>2, ViewAt DEF LooksSame
<1>5. DOMAIN Exists = Queue /\ DOMAIN Msgs = Queue BY DEF Exists, Msgs
<1>6. Exists = [Exists EXCEPT ![0] = Exists[0]] /\ Msgs = [Msgs EXCEPT ![0] = Msgs[0]]
  BY <1>0, <1>5 DEF Exists, Msgs
<1> QED BY <1>1, <1>3, <1>4, <1>6

-----------------------------------------------------------------------------
(* A step of MsgQueue, or of nothing it knows. *)
Refined == Abstract!Next \/ avars' = avars

(* A step that changes no queue. *)
LEMMA EasyStep ==
    ASSUME DInv, IInv', NEW p \in Proc, NEW to, Light(p, to),
           UNCHANGED <<perm, qbytes, cbytes, mq, msgfp>>,
           \/ pc[p] \notin Busy /\ to \notin Busy
           \/ /\ Q(p)' = Q(p) /\ (pc[p] = "rmid" <=> to = "rmid")
              /\ pc[p] \in {"text", "textin"} <=> to \in {"text", "textin"},
           CallInv(p)'
    PROVE  DInv' /\ Refined
<1>1. IInv /\ Q(p) \in Queue BY QType DEF DInv, IInv
<1>2. \A q \in Queue : (Going(q)' <=> Going(q)) /\ (Filled(q)' <=> Filled(q))
  BY Elsewhere, StaysPut
<1>3. \A q \in Queue : SameAt(q) /\ LooksSame(q) BY <1>2 DEF SameAt, LooksSame
<1>x. PICK x : x = Q(p) OBVIOUS
<1>4. msgfp' = msgfp - 0 /\ Headers(x)' = Headers(x) + 0
  <2>1. msgfp \in Int /\ Headers(x) \in Int BY <1>1, <1>x, HeadersType DEF IInv, ShareTypes
  <2>2. Headers(x)' = Headers(x) BY <1>1, <1>3, <1>x, HeadersSame
  <2> QED BY <2>1, <2>2
<1>5. QueueInv(x)'
  <2>1. SameAt(x) /\ QueueInv(x) BY <1>1, <1>3, <1>x DEF DInv
  <2>2. Abstract!Bytes(mq[x])' = Abstract!Bytes(mq[x]) BY <2>1, BytesPrime DEF SameAt, LooksSame
  <2> QED BY <2>1, <2>2 DEF SameAt, LooksSame, QueueInv, Limits
<1>6. \A r \in Proc \ {p} : pc[r] \in {"text", "textin"} =>
               Q(r) # x \/ (cbytes'[x] = cbytes[x] /\ qbytes'[x] = qbytes[x])
  OBVIOUS
<1>7. DInv'
  <2>1. x \in Queue /\ 0 \in Int /\ \A q \in Queue \ {x} : SameAt(q) BY <1>1, <1>3, <1>x
  <2> QED BY <1>4, <1>5, <1>6, <2>1, DAssemble
<1>8. Refined BY <1>1, <1>3, Unseen DEF Refined, avars
<1> QED BY <1>7, <1>8

(* One that ends the call, or goes to a place where nothing is promised. *)
LEMMA Easy ==
    ASSUME DInv, IInv', NEW p \in Proc, NEW to, Light(p, to),
           UNCHANGED <<perm, qbytes, cbytes, mq, msgfp>>, pc[p] \notin Busy,
           \/ to = "user"
           \/ /\ call' = call /\ pc[p] # "user"
              /\ to \in {"conv", "asleep", "woken", "first", "again", "eintr", "typein", "statout"}
    PROVE  DInv' /\ Refined
<1>1. to \notin Busy BY DEF Busy
<1>2. pc'[p] = to /\ CallInv(p) BY DEF Light, DInv
<1>3. CallInv(p)'
  <2>1. CASE to = "user" BY <1>2, <2>1 DEF CallInv
  <2>2. CASE /\ call' = call /\ pc[p] # "user"
             /\ to \in {"conv", "asleep", "woken", "first", "again", "eintr", "typein", "statout"}
    <3>1. Args(p)' BY <1>2, <2>2 DEF CallInv, Args
    <3> QED BY <1>2, <2>2, <3>1 DEF CallInv
  <2> QED BY <2>1, <2>2
<1> QED BY <1>1, <1>3, EasyStep

(* The exits of handlers that have changed no queue. *)
LEMMA EasyOut ==
    ASSUME DInv, IInv', NEW p \in Proc, NEW C, Out(p, C), pc[p] \notin Busy,
           UNCHANGED <<perm, qbytes, cbytes, mq, msgfp>>
    PROVE  DInv' /\ Refined
<1>1. IInv BY DEF DInv
<1>2. Light(p, "user") BY <1>1, OutLight
<1> QED BY <1>2, Easy

LEMMA EasySleep ==
    ASSUME DInv, IInv', NEW p \in Proc, NEW c, NEW D, SleepOn(p, c, D),
           pc[p] \notin Busy \cup {"user"}, UNCHANGED <<perm, qbytes, cbytes, mq, msgfp>>
    PROVE  DInv' /\ Refined
<1>1. IInv BY DEF DInv
<1> DEFINE to == IF sig[p] THEN "woken" ELSE "asleep"
<1>2. Light(p, to) /\ call' = call BY <1>1, SleepLight
<1>3. to \in {"conv", "asleep", "woken", "first", "again", "eintr", "typein", "statout"} OBVIOUS
<1> HIDE DEF to
<1> QED BY <1>2, <1>3, Easy

LEMMA EasyRelock ==
    ASSUME DInv, IInv', NEW p \in Proc, Relock(p),
           pc[p] \notin Busy \cup {"user"}, UNCHANGED <<msgque, mq, pool>>
    PROVE  DInv' /\ Refined
<1>1. IInv BY DEF DInv
<1>2. Light(p, "conv") /\ call' = call BY <1>1, RelockLight
<1>3. UNCHANGED <<perm, qbytes, cbytes, mq, msgfp>> BY DEF msgque, pool
<1> QED BY <1>2, <1>3, Easy

LEMMA EasyMove ==
    ASSUME DInv, IInv', NEW p \in Proc, NEW to, pc' = [pc EXCEPT ![p] = to],
           pc[p] \notin Busy \cup {"user"}, UNCHANGED <<msgque, mq, pool>>,
           \/ to = "user" /\ Forget(p)
           \/ /\ call' = call
              /\ to \in {"conv", "asleep", "woken", "first", "again", "eintr", "typein", "statout"}
    PROVE  DInv' /\ Refined
<1>1. IInv BY DEF DInv
<1>2. \A r \in Proc \ {p} : call'[r] = call[r]
  <2>1. CASE call' = call BY <2>1
  <2>2. CASE Forget(p) BY <2>2, <1>1 DEF Forget, IInv, ProcTypes
  <2> QED BY <2>1, <2>2
<1>3. Light(p, to) BY <1>1, <1>2, MoveLight
<1>4. UNCHANGED <<perm, qbytes, cbytes, mq, msgfp>> BY DEF msgque, pool
<1> QED BY <1>3, <1>4, Easy

(* p goes on to the place its call, unchanged, promises something at. *)
LEMMA EasyOn ==
    ASSUME DInv, IInv', NEW p \in Proc, NEW to, pc' = [pc EXCEPT ![p] = to],
           pc[p] # "user", UNCHANGED <<perm, qbytes, cbytes, mq, msgfp>>, call' = call,
           \/ pc[p] \notin Busy /\ to \notin Busy
           \/ /\ (pc[p] = "rmid" <=> to = "rmid")
              /\ pc[p] \in {"text", "textin"} <=> to \in {"text", "textin"},
           to \in {"copyout", "textout"} => call[p].cmd = "rcv",
           to = "setin" => call[p].cmd = "set"
    PROVE  DInv' /\ Refined
<1>1. IInv /\ CallInv(p) BY DEF DInv
<1>2. Light(p, to) BY <1>1, MoveLight
<1>3. Q(p)' = Q(p) /\ pc'[p] = to BY <1>2 DEF Q, Light
<1>4. Args(p)' BY <1>1 DEF CallInv, Args
<1>5. to \in {"text", "textin"} => HasRoom(p)'
  <2>1. to \in {"text", "textin"} => HasRoom(p) BY <1>1 DEF CallInv, Busy
  <2> QED BY <1>3, <2>1 DEF HasRoom
<1>6. CallInv(p)' BY <1>3, <1>4, <1>5 DEF CallInv
<1> QED BY <1>2, <1>3, <1>6, EasyStep

-----------------------------------------------------------------------------
(* The steps outside the lock. *)
LEMMA ConvD ==
    ASSUME DInv, IInv', NEW p \in Proc, ConvSleeps(p) \/ ConvLocks(p) \/ ConvFails(p)
    PROVE  DInv' /\ Refined
<1>1. pc[p] = "conv" /\ "conv" \notin Busy \cup {"user"}
  BY DEF ConvSleeps, ConvLocks, ConvFails, Running, Busy
<1>2. CASE ConvSleeps(p) BY <1>1, <1>2, EasyMove DEF ConvSleeps, pool
<1>3. CASE ConvLocks(p)
  <2>1. next[p] \in {"first", "again", "eintr"} BY DEF DInv, IInv, ProcTypes
  <2> QED BY <1>1, <1>3, <2>1, EasyMove DEF ConvLocks
<1>4. CASE ConvFails(p) BY <1>1, <1>4, EasyOut DEF ConvFails, msgque, pool
<1> QED BY <1>2, <1>3, <1>4

LEMMA ResumeD ==
    ASSUME DInv, IInv', NEW p \in Proc, Resume(p) \/ Signal(p)
    PROVE  DInv' /\ Refined
<1>1. CASE Resume(p)
  <2>1. pc[p] = "woken" /\ "woken" \notin Busy \cup {"user"} BY <1>1 DEF Resume, Busy
  <2> QED BY <1>1, <2>1, EasyMove DEF Resume
<1>2. CASE Signal(p)
  <2> DEFINE to == IF pc[p] = "asleep" THEN "woken" ELSE pc[p]
  <2>1. /\ pc' = [pc EXCEPT ![p] = to] /\ pc[p] # "user" /\ call' = call
        /\ UNCHANGED <<perm, qbytes, cbytes, mq, msgfp>>
    BY <1>2 DEF Signal, msgque, pool
  <2>2. /\ pc[p] = "rmid" <=> to = "rmid"
        /\ pc[p] \in {"text", "textin"} <=> to \in {"text", "textin"}
        /\ to \in {"copyout", "textout"} => call[p].cmd = "rcv"
        /\ to = "setin" => call[p].cmd = "set"
    BY DEF DInv, CallInv
  <2> HIDE DEF to
  <2> QED BY <2>1, <2>2, EasyOn
<1> QED BY <1>1, <1>2

(* The steps under the lock that change no queue. *)
LEMMA LockedD ==
    ASSUME DInv, IInv', NEW p \in Proc,
           \/ Eintr(p) \/ FirstFails(p) \/ SndFirst(p) \/ SndNoRoom(p) \/ SndNoHdr(p)
           \/ SndNoSegs(p) \/ RcvFirst(p) \/ RcvNone(p) \/ RcvTooBig(p) \/ StatFirst(p)
           \/ Typein(p) \/ Statout(p)
    PROVE  DInv' /\ Refined
<1>1. pc[p] \in {"eintr", "first", "again", "typein", "statout"}
  BY DEF Eintr, FirstFails, SndFirst, SndNoRoom, SndNoHdr, SndNoSegs, RcvFirst, RcvNone,
         RcvTooBig, StatFirst, Typein, Statout, Running, Snd, Rcv
<1>2. pc[p] \notin Busy \cup {"user"} /\ pc[p] \notin Busy BY <1>1 DEF Busy
<1>3. CASE Eintr(p) BY <1>2, <1>3, EasyOut DEF Eintr, pool
<1>4. CASE FirstFails(p) BY <1>2, <1>4, EasyOut DEF FirstFails, msgque, pool
<1>5. CASE SndFirst(p)
  <2>1. CASE Fault(p, "typein") BY <1>2, <2>1, EasyMove DEF Fault
  <2>2. CASE Relock(p) /\ UNCHANGED <<msgque, mq, pool>> BY <1>2, <2>2, EasyRelock
  <2> QED BY <1>5, <2>1, <2>2 DEF SndFirst
<1>6. CASE SndNoRoom(p)
  <2>1. UNCHANGED <<perm, qbytes, cbytes, mq, msgfp>> BY <1>6 DEF SndNoRoom, pool
  <2>2. Out(p, {}) \/ SleepOn(p, <<"qp", Q(p)>>, {}) BY <1>6 DEF SndNoRoom
  <2> QED BY <1>2, <2>1, <2>2, EasyOut, EasySleep
<1>7. CASE SndNoHdr(p)
  <2>1. UNCHANGED <<perm, qbytes, cbytes, mq, msgfp>> BY <1>7 DEF SndNoHdr, msgque, pool
  <2>2. Out(p, {}) \/ SleepOn(p, <<"msgfp", 0>>, {}) BY <1>7 DEF SndNoHdr
  <2> QED BY <1>2, <2>1, <2>2, EasyOut, EasySleep
<1>8. CASE SndNoSegs(p)
  <2> DEFINE C == IF msgfp = 1 THEN {<<"msgfp", 0>>} ELSE {}
  <2>1. UNCHANGED <<perm, qbytes, cbytes, mq, msgfp>> BY <1>8 DEF SndNoSegs, msgque
  <2>2. Out(p, C) \/ SleepOn(p, <<"msgmap", 0>>, C) BY <1>8 DEF SndNoSegs
  <2> HIDE DEF C
  <2> QED BY <1>2, <2>1, <2>2, EasyOut, EasySleep
<1>9. CASE RcvFirst(p) BY <1>2, <1>9, EasyRelock DEF RcvFirst
<1>10. CASE RcvNone(p)
  <2>1. UNCHANGED <<perm, qbytes, cbytes, mq, msgfp>> BY <1>10 DEF RcvNone, pool
  <2>2. Out(p, {}) \/ SleepOn(p, <<"qnum", Q(p)>>, {}) BY <1>10 DEF RcvNone
  <2> QED BY <1>2, <2>1, <2>2, EasyOut, EasySleep
<1>11. CASE RcvTooBig(p) BY <1>2, <1>11, EasyOut DEF RcvTooBig, msgque, pool
<1>12. CASE StatFirst(p)
  <2>1. CASE Fault(p, "statout") BY <1>2, <2>1, EasyMove DEF Fault
  <2>2. CASE Out(p, {}) /\ UNCHANGED <<msgque, mq, pool>> BY <1>2, <2>2, EasyOut DEF msgque, pool
  <2> QED BY <1>12, <2>1, <2>2 DEF StatFirst
<1>13. CASE Typein(p)
  <2>1. UNCHANGED <<msgque, mq, pool>> BY <1>13 DEF Typein
  <2>2. CASE Relock(p) BY <1>2, <2>1, <2>2, EasyRelock
  <2>3. CASE Out(p, {}) BY <1>2, <2>1, <2>3, EasyOut DEF msgque, pool
  <2> QED BY <1>13, <2>2, <2>3 DEF Typein
<1>14. CASE Statout(p) BY <1>2, <1>14, EasyOut DEF Statout, msgque, pool
<1> QED BY <1>3, <1>4, <1>5, <1>6, <1>7, <1>8, <1>9, <1>10, <1>11, <1>12, <1>13, <1>14

-----------------------------------------------------------------------------
(* Messages seen: as many, in the same order, of the same bytes. *)
SeenMessage == [type : Nat, size : Nat]

LEMMA SeenFacts ==
    ASSUME NEW m \in Message
    PROVE  /\ Seen(m) \in SeenMessage /\ Seen(m).type = m.type /\ Seen(m).size = m.size
           /\ m.type \in Nat /\ m.size \in Nat
BY DEF Seen, SeenMessage, Message

LEMMA ViewFacts ==
    ASSUME NEW s \in Seq(Message)
    PROVE  /\ View(s) \in Seq(SeenMessage) /\ Len(View(s)) = Len(s) /\ Len(s) \in Nat
           /\ \A k \in 1 .. Len(s) : View(s)[k] = Seen(s[k]) /\ s[k] \in Message
<1>1. Len(s) \in Nat /\ \A k \in 1 .. Len(s) : s[k] \in Message BY LenProperties, ElementOfSeq
<1>2. \A k \in 1 .. Len(s) : Seen(s[k]) \in SeenMessage BY <1>1, SeenFacts
<1> QED BY <1>1, <1>2 DEF View

LEMMA ViewNone == View(<<>>) = <<>>
BY DEF View

LEMMA ViewBytes ==
    ASSUME NEW s \in Seq(Message) PROVE Abstract!Bytes(View(s)) = Abstract!Bytes(s)
<1>1. /\ Len(View(s)) = Len(s) /\ Len(s) \in Nat
      /\ \A k \in 1 .. Len(s) : View(s)[k] = Seen(s[k]) /\ s[k] \in Message
  BY ViewFacts
<1>2. \A j \in 1 .. Len(s) : s[j].size \in Int /\ View(s)[j].size = s[j].size
  <2> TAKE j \in 1 .. Len(s)
  <2>1. View(s)[j] = Seen(s[j]) /\ s[j] \in Message BY <1>1
  <2> QED BY <2>1, SeenFacts
<1> QED BY <1>1, <1>2, BytesSame

LEMMA ViewAppend ==
    ASSUME NEW s \in Seq(Message), NEW m \in Message
    PROVE  View(Append(s, m)) = Append(View(s), Seen(m))
<1>a. PICK t, v : t = Append(s, m) /\ v = View(s) OBVIOUS
<1>1. /\ v \in Seq(SeenMessage) /\ Len(v) = Len(s) /\ Len(s) \in Nat
      /\ \A k \in 1 .. Len(s) : v[k] = Seen(s[k])
  BY <1>a, ViewFacts
<1>2. /\ t \in Seq(Message) /\ Len(t) = Len(s) + 1 /\ t[Len(s) + 1] = m
      /\ \A k \in 1 .. Len(s) : t[k] = s[k]
  BY <1>a, <1>1, AppendProperties
<1>3. /\ View(t) \in Seq(SeenMessage) /\ Len(View(t)) = Len(t)
      /\ \A k \in 1 .. Len(t) : View(t)[k] = Seen(t[k])
  BY <1>2, ViewFacts
<1>4. Seen(m) \in SeenMessage BY SeenFacts
<1>b. PICK w : w = Append(v, Seen(m)) OBVIOUS
<1>5. /\ w \in Seq(SeenMessage) /\ Len(w) = Len(s) + 1 /\ w[Len(s) + 1] = Seen(m)
      /\ \A k \in 1 .. Len(s) : w[k] = v[k]
  BY <1>1, <1>4, <1>b, AppendProperties
<1>6. ASSUME NEW k \in 1 .. Len(s) + 1 PROVE View(t)[k] = w[k]
  <2>1. CASE k = Len(s) + 1 BY <2>1, <1>1, <1>2, <1>3, <1>5
  <2>2. CASE k \in 1 .. Len(s) BY <2>2, <1>1, <1>2, <1>3, <1>5
  <2> QED BY <2>1, <2>2, <1>1
<1>7. View(t) = w BY <1>1, <1>2, <1>3, <1>5, <1>6, SeqEqual
<1> QED BY <1>7, <1>a, <1>b

LEMMA ViewRemove ==
    ASSUME NEW s \in Seq(Message), NEW i \in 1 .. Len(s)
    PROVE  View(RemoveAt(s, i)) = RemoveAt(View(s), i)
<1>a. PICK t, v : t = RemoveAt(s, i) /\ v = View(s) OBVIOUS
<1>1. /\ v \in Seq(SeenMessage) /\ Len(v) = Len(s) /\ Len(s) \in Nat
      /\ \A k \in 1 .. Len(s) : v[k] = Seen(s[k])
  BY <1>a, ViewFacts
<1>2. /\ t \in Seq(Message) /\ Len(t) = Len(s) - 1
      /\ \A k \in 1 .. Len(s) - 1 : t[k] = IF k < i THEN s[k] ELSE s[k + 1]
  BY <1>a, RemoveAtIs
<1>3. /\ View(t) \in Seq(SeenMessage) /\ Len(View(t)) = Len(t)
      /\ \A k \in 1 .. Len(t) : View(t)[k] = Seen(t[k])
  BY <1>2, ViewFacts
<1>b. PICK w : w = RemoveAt(v, i) OBVIOUS
<1>5. /\ w \in Seq(SeenMessage) /\ Len(w) = Len(s) - 1
      /\ \A k \in 1 .. Len(s) - 1 : w[k] = IF k < i THEN v[k] ELSE v[k + 1]
  <2>1. i \in 1 .. Len(v) BY <1>1
  <2>2. /\ w \in Seq(SeenMessage) /\ Len(w) = Len(v) - 1
        /\ \A k \in 1 .. Len(v) - 1 : w[k] = IF k < i THEN v[k] ELSE v[k + 1]
    BY <1>1, <1>b, <2>1, RemoveAtIs
  <2> QED BY <2>2, <1>1
<1>6. ASSUME NEW k \in 1 .. Len(s) - 1 PROVE View(t)[k] = w[k]
  <2>0. k \in 1 .. Len(s) /\ k + 1 \in 1 .. Len(s) BY <1>1
  <2>1. View(t)[k] = Seen(t[k]) BY <1>2, <1>3
  <2>2. CASE k < i BY <2>0, <2>1, <2>2, <1>1, <1>2, <1>5
  <2>3. CASE ~(k < i) BY <2>0, <2>1, <2>3, <1>1, <1>2, <1>5
  <2> QED BY <2>2, <2>3
<1>7. View(t) = w BY <1>1, <1>2, <1>3, <1>5, <1>6, SeqEqual
<1> QED BY <1>7, <1>a, <1>b

(* What the scan finds is what MsgQueue selects. *)
LEMMA ViewSelected ==
    ASSUME NEW s \in Seq(Message), NEW typ \in Int, NEW k, First(s, typ, k)
    PROVE  Abstract!Selected(View(s), typ, k)
<1>1. /\ Len(View(s)) = Len(s) /\ Len(s) \in Nat
      /\ \A j \in 1 .. Len(s) : View(s)[j] = Seen(s[j]) /\ s[j] \in Message
  BY ViewFacts
<1>2. \A j \in 1 .. Len(s) : View(s)[j].type = s[j].type /\ s[j].type \in Nat
  <2> TAKE j \in 1 .. Len(s)
  <2>1. View(s)[j] = Seen(s[j]) /\ s[j] \in Message BY <1>1
  <2> QED BY <2>1, SeenFacts
<1>3. \A j \in 1 .. Len(s) : Abstract!Eligible(View(s), typ, j) <=> Eligible(s[j], typ)
  BY <1>2 DEF Abstract!Eligible, Eligible
<1>4. k \in 1 .. Len(s) /\ Eligible(s[k], typ) BY DEF First
<1>5. ASSUME NEW j \in 1 .. Len(s), Eligible(s[j], typ), j # k
      PROVE  Abstract!Better(View(s), typ, k, j)
  <2>1. Precedes(s, typ, k, j) BY <1>5 DEF First
  <2>2. /\ View(s)[j].type = s[j].type /\ View(s)[k].type = s[k].type /\ k \in Nat /\ j \in Nat
    BY <1>1, <1>2, <1>4
  <2> QED BY <1>5, <2>1, <2>2 DEF Precedes, Abstract!Better
<1> QED BY <1>1, <1>3, <1>4, <1>5 DEF Abstract!Selected

-----------------------------------------------------------------------------
(* A queue whose lock is held, or on which somebody stands, is in use. *)
LEMMA InUse ==
    ASSUME IInv, NEW r \in Proc, pc[r] \in Locked PROVE perm[Q(r)].alloc
BY DEF IInv, LockInv, HolderValid, Valid, Q

LEMMA GoingInUse == ASSUME IInv, NEW q \in Queue, Going(q) PROVE perm[q].alloc
BY InUse, LockedPlaces DEF Going

(* A call enters, or msgget makes a queue. *)
LEMMA CallD == ASSUME DInv, IInv', NEW p \in Proc, Call(p) PROVE DInv' /\ Refined
<1>1. IInv /\ ProcTypes /\ ShareTypes BY DEF DInv, IInv
<1>2. ASSUME NEW id \in Msqid, NEW c \in Calls, Msgsys(p, id, c) PROVE DInv' /\ Refined
  <2> DEFINE n == [cmd |-> c.cmd, id |-> id, type |-> c.type, size |-> c.size,
                   nowait |-> c.nowait, trunc |-> c.trunc]
  <2>1. /\ pc[p] = "user" /\ pc' = [pc EXCEPT ![p] = "conv"] /\ call' = [call EXCEPT ![p] = n]
        /\ UNCHANGED <<perm, qbytes, cbytes, mq, msgfp>>
    BY <1>2 DEF Msgsys, Enters, msgque, pool
  <2>2. n.cmd = c.cmd /\ n.type = c.type /\ n.size = c.size OBVIOUS
  <2> HIDE DEF n
  <2>3. call'[p] = n /\ \A r \in Proc \ {p} : call'[r] = call[r] BY <1>1, <2>1 DEF ProcTypes
  <2>4. Light(p, "conv") BY <1>1, <2>1, <2>3, MoveLight
  <2>5. CallInv(p)' BY <2>2, <2>3, <2>4 DEF CallInv, Args, Light
  <2>6. pc[p] \notin Busy /\ "conv" \notin Busy BY <2>1 DEF Busy
  <2> QED BY <2>1, <2>4, <2>5, <2>6, EasyStep
<1>3. ASSUME NEW key \in Key, NEW creat \in BOOLEAN, Msgget(p, key, creat) PROVE DInv' /\ Refined
  <2>1. PICK x \in Queue :
          /\ Creates(perm, key, creat, MSGMNI, x)
          /\ perm' = [perm EXCEPT ![x] = [alloc |-> TRUE, key |-> key, seq |-> perm[x].seq]]
          /\ qbytes' = [qbytes EXCEPT ![x] = MSGMNB]
          /\ mq' = [mq EXCEPT ![x] = <<>>]
    BY <1>3 DEF Msgget
  <2>2. ~perm[x].alloc BY <2>1 DEF Creates, Unused
  <2>3. pc[p] = "user" /\ pc' = pc /\ call' = call /\ cbytes' = cbytes /\ msgfp' = msgfp
    BY <1>3 DEF Msgget, Enters, pool
  <2>4. Light(p, "user") BY <2>3 DEF Light
  <2>5. /\ perm'[x].alloc /\ qbytes'[x] = MSGMNB /\ mq'[x] = <<>>
        /\ \A q \in Queue \ {x} : perm'[q] = perm[q] /\ qbytes'[q] = qbytes[q] /\ mq'[q] = mq[q]
    BY <1>1, <2>1 DEF ShareTypes
  <2>6. \A q \in Queue : (Going(q)' <=> Going(q)) /\ (Filled(q)' <=> Filled(q))
    BY <2>3, <2>4, Elsewhere DEF Busy
  <2>7. \A q \in Queue \ {x} : SameAt(q) /\ LooksSame(q) BY <2>3, <2>5, <2>6 DEF SameAt, LooksSame
  <2>8. ~Going(x) /\ ~Going(x)' BY <1>1, <2>2, <2>6, GoingInUse
  <2>9. mq[x] = <<>> /\ cbytes[x] = 0 BY <2>2 DEF DInv, QueueInv
  <2>10. msgfp' = msgfp - 0 /\ Headers(x)' = Headers(x) + 0
    <3>1. msgfp \in Int /\ Headers(x) \in Int BY <1>1, HeadersType DEF ShareTypes
    <3>2. Headers(x)' = Headers(x) BY <2>5, <2>6, <2>9 DEF Headers
    <3> QED BY <2>3, <3>1, <3>2
  <2>11. \A r \in Proc \ {p} : pc[r] \in {"text", "textin"} =>
               Q(r) # x \/ (cbytes'[x] = cbytes[x] /\ qbytes'[x] = qbytes[x])
    <3>1. \A r \in Proc : pc[r] \in {"text", "textin"} => perm[Q(r)].alloc
      BY <1>1, InUse, LockedPlaces
    <3> QED BY <2>2, <3>1
  <2>12. CallInv(p)' BY <2>3 DEF CallInv
  <2>13. QueueInv(x)'
    <3>1. Abstract!Bytes(mq[x])' = 0 BY <2>5, BytesNone, BytesPrime
    <3> QED BY <2>3, <2>5, <2>9, <3>1 DEF QueueInv, Limits
  <2>14. DInv'
    <3>1. 0 \in Int /\ \A q \in Queue \ {x} : SameAt(q) BY <2>7
    <3> QED BY <2>4, <2>10, <2>11, <2>12, <2>13, <3>1, DAssemble
  <2>15. Abstract!Create(x)
    <3>1. /\ Exists' = [Exists EXCEPT ![x] = Exists'[x]] /\ Msgs' = [Msgs EXCEPT ![x] = Msgs'[x]]
      BY <2>7, ViewChange
    <3>2. Exists'[x] = TRUE BY <2>5, <2>8 DEF Exists
    <3>3. ~Exists[x] BY <2>2, ViewAt
    <3>4. Msgs'[x] = <<>> /\ Msgs[x] = <<>> BY <2>5, <2>8, <2>9, ViewAt, ViewNone
    <3>5. Msgs' = Msgs BY <3>1, <3>4 DEF Msgs
    <3> QED BY <2>1, <3>1, <3>2, <3>3, <3>5 DEF Abstract!Create
  <2> QED BY <2>14, <2>15 DEF Refined, Abstract!Next
<1> QED BY <1>2, <1>3 DEF Call

-----------------------------------------------------------------------------
(* A step of the process that holds the lock of queue x, to a place where  *)
(* nothing is promised.                                                    *)
LEMMA HolderStep ==
    ASSUME DInv, IInv', NEW p \in Proc, pc[p] \in Locked, NEW to, Light(p, to),
           NEW x, x = Q(p), to \in Busy => Q(p)' = x, NEW d \in Int,
           \A q \in Queue \ {x} : /\ perm'[q] = perm[q] /\ qbytes'[q] = qbytes[q]
                                  /\ cbytes'[q] = cbytes[q] /\ mq'[q] = mq[q],
           msgfp' = msgfp - d, Headers(x)' = Headers(x) + d,
           CallInv(p)', QueueInv(x)'
    PROVE  /\ DInv'
           /\ Exists' = [Exists EXCEPT ![x] = Exists'[x]]
           /\ Msgs' = [Msgs EXCEPT ![x] = Msgs'[x]]
           /\ x \in Queue /\ perm[x].alloc
<1>1. IInv /\ x \in Queue BY QType DEF DInv, IInv
<1>2. \A q \in Queue \ {x} : (Going(q)' <=> Going(q)) /\ (Filled(q)' <=> Filled(q))
  BY Elsewhere
<1>3. \A q \in Queue \ {x} : SameAt(q) /\ LooksSame(q) BY <1>2 DEF SameAt, LooksSame
<1>4. \A r \in Proc \ {p} : pc[r] \in {"text", "textin"} =>
               Q(r) # x \/ (cbytes'[x] = cbytes[x] /\ qbytes'[x] = qbytes[x])
  BY <1>1, Alone, LockedPlaces
<1>5. DInv'
  <2>1. \A q \in Queue \ {x} : SameAt(q) BY <1>3
  <2> QED BY <1>1, <1>4, <2>1, DAssemble
<1>6. /\ Exists' = [Exists EXCEPT ![x] = Exists'[x]] /\ Msgs' = [Msgs EXCEPT ![x] = Msgs'[x]]
  BY <1>1, <1>3, ViewChange
<1>7. perm[x].alloc BY <1>1, InUse
<1> QED BY <1>1, <1>5, <1>6, <1>7

(* The function after a change nobody sees. *)
LEMMA ViewStutters ==
    ASSUME NEW x \in Queue, Exists' = [Exists EXCEPT ![x] = Exists'[x]],
           Msgs' = [Msgs EXCEPT ![x] = Msgs'[x]], Exists'[x] = Exists[x], Msgs'[x] = Msgs[x]
    PROVE  Exists' = Exists /\ Msgs' = Msgs
BY DEF Exists, Msgs

(* IPC_SET *)
LEMMA SetD ==
    ASSUME DInv, IInv', NEW p \in Proc, SetFirst(p) \/ Setin(p)
    PROVE  DInv' /\ Refined
<1>1. IInv /\ ProcTypes /\ ShareTypes BY DEF DInv, IInv
<1>2. pc[p] \in {"first", "setin"} /\ call[p].cmd = "set" /\ CallInv(p)
  BY DEF SetFirst, Setin, Running, DInv, CallInv
<1>3. pc[p] \in Locked /\ pc[p] \notin Busy \cup {"user"} /\ pc[p] \notin Busy
  BY <1>2, LockedPlaces DEF Busy
<1>4. CASE Fault(p, "setin")
  <2>1. /\ pc' = [pc EXCEPT ![p] = "setin"] /\ call' = call
        /\ UNCHANGED <<perm, qbytes, cbytes, mq, msgfp>>
    BY <1>4 DEF Fault, msgque, pool
  <2>2. "setin" \notin Busy BY DEF Busy
  <2> QED BY <1>2, <1>3, <2>1, <2>2, EasyOn
<1>5. CASE Out(p, {}) /\ UNCHANGED <<msgque, mq, pool>>
  BY <1>3, <1>5, EasyOut DEF msgque, pool
<1>6. CASE SetLimit(p)
  <2>x. PICK x, n : x = Q(p) /\ n = call[p].size OBVIOUS
  <2>0. x \in Queue BY <1>1, <2>x, QType
  <2>1. /\ qbytes' = [qbytes EXCEPT ![x] = n] /\ Out(p, {}) /\ perm' = perm
        /\ cbytes' = cbytes /\ mq' = mq /\ msgfp' = msgfp
    BY <1>6, <2>x DEF SetLimit, pool
  <2>2. Light(p, "user") BY <1>1, <2>1, OutLight
  <2>3. n \in Limits BY <1>2, <2>x DEF CallInv, Args, Limits
  <2>4. /\ qbytes'[x] = n /\ \A q \in Queue \ {x} : qbytes'[q] = qbytes[q]
    BY <1>1, <2>0, <2>1 DEF ShareTypes
  <2>5. ~Going(x) /\ ~Filled(x) /\ ~Going(x)' /\ ~Filled(x)'
    <3>1. "user" \notin Busy BY DEF Busy
    <3> QED BY <1>1, <1>2, <1>3, <2>2, <2>x, <3>1, Own
  <2>6. msgfp' = msgfp - 0 /\ Headers(x)' = Headers(x) + 0
    <3>1. msgfp \in Int /\ Headers(x) \in Int BY <1>1, <2>0, HeadersType DEF ShareTypes
    <3>2. Headers(x)' = Headers(x) BY <2>1, <2>5 DEF Headers
    <3> QED BY <2>1, <3>1, <3>2
  <2>7. CallInv(p)' BY <2>2 DEF CallInv, Light
  <2>8. QueueInv(x)'
    <3>1. QueueInv(x) BY <2>0 DEF DInv
    <3>2. Abstract!Bytes(mq[x])' = Abstract!Bytes(mq[x]) BY <2>1, BytesPrime
    <3> QED BY <2>1, <2>3, <2>4, <2>5, <3>1, <3>2 DEF QueueInv, Limits
  <2>9. /\ DInv' /\ perm[x].alloc
        /\ Exists' = [Exists EXCEPT ![x] = Exists'[x]] /\ Msgs' = [Msgs EXCEPT ![x] = Msgs'[x]]
    <3>1. "user" \notin Busy /\ 0 \in Int BY DEF Busy
    <3>2. \A q \in Queue \ {x} : /\ perm'[q] = perm[q] /\ qbytes'[q] = qbytes[q]
                                 /\ cbytes'[q] = cbytes[q] /\ mq'[q] = mq[q]
      BY <2>1, <2>4
    <3> QED BY <1>3, <2>2, <2>6, <2>7, <2>8, <2>x, <3>1, <3>2, HolderStep
  <2>10. Exists'[x] = Exists[x] /\ Msgs'[x] = Msgs[x] /\ Exists[x]
    <3>1. Exists'[x] = Exists[x] /\ Exists[x] BY <2>0, <2>1, <2>5, <2>9 DEF Exists
    <3>2. Msgs'[x] = Msgs[x] BY <2>0, <2>1, <2>5, ViewAt
    <3> QED BY <3>1, <3>2
  <2>11. Exists' = Exists /\ Msgs' = Msgs BY <2>0, <2>9, <2>10, ViewStutters
  <2>12. Abstract!SetLimit(x, n) BY <2>1, <2>10, <2>11 DEF Abstract!SetLimit
  <2> QED BY <2>0, <2>3, <2>9, <2>12 DEF Refined, Abstract!Next
<1> QED BY <1>4, <1>5, <1>6 DEF SetFirst, Setin

-----------------------------------------------------------------------------
(* msgsnd takes a header from the list; it fills it from now on. *)
LEMMA TakesD == ASSUME DInv, IInv', NEW p \in Proc, SndTakes(p) PROVE DInv' /\ Refined
<1>1. IInv /\ ProcTypes /\ ShareTypes /\ CallInv(p) BY DEF DInv, IInv
<1>x. PICK x : x = Q(p) OBVIOUS
<1>0. x \in Queue BY <1>1, <1>x, QType
<1>2. /\ pc[p] = "again" /\ HasRoom(p) /\ msgfp' = msgfp - 1 /\ pc' = [pc EXCEPT ![p] = "text"]
      /\ call' = call /\ perm' = perm /\ qbytes' = qbytes /\ cbytes' = cbytes /\ mq' = mq
  BY DEF SndTakes, Snd, Running, msgque
<1>3. pc[p] \in Locked BY <1>2, LockedPlaces
<1>4. Light(p, "text") BY <1>1, <1>2, MoveLight
<1>5. Q(p)' = x /\ pc'[p] = "text" BY <1>2, <1>4, <1>x DEF Q, Light
<1>6. ~Going(x) /\ ~Filled(x) /\ ~Going(x)' /\ Filled(x)'
  BY <1>1, <1>2, <1>3, <1>4, <1>5, <1>x, Own
<1>7. Headers(x)' = Headers(x) + 1
  <2>1. Len(mq[x]) \in Nat BY <1>0, <1>1, LenProperties DEF ShareTypes
  <2> QED BY <1>2, <1>6, <2>1 DEF Headers
<1>8. CallInv(p)'
  <2>1. Args(p)' BY <1>1, <1>2 DEF CallInv, Args
  <2>2. HasRoom(p)' BY <1>2, <1>5, <1>x DEF HasRoom
  <2> QED BY <1>5, <2>1, <2>2 DEF CallInv
<1>9. QueueInv(x)'
  <2>1. QueueInv(x) BY <1>0 DEF DInv
  <2>2. Abstract!Bytes(mq[x])' = Abstract!Bytes(mq[x]) BY <1>2, BytesPrime
  <2> QED BY <1>2, <1>6, <2>1, <2>2 DEF QueueInv, Limits
<1>10. /\ DInv'
       /\ Exists' = [Exists EXCEPT ![x] = Exists'[x]] /\ Msgs' = [Msgs EXCEPT ![x] = Msgs'[x]]
  <2>2. \A q \in Queue \ {x} : /\ perm'[q] = perm[q] /\ qbytes'[q] = qbytes[q]
                               /\ cbytes'[q] = cbytes[q] /\ mq'[q] = mq[q]
    BY <1>2
  <2>3. 1 \in Int OBVIOUS
  <2> QED BY <1>2, <1>3, <1>4, <1>5, <1>7, <1>8, <1>9, <1>x, <2>2, <2>3, HolderStep
<1>11. Exists'[x] = Exists[x] BY <1>0, <1>2, <1>6 DEF Exists
<1>12. Msgs'[x] = Msgs[x] BY <1>0, <1>2, <1>6, ViewAt
<1>13. Exists' = Exists /\ Msgs' = Msgs BY <1>0, <1>10, <1>11, <1>12, ViewStutters
<1> QED BY <1>2, <1>10, <1>13 DEF Refined, avars

(* The copyin of the text fails: the header goes back. *)
LEMMA CopyinD ==
    ASSUME DInv, IInv', NEW p \in Proc, pc[p] \in {"text", "textin"}, CopyinFails(p)
    PROVE  DInv' /\ Refined
<1>1. IInv /\ ProcTypes /\ ShareTypes BY DEF DInv, IInv
<1>x. PICK x, C : x = Q(p) /\ C = HdrWakes \cup MapWakes(call[p].size, held[p]) OBVIOUS
<1>0. x \in Queue BY <1>1, <1>x, QType
<1>2. /\ msgfp' = msgfp + 1 /\ Out(p, C)
      /\ perm' = perm /\ qbytes' = qbytes /\ cbytes' = cbytes /\ mq' = mq
  BY <1>x DEF CopyinFails, msgque
<1>3. pc[p] \in Locked /\ "user" \notin Busy BY LockedPlaces DEF Busy
<1>4. Light(p, "user") BY <1>1, <1>2, OutLight
<1>6. ~Going(x) /\ Filled(x) /\ ~Going(x)' /\ ~Filled(x)'
  BY <1>1, <1>3, <1>4, <1>x, Own
<1>7. Headers(x)' = Headers(x) + (-1) /\ msgfp' = msgfp - (-1)
  <2>1. Len(mq[x]) \in Nat /\ msgfp \in Nat BY <1>0, <1>1, LenProperties DEF ShareTypes
  <2> QED BY <1>2, <1>6, <2>1 DEF Headers
<1>8. CallInv(p)' BY <1>4 DEF CallInv, Light
<1>9. QueueInv(x)'
  <2>1. QueueInv(x) BY <1>0 DEF DInv
  <2>2. Abstract!Bytes(mq[x])' = Abstract!Bytes(mq[x]) BY <1>2, BytesPrime
  <2> QED BY <1>2, <1>6, <2>1, <2>2 DEF QueueInv, Limits
<1>10. /\ DInv'
       /\ Exists' = [Exists EXCEPT ![x] = Exists'[x]] /\ Msgs' = [Msgs EXCEPT ![x] = Msgs'[x]]
  <2>2. \A q \in Queue \ {x} : /\ perm'[q] = perm[q] /\ qbytes'[q] = qbytes[q]
                               /\ cbytes'[q] = cbytes[q] /\ mq'[q] = mq[q]
    BY <1>2
  <2>3. -1 \in Int OBVIOUS
  <2> QED BY <1>3, <1>4, <1>7, <1>8, <1>9, <1>x, <2>2, <2>3, HolderStep
<1>11. Exists'[x] = Exists[x] BY <1>0, <1>2, <1>6 DEF Exists
<1>12. Msgs'[x] = Msgs[x] BY <1>0, <1>2, <1>6, ViewAt
<1>13. Exists' = Exists /\ Msgs' = Msgs BY <1>0, <1>10, <1>11, <1>12, ViewStutters
<1> QED BY <1>2, <1>10, <1>13 DEF Refined, avars

(* The message goes on the queue: there is still the room there was when   *)
(* msgsnd looked.                                                          *)
LEMMA EnqueueD ==
    ASSUME DInv, IInv', NEW p \in Proc, pc[p] \in {"text", "textin"}, Enqueue(p)
    PROVE  DInv' /\ Refined
<1>1. IInv /\ ProcTypes /\ ShareTypes /\ CallInv(p) /\ Sends(p) BY DEF DInv, IInv
<1>x. PICK x, m, C : /\ x = Q(p) /\ C = (IF rwait[x] THEN {<<"qnum", x>>} ELSE {})
                     /\ m = [type |-> call[p].type, size |-> call[p].size, spot |-> held[p]]
  OBVIOUS
<1>0. x \in Queue BY <1>1, <1>x, QType
<1>2. /\ mq' = [mq EXCEPT ![x] = Append(mq[x], m)]
      /\ cbytes' = [cbytes EXCEPT ![x] = cbytes[x] + call[p].size]
      /\ Out(p, C) /\ perm' = perm /\ qbytes' = qbytes /\ msgfp' = msgfp
  BY <1>x DEF Enqueue, pool
<1>3. pc[p] \in Locked /\ "user" \notin Busy BY LockedPlaces DEF Busy
<1>4. Light(p, "user") BY <1>1, <1>2, OutLight
<1>5. m \in Message /\ m.size = call[p].size /\ Seen(m) = [type |-> call[p].type, size |-> call[p].size]
  <2>1. call[p].type > 0 /\ call[p].type \in Int /\ call[p].size \in Nat /\ held[p] \in Nat
    BY <1>1 DEF Sends, ProcTypes, CallType
  <2> QED BY <1>x, <2>1 DEF Message, Seen
<1>6. ~Going(x) /\ Filled(x) /\ ~Going(x)' /\ ~Filled(x)'
  BY <1>1, <1>3, <1>4, <1>x, Own
<1>s. mq[x] \in Seq(Message) /\ Len(mq[x]) \in Nat BY <1>0, <1>1, LenProperties DEF ShareTypes
<1>7. /\ mq'[x] = Append(mq[x], m) /\ cbytes'[x] = cbytes[x] + m.size
      /\ \A q \in Queue \ {x} : mq'[q] = mq[q] /\ cbytes'[q] = cbytes[q]
  BY <1>0, <1>1, <1>2, <1>5 DEF ShareTypes
<1>8. Headers(x)' = Headers(x) + 0 /\ msgfp' = msgfp - 0
  <2>1. Len(mq'[x]) = Len(mq[x]) + 1 BY <1>5, <1>7, <1>s, AppendProperties
  <2>2. msgfp \in Nat BY <1>1 DEF ShareTypes
  <2> QED BY <1>2, <1>6, <1>s, <2>1, <2>2 DEF Headers
<1>9. CallInv(p)' BY <1>4 DEF CallInv, Light
<1>b. cbytes[x] = Abstract!Bytes(mq[x]) BY <1>0, <1>6 DEF DInv, QueueInv
<1>a. perm[x].alloc BY <1>1, <1>3, <1>x, InUse
<1>10. QueueInv(x)'
  <2>1. QueueInv(x) BY <1>0 DEF DInv
  <2>2. Abstract!Bytes(mq[x])' = Abstract!Bytes(Append(mq[x], m)) BY <1>7, BytesPrime
  <2>3. Abstract!Bytes(Append(mq[x], m)) = Abstract!Bytes(mq[x]) + m.size
    BY <1>5, <1>s, BytesAppend
  <2>4. cbytes'[x] = Abstract!Bytes(mq[x])' BY <1>7, <1>b, <2>2, <2>3
  <2> QED BY <1>2, <1>a, <2>1, <2>4 DEF QueueInv, Limits
<1>11. /\ DInv'
       /\ Exists' = [Exists EXCEPT ![x] = Exists'[x]] /\ Msgs' = [Msgs EXCEPT ![x] = Msgs'[x]]
  <2>2. \A q \in Queue \ {x} : /\ perm'[q] = perm[q] /\ qbytes'[q] = qbytes[q]
                               /\ cbytes'[q] = cbytes[q] /\ mq'[q] = mq[q]
    BY <1>2, <1>7
  <2>3. 0 \in Int OBVIOUS
  <2> QED BY <1>3, <1>4, <1>8, <1>9, <1>10, <1>x, <2>2, <2>3, HolderStep
<1>12. Abstract!Send(x, Seen(m))
  <2>1. Exists'[x] = Exists[x] /\ Exists[x] BY <1>0, <1>2, <1>6, <1>a DEF Exists
  <2>2. Exists' = Exists BY <1>0, <1>11, <2>1 DEF Exists
  <2>3. Msgs[x] = View(mq[x]) /\ Msgs'[x] = View(Append(mq[x], m)) BY <1>0, <1>6, <1>7, ViewAt
  <2>4. Msgs'[x] = Append(Msgs[x], Seen(m)) BY <1>5, <1>s, <2>3, ViewAppend
  <2>5. Abstract!Bytes(Msgs[x]) = cbytes[x] BY <1>b, <1>s, <2>3, ViewBytes
  <2>6. call[p].size + cbytes[x] <= qbytes[x] BY <1>1, <1>x DEF CallInv, HasRoom
  <2>7. Abstract!Bytes(Msgs[x]) + Seen(m).size <= qbytes[x]
    <3>1. Seen(m).size = call[p].size /\ call[p].size \in Int /\ cbytes[x] \in Int /\ qbytes[x] \in Int
      BY <1>0, <1>1, <1>5 DEF ProcTypes, CallType, ShareTypes
    <3> QED BY <2>5, <2>6, <3>1
  <2> QED BY <1>2, <1>11, <2>1, <2>2, <2>4, <2>7 DEF Abstract!Send
<1>13. Seen(m) \in {Seen(c) : c \in {d \in Calls : d.cmd = "snd"}}
  <2>1. call[p].cmd = "snd" BY <1>1 DEF Sends
  <2>2. PICK c \in Calls : call[p].cmd = c.cmd /\ call[p].type = c.type /\ call[p].size = c.size
    BY <1>1 DEF CallInv, Args
  <2>3. Seen(c) = Seen(m) BY <1>5, <2>2 DEF Seen
  <2> QED BY <2>1, <2>2, <2>3
<1> QED BY <1>0, <1>11, <1>12, <1>13 DEF Refined, Abstract!Next

(* msgrcv finds its message. *)
LEMMA FindsD == ASSUME DInv, IInv', NEW p \in Proc, RcvFinds(p) PROVE DInv' /\ Refined
<1>1. /\ pc[p] = "again" /\ call[p].cmd = "rcv" /\ pc' = [pc EXCEPT ![p] = "copyout"]
      /\ call' = call /\ UNCHANGED <<perm, qbytes, cbytes, mq, msgfp>>
  BY DEF RcvFinds, Rcv, Running, msgque, pool
<1>2. pc[p] \notin Busy /\ "copyout" \notin Busy BY <1>1 DEF Busy
<1> QED BY <1>1, <1>2, EasyOn

(* It leaves the queue, and is the one MsgQueue selects. *)
LEMMA DequeueD ==
    ASSUME DInv, IInv', NEW p \in Proc, pc[p] \in {"copyout", "textout"}, Dequeue(p)
    PROVE  DInv' /\ Refined
<1>1. IInv /\ ProcTypes /\ ShareTypes /\ CallInv(p) /\ Receives(p) BY DEF DInv, IInv
<1>x. PICK x, k, C : x = Q(p) /\ k = held[p] /\ C = FreeWakes(x, k) OBVIOUS
<1>0. x \in Queue BY <1>1, <1>x, QType
<1>2. /\ mq' = [mq EXCEPT ![x] = RemoveAt(mq[x], k)] /\ msgfp' = msgfp + 1
      /\ cbytes' = [cbytes EXCEPT ![x] = cbytes[x] - mq[x][k].size]
      /\ Out(p, C) /\ perm' = perm /\ qbytes' = qbytes
  BY <1>x DEF Dequeue, Msgfree
<1>3. pc[p] \in Locked /\ "user" \notin Busy BY LockedPlaces DEF Busy
<1>4. Light(p, "user") BY <1>1, <1>2, OutLight
<1>6. ~Going(x) /\ ~Filled(x) /\ ~Going(x)' /\ ~Filled(x)'
  BY <1>1, <1>3, <1>4, <1>x, Own
<1>s. mq[x] \in Seq(Message) /\ Len(mq[x]) \in Nat /\ call[p].type \in Int
  BY <1>0, <1>1, LenProperties DEF ShareTypes, ProcTypes, CallType
<1>5. k \in 1 .. Len(mq[x]) /\ First(mq[x], call[p].type, k)
  BY <1>1, <1>s, <1>x, FindFacts DEF Receives, Some, Found
<1>7. /\ mq'[x] = RemoveAt(mq[x], k) /\ cbytes'[x] = cbytes[x] - mq[x][k].size
      /\ \A q \in Queue \ {x} : mq'[q] = mq[q] /\ cbytes'[q] = cbytes[q]
  BY <1>0, <1>1, <1>2 DEF ShareTypes
<1>8. Headers(x)' = Headers(x) + (-1) /\ msgfp' = msgfp - (-1)
  <2>1. Len(mq'[x]) = Len(mq[x]) - 1 BY <1>5, <1>7, <1>s, RemoveAtIs
  <2>2. msgfp \in Nat BY <1>1 DEF ShareTypes
  <2> QED BY <1>2, <1>6, <1>s, <2>1, <2>2 DEF Headers
<1>9. CallInv(p)' BY <1>4 DEF CallInv, Light
<1>b. cbytes[x] = Abstract!Bytes(mq[x]) BY <1>0, <1>6 DEF DInv, QueueInv
<1>a. perm[x].alloc BY <1>1, <1>3, <1>x, InUse
<1>10. QueueInv(x)'
  <2>1. QueueInv(x) BY <1>0 DEF DInv
  <2>2. Abstract!Bytes(mq[x])' = Abstract!Bytes(RemoveAt(mq[x], k)) BY <1>7, BytesPrime
  <2>3. Abstract!Bytes(RemoveAt(mq[x], k)) = Abstract!Bytes(mq[x]) - mq[x][k].size
    BY <1>5, <1>s, BytesRemove
  <2>4. cbytes'[x] = Abstract!Bytes(mq[x])' BY <1>7, <1>b, <2>2, <2>3
  <2> QED BY <1>2, <1>a, <2>1, <2>4 DEF QueueInv, Limits
<1>11. /\ DInv'
       /\ Exists' = [Exists EXCEPT ![x] = Exists'[x]] /\ Msgs' = [Msgs EXCEPT ![x] = Msgs'[x]]
  <2>2. \A q \in Queue \ {x} : /\ perm'[q] = perm[q] /\ qbytes'[q] = qbytes[q]
                               /\ cbytes'[q] = cbytes[q] /\ mq'[q] = mq[q]
    BY <1>2, <1>7
  <2>3. -1 \in Int OBVIOUS
  <2> QED BY <1>3, <1>4, <1>8, <1>9, <1>10, <1>x, <2>2, <2>3, HolderStep
<1>12. Abstract!Receive(x, call[p].type)
  <2>1. Exists'[x] = Exists[x] /\ Exists[x] BY <1>0, <1>2, <1>6, <1>a DEF Exists
  <2>2. Exists' = Exists BY <1>0, <1>11, <2>1 DEF Exists
  <2>3. Msgs[x] = View(mq[x]) /\ Msgs'[x] = View(RemoveAt(mq[x], k)) BY <1>0, <1>6, <1>7, ViewAt
  <2>4. Msgs'[x] = RemoveAt(Msgs[x], k) BY <1>5, <1>s, <2>3, ViewRemove
  <2>5. Abstract!Selected(Msgs[x], call[p].type, k) BY <1>5, <1>s, <2>3, ViewSelected
  <2>6. k \in 1 .. Len(Msgs[x]) BY <1>5, <1>s, <2>3, ViewFacts
  <2>7. Msgs' = [Msgs EXCEPT ![x] = RemoveAt(Msgs[x], k)] BY <1>11, <2>4
  <2>8. Abstract!RemoveAt(Msgs[x], k) = RemoveAt(Msgs[x], k) BY DEF Abstract!RemoveAt, RemoveAt
  <2> QED BY <1>2, <2>1, <2>2, <2>5, <2>6, <2>7, <2>8 DEF Abstract!Receive
<1>13. call[p].type \in {c.type : c \in {d \in Calls : d.cmd = "rcv"}}
  BY <1>1 DEF CallInv, Args
<1> QED BY <1>0, <1>11, <1>12, <1>13 DEF Refined, Abstract!Next

-----------------------------------------------------------------------------
(* IPC_RMID begins: for its users the queue is gone. *)
LEMMA RmidFirstD == ASSUME DInv, IInv', NEW p \in Proc, RmidFirst(p) PROVE DInv' /\ Refined
<1>1. IInv /\ ProcTypes /\ ShareTypes /\ CallInv(p) BY DEF DInv, IInv
<1>x. PICK x : x = Q(p) OBVIOUS
<1>0. x \in Queue BY <1>1, <1>x, QType
<1>2. /\ pc[p] = "first" /\ pc' = [pc EXCEPT ![p] = "rmid"] /\ call' = call
      /\ perm' = perm /\ qbytes' = qbytes /\ cbytes' = cbytes /\ mq' = mq /\ msgfp' = msgfp
  BY DEF RmidFirst, Running, msgque, pool
<1>3. pc[p] \in Locked BY <1>2, LockedPlaces
<1>4. Light(p, "rmid") BY <1>1, <1>2, MoveLight
<1>5. Q(p)' = x /\ pc'[p] = "rmid" BY <1>2, <1>4, <1>x DEF Q, Light
<1>6. ~Going(x) /\ ~Filled(x) /\ Going(x)' /\ ~Filled(x)'
  BY <1>1, <1>2, <1>3, <1>4, <1>5, <1>x, Own
<1>7. Headers(x)' = Headers(x) + 0 /\ msgfp' = msgfp - 0
  <2>1. msgfp \in Int /\ Headers(x) \in Int BY <1>0, <1>1, HeadersType DEF ShareTypes
  <2>2. Headers(x)' = Headers(x) BY <1>2, <1>6 DEF Headers
  <2> QED BY <1>2, <2>1, <2>2
<1>8. CallInv(p)'
  <2>1. Args(p)' BY <1>1, <1>2 DEF CallInv, Args
  <2> QED BY <1>5, <2>1 DEF CallInv
<1>a. perm[x].alloc BY <1>1, <1>3, <1>x, InUse
<1>9. QueueInv(x)'
  <2>1. QueueInv(x) BY <1>0 DEF DInv
  <2> QED BY <1>2, <1>6, <1>a, <2>1 DEF QueueInv, Limits
<1>10. /\ DInv'
       /\ Exists' = [Exists EXCEPT ![x] = Exists'[x]] /\ Msgs' = [Msgs EXCEPT ![x] = Msgs'[x]]
  <2>2. \A q \in Queue \ {x} : /\ perm'[q] = perm[q] /\ qbytes'[q] = qbytes[q]
                               /\ cbytes'[q] = cbytes[q] /\ mq'[q] = mq[q]
    BY <1>2
  <2>3. 0 \in Int OBVIOUS
  <2> QED BY <1>3, <1>4, <1>5, <1>7, <1>8, <1>9, <1>x, <2>2, <2>3, HolderStep
<1>11. Exists'[x] = FALSE /\ Exists[x] BY <1>0, <1>6, <1>a DEF Exists
<1>12. Msgs'[x] = <<>> BY <1>0, <1>6, ViewAt
<1>13. Abstract!Destroy(x) BY <1>2, <1>10, <1>11, <1>12 DEF Abstract!Destroy
<1> QED BY <1>0, <1>10, <1>13 DEF Refined, Abstract!Next

(* The messages of a queue that is going are freed one by one. *)
LEMMA RmidFreeD == ASSUME DInv, IInv', NEW p \in Proc, RmidFree(p) PROVE DInv' /\ Refined
<1>1. IInv /\ ProcTypes /\ ShareTypes /\ CallInv(p) BY DEF DInv, IInv
<1>x. PICK x, C : x = Q(p) /\ C = FreeWakes(x, 1) OBVIOUS
<1>0. x \in Queue BY <1>1, <1>x, QType
<1>2. /\ pc[p] = "rmid" /\ mq[x] # <<>> /\ mq' = [mq EXCEPT ![x] = RemoveAt(mq[x], 1)]
      /\ msgfp' = msgfp + 1 /\ Moves(p, "rmid", C) /\ call' = call
      /\ perm' = perm /\ qbytes' = qbytes /\ cbytes' = cbytes
  BY <1>x DEF RmidFree, Running, Msgfree
<1>3. pc[p] \in Locked BY <1>2, LockedPlaces
<1>4. Light(p, "rmid")
  <2>1. "rmid" \in Places BY PlainPlaces
  <2>2. /\ pc'[p] = "rmid"
        /\ \A r \in Proc \ {p} : pc'[r] = pc[r] \/ (pc[r] = "asleep" /\ pc'[r] = "woken")
    BY <1>1, <1>2, <2>1, MovesTypes
  <2> QED BY <1>2, <2>2 DEF Light
<1>5. Q(p)' = x /\ pc'[p] = "rmid" BY <1>2, <1>4, <1>x DEF Q, Light
<1>6. Going(x) /\ ~Filled(x) /\ Going(x)' /\ ~Filled(x)'
  BY <1>1, <1>2, <1>3, <1>4, <1>5, <1>x, Own
<1>s. mq[x] \in Seq(Message) /\ Len(mq[x]) \in Nat BY <1>0, <1>1, LenProperties DEF ShareTypes
<1>k. 1 \in 1 .. Len(mq[x])
  <2>1. Len(mq[x]) # 0 BY <1>2, <1>s, EmptySeq
  <2> QED BY <1>s, <2>1
<1>q. /\ mq'[x] = RemoveAt(mq[x], 1) /\ \A q \in Queue \ {x} : mq'[q] = mq[q]
  BY <1>0, <1>1, <1>2 DEF ShareTypes
<1>7. Headers(x)' = Headers(x) + (-1) /\ msgfp' = msgfp - (-1)
  <2>1. Len(mq'[x]) = Len(mq[x]) - 1 BY <1>k, <1>q, <1>s, RemoveAtIs
  <2>2. msgfp \in Nat BY <1>1 DEF ShareTypes
  <2> QED BY <1>2, <1>6, <1>s, <2>1, <2>2 DEF Headers
<1>8. CallInv(p)'
  <2>1. Args(p)' BY <1>1, <1>2 DEF CallInv, Args
  <2> QED BY <1>5, <2>1 DEF CallInv
<1>a. perm[x].alloc BY <1>1, <1>3, <1>x, InUse
<1>9. QueueInv(x)'
  <2>1. QueueInv(x) BY <1>0 DEF DInv
  <2> QED BY <1>2, <1>6, <1>a, <2>1 DEF QueueInv, Limits
<1>10. /\ DInv'
       /\ Exists' = [Exists EXCEPT ![x] = Exists'[x]] /\ Msgs' = [Msgs EXCEPT ![x] = Msgs'[x]]
  <2>2. \A q \in Queue \ {x} : /\ perm'[q] = perm[q] /\ qbytes'[q] = qbytes[q]
                               /\ cbytes'[q] = cbytes[q] /\ mq'[q] = mq[q]
    BY <1>2, <1>q
  <2>3. -1 \in Int OBVIOUS
  <2> QED BY <1>3, <1>4, <1>5, <1>7, <1>8, <1>9, <1>x, <2>2, <2>3, HolderStep
<1>11. Exists'[x] = Exists[x] BY <1>0, <1>6 DEF Exists
<1>12. Msgs'[x] = Msgs[x] BY <1>0, <1>6, ViewAt
<1>13. Exists' = Exists /\ Msgs' = Msgs BY <1>0, <1>10, <1>11, <1>12, ViewStutters
<1> QED BY <1>2, <1>10, <1>13 DEF Refined, avars

(* The header is free for a new queue, with nothing left of the old one. *)
LEMMA RmidDoneD == ASSUME DInv, IInv', NEW p \in Proc, RmidDone(p) PROVE DInv' /\ Refined
<1>1. IInv /\ ProcTypes /\ ShareTypes BY DEF DInv, IInv
<1>x. PICK x, seq, C : /\ x = Q(p) /\ seq = NextSeq(call[p].id, perm[x].seq, MSGMNI)
                       /\ C = (IF rwait[x] THEN {<<"qnum", x>>} ELSE {})
                               \cup (IF wwait[x] THEN {<<"qp", x>>} ELSE {})
  OBVIOUS
<1>0. x \in Queue BY <1>1, <1>x, QType
<1>2. /\ pc[p] = "rmid" /\ mq[x] = <<>> /\ Out(p, C) /\ msgfp' = msgfp
      /\ perm' = [perm EXCEPT ![x] = [alloc |-> FALSE, key |-> perm[x].key, seq |-> seq]]
      /\ cbytes' = [cbytes EXCEPT ![x] = 0] /\ qbytes' = qbytes /\ mq' = mq
  BY <1>x DEF RmidDone, RmidBytes, Running, pool
<1>3. pc[p] \in Locked /\ "user" \notin Busy BY <1>2, LockedPlaces DEF Busy
<1>4. Light(p, "user") BY <1>1, <1>2, OutLight
<1>6. Going(x) /\ ~Filled(x) /\ ~Going(x)' /\ ~Filled(x)'
  BY <1>1, <1>2, <1>3, <1>4, <1>x, Own
<1>q. /\ ~perm'[x].alloc /\ cbytes'[x] = 0 /\ mq'[x] = <<>>
      /\ \A q \in Queue \ {x} : perm'[q] = perm[q] /\ cbytes'[q] = cbytes[q]
  BY <1>0, <1>1, <1>2 DEF ShareTypes
<1>7. Headers(x)' = Headers(x) + 0 /\ msgfp' = msgfp - 0
  <2>1. msgfp \in Int /\ Headers(x) \in Int BY <1>0, <1>1, HeadersType DEF ShareTypes
  <2>2. Headers(x)' = Headers(x) BY <1>2, <1>6 DEF Headers
  <2> QED BY <1>2, <2>1, <2>2
<1>8. CallInv(p)' BY <1>4 DEF CallInv, Light
<1>9. QueueInv(x)'
  <2>1. QueueInv(x) BY <1>0 DEF DInv
  <2>2. Abstract!Bytes(mq[x])' = 0 BY <1>q, BytesNone, BytesPrime
  <2> QED BY <1>2, <1>q, <2>1, <2>2 DEF QueueInv, Limits
<1>10. /\ DInv'
       /\ Exists' = [Exists EXCEPT ![x] = Exists'[x]] /\ Msgs' = [Msgs EXCEPT ![x] = Msgs'[x]]
  <2>2. \A q \in Queue \ {x} : /\ perm'[q] = perm[q] /\ qbytes'[q] = qbytes[q]
                               /\ cbytes'[q] = cbytes[q] /\ mq'[q] = mq[q]
    BY <1>2, <1>q
  <2>3. 0 \in Int OBVIOUS
  <2> QED BY <1>3, <1>4, <1>7, <1>8, <1>9, <1>x, <2>2, <2>3, HolderStep
<1>11. Exists'[x] = Exists[x] BY <1>0, <1>6, <1>q DEF Exists
<1>12. Msgs'[x] = Msgs[x] BY <1>0, <1>6, <1>q, ViewAt, ViewNone
<1>13. Exists' = Exists /\ Msgs' = Msgs BY <1>0, <1>10, <1>11, <1>12, ViewStutters
<1> QED BY <1>2, <1>10, <1>13 DEF Refined, avars

(* The copies of text in and out. *)
LEMMA TextD ==
    ASSUME DInv, IInv', NEW p \in Proc,
           SndText(p) \/ Textin(p) \/ RcvCopyout(p) \/ Textout(p)
    PROVE  DInv' /\ Refined
<1>1. CASE SndText(p) \/ Textin(p)
  <2>1. pc[p] \in {"text", "textin"} BY <1>1 DEF SndText, Textin, Running
  <2>2. CASE Enqueue(p) BY <2>1, <2>2, EnqueueD
  <2>3. CASE CopyinFails(p) BY <2>1, <2>3, CopyinD
  <2>4. CASE Fault(p, "textin")
    <3>1. /\ pc' = [pc EXCEPT ![p] = "textin"] /\ call' = call
          /\ UNCHANGED <<perm, qbytes, cbytes, mq, msgfp>>
      BY <2>4 DEF Fault, msgque, pool
    <3> QED BY <2>1, <3>1, EasyOn
  <2> QED BY <1>1, <2>2, <2>3, <2>4 DEF SndText, Textin
<1>2. CASE RcvCopyout(p) \/ Textout(p)
  <2>1. pc[p] \in {"copyout", "textout"} BY <1>2 DEF RcvCopyout, Textout, Running
  <2>0. pc[p] \notin Busy /\ "textout" \notin Busy BY <2>1 DEF Busy
  <2>2. CASE Dequeue(p) BY <2>1, <2>2, DequeueD
  <2>3. CASE CopyoutFails(p)
    <3>1. Out(p, {}) /\ UNCHANGED <<perm, qbytes, cbytes, mq, msgfp>>
      BY <2>3 DEF CopyoutFails, msgque, pool
    <3> QED BY <2>0, <3>1, EasyOut
  <2>4. CASE Fault(p, "textout")
    <3>1. /\ pc' = [pc EXCEPT ![p] = "textout"] /\ call' = call
          /\ UNCHANGED <<perm, qbytes, cbytes, mq, msgfp>>
      BY <2>4 DEF Fault, msgque, pool
    <3>2. call[p].cmd = "rcv" BY <2>1 DEF DInv, CallInv
    <3> QED BY <2>0, <2>1, <3>1, <3>2, EasyOn
  <2> QED BY <1>2, <2>2, <2>3, <2>4 DEF RcvCopyout, Textout
<1> QED BY <1>1, <1>2

-----------------------------------------------------------------------------
(* At first every header is free. *)
LEMMA InitD == Init => DInv /\ Abstract!Init
<1> SUFFICES ASSUME Init PROVE DInv /\ Abstract!Init OBVIOUS
<1>1. IInv BY InitIInv
<1>2. \A r \in Proc : pc[r] = "user" BY DEF Init
<1>3. \A q \in Queue : ~Going(q) /\ ~Filled(q) BY <1>2 DEF Going, Filled, Fills
<1>4. \A q \in Queue : Headers(q) = 0
  <2> TAKE q \in Queue
  <2>1. mq[q] = <<>> BY DEF Init
  <2>2. Len(mq[q]) = 0 BY <2>1
  <2> QED BY <1>3, <2>2 DEF Headers
<1>5. HeadersConserved
  <2>0. MSGMNI \in Nat /\ MSGTQL \in Nat BY MsgAssumption
  <2>1. PICK v : IsSum(v, AllHeaders, MSGMNI) /\ (HeadersConserved <=> msgfp + v[MSGMNI] = MSGTQL)
    BY HeadersSum DEF AddedUp
  <2>2. \A k \in 1 .. MSGMNI : AllHeaders[k] = 0
    <3>1. \A k \in 1 .. MSGMNI : k - 1 \in Queue BY <2>0 DEF Queue
    <3> QED BY <1>4, <3>1 DEF AllHeaders
  <2>3. PICK z : z = [k \in 0 .. MSGMNI |-> 0] OBVIOUS
  <2>4. IsSum(z, AllHeaders, MSGMNI)
    <3>1. \A k \in 1 .. MSGMNI : k \in 0 .. MSGMNI /\ k - 1 \in 0 .. MSGMNI BY <2>0
    <3>2. z[0] = 0 /\ \A k \in 0 .. MSGMNI : z[k] = 0 BY <2>0, <2>3
    <3> QED BY <2>2, <3>1, <3>2 DEF IsSum
  <2>5. \A j \in 0 .. MSGMNI : z[j] \in Int /\ v[j] = z[j]
    <3>1. \A k \in 1 .. MSGMNI : AllHeaders[k] \in Int /\ AllHeaders[k] = AllHeaders[k] BY <2>2
    <3> QED BY <2>0, <2>1, <2>4, <3>1, SumsAgree
  <2>6. v[MSGMNI] = 0 BY <2>0, <2>3, <2>5
  <2>7. msgfp = MSGTQL BY DEF Init
  <2> QED BY <2>0, <2>1, <2>6, <2>7
<1>6. \A r \in Proc : CallInv(r) BY <1>2 DEF CallInv
<1>7. \A q \in Queue : QueueInv(q) BY BytesNone DEF Init, QueueInv, Limits
<1>8. DInv BY <1>1, <1>5, <1>6, <1>7 DEF DInv
<1>9. Exists = [q \in Queue |-> FALSE] BY DEF Exists, Init
<1>10. Msgs = [q \in Queue |-> <<>>]
  <2>1. \A q \in Queue : Msgs[q] = <<>>
    <3> TAKE q \in Queue
    <3>1. mq[q] = <<>> BY DEF Init
    <3> QED BY <1>3, <3>1, ViewAt, ViewNone
  <2> QED BY <2>1 DEF Msgs
<1>11. qbytes \in [Queue -> Limits] BY DEF Init, Limits
<1>12. Abstract!Init BY <1>9, <1>10, <1>11 DEF Abstract!Init
<1> QED BY <1>8, <1>12

(* Every step keeps the counts, and is a step of MsgQueue or of nothing it *)
(* knows.                                                                  *)
LEMMA NextD == DInv /\ [Next]_vars => DInv' /\ Refined
<1> SUFFICES ASSUME DInv, [Next]_vars PROVE DInv' /\ Refined OBVIOUS
<1>1. IInv' BY NextIInv DEF DInv
<1>2. ASSUME NEW p \in Proc, Call(p) \/ Step(p) \/ Continue(p) \/ Signal(p) PROVE DInv' /\ Refined
  <2>1. CASE Call(p) BY <1>1, <2>1, CallD
  <2>2. CASE Step(p)
    BY <1>1, <2>2, ConvD, LockedD, TakesD, TextD, FindsD, RmidFirstD, RmidFreeD, RmidDoneD, SetD DEF Step
  <2>3. CASE Continue(p) \/ Signal(p) BY <1>1, <2>3, ResumeD, LockedD, TextD, SetD DEF Continue
  <2> QED BY <1>2, <2>1, <2>2, <2>3
<1>3. CASE UNCHANGED vars
  <2>1. /\ pc' = pc /\ call' = call /\ mq' = mq /\ perm' = perm /\ qbytes' = qbytes
        /\ cbytes' = cbytes /\ msgfp' = msgfp
    BY <1>3 DEF vars, msgque, pool
  <2>2. \A q : (Going(q)' <=> Going(q)) /\ (Filled(q)' <=> Filled(q))
    BY <2>1 DEF Going, Filled, Fills, Q
  <2>3. HeadersConserved'
    BY <2>1, <2>2 DEF DInv, HeadersConserved, Headers
  <2>4. \A r \in Proc : CallInv(r)' BY <2>1 DEF DInv, CallInv, Args, HasRoom, Q
  <2>5. \A q \in Queue : QueueInv(q)'
    <3> TAKE q \in Queue
    <3>1. Abstract!Bytes(mq[q])' = Abstract!Bytes(mq[q]) BY <2>1, BytesPrime
    <3>2. QueueInv(q) BY DEF DInv
    <3> QED BY <2>1, <2>2, <3>1, <3>2 DEF QueueInv, Limits
  <2>6. DInv' BY <1>1, <2>3, <2>4, <2>5 DEF DInv
  <2>7. Exists' = Exists /\ Msgs' = Msgs BY <2>1, <2>2 DEF Exists, Msgs
  <2> QED BY <2>1, <2>6, <2>7 DEF Refined, avars
<1> QED BY <1>2, <1>3 DEF Next

(* Headers, bytes and arguments are accounted for in every reachable       *)
(* state.                                                                  *)
THEOREM Accounted == Spec => []DInv
BY InitD, NextD, PTL DEF Spec

(* No msgsnd, failed copy, msgrcv or IPC_RMID loses a message header or    *)
(* frees one twice: those on msgfp, on the queues and with senders add up  *)
(* to MSGTQL.                                                              *)
THEOREM HeadersAddUp == Spec => []HeadersConserved
<1>1. DInv => HeadersConserved BY DEF DInv
<1> QED BY <1>1, Accounted, PTL

(* msg_cbytes is the bytes of the messages on the queue, whatever has been *)
(* sent, received and removed.                                             *)
THEOREM BytesAreExact == Spec => []BytesExact
<1>1. DInv => BytesExact BY DEF DInv, QueueInv, BytesExact
<1> QED BY <1>1, Accounted, PTL

(* msg.c implements MsgQueue: with every sleep, fault and retry, each call *)
(* takes effect at one step, sends only where there is room, receives the  *)
(* message its type selects and removes a queue with all that is on it.    *)
THEOREM ImplementsMsgQueueAlways == Spec => ImplementsMsgQueue
<1>1. Init => Abstract!Init BY InitD
<1>2. DInv /\ [Next]_vars => [Abstract!Next]_avars BY NextD DEF Refined
<1> QED BY <1>1, <1>2, Accounted, PTL DEF Spec, ImplementsMsgQueue, Abstract!Spec, Abstract!avars, avars

-----------------------------------------------------------------------------
(***************************************************************************)
(* Writers.  A writer sleeps for room that is not there as long as nobody  *)
(* raises the limit of a queue: IPC_SET wakes nobody.                      *)
(***************************************************************************)
NoRaise == \A q \in Queue : perm[q].alloc => qbytes'[q] <= qbytes[q]

(* The others who are asleep afterwards slept before, for the same. *)
Calm(p) ==
    \A r \in Proc \ {p} :
        pc'[r] = "asleep" => pc[r] = "asleep" /\ chan'[r] = chan[r] /\ call'[r] = call[r]

(* A queue either gets no room, or its writers have been woken. *)
Fuller ==
    \A q \in Queue : ~wwait'[q] \/ (cbytes'[q] >= cbytes[q] /\ qbytes'[q] <= qbytes[q])

LEMMA WritersStep ==
    ASSUME IInv, IInv', WritersBlocked, Fuller, NEW p \in Proc, Calm(p),
           pc'[p] = "asleep" /\ chan'[p][1] = "qp" => ~HasRoom(p)'
    PROVE  WritersBlocked'
<1>1. ASSUME NEW r \in Proc, pc'[r] = "asleep", chan'[r][1] = "qp", r # p PROVE ~HasRoom(r)'
  <2>1. pc[r] = "asleep" /\ chan'[r] = chan[r] /\ call'[r] = call[r] BY <1>1 DEF Calm
  <2>2. ~HasRoom(r) BY <1>1, <2>1 DEF WritersBlocked
  <2>3. Q(r)' = Q(r) /\ Q(r) \in Queue BY <2>1, QType DEF Q, IInv
  <2>4. Sleeper(r)' BY <1>1 DEF IInv
  <2>5. wwait'[Q(r)]
    <3>1. chan'[r] = <<"qp", Q(r)'>> BY <1>1, <2>4 DEF Sleeper
    <3> QED BY <2>3, <2>4, <3>1 DEF Sleeper
  <2>6. cbytes'[Q(r)] >= cbytes[Q(r)] /\ qbytes'[Q(r)] <= qbytes[Q(r)]
    BY <2>3, <2>5 DEF Fuller
  <2>7. PICK x : x = Q(r) OBVIOUS
  <2>8. /\ cbytes[x] \in Int /\ cbytes'[x] \in Int /\ qbytes[x] \in Int /\ qbytes'[x] \in Int
        /\ call[r].size \in Int
    BY <2>3, <2>7 DEF IInv, ShareTypes, ProcTypes, CallType
  <2> QED BY <2>1, <2>2, <2>3, <2>6, <2>7, <2>8 DEF HasRoom
<1> QED BY <1>1 DEF WritersBlocked

(* Limits and bytes as they were. *)
LEMMA Level == ASSUME IInv, cbytes' = cbytes, qbytes' = qbytes PROVE Fuller
<1>1. \A q \in Queue : cbytes[q] \in Int /\ qbytes[q] \in Int BY DEF IInv, ShareTypes
<1> QED BY <1>1 DEF Fuller

LEMMA CalmEnds == ASSUME NEW p \in Proc, NEW to, NEW C, Ends(p, to, C) PROVE Calm(p) /\ pc'[p] = to
BY DEF Ends, Calm

(* p does not fall asleep for room. *)
LEMMA WritersOut ==
    ASSUME IInv, IInv', WritersBlocked, Fuller, NEW p \in Proc, NEW C, Out(p, C)
    PROVE  WritersBlocked'
<1>1. Ends(p, "user", C) BY OutEnds
<1>2. Calm(p) /\ pc'[p] = "user" BY <1>1, CalmEnds
<1> QED BY <1>2, WritersStep

LEMMA WritersRelock ==
    ASSUME IInv, IInv', WritersBlocked, cbytes' = cbytes, qbytes' = qbytes, NEW p \in Proc, Relock(p)
    PROVE  WritersBlocked'
<1>1. Ends(p, "conv", {}) BY RelockEnds
<1>2. Calm(p) /\ pc'[p] = "conv" BY <1>1, CalmEnds
<1> QED BY <1>2, Level, WritersStep

LEMMA WritersMove ==
    ASSUME IInv, IInv', WritersBlocked, cbytes' = cbytes, qbytes' = qbytes, NEW p \in Proc, NEW to,
           pc' = [pc EXCEPT ![p] = to], to # "asleep",
           \A r \in Proc \ {p} : call'[r] = call[r] /\ chan'[r] = chan[r]
    PROVE  WritersBlocked'
<1>1. pc \in [Proc -> Places] BY DEF IInv, ProcTypes
<1>2. Calm(p) /\ pc'[p] = to BY <1>1 DEF Calm
<1> QED BY <1>2, Level, WritersStep

LEMMA WritersSleep ==
    ASSUME IInv, IInv', WritersBlocked, cbytes' = cbytes, qbytes' = qbytes, NEW p \in Proc,
           NEW c \in Chan, NEW D, SleepOn(p, c, D), c[1] # "qp" \/ ~HasRoom(p)
    PROVE  WritersBlocked'
<1> DEFINE to == IF sig[p] THEN "woken" ELSE "asleep"
<1>1. Ends(p, to, D) /\ chan'[p] = c /\ call' = call BY SleepOnEnds
<1> HIDE DEF to
<1>2. Calm(p) BY <1>1, CalmEnds
<1>3. chan'[p][1] = "qp" => ~HasRoom(p)'
  <2>1. Q(p)' = Q(p) BY <1>1 DEF Q
  <2> QED BY <1>1, <2>1 DEF HasRoom
<1> QED BY <1>2, <1>3, Level, WritersStep

(* The calls, and what goes on outside the lock. *)
LEMMA WritersOutside ==
    ASSUME IInv, IInv', WritersBlocked, NEW p \in Proc,
           \/ Call(p) \/ ConvSleeps(p) \/ ConvLocks(p) \/ ConvFails(p) \/ Resume(p) \/ Signal(p)
    PROVE  WritersBlocked'
<1>0. ProcTypes /\ ShareTypes BY DEF IInv
<1>f. ASSUME Forget(p) PROVE \A r \in Proc \ {p} : call'[r] = call[r] /\ chan'[r] = chan[r]
  BY <1>0, <1>f DEF Forget, ProcTypes
<1>1. ASSUME NEW key \in Key, NEW creat \in BOOLEAN, Msgget(p, key, creat) PROVE WritersBlocked'
  <2>1. PICK x \in Queue : /\ qbytes' = [qbytes EXCEPT ![x] = MSGMNB]
                           /\ wwait' = [wwait EXCEPT ![x] = FALSE]
    BY <1>1 DEF Msgget
  <2>2. pc' = pc /\ chan' = chan /\ call' = call /\ cbytes' = cbytes /\ pc[p] = "user"
    BY <1>1 DEF Msgget, Enters
  <2>3. Fuller
    <3>1. ~wwait'[x] /\ \A q \in Queue \ {x} : qbytes'[q] = qbytes[q] BY <1>0, <2>1 DEF ShareTypes
    <3>2. \A q \in Queue : cbytes[q] \in Int /\ qbytes[q] \in Int BY <1>0 DEF ShareTypes
    <3> QED BY <2>2, <3>1, <3>2 DEF Fuller
  <2>4. Calm(p) BY <2>2 DEF Calm
  <2> QED BY <2>2, <2>3, <2>4, WritersStep
<1>2. ASSUME NEW id \in Msqid, NEW c \in Calls, Msgsys(p, id, c) PROVE WritersBlocked'
  <2> DEFINE n == [cmd |-> c.cmd, id |-> id, type |-> c.type, size |-> c.size,
                   nowait |-> c.nowait, trunc |-> c.trunc]
  <2>1. /\ pc' = [pc EXCEPT ![p] = "conv"] /\ call' = [call EXCEPT ![p] = n] /\ chan' = chan
        /\ cbytes' = cbytes /\ qbytes' = qbytes
    BY <1>2 DEF Msgsys, msgque
  <2> HIDE DEF n
  <2>2. \A r \in Proc \ {p} : call'[r] = call[r] /\ chan'[r] = chan[r] BY <1>0, <2>1 DEF ProcTypes
  <2> QED BY <2>1, <2>2, WritersMove
<1>3. CASE ConvSleeps(p)
  <2>1. cbytes' = cbytes /\ qbytes' = qbytes BY <1>3 DEF ConvSleeps, msgque
  <2>2. CASE sig[p] /\ pc' = [pc EXCEPT ![p] = "user"] /\ Forget(p) BY <1>f, <2>1, <2>2, WritersMove
  <2>3. CASE /\ pc' = [pc EXCEPT ![p] = "asleep"] /\ chan' = [chan EXCEPT ![p] = LockChan(p)]
             /\ call' = call
    <3>1. chan'[p] = LockChan(p) /\ Calm(p) BY <1>0, <2>3 DEF ProcTypes, Calm
    <3>2. chan'[p][1] = "lock" BY <3>1 DEF LockChan
    <3> QED BY <2>1, <3>1, <3>2, Level, WritersStep
  <2> QED BY <1>3, <2>2, <2>3 DEF ConvSleeps
<1>4. CASE ConvLocks(p)
  <2>1. /\ pc' = [pc EXCEPT ![p] = next[p]] /\ call' = call /\ chan' = chan
        /\ cbytes' = cbytes /\ qbytes' = qbytes
    BY <1>4 DEF ConvLocks, msgque
  <2>2. next[p] # "asleep" BY <1>0 DEF ProcTypes
  <2> QED BY <2>1, <2>2, WritersMove
<1>5. CASE ConvFails(p)
  <2>1. Out(p, {}) /\ cbytes' = cbytes /\ qbytes' = qbytes BY <1>5 DEF ConvFails, msgque
  <2> QED BY <2>1, Level, WritersOut
<1>6. CASE Resume(p)
  <2>1. cbytes' = cbytes /\ qbytes' = qbytes BY <1>6 DEF Resume, msgque
  <2>2. PICK to : pc' = [pc EXCEPT ![p] = to] /\ to \in {"user", "conv"}
    BY <1>6 DEF Resume
  <2>3. \A r \in Proc \ {p} : call'[r] = call[r] /\ chan'[r] = chan[r]
    BY <1>6, <1>f DEF Resume
  <2>4. to # "asleep" BY <2>2
  <2> QED BY <2>1, <2>2, <2>3, <2>4, WritersMove
<1>7. CASE Signal(p)
  <2> DEFINE to == IF pc[p] = "asleep" THEN "woken" ELSE pc[p]
  <2>1. /\ pc' = [pc EXCEPT ![p] = to] /\ call' = call /\ chan' = chan
        /\ cbytes' = cbytes /\ qbytes' = qbytes
    BY <1>7 DEF Signal, msgque
  <2>2. to # "asleep" OBVIOUS
  <2> HIDE DEF to
  <2> QED BY <2>1, <2>2, WritersMove
<1> QED BY <1>1, <1>2, <1>3, <1>4, <1>5, <1>6, <1>7 DEF Call

(* A page fault. *)
LEMMA WritersFault ==
    ASSUME IInv, IInv', WritersBlocked, NEW p \in Proc, NEW to, to # "asleep", Fault(p, to)
    PROVE  WritersBlocked'
<1>1. /\ pc' = [pc EXCEPT ![p] = to] /\ call' = call /\ chan' = chan
      /\ cbytes' = cbytes /\ qbytes' = qbytes
  BY DEF Fault, msgque
<1> QED BY <1>1, WritersMove

(* Sending.  Only SndNoRoom puts a process to sleep for room. *)
LEMMA WritersSnd ==
    ASSUME IInv, IInv', WritersBlocked, NEW p \in Proc,
           \/ SndFirst(p) \/ Typein(p) \/ SndNoRoom(p) \/ SndNoHdr(p) \/ SndNoSegs(p)
           \/ SndTakes(p) \/ SndText(p) \/ Textin(p) \/ Eintr(p) \/ FirstFails(p)
    PROVE  WritersBlocked'
<1>0. ProcTypes /\ ShareTypes /\ Q(p) \in Queue BY QType DEF IInv
<1>c. <<"qp", Q(p)>> \in Chan /\ <<"msgfp", 0>> \in Chan /\ <<"msgmap", 0>> \in Chan
  BY <1>0 DEF Chan
<1>1. CASE SndFirst(p)
  <2>1. CASE Fault(p, "typein") BY <2>1, WritersFault
  <2>2. CASE Relock(p) /\ UNCHANGED <<msgque, mq, pool>> BY <2>2, WritersRelock DEF msgque
  <2> QED BY <1>1, <2>1, <2>2 DEF SndFirst
<1>2. CASE Typein(p)
  <2>1. cbytes' = cbytes /\ qbytes' = qbytes BY <1>2 DEF Typein, msgque
  <2>2. Relock(p) \/ Out(p, {}) BY <1>2 DEF Typein
  <2> QED BY <2>1, <2>2, Level, WritersRelock, WritersOut
<1>3. CASE SndNoRoom(p)
  <2>1. /\ ~HasRoom(p) /\ cbytes' = cbytes /\ qbytes' = qbytes
        /\ Out(p, {}) \/ SleepOn(p, <<"qp", Q(p)>>, {})
    BY <1>3 DEF SndNoRoom
  <2> QED BY <1>c, <2>1, Level, WritersSleep, WritersOut
<1>4. CASE SndNoHdr(p)
  <2>1. /\ cbytes' = cbytes /\ qbytes' = qbytes
        /\ Out(p, {}) \/ SleepOn(p, <<"msgfp", 0>>, {})
    BY <1>4 DEF SndNoHdr, msgque
  <2>2. <<"msgfp", 0>>[1] # "qp" OBVIOUS
  <2> QED BY <1>c, <2>1, <2>2, Level, WritersSleep, WritersOut
<1>5. CASE SndNoSegs(p)
  <2> DEFINE C == IF msgfp = 1 THEN {<<"msgfp", 0>>} ELSE {}
  <2>1. /\ cbytes' = cbytes /\ qbytes' = qbytes
        /\ Out(p, C) \/ SleepOn(p, <<"msgmap", 0>>, C)
    BY <1>5 DEF SndNoSegs, msgque
  <2>2. <<"msgmap", 0>>[1] # "qp" OBVIOUS
  <2> HIDE DEF C
  <2> QED BY <1>c, <2>1, <2>2, Level, WritersSleep, WritersOut
<1>6. CASE SndTakes(p)
  <2>1. /\ pc' = [pc EXCEPT ![p] = "text"] /\ call' = call /\ chan' = chan
        /\ cbytes' = cbytes /\ qbytes' = qbytes
    BY <1>6 DEF SndTakes, msgque
  <2> QED BY <2>1, WritersMove
<1>7. CASE SndText(p) \/ Textin(p)
  <2>1. CASE Fault(p, "textin") BY <2>1, WritersFault
  <2>2. CASE CopyinFails(p)
    <3>1. PICK C : Out(p, C) BY <2>2 DEF CopyinFails
    <3>2. cbytes' = cbytes /\ qbytes' = qbytes BY <2>2 DEF CopyinFails, msgque
    <3> QED BY <3>1, <3>2, Level, WritersOut
  <2>3. CASE Enqueue(p)
    <3>x. PICK x, n : x = Q(p) /\ n = call[p].size OBVIOUS
    <3>1. PICK C : Out(p, C) BY <2>3 DEF Enqueue
    <3>2. cbytes' = [cbytes EXCEPT ![x] = cbytes[x] + n] /\ qbytes' = qbytes
      BY <2>3, <3>x DEF Enqueue
    <3>3. \A q \in Queue : cbytes[q] \in Int /\ qbytes[q] \in Int /\ n \in Nat
      BY <1>0, <3>x DEF ShareTypes, ProcTypes, CallType
    <3>4. \A q \in Queue : cbytes'[q] = IF q = x THEN cbytes[x] + n ELSE cbytes[q]
      BY <1>0, <3>2 DEF ShareTypes
    <3>5. Fuller BY <3>2, <3>3, <3>4 DEF Fuller
    <3> QED BY <3>1, <3>5, WritersOut
  <2> QED BY <1>7, <2>1, <2>2, <2>3 DEF SndText, Textin
<1>8. CASE Eintr(p)
  <2>1. PICK C : Out(p, C) BY <1>8 DEF Eintr
  <2>2. cbytes' = cbytes /\ qbytes' = qbytes BY <1>8 DEF Eintr
  <2> QED BY <2>1, <2>2, Level, WritersOut
<1>9. CASE FirstFails(p)
  <2>1. Out(p, {}) /\ cbytes' = cbytes /\ qbytes' = qbytes BY <1>9 DEF FirstFails, msgque
  <2> QED BY <2>1, Level, WritersOut
<1> QED BY <1>1, <1>2, <1>3, <1>4, <1>5, <1>6, <1>7, <1>8, <1>9

(* Receiving.  Who makes room wakes the writers. *)
LEMMA WritersRcv ==
    ASSUME IInv, IInv', WritersBlocked, NEW p \in Proc,
           RcvFirst(p) \/ RcvNone(p) \/ RcvTooBig(p) \/ RcvFinds(p) \/ RcvCopyout(p) \/ Textout(p)
    PROVE  WritersBlocked'
<1>0. ProcTypes /\ ShareTypes /\ Q(p) \in Queue BY QType DEF IInv
<1>c. <<"qnum", Q(p)>> \in Chan /\ <<"qnum", Q(p)>>[1] # "qp" BY <1>0 DEF Chan
<1>1. CASE RcvFirst(p)
  <2>1. Relock(p) /\ cbytes' = cbytes /\ qbytes' = qbytes BY <1>1 DEF RcvFirst, msgque
  <2> QED BY <2>1, WritersRelock
<1>2. CASE RcvNone(p)
  <2>1. /\ cbytes' = cbytes /\ qbytes' = qbytes
        /\ Out(p, {}) \/ SleepOn(p, <<"qnum", Q(p)>>, {})
    BY <1>2 DEF RcvNone
  <2> QED BY <1>c, <2>1, Level, WritersSleep, WritersOut
<1>3. CASE RcvTooBig(p)
  <2>1. Out(p, {}) /\ cbytes' = cbytes /\ qbytes' = qbytes BY <1>3 DEF RcvTooBig, msgque
  <2> QED BY <2>1, Level, WritersOut
<1>4. CASE RcvFinds(p)
  <2>1. /\ pc' = [pc EXCEPT ![p] = "copyout"] /\ call' = call /\ chan' = chan
        /\ cbytes' = cbytes /\ qbytes' = qbytes
    BY <1>4 DEF RcvFinds, msgque
  <2> QED BY <2>1, WritersMove
<1>5. CASE RcvCopyout(p) \/ Textout(p)
  <2>1. CASE Fault(p, "textout") BY <2>1, WritersFault
  <2>2. CASE CopyoutFails(p)
    <3>1. Out(p, {}) /\ cbytes' = cbytes /\ qbytes' = qbytes BY <2>2 DEF CopyoutFails, msgque
    <3> QED BY <3>1, Level, WritersOut
  <2>3. CASE Dequeue(p)
    <3>x. PICK x, n : x = Q(p) /\ n = mq[x][held[p]].size OBVIOUS
    <3>1. PICK C : Out(p, C) BY <2>3 DEF Dequeue
    <3>2. /\ cbytes' = [cbytes EXCEPT ![x] = cbytes[x] - n] /\ qbytes' = qbytes
          /\ wwait' = [wwait EXCEPT ![x] = FALSE]
      BY <2>3, <3>x DEF Dequeue
    <3>3. /\ \A q \in Queue : cbytes[q] \in Int /\ qbytes[q] \in Int
          /\ \A q \in Queue \ {x} : cbytes'[q] = cbytes[q]
          /\ ~wwait'[x]
      BY <1>0, <3>2, <3>x DEF ShareTypes
    <3>5. Fuller BY <3>2, <3>3 DEF Fuller
    <3> QED BY <3>1, <3>5, WritersOut
  <2> QED BY <1>5, <2>1, <2>2, <2>3 DEF RcvCopyout, Textout
<1> QED BY <1>1, <1>2, <1>3, <1>4, <1>5

(* msgctl: here the limit must not be raised. *)
LEMMA WritersCtl ==
    ASSUME IInv, IInv', WritersBlocked, NoRaise, NEW p \in Proc,
           \/ RmidFirst(p) \/ RmidFree(p) \/ RmidDone(p) \/ SetFirst(p) \/ Setin(p)
           \/ StatFirst(p) \/ Statout(p)
    PROVE  WritersBlocked'
<1>0. ProcTypes /\ ShareTypes /\ Q(p) \in Queue BY QType DEF IInv
<1>1. CASE RmidFirst(p)
  <2>1. /\ pc' = [pc EXCEPT ![p] = "rmid"] /\ call' = call /\ chan' = chan
        /\ cbytes' = cbytes /\ qbytes' = qbytes
    BY <1>1 DEF RmidFirst, msgque
  <2> QED BY <2>1, WritersMove
<1>2. CASE RmidFree(p)
  <2>x. PICK C : C = FreeWakes(Q(p), 1) OBVIOUS
  <2>1. /\ Moves(p, "rmid", C) /\ call' = call /\ chan' = chan
        /\ cbytes' = cbytes /\ qbytes' = qbytes
    BY <1>2, <2>x DEF RmidFree
  <2>2. "rmid" \in Places BY PlainPlaces
  <2>3. /\ pc'[p] = "rmid"
        /\ \A r \in Proc \ {p} : pc'[r] = pc[r] \/ (pc[r] = "asleep" /\ pc'[r] = "woken")
    BY <1>0, <2>1, <2>2, MovesTypes
  <2>4. Calm(p) BY <2>1, <2>3 DEF Calm
  <2> QED BY <2>1, <2>3, <2>4, Level, WritersStep
<1>3. CASE RmidDone(p)
  <2>x. PICK x : x = Q(p) OBVIOUS
  <2>1. PICK C : Out(p, C) BY <1>3 DEF RmidDone
  <2>2. /\ cbytes' = [cbytes EXCEPT ![x] = 0] /\ qbytes' = qbytes
        /\ wwait' = [wwait EXCEPT ![x] = FALSE]
    BY <1>3, <2>x DEF RmidDone, RmidBytes
  <2>3. /\ \A q \in Queue : cbytes[q] \in Int /\ qbytes[q] \in Int
        /\ \A q \in Queue \ {x} : cbytes'[q] = cbytes[q]
        /\ ~wwait'[x]
    BY <1>0, <2>2, <2>x DEF ShareTypes
  <2>5. Fuller BY <2>2, <2>3 DEF Fuller
  <2> QED BY <2>1, <2>5, WritersOut
<1>4. CASE SetFirst(p) \/ Setin(p)
  <2>1. CASE Fault(p, "setin") BY <2>1, WritersFault
  <2>2. CASE Out(p, {}) /\ UNCHANGED <<msgque, mq, pool>>
    <3>1. Out(p, {}) /\ cbytes' = cbytes /\ qbytes' = qbytes BY <2>2 DEF msgque
    <3> QED BY <3>1, Level, WritersOut
  <2>3. CASE SetLimit(p)
    <3>x. PICK x, n : x = Q(p) /\ n = call[p].size OBVIOUS
    <3>1. Out(p, {}) /\ qbytes' = [qbytes EXCEPT ![x] = n] /\ cbytes' = cbytes
      BY <2>3, <3>x DEF SetLimit
    <3>2. pc[p] \in {"first", "setin"} BY <1>4 DEF SetFirst, Setin, Running
    <3>3. perm[x].alloc BY <3>2, <3>x, InUse, LockedPlaces
    <3>4. \A q \in Queue : cbytes[q] \in Int /\ qbytes[q] \in Int BY <1>0 DEF ShareTypes
    <3>5. \A q \in Queue \ {x} : qbytes'[q] = qbytes[q] BY <1>0, <3>1 DEF ShareTypes
    <3>6. qbytes'[x] <= qbytes[x] BY <1>0, <3>3, <3>x DEF NoRaise
    <3>7. Fuller BY <3>1, <3>4, <3>5, <3>6 DEF Fuller
    <3> QED BY <3>1, <3>7, WritersOut
  <2> QED BY <1>4, <2>1, <2>2, <2>3 DEF SetFirst, Setin
<1>5. CASE StatFirst(p) \/ Statout(p)
  <2>1. CASE Fault(p, "statout") BY <2>1, WritersFault
  <2>2. CASE Out(p, {}) /\ UNCHANGED <<msgque, mq, pool>>
    <3>1. Out(p, {}) /\ cbytes' = cbytes /\ qbytes' = qbytes BY <2>2 DEF msgque
    <3> QED BY <3>1, Level, WritersOut
  <2> QED BY <1>5, <2>1, <2>2 DEF StatFirst, Statout
<1> QED BY <1>1, <1>2, <1>3, <1>4, <1>5

LEMMA NextWriters == IInv /\ WritersBlocked /\ [Next]_vars /\ [NoRaise]_vars => WritersBlocked'
<1> SUFFICES ASSUME IInv, WritersBlocked, [Next]_vars, [NoRaise]_vars PROVE WritersBlocked'
  OBVIOUS
<1>1. IInv' BY NextIInv
<1>2. CASE UNCHANGED vars
  BY <1>2 DEF vars, msgque, WritersBlocked, HasRoom, Q
<1>3. ASSUME NoRaise, NEW p \in Proc, Call(p) \/ Step(p) \/ Continue(p) \/ Signal(p)
      PROVE  WritersBlocked'
  <2>1. CASE Call(p) \/ Signal(p) BY <1>1, <2>1, WritersOutside
  <2>2. CASE Step(p) BY <1>1, <1>3, <2>2, WritersOutside, WritersSnd, WritersRcv, WritersCtl DEF Step
  <2>3. CASE Continue(p) BY <1>1, <1>3, <2>3, WritersOutside, WritersSnd, WritersRcv, WritersCtl DEF Continue
  <2> QED BY <1>3, <2>1, <2>2, <2>3
<1> QED BY <1>2, <1>3 DEF Next

(* As long as no IPC_SET raises the limit of a queue in use, a writer      *)
(* sleeps only while its message does not fit: whoever takes messages off  *)
(* wakes it.  (An IPC_SET that raises the limit does not: see MCMsgRaise.) *)
THEOREM WritersWaitForRoom == Spec /\ [][NoRaise]_vars => []WritersBlocked
<1>1. Init => WritersBlocked BY DEF Init, WritersBlocked
<1> QED BY <1>1, NextWriters, Inductive, PTL DEF Spec

-----------------------------------------------------------------------------
(***************************************************************************)
(* Segments.  A unit of msgmap is free, in the text of the k-th message of *)
(* queue q, or in the text that sender p is copying in.                    *)
(***************************************************************************)
Spare(u)         == u \in FreeUnits(msgmap)
Queued(u, q, k)  == /\ q \in Queue /\ k \in 1 .. Len(mq[q])
                    /\ u \in Segs(mq[q][k].size, mq[q][k].spot)
Filling(u, p)    == p \in Fillers /\ u \in TextBy(p)

Packed ==
    /\ \A u : u \in 1 .. MSGSEG <=>
          Spare(u) \/ (\E q, k : Queued(u, q, k)) \/ (\E p : Filling(u, p))
    /\ \A u, q, k : Queued(u, q, k) =>
          /\ ~Spare(u) /\ \A p : ~Filling(u, p)
          /\ \A r, j : Queued(u, r, j) => r = q /\ j = k
    /\ \A u, p : Filling(u, p) => ~Spare(u) /\ \A r : Filling(u, r) => r = p

(* SegmentsConserved, unit by unit. *)
PackedIs == Packed <=> SegmentsConserved

LEMMA PackedUnits == PackedIs
<1> DEFINE A == UNION {TextOf(x) : x \in Texts}
           B == UNION {TextBy(p) : p \in Fillers}
<1>1. \A x : x \in Texts <=> \E q \in Queue : \E k \in 1 .. Len(mq[q]) : x = <<q, k>> BY DEF Texts
<1>2. \A u, q, k : Queued(u, q, k) <=> <<q, k>> \in Texts /\ u \in TextOf(<<q, k>>)
  BY <1>1 DEF Queued, TextOf
<1>3. \A u, p : Filling(u, p) <=> p \in Fillers /\ u \in TextBy(p) BY DEF Filling
<1>4. \A x \in Texts : \E q, k : x = <<q, k>> BY <1>1
<1>5. SegmentsConserved <=>
        /\ FreeUnits(msgmap) \cup A \cup B = 1 .. MSGSEG
        /\ \A x \in Texts : TextOf(x) \cap FreeUnits(msgmap) = {}
        /\ \A x, y \in Texts : x # y => TextOf(x) \cap TextOf(y) = {}
        /\ \A p \in Fillers : /\ TextBy(p) \cap FreeUnits(msgmap) = {}
                              /\ \A x \in Texts : TextOf(x) \cap TextBy(p) = {}
                              /\ \A r \in Fillers : r # p => TextBy(r) \cap TextBy(p) = {}
  BY DEF SegmentsConserved
<1>6. \A u : u \in A <=> \E q, k : Queued(u, q, k)
  <2>1. \A u : u \in A <=> \E x \in Texts : u \in TextOf(x) OBVIOUS
  <2> HIDE DEF A
  <2>2. ASSUME NEW u \in A PROVE \E q, k : Queued(u, q, k)
    <3>1. PICK x \in Texts : u \in TextOf(x) BY <2>1
    <3>2. PICK q, k : x = <<q, k>> BY <1>4
    <3> QED BY <1>2, <3>1, <3>2
  <2>3. ASSUME NEW u, NEW q, NEW k, Queued(u, q, k) PROVE u \in A BY <1>2, <2>1, <2>3
  <2> QED BY <2>2, <2>3
<1>7. \A u : u \in B <=> \E p : Filling(u, p)
  <2>1. \A u : u \in B <=> \E p \in Fillers : u \in TextBy(p) OBVIOUS
  <2> HIDE DEF B
  <2> QED BY <1>3, <2>1
<1> HIDE DEF A, B
<1>8. FreeUnits(msgmap) \cup A \cup B = 1 .. MSGSEG <=>
        \A u : u \in 1 .. MSGSEG <=>
          Spare(u) \/ (\E q, k : Queued(u, q, k)) \/ (\E p : Filling(u, p))
  BY <1>6, <1>7 DEF Spare
<1>9. (\A x \in Texts : TextOf(x) \cap FreeUnits(msgmap) = {}) <=>
        \A u, q, k : Queued(u, q, k) => ~Spare(u)
  BY <1>2, <1>4 DEF Spare
<1>10. (\A x, y \in Texts : x # y => TextOf(x) \cap TextOf(y) = {}) <=>
        \A u, q, k, r, j : Queued(u, q, k) /\ Queued(u, r, j) => r = q /\ j = k
  <2>1. ASSUME \A x, y \in Texts : x # y => TextOf(x) \cap TextOf(y) = {},
               NEW u, NEW q, NEW k, NEW r, NEW j, Queued(u, q, k), Queued(u, r, j)
        PROVE  r = q /\ j = k
    <3>1. <<q, k>> \in Texts /\ <<r, j>> \in Texts /\ u \in TextOf(<<q, k>>) \cap TextOf(<<r, j>>)
      BY <1>2, <2>1
    <3>2. <<q, k>> = <<r, j>> BY <2>1, <3>1
    <3> QED BY <3>2
  <2>2. ASSUME \A u, q, k, r, j : Queued(u, q, k) /\ Queued(u, r, j) => r = q /\ j = k,
               NEW x \in Texts, NEW y \in Texts, x # y
        PROVE  TextOf(x) \cap TextOf(y) = {}
    <3>1. PICK q, k : x = <<q, k>> BY <1>4
    <3>2. PICK r, j : y = <<r, j>> BY <1>4
    <3>3. ASSUME NEW u \in TextOf(x) \cap TextOf(y) PROVE FALSE
      <4>1. Queued(u, q, k) /\ Queued(u, r, j) BY <1>2, <3>1, <3>2, <3>3
      <4> QED BY <2>2, <3>1, <3>2, <4>1
    <3> QED BY <3>3
  <2> QED BY <2>1, <2>2
<1>11. (\A p \in Fillers : TextBy(p) \cap FreeUnits(msgmap) = {}) <=>
        \A u, p : Filling(u, p) => ~Spare(u)
  BY <1>3 DEF Spare
<1>12. (\A p \in Fillers : \A x \in Texts : TextOf(x) \cap TextBy(p) = {}) <=>
        \A u, q, k, p : Queued(u, q, k) => ~Filling(u, p)
  <2>1. ASSUME \A p \in Fillers : \A x \in Texts : TextOf(x) \cap TextBy(p) = {},
               NEW u, NEW q, NEW k, NEW p, Queued(u, q, k), Filling(u, p)
        PROVE  FALSE
    BY <1>2, <1>3, <2>1
  <2>2. ASSUME \A u, q, k, p : Queued(u, q, k) => ~Filling(u, p),
               NEW p \in Fillers, NEW x \in Texts, NEW u \in TextOf(x) \cap TextBy(p)
        PROVE  FALSE
    <3>1. PICK q, k : x = <<q, k>> BY <1>4
    <3> QED BY <1>2, <1>3, <2>2, <3>1
  <2> QED BY <2>1, <2>2
<1>13. (\A p \in Fillers : \A r \in Fillers : r # p => TextBy(r) \cap TextBy(p) = {}) <=>
        \A u, p, r : Filling(u, p) /\ Filling(u, r) => r = p
  BY <1>3
<1> QED BY <1>5, <1>8, <1>9, <1>10, <1>11, <1>12, <1>13 DEF PackedIs, Packed

-----------------------------------------------------------------------------
(* Which units move in a step, and that they stay packed. *)
LEMMA PackedSame ==
    ASSUME Packed, \A u : Spare(u)' <=> Spare(u),
           \A u, q, k : Queued(u, q, k)' <=> Queued(u, q, k),
           \A u, p : Filling(u, p)' <=> Filling(u, p)
    PROVE  Packed'
BY DEF Packed

LEMMA PackedTakes ==
    ASSUME Packed, NEW p, \A u : Filling(u, p)' => Spare(u),
           \A u : ~Filling(u, p),
           \A u : Spare(u)' <=> Spare(u) /\ ~Filling(u, p)',
           \A u, q, k : Queued(u, q, k)' <=> Queued(u, q, k),
           \A u, r : r # p => (Filling(u, r)' <=> Filling(u, r))
    PROVE  Packed'
<1>1. \A u : u \in 1 .. MSGSEG <=>
          Spare(u)' \/ (\E q, k : Queued(u, q, k)') \/ (\E r : Filling(u, r)')
  BY DEF Packed
<1>2. ASSUME NEW u, NEW q, NEW k, Queued(u, q, k)'
      PROVE  /\ ~Spare(u)' /\ \A r : ~Filling(u, r)'
             /\ \A r, j : Queued(u, r, j)' => r = q /\ j = k
  BY <1>2 DEF Packed
<1>3. ASSUME NEW u, NEW r, Filling(u, r)', NEW s, Filling(u, s)' PROVE ~Spare(u)' /\ s = r
  BY <1>3 DEF Packed
<1> QED BY <1>1, <1>2, <1>3 DEF Packed

LEMMA PackedGives ==
    ASSUME Packed, NEW p, \A u : ~Filling(u, p)',
           \A u : Spare(u)' <=> Spare(u) \/ Filling(u, p),
           \A u, q, k : Queued(u, q, k)' <=> Queued(u, q, k),
           \A u, r : r # p => (Filling(u, r)' <=> Filling(u, r))
    PROVE  Packed'
<1>1. \A u : u \in 1 .. MSGSEG <=>
          Spare(u)' \/ (\E q, k : Queued(u, q, k)') \/ (\E r : Filling(u, r)')
  BY DEF Packed
<1>2. ASSUME NEW u, NEW q, NEW k, Queued(u, q, k)'
      PROVE  /\ ~Spare(u)' /\ \A r : ~Filling(u, r)'
             /\ \A r, j : Queued(u, r, j)' => r = q /\ j = k
  BY <1>2 DEF Packed
<1>3. ASSUME NEW u, NEW r, Filling(u, r)', NEW s, Filling(u, s)' PROVE ~Spare(u)' /\ s = r
  BY <1>3 DEF Packed
<1> QED BY <1>1, <1>2, <1>3 DEF Packed

(* The text of p becomes that of message n of queue x. *)
LEMMA PackedQueues ==
    ASSUME Packed, NEW p, NEW x, NEW n, \A u : ~Filling(u, p)', \A u : ~Queued(u, x, n),
           \A u : Spare(u)' <=> Spare(u),
           \A u : Queued(u, x, n)' <=> Filling(u, p),
           \A u, q, k : ~(q = x /\ k = n) => (Queued(u, q, k)' <=> Queued(u, q, k)),
           \A u, r : r # p => (Filling(u, r)' <=> Filling(u, r))
    PROVE  Packed'
<1>1. \A u : u \in 1 .. MSGSEG <=>
          Spare(u)' \/ (\E q, k : Queued(u, q, k)') \/ (\E r : Filling(u, r)')
  <2>1. ASSUME NEW u PROVE (\E q, k : Queued(u, q, k)') \/ (\E r : Filling(u, r)') <=>
                           (\E q, k : Queued(u, q, k)) \/ (\E r : Filling(u, r))
    OBVIOUS
  <2> QED BY <2>1 DEF Packed
<1>2. ASSUME NEW u, NEW q, NEW k, Queued(u, q, k)'
      PROVE  /\ ~Spare(u)' /\ \A r : ~Filling(u, r)'
             /\ \A r, j : Queued(u, r, j)' => r = q /\ j = k
  <2>1. CASE q = x /\ k = n
    <3>1. Filling(u, p) BY <1>2, <2>1
    <3>2. /\ ~Spare(u) /\ (\A r : Filling(u, r) => r = p) /\ (\A r, j : ~Queued(u, r, j))
      BY <3>1 DEF Packed
    <3> QED BY <2>1, <3>2
  <2>2. CASE ~(q = x /\ k = n)
    <3>1. Queued(u, q, k) BY <1>2, <2>2
    <3>2. /\ ~Spare(u) /\ (\A r : ~Filling(u, r))
          /\ (\A r, j : Queued(u, r, j) => r = q /\ j = k)
      BY <3>1 DEF Packed
    <3> QED BY <2>2, <3>2
  <2> QED BY <2>1, <2>2
<1>3. ASSUME NEW u, NEW r, Filling(u, r)', NEW s, Filling(u, s)' PROVE ~Spare(u)' /\ s = r
  BY <1>3 DEF Packed
<1> QED BY <1>1, <1>2, <1>3 DEF Packed

(* Message i of the n on queue x is freed, and those behind it move up. *)
Behind(j, i) == IF j < i THEN j ELSE j + 1

LEMMA PackedFrees ==
    ASSUME Packed, NEW x, NEW n \in Nat, NEW i \in 1 .. n,
           \A u, k : Queued(u, x, k) => k \in 1 .. n,
           \A u : Spare(u)' <=> Spare(u) \/ Queued(u, x, i),
           \A u, q, k : q # x => (Queued(u, q, k)' <=> Queued(u, q, k)),
           \A u, k : Queued(u, x, k)' <=> k \in 1 .. n - 1 /\ Queued(u, x, Behind(k, i)),
           \A u, p : Filling(u, p)' <=> Filling(u, p)
    PROVE  Packed'
<1>0. ASSUME NEW k \in 1 .. n - 1, NEW j \in 1 .. n - 1, Behind(k, i) = Behind(j, i) PROVE k = j
  BY <1>0 DEF Behind
<1>a. \A k \in 1 .. n - 1 : Behind(k, i) # i BY DEF Behind
<1>b. ASSUME NEW j \in 1 .. n, j # i PROVE \E k \in 1 .. n - 1 : Behind(k, i) = j
  <2>1. CASE j < i BY <2>1 DEF Behind
  <2>2. CASE j > i
    <3>1. j - 1 \in 1 .. n - 1 /\ Behind(j - 1, i) = j BY <2>2 DEF Behind
    <3> QED BY <3>1
  <2> QED BY <1>b, <2>1, <2>2
<1>c. \A u, q, k : Queued(u, q, k)' => \E j : Queued(u, q, j) OBVIOUS
<1>1. ASSUME NEW u PROVE u \in 1 .. MSGSEG <=>
          Spare(u)' \/ (\E q, k : Queued(u, q, k)') \/ (\E p : Filling(u, p)')
  <2>1. ASSUME NEW q, NEW k, Queued(u, q, k) PROVE Spare(u)' \/ \E j : Queued(u, q, j)'
    <3>1. CASE q # x BY <2>1, <3>1
    <3>2. CASE q = x /\ k = i BY <2>1, <3>2
    <3>3. CASE q = x /\ k # i
      <4>1. k \in 1 .. n BY <2>1, <3>3
      <4>2. PICK j \in 1 .. n - 1 : Behind(j, i) = k BY <1>b, <3>3, <4>1
      <4> QED BY <2>1, <3>3, <4>2
    <3> QED BY <3>1, <3>2, <3>3
  <2>2. u \in 1 .. MSGSEG <=>
          Spare(u) \/ (\E q, k : Queued(u, q, k)) \/ (\E p : Filling(u, p))
    BY DEF Packed
  <2> QED BY <1>c, <2>1, <2>2
<1>2. ASSUME NEW u, NEW q, NEW k, Queued(u, q, k)'
      PROVE  /\ ~Spare(u)' /\ \A r : ~Filling(u, r)'
             /\ \A r, j : Queued(u, r, j)' => r = q /\ j = k
  <2> DEFINE old == IF q = x THEN Behind(k, i) ELSE k
  <2>1. Queued(u, q, old) BY <1>2
  <2>2. /\ ~Spare(u) /\ (\A r : ~Filling(u, r))
        /\ (\A r, j : Queued(u, r, j) => r = q /\ j = old)
    <3> HIDE DEF old
    <3> QED BY <2>1 DEF Packed
  <2>3. ~Queued(u, x, i)
    <3>1. q = x => old # i BY <1>2, <1>a
    <3> HIDE DEF old
    <3> QED BY <2>2, <3>1
  <2>4. ASSUME NEW r, NEW j, Queued(u, r, j)' PROVE r = q /\ j = k
    <3>1. CASE r = x
      <4>1. j \in 1 .. n - 1 /\ Queued(u, x, Behind(j, i)) BY <2>4, <3>1
      <4>2. x = q /\ Behind(j, i) = old
        <5> HIDE DEF old
        <5> QED BY <2>2, <4>1
      <4>3. k \in 1 .. n - 1 BY <1>2, <4>2
      <4> QED BY <1>0, <3>1, <4>1, <4>2, <4>3
    <3>2. CASE r # x
      <4>1. Queued(u, r, j) BY <2>4, <3>2
      <4>2. r = q /\ j = old
        <5> HIDE DEF old
        <5> QED BY <2>2, <4>1
      <4> QED BY <3>2, <4>2
    <3> QED BY <3>1, <3>2
  <2> QED BY <2>2, <2>3, <2>4
<1>3. ASSUME NEW u, NEW r, Filling(u, r)', NEW s, Filling(u, s)' PROVE ~Spare(u)' /\ s = r
  BY <1>3 DEF Packed
<1> QED BY <1>1, <1>2, <1>3 DEF Packed

-----------------------------------------------------------------------------
SegInv == Ordered(msgmap) /\ Packed

(* No message, if it were freed now, would find msgmap full. *)
Roomy ==
    /\ \A q \in Queue : \A k \in 1 .. Len(mq[q]) :
          ~Overflows(msgmap, Btoq(mq[q][k].size), mq[q][k].spot)
    /\ \A p \in Fillers : ~Overflows(msgmap, Btoq(call[p].size), held[p])

(* The other senders go on with what they have. *)
Hands(p) ==
    \A r \in Proc \ {p} : pc[r] \in {"text", "textin"} \/ pc'[r] \in {"text", "textin"} =>
        pc'[r] \in {"text", "textin"} /\ pc[r] \in {"text", "textin"}
        /\ call'[r] = call[r] /\ held'[r] = held[r]

LEMMA HandsEnds == ASSUME NEW p \in Proc, NEW to, NEW C, Ends(p, to, C) PROVE Hands(p) /\ pc'[p] = to
BY DEF Ends, Hands

LEMMA HandsFill ==
    ASSUME NEW p \in Proc, Hands(p) PROVE \A u, r : r # p => (Filling(u, r)' <=> Filling(u, r))
<1>1. ASSUME NEW r, r # p PROVE r \in Fillers' <=> r \in Fillers BY <1>1 DEF Hands, Fillers
<1>2. ASSUME NEW r, r # p, r \in Fillers PROVE call'[r] = call[r] /\ held'[r] = held[r]
  BY <1>2 DEF Hands, Fillers
<1>3. ASSUME NEW u, NEW r, r # p PROVE Filling(u, r)' <=> Filling(u, r)
  <2>1. CASE r \in Fillers
    <3>1. TextBy(r)' = TextBy(r) BY <1>2, <1>3, <2>1 DEF TextBy
    <3> QED BY <1>1, <1>3, <2>1, <3>1 DEF Filling
  <2>2. CASE r \notin Fillers BY <1>1, <1>3, <2>2 DEF Filling
  <2> QED BY <2>1, <2>2
<1> QED BY <1>3

(* Queues and map, as they are after the step. *)
LEMMA QueuedPrime ==
    ASSUME NEW u, NEW q, NEW k
    PROVE  Queued(u, q, k)' <=> /\ q \in Queue /\ k \in 1 .. Len(mq'[q])
                                /\ u \in Segs(mq'[q][k].size, mq'[q][k].spot)
BY DEF Queued

LEMMA MapPrime ==
    ASSUME NEW m, m = msgmap'
    PROVE  /\ \A u : Spare(u)' <=> u \in FreeUnits(m)
           /\ Ordered(msgmap)' <=> Ordered(m)
BY DEF Spare, FreeUnits, Ordered, Used, Live, Extent

(* A step of p that moves no segments. *)
LEMMA SegKeep ==
    ASSUME IInv, SegInv, NEW p \in Proc, Hands(p), mq' = mq, msgmap' \in {msgmap, Want(msgmap)},
           pc[p] \in {"text", "textin"} <=> pc'[p] \in {"text", "textin"},
           pc[p] \in {"text", "textin"} => call'[p] = call[p] /\ held'[p] = held[p]
    PROVE  SegInv'
<1>1. PICK m : m = msgmap' OBVIOUS
<1>2. Shape(msgmap) BY DEF IInv, ShareTypes
<1>3. FreeUnits(m) = FreeUnits(msgmap) /\ Ordered(m)
  <2>1. CASE m = msgmap BY <2>1 DEF SegInv
  <2>2. CASE m = Want(msgmap) BY <1>2, <2>2, WantUnits DEF SegInv
  <2> QED BY <1>1, <2>1, <2>2
<1>4. (\A u : Spare(u)' <=> Spare(u)) /\ Ordered(msgmap)' BY <1>1, <1>3, MapPrime DEF Spare
<1>5. \A u, q, k : Queued(u, q, k)' <=> Queued(u, q, k) BY QueuedPrime DEF Queued
<1>6. \A u : Filling(u, p)' <=> Filling(u, p)
  <2>1. p \in Fillers' <=> p \in Fillers BY DEF Fillers
  <2>2. p \in Fillers => TextBy(p)' = TextBy(p) BY DEF Fillers, TextBy
  <2> QED BY <2>1, <2>2 DEF Filling
<1>7. \A u, r : Filling(u, r)' <=> Filling(u, r) BY <1>6, HandsFill
<1>8. Packed' BY <1>4, <1>5, <1>7, PackedSame DEF SegInv
<1> QED BY <1>4, <1>8 DEF SegInv

(* Exits, sleeps and moves of processes that are not senders with text. *)
LEMMA SegOut ==
    ASSUME IInv, SegInv, NEW p \in Proc, NEW C, Out(p, C), pc[p] \notin {"text", "textin"},
           mq' = mq, msgmap' = msgmap
    PROVE  SegInv'
<1>1. Ends(p, "user", C) BY OutEnds
<1>2. Hands(p) /\ pc'[p] = "user" BY <1>1, HandsEnds
<1> QED BY <1>2, SegKeep

LEMMA SegSleep ==
    ASSUME IInv, SegInv, NEW p \in Proc, NEW c \in Chan, NEW D, SleepOn(p, c, D),
           pc[p] \notin {"text", "textin"}, mq' = mq, msgmap' \in {msgmap, Want(msgmap)}
    PROVE  SegInv'
<1> DEFINE to == IF sig[p] THEN "woken" ELSE "asleep"
<1>1. Ends(p, to, D) BY SleepOnEnds
<1>2. to \notin {"text", "textin"} OBVIOUS
<1> HIDE DEF to
<1>3. Hands(p) /\ pc'[p] = to BY <1>1, HandsEnds
<1> QED BY <1>2, <1>3, SegKeep

LEMMA SegRelock ==
    ASSUME IInv, SegInv, NEW p \in Proc, Relock(p), pc[p] \notin {"text", "textin"},
           mq' = mq, msgmap' = msgmap
    PROVE  SegInv'
<1>1. Ends(p, "conv", {}) BY RelockEnds
<1>2. Hands(p) /\ pc'[p] = "conv" BY <1>1, HandsEnds
<1> QED BY <1>2, SegKeep

LEMMA SegMove ==
    ASSUME IInv, SegInv, NEW p \in Proc, NEW to, pc' = [pc EXCEPT ![p] = to],
           \A r \in Proc \ {p} : call'[r] = call[r] /\ held'[r] = held[r],
           pc[p] \in {"text", "textin"} <=> to \in {"text", "textin"},
           pc[p] \in {"text", "textin"} => call'[p] = call[p] /\ held'[p] = held[p],
           mq' = mq, msgmap' = msgmap
    PROVE  SegInv'
<1>1. pc \in [Proc -> Places] BY DEF IInv, ProcTypes
<1>2. Hands(p) /\ pc'[p] = to BY <1>1 DEF Hands
<1> QED BY <1>2, SegKeep

LEMMA SegFault ==
    ASSUME IInv, SegInv, NEW p \in Proc, NEW to, Fault(p, to),
           pc[p] \in {"text", "textin"} <=> to \in {"text", "textin"}
    PROVE  SegInv'
<1>1. /\ pc' = [pc EXCEPT ![p] = to] /\ call' = call /\ held' = held /\ mq' = mq
      /\ msgmap' = msgmap
  BY DEF Fault, pool
<1> QED BY <1>1, SegMove

(* The calls, and what goes on outside the lock. *)
LEMMA SegOutside ==
    ASSUME DInv, SegInv, NEW p \in Proc,
           \/ Call(p) \/ ConvSleeps(p) \/ ConvLocks(p) \/ ConvFails(p) \/ Resume(p) \/ Signal(p)
    PROVE  SegInv'
<1>0. IInv /\ ProcTypes /\ ShareTypes BY DEF DInv, IInv
<1>f. ASSUME Forget(p) PROVE \A r \in Proc \ {p} : call'[r] = call[r] /\ held'[r] = held[r]
  BY <1>0, <1>f DEF Forget, ProcTypes
<1>1. ASSUME NEW key \in Key, NEW creat \in BOOLEAN, Msgget(p, key, creat) PROVE SegInv'
  <2>1. PICK x \in Queue : Creates(perm, key, creat, MSGMNI, x) /\ mq' = [mq EXCEPT ![x] = <<>>]
    BY <1>1 DEF Msgget
  <2>2. ~perm[x].alloc BY <2>1 DEF Creates, Unused
  <2>3. mq[x] = <<>> BY <2>2 DEF DInv, QueueInv
  <2>4. mq' = mq BY <1>0, <2>1, <2>3 DEF ShareTypes
  <2>5. pc' = pc /\ call' = call /\ held' = held /\ msgmap' = msgmap BY <1>1 DEF Msgget, pool
  <2>6. Hands(p) BY <2>5 DEF Hands
  <2> QED BY <1>0, <2>4, <2>5, <2>6, SegKeep
<1>2. ASSUME NEW id \in Msqid, NEW c \in Calls, Msgsys(p, id, c) PROVE SegInv'
  <2> DEFINE n == [cmd |-> c.cmd, id |-> id, type |-> c.type, size |-> c.size,
                   nowait |-> c.nowait, trunc |-> c.trunc]
  <2>1. /\ pc[p] = "user" /\ pc' = [pc EXCEPT ![p] = "conv"] /\ call' = [call EXCEPT ![p] = n]
        /\ held' = held /\ mq' = mq /\ msgmap' = msgmap
    BY <1>2 DEF Msgsys, Enters, pool
  <2> HIDE DEF n
  <2>2. \A r \in Proc \ {p} : call'[r] = call[r] /\ held'[r] = held[r] BY <1>0, <2>1 DEF ProcTypes
  <2> QED BY <1>0, <2>1, <2>2, SegMove
<1>3. CASE ConvSleeps(p)
  <2>1. pc[p] = "conv" /\ mq' = mq /\ msgmap' = msgmap BY <1>3 DEF ConvSleeps, Running, pool
  <2>2. CASE sig[p] /\ pc' = [pc EXCEPT ![p] = "user"] /\ Forget(p)
    BY <1>0, <1>f, <2>1, <2>2, SegMove
  <2>3. CASE pc' = [pc EXCEPT ![p] = "asleep"] /\ call' = call /\ held' = held
    BY <1>0, <2>1, <2>3, SegMove
  <2> QED BY <1>3, <2>2, <2>3 DEF ConvSleeps
<1>4. CASE ConvLocks(p)
  <2>1. /\ pc[p] = "conv" /\ pc' = [pc EXCEPT ![p] = next[p]] /\ call' = call /\ held' = held
        /\ mq' = mq /\ msgmap' = msgmap
    BY <1>4 DEF ConvLocks, Running, pool
  <2>2. next[p] \notin {"text", "textin"} BY <1>0 DEF ProcTypes
  <2> QED BY <1>0, <2>1, <2>2, SegMove
<1>5. CASE ConvFails(p)
  <2>1. pc[p] = "conv" /\ Out(p, {}) /\ mq' = mq /\ msgmap' = msgmap
    BY <1>5 DEF ConvFails, Running, pool
  <2> QED BY <1>0, <2>1, SegOut
<1>6. CASE Resume(p)
  <2>1. pc[p] = "woken" /\ mq' = mq /\ msgmap' = msgmap BY <1>6 DEF Resume, pool
  <2>2. PICK to : pc' = [pc EXCEPT ![p] = to] /\ to \in {"user", "conv"}
    BY <1>6 DEF Resume
  <2>3. \A r \in Proc \ {p} : call'[r] = call[r] /\ held'[r] = held[r]
    BY <1>6, <1>f DEF Resume
  <2>4. to \notin {"text", "textin"} BY <2>2
  <2> QED BY <1>0, <2>1, <2>2, <2>3, <2>4, SegMove
<1>7. CASE Signal(p)
  <2> DEFINE to == IF pc[p] = "asleep" THEN "woken" ELSE pc[p]
  <2>1. /\ pc' = [pc EXCEPT ![p] = to] /\ call' = call /\ held' = held
        /\ mq' = mq /\ msgmap' = msgmap
    BY <1>7 DEF Signal, pool
  <2>2. pc[p] \in {"text", "textin"} <=> to \in {"text", "textin"} OBVIOUS
  <2> HIDE DEF to
  <2> QED BY <1>0, <2>1, <2>2, SegMove
<1> QED BY <1>1, <1>2, <1>3, <1>4, <1>5, <1>6, <1>7 DEF Call

(* The steps under the lock that move no segments. *)
LEMMA SegLocked ==
    ASSUME IInv, SegInv, NEW p \in Proc,
           \/ Eintr(p) \/ FirstFails(p) \/ SndFirst(p) \/ SndNoRoom(p) \/ SndNoHdr(p)
           \/ SndNoSegs(p) \/ RcvFirst(p) \/ RcvNone(p) \/ RcvTooBig(p) \/ StatFirst(p)
           \/ Typein(p) \/ Statout(p) \/ SetFirst(p) \/ Setin(p)
    PROVE  SegInv'
<1>0. Q(p) \in Queue BY QType DEF IInv
<1>c. /\ <<"qp", Q(p)>> \in Chan /\ <<"qnum", Q(p)>> \in Chan
      /\ <<"msgfp", 0>> \in Chan /\ <<"msgmap", 0>> \in Chan
  BY <1>0 DEF Chan
<1>1. pc[p] \in {"eintr", "first", "again", "typein", "statout", "setin"}
  BY DEF Eintr, FirstFails, SndFirst, SndNoRoom, SndNoHdr, SndNoSegs, RcvFirst, RcvNone,
         RcvTooBig, StatFirst, Typein, Statout, SetFirst, Setin, Running, Snd, Rcv
<1>2. pc[p] \notin {"text", "textin"} BY <1>1
<1>3. mq' = mq
  BY DEF Eintr, FirstFails, SndFirst, SndNoRoom, SndNoHdr, SndNoSegs, RcvFirst, RcvNone,
         RcvTooBig, StatFirst, Typein, Statout, SetFirst, Setin, SetLimit, Fault
<1>4. ~SndNoSegs(p) => msgmap' = msgmap
  BY DEF Eintr, FirstFails, SndFirst, SndNoRoom, SndNoHdr, RcvFirst, RcvNone,
         RcvTooBig, StatFirst, Typein, Statout, SetFirst, Setin, SetLimit, Fault, pool
<1>5. SndNoSegs(p) => msgmap' \in {msgmap, Want(msgmap)} BY DEF SndNoSegs
<1>o. ASSUME NEW C, Out(p, C), msgmap' = msgmap PROVE SegInv' BY <1>2, <1>3, <1>o, SegOut
<1>s. ASSUME NEW c \in Chan, NEW D, SleepOn(p, c, D), msgmap' \in {msgmap, Want(msgmap)}
      PROVE  SegInv'
  BY <1>2, <1>3, <1>s, SegSleep
<1>r. ASSUME Relock(p), msgmap' = msgmap PROVE SegInv' BY <1>2, <1>3, <1>r, SegRelock
<1>f. ASSUME NEW to, to \notin {"text", "textin"}, Fault(p, to) PROVE SegInv'
  BY <1>2, <1>f, SegFault
<1>6. CASE SndNoSegs(p)
  <2> DEFINE C == IF msgfp = 1 THEN {<<"msgfp", 0>>} ELSE {}
  <2>1. (Out(p, C) /\ msgmap' = msgmap) \/ SleepOn(p, <<"msgmap", 0>>, C) BY <1>6 DEF SndNoSegs
  <2> HIDE DEF C
  <2> QED BY <1>5, <1>6, <1>c, <1>o, <1>s, <2>1
<1>7. CASE Eintr(p)
  <2>1. PICK C : Out(p, C) BY <1>7 DEF Eintr
  <2>2. msgmap' = msgmap BY <1>7 DEF Eintr, pool
  <2> QED BY <1>o, <2>1, <2>2
<1>8. CASE ~SndNoSegs(p) /\ ~Eintr(p)
  <2>1. \/ Out(p, {}) \/ Relock(p)
        \/ SleepOn(p, <<"qp", Q(p)>>, {}) \/ SleepOn(p, <<"msgfp", 0>>, {})
        \/ SleepOn(p, <<"qnum", Q(p)>>, {})
        \/ \E to : to \notin {"text", "textin"} /\ Fault(p, to)
    <3>1. "typein" \notin {"text", "textin"} /\ "statout" \notin {"text", "textin"}
          /\ "setin" \notin {"text", "textin"}
      OBVIOUS
    <3> QED BY <1>8, <3>1 DEF FirstFails, SndFirst, SndNoRoom, SndNoHdr, RcvFirst, RcvNone,
         RcvTooBig, StatFirst, Typein, Statout, SetFirst, Setin, SetLimit
  <2>2. msgmap' = msgmap /\ msgmap' \in {msgmap, Want(msgmap)} BY <1>4, <1>8
  <2> QED BY <1>c, <1>f, <1>o, <1>r, <1>s, <2>1, <2>2
<1> QED BY <1>6, <1>7, <1>8

-----------------------------------------------------------------------------
(* The segments of a text are the run of units rmalloc found for it. *)
LEMMA SegsSpan ==
    ASSUME NEW size \in Nat, NEW spot
    PROVE  /\ size = 0 => Segs(size, spot) = {}
           /\ size # 0 => Segs(size, spot) = Span(spot, Btoq(size)) /\ Btoq(size) \in Nat \ {0}
BY BtoqType DEF Segs, Span

(* rmfree of a text that has its segments. *)
LEMMA FreedUnits ==
    ASSUME IInv, SegInv, NEW size \in Nat, NEW spot \in Nat,
           ~Overflows(msgmap, Btoq(size), spot),
           \A u \in Segs(size, spot) : u \in 1 .. MSGSEG /\ ~Spare(u),
           NEW m, m = MapFreed(size, spot)
    PROVE  Ordered(m) /\ \A u : u \in FreeUnits(m) <=> Spare(u) \/ u \in Segs(size, spot)
<1>1. Shape(msgmap) /\ Ordered(msgmap) BY DEF IInv, ShareTypes, SegInv
<1>2. CASE size = 0
  BY <1>1, <1>2, SegsSpan DEF MapFreed, Spare
<1>3. CASE size # 0
  <2>1. PICK n : n = Btoq(size) OBVIOUS
  <2>2. n \in Nat \ {0} /\ Segs(size, spot) = Span(spot, n) BY <1>3, <2>1, SegsSpan
  <2>3. spot \in Span(spot, n) BY <2>2 DEF Span
  <2>4. spot \in Nat \ {0} BY <2>2, <2>3
  <2>5. Span(spot, n) \cap FreeUnits(msgmap) = {} BY <2>2 DEF Spare
  <2>6. m = Rmfree(msgmap, n, spot) BY <1>3, <2>1 DEF MapFreed
  <2>7. ~Overflows(msgmap, n, spot) BY <2>1
  <2>8. FreeUnits(m) = FreeUnits(msgmap) \cup Span(spot, n) /\ Ordered(m)
    BY <1>1, <2>2, <2>4, <2>5, <2>6, <2>7, RmfreeUnits
  <2> QED BY <2>2, <2>8 DEF Spare
<1> QED BY <1>2, <1>3

(* msgsnd takes its segments off the map. *)
LEMMA SegTakes == ASSUME IInv, SegInv, NEW p \in Proc, SndTakes(p) PROVE SegInv'
<1>0. ProcTypes /\ Shape(msgmap) /\ Ordered(msgmap) /\ Packed
  BY DEF IInv, ShareTypes, SegInv
<1>1. PICK m, a, n, size : /\ m = msgmap' /\ a = held'[p] /\ size = call[p].size
                           /\ n = Btoq(size)
  OBVIOUS
<1>2. /\ pc[p] = "again" /\ pc' = [pc EXCEPT ![p] = "text"] /\ call' = call /\ mq' = mq
      /\ \A r \in Proc \ {p} : held'[r] = held[r]
      /\ size = 0 => m = msgmap
      /\ size # 0 => CanAlloc(msgmap, n) /\ m = Rmalloc(msgmap, n) /\ a = RmallocAddr(msgmap, n)
  <2>1. /\ held' = [held EXCEPT ![p] = IF call[p].size = 0 THEN 0
                                       ELSE RmallocAddr(msgmap, Btoq(call[p].size))]
        /\ msgmap' = IF call[p].size = 0 THEN msgmap ELSE Rmalloc(msgmap, Btoq(call[p].size))
        /\ HasSegs(p)
    BY DEF SndTakes
  <2>2. held \in [Proc -> Nat] BY <1>0 DEF ProcTypes
  <2>3. size # 0 => CanAlloc(msgmap, n) BY <1>1, <2>1 DEF HasSegs
  <2>4. a = IF size = 0 THEN 0 ELSE RmallocAddr(msgmap, n) BY <1>1, <2>1, <2>2
  <2>5. \A r \in Proc \ {p} : held'[r] = held[r] BY <2>1, <2>2
  <2> QED BY <1>1, <2>1, <2>3, <2>4, <2>5 DEF SndTakes, Snd, Running
<1>3. size \in Nat BY <1>0, <1>1 DEF ProcTypes, CallType
<1>4. /\ Ordered(m)
      /\ \A u \in Segs(size, a) : u \in FreeUnits(msgmap)
      /\ \A u : u \in FreeUnits(m) <=> u \in FreeUnits(msgmap) /\ u \notin Segs(size, a)
  <2>1. CASE size = 0 BY <1>0, <1>2, <1>3, <2>1, SegsSpan
  <2>2. CASE size # 0
    <3>1. n \in Nat /\ Segs(size, a) = Span(a, n) BY <1>1, <1>3, <2>2, SegsSpan
    <3>2. CanAlloc(msgmap, n) /\ m = Rmalloc(msgmap, n) /\ a = RmallocAddr(msgmap, n) BY <1>2, <2>2
    <3>3. /\ Ordered(Rmalloc(msgmap, n))
          /\ Span(RmallocAddr(msgmap, n), n) \subseteq FreeUnits(msgmap)
          /\ FreeUnits(Rmalloc(msgmap, n)) = FreeUnits(msgmap) \ Span(RmallocAddr(msgmap, n), n)
      BY <1>0, <3>1, <3>2, RmallocUnits
    <3>4. Ordered(m) /\ Span(a, n) \subseteq FreeUnits(msgmap)
          /\ FreeUnits(m) = FreeUnits(msgmap) \ Span(a, n)
      BY <3>2, <3>3
    <3> QED BY <3>1, <3>4
  <2> QED BY <2>1, <2>2
<1>5. pc \in [Proc -> Places] BY <1>0 DEF ProcTypes
<1>6. Hands(p) /\ pc'[p] = "text" BY <1>2, <1>5 DEF Hands
<1>7. \A u : Filling(u, p)' <=> u \in Segs(size, a) BY <1>1, <1>2, <1>6 DEF Filling, Fillers, TextBy
<1>8. \A u : ~Filling(u, p) BY <1>2 DEF Filling, Fillers
<1>9. (\A u : Spare(u)' <=> u \in FreeUnits(m)) /\ (Ordered(msgmap)' <=> Ordered(m))
  BY <1>1, MapPrime
<1>10. \A u, q, k : Queued(u, q, k)' <=> Queued(u, q, k) BY <1>2, QueuedPrime DEF Queued
<1>11. \A u, r : r # p => (Filling(u, r)' <=> Filling(u, r)) BY <1>6, HandsFill
<1>12. \A u : Filling(u, p)' => Spare(u) BY <1>4, <1>7 DEF Spare
<1>13. \A u : Spare(u)' <=> Spare(u) /\ ~Filling(u, p)' BY <1>4, <1>7, <1>9 DEF Spare
<1>14. Packed' BY <1>0, <1>8, <1>10, <1>11, <1>12, <1>13, PackedTakes
<1> QED BY <1>4, <1>9, <1>14 DEF SegInv

(* The copyin of the text fails: they go back. *)
LEMMA SegCopyin ==
    ASSUME IInv, SegInv, Roomy, NEW p \in Proc, pc[p] \in {"text", "textin"}, CopyinFails(p)
    PROVE  SegInv'
<1>0. ProcTypes /\ Packed BY DEF IInv, SegInv
<1>1. PICK m, a, size, C : /\ m = msgmap' /\ a = held[p] /\ size = call[p].size
                           /\ C = HdrWakes \cup MapWakes(call[p].size, held[p])
  OBVIOUS
<1>2. m = MapFreed(size, a) /\ mq' = mq /\ Out(p, C) BY <1>1 DEF CopyinFails
<1>3. size \in Nat /\ a \in Nat BY <1>0, <1>1 DEF ProcTypes, CallType
<1>4. p \in Fillers BY DEF Fillers
<1>5. \A u : Filling(u, p) <=> u \in Segs(size, a) BY <1>1, <1>4 DEF Filling, TextBy
<1>6. \A u \in Segs(size, a) : u \in 1 .. MSGSEG /\ ~Spare(u) BY <1>0, <1>5 DEF Packed
<1>7. ~Overflows(msgmap, Btoq(size), a) BY <1>1, <1>4 DEF Roomy
<1>8. Ordered(m) /\ \A u : u \in FreeUnits(m) <=> Spare(u) \/ u \in Segs(size, a)
  BY <1>2, <1>3, <1>6, <1>7, FreedUnits
<1>9. Ends(p, "user", C) BY <1>2, OutEnds
<1>10. Hands(p) /\ pc'[p] = "user" BY <1>9, HandsEnds
<1>11. \A u : ~Filling(u, p)' BY <1>10 DEF Filling, Fillers
<1>12. \A u, r : r # p => (Filling(u, r)' <=> Filling(u, r)) BY <1>10, HandsFill
<1>13. (\A u : Spare(u)' <=> u \in FreeUnits(m)) /\ (Ordered(msgmap)' <=> Ordered(m))
  BY <1>1, MapPrime
<1>14. \A u, q, k : Queued(u, q, k)' <=> Queued(u, q, k) BY <1>2, QueuedPrime DEF Queued
<1>15. \A u : Spare(u)' <=> Spare(u) \/ Filling(u, p) BY <1>5, <1>8, <1>13
<1>16. Packed' BY <1>0, <1>11, <1>12, <1>14, <1>15, PackedGives
<1> QED BY <1>8, <1>13, <1>16 DEF SegInv

(* The text is queued with its segments. *)
LEMMA SegEnqueue ==
    ASSUME IInv, SegInv, NEW p \in Proc, pc[p] \in {"text", "textin"}, Enqueue(p)
    PROVE  SegInv'
<1>0. ProcTypes /\ ShareTypes /\ Sends(p) /\ Packed BY DEF IInv, SegInv
<1>x. PICK x, m, C : /\ x = Q(p) /\ C = (IF rwait[x] THEN {<<"qnum", x>>} ELSE {})
                     /\ m = [type |-> call[p].type, size |-> call[p].size, spot |-> held[p]]
  OBVIOUS
<1>1. x \in Queue BY <1>0, <1>x, QType
<1>2. mq' = [mq EXCEPT ![x] = Append(mq[x], m)] /\ Out(p, C) /\ msgmap' = msgmap
  BY <1>x DEF Enqueue, pool
<1>3. m \in Message /\ m.size = call[p].size /\ m.spot = held[p]
  <2>1. call[p].type > 0 /\ call[p].type \in Int /\ call[p].size \in Nat /\ held[p] \in Nat
    BY <1>0 DEF Sends, ProcTypes, CallType
  <2> QED BY <1>x, <2>1 DEF Message
<1>s. mq[x] \in Seq(Message) /\ Len(mq[x]) \in Nat BY <1>0, <1>1, LenProperties DEF ShareTypes
<1>4. PICK n : n = Len(mq[x]) + 1 OBVIOUS
<1>5. /\ mq'[x] = Append(mq[x], m) /\ \A q \in Queue \ {x} : mq'[q] = mq[q]
  BY <1>0, <1>1, <1>2 DEF ShareTypes
<1>6. /\ Len(mq'[x]) = n /\ mq'[x][n] = m
      /\ \A k \in 1 .. Len(mq[x]) : mq'[x][k] = mq[x][k]
  BY <1>3, <1>4, <1>5, <1>s, AppendProperties
<1>7. Ends(p, "user", C) BY <1>2, OutEnds
<1>8. Hands(p) /\ pc'[p] = "user" BY <1>7, HandsEnds
<1>9. \A u : ~Filling(u, p)' BY <1>8 DEF Filling, Fillers
<1>10. \A u, r : r # p => (Filling(u, r)' <=> Filling(u, r)) BY <1>8, HandsFill
<1>11. PICK mm : mm = msgmap' OBVIOUS
<1>12. (\A u : Spare(u)' <=> Spare(u)) /\ Ordered(msgmap)'
  <2>1. (\A u : Spare(u)' <=> u \in FreeUnits(mm)) /\ (Ordered(msgmap)' <=> Ordered(mm))
    BY <1>11, MapPrime
  <2> QED BY <1>2, <1>11, <2>1 DEF Spare, SegInv
<1>13. \A u : ~Queued(u, x, n) BY <1>4, <1>s DEF Queued
<1>14. ASSUME NEW u PROVE Queued(u, x, n)' <=> Filling(u, p)
  <2>1. Queued(u, x, n)' <=> u \in Segs(m.size, m.spot)
    <3>1. n \in 1 .. Len(mq'[x]) BY <1>4, <1>6, <1>s
    <3> QED BY <1>1, <1>6, <3>1, QueuedPrime
  <2>2. Filling(u, p) <=> u \in Segs(m.size, m.spot) BY <1>3 DEF Filling, Fillers, TextBy
  <2> QED BY <2>1, <2>2
<1>15. ASSUME NEW u, NEW q, NEW k, ~(q = x /\ k = n) PROVE Queued(u, q, k)' <=> Queued(u, q, k)
  <2>1. CASE q # x BY <1>5, <2>1, QueuedPrime DEF Queued
  <2>2. CASE q = x
    <3>1. k \in 1 .. Len(mq'[x]) <=> k \in 1 .. Len(mq[x]) BY <1>15, <1>4, <1>6, <1>s, <2>2
    <3> QED BY <1>6, <2>2, <3>1, QueuedPrime DEF Queued
  <2> QED BY <2>1, <2>2
<1>16. Packed' BY <1>0, <1>9, <1>10, <1>12, <1>13, <1>14, <1>15, PackedQueues
<1> QED BY <1>12, <1>16 DEF SegInv

(* msgfree of message i of queue x: its segments go back. *)
LEMMA SegMsgfree ==
    ASSUME IInv, SegInv, Roomy, NEW p \in Proc, Hands(p), pc[p] \notin {"text", "textin"},
           pc'[p] \notin {"text", "textin"}, NEW x \in Queue, NEW i \in 1 .. Len(mq[x]),
           Msgfree(x, i)
    PROVE  SegInv'
<1>0. ShareTypes /\ Packed BY DEF IInv, SegInv
<1>s. PICK s, n : s = mq[x] /\ n = Len(s) OBVIOUS
<1>t. s \in Seq(Message) /\ n \in Nat /\ i \in 1 .. n /\ s[i] \in Message
  BY <1>0, <1>s, LenProperties, ElementOfSeq DEF ShareTypes
<1>1. PICK m, a, size : m = msgmap' /\ a = s[i].spot /\ size = s[i].size OBVIOUS
<1>2. mq' = [mq EXCEPT ![x] = RemoveAt(s, i)] /\ m = MapFreed(size, a)
  BY <1>1, <1>s DEF Msgfree
<1>3. size \in Nat /\ a \in Nat BY <1>1, <1>t DEF Message
<1>4. mq'[x] = RemoveAt(s, i) /\ \A q \in Queue \ {x} : mq'[q] = mq[q]
  BY <1>0, <1>2 DEF ShareTypes
<1>5. /\ Len(mq'[x]) = n - 1
      /\ \A k \in 1 .. n - 1 : mq'[x][k] = s[Behind(k, i)]
  <2>1. /\ Len(RemoveAt(s, i)) = n - 1
        /\ \A k \in 1 .. n - 1 : RemoveAt(s, i)[k] = IF k < i THEN s[k] ELSE s[k + 1]
    BY <1>s, <1>t, RemoveAtIs
  <2> QED BY <1>4, <2>1 DEF Behind
<1>6. \A u, k : Queued(u, x, k) <=> k \in 1 .. n /\ u \in Segs(s[k].size, s[k].spot)
  BY <1>s DEF Queued
<1>7. \A u : Queued(u, x, i) <=> u \in Segs(size, a) BY <1>1, <1>6, <1>t
<1>8. \A u \in Segs(size, a) : u \in 1 .. MSGSEG /\ ~Spare(u) BY <1>0, <1>7 DEF Packed
<1>9. ~Overflows(msgmap, Btoq(size), a) BY <1>1, <1>s DEF Roomy
<1>10. Ordered(m) /\ \A u : u \in FreeUnits(m) <=> Spare(u) \/ u \in Segs(size, a)
  BY <1>2, <1>3, <1>8, <1>9, FreedUnits
<1>11. (\A u : Spare(u)' <=> u \in FreeUnits(m)) /\ (Ordered(msgmap)' <=> Ordered(m))
  BY <1>1, MapPrime
<1>12. \A u : Spare(u)' <=> Spare(u) \/ Queued(u, x, i) BY <1>7, <1>10, <1>11
<1>13. \A u, r : Filling(u, r)' <=> Filling(u, r)
  <2>1. \A u : ~Filling(u, p) /\ ~Filling(u, p)' BY DEF Filling, Fillers
  <2>2. \A u, r : r # p => (Filling(u, r)' <=> Filling(u, r)) BY HandsFill
  <2> QED BY <2>1, <2>2
<1>14. \A u, q, k : q # x => (Queued(u, q, k)' <=> Queued(u, q, k))
  BY <1>4, QueuedPrime DEF Queued
<1>15. ASSUME NEW u, NEW k
       PROVE  Queued(u, x, k)' <=> k \in 1 .. n - 1 /\ Queued(u, x, Behind(k, i))
  <2>1. Queued(u, x, k)' <=> k \in 1 .. n - 1 /\ u \in Segs(mq'[x][k].size, mq'[x][k].spot)
    BY <1>5, QueuedPrime
  <2>2. CASE k \in 1 .. n - 1
    <3>1. Behind(k, i) \in 1 .. n BY <1>t, <2>2 DEF Behind
    <3> QED BY <1>5, <1>6, <2>1, <2>2, <3>1
  <2>3. CASE k \notin 1 .. n - 1 BY <2>1, <2>3
  <2> QED BY <2>2, <2>3
<1>16. \A u, k : Queued(u, x, k) => k \in 1 .. n BY <1>6
<1>17. Packed' BY <1>0, <1>t, <1>12, <1>13, <1>14, <1>15, <1>16, PackedFrees
<1> QED BY <1>10, <1>11, <1>17 DEF SegInv

-----------------------------------------------------------------------------
(* A receiver or IPC_RMID frees a message; or the copyout fails. *)
LEMMA SegDequeue ==
    ASSUME IInv, SegInv, Roomy, NEW p \in Proc, pc[p] \in {"copyout", "textout"}, Dequeue(p)
    PROVE  SegInv'
<1>1. ProcTypes /\ ShareTypes /\ Receives(p) BY DEF IInv
<1>x. PICK x, k, C : x = Q(p) /\ k = held[p] /\ C = FreeWakes(x, k) OBVIOUS
<1>0. x \in Queue BY <1>1, <1>x, QType
<1>2. Msgfree(x, k) /\ Out(p, C) BY <1>x DEF Dequeue
<1>3. mq[x] \in Seq(Message) /\ call[p].type \in Int
  BY <1>0, <1>1 DEF ShareTypes, ProcTypes, CallType
<1>4. k \in 1 .. Len(mq[x]) BY <1>1, <1>3, <1>x, FindFacts DEF Receives, Some, Found
<1>5. Ends(p, "user", C) BY <1>2, OutEnds
<1>6. Hands(p) /\ pc'[p] = "user" BY <1>5, HandsEnds
<1> QED BY <1>0, <1>2, <1>4, <1>6, SegMsgfree

LEMMA SegRmid ==
    ASSUME DInv, SegInv, Roomy, NEW p \in Proc, RmidFirst(p) \/ RmidFree(p) \/ RmidDone(p)
    PROVE  SegInv'
<1>1. IInv /\ ProcTypes /\ ShareTypes BY DEF DInv, IInv
<1>2. CASE RmidFirst(p)
  <2>1. /\ pc[p] = "first" /\ pc' = [pc EXCEPT ![p] = "rmid"] /\ call' = call /\ held' = held
        /\ mq' = mq /\ msgmap' = msgmap
    BY <1>2 DEF RmidFirst, Running, pool
  <2>2. pc[p] \notin {"text", "textin"} /\ "rmid" \notin {"text", "textin"} BY <2>1
  <2> QED BY <1>1, <2>1, <2>2, SegMove
<1>3. CASE RmidFree(p)
  <2>x. PICK x, C : x = Q(p) /\ C = FreeWakes(x, 1) OBVIOUS
  <2>0. x \in Queue BY <1>1, <2>x, QType
  <2>1. /\ pc[p] = "rmid" /\ mq[x] # <<>> /\ Msgfree(x, 1) /\ Moves(p, "rmid", C)
        /\ call' = call /\ held' = held
    BY <1>3, <2>x DEF RmidFree, Running
  <2>2. mq[x] \in Seq(Message) BY <1>1, <2>0 DEF ShareTypes
  <2>3. 1 \in 1 .. Len(mq[x]) BY <2>1, <2>2, EmptySeq, LenProperties
  <2>4. "rmid" \in Places BY LockedPlaces, Outside
  <2>5. /\ pc'[p] = "rmid"
        /\ \A r \in Proc \ {p} : pc'[r] = pc[r] \/ (pc[r] = "asleep" /\ pc'[r] = "woken")
    BY <1>1, <2>1, <2>4, MovesTypes
  <2>6. Hands(p) BY <2>1, <2>5 DEF Hands
  <2> QED BY <1>1, <2>0, <2>1, <2>3, <2>5, <2>6, SegMsgfree
<1>4. CASE RmidDone(p)
  <2>1. pc[p] = "rmid" /\ mq' = mq /\ msgmap' = msgmap BY <1>4 DEF RmidDone, Running, pool
  <2>2. PICK C : Out(p, C) BY <1>4 DEF RmidDone
  <2> QED BY <1>1, <2>1, <2>2, SegOut
<1> QED BY <1>2, <1>3, <1>4

LEMMA SegText ==
    ASSUME IInv, SegInv, Roomy, NEW p \in Proc,
           \/ SndTakes(p) \/ SndText(p) \/ Textin(p) \/ RcvFinds(p) \/ RcvCopyout(p) \/ Textout(p)
    PROVE  SegInv'
<1>0. ProcTypes BY DEF IInv
<1>1. CASE SndTakes(p) BY <1>1, SegTakes
<1>2. CASE SndText(p) \/ Textin(p)
  <2>1. pc[p] \in {"text", "textin"} BY <1>2 DEF SndText, Textin, Running
  <2>2. Enqueue(p) \/ CopyinFails(p) \/ Fault(p, "textin") BY <1>2 DEF SndText, Textin
  <2> QED BY <2>1, <2>2, SegEnqueue, SegCopyin, SegFault
<1>3. CASE RcvFinds(p)
  <2>1. /\ pc[p] = "again" /\ pc' = [pc EXCEPT ![p] = "copyout"] /\ call' = call
        /\ held' = [held EXCEPT ![p] = Found(p)] /\ mq' = mq /\ msgmap' = msgmap
    BY <1>3 DEF RcvFinds, Rcv, Running, pool
  <2>2. \A r \in Proc \ {p} : call'[r] = call[r] /\ held'[r] = held[r] BY <1>0, <2>1 DEF ProcTypes
  <2>3. pc[p] \notin {"text", "textin"} /\ "copyout" \notin {"text", "textin"} BY <2>1
  <2> QED BY <2>1, <2>2, <2>3, SegMove
<1>4. CASE RcvCopyout(p) \/ Textout(p)
  <2>1. pc[p] \in {"copyout", "textout"} BY <1>4 DEF RcvCopyout, Textout, Running
  <2>2. pc[p] \notin {"text", "textin"} /\ "textout" \notin {"text", "textin"} BY <2>1
  <2>3. Dequeue(p) \/ CopyoutFails(p) \/ Fault(p, "textout") BY <1>4 DEF RcvCopyout, Textout
  <2>4. CASE CopyoutFails(p)
    <3>1. Out(p, {}) /\ mq' = mq /\ msgmap' = msgmap BY <2>4 DEF CopyoutFails, pool
    <3> QED BY <2>2, <3>1, SegOut
  <2> QED BY <2>1, <2>2, <2>3, <2>4, SegDequeue, SegFault
<1> QED BY <1>1, <1>2, <1>3, <1>4

LEMMA NextSeg == DInv /\ SegInv /\ Roomy /\ [Next]_vars => SegInv'
<1> SUFFICES ASSUME DInv, SegInv, Roomy, [Next]_vars PROVE SegInv' OBVIOUS
<1>0. IInv BY DEF DInv
<1>1. CASE UNCHANGED vars
  <2>1. /\ mq' = mq /\ msgmap' = msgmap /\ pc' = pc /\ call' = call /\ held' = held
    BY <1>1 DEF vars, pool
  <2>2. PICK m : m = msgmap' OBVIOUS
  <2>3. (\A u : Spare(u)' <=> u \in FreeUnits(m)) /\ (Ordered(msgmap)' <=> Ordered(m))
    BY <2>2, MapPrime
  <2>4. \A u, q, k : Queued(u, q, k)' <=> Queued(u, q, k) BY <2>1, QueuedPrime DEF Queued
  <2>5. \A u, p : Filling(u, p)' <=> Filling(u, p) BY <2>1 DEF Filling, Fillers, TextBy
  <2>6. (\A u : Spare(u)' <=> Spare(u)) /\ Ordered(msgmap)' BY <2>1, <2>2, <2>3 DEF Spare, SegInv
  <2>7. Packed' BY <2>4, <2>5, <2>6, PackedSame DEF SegInv
  <2> QED BY <2>6, <2>7 DEF SegInv
<1>2. ASSUME NEW p \in Proc, Call(p) \/ Step(p) \/ Continue(p) \/ Signal(p) PROVE SegInv'
  BY <1>0, <1>2, SegOutside, SegLocked, SegText, SegRmid DEF Step, Continue
<1> QED BY <1>1, <1>2 DEF Next

(* msginit: all segments are in the map, as far as it has an entry. *)
LEMMA InitSeg == ASSUME MapSlots # 0, Init PROVE SegInv
<1>1. msgmap = Rmfree(MapInit, MSGSEG, 1) /\ mq = [q \in Queue |-> <<>>]
      /\ pc = [p \in Proc |-> "user"]
  BY DEF Init
<1>2. /\ Shape(MapInit) /\ Ordered(MapInit) /\ FreeUnits(MapInit) = {}
      /\ ~Overflows(MapInit, MSGSEG, 1)
  <2>1. MapInit \in MapType
    BY MapSlotsAssumption DEF MapInit, MapType, EndEntry, Entry
  <2>2. MapInit.size = MapSlots /\ MapInit.ent = [i \in Slot |-> EndEntry]
    BY DEF MapInit
  <2>3. Shape(MapInit) /\ Used(MapInit) = 0
    BY <2>1, <2>2, MapSlotsAssumption DEF Shape, Used, Slot
  <2>4. FreeUnits(MapInit) = {} BY <2>3, InFreeUnits
  <2> QED BY <2>2, <2>3, <2>4 DEF Overflows, Ordered
<1>3. MSGSEG \in Nat \ {0} /\ 1 \in Nat \ {0} BY MsgAssumption
<1>4. FreeUnits(msgmap) = Span(1, MSGSEG) /\ Ordered(msgmap)
  <2>1. Span(1, MSGSEG) \cap FreeUnits(MapInit) = {} BY <1>2
  <2>2. /\ FreeUnits(Rmfree(MapInit, MSGSEG, 1)) = FreeUnits(MapInit) \cup Span(1, MSGSEG)
        /\ Ordered(Rmfree(MapInit, MSGSEG, 1))
    BY <1>2, <1>3, <2>1, RmfreeUnits
  <2> QED BY <1>1, <1>2, <2>2
<1>5. \A u : Spare(u) <=> u \in 1 .. MSGSEG BY <1>3, <1>4 DEF Spare, Span
<1>6. \A u, q, k : ~Queued(u, q, k) BY <1>1 DEF Queued
<1>7. \A u, p : ~Filling(u, p) BY <1>1 DEF Filling, Fillers
<1> QED BY <1>4, <1>5, <1>6, <1>7 DEF SegInv, Packed

-----------------------------------------------------------------------------
(***************************************************************************)
(* Why msgmap does not overflow when it has an entry for every header.  A  *)
(* map that is full when an extent is freed that touches no entry has      *)
(* MapSlots + 1 gaps between its entries and around the extent, and each   *)
(* gap belongs to another message.                                         *)
(***************************************************************************)
(* A unit of each gap: behind an entry below the extent, at the extent,    *)
(* ahead of an entry above it.                                             *)
Gap(m, a, bp, i) ==
    IF i < bp THEN m.ent[i].m_addr + m.ent[i].m_size
    ELSE IF i = bp THEN a ELSE m.ent[i - 1].m_addr - 1

(* s parts x and y: it is free, or in the extent and not both of them are. *)
Parts(m, size, a, x, y, s) ==
    /\ s \in x .. y
    /\ s \in FreeUnits(m) \/ (s \in Span(a, size) /\ ~(x \in Span(a, size) /\ y \in Span(a, size)))

LEMMA GapFacts ==
    ASSUME NEW m, Shape(m), Ordered(m), NEW size \in Nat \ {0}, NEW a \in Nat \ {0},
           Span(a, size) \cap FreeUnits(m) = {}, Overflows(m, size, a),
           NEW bp, bp = FreeSlot(m, a), NEW B \in Nat,
           \A u : u \in FreeUnits(m) \/ u \in Span(a, size) => u \in 1 .. B
    PROVE  /\ \A i \in Slot : Gap(m, a, bp, i) \in 1 .. B /\ Gap(m, a, bp, i) \notin FreeUnits(m)
           /\ \A i, j \in Slot : i < j =>
                 \E s : Parts(m, size, a, Gap(m, a, bp, i), Gap(m, a, bp, j), s)
<1>1. /\ m.size = 0 /\ Used(m) = MapSlots /\ ~JoinsLow(m, a, bp) /\ ~JoinsHigh(m, size, a, bp)
  BY MapSlotsAssumption DEF Overflows, Used
<1>2. /\ \A k \in 1 .. MapSlots : k < bp => m.ent[k].m_addr + m.ent[k].m_size <= a
      /\ \A k \in 1 .. MapSlots : k >= bp => a + size <= m.ent[k].m_addr
  BY <1>1, RmfreeNeighbours
<1>3. bp \in 1 .. MapSlots + 1 BY <1>1, RmfreeScan
<1>4. \A k \in 1 .. MapSlots : m.ent[k].m_addr \in Nat /\ m.ent[k].m_size \in Nat \ {0}
  BY <1>1, EntryFacts
<1>5. /\ \A k \in 1 .. MapSlots : m.ent[k].m_addr > 0
      /\ \A k, l \in 1 .. MapSlots : k < l => m.ent[k].m_addr + m.ent[k].m_size < m.ent[l].m_addr
  BY <1>1 DEF Ordered
<1>6. ASSUME NEW k \in 1 .. MapSlots, k < bp PROVE m.ent[k].m_addr + m.ent[k].m_size < a
  <2>1. CASE k = bp - 1
    <3>1. bp > 1 /\ m.ent[k].m_addr + m.ent[k].m_size # a BY <1>1, <1>3, <1>6, <2>1 DEF JoinsLow
    <3> QED BY <1>2, <1>4, <1>6, <3>1
  <2>2. CASE k # bp - 1
    <3>1. bp - 1 \in 1 .. MapSlots /\ k < bp - 1 BY <1>3, <1>6, <2>2, MapSlotsAssumption
    <3>2. m.ent[k].m_addr + m.ent[k].m_size < m.ent[bp - 1].m_addr BY <1>5, <3>1
    <3>3. m.ent[bp - 1].m_addr + m.ent[bp - 1].m_size <= a BY <1>2, <1>3, <3>1
    <3> QED BY <1>4, <3>1, <3>2, <3>3
  <2> QED BY <2>1, <2>2
<1>7. ASSUME NEW k \in 1 .. MapSlots, k >= bp PROVE a + size < m.ent[k].m_addr
  <2>1. CASE k = bp
    <3>1. a + size # m.ent[k].m_addr
      BY <1>1, <1>4, <1>5, <2>1 DEF JoinsHigh
    <3> QED BY <1>2, <1>4, <1>7, <3>1
  <2>2. CASE k # bp
    <3>1. bp \in 1 .. MapSlots /\ bp < k BY <1>3, <1>7, <2>2, MapSlotsAssumption
    <3>2. m.ent[bp].m_addr + m.ent[bp].m_size < m.ent[k].m_addr BY <1>5, <3>1
    <3>3. a + size <= m.ent[bp].m_addr BY <1>2, <3>1
    <3> QED BY <1>4, <3>1, <3>2, <3>3
  <2> QED BY <2>1, <2>2
<1>8. \A x : x \in FreeUnits(m) <=>
        \E k \in 1 .. MapSlots : x \in m.ent[k].m_addr .. m.ent[k].m_addr + m.ent[k].m_size - 1
  BY <1>1, InFreeUnits DEF Extent
<1>9. \A k \in 1 .. MapSlots : m.ent[k].m_addr \in FreeUnits(m) BY <1>4, <1>8
<1>10. a \in Span(a, size) BY DEF Span
<1>11. ASSUME NEW i \in Slot
       PROVE  Gap(m, a, bp, i) \in 1 .. B /\ Gap(m, a, bp, i) \notin FreeUnits(m)
  <2>0. i \in 1 .. MapSlots + 1 BY <1>11 DEF Slot
  <2>1. CASE i < bp
    <3>1. i \in 1 .. MapSlots BY <1>3, <2>0, <2>1, MapSlotsAssumption
    <3>2. PICK g : g = m.ent[i].m_addr + m.ent[i].m_size OBVIOUS
    <3>3. g \in Nat /\ g < a /\ g > 0 BY <1>4, <1>6, <2>1, <3>1, <3>2
    <3>4. g \in 1 .. B BY <1>10, <3>3
    <3>5. ASSUME NEW k \in 1 .. MapSlots, g \in m.ent[k].m_addr .. m.ent[k].m_addr + m.ent[k].m_size - 1
          PROVE  FALSE
      <4>1. CASE k < i BY <1>4, <1>5, <3>1, <3>2, <3>5, <4>1
      <4>2. CASE k = i BY <1>4, <3>2, <3>5, <4>2
      <4>3. CASE k > i BY <1>4, <1>5, <3>1, <3>2, <3>5, <4>3
      <4> QED BY <3>1, <4>1, <4>2, <4>3
    <3>6. g \notin FreeUnits(m) BY <1>8, <3>5
    <3> QED BY <2>1, <3>2, <3>4, <3>6 DEF Gap
  <2>2. CASE i = bp BY <1>10, <2>2, <1>3 DEF Gap
  <2>3. CASE i > bp
    <3>1. PICK h : h = i - 1 OBVIOUS
    <3>2. h \in 1 .. MapSlots /\ h >= bp BY <1>3, <2>0, <2>3, <3>1, MapSlotsAssumption
    <3>3. PICK g : g = m.ent[h].m_addr - 1 OBVIOUS
    <3>4. g \in Nat /\ g > a BY <1>4, <1>7, <3>2, <3>3
    <3>5. m.ent[h].m_addr \in 1 .. B BY <1>9, <3>2
    <3>6. g \in 1 .. B BY <3>3, <3>4, <3>5
    <3>7. ASSUME NEW k \in 1 .. MapSlots, g \in m.ent[k].m_addr .. m.ent[k].m_addr + m.ent[k].m_size - 1
          PROVE  FALSE
      <4>1. CASE k < h BY <1>4, <1>5, <3>2, <3>3, <3>7, <4>1
      <4>2. CASE k = h BY <1>4, <3>3, <3>7, <4>2
      <4>3. CASE k > h BY <1>4, <1>5, <3>2, <3>3, <3>7, <4>3
      <4> QED BY <3>2, <4>1, <4>2, <4>3
    <3>8. g \notin FreeUnits(m) BY <1>8, <3>7
    <3>9. Gap(m, a, bp, i) = g BY <1>3, <2>0, <2>3, <3>1, <3>3 DEF Gap
    <3> QED BY <3>6, <3>8, <3>9
  <2> QED BY <1>3, <2>0, <2>1, <2>2, <2>3
<1>12. ASSUME NEW i \in Slot, NEW j \in Slot, i < j
       PROVE  \E s : Parts(m, size, a, Gap(m, a, bp, i), Gap(m, a, bp, j), s)
  <2>0. i \in 1 .. MapSlots + 1 /\ j \in 1 .. MapSlots + 1 BY <1>12 DEF Slot
  <2>1. CASE j < bp
    <3>1. i \in 1 .. MapSlots /\ j \in 1 .. MapSlots BY <1>3, <1>12, <2>0, <2>1, MapSlotsAssumption
    <3>2. /\ Gap(m, a, bp, i) = m.ent[i].m_addr + m.ent[i].m_size
          /\ Gap(m, a, bp, j) = m.ent[j].m_addr + m.ent[j].m_size
      BY <1>3, <1>12, <2>0, <2>1 DEF Gap
    <3>3. m.ent[j].m_addr \in Gap(m, a, bp, i) .. Gap(m, a, bp, j)
      BY <1>4, <1>5, <1>12, <3>1, <3>2
    <3> QED BY <1>9, <3>1, <3>3 DEF Parts
  <2>2. CASE i > bp
    <3>1. PICK h, l : h = i - 1 /\ l = j - 1 OBVIOUS
    <3>2. h \in 1 .. MapSlots /\ l \in 1 .. MapSlots /\ h < l
      BY <1>3, <1>12, <2>0, <2>2, <3>1, MapSlotsAssumption
    <3>3. Gap(m, a, bp, i) = m.ent[h].m_addr - 1 /\ Gap(m, a, bp, j) = m.ent[l].m_addr - 1
      BY <1>3, <1>12, <2>0, <2>2, <3>1 DEF Gap
    <3>4. m.ent[h].m_addr \in Gap(m, a, bp, i) .. Gap(m, a, bp, j)
      BY <1>4, <1>5, <3>2, <3>3
    <3> QED BY <1>9, <3>2, <3>4 DEF Parts
  <2>3. CASE i <= bp /\ bp <= j
    <3>x. PICK x : x = Gap(m, a, bp, i) OBVIOUS
    <3>y. PICK y : y = Gap(m, a, bp, j) OBVIOUS
    <3>1. x \in Nat /\ x <= a /\ (i < bp => x < a)
      <4>1. CASE i < bp
        <5>1. i \in 1 .. MapSlots BY <1>3, <2>0, <4>1, MapSlotsAssumption
        <5> QED BY <1>4, <1>6, <3>x, <4>1, <5>1 DEF Gap
      <4>2. CASE i = bp BY <1>3, <3>x, <4>2 DEF Gap
      <4> QED BY <1>3, <2>0, <2>3, <4>1, <4>2
    <3>2. y \in Nat /\ y >= a /\ (j > bp => y >= a + size)
      <4>1. CASE j > bp
        <5>1. PICK h : h = j - 1 OBVIOUS
        <5>2. h \in 1 .. MapSlots /\ h >= bp BY <1>3, <2>0, <4>1, <5>1, MapSlotsAssumption
        <5>3. y = m.ent[h].m_addr - 1 BY <1>3, <2>0, <3>y, <4>1, <5>1 DEF Gap
        <5> QED BY <1>4, <1>7, <5>2, <5>3
      <4>2. CASE j = bp BY <1>3, <3>y, <4>2 DEF Gap
      <4> QED BY <1>3, <2>0, <2>3, <4>1, <4>2
    <3>3. a \in x .. y BY <3>1, <3>2
    <3>4. ~(x \in Span(a, size) /\ y \in Span(a, size))
      <4>1. i < bp \/ j > bp BY <1>3, <1>12, <2>0
      <4> QED BY <3>1, <3>2, <4>1 DEF Span
    <3> QED BY <1>10, <3>3, <3>4, <3>x, <3>y DEF Parts
  <2> QED BY <1>3, <1>12, <2>0, <2>1, <2>2, <2>3
<1> QED BY <1>11, <1>12

-----------------------------------------------------------------------------
(* The headers of the messages that have text: that of the k-th message of *)
(* queue q, and behind the last that of the sender to q.                   *)
In(u, q, k) ==
    \/ Queued(u, q, k)
    \/ k = Len(mq[q]) + 1 /\ \E p : Filling(u, p) /\ Q(p) = q

(* Two senders do not fill for one queue. *)
LEMMA FillsAlone ==
    ASSUME IInv, NEW p \in Fillers, NEW r \in Fillers, Q(p) = Q(r) PROVE p = r
<1>1. p \in Proc /\ r \in Proc /\ pc[p] \in Locked /\ pc[r] \in Locked
  BY LockedPlaces DEF Fillers
<1>2. Q(p) \in Queue BY <1>1, QType DEF IInv
<1> QED BY <1>1, <1>2 DEF IInv, LockInv, MutualExclusion

LEMMA InBounds ==
    ASSUME IInv, NEW u, NEW q, NEW k, In(u, q, k)
    PROVE  q \in Queue /\ Len(mq[q]) \in Nat /\ k \in 1 .. Headers(q)
<1>1. CASE Queued(u, q, k)
  <2>1. q \in Queue /\ k \in 1 .. Len(mq[q]) BY <1>1 DEF Queued
  <2>2. Len(mq[q]) \in Nat BY <2>1, LenProperties DEF IInv, ShareTypes
  <2>3. Headers(q) \in {Len(mq[q]), Len(mq[q]) + 1}
    <3>1. CASE Filled(q) BY <3>1 DEF Headers
    <3>2. CASE ~Filled(q)
      <4>1. Headers(q) = Len(mq[q]) + 0 BY <3>2 DEF Headers
      <4> QED BY <2>2, <4>1
    <3> QED BY <3>1, <3>2
  <2> QED BY <2>1, <2>2, <2>3
<1>2. ASSUME NEW p, Filling(u, p), Q(p) = q, k = Len(mq[q]) + 1
      PROVE  q \in Queue /\ Len(mq[q]) \in Nat /\ k \in 1 .. Headers(q)
  <2>1. p \in Proc /\ pc[p] \in {"text", "textin"} BY <1>2 DEF Filling, Fillers
  <2>2. q \in Queue BY <1>2, <2>1, QType DEF IInv
  <2>3. Len(mq[q]) \in Nat BY <2>2, LenProperties DEF IInv, ShareTypes
  <2>4. Filled(q) BY <1>2, <2>1 DEF Filled, Fills
  <2> QED BY <1>2, <2>2, <2>3, <2>4 DEF Headers
<1> QED BY <1>1, <1>2 DEF In

(* A segment that is not free has one header. *)
LEMMA InSome ==
    ASSUME SegInv, NEW u \in 1 .. MSGSEG, ~Spare(u) PROVE \E q, k : In(u, q, k)
BY DEF SegInv, Packed, In

LEMMA InOne ==
    ASSUME IInv, SegInv, NEW u, NEW q, NEW k, In(u, q, k), NEW r, NEW j, In(u, r, j)
    PROVE  r = q /\ j = k /\ ~Spare(u)
<1>1. CASE Queued(u, q, k) BY <1>1 DEF SegInv, Packed, In
<1>2. ASSUME NEW p, Filling(u, p), Q(p) = q, k = Len(mq[q]) + 1
      PROVE  r = q /\ j = k /\ ~Spare(u)
  <2>1. /\ ~Spare(u) /\ ~Queued(u, r, j) /\ \A s : Filling(u, s) => s = p
    BY <1>2 DEF SegInv, Packed
  <2> QED BY <1>2, <2>1 DEF In
<1> QED BY <1>1, <1>2 DEF In

(* The segments of a header are a run. *)
LEMMA InRun ==
    ASSUME IInv, NEW q, NEW k, NEW x \in Nat, In(x, q, k), NEW y \in Nat, In(y, q, k), NEW s \in x .. y
    PROVE  In(s, q, k)
<1>0. ASSUME NEW size, NEW spot, x \in Segs(size, spot), y \in Segs(size, spot), size \in Nat,
             spot \in Nat
      PROVE  s \in Segs(size, spot)
  BY <1>0, SegsSpan DEF Span
<1>1. q \in Queue /\ Len(mq[q]) \in Nat BY InBounds
<1>2. CASE k \in 1 .. Len(mq[q])
  <2>1. ~(k = Len(mq[q]) + 1) BY <1>1, <1>2
  <2>2. Queued(x, q, k) /\ Queued(y, q, k) BY <2>1 DEF In
  <2>3. mq[q][k].size \in Nat /\ mq[q][k].spot \in Nat
    <3>1. mq[q] \in Seq(Message) BY <1>1 DEF IInv, ShareTypes
    <3>2. mq[q][k] \in Message BY <1>2, <3>1, ElementOfSeq
    <3> QED BY <3>2 DEF Message
  <2>4. s \in Segs(mq[q][k].size, mq[q][k].spot) BY <1>0, <2>2, <2>3 DEF Queued
  <2> QED BY <1>1, <1>2, <2>4 DEF In, Queued
<1>3. CASE k \notin 1 .. Len(mq[q])
  <2>1. ~Queued(x, q, k) /\ ~Queued(y, q, k) BY <1>3 DEF Queued
  <2>2. PICK p : Filling(x, p) /\ Q(p) = q /\ k = Len(mq[q]) + 1 BY <2>1 DEF In
  <2>3. PICK r : Filling(y, r) /\ Q(r) = q BY <2>1 DEF In
  <2>4. p \in Fillers /\ r \in Fillers BY <2>2, <2>3 DEF Filling
  <2>5. p = r BY <2>2, <2>3, <2>4, FillsAlone
  <2>6. call[p].size \in Nat /\ held[p] \in Nat BY <2>4 DEF Fillers, IInv, ProcTypes, CallType
  <2>7. s \in Segs(call[p].size, held[p]) BY <1>0, <2>2, <2>3, <2>5, <2>6 DEF Filling, TextBy
  <2>8. Filling(s, p) BY <2>4, <2>7 DEF Filling, TextBy
  <2> QED BY <2>2, <2>8 DEF In
<1> QED BY <1>2, <1>3

(* Sums of naturals grow. *)
LEMMA SumGrows ==
    ASSUME NEW n \in Nat, NEW e, NEW v, IsSum(v, e, n), \A k \in 1 .. n : e[k] \in Nat,
           NEW i \in 0 .. n
    PROVE  v[i] \in Nat /\ \A j \in i .. n : v[j] \in Nat /\ v[i] <= v[j]
<1>1. \A j \in 0 .. n : v[j] \in Nat
  <2> DEFINE S == {j \in Nat : j <= n /\ v[j] \notin Nat}
  <2>1. SUFFICES S = {} OBVIOUS
  <2>2. SUFFICES ASSUME NEW x \in S PROVE FALSE OBVIOUS
  <2>3. S \in SUBSET Nat OBVIOUS
  <2>4. PICK j \in S : \A z \in S : j <= z
    <3> HIDE DEF S
    <3> QED BY <2>3, Least
  <2>5. j \in Nat /\ j <= n /\ v[j] \notin Nat OBVIOUS
  <2>6. j # 0 BY <2>5 DEF IsSum
  <2>7. j \in 1 .. n /\ j - 1 \in Nat /\ j - 1 <= n /\ ~(j <= j - 1) BY <2>5, <2>6
  <2>8. v[j - 1] \in Nat BY <2>4, <2>7
  <2>9. v[j] = v[j - 1] + e[j] BY <2>7 DEF IsSum
  <2> QED BY <2>5, <2>7, <2>8, <2>9
<1>2. \A j \in i .. n : v[i] <= v[j]
  <2> DEFINE S == {j \in Nat : j \in i .. n /\ ~(v[i] <= v[j])}
  <2>0. i \in Nat /\ i <= n BY i \in 0 .. n
  <2>1. SUFFICES S = {} BY <2>0
  <2>2. SUFFICES ASSUME NEW x \in S PROVE FALSE OBVIOUS
  <2>3. S \in SUBSET Nat OBVIOUS
  <2>4. PICK j \in S : \A z \in S : j <= z
    <3> HIDE DEF S
    <3> QED BY <2>3, Least
  <2>5. j \in Nat /\ j \in i .. n /\ ~(v[i] <= v[j]) OBVIOUS
  <2>6. j # i BY <1>1, <2>5
  <2>7. j \in 1 .. n /\ j - 1 \in Nat /\ j - 1 \in i .. n /\ ~(j <= j - 1) BY <2>0, <2>5, <2>6
  <2>8. v[i] <= v[j - 1] BY <2>4, <2>7
  <2>9. v[j] = v[j - 1] + e[j] BY <2>7 DEF IsSum
  <2>10. v[j - 1] \in Nat /\ v[i] \in Nat /\ e[j] \in Nat BY <1>1, <2>0, <2>7
  <2> QED BY <2>5, <2>8, <2>9, <2>10
<1> QED BY <1>1, <1>2

-----------------------------------------------------------------------------
LEMMA HeadersNat == ASSUME IInv, NEW q \in Queue PROVE Headers(q) \in Nat
<1>1. Len(mq[q]) \in Nat BY LenProperties DEF IInv, ShareTypes
<1>2. CASE Filled(q) BY <1>1, <1>2 DEF Headers
<1>3. CASE ~Filled(q)
  <2>1. Headers(q) = Len(mq[q]) + 0 BY <1>3 DEF Headers
  <2> QED BY <1>1, <2>1
<1> QED BY <1>2, <1>3

(* The headers that are in use can be numbered from 1 to MSGTQL, those of  *)
(* queue q from v[q] + 1 on.                                               *)
LEMMA Numbered ==
    ASSUME DInv
    PROVE  \E v : /\ \A q \in Queue : v[q] \in Nat /\ v[q] + Headers(q) <= MSGTQL
                  /\ \A q, r \in Queue : q < r => v[q] + Headers(q) <= v[r]
<1>0. IInv /\ HeadersConserved /\ MSGMNI \in Nat /\ MSGTQL \in Nat /\ msgfp \in Nat
  BY MsgAssumption DEF DInv, IInv, ShareTypes
<1>1. PICK v : IsSum(v, AllHeaders, MSGMNI) /\ (HeadersConserved <=> msgfp + v[MSGMNI] = MSGTQL)
  BY HeadersSum DEF AddedUp
<1>2. \A k \in 1 .. MSGMNI : k - 1 \in Queue BY <1>0 DEF Queue
<1>3. \A k \in 1 .. MSGMNI : AllHeaders[k] \in Nat BY <1>0, <1>2, HeadersNat DEF AllHeaders
<1>4. ASSUME NEW i \in 0 .. MSGMNI
      PROVE  v[i] \in Nat /\ \A j \in i .. MSGMNI : v[j] \in Nat /\ v[i] <= v[j]
  BY <1>0, <1>1, <1>3, <1>4, SumGrows
<1>5. ASSUME NEW q \in Queue
      PROVE  q \in Nat /\ q + 1 \in 0 .. MSGMNI /\ v[q + 1] = v[q] + Headers(q) /\ v[q] \in Nat
  <2>1. q \in Nat /\ q \in 0 .. MSGMNI /\ q + 1 \in 1 .. MSGMNI /\ (q + 1) - 1 = q
    BY <1>0, <1>5 DEF Queue
  <2>2. v[q + 1] = v[(q + 1) - 1] + AllHeaders[q + 1] BY <1>1, <2>1 DEF IsSum
  <2>3. AllHeaders[q + 1] = Headers((q + 1) - 1) BY <2>1 DEF AllHeaders
  <2>4. v[q] \in Nat BY <1>4, <2>1
  <2>5. q + 1 \in 0 .. MSGMNI BY <2>1
  <2> QED BY <2>1, <2>2, <2>3, <2>4, <2>5
<1>6. ASSUME NEW q \in Queue PROVE v[q] + Headers(q) <= MSGTQL
  <2>1. q + 1 \in 0 .. MSGMNI /\ v[q + 1] = v[q] + Headers(q) BY <1>5, <1>6
  <2>2. MSGMNI \in q + 1 .. MSGMNI BY <1>0, <1>5, <1>6, <2>1
  <2>3. v[q + 1] \in Nat /\ v[MSGMNI] \in Nat /\ v[q + 1] <= v[MSGMNI] BY <1>4, <2>1, <2>2
  <2> QED BY <1>0, <1>1, <2>1, <2>3
<1>7. ASSUME NEW q \in Queue, NEW r \in Queue, q < r PROVE v[q] + Headers(q) <= v[r]
  <2>1. q + 1 \in 0 .. MSGMNI /\ v[q + 1] = v[q] + Headers(q) BY <1>5, <1>7
  <2>2. r \in q + 1 .. MSGMNI BY <1>0, <1>5, <1>7
  <2> QED BY <1>4, <2>1, <2>2
<1> QED BY <1>5, <1>6, <1>7

(* With an entry for every header the map does not overflow. *)
LEMMA NoOverflow ==
    ASSUME MSGTQL <= MapSlots, DInv, SegInv, NEW size \in Nat \ {0}, NEW a \in Nat,
           NEW x, NEW n, \A u : In(u, x, n) <=> u \in Span(a, size), Overflows(msgmap, size, a)
    PROVE  FALSE
<1>0. IInv /\ Shape(msgmap) /\ Ordered(msgmap) /\ MSGSEG \in Nat /\ MSGTQL \in Nat /\ MapSlots \in Nat
  BY MsgAssumption, MapSlotsAssumption DEF DInv, IInv, ShareTypes, SegInv
<1>1. \A u : u \in FreeUnits(msgmap) <=> Spare(u) BY DEF Spare
<1>2. \A u : In(u, x, n) => u \in 1 .. MSGSEG /\ ~Spare(u)
  <2>1. \A u : In(u, x, n) => ~Spare(u) BY <1>0, InOne
  <2>2. \A u : In(u, x, n) => u \in 1 .. MSGSEG BY DEF In, SegInv, Packed
  <2> QED BY <2>1, <2>2
<1>3. a \in Nat \ {0} /\ Span(a, size) \cap FreeUnits(msgmap) = {}
  <2>1. a \in Span(a, size) BY DEF Span
  <2>2. a \in 1 .. MSGSEG BY <1>2, <2>1
  <2>3. a # 0 BY <2>2
  <2> QED BY <1>1, <1>2, <2>3
<1>4. \A u : u \in FreeUnits(msgmap) \/ u \in Span(a, size) => u \in 1 .. MSGSEG
  <2>1. \A u : Spare(u) => u \in 1 .. MSGSEG BY DEF SegInv, Packed
  <2> QED BY <1>1, <1>2, <2>1
<1>5. PICK bp : bp = FreeSlot(msgmap, a) OBVIOUS
<1> DEFINE G(i) == Gap(msgmap, a, bp, i)
<1>6. /\ \A i \in Slot : G(i) \in 1 .. MSGSEG /\ G(i) \notin FreeUnits(msgmap)
      /\ \A i, j \in Slot : i < j => \E s : Parts(msgmap, size, a, G(i), G(j), s)
  BY <1>0, <1>3, <1>4, <1>5, GapFacts
<1> HIDE DEF G
<1>7. PICK v : /\ \A q \in Queue : v[q] \in Nat /\ v[q] + Headers(q) <= MSGTQL
               /\ \A q, r \in Queue : q < r => v[q] + Headers(q) <= v[r]
  BY Numbered
<1> DEFINE Number(i, z) == \E q, k : In(G(i), q, k) /\ z = v[q] + k
           f == [i \in Slot |-> CHOOSE z : Number(i, z)]
<1>8. ASSUME NEW i \in Slot PROVE Number(i, f[i]) /\ f[i] \in 1 .. MSGTQL
  <2>1. \E q, k : In(G(i), q, k) BY <1>1, <1>6, <1>8, InSome
  <2>2. \E z : Number(i, z) BY <2>1
  <2>3. f[i] = CHOOSE z : Number(i, z) BY <1>8
  <2>4. Number(i, f[i])
    <3> HIDE DEF Number, f
    <3> QED BY <2>2, <2>3, Zenon
  <2>5. PICK q, k : In(G(i), q, k) /\ f[i] = v[q] + k
    <3> HIDE DEF f
    <3> QED BY <2>4
  <2> HIDE DEF f, Number
  <2>6. q \in Queue /\ k \in 1 .. Headers(q) BY <1>0, <2>5, InBounds
  <2>7. Headers(q) \in Nat BY <1>0, <2>6, HeadersNat
  <2>8. v[q] \in Nat /\ v[q] + Headers(q) <= MSGTQL BY <1>7, <2>6
  <2>9. f[i] \in 1 .. MSGTQL BY <1>0, <2>5, <2>6, <2>7, <2>8
  <2> QED BY <2>4, <2>9
<1>9. f \in [Slot -> 1 .. MSGTQL]
  <2>1. f = [i \in Slot |-> f[i]] OBVIOUS
  <2> HIDE DEF f
  <2> QED BY <1>8, <2>1
<1>10. PICK i, j \in Slot : i # j /\ f[i] = f[j]
  <2>1. /\ IsFiniteSet(1 .. MapSlots + 1) /\ Cardinality(1 .. MapSlots + 1) = MapSlots + 1
        /\ IsFiniteSet(1 .. MSGTQL) /\ Cardinality(1 .. MSGTQL) = MSGTQL
    <3>1. /\ IsFiniteSet(1 .. MapSlots + 1)
          /\ Cardinality(1 .. MapSlots + 1) = IF 1 > MapSlots + 1 THEN 0 ELSE (MapSlots + 1) - 1 + 1
      BY <1>0, FS_Interval
    <3>2. /\ IsFiniteSet(1 .. MSGTQL)
          /\ Cardinality(1 .. MSGTQL) = IF 1 > MSGTQL THEN 0 ELSE MSGTQL - 1 + 1
      BY <1>0, FS_Interval
    <3> QED BY <1>0, <3>1, <3>2
  <2> HIDE DEF f
  <2>2. IsFiniteSet(Slot) /\ IsFiniteSet(1 .. MSGTQL) /\ Cardinality(1 .. MSGTQL) < Cardinality(Slot)
    BY <1>0, <2>1 DEF Slot
  <2>3. PICK T, g : T = 1 .. MSGTQL /\ g = f OBVIOUS
  <2>4. IsFiniteSet(T) /\ Cardinality(T) < Cardinality(Slot) /\ g \in [Slot -> T] BY <1>9, <2>2, <2>3
  <2>5. \E i, j \in Slot : i # j /\ g[i] = g[j] BY <2>2, <2>4, FS_PigeonHole
  <2> QED BY <2>3, <2>5
<1>11. PICK q, k : In(G(i), q, k) /\ f[i] = v[q] + k
  <2> HIDE DEF f
  <2> QED BY <1>8
<1>12. PICK r, l : In(G(j), r, l) /\ f[j] = v[r] + l
  <2> HIDE DEF f
  <2> QED BY <1>8
<1> HIDE DEF f, Number
<1>13. q = r /\ k = l
  <2>1. q \in Queue /\ r \in Queue /\ k \in 1 .. Headers(q) /\ l \in 1 .. Headers(r)
    BY <1>0, <1>11, <1>12, InBounds
  <2>2. q \in Int /\ r \in Int /\ Headers(q) \in Nat /\ Headers(r) \in Nat
    BY <1>0, <2>1, HeadersNat DEF Queue
  <2>3. v[q] \in Nat /\ v[r] \in Nat BY <1>7, <2>1
  <2>4. v[q] + k = v[r] + l BY <1>10, <1>11, <1>12
  <2>5. ~(q < r)
    <3>1. SUFFICES ASSUME q < r PROVE FALSE OBVIOUS
    <3>2. v[q] + Headers(q) <= v[r] BY <1>7, <2>1, <3>1
    <3> QED BY <2>1, <2>2, <2>3, <2>4, <3>2
  <2>6. ~(r < q)
    <3>1. SUFFICES ASSUME r < q PROVE FALSE OBVIOUS
    <3>2. v[r] + Headers(r) <= v[q] BY <1>7, <2>1, <3>1
    <3> QED BY <2>1, <2>2, <2>3, <2>4, <3>2
  <2>7. q = r BY <2>2, <2>5, <2>6
  <2> QED BY <2>1, <2>2, <2>3, <2>4, <2>7
(* Two gaps of one message: nothing can part them. *)
<1>14. ASSUME NEW g \in Slot, NEW h \in Slot, g < h, In(G(g), q, k), In(G(h), q, k) PROVE FALSE
  <2>1. PICK s : Parts(msgmap, size, a, G(g), G(h), s) BY <1>6, <1>14
  <2>2. s \in G(g) .. G(h) BY <2>1 DEF Parts
  <2>3. G(g) \in Nat /\ G(h) \in Nat BY <1>0, <1>6, <1>14
  <2>4. In(s, q, k) BY <1>0, <1>14, <2>2, <2>3, InRun
  <2>5. ~Spare(s) BY <1>0, <2>4, InOne
  <2>6. s \in Span(a, size) /\ ~(G(g) \in Span(a, size) /\ G(h) \in Span(a, size))
    BY <1>1, <2>1, <2>5 DEF Parts
  <2>7. In(s, x, n) BY <2>6
  <2>8. q = x /\ k = n BY <1>0, <2>4, <2>7, InOne
  <2> QED BY <1>14, <2>6, <2>8
<1>15. i < j \/ j < i BY <1>0, <1>10 DEF Slot
<1> QED BY <1>11, <1>12, <1>13, <1>14, <1>15

LEMMA RoomyAlways == ASSUME MSGTQL <= MapSlots, DInv, SegInv PROVE Roomy
<1>0. IInv /\ ShareTypes /\ ProcTypes BY DEF DInv, IInv
<1>o. ASSUME NEW size \in Nat, NEW a \in Nat, NEW x, NEW n,
             \A u : In(u, x, n) <=> u \in Segs(size, a)
      PROVE  ~Overflows(msgmap, Btoq(size), a)
  <2>1. CASE Btoq(size) = 0 BY <2>1 DEF Overflows
  <2>2. CASE Btoq(size) # 0
    <3>1. size # 0 BY <1>o, <2>2, MsgAssumption DEF Btoq
    <3>2. PICK m : m = Btoq(size) OBVIOUS
    <3>3. m \in Nat \ {0} /\ Segs(size, a) = Span(a, m) BY <1>o, <3>1, <3>2, SegsSpan
    <3>4. \A u : In(u, x, n) <=> u \in Span(a, m) BY <1>o, <3>3
    <3>5. ~Overflows(msgmap, m, a) BY <1>o, <3>3, <3>4, NoOverflow
    <3> QED BY <3>2, <3>5
  <2> QED BY <2>1, <2>2
<1>1. ASSUME NEW q \in Queue, NEW k \in 1 .. Len(mq[q])
      PROVE  ~Overflows(msgmap, Btoq(mq[q][k].size), mq[q][k].spot)
  <2>1. mq[q] \in Seq(Message) /\ Len(mq[q]) \in Nat BY <1>0, LenProperties DEF ShareTypes
  <2>2. mq[q][k] \in Message BY <2>1, ElementOfSeq
  <2>3. mq[q][k].size \in Nat /\ mq[q][k].spot \in Nat BY <2>2 DEF Message
  <2>4. k # Len(mq[q]) + 1 BY <2>1
  <2>5. \A u : In(u, q, k) <=> u \in Segs(mq[q][k].size, mq[q][k].spot) BY <2>4 DEF In, Queued
  <2> QED BY <1>o, <2>3, <2>5
<1>2. ASSUME NEW p \in Fillers PROVE ~Overflows(msgmap, Btoq(call[p].size), held[p])
  <2>1. p \in Proc BY DEF Fillers
  <2>2. call[p].size \in Nat /\ held[p] \in Nat BY <1>0, <2>1 DEF ProcTypes, CallType
  <2>3. PICK q, k : q = Q(p) /\ k = Len(mq[q]) + 1 OBVIOUS
  <2>4. q \in Queue BY <1>0, <2>1, <2>3, QType
  <2>5. Len(mq[q]) \in Nat BY <1>0, <2>4, LenProperties DEF ShareTypes
  <2>6. \A u : ~Queued(u, q, k) BY <2>3, <2>5 DEF Queued
  <2>7. \A u : In(u, q, k) <=> Filling(u, p)
    <3>1. ASSUME NEW u, NEW r, Filling(u, r), Q(r) = q PROVE r = p
      <4>1. r \in Fillers BY <3>1 DEF Filling
      <4> QED BY <1>0, <1>2, <2>3, <3>1, <4>1, FillsAlone
    <3> QED BY <2>3, <2>6, <3>1 DEF In
  <2>8. \A u : In(u, q, k) <=> u \in Segs(call[p].size, held[p]) BY <1>2, <2>7 DEF Filling, TextBy
  <2> QED BY <1>o, <2>2, <2>8
<1> QED BY <1>1, <1>2 DEF Roomy

(* Every segment is free in msgmap, in one message on a queue or with the  *)
(* sender that fills it, every header is accounted for and msg_cbytes is   *)
(* exact, whatever calls succeed, fail, sleep and are interrupted -        *)
(* provided msgmap has an entry for every header (MSGTQL <= MapSlots; in   *)
(* master.d/msg MSGMAP is 100 and MSGTQL 40), so that rmfree never has to  *)
(* throw segments away.                                                    *)
THEOREM PoolsAreExact == MSGTQL <= MapSlots => (Spec => []PoolsExact)
<1> SUFFICES ASSUME MSGTQL <= MapSlots PROVE Spec => []PoolsExact OBVIOUS
<1>1. Init => SegInv BY InitSeg, MsgAssumption, MapSlotsAssumption
<1>2. DInv /\ SegInv /\ [Next]_vars => SegInv' BY NextSeg, RoomyAlways
<1>3. DInv /\ SegInv => SegmentsConserved BY PackedUnits DEF PackedIs, SegInv
<1>4. PoolsExact <=> HeadersConserved /\ SegmentsConserved /\ BytesExact BY DEF PoolsExact
<1> QED BY <1>1, <1>2, <1>3, <1>4, Accounted, HeadersAddUp, BytesAreExact, PTL DEF Spec
=============================================================================
