------------------------------ MODULE MsgQueue -------------------------------
(***************************************************************************)
(* What msgsnd and msgrcv promise, with no sleeping, no locks and no       *)
(* shared pool: a queue is a sequence of messages with a limit on its      *)
(* bytes; sending appends, receiving takes the message the type selects,   *)
(* removal forgets everything at once.  Msg is shown to implement this.    *)
(***************************************************************************)
EXTENDS Integers, SequencesExt

CONSTANTS Queue,      \* the slots of the queue table
          Message,    \* messages, records with fields type and size
          MsgType,    \* selectors a receiver may give
          Limit,      \* limits a queue may have
          NewLimit    \* the limit of a new queue

VARIABLES exists,     \* exists[q]: there is a queue in slot q
          msgs,       \* msgs[q]: its messages, oldest first
          qbytes      \* qbytes[q]: the limit on the bytes in it

avars == <<exists, msgs, qbytes>>

Bytes(s) ==
    LET sum[k \in 0 .. Len(s)] == IF k = 0 THEN 0 ELSE sum[k - 1] + s[k].size
    IN  sum[Len(s)]

(***************************************************************************)
(* The message a selector picks: any (0), the first of a type (> 0), or    *)
(* the first of the lowest type not above -typ (< 0).                      *)
(***************************************************************************)
Eligible(s, typ, k) ==
    \/ typ = 0
    \/ typ > 0 /\ s[k].type = typ
    \/ typ < 0 /\ s[k].type <= -typ

Better(s, typ, j, k) ==      \* j is taken rather than k
    IF typ < 0 /\ s[j].type # s[k].type THEN s[j].type < s[k].type ELSE j < k

Selected(s, typ, k) ==
    /\ k \in 1 .. Len(s) /\ Eligible(s, typ, k)
    /\ \A j \in 1 .. Len(s) : Eligible(s, typ, j) /\ j # k => Better(s, typ, k, j)

Init ==
    /\ exists = [q \in Queue |-> FALSE]
    /\ msgs = [q \in Queue |-> <<>>]
    /\ qbytes \in [Queue -> Limit]

Create(q) ==
    /\ ~exists[q]
    /\ exists' = [exists EXCEPT ![q] = TRUE]
    /\ qbytes' = [qbytes EXCEPT ![q] = NewLimit]
    /\ UNCHANGED msgs

Destroy(q) ==
    /\ exists[q]
    /\ exists' = [exists EXCEPT ![q] = FALSE]
    /\ msgs' = [msgs EXCEPT ![q] = <<>>]
    /\ UNCHANGED qbytes

SetLimit(q, n) ==
    /\ exists[q]
    /\ qbytes' = [qbytes EXCEPT ![q] = n]
    /\ UNCHANGED <<exists, msgs>>

Send(q, m) ==
    /\ exists[q]
    /\ Bytes(msgs[q]) + m.size <= qbytes[q]
    /\ msgs' = [msgs EXCEPT ![q] = Append(@, m)]
    /\ UNCHANGED <<exists, qbytes>>

Receive(q, typ) ==
    /\ exists[q]
    /\ \E k \in 1 .. Len(msgs[q]) :
          /\ Selected(msgs[q], typ, k)
          /\ msgs' = [msgs EXCEPT ![q] = RemoveAt(@, k)]
    /\ UNCHANGED <<exists, qbytes>>

Next ==
    \E q \in Queue :
        \/ Create(q) \/ Destroy(q)
        \/ \E n \in Limit : SetLimit(q, n)
        \/ \E m \in Message : Send(q, m)
        \/ \E typ \in MsgType : Receive(q, typ)

Spec == Init /\ [][Next]_avars
=============================================================================
