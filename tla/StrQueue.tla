------------------------------ MODULE StrQueue ------------------------------
(***************************************************************************)
(* STREAMS message queues, io/stream.c: canput, putq, putbq, getq and      *)
(* flushq, as operators on a queue.  Every one of them runs at splstr from *)
(* its first test to its last assignment.  A message is its size; all are  *)
(* ordinary data in band 0 (the separate counts of the priority bands and  *)
(* the place of priority messages are left out).                           *)
(***************************************************************************)
EXTENDS Naturals, Sequences, SequencesExt

CONSTANTS HIWAT, LOWAT      \* q_hiwat and q_lowat

Flag == {"QFULL", "QWANTW", "QWANTR"}

Queues == [msgs : Seq(Nat), flag : SUBSET Flag]

(* The queue after qattach. *)
NewQueue == [msgs |-> <<>>, flag |-> {"QWANTR"}]

(* q_count *)
Count(q) ==
    LET sum[i \in 0 .. Len(q.msgs)] == IF i = 0 THEN 0 ELSE sum[i - 1] + q.msgs[i]
    IN  sum[Len(q.msgs)]

Canput(q) == "QFULL" \notin q.flag

(* Mutant: canput finds the queue full and leaves no mark. *)
RefusedQuiet(q) == q

Refused(q) == [q EXCEPT !.flag = @ \cup {"QWANTW"}]

Enqueued(q, ms) ==
    LET r == [q EXCEPT !.msgs = ms]
    IN  IF Count(r) >= HIWAT THEN [r EXCEPT !.flag = @ \cup {"QFULL"}] ELSE r

Putq(q, m)  == Enqueued(q, Append(q.msgs, m))
Putbq(q, m) == Enqueued(q, <<m>> \o q.msgs)

(* putq and putbq enable the queue (QNOENB is nowhere set here). *)
Enables(q) == "QWANTR" \in q.flag

(* Mutant: whoever waits is told only when the queue is empty. *)
DrainedEmpty(q, r) == "QWANTW" \in q.flag /\ r.msgs = <<>> /\ q.msgs # <<>>

(* QWANTW goes, and the queue behind is to be enabled: when messages were  *)
(* at the low water mark and are now below it, or for a getq that finds    *)
(* the queue empty.                                                        *)
Drained(q, r) ==
    /\ "QWANTW" \in q.flag
    /\ q.msgs # <<>> => Count(q) >= LOWAT
    /\ Count(r) < LOWAT

NotFull(q) == IF Count(q) < HIWAT THEN q.flag \ {"QFULL"} ELSE q.flag

(* The queue that getq leaves, whether it enables the one behind it, and   *)
(* the message, 0 for NULL.                                                *)
Getq(q) ==
    LET r == IF q.msgs = <<>> THEN q ELSE [q EXCEPT !.msgs = Tail(@)]
        f == IF q.msgs = <<>> THEN q.flag \cup {"QWANTR"} ELSE NotFull(r) \ {"QWANTR"}
        b == Drained(q, r)
    IN  [q    |-> [r EXCEPT !.flag = IF b THEN f \ {"QWANTW"} ELSE f],
         back |-> b,
         m    |-> IF q.msgs = <<>> THEN 0 ELSE Head(q.msgs)]

(* The queue after putq of the first i messages of ms, and after i getqs,  *)
(* for every i.                                                            *)
Filled(q, ms) ==
    LET h[i \in 0 .. Len(ms)] == IF i = 0 THEN q ELSE Putq(h[i - 1], ms[i])
    IN  h

Emptied(q) ==
    LET d[i \in 0 .. Len(q.msgs)] == IF i = 0 THEN q ELSE Getq(d[i - 1]).q
    IN  d

(* flushq of a queue of data messages. *)
Flushq(q) ==
    LET b == "QWANTW" \in q.flag /\ 0 < LOWAT
        f == q.flag \ {"QFULL"}
    IN  [q |-> [msgs |-> <<>>, flag |-> IF b THEN f \ {"QWANTW"} ELSE f], back |-> b]
=============================================================================
