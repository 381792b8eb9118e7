---------------------------- MODULE Streams_proofs ----------------------------
(***************************************************************************)
(* STREAMS flow control and queue scheduling, for any number of processes  *)
(* and streams, any water marks and any sizes of messages: no process      *)
(* sleeps in strwaitq without having been promised a wakeup, data moves    *)
(* whenever it may, nothing that strwrite has accepted is lost, and the    *)
(* two lists that queuerun works on are whole.                             *)
(*                                                                         *)
(* The invariant has three parts.  Flow: every queue is marked as its      *)
(* contents require, what waits in it waits for somebody who will come,    *)
(* and every process has the entry that its place in the code needs.       *)
(* Room: a message is held back or in hand only while the driver's queue   *)
(* has room; it needs that strmakemsg does not sleep.  Linked: q_link runs *)
(* from the head of a list to its tail.  One field serves both lists, so   *)
(* that is true only of streams that do not use both at once: OneList is   *)
(* for streams on which no write is held back, ShortLists for a single     *)
(* stream that does not receive (neither list then gets a second queue).   *)
(***************************************************************************)
EXTENDS Streams, TLAPS, NaturalsInduction, WellFoundedInduction, FiniteSetTheorems


(***************************************************************************)
(* Facts about the linked lists of the kernel, which the model keeps as    *)
(* sequences without repetition.                                           *)
(***************************************************************************)
(* A set of naturals that has a member has a least one, its Min. *)
LEMMA LeastMember ==
    ASSUME NEW S \in SUBSET Nat, NEW x \in S
    PROVE  Min(S) \in S /\ \A z \in S : Min(S) <= z
<1>1. IsWellFoundedOn(OpToRel(<, Nat), Nat)
  BY NatLessThanWellFounded, Zenon
<1>2. PICK y \in S : \A z \in S : ~(<<z, y>> \in OpToRel(<, Nat))
  BY <1>1, WFMin
<1>3. ASSUME NEW z \in S PROVE y <= z
  <2>1. ~(z < y)
    BY <1>2, <1>3 DEF OpToRel
  <2> QED BY <2>1
<1>4. \E m \in S : \A z \in S : m <= z
  BY <1>3
<1> QED BY <1>4 DEF Min

(* The members of a sequence, by position. *)
LEMMA MemberIff ==
    ASSUME NEW A, NEW q \in Seq(A), NEW e
    PROVE  e \in ToSet(q) <=> \E i \in 1..Len(q) : q[i] = e
BY DEF ToSet

(* Appending a new member. *)
LEMMA AppendFacts ==
    ASSUME NEW A, NEW q \in Seq(A), NEW e \in A, e \notin ToSet(q), IsInjective(q)
    PROVE  /\ Append(q, e) \in Seq(A) /\ IsInjective(Append(q, e))
           /\ ToSet(Append(q, e)) = ToSet(q) \cup {e}
<1> DEFINE r == Append(q, e)
<1>1. /\ r \in Seq(A) /\ Len(r) = Len(q) + 1 /\ r[Len(q) + 1] = e
      /\ \A i \in 1..Len(q) : r[i] = q[i]
  OBVIOUS
<1> HIDE DEF r
<1>2. IsInjective(r)
  <2> SUFFICES ASSUME NEW i \in 1..Len(r), NEW j \in 1..Len(r), r[i] = r[j]
               PROVE  i = j
    BY <1>1 DEF IsInjective
  <2>1. \A a, b \in 1..Len(q) : q[a] = q[b] => a = b
    BY DEF IsInjective
  <2>2. \A a \in 1..Len(q) : q[a] # e
    BY MemberIff
  <2> QED BY <1>1, <2>1, <2>2
<1>3. ToSet(r) = ToSet(q) \cup {e}
  <2>1. \A x : x \in ToSet(r) <=> \E i \in 1..Len(r) : r[i] = x
    BY <1>1, MemberIff
  <2>2. \A x : x \in ToSet(q) <=> \E i \in 1..Len(q) : q[i] = x
    BY MemberIff
  <2>3. ASSUME NEW x \in ToSet(r) PROVE x \in ToSet(q) \cup {e}
    BY <1>1, <2>1, <2>2, <2>3
  <2>4. ASSUME NEW x \in ToSet(q) PROVE x \in ToSet(r)
    <3>1. PICK i \in 1..Len(q) : q[i] = x
      BY <2>2, <2>4
    <3>2. i \in 1..Len(r) /\ r[i] = x
      BY <1>1, <3>1
    <3> QED BY <2>1, <3>2
  <2>5. e \in ToSet(r)
    <3>1. Len(q) + 1 \in 1..Len(r)
      BY <1>1
    <3> QED BY <1>1, <2>1, <3>1
  <2> QED BY <2>3, <2>4, <2>5
<1> QED BY <1>1, <1>2, <1>3 DEF r

(* A sequence without repetition has as many members as positions. *)
LEMMA InjectiveCardinality ==
    ASSUME NEW A, NEW q \in Seq(A), IsInjective(q)
    PROVE  IsFiniteSet(ToSet(q)) /\ Cardinality(ToSet(q)) = Len(q)
<1>1. Len(q) \in Nat /\ q \in [1..Len(q) -> ToSet(q)]
  BY DEF ToSet
<1>2. \A t \in ToSet(q) : \E s \in 1..Len(q) : q[s] = t
  BY MemberIff
<1>3. \A a, b \in 1..Len(q) : q[a] = q[b] => a = b
  BY DEF IsInjective
<1>4. ExistsBijection(1..Len(q), ToSet(q))
  BY <1>1, <1>2, <1>3 DEF ExistsBijection, Bijection, Injection, Surjection, IsInjective
<1>5. IsFiniteSet(1..Len(q))
  BY <1>1, FS_Interval
<1>6. IsFiniteSet(ToSet(q))
  BY <1>4, <1>5, FS_Bijection
<1> QED BY <1>1, <1>4, <1>6, FS_CountingElements

(* Taking the first one off. *)
LEMMA TailFacts ==
    ASSUME NEW A, NEW q \in Seq(A), q # << >>, IsInjective(q)
    PROVE  /\ Tail(q) \in Seq(A) /\ IsInjective(Tail(q)) /\ Head(q) \in ToSet(q)
           /\ Head(q) \in A /\ ToSet(Tail(q)) = ToSet(q) \ {Head(q)}
<1> DEFINE r == Tail(q)
<1>1. /\ r \in Seq(A) /\ Len(q) \in Nat /\ Len(q) # 0 /\ Len(r) = Len(q) - 1
      /\ \A i \in 1 .. Len(q) - 1 : r[i] = q[i + 1]
      /\ Head(q) = q[1] /\ q[1] \in A
  OBVIOUS
<1> HIDE DEF r
<1>2. \A a, b \in 1..Len(q) : q[a] = q[b] => a = b
  BY DEF IsInjective
<1>3. IsInjective(r)
  <2> SUFFICES ASSUME NEW i \in 1..Len(r), NEW j \in 1..Len(r), r[i] = r[j]
               PROVE  i = j
    BY <1>1 DEF IsInjective
  <2>1. i + 1 \in 1..Len(q) /\ j + 1 \in 1..Len(q) BY <1>1
  <2>2. i + 1 = j + 1 BY <1>1, <1>2, <2>1
  <2> QED BY <2>2
<1>4. \A x : x \in ToSet(r) <=> \E i \in 1..Len(r) : r[i] = x
  BY <1>1, MemberIff
<1>5. \A x : x \in ToSet(q) <=> \E i \in 1..Len(q) : q[i] = x
  BY MemberIff
<1>6. 1 \in 1..Len(q) BY <1>1
<1>7. ASSUME NEW x \in ToSet(r) PROVE x \in ToSet(q) /\ x # q[1]
  <2>1. PICK i \in 1..Len(r) : r[i] = x BY <1>4, <1>7
  <2>2. i + 1 \in 1..Len(q) /\ q[i + 1] = x /\ i + 1 # 1 BY <1>1, <2>1
  <2> QED BY <1>2, <1>5, <1>6, <2>2
<1>8. ASSUME NEW x \in ToSet(q), x # q[1] PROVE x \in ToSet(r)
  <2>1. PICK i \in 1..Len(q) : q[i] = x BY <1>5, <1>8
  <2>2. i # 1 BY <1>8, <2>1
  <2>3. i - 1 \in 1..Len(r) /\ r[i - 1] = x BY <1>1, <2>1, <2>2
  <2> QED BY <1>4, <2>3
<1>9. q[1] \in ToSet(q) BY <1>5, <1>6
<1> QED BY <1>1, <1>3, <1>7, <1>8, <1>9 DEF r

(***************************************************************************)
(* q_count.                                                                *)
(***************************************************************************)
(* v[i] is the sum of the first i numbers of ms. *)
Sums(v, ms) == v = [i \in 0 .. Len(ms) |-> IF i = 0 THEN 0 ELSE v[i - 1] + ms[i]]

(* There are such sums. *)
LEMMA SumsExist == ASSUME NEW ms, Len(ms) \in Nat PROVE \E v : Sums(v, ms)
<1> DEFINE P(v, m) == v = [i \in 0 .. m |-> IF i = 0 THEN 0 ELSE v[i - 1] + ms[i]]
           S == {m \in Nat : ~\E v : P(v, m)}
<1>1. SUFFICES S = {} BY DEF Sums
<1>2. SUFFICES ASSUME NEW x \in S PROVE FALSE OBVIOUS
<1>3. S \in SUBSET Nat OBVIOUS
<1>4. PICK m \in S : \A z \in S : m <= z
  <2> HIDE DEF S
  <2> QED BY <1>3, LeastMember
<1>5. m \in Nat /\ ~\E v : P(v, m) OBVIOUS
<1>6. CASE m = 0
  <2> DEFINE v == [i \in 0 .. m |-> 0]
  <2>1. P(v, m) BY <1>6
  <2> QED BY <1>5, <2>1
<1>7. CASE m # 0
  <2>1. m - 1 \in Nat /\ ~(m <= m - 1) BY <1>5, <1>7
  <2>2. PICK w : P(w, m - 1) BY <1>4, <2>1
  <2> DEFINE v == [i \in 0 .. m |-> IF i = m THEN w[m - 1] + ms[m] ELSE w[i]]
  <2>4. ASSUME NEW i \in 0 .. m PROVE v[i] = IF i = 0 THEN 0 ELSE v[i - 1] + ms[i]
    <3>1. CASE i = m
      <4>1. v[i - 1] = w[m - 1] BY <1>5, <1>7, <3>1
      <4> QED BY <1>5, <1>7, <3>1, <4>1
    <3>2. CASE i # m
      <4>1. i \in 0 .. m - 1 /\ v[i] = w[i] BY <1>5, <3>2
      <4>2. w[i] = IF i = 0 THEN 0 ELSE w[i - 1] + ms[i] BY <2>2, <4>1
      <4>3. i # 0 => v[i - 1] = w[i - 1] BY <1>5, <4>1
      <4> QED BY <4>1, <4>2, <4>3
    <3> QED BY <3>1, <3>2
  <2>5. v = [i \in 0 .. m |-> v[i]] OBVIOUS
  <2> HIDE DEF v
  <2>6. P(v, m) BY <2>4, <2>5
  <2> QED BY <1>5, <2>6
<1> QED BY <1>6, <1>7

(* Count() is the last of them. *)
LEMMA CountIs ==
    ASSUME NEW q, q.msgs \in Seq(Nat)
    PROVE  \E v : /\ Count(q) = v[Len(q.msgs)] /\ v[0] = 0
                  /\ \A i \in 1 .. Len(q.msgs) : v[i] = v[i - 1] + q.msgs[i]
                  /\ \A i \in 0 .. Len(q.msgs) : v[i] \in Nat
<1>0. PICK n, ms : n = Len(q.msgs) /\ ms = q.msgs OBVIOUS
<1>n. n \in Nat /\ ms \in Seq(Nat) BY <1>0
<1> DEFINE P(v) == v = [i \in 0 .. n |-> IF i = 0 THEN 0 ELSE v[i - 1] + ms[i]]
           sum == CHOOSE v : P(v)
<1>1. P(sum)
  <2>1. \E v : P(v)
    <3>1. \E v : Sums(v, ms) BY <1>0, <1>n, SumsExist
    <3> QED BY <3>1, <1>0 DEF Sums
  <2> HIDE DEF P
  <2> QED BY <2>1, Zenon
<1>2. Count(q) = sum[n] BY <1>0 DEF Count
<1> HIDE DEF sum
<1>3. \A i \in 0 .. n : sum[i] = IF i = 0 THEN 0 ELSE sum[i - 1] + ms[i] BY <1>1
<1>4. sum[0] = 0 /\ \A i \in 1 .. n : sum[i] = sum[i - 1] + ms[i]
  <2>1. 0 \in 0 .. n /\ \A i \in 1 .. n : i \in 0 .. n /\ i # 0 BY <1>n
  <2> QED BY <1>3, <2>1
<1>5. \A i \in 0 .. n : sum[i] \in Nat
  <2> DEFINE S == {j \in Nat : j <= n /\ sum[j] \notin Nat}
  <2>1. SUFFICES S = {} BY <1>n
  <2>2. SUFFICES ASSUME NEW x \in S PROVE FALSE OBVIOUS
  <2>3. S \in SUBSET Nat OBVIOUS
  <2>4. PICK j \in S : \A z \in S : j <= z
    <3> HIDE DEF S
    <3> QED BY <2>3, LeastMember
  <2>5. j \in Nat /\ j <= n /\ sum[j] \notin Nat OBVIOUS
  <2>6. j # 0 BY <1>4, <2>5
  <2>7. j \in 1 .. n /\ j - 1 \in Nat /\ j - 1 <= n /\ ~(j <= j - 1) BY <1>n, <2>5, <2>6
  <2>8. sum[j - 1] \in Nat BY <2>4, <2>7
  <2>9. ms[j] \in Nat BY <1>0, <1>n, <2>7
  <2> QED BY <1>4, <2>5, <2>7, <2>8, <2>9
<1> QED BY <1>0, <1>2, <1>4, <1>5

(* The count of no messages, one more behind and one more in front. *)
LEMMA CountNat == ASSUME NEW q, q.msgs \in Seq(Nat) PROVE Count(q) \in Nat
<1>1. Len(q.msgs) \in Nat /\ Len(q.msgs) \in 0 .. Len(q.msgs) OBVIOUS
<1> QED BY <1>1, CountIs

(* A queue of no messages counts 0. *)
LEMMA CountNone == ASSUME NEW q, q.msgs = << >> PROVE Count(q) = 0
<1>1. q.msgs \in Seq(Nat) /\ Len(q.msgs) = 0 OBVIOUS
<1> QED BY <1>1, CountIs

(* One more behind. *)
LEMMA CountAppend ==
    ASSUME NEW q, NEW r, NEW m \in Nat, q.msgs \in Seq(Nat), r.msgs = Append(q.msgs, m)
    PROVE  Count(r) = Count(q) + m
<1>0. PICK n, ms, mt : n = Len(q.msgs) /\ ms = q.msgs /\ mt = r.msgs OBVIOUS
<1>1. /\ n \in Nat /\ ms \in Seq(Nat) /\ mt \in Seq(Nat) /\ Len(mt) = n + 1
      /\ mt[n + 1] = m /\ \A i \in 1 .. n : mt[i] = ms[i]
  BY <1>0
<1>2. PICK u : /\ Count(q) = u[n] /\ u[0] = 0 /\ (\A i \in 1 .. n : u[i] = u[i - 1] + ms[i])
               /\ \A i \in 0 .. n : u[i] \in Nat
  BY <1>0, <1>1, CountIs
<1>3. PICK v : /\ Count(r) = v[n + 1] /\ v[0] = 0 /\ (\A i \in 1 .. n + 1 : v[i] = v[i - 1] + mt[i])
  <2>0. r.msgs \in Seq(Nat) BY <1>0, <1>1
  <2>1. PICK v : /\ Count(r) = v[Len(r.msgs)] /\ v[0] = 0
                 /\ \A i \in 1 .. Len(r.msgs) : v[i] = v[i - 1] + r.msgs[i]
                 /\ \A i \in 0 .. Len(r.msgs) : v[i] \in Nat
    BY <2>0, CountIs, Zenon
  <2> QED BY <2>1, <1>0, <1>1
<1> DEFINE S == {j \in Nat : j <= n /\ v[j] # u[j]}
<1>4. S = {}
  <2>2. SUFFICES ASSUME NEW x \in S PROVE FALSE OBVIOUS
  <2>3. S \in SUBSET Nat OBVIOUS
  <2>4. PICK j \in S : \A z \in S : j <= z
    <3> HIDE DEF S
    <3> QED BY <2>3, LeastMember
  <2>5. j \in Nat /\ j <= n /\ v[j] # u[j] OBVIOUS
  <2>6. j # 0 BY <1>2, <1>3, <2>5
  <2>7. j \in 1 .. n /\ j \in 1 .. n + 1 /\ j - 1 \in Nat /\ j - 1 <= n /\ ~(j <= j - 1)
    BY <1>1, <2>5, <2>6
  <2>8. v[j - 1] = u[j - 1] BY <2>4, <2>7
  <2> QED BY <1>1, <1>2, <1>3, <2>5, <2>7, <2>8
<1>5. v[n] = u[n]
  <2>1. n \notin S BY <1>4
  <2> QED BY <2>1, <1>1
<1>6. n + 1 \in 1 .. n + 1 /\ (n + 1) - 1 = n BY <1>1
<1>7. v[n + 1] = v[n] + m BY <1>1, <1>3, <1>6
<1> QED BY <1>2, <1>3, <1>5, <1>7

(* One more in front. *)
LEMMA CountPrepend ==
    ASSUME NEW q, NEW r, NEW m \in Nat, q.msgs \in Seq(Nat), r.msgs = <<m>> \o q.msgs
    PROVE  Count(r) = Count(q) + m
<1>0. PICK n, ms, mt : n = Len(q.msgs) /\ ms = q.msgs /\ mt = r.msgs OBVIOUS
<1>1. /\ n \in Nat /\ ms \in Seq(Nat) /\ mt \in Seq(Nat) /\ Len(mt) = n + 1
      /\ mt[1] = m /\ \A i \in 1 .. n : mt[i + 1] = ms[i]
  BY <1>0
<1>2. PICK u : /\ Count(q) = u[n] /\ u[0] = 0 /\ (\A i \in 1 .. n : u[i] = u[i - 1] + ms[i])
               /\ \A i \in 0 .. n : u[i] \in Nat
  BY <1>0, <1>1, CountIs
<1>3. PICK v : /\ Count(r) = v[n + 1] /\ v[0] = 0 /\ (\A i \in 1 .. n + 1 : v[i] = v[i - 1] + mt[i])
  <2>0. r.msgs \in Seq(Nat) BY <1>0, <1>1
  <2>1. PICK v : /\ Count(r) = v[Len(r.msgs)] /\ v[0] = 0
                 /\ \A i \in 1 .. Len(r.msgs) : v[i] = v[i - 1] + r.msgs[i]
                 /\ \A i \in 0 .. Len(r.msgs) : v[i] \in Nat
    BY <2>0, CountIs, Zenon
  <2> QED BY <2>1, <1>0, <1>1
<1> DEFINE S == {j \in Nat : j <= n /\ v[j + 1] # u[j] + m}
<1>4. S = {}
  <2>2. SUFFICES ASSUME NEW x \in S PROVE FALSE OBVIOUS
  <2>3. S \in SUBSET Nat OBVIOUS
  <2>4. PICK j \in S : \A z \in S : j <= z
    <3> HIDE DEF S
    <3> QED BY <2>3, LeastMember
  <2>5. j \in Nat /\ j <= n /\ v[j + 1] # u[j] + m OBVIOUS
  <2>6. j # 0
    <3>1. 1 \in 1 .. n + 1 /\ 1 - 1 = 0 BY <1>1
    <3>2. v[1] = v[0] + mt[1] BY <1>3, <3>1
    <3> QED BY <1>1, <1>2, <1>3, <2>5, <3>2
  <2>7. j \in 1 .. n /\ j + 1 \in 1 .. n + 1 /\ j - 1 \in Nat /\ j - 1 <= n /\ ~(j <= j - 1)
        /\ (j - 1) + 1 = j /\ (j + 1) - 1 = j
    BY <1>1, <2>5, <2>6
  <2>8. v[j] = u[j - 1] + m BY <2>4, <2>7
  <2>9. v[j + 1] = v[j] + ms[j] /\ u[j] = u[j - 1] + ms[j] BY <1>1, <1>2, <1>3, <2>7
  <2>10. u[j - 1] \in Nat /\ ms[j] \in Nat
    <3>1. j - 1 \in 0 .. n BY <1>1, <2>7
    <3>2. ms[j] \in Nat BY <1>0, <1>1, <2>7
    <3> QED BY <1>2, <3>1, <3>2
  <2> QED BY <2>5, <2>8, <2>9, <2>10
<1>5. v[n + 1] = u[n] + m
  <2>1. n \notin S BY <1>4
  <2> QED BY <2>1, <1>1
<1> QED BY <1>2, <1>3, <1>5

(* Without the first. *)
LEMMA CountTail ==
    ASSUME NEW q, NEW r, q.msgs \in Seq(Nat), q.msgs # << >>, r.msgs = Tail(q.msgs)
    PROVE  Count(q) = Count(r) + Head(q.msgs)
<1>1. Head(q.msgs) \in Nat /\ r.msgs \in Seq(Nat) OBVIOUS
<1>2. q.msgs = <<Head(q.msgs)>> \o r.msgs OBVIOUS
<1> QED BY <1>1, <1>2, CountPrepend

(* The count is that of the messages. *)
LEMMA CountSame == ASSUME NEW q, NEW r, r.msgs = q.msgs PROVE Count(r) = Count(q)
BY DEF Count

(***************************************************************************)
(* The operations on a queue.                                              *)
(***************************************************************************)
(* Messages are not empty and none is longer than b; QFULL says that the   *)
(* count is at the high water mark.                                        *)
QueueOK(q, b) ==
    /\ q \in Queues
    /\ \A i \in 1 .. Len(q.msgs) : 0 < q.msgs[i] /\ q.msgs[i] <= b
    /\ "QFULL" \in q.flag <=> HIWAT <= Count(q)

(* putq and putbq of a message. *)
LEMMA EnqueuedFacts ==
    ASSUME NEW q, NEW b \in Nat, NEW m \in Nat, QueueOK(q, b), 0 < m, m <= b, NEW ms,
           ms = Append(q.msgs, m) \/ ms = <<m>> \o q.msgs
    PROVE  /\ QueueOK(Enqueued(q, ms), b) /\ Enqueued(q, ms).msgs = ms
           /\ Count(Enqueued(q, ms)) = Count(q) + m /\ ms # << >>
           /\ ("QWANTW" \in Enqueued(q, ms).flag <=> "QWANTW" \in q.flag) /\ ("QWANTR" \in Enqueued(q, ms).flag <=> "QWANTR" \in q.flag)
<1>0. HIWAT \in Nat BY StreamsAssumption
<1>1. q \in [msgs : Seq(Nat), flag : SUBSET Flag] BY DEF QueueOK, Queues
<1>2. q.msgs \in Seq(Nat) /\ q.flag \in SUBSET Flag BY <1>1
<1>3. PICK r : r = [q EXCEPT !.msgs = ms] OBVIOUS
<1>4. ms \in Seq(Nat) /\ ms # << >> /\ \A i \in 1 .. Len(ms) : 0 < ms[i] /\ ms[i] <= b
  <2>1. \A i \in 1 .. Len(q.msgs) : 0 < q.msgs[i] /\ q.msgs[i] <= b BY DEF QueueOK
  <2>2. CASE ms = Append(q.msgs, m)
    <3>1. /\ ms \in Seq(Nat) /\ ms # << >> /\ Len(ms) = Len(q.msgs) + 1 /\ ms[Len(q.msgs) + 1] = m
          /\ \A i \in 1 .. Len(q.msgs) : ms[i] = q.msgs[i]
      BY <1>2, <2>2
    <3>2. Len(q.msgs) \in Nat BY <1>2
    <3>3. \A i \in 1 .. Len(ms) : i \in 1 .. Len(q.msgs) \/ i = Len(q.msgs) + 1 BY <3>1, <3>2
    <3> QED BY <2>1, <3>1, <3>3
  <2>3. CASE ms = <<m>> \o q.msgs
    <3>1. /\ ms \in Seq(Nat) /\ ms # << >> /\ Len(ms) = Len(q.msgs) + 1 /\ ms[1] = m
          /\ \A i \in 2 .. Len(q.msgs) + 1 : ms[i] = q.msgs[i - 1]
      BY <1>2, <2>3
    <3>2. Len(q.msgs) \in Nat BY <1>2
    <3>3. \A i \in 1 .. Len(ms) : i = 1 \/ (i \in 2 .. Len(q.msgs) + 1 /\ i - 1 \in 1 .. Len(q.msgs))
      BY <3>1, <3>2
    <3> QED BY <2>1, <3>1, <3>3
  <2> QED BY <2>2, <2>3
<1>5. r \in [msgs : Seq(Nat), flag : SUBSET Flag] /\ r.msgs = ms /\ r.flag = q.flag
  BY <1>1, <1>2, <1>3, <1>4
<1>6. Count(r) = Count(q) + m /\ Count(q) \in Nat BY <1>2, <1>5, CountAppend, CountPrepend, CountNat
<1>7. PICK t : t = Enqueued(q, ms) OBVIOUS
<1>8. /\ t.msgs = ms /\ t \in [msgs : Seq(Nat), flag : SUBSET Flag]
      /\ t.flag = IF HIWAT <= Count(r) THEN q.flag \cup {"QFULL"} ELSE q.flag
  <2>1. t = IF Count(r) >= HIWAT THEN [r EXCEPT !.flag = @ \cup {"QFULL"}] ELSE r
    BY <1>3, <1>7 DEF Enqueued
  <2>2. {"QFULL"} \in SUBSET Flag BY DEF Flag
  <2> HIDE DEF Flag
  <2> QED BY <1>0, <1>5, <1>6, <2>1, <2>2
<1>9. Count(t) = Count(r) BY <1>5, <1>8, CountSame
<1>10. "QFULL" \in t.flag <=> HIWAT <= Count(t)
  <2>1. "QFULL" \in q.flag <=> HIWAT <= Count(q) BY DEF QueueOK
  <2> QED BY <1>0, <1>6, <1>8, <1>9, <2>1
<1>11. QueueOK(t, b) BY <1>4, <1>8, <1>10 DEF QueueOK, Queues
<1>12. ("QWANTW" \in t.flag <=> "QWANTW" \in q.flag) /\ ("QWANTR" \in t.flag <=> "QWANTR" \in q.flag)
  BY <1>8
<1> QED BY <1>4, <1>6, <1>7, <1>8, <1>9, <1>11, <1>12

(* putq. *)
LEMMA PutqFacts ==
    ASSUME NEW q, NEW b \in Nat, NEW m \in Nat, QueueOK(q, b), 0 < m, m <= b
    PROVE  /\ QueueOK(Putq(q, m), b) /\ Count(Putq(q, m)) = Count(q) + m
           /\ Putq(q, m).msgs # << >> /\ Putq(q, m).msgs = Append(q.msgs, m)
           /\ ("QWANTW" \in Putq(q, m).flag <=> "QWANTW" \in q.flag) /\ ("QWANTR" \in Putq(q, m).flag <=> "QWANTR" \in q.flag)
<1>1. PICK ms : ms = Append(q.msgs, m) OBVIOUS
<1>2. Putq(q, m) = Enqueued(q, ms) BY <1>1 DEF Putq
<1>3. /\ QueueOK(Enqueued(q, ms), b) /\ Enqueued(q, ms).msgs = ms
      /\ Count(Enqueued(q, ms)) = Count(q) + m /\ ms # << >>
      /\ ("QWANTW" \in Enqueued(q, ms).flag <=> "QWANTW" \in q.flag) /\ ("QWANTR" \in Enqueued(q, ms).flag <=> "QWANTR" \in q.flag)
  BY <1>1, EnqueuedFacts
<1> QED BY <1>1, <1>2, <1>3

(* putbq. *)
LEMMA PutbqFacts ==
    ASSUME NEW q, NEW b \in Nat, NEW m \in Nat, QueueOK(q, b), 0 < m, m <= b
    PROVE  /\ QueueOK(Putbq(q, m), b) /\ Count(Putbq(q, m)) = Count(q) + m
           /\ Putbq(q, m).msgs # << >> /\ Putbq(q, m).msgs = <<m>> \o q.msgs
           /\ ("QWANTW" \in Putbq(q, m).flag <=> "QWANTW" \in q.flag) /\ ("QWANTR" \in Putbq(q, m).flag <=> "QWANTR" \in q.flag)
<1>1. PICK ms : ms = <<m>> \o q.msgs OBVIOUS
<1>2. Putbq(q, m) = Enqueued(q, ms) BY <1>1 DEF Putbq
<1>3. /\ QueueOK(Enqueued(q, ms), b) /\ Enqueued(q, ms).msgs = ms
      /\ Count(Enqueued(q, ms)) = Count(q) + m /\ ms # << >>
      /\ ("QWANTW" \in Enqueued(q, ms).flag <=> "QWANTW" \in q.flag) /\ ("QWANTR" \in Enqueued(q, ms).flag <=> "QWANTR" \in q.flag)
  BY <1>1, EnqueuedFacts
<1> QED BY <1>1, <1>2, <1>3

(* The fields of a queue. *)
LEMMA QueueTyped ==
    ASSUME NEW q, NEW b \in Nat, QueueOK(q, b)
    PROVE  q.msgs \in Seq(Nat) /\ q.flag \subseteq Flag /\ Count(q) \in Nat /\ (q.msgs = << >> => Count(q) = 0)
           /\ (Canput(q) <=> Count(q) < HIWAT)
<1>0. HIWAT \in Nat BY StreamsAssumption
<1>1. q.msgs \in Seq(Nat) /\ q.flag \subseteq Flag BY DEF QueueOK, Queues
<1>2. Count(q) \in Nat /\ (q.msgs = << >> => Count(q) = 0) BY <1>1, CountNat, CountNone
<1> QED BY <1>0, <1>1, <1>2 DEF QueueOK, Canput

(* getq. *)
LEMMA GetqFacts ==
    ASSUME NEW q, NEW b \in Nat, QueueOK(q, b)
    PROVE  /\ QueueOK(Getq(q).q, b) /\ Getq(q).back \in BOOLEAN
           /\ q.msgs = << >> => /\ Getq(q).m = 0 /\ Getq(q).q.msgs = << >> /\ "QWANTR" \in Getq(q).q.flag
           /\ q.msgs # << >> => /\ Getq(q).m = Head(q.msgs) /\ 0 < Getq(q).m /\ Getq(q).m <= b
                                /\ Getq(q).q.msgs = Tail(q.msgs) /\ "QWANTR" \notin Getq(q).q.flag
           /\ Getq(q).m \in Nat /\ Count(q) = Count(Getq(q).q) + Getq(q).m
           /\ Getq(q).back => "QWANTW" \in q.flag
           /\ "QWANTW" \in Getq(q).q.flag <=> "QWANTW" \in q.flag /\ ~Getq(q).back
           /\ "QWANTW" \in Getq(q).q.flag /\ LOWAT <= Count(q) => LOWAT <= Count(Getq(q).q)
<1>0. HIWAT \in Nat /\ LOWAT \in Nat /\ 0 < LOWAT /\ LOWAT <= HIWAT BY StreamsAssumption
<1>1. q \in [msgs : Seq(Nat), flag : SUBSET Flag] BY DEF QueueOK, Queues
<1>2. q.msgs \in Seq(Nat) /\ q.flag \in SUBSET Flag /\ Count(q) \in Nat BY <1>1, QueueTyped
<1>3. PICK r : r = IF q.msgs = << >> THEN q ELSE [q EXCEPT !.msgs = Tail(@)] OBVIOUS
<1>4. PICK f : f = IF q.msgs = << >> THEN q.flag \cup {"QWANTR"} ELSE NotFull(r) \ {"QWANTR"} OBVIOUS
<1>5. PICK k : k = Drained(q, r) OBVIOUS
<1>6. PICK t : t = [r EXCEPT !.flag = IF k THEN f \ {"QWANTW"} ELSE f] OBVIOUS
<1>7. /\ Getq(q).q = t /\ Getq(q).back = k /\ Getq(q).m = IF q.msgs = << >> THEN 0 ELSE Head(q.msgs)
  BY <1>3, <1>4, <1>5, <1>6 DEF Getq
<1>8. /\ r \in [msgs : Seq(Nat), flag : SUBSET Flag] /\ r.flag = q.flag
      /\ r.msgs = IF q.msgs = << >> THEN << >> ELSE Tail(q.msgs)
  <2>1. CASE q.msgs = << >> BY <1>1, <1>2, <1>3, <2>1
  <2>2. CASE q.msgs # << >>
    <3>1. r = [q EXCEPT !.msgs = Tail(q.msgs)] BY <1>3, <2>2
    <3>2. Tail(q.msgs) \in Seq(Nat) BY <1>2, <2>2
    <3> QED BY <1>1, <1>2, <2>2, <3>1, <3>2
  <2> QED BY <2>1, <2>2
<1>9. f \in SUBSET Flag
  <2>1. {"QWANTR"} \in SUBSET Flag BY DEF Flag
  <2> QED BY <1>2, <1>4, <1>8, <2>1 DEF NotFull
<1>10. t \in [msgs : Seq(Nat), flag : SUBSET Flag] /\ t.msgs = r.msgs /\ t.flag = IF k THEN f \ {"QWANTW"} ELSE f
  BY <1>6, <1>8, <1>9
<1>11. Count(t) = Count(r) /\ Count(r) \in Nat BY <1>8, <1>10, CountSame, CountNat
<1>12. \A i \in 1 .. Len(q.msgs) : 0 < q.msgs[i] /\ q.msgs[i] <= b BY DEF QueueOK
<1>13. k <=> /\ "QWANTW" \in q.flag /\ (q.msgs # << >> => LOWAT <= Count(q)) /\ Count(r) < LOWAT
  BY <1>0, <1>2, <1>5, <1>11 DEF Drained
<1>14. k \in BOOLEAN BY <1>5 DEF Drained
<1>15. "QFULL" \in q.flag <=> HIWAT <= Count(q) BY DEF QueueOK
<1>16. CASE q.msgs = << >>
  <2>1. r = q /\ f = q.flag \cup {"QWANTR"} /\ Count(q) = 0 BY <1>3, <1>4, <1>16, CountNone
  <2>2. "QFULL" \in t.flag <=> HIWAT <= Count(t) BY <1>10, <1>11, <1>15, <2>1
  <2>3. QueueOK(t, b) BY <1>8, <1>10, <1>16, <2>2 DEF QueueOK, Queues
  <2>4. "QWANTR" \in t.flag BY <1>10, <2>1
  <2>5. "QWANTW" \in t.flag <=> "QWANTW" \in q.flag /\ ~k BY <1>10, <2>1, <1>14
  <2>6. Count(q) = Count(t) + 0 BY <1>2, <1>11, <2>1
  <2> QED BY <1>0, <1>7, <1>8, <1>10, <1>13, <1>14, <1>16, <2>1, <2>3, <2>4, <2>5, <2>6
<1>17. CASE q.msgs # << >>
  <2>1. r.msgs = Tail(q.msgs) /\ f = NotFull(r) \ {"QWANTR"} BY <1>4, <1>8, <1>17
  <2>2. Count(q) = Count(r) + Head(q.msgs) BY <1>2, <1>17, <2>1, CountTail
  <2>3. 1 \in 1 .. Len(q.msgs) /\ Head(q.msgs) = q.msgs[1] /\ Head(q.msgs) \in Nat BY <1>2, <1>17
  <2>4. 0 < Head(q.msgs) /\ Head(q.msgs) <= b BY <1>12, <2>3
  <2>5. NotFull(r) = IF Count(r) < HIWAT THEN q.flag \ {"QFULL"} ELSE q.flag BY <1>8 DEF NotFull
  <2>6. "QFULL" \in t.flag <=> HIWAT <= Count(t)
    <3>1. "QFULL" \in t.flag <=> "QFULL" \in NotFull(r) BY <1>10, <2>1
    <3>2. Count(r) <= Count(q) BY <1>2, <1>11, <2>2, <2>3
    <3>3. Count(r) < HIWAT \/ HIWAT <= Count(r) BY <1>0, <1>11
    <3>4. CASE Count(r) < HIWAT BY <1>0, <1>11, <2>5, <3>1, <3>4
    <3>5. CASE HIWAT <= Count(r)
      <4>1. HIWAT <= Count(q) /\ ~(Count(r) < HIWAT) BY <1>0, <1>2, <1>11, <3>2, <3>5
      <4> QED BY <1>11, <1>15, <2>5, <3>1, <3>5, <4>1
    <3> QED BY <3>3, <3>4, <3>5
  <2>7. \A i \in 1 .. Len(t.msgs) : 0 < t.msgs[i] /\ t.msgs[i] <= b
    <3>1. Len(t.msgs) = Len(q.msgs) - 1 /\ \A i \in 1 .. Len(t.msgs) : t.msgs[i] = q.msgs[i + 1]
      BY <1>2, <1>10, <1>17, <2>1
    <3>2. Len(q.msgs) \in Nat BY <1>2
    <3>3. \A i \in 1 .. Len(t.msgs) : i + 1 \in 1 .. Len(q.msgs) BY <3>1, <3>2
    <3> QED BY <1>12, <3>1, <3>3
  <2>8. QueueOK(t, b) BY <1>10, <2>6, <2>7 DEF QueueOK, Queues
  <2>9. "QWANTR" \notin t.flag BY <1>10, <2>1
  <2>10. "QWANTW" \in t.flag <=> "QWANTW" \in q.flag /\ ~k BY <1>10, <1>14, <2>1, <2>5
  <2>11. "QWANTW" \in t.flag /\ LOWAT <= Count(q) => LOWAT <= Count(t) BY <1>0, <1>11, <1>13, <2>10
  <2> QED
    BY <1>7, <1>10, <1>11, <1>13, <1>14, <1>17, <2>1, <2>2, <2>3, <2>4, <2>8, <2>9, <2>10, <2>11
<1> QED BY <1>16, <1>17

(* flushq. *)
LEMMA FlushqFacts ==
    ASSUME NEW q, NEW b \in Nat, QueueOK(q, b)
    PROVE  /\ QueueOK(Flushq(q).q, b) /\ Flushq(q).q.msgs = << >> /\ Count(Flushq(q).q) = 0
           /\ Flushq(q).back <=> "QWANTW" \in q.flag
           /\ Flushq(q).back \in BOOLEAN
           /\ "QWANTW" \notin Flushq(q).q.flag
           /\ "QWANTR" \in Flushq(q).q.flag <=> "QWANTR" \in q.flag
<1>0. HIWAT \in Nat /\ LOWAT \in Nat /\ 0 < LOWAT /\ LOWAT <= HIWAT BY StreamsAssumption
<1>1. q.flag \in SUBSET Flag BY QueueTyped
<1>2. PICK t : t = Flushq(q).q OBVIOUS
<1>3. /\ Flushq(q).back = ("QWANTW" \in q.flag /\ 0 < LOWAT)
      /\ t = [msgs |-> << >>, flag |-> IF "QWANTW" \in q.flag /\ 0 < LOWAT THEN (q.flag \ {"QFULL"}) \ {"QWANTW"}
                                       ELSE q.flag \ {"QFULL"}]
  BY <1>2 DEF Flushq
<1>4. t.msgs = << >> /\ t.flag = (q.flag \ {"QFULL"}) \ {"QWANTW"} BY <1>0, <1>3
<1>5. Count(t) = 0 BY <1>4, CountNone
<1>6. t \in Queues BY <1>1, <1>3 DEF Queues
<1>7. QueueOK(t, b) BY <1>0, <1>4, <1>5, <1>6 DEF QueueOK
<1> QED BY <1>0, <1>2, <1>3, <1>4, <1>5, <1>7

(* A writer has found the queue full. *)
LEMMA RefusedFacts ==
    ASSUME NEW q, NEW b \in Nat, QueueOK(q, b)
    PROVE  /\ QueueOK(Refused(q), b) /\ Refused(q).msgs = q.msgs /\ Count(Refused(q)) = Count(q)
           /\ "QWANTW" \in Refused(q).flag
           /\ "QWANTR" \in Refused(q).flag <=> "QWANTR" \in q.flag
<1>1. q \in [msgs : Seq(Nat), flag : SUBSET Flag] BY DEF QueueOK, Queues
<1>2. PICK t : t = Refused(q) OBVIOUS
<1>3. {"QWANTW"} \in SUBSET Flag BY DEF Flag
<1>4. t \in [msgs : Seq(Nat), flag : SUBSET Flag] /\ t.msgs = q.msgs /\ t.flag = q.flag \cup {"QWANTW"}
  BY <1>1, <1>2, <1>3 DEF Refused
<1>5. Count(t) = Count(q) BY <1>4, CountSame
<1>6. QueueOK(t, b) BY <1>4, <1>5 DEF QueueOK, Queues
<1> QED BY <1>2, <1>4, <1>5, <1>6

(* iugetoblk of a queue q: o is what is left, what is being sent, and     *)
(* whether the head is enabled.                                            *)
Sent(q, b, busy, stop, o) ==
    /\ QueueOK(o.q, b) /\ o.dma \in 0 .. b /\ o.back \in BOOLEAN
    /\ o.q.msgs # << >> => o.dma # 0 \/ stop
    /\ o.back => "QWANTW" \in q.flag
    /\ "QWANTW" \in o.q.flag <=> "QWANTW" \in q.flag /\ ~o.back
    /\ "QWANTW" \in o.q.flag /\ LOWAT <= Count(q) => LOWAT <= Count(o.q)
    /\ Count(o.q) <= Count(q)
    /\ Count(o.q) + o.dma = Count(q) + busy
    /\ "QWANTR" \in o.q.flag => "QWANTR" \in q.flag /\ (busy # 0 \/ q.msgs = << >>)
    /\ q.msgs = << >> => o.q = q

(* iugetoblk does that, whatever the queue is. *)
LEMMA IugetoblkFacts ==
    ASSUME NEW q, NEW b \in Nat, NEW busy \in 0 .. b, NEW stop \in BOOLEAN, QueueOK(q, b),
           NEW o, o = Iugetoblk(q, busy, stop)
    PROVE  Sent(q, b, busy, stop, o)
<1>0. HIWAT \in Nat /\ LOWAT \in Nat /\ 0 < LOWAT /\ LOWAT <= HIWAT BY StreamsAssumption
<1>1. o = Iugetoblk(q, busy, stop) OBVIOUS
<1>2. PICK g : g = Getq(q) OBVIOUS
<1>3. Count(q) \in Nat BY QueueTyped
<1>4. CASE busy # 0 \/ q.msgs = << >>
  <2>1. o = [q |-> q, dma |-> busy, back |-> FALSE] BY <1>1, <1>4 DEF Iugetoblk
  <2>2. o.q = q /\ o.dma = busy /\ o.back = FALSE BY <2>1
  <2>3. Count(o.q) <= Count(q) /\ Count(o.q) + o.dma = Count(q) + busy BY <1>3, <2>2
  <2> HIDE DEF Iugetoblk
  <2> QED BY <1>1, <1>4, <2>2, <2>3 DEF Sent
<1>5. CASE ~(busy # 0 \/ q.msgs = << >>) /\ stop
  <2>1. o = [q |-> Putbq(g.q, g.m), dma |-> 0, back |-> g.back] BY <1>1, <1>2, <1>5 DEF Iugetoblk
  <2>2. o.q = Putbq(g.q, g.m) /\ o.dma = 0 /\ o.back = g.back BY <2>1
  <2>3. QueueOK(g.q, b) /\ g.m \in Nat /\ 0 < g.m /\ g.m <= b BY <1>2, <1>5, GetqFacts
  <2>4. /\ QueueOK(Putbq(g.q, g.m), b) /\ Count(Putbq(g.q, g.m)) = Count(g.q) + g.m
        /\ ("QWANTW" \in Putbq(g.q, g.m).flag <=> "QWANTW" \in g.q.flag) /\ ("QWANTR" \in Putbq(g.q, g.m).flag <=> "QWANTR" \in g.q.flag)
    BY <2>3, PutbqFacts
  <2>5. Count(o.q) = Count(q) /\ QueueOK(o.q, b) BY <1>2, <2>2, <2>4, GetqFacts
  <2>6. /\ "QWANTW" \in o.q.flag <=> "QWANTW" \in q.flag /\ ~o.back
        /\ o.back => "QWANTW" \in q.flag
        /\ "QWANTR" \notin o.q.flag /\ o.back \in BOOLEAN
    BY <1>2, <1>5, <2>2, <2>4, GetqFacts
  <2>7. Count(o.q) <= Count(q) /\ Count(o.q) + o.dma = Count(q) + busy /\ o.dma \in 0 .. b
    <3>1. busy = 0 BY <1>5
    <3> QED BY <1>3, <2>2, <2>5, <3>1
  <2> QED BY <1>1, <1>5, <2>5, <2>6, <2>7 DEF Sent
<1>6. CASE ~(busy # 0 \/ q.msgs = << >>) /\ ~stop
  <2>1. o = [q |-> g.q, dma |-> g.m, back |-> g.back] BY <1>1, <1>2, <1>6 DEF Iugetoblk
  <2>2. o.q = g.q /\ o.dma = g.m /\ o.back = g.back BY <2>1
  <2>3. QueueOK(g.q, b) /\ g.m \in Nat /\ 0 < g.m /\ g.m <= b BY <1>2, <1>6, GetqFacts
  <2>4. Count(o.q) \in Nat BY <2>2, <2>3, QueueTyped
  <2> QED BY <1>1, <1>2, <1>3, <1>6, <2>2, <2>3, <2>4, GetqFacts DEF Sent
<1> QED BY <1>4, <1>5, <1>6

(* qenable. *)
LEMMA QenableFacts ==
    ASSUME NEW k, NEW r, NEW q
    PROVE  /\ r.enab \subseteq QenableIf(k, r, q).enab
           /\ QenableIf(k, r, q).enab = IF k THEN r.enab \cup {q} ELSE r.enab
<1>1. Qenable(r, q).enab = r.enab \cup {q} BY DEF Qenable
<1> QED BY <1>1 DEF QenableIf

RunType == [qhead : Queue \cup {NULL}, qtail : Queue \cup {NULL},
            link : [Queue -> Queue \cup {NULL}], enab : SUBSET Queue]

(* ... and it stays a list. *)
LEMMA QenableType ==
    ASSUME NEW k, NEW r \in RunType, NEW q \in Queue PROVE QenableIf(k, r, q) \in RunType
<1>1. CASE k /\ q \notin r.enab
  <2> DEFINE l == [x \in Queue |-> IF x = q THEN NULL ELSE IF x = r.qtail /\ r.qhead # NULL THEN q ELSE r.link[x]]
  <2>1. l \in [Queue -> Queue \cup {NULL}] BY DEF RunType
  <2>2. QenableIf(k, r, q) = [qhead |-> IF r.qhead = NULL THEN q ELSE r.qhead, qtail |-> q, link |-> l,
                              enab |-> r.enab \cup {q}]
    BY <1>1 DEF QenableIf, Qenable
  <2> HIDE DEF l
  <2> QED BY <2>1, <2>2 DEF RunType
<1> QED BY <1>1 DEF QenableIf, Qenable

(***************************************************************************)
(* The inductive invariant.                                                *)
(***************************************************************************)
(* The driver's write queue: it waits only for the port. *)
OutOK(s) == QueueOK(dw[s], BUF) /\ (dw[s].msgs # << >> => dma[s] # 0 \/ ttstop[s])

(* The read queues: getq will enable the driver's when something arrives,  *)
(* and what is there will be taken on.                                     *)
InOK(s) ==
    /\ QueueOK(dr[s], 1) /\ QueueOK(hr[s], 1)
    /\ dr[s].msgs = << >> => "QWANTR" \in dr[s].flag
    /\ dr[s].msgs # << >> => \/ <<s, "dr">> \in run.enab \/ qr = <<s, "dr">>
                             \/ "QWANTW" \in hr[s].flag /\ LOWAT <= Count(hr[s])

(* The entry of a process, by the place where it is. *)
CallOK(p) ==
    /\ pc[p] # "user" => call[p].s \in Stream
    /\ pc[p] \in {"w_canput", "w_asleep", "w_woken", "w_intr"} => 0 < call[p].resid
    /\ pc[p] \in {"w_made", "w_put"} => 0 < call[p].m
    /\ pc[p] \in {"w_canput", "w_put", "w_next", "r_again", "r_next"} => cpu = p

(* strwsrv will be called when there is room. *)
Promised(s) ==
    \/ <<s, "hw">> \in run.enab \/ qr = <<s, "hw">>
    \/ /\ "QWANTW" \in dw[s].flag /\ LOWAT <= Count(dw[s])
       /\ dma[s] # 0 \/ ttstop[s]

(* A process asleep for room or for input will be woken. *)
SleeperOK(p) ==
    /\ pc[p] = "w_asleep" => "WSLEEP" \in sd_flag[call[p].s] /\ Promised(call[p].s)
    /\ pc[p] = "r_asleep" => "RSLEEP" \in sd_flag[call[p].s] /\ hr[call[p].s].msgs = << >>

(* While queuerun is at work the process in the kernel, if any, is the one *)
(* that called runqueues().                                                *)
KernelOK == qr # OFF /\ cpu # NULL => pc[cpu] \in {"w_next", "r_next"}

Flow ==
    /\ \A s \in Stream : OutOK(s) /\ InOK(s)
    /\ \A p \in Proc : CallOK(p) /\ SleeperOK(p)
    /\ KernelOK

(* Without a sleep in strmakemsg: a message is held or in hand only while  *)
(* there is room for it.                                                   *)
SRoom(s) ==
    /\ Count(dw[s]) < HIWAT + BUF
    /\ held[s] # 0 => Count(dw[s]) < HIWAT

PRoom(p) ==
    IF pc[p] \in {"w_made", "w_put"}
    THEN cpu = p /\ held[call[p].s] = 0 /\ Count(dw[call[p].s]) < HIWAT
    ELSE call[p].m = 0

Room == (\A s \in Stream : SRoom(s)) /\ \A p \in Proc : PRoom(p)

(* The run list is L. *)
OnList(r, L) ==
    /\ L \in Seq(Queue) /\ IsInjective(L) /\ ToSet(L) = r.enab
    /\ r.qhead = (IF L = << >> THEN NULL ELSE L[1])
    /\ r.qtail = (IF L = << >> THEN NULL ELSE L[Len(L)])
    /\ \A i \in 1 .. Len(L) : r.link[L[i]] = IF i = Len(L) THEN NULL ELSE L[i + 1]

(* No write is ever held back on a stream that is set to o. *)
NeverHolds(o) == o.strdelim \/ \A n \in o.sizes : BUF < 2 * n

HoldFree == \A s \in Stream : NeverHolds(opt[s])

(* What p writes is of a size that is not held back. *)
Sized(p) ==
    /\ pc[p] \in {"w_canput", "w_asleep", "w_woken", "w_intr"} => call[p].resid \in opt[call[p].s].sizes
    /\ pc[p] = "w_made" => call[p].m \in opt[call[p].s].sizes /\ call[p].resid = 0
    /\ pc[p] = "w_next" => call[p].resid = 0
    /\ pc[p] # "w_put"

(* Then the list of held messages is empty and the run list is whole. *)
OneList ==
    /\ scan = [head |-> NULL, tail |-> NULL, hlist |-> {}]
    /\ \A s \in Stream : held[s] = 0
    /\ \A p \in Proc : Sized(p)
    /\ \E L : OnList(run, L)

(* The only stream is s, and it does not receive.                          *)
Lone(s) == Stream = {s} /\ ~opt[s].cread

(* Nothing but q is on the run list, and nothing is linked. *)
Only(r, q) ==
    /\ \A x \in Queue : r.link[x] = NULL
    /\ \/ r.enab = {} /\ r.qhead = NULL /\ r.qtail = NULL
       \/ r.enab = {q} /\ r.qhead = q /\ r.qtail = q

(* Then neither list has more than one queue: the driver's queue is        *)
(* enabled by the first message only, when nobody has been refused yet.    *)
OutList(s) ==
    \/ Only(run, <<s, "hw">>)
    \/ Only(run, <<s, "dw">>) /\ qr # OFF /\ "QWANTW" \notin dw[s].flag

First(s) ==
    "QWANTR" \in dw[s].flag => /\ dw[s].msgs = << >> /\ dma[s] = 0 /\ run.enab = {}
                               /\ "QWANTW" \notin dw[s].flag

HeldList(s) ==
    /\ \/ scan.hlist = {} /\ scan.head = NULL /\ scan.tail = NULL
       \/ scan.hlist = {s} /\ scan.head = <<s, "hw">> /\ scan.tail = <<s, "hw">>
    /\ held[s] # 0 => s \in scan.hlist

ShortLists(s) ==
    /\ OutList(s) /\ First(s) /\ HeldList(s)
    /\ qr # <<s, "dr">> /\ "QWANTW" \notin hr[s].flag

(* Somebody will look at the lists. *)
Called ==
    /\ run.enab # {} => qrunflag \/ qr # OFF
    /\ scan.hlist # {} => strscanflag \/ qrunflag \/ qr # OFF

Linked ==
    /\ HoldFree => OneList
    /\ \A s \in Stream : Lone(s) => ShortLists(s)
    /\ HoldFree \/ (\E s \in Stream : Lone(s)) => Called

IInv == TypeOK /\ opt \in [Stream -> Settings] /\ Flow /\ (MAKESLEEP \/ Room) /\ Linked

(* The types of what belongs to a stream. *)
LEMMA StreamTyped ==
    ASSUME TypeOK, NEW s \in Stream
    PROVE  /\ dw[s] \in Queues /\ dr[s] \in Queues /\ hr[s] \in Queues /\ held[s] \in 0 .. BUF
           /\ due[s] \in BOOLEAN /\ sd_flag[s] \in SUBSET {"WSLEEP", "RSLEEP"} /\ dma[s] \in 0 .. BUF
           /\ ttstop[s] \in BOOLEAN /\ opt[s] \in Setting
           /\ run \in RunType /\ <<s, "hw">> \in Queue /\ <<s, "dw">> \in Queue /\ <<s, "dr">> \in Queue
BY DEF TypeOK, RunType, Queue

(* What iugetoblk on the queue q, which becomes the driver's, does. *)
Moved(s, q, busy, stop, r) ==
    /\ dw' \in [Stream -> Queues] /\ dma' \in [Stream -> 0 .. BUF] /\ run' \in RunType
    /\ qrunflag' \in BOOLEAN /\ back' \subseteq Stream
    /\ \A t \in Stream \ {s} : dw'[t] = dw[t] /\ dma'[t] = dma[t]
    /\ QueueOK(dw'[s], BUF) /\ (dw'[s].msgs # << >> => dma'[s] # 0 \/ stop)
    /\ r.enab \subseteq run'.enab /\ run'.enab \subseteq r.enab \cup {<<s, "hw">>}
    /\ "QWANTW" \in q.flag /\ LOWAT <= Count(q) =>
          <<s, "hw">> \in run'.enab \/ ("QWANTW" \in dw'[s].flag /\ LOWAT <= Count(dw'[s]))
    /\ Count(dw'[s]) \in Nat /\ Count(dw'[s]) <= Count(q) /\ Count(dw'[s]) + dma'[s] = Count(q) + busy
    /\ \E k \in BOOLEAN : /\ run' = QenableIf(k, r, <<s, "hw">>) /\ (k => "QWANTW" \in q.flag)
                          /\ "QWANTW" \in dw'[s].flag => "QWANTW" \in q.flag
    /\ qrunflag' = (qrunflag \/ run'.enab # run.enab)
    /\ "QWANTR" \in dw'[s].flag => "QWANTR" \in q.flag /\ (busy # 0 \/ q.msgs = << >>)
    /\ q.msgs = << >> => dw'[s] = q /\ dma'[s] = busy

(* Output() does that. *)
LEMMA OutputFacts ==
    ASSUME TypeOK, NEW s \in Stream, NEW q, QueueOK(q, BUF), NEW busy \in 0 .. BUF, NEW stop \in BOOLEAN,
           NEW r \in RunType, Output(s, q, busy, stop, r)
    PROVE  Moved(s, q, busy, stop, r)
<1>0. BUF \in Nat BY StreamsAssumption
<1>1. PICK o : o = Iugetoblk(q, busy, stop) OBVIOUS
<1>2. /\ dw' = [dw EXCEPT ![s] = o.q] /\ dma' = [dma EXCEPT ![s] = o.dma]
      /\ run' = QenableIf(o.back, r, <<s, "hw">>)
      /\ qrunflag' = (qrunflag \/ run'.enab # run.enab)
      /\ back' = IF o.back THEN back \cup {s} ELSE back
  BY <1>1 DEF Output, Backenable, Schedule
<1>3. /\ QueueOK(o.q, BUF) /\ o.dma \in 0 .. BUF /\ o.back \in BOOLEAN
      /\ o.q.msgs # << >> => o.dma # 0 \/ stop
      /\ o.back => "QWANTW" \in q.flag
      /\ "QWANTW" \in o.q.flag <=> "QWANTW" \in q.flag /\ ~o.back
      /\ "QWANTW" \in o.q.flag /\ LOWAT <= Count(q) => LOWAT <= Count(o.q)
      /\ Count(o.q) <= Count(q)
      /\ Count(o.q) + o.dma = Count(q) + busy
      /\ "QWANTR" \in o.q.flag => "QWANTR" \in q.flag /\ (busy # 0 \/ q.msgs = << >>)
      /\ q.msgs = << >> => o.q = q
  <2>1. Sent(q, BUF, busy, stop, o) BY <1>0, <1>1, IugetoblkFacts
  <2> QED BY <2>1 DEF Sent
<1>4. q.msgs = << >> => o.dma = busy BY <1>1 DEF Iugetoblk
<1>5. o.q \in Queues /\ Count(o.q) \in Nat BY <1>0, <1>3, QueueTyped DEF QueueOK
<1>6. dw'[s] = o.q /\ dma'[s] = o.dma /\ \A t \in Stream \ {s} : dw'[t] = dw[t] /\ dma'[t] = dma[t]
  BY <1>2 DEF TypeOK
<1>7. dw' \in [Stream -> Queues] /\ dma' \in [Stream -> 0 .. BUF] BY <1>2, <1>3, <1>5 DEF TypeOK
<1>8. qrunflag' \in BOOLEAN /\ back' \subseteq Stream BY <1>2, <1>3 DEF TypeOK
<1>9. run' \in RunType BY <1>2, QenableType, StreamTyped
<1>10. r.enab \subseteq run'.enab /\ run'.enab \subseteq r.enab \cup {<<s, "hw">>} /\ (o.back => <<s, "hw">> \in run'.enab)
  <2>1. run'.enab = IF o.back THEN r.enab \cup {<<s, "hw">>} ELSE r.enab
    BY <1>2, QenableFacts, Zenon
  <2> QED BY <1>3, <2>1
<1> QED BY <1>2, <1>3, <1>4, <1>5, <1>6, <1>7, <1>8, <1>9, <1>10 DEF Moved

(* What iuoput does: the message is on the driver's queue or being sent. *)
LEMMA IuoputFacts ==
    ASSUME TypeOK, NEW s \in Stream, OutOK(s), NEW m \in 1 .. BUF, Iuoput(s, m)
    PROVE  /\ dw' \in [Stream -> Queues] /\ dma' \in [Stream -> 0 .. BUF] /\ run' \in RunType
           /\ qrunflag' \in BOOLEAN /\ back' \subseteq Stream
           /\ \A t \in Stream \ {s} : dw'[t] = dw[t] /\ dma'[t] = dma[t]
           /\ QueueOK(dw'[s], BUF) /\ (dw'[s].msgs # << >> => dma'[s] # 0 \/ ttstop[s])
           /\ run.enab \subseteq run'.enab
           /\ "QWANTW" \in dw[s].flag /\ LOWAT <= Count(dw[s]) =>
                 <<s, "hw">> \in run'.enab \/ ("QWANTW" \in dw'[s].flag /\ LOWAT <= Count(dw'[s]))
           /\ Count(dw'[s]) \in Nat /\ Count(dw'[s]) <= Count(dw[s]) + m
           /\ Count(dw'[s]) + dma'[s] = Count(dw[s]) + m + dma[s]
           /\ \E k, l \in BOOLEAN :
                 /\ run' = QenableIf(k, QenableIf(l, run, <<s, "dw">>), <<s, "hw">>)
                 /\ (k => "QWANTW" \in dw[s].flag) /\ (l => "QWANTR" \in dw[s].flag)
                 /\ "QWANTW" \in dw'[s].flag => "QWANTW" \in dw[s].flag
           /\ qrunflag' = (qrunflag \/ run'.enab # run.enab)
           /\ "QWANTR" \in dw'[s].flag => dma[s] # 0 /\ "QWANTR" \in dw[s].flag
<1>0. BUF \in Nat /\ m \in Nat /\ 0 < m /\ m <= BUF BY StreamsAssumption
<1>1. PICK q, r : q = Putq(dw[s], m) /\ r = QenableIf(Enables(dw[s]), run, <<s, "dw">>) OBVIOUS
<1>2. QueueOK(dw[s], BUF) BY DEF OutOK
<1>3. /\ QueueOK(q, BUF) /\ Count(q) = Count(dw[s]) + m /\ q.msgs # << >>
      /\ ("QWANTW" \in q.flag <=> "QWANTW" \in dw[s].flag)
      /\ ("QWANTR" \in q.flag <=> "QWANTR" \in dw[s].flag)
  BY <1>0, <1>1, <1>2, PutqFacts
<1>4. dma[s] \in 0 .. BUF /\ ttstop[s] \in BOOLEAN /\ run \in RunType BY StreamTyped
<1>5. r \in RunType /\ run.enab \subseteq r.enab
  BY <1>1, <1>4, StreamTyped, QenableType, QenableFacts
<1>6. Output(s, q, dma[s], ttstop[s], r) BY <1>1 DEF Iuoput
<1>7. Count(dw[s]) \in Nat /\ LOWAT \in Nat BY <1>0, <1>2, QueueTyped, StreamsAssumption
<1>8. LOWAT <= Count(dw[s]) => LOWAT <= Count(q) BY <1>0, <1>3, <1>7
<1>9. /\ dw' \in [Stream -> Queues] /\ dma' \in [Stream -> 0 .. BUF] /\ run' \in RunType
      /\ qrunflag' \in BOOLEAN /\ back' \subseteq Stream
      /\ \A t \in Stream \ {s} : dw'[t] = dw[t] /\ dma'[t] = dma[t]
      /\ QueueOK(dw'[s], BUF) /\ (dw'[s].msgs # << >> => dma'[s] # 0 \/ ttstop[s])
      /\ r.enab \subseteq run'.enab
      /\ "QWANTW" \in q.flag /\ LOWAT <= Count(q) =>
            <<s, "hw">> \in run'.enab \/ ("QWANTW" \in dw'[s].flag /\ LOWAT <= Count(dw'[s]))
      /\ Count(dw'[s]) \in Nat /\ Count(dw'[s]) <= Count(q)
      /\ Count(dw'[s]) + dma'[s] = Count(q) + dma[s]
      /\ \E k \in BOOLEAN : /\ run' = QenableIf(k, r, <<s, "hw">>) /\ (k => "QWANTW" \in q.flag)
                            /\ "QWANTW" \in dw'[s].flag => "QWANTW" \in q.flag
      /\ qrunflag' = (qrunflag \/ run'.enab # run.enab)
      /\ "QWANTR" \in dw'[s].flag => "QWANTR" \in q.flag /\ (dma[s] # 0 \/ q.msgs = << >>)
  <2>1. Moved(s, q, dma[s], ttstop[s], r) BY <1>3, <1>4, <1>5, <1>6, OutputFacts
  <2> QED BY <2>1 DEF Moved
<1>10. \E k, l \in BOOLEAN :
          /\ run' = QenableIf(k, QenableIf(l, run, <<s, "dw">>), <<s, "hw">>)
          /\ (k => "QWANTW" \in dw[s].flag) /\ (l => "QWANTR" \in dw[s].flag)
          /\ "QWANTW" \in dw'[s].flag => "QWANTW" \in dw[s].flag
  <2>1. PICK k \in BOOLEAN : /\ run' = QenableIf(k, r, <<s, "hw">>) /\ (k => "QWANTW" \in q.flag)
                             /\ "QWANTW" \in dw'[s].flag => "QWANTW" \in q.flag
    BY <1>9
  <2>2. Enables(dw[s]) \in BOOLEAN /\ (Enables(dw[s]) => "QWANTR" \in dw[s].flag) BY DEF Enables
  <2> QED BY <1>1, <1>3, <2>1, <2>2
<1>11. Count(dw'[s]) <= Count(dw[s]) + m /\ Count(dw'[s]) + dma'[s] = Count(dw[s]) + m + dma[s]
  BY <1>3, <1>9
<1> QED BY <1>3, <1>5, <1>8, <1>9, <1>10, <1>11

PcSet == {"user", "polling"} \cup
         {"w_canput", "w_asleep", "w_woken", "w_intr", "w_made", "w_put", "w_next"} \cup
         {"r_again", "r_asleep", "r_woken", "r_intr", "r_next"}

CallType == [s : Stream \cup {NULL}, resid : 0 .. BUF, m : 0 .. BUF]

(* What queuerun may be doing. *)
QrSet == {OFF, SCAN, NEXT} \cup Queue \cup (Stream \X {"clear"})

(* The values of qr differ. *)
LEMMA QrFacts ==
    ASSUME NEW s \in Stream
    PROVE  /\ OFF # SCAN /\ OFF # NEXT /\ SCAN # NEXT
           /\ OFF \notin Queue /\ SCAN \notin Queue /\ NEXT \notin Queue
           /\ <<s, "clear">> \notin Queue /\ <<s, "hw">> # <<s, "dw">> /\ <<s, "hw">> # <<s, "dr">>
           /\ <<s, "dw">> # <<s, "dr">>
           /\ OFF # <<s, "clear">>
<1>1. NULL \notin Stream BY StreamsAssumption
<1> QED BY <1>1 DEF OFF, SCAN, NEXT, Queue

(* ... and for every stream. *)
LEMMA OffFacts == /\ OFF # SCAN /\ OFF # NEXT /\ SCAN # NEXT
                  /\ OFF \notin Queue /\ SCAN \notin Queue /\ NEXT \notin Queue
                  /\ OFF \notin Stream \X {"clear"} /\ NULL \notin Queue /\ NULL \notin Proc
                  /\ \A x \in Stream \X {"clear"} : x \notin Queue
<1>1. NULL \notin Stream /\ NULL \notin Queue /\ NULL \notin Proc BY StreamsAssumption
<1> QED BY <1>1 DEF OFF, SCAN, NEXT, Queue

(* The types of what belongs to a process. *)
LEMMA ProcTyped ==
    ASSUME TypeOK, NEW p \in Proc
    PROVE  /\ pc[p] \in PcSet /\ call[p] \in CallType
           /\ call[p].s \in Stream \cup {NULL} /\ call[p].resid \in 0 .. BUF /\ call[p].m \in 0 .. BUF
<1>1. pc[p] \in PcSet BY DEF TypeOK, PcSet
<1>2. call[p] \in CallType BY DEF TypeOK, CallType
<1>3. call[p].s \in Stream \cup {NULL} /\ call[p].resid \in 0 .. BUF /\ call[p].m \in 0 .. BUF
  BY <1>2 DEF CallType
<1> QED BY <1>1, <1>2, <1>3

(* What a step leaves alone, a stream at a time. *)
LEMMA OutSame ==
    ASSUME NEW t, OutOK(t), dw'[t] = dw[t], dma'[t] = dma[t], ttstop'[t] = ttstop[t] \/ ttstop'[t] = TRUE
    PROVE  OutOK(t)'
BY DEF OutOK

(* A queue that was to be served still is. *)
Serving ==
    \A q \in Queue : q[2] # "dw" /\ (q \in run.enab \/ qr = q) => q \in run'.enab \/ qr' = q

(* The read side of a stream that a step leaves alone. *)
LEMMA InSame ==
    ASSUME NEW t \in Stream, InOK(t), dr'[t] = dr[t], hr'[t] = hr[t], Serving
    PROVE  InOK(t)'
<1>1. <<t, "dr">> \in Queue /\ <<t, "dr">>[2] # "dw" BY DEF Queue
<1>2. <<t, "dr">> \in run.enab \/ qr = <<t, "dr">> => <<t, "dr">> \in run'.enab \/ qr' = <<t, "dr">>
  BY <1>1 DEF Serving
<1> QED BY <1>2 DEF InOK

(* A promise to the writers of a stream that a step leaves alone. *)
LEMMA PromisedSame ==
    ASSUME NEW t \in Stream, Promised(t), dw'[t] = dw[t], dma'[t] = dma[t],
           ttstop'[t] = ttstop[t] \/ ttstop'[t] = TRUE, Serving
    PROVE  Promised(t)'
<1>1. <<t, "hw">> \in Queue /\ <<t, "hw">>[2] # "dw" BY DEF Queue
<1>2. <<t, "hw">> \in run.enab \/ qr = <<t, "hw">> => <<t, "hw">> \in run'.enab \/ qr' = <<t, "hw">>
  BY <1>1 DEF Serving
<1> QED BY <1>2 DEF Promised

(* What was promised still is, and nobody who sleeps loses the flag. *)
Keeps ==
    \A t \in Stream : /\ Promised(t) => Promised(t)'
                      /\ hr[t].msgs = << >> => hr'[t].msgs = << >>
                      /\ sd_flag[t] \subseteq sd_flag'[t]

(* No process but those of X goes to sleep. *)
OldSleepers(X) ==
    \A p \in Proc \ X : pc'[p] \in {"w_asleep", "r_asleep"} => pc'[p] = pc[p] /\ call'[p].s = call[p].s

(* Then who slept before sleeps as he should. *)
LEMMA SleepersKept ==
    ASSUME Flow, Keeps, NEW X, OldSleepers(X)
    PROVE  \A p \in Proc \ X : SleeperOK(p)'
<1> TAKE p \in Proc \ X
<1>1. SleeperOK(p) /\ CallOK(p) BY DEF Flow
<1>2. pc'[p] = "w_asleep" => "WSLEEP" \in sd_flag'[call'[p].s] /\ Promised(call[p].s)'
  <2>1. SUFFICES ASSUME pc'[p] = "w_asleep" PROVE "WSLEEP" \in sd_flag'[call'[p].s] /\ Promised(call[p].s)'
    OBVIOUS
  <2>2. pc[p] = "w_asleep" /\ call'[p].s = call[p].s BY <2>1 DEF OldSleepers
  <2>3. call[p].s \in Stream /\ "WSLEEP" \in sd_flag[call[p].s] /\ Promised(call[p].s)
    BY <1>1, <2>2 DEF SleeperOK, CallOK
  <2> QED BY <2>2, <2>3 DEF Keeps
<1>3. pc'[p] = "r_asleep" => "RSLEEP" \in sd_flag'[call'[p].s] /\ hr'[call'[p].s].msgs = << >>
  <2>1. SUFFICES ASSUME pc'[p] = "r_asleep" PROVE "RSLEEP" \in sd_flag'[call'[p].s] /\ hr'[call'[p].s].msgs = << >>
    OBVIOUS
  <2>2. pc[p] = "r_asleep" /\ call'[p].s = call[p].s BY <2>1 DEF OldSleepers
  <2>3. call[p].s \in Stream /\ "RSLEEP" \in sd_flag[call[p].s] /\ hr[call[p].s].msgs = << >>
    BY <1>1, <2>2 DEF SleeperOK, CallOK
  <2> QED BY <2>2, <2>3 DEF Keeps
<1> QED BY <1>2, <1>3 DEF SleeperOK

(* A step that touches none of the queues and wakes nobody. *)
Quiet == UNCHANGED <<dw, dr, hr, dma, ttstop, sd_flag>> /\ Serving

(* Such a step keeps Flow. *)
LEMMA QuietStep ==
    ASSUME Flow, Quiet, OldSleepers({}), \A p \in Proc : CallOK(p)', KernelOK'
    PROVE  Flow'
<1>1. \A t \in Stream : OutOK(t)' /\ InOK(t)' BY OutSame, InSame DEF Flow, Quiet
<1>2. Keeps BY PromisedSame DEF Quiet, Keeps
<1>3. \A p \in Proc : SleeperOK(p)' BY <1>2, SleepersKept
<1> QED BY <1>1, <1>3 DEF Flow

(* Nothing happens to a process. *)
LEMMA CallSame ==
    ASSUME Flow, UNCHANGED <<cpu, pc, call>>
    PROVE  (\A p \in Proc : CallOK(p)') /\ \A X : OldSleepers(X)
BY DEF Flow, CallOK, OldSleepers

(* Something happens to p only. *)
LEMMA CallStep ==
    ASSUME Flow, NEW p \in Proc, cpu \in {p, NULL} \/ cpu' = cpu, cpu' \in {p, NULL} \/ cpu' = cpu,
           \A o \in Proc \ {p} : pc'[o] = pc[o] /\ call'[o] = call[o], CallOK(p)'
    PROVE  \A o \in Proc : CallOK(o)'
<1> SUFFICES ASSUME NEW o \in Proc \ {p} PROVE CallOK(o)' OBVIOUS
<1>1. CallOK(o) BY DEF Flow
<1>2. o # NULL BY OffFacts
<1> QED BY <1>1, <1>2 DEF CallOK

(* Only p moves, and it does not go to sleep. *)
LEMMA MoveStep ==
    ASSUME NEW p \in Proc, \A o \in Proc \ {p} : pc'[o] = pc[o] /\ call'[o] = call[o],
           pc'[p] \notin {"w_asleep", "r_asleep"}
    PROVE  \A X : OldSleepers(X)
BY DEF OldSleepers

(* The steps of queuerun, the clock and the timer that call nobody. *)
LEMMA QueuerunQuiet ==
    ASSUME TypeOK, Flow,
           Kick \/ QrScanned \/ QrNext \/ QrDone \/ QrClear \/ Iuosrv \/ Strscan \/ (\E s \in Stream : Elapse(s))
    PROVE  TypeOK' /\ Flow'
<1>1. UNCHANGED <<opt, dev, held, sd_flag, cpu, pc, call>>
  BY DEF Kick, QrScanned, QrNext, QrDone, QrClear, Iuosrv, Strscan, Elapse, dev
<1>2. run \in RunType BY DEF TypeOK, RunType
<1>3. run' \in RunType /\ Serving
  <2>1. CASE QrNext
    <3>1. PICK h : h = run.qhead OBVIOUS
    <3>2. h \in Queue /\ run.link[h] \in Queue \cup {NULL} BY <1>2, <2>1, <3>1 DEF QrNext, RunType
    <3>3. run' = [run EXCEPT !.qhead = run.link[h], !.qtail = IF run.link[h] = NULL THEN NULL ELSE @, !.enab = @ \ {h}]
      BY <2>1, <3>1 DEF QrNext
    <3>4. run' \in RunType /\ run'.enab = run.enab \ {h} BY <1>2, <3>2, <3>3 DEF RunType
    <3>5. qr = NEXT /\ qr' = h BY <2>1, <3>1 DEF QrNext
    <3> QED BY <3>4, <3>5, OffFacts DEF Serving
  <2>2. CASE Iuosrv
    <3>1. run' = run /\ qr[2] = "dw" BY <2>2 DEF Iuosrv, sched, Serves
    <3> QED BY <1>2, <3>1 DEF Serving
  <2>3. CASE Kick \/ QrScanned \/ QrDone \/ QrClear
    <3>1. run' = run BY <2>3 DEF Kick, QrScanned, QrDone, QrClear, sched
    <3>2. qr \notin Queue BY <2>3, OffFacts DEF Kick, QrScanned, QrDone, QrClear
    <3> QED BY <1>2, <3>1, <3>2 DEF Serving
  <2>4. CASE Strscan \/ (\E s \in Stream : Elapse(s))
    <3>1. run' = run /\ qr' = qr BY <2>4 DEF Strscan, Elapse, sched
    <3> QED BY <1>2, <3>1 DEF Serving
  <2> QED BY <2>1, <2>2, <2>3, <2>4
<1>4. scan' = scan /\ back' \subseteq Stream /\ qrunflag' \in BOOLEAN /\ strscanflag' \in BOOLEAN
  BY DEF Kick, QrScanned, QrNext, QrDone, QrClear, Iuosrv, Strscan, Elapse, sched, TypeOK
<1>5. due' \in [Stream -> BOOLEAN]
  BY DEF Kick, QrScanned, QrNext, QrDone, QrClear, Iuosrv, Strscan, Elapse, TypeOK
<1>6. qr' \in {OFF, SCAN, NEXT} \cup Queue \cup (Stream \X {"clear"})
  BY <1>2 DEF Kick, QrScanned, QrNext, QrDone, QrClear, Iuosrv, Strscan, Elapse, TypeOK, RunType
<1>7. TypeOK' BY <1>1, <1>3, <1>4, <1>5, <1>6 DEF TypeOK, RunType, dev
<1>8. KernelOK'
  <2>1. KernelOK BY DEF Flow
  <2>2. qr' # OFF /\ cpu # NULL => qr # OFF
    BY <1>2, OffFacts DEF Kick, QrScanned, QrNext, QrDone, QrClear, Iuosrv, Strscan, Elapse, Serves
  <2> QED BY <1>1, <2>1, <2>2 DEF KernelOK
<1>9. Quiet BY <1>1, <1>3 DEF Quiet, dev
<1> QED BY <1>1, <1>7, <1>8, <1>9, CallSame, QuietStep

(* No call is a call. *)
LEMMA NoCallType == NoCall \in CallType
BY StreamsAssumption DEF NoCall, CallType

(* The call of p becomes c and p goes to l. *)
LEMMA SetType ==
    ASSUME TypeOK, NEW p \in Proc, NEW l \in PcSet, NEW c \in CallType
    PROVE  [pc EXCEPT ![p] = l] \in [Proc -> PcSet] /\ [call EXCEPT ![p] = c] \in [Proc -> CallType]
BY DEF TypeOK, PcSet, CallType

(* strwrite is called. *)
LEMMA WriteStep ==
    ASSUME TypeOK, Flow, NEW p \in Proc, NEW s \in Stream, NEW n \in opt[s].sizes, Write(p, s, n)
    PROVE  TypeOK' /\ Flow'
<1>1. BUF \in Nat /\ opt[s].sizes \subseteq 1 .. BUF BY StreamsAssumption, StreamTyped DEF Setting
<1>2. PICK c : c = [s |-> s, resid |-> n, m |-> 0] OBVIOUS
<1>3. c \in CallType /\ c.s = s /\ c.resid = n /\ 0 < n BY <1>1, <1>2 DEF CallType
<1>4. /\ cpu = NULL /\ qr = OFF /\ cpu' = p /\ pc' = [pc EXCEPT ![p] = "w_canput"]
      /\ call' = [call EXCEPT ![p] = c]
      /\ UNCHANGED <<opt, dev, held, due, sd_flag, sched, qr>>
  BY <1>2 DEF Write
<1>5. pc' \in [Proc -> PcSet] /\ call' \in [Proc -> CallType] BY <1>3, <1>4, SetType DEF PcSet
<1>6. pc'[p] = "w_canput" /\ call'[p] = c /\ \A o \in Proc \ {p} : pc'[o] = pc[o] /\ call'[o] = call[o]
  BY <1>4 DEF TypeOK
<1>7. TypeOK' BY <1>4, <1>5 DEF TypeOK, PcSet, CallType, dev, sched
<1>8. CallOK(p)' BY <1>3, <1>4, <1>6 DEF CallOK
<1>9. Quiet BY <1>4 DEF Quiet, Serving, dev, sched
<1>10. KernelOK' BY <1>4 DEF KernelOK
<1>11. \A o \in Proc : CallOK(o)' BY <1>4, <1>6, <1>8, CallStep
<1> QED BY <1>6, <1>7, <1>9, <1>10, <1>11, MoveStep, QuietStep

(* p may be at l with the call c. *)
Placed(p, l, c) ==
    /\ l \in PcSet /\ c \in CallType /\ l \notin {"w_asleep", "r_asleep"}
    /\ l # "user" => c.s \in Stream
    /\ l \in {"w_canput", "w_woken", "w_intr"} => 0 < c.resid
    /\ l \in {"w_made", "w_put"} => 0 < c.m
    /\ l \in {"w_canput", "w_put", "w_next", "r_again", "r_next"} => cpu' = p

(* A step of p that touches no queue: p is elsewhere and has another call. *)
LEMMA ProcStep ==
    ASSUME TypeOK, Flow, Quiet, NEW p \in Proc, NEW l, NEW c, Placed(p, l, c),
           pc' = [pc EXCEPT ![p] = l], call' = [call EXCEPT ![p] = c],
           cpu \in {p, NULL} \/ cpu' = cpu, cpu' \in {p, NULL} \/ cpu' = cpu, KernelOK'
    PROVE  Flow' /\ pc' \in [Proc -> PcSet] /\ call' \in [Proc -> CallType] /\ cpu' \in Proc \cup {NULL}
           /\ pc'[p] = l /\ call'[p] = c /\ \A o \in Proc \ {p} : pc'[o] = pc[o] /\ call'[o] = call[o]
<1>0. l \in PcSet /\ c \in CallType BY DEF Placed
<1>1. pc' \in [Proc -> PcSet] /\ call' \in [Proc -> CallType] BY <1>0, SetType
<1>2. pc'[p] = l /\ call'[p] = c /\ \A o \in Proc \ {p} : pc'[o] = pc[o] /\ call'[o] = call[o]
  BY DEF TypeOK
<1>3. CallOK(p)' BY <1>2 DEF CallOK, Placed
<1>4. \A o \in Proc : CallOK(o)' BY <1>2, <1>3, CallStep
<1>5. OldSleepers({}) BY <1>2, MoveStep DEF Placed
<1>6. Flow' BY <1>4, <1>5, QuietStep
<1>7. cpu' \in Proc \cup {NULL} BY DEF TypeOK
<1> QED BY <1>1, <1>2, <1>6, <1>7

(* A process returns to user mode. *)
LEMMA LeaveStep ==
    ASSUME TypeOK, Flow, Quiet, NEW p \in Proc, cpu = p, qr' = OFF, Leave(p, pc)
    PROVE  Flow' /\ pc' \in [Proc -> PcSet] /\ call' \in [Proc -> CallType] /\ cpu' \in Proc \cup {NULL}
           /\ pc'[p] = "user" /\ call'[p] = NoCall /\ \A o \in Proc \ {p} : pc'[o] = pc[o] /\ call'[o] = call[o]
<1>1. cpu' = NULL /\ pc' = [pc EXCEPT ![p] = "user"] /\ call' = [call EXCEPT ![p] = NoCall]
  BY DEF Leave
<1>2. "user" \in PcSet /\ NoCall \in CallType BY NoCallType DEF PcSet
<1>3. KernelOK' BY DEF KernelOK
<1>4. Placed(p, "user", NoCall) BY <1>2 DEF Placed
<1> QED BY <1>1, <1>3, <1>4, ProcStep

(* strread returns. *)
LEMMA ReadNextStep ==
    ASSUME TypeOK, Flow, NEW p \in Proc, ReadNext(p) PROVE TypeOK' /\ Flow'
<1>1. cpu = p /\ qr = OFF /\ Leave(p, pc) /\ UNCHANGED <<opt, dev, held, due, sd_flag, sched, qr>>
  BY DEF ReadNext, In
<1>2. Quiet BY <1>1 DEF Quiet, Serving, dev, sched
<1>3. Flow' /\ pc' \in [Proc -> PcSet] /\ call' \in [Proc -> CallType] /\ cpu' \in Proc \cup {NULL}
  BY <1>1, <1>2, LeaveStep
<1> QED BY <1>1, <1>3 DEF TypeOK, PcSet, CallType, dev, sched

(* strwrite goes on or returns. *)
LEMMA WriteNextStep ==
    ASSUME TypeOK, Flow, NEW p \in Proc, WriteNext(p) PROVE TypeOK' /\ Flow'
<1>1. cpu = p /\ qr = OFF /\ pc[p] = "w_next" /\ UNCHANGED <<opt, dev, held, due, sd_flag, sched, qr>>
  BY DEF WriteNext, In
<1>2. Quiet BY <1>1 DEF Quiet, Serving, dev, sched
<1>3. Flow' /\ pc' \in [Proc -> PcSet] /\ call' \in [Proc -> CallType] /\ cpu' \in Proc \cup {NULL}
  <2>1. CASE call[p].resid = 0
    <3>1. Leave(p, pc) BY <2>1 DEF WriteNext
    <3> QED BY <1>1, <1>2, <3>1, LeaveStep
  <2>2. CASE call[p].resid # 0
    <3>1. pc' = [pc EXCEPT ![p] = "w_canput"] /\ cpu' = cpu /\ call' = call BY <2>2 DEF WriteNext
    <3>2. call' = [call EXCEPT ![p] = call[p]] BY <3>1 DEF TypeOK
    <3>3. CallOK(p) BY DEF Flow
    <3>4. call[p].s \in Stream BY <1>1, <3>3 DEF CallOK
    <3>5. "w_canput" \in PcSet BY DEF PcSet
    <3>6. call[p] \in CallType /\ 0 < call[p].resid BY <2>2, ProcTyped, StreamsAssumption
    <3>7. KernelOK' BY <1>1 DEF KernelOK
    <3>8. cpu' = p BY <1>1, <3>1
    <3>9. Placed(p, "w_canput", call[p]) BY <3>4, <3>5, <3>6, <3>8 DEF Placed
    <3> QED BY <1>1, <1>2, <3>1, <3>2, <3>7, <3>9, ProcStep
  <2> QED BY <2>1, <2>2
<1> QED BY <1>1, <1>3 DEF TypeOK, PcSet, CallType, dev, sched

(* strmakemsg. *)
LEMMA WriteMakeStep ==
    ASSUME TypeOK, Flow, NEW p \in Proc, WriteMake(p) PROVE TypeOK' /\ Flow'
<1>1. cpu = p /\ qr = OFF /\ pc[p] = "w_canput" /\ UNCHANGED <<opt, dev, held, due, sd_flag, sched, qr>>
  BY DEF WriteMake, In
<1>2. Quiet BY <1>1 DEF Quiet, Serving, dev, sched
<1>3. CallOK(p) BY DEF Flow
<1>4. call[p].s \in Stream /\ 0 < call[p].resid /\ call[p] \in CallType
  BY <1>1, <1>3, ProcTyped DEF CallOK
<1>5. PICK c : c = [call[p] EXCEPT !.m = call[p].resid, !.resid = 0] OBVIOUS
<1>6. BUF \in Nat BY StreamsAssumption
<1>7. c \in CallType /\ c.s = call[p].s /\ c.m = call[p].resid
  <2>1. PICK B : B = 0 .. BUF OBVIOUS
  <2>2. 0 \in B /\ call[p].resid \in B /\ call[p] \in [s : Stream \cup {NULL}, resid : B, m : B]
    BY <1>4, <1>6, <2>1, ProcTyped DEF CallType
  <2>3. c \in [s : Stream \cup {NULL}, resid : B, m : B] /\ c.s = call[p].s /\ c.m = call[p].resid
    BY <1>5, <2>2
  <2> QED BY <2>1, <2>3 DEF CallType
<1>8. call' = [call EXCEPT ![p] = c]
  <2>1. call' = [call EXCEPT ![p].m = call[p].resid, ![p].resid = 0] BY DEF WriteMake
  <2> QED BY <1>5, <2>1 DEF TypeOK
<1>9. pc' = [pc EXCEPT ![p] = "w_made"] /\ cpu' \in {p, NULL} BY DEF WriteMake
<1>10. KernelOK' BY <1>1 DEF KernelOK
<1>11. "w_made" \in PcSet BY DEF PcSet
<1>12. Flow' /\ pc' \in [Proc -> PcSet] /\ call' \in [Proc -> CallType] /\ cpu' \in Proc \cup {NULL}
  <2>1. Placed(p, "w_made", c) BY <1>4, <1>7, <1>11 DEF Placed
  <2> QED BY <1>1, <1>2, <1>8, <1>9, <1>10, <2>1, ProcStep
<1> QED BY <1>1, <1>12 DEF TypeOK, PcSet, CallType, dev, sched

(* strwrite finds a held message. *)
LEMMA WriteHeldStep ==
    ASSUME TypeOK, Flow, NEW p \in Proc, WriteHeld(p) PROVE TypeOK' /\ Flow'
<1>1. /\ cpu = p /\ qr = OFF /\ pc[p] = "w_canput" /\ UNCHANGED <<opt, dev, due, sd_flag, sched, qr>>
      /\ held[call[p].s] # 0
  BY DEF WriteHeld, In
<1>2. Quiet BY <1>1 DEF Quiet, Serving, dev, sched
<1>3. CallOK(p) BY DEF Flow
<1>4. PICK s, n : s = call[p].s /\ n = call[p].resid OBVIOUS
<1>5. s \in Stream /\ 0 < n /\ call[p] \in CallType /\ n \in 0 .. BUF
  BY <1>1, <1>3, <1>4, ProcTyped DEF CallOK
<1>6. BUF \in Nat /\ held[s] \in 0 .. BUF /\ held[s] # 0
  BY <1>1, <1>4, <1>5, StreamsAssumption, StreamTyped
<1>7. CASE 2 * n <= BUF - held[s]
  <2>1. held' = [held EXCEPT ![s] = held[s] + n] /\ Leave(p, pc) BY <1>4, <1>7 DEF WriteHeld
  <2>2. held' \in [Stream -> 0 .. BUF]
    <3>1. held[s] + n \in 0 .. BUF BY <1>5, <1>6, <1>7
    <3> QED BY <2>1, <3>1 DEF TypeOK
  <2>3. Flow' /\ pc' \in [Proc -> PcSet] /\ call' \in [Proc -> CallType] /\ cpu' \in Proc \cup {NULL}
    BY <1>1, <1>2, <2>1, LeaveStep
  <2> QED BY <1>1, <2>2, <2>3 DEF TypeOK, PcSet, CallType, dev, sched
<1>8. CASE ~(2 * n <= BUF - held[s])
  <2>1. PICK c : c = [call[p] EXCEPT !.m = IF Fits(n, BUF - held[s]) THEN held[s] + n ELSE held[s],
                                     !.resid = IF Fits(n, BUF - held[s]) THEN 0 ELSE n]
    OBVIOUS
  <2>2. (IF Fits(n, BUF - held[s]) THEN held[s] + n ELSE held[s]) \in 1 .. BUF
    BY <1>5, <1>6 DEF Fits
  <2>3. (IF Fits(n, BUF - held[s]) THEN 0 ELSE n) \in 0 .. BUF BY <1>5, <1>6
  <2>4. c \in CallType /\ c.s = s /\ 0 < c.m
    <3>1. PICK B, x, y : /\ B = 0 .. BUF /\ x = (IF Fits(n, BUF - held[s]) THEN held[s] + n ELSE held[s])
                         /\ y = IF Fits(n, BUF - held[s]) THEN 0 ELSE n
      OBVIOUS
    <3>2. c = [call[p] EXCEPT !.m = x, !.resid = y] BY <2>1, <3>1
    <3>3. x \in B /\ y \in B /\ 0 < x BY <1>6, <2>2, <2>3, <3>1
    <3>4. call[p] \in [s : Stream \cup {NULL}, resid : B, m : B] BY <1>5, <3>1 DEF CallType
    <3>5. c \in [s : Stream \cup {NULL}, resid : B, m : B] /\ c.s = call[p].s /\ c.m = x
      BY <3>2, <3>3, <3>4
    <3> QED BY <1>4, <3>1, <3>3, <3>5 DEF CallType
  <2>5. /\ held' = [held EXCEPT ![s] = 0] /\ pc' = [pc EXCEPT ![p] = "w_put"] /\ cpu' = cpu
        /\ call' = [call EXCEPT ![p].m = IF Fits(n, BUF - held[s]) THEN held[s] + n ELSE held[s],
                                ![p].resid = IF Fits(n, BUF - held[s]) THEN 0 ELSE n]
    BY <1>4, <1>8 DEF WriteHeld
  <2>6. call' = [call EXCEPT ![p] = c] BY <2>1, <2>5 DEF TypeOK
  <2>7. held' \in [Stream -> 0 .. BUF]
    <3>1. 0 \in 0 .. BUF BY <1>6
    <3> QED BY <2>5, <3>1 DEF TypeOK
  <2>8. KernelOK' /\ "w_put" \in PcSet BY <1>1 DEF KernelOK, PcSet
  <2>9. Flow' /\ pc' \in [Proc -> PcSet] /\ call' \in [Proc -> CallType] /\ cpu' \in Proc \cup {NULL}
    <3>1. cpu' = p BY <1>1, <2>5
    <3>2. Placed(p, "w_put", c) BY <1>5, <2>4, <2>8, <3>1 DEF Placed
    <3> QED BY <1>1, <1>2, <2>5, <2>6, <2>8, <3>1, <3>2, ProcStep
  <2> QED BY <1>1, <2>7, <2>9 DEF TypeOK, PcSet, CallType, dev, sched
<1> QED BY <1>7, <1>8

(* What Hold() does to the lists. *)
LEMMA HoldFacts ==
    ASSUME TypeOK, NEW p \in Proc, call[p].s \in Stream, Hold(p)
    PROVE  /\ run' \in RunType /\ run'.enab = run.enab /\ held' \in [Stream -> 0 .. BUF]
           /\ due' \in [Stream -> BOOLEAN]
           /\ scan' \in [head : Queue \cup {NULL}, tail : Queue \cup {NULL}, hlist : SUBSET Stream]
           /\ strscanflag' \in BOOLEAN /\ held' = [held EXCEPT ![call[p].s] = call[p].m]
<1>1. PICK s, q : s = call[p].s /\ q = <<s, "hw">> OBVIOUS
<1>2. s \in Stream /\ q \in Queue BY <1>1 DEF Queue
<1>3. call[p].m \in 0 .. BUF BY ProcTyped
<1>4. held' = [held EXCEPT ![s] = call[p].m] /\ due' = [due EXCEPT ![s] = FALSE] BY <1>1 DEF Hold
<1>5. held' \in [Stream -> 0 .. BUF] /\ due' \in [Stream -> BOOLEAN] BY <1>3, <1>4 DEF TypeOK
<1>6. run \in RunType BY DEF TypeOK, RunType
<1>7. CASE s \in scan.hlist
  <2>1. UNCHANGED <<scan, run, strscanflag>> BY <1>1, <1>7 DEF Hold
  <2> QED BY <1>1, <1>4, <1>5, <1>6, <2>1 DEF TypeOK
<1>8. CASE s \notin scan.hlist
  <2> DEFINE l == [x \in Queue |-> IF x = q THEN NULL ELSE IF x = scan.tail /\ scan.head # NULL THEN q ELSE run.link[x]]
  <2>1. l \in [Queue -> Queue \cup {NULL}] BY <1>2, <1>6 DEF RunType
  <2>2. /\ run' = [run EXCEPT !.link = l] /\ strscanflag' = TRUE
        /\ scan' = [head |-> IF scan.head = NULL THEN q ELSE scan.head, tail |-> q, hlist |-> scan.hlist \cup {s}]
    BY <1>1, <1>8 DEF Hold
  <2> HIDE DEF l
  <2>3. run' \in RunType /\ run'.enab = run.enab BY <1>6, <2>1, <2>2 DEF RunType
  <2>4. scan' \in [head : Queue \cup {NULL}, tail : Queue \cup {NULL}, hlist : SUBSET Stream]
    BY <1>2, <2>2 DEF TypeOK
  <2> QED BY <1>1, <1>4, <1>5, <2>2, <2>3, <2>4
<1> QED BY <1>7, <1>8

(* strwrite holds a message back. *)
LEMMA WriteHoldStep ==
    ASSUME TypeOK, Flow, NEW p \in Proc, WriteHold(p) PROVE TypeOK' /\ Flow'
<1>1. /\ cpu = p /\ qr = OFF /\ pc[p] = "w_made" /\ Hold(p) /\ Leave(p, pc)
      /\ UNCHANGED <<opt, dev, sd_flag, back, qrunflag, qr>>
  BY DEF WriteHold, In
<1>2. CallOK(p) BY DEF Flow
<1>3. call[p].s \in Stream BY <1>1, <1>2 DEF CallOK
<1>4. /\ run' \in RunType /\ run'.enab = run.enab /\ held' \in [Stream -> 0 .. BUF]
      /\ due' \in [Stream -> BOOLEAN]
      /\ scan' \in [head : Queue \cup {NULL}, tail : Queue \cup {NULL}, hlist : SUBSET Stream]
      /\ strscanflag' \in BOOLEAN
  BY <1>1, <1>3, HoldFacts
<1>5. Quiet BY <1>1, <1>4 DEF Quiet, Serving, dev
<1>6. Flow' /\ pc' \in [Proc -> PcSet] /\ call' \in [Proc -> CallType] /\ cpu' \in Proc \cup {NULL}
  BY <1>1, <1>5, LeaveStep
<1> QED BY <1>1, <1>4, <1>6 DEF TypeOK, PcSet, CallType, dev, RunType

(* A process gets the processor, or a signal. *)
LEMMA DispatchStep ==
    ASSUME TypeOK, Flow, NEW p \in Proc, Dispatch(p) \/ Signal(p) PROVE TypeOK' /\ Flow'
<1>1. UNCHANGED <<opt, dev, held, due, sd_flag, sched, qr, call>> BY DEF Dispatch, Signal
<1>2. Quiet BY <1>1 DEF Quiet, Serving, dev, sched
<1>3. CallOK(p) /\ pc[p] # "user" BY DEF Flow, Dispatch, Signal
<1>4. call[p].s \in Stream /\ call[p] \in CallType BY <1>3, ProcTyped DEF CallOK
<1>5. call' = [call EXCEPT ![p] = call[p]] BY <1>1 DEF TypeOK
<1>6. Flow' /\ pc' \in [Proc -> PcSet] /\ call' \in [Proc -> CallType] /\ cpu' \in Proc \cup {NULL}
  <2>1. CASE Dispatch(p)
    <3>1. /\ cpu = NULL /\ qr = OFF /\ cpu' = p /\ pc' = [pc EXCEPT ![p] = Again(p)]
          /\ pc[p] \in {"w_woken", "r_woken", "w_made"}
      BY <2>1 DEF Dispatch
    <3>2. PICK l : l = Again(p) OBVIOUS
    <3>3. (l = "w_canput" /\ pc[p] = "w_woken") \/ l = "r_again" \/ (l = "w_made" /\ pc[p] = "w_made")
      <4>1. CASE pc[p] = "w_woken" BY <3>2, <4>1 DEF Again
      <4>2. CASE pc[p] = "r_woken" BY <3>2, <4>2 DEF Again
      <4>3. CASE pc[p] = "w_made" BY <3>2, <4>3 DEF Again
      <4> QED BY <3>1, <4>1, <4>2, <4>3
    <3>4. l \in PcSet /\ l \notin {"w_asleep", "r_asleep"} BY <3>3 DEF PcSet
    <3>5. (l \in {"w_canput", "w_woken", "w_intr"} => 0 < call[p].resid) /\ (l \in {"w_made", "w_put"} => 0 < call[p].m)
      BY <1>3, <3>3 DEF CallOK
    <3>6. KernelOK' BY <1>1, <3>1 DEF KernelOK
    <3>7. Placed(p, l, call[p]) BY <1>4, <3>1, <3>4, <3>5 DEF Placed
    <3> QED BY <1>2, <1>5, <3>1, <3>2, <3>6, <3>7, ProcStep
  <2>2. CASE Signal(p)
    <3>1. cpu' = cpu /\ pc[p] \in {"w_asleep", "w_woken", "r_asleep", "r_woken"} BY <2>2 DEF Signal
    <3>2. PICK l : l = IF pc[p] \in {"w_asleep", "w_woken"} THEN "w_intr" ELSE "r_intr" OBVIOUS
    <3>3. pc' = [pc EXCEPT ![p] = l] BY <2>2, <3>2 DEF Signal, TypeOK
    <3>4. l \in PcSet /\ l \notin {"w_asleep", "r_asleep"} BY <3>2 DEF PcSet
    <3>5. l = "w_intr" => 0 < call[p].resid BY <1>3, <3>1, <3>2 DEF CallOK
    <3>6. l = "w_intr" \/ l = "r_intr" BY <3>2
    <3>7. KernelOK'
      <4>1. KernelOK BY DEF Flow
      <4>2. cpu # p => pc'[cpu] = pc[cpu] \/ cpu = NULL BY <3>3 DEF TypeOK
      <4> QED BY <1>1, <3>1, <4>1, <4>2 DEF KernelOK
    <3>8. Placed(p, l, call[p]) BY <1>4, <3>4, <3>5, <3>6 DEF Placed
    <3> QED BY <1>2, <1>5, <3>1, <3>3, <3>7, <3>8, ProcStep
  <2> QED BY <2>1, <2>2
<1> QED BY <1>1, <1>6 DEF TypeOK, PcSet, CallType, dev, sched

(* Output is suspended. *)
LEMMA MStopStep ==
    ASSUME TypeOK, Flow, NEW p \in Proc, NEW s \in Stream, MStop(p, s) PROVE TypeOK' /\ Flow'
<1>1. UNCHANGED <<opt, dw, dr, hr, dma, held, due, sd_flag, sched, qr, cpu, pc, call>> /\ ttstop' = [ttstop EXCEPT ![s] = TRUE]
  BY DEF MStop
<1>2. TypeOK' BY <1>1 DEF TypeOK, sched
<1>3. \A t \in Stream : ttstop'[t] = ttstop[t] \/ ttstop'[t] = TRUE BY <1>1 DEF TypeOK
<1>4. Serving BY <1>1 DEF Serving, sched
<1>5. \A t \in Stream : OutOK(t)' /\ InOK(t)' BY <1>1, <1>3, <1>4, OutSame, InSame DEF Flow
<1>6. Keeps BY <1>1, <1>3, <1>4, PromisedSame DEF Keeps
<1>7. (\A q \in Proc : CallOK(q)') /\ OldSleepers({}) BY <1>1, CallSame
<1>8. \A q \in Proc : SleeperOK(q)' BY <1>6, <1>7, SleepersKept
<1>9. KernelOK' BY <1>1 DEF Flow, KernelOK
<1> QED BY <1>2, <1>5, <1>7, <1>8, <1>9 DEF Flow

(* The driver's write queue of s has been worked on. *)
Pushed(s) ==
    /\ QueueOK(dw'[s], BUF) /\ (dw'[s].msgs # << >> => dma'[s] # 0 \/ ttstop'[s])
    /\ \A t \in Stream \ {s} : dw'[t] = dw[t] /\ dma'[t] = dma[t] /\ ttstop'[t] = ttstop[t]
    /\ run.enab \subseteq run'.enab /\ (qr \in Queue => qr' = qr)
    /\ "QWANTW" \in dw[s].flag /\ LOWAT <= Count(dw[s]) =>
          <<s, "hw">> \in run'.enab \/ ("QWANTW" \in dw'[s].flag /\ LOWAT <= Count(dw'[s]))
    /\ UNCHANGED <<dr, hr, sd_flag>>

(* Output keeps Flow. *)
LEMMA PushedFlow ==
    ASSUME TypeOK, Flow, NEW s \in Stream, Pushed(s)
    PROVE  (\A t \in Stream : OutOK(t)' /\ InOK(t)') /\ Keeps
<1>0. BUF \in Nat /\ LOWAT \in Nat /\ 0 < LOWAT BY StreamsAssumption
<1>1. Serving BY DEF Pushed, Serving
<1>2. \A t \in Stream : OutOK(t)'
  <2>1. OutOK(s)' BY DEF Pushed, OutOK
  <2>2. \A t \in Stream \ {s} : OutOK(t)' BY OutSame DEF Pushed, Flow
  <2> QED BY <2>1, <2>2
<1>3. \A t \in Stream : InOK(t)'
  <2>1. UNCHANGED <<dr, hr>> BY DEF Pushed
  <2> QED BY <1>1, <2>1, InSame DEF Flow
<1>4. \A t \in Stream : Promised(t) => Promised(t)'
  <2>1. \A t \in Stream \ {s} : Promised(t) => Promised(t)' BY <1>1, PromisedSame DEF Pushed
  <2>2. Promised(s) => Promised(s)'
    <3>1. <<s, "hw">> \in Queue BY DEF Queue
    <3>2. QueueOK(dw'[s], BUF) BY DEF Pushed
    <3>3. Count(dw'[s]) \in Nat /\ (dw'[s].msgs = << >> => Count(dw'[s]) = 0)
      BY <1>0, <3>2, QueueTyped
    <3>4. LOWAT <= Count(dw'[s]) => dma'[s] # 0 \/ ttstop'[s] BY <1>0, <3>3 DEF Pushed
    <3> QED BY <3>1, <3>4 DEF Promised, Pushed
  <2> QED BY <2>1, <2>2
<1>5. Keeps BY <1>4 DEF Keeps, Pushed
<1> QED BY <1>2, <1>3, <1>5

(* iuxint, iuoput for M_START and for M_FLUSH. *)
LEMMA IuxintStep ==
    ASSUME TypeOK, Flow, NEW s \in Stream, Iuxint(s) \/ (\E p \in Proc : MStart(p, s))
    PROVE  TypeOK' /\ Flow'
<1>0. BUF \in Nat /\ 0 \in 0 .. BUF BY StreamsAssumption
<1>1. UNCHANGED <<opt, dr, hr, held, due, sd_flag, scan, strscanflag, qr, cpu, pc, call>>
  BY DEF Iuxint, MStart
<1>2. ttstop' \in [Stream -> BOOLEAN] /\ \A t \in Stream \ {s} : ttstop'[t] = ttstop[t]
  BY DEF Iuxint, MStart, TypeOK
<1>3. PICK busy \in 0 .. BUF : Output(s, dw[s], busy, ttstop'[s], run)
  <2>1. CASE Iuxint(s) BY <1>0, <2>1 DEF Iuxint
  <2>2. CASE \E p \in Proc : MStart(p, s)
    <3>1. ttstop'[s] = FALSE /\ Output(s, dw[s], dma[s], FALSE, run) BY <2>2 DEF MStart, TypeOK
    <3> QED BY <3>1, StreamTyped
  <2> QED BY <2>1, <2>2
<1>4. QueueOK(dw[s], BUF) BY DEF Flow, OutOK
<1>5. run \in RunType /\ ttstop'[s] \in BOOLEAN BY <1>2, StreamTyped
<1>6. PICK stop \in BOOLEAN : stop = ttstop'[s] BY <1>5
<1>7. Output(s, dw[s], busy, stop, run) BY <1>3, <1>6
<1>8. /\ dw' \in [Stream -> Queues] /\ dma' \in [Stream -> 0 .. BUF] /\ run' \in RunType
      /\ qrunflag' \in BOOLEAN /\ back' \subseteq Stream
      /\ \A t \in Stream \ {s} : dw'[t] = dw[t] /\ dma'[t] = dma[t]
      /\ QueueOK(dw'[s], BUF) /\ (dw'[s].msgs # << >> => dma'[s] # 0 \/ stop)
      /\ run.enab \subseteq run'.enab
      /\ "QWANTW" \in dw[s].flag /\ LOWAT <= Count(dw[s]) =>
            <<s, "hw">> \in run'.enab \/ ("QWANTW" \in dw'[s].flag /\ LOWAT <= Count(dw'[s]))
  <2>1. Moved(s, dw[s], busy, stop, run) BY <1>4, <1>5, <1>7, OutputFacts
  <2> QED BY <2>1 DEF Moved
<1>9. Pushed(s) BY <1>1, <1>2, <1>6, <1>8 DEF Pushed
<1>10. TypeOK' BY <1>1, <1>2, <1>8 DEF TypeOK, RunType
<1>11. (\A t \in Stream : OutOK(t)' /\ InOK(t)') /\ Keeps BY <1>9, PushedFlow
<1>12. (\A q \in Proc : CallOK(q)') /\ OldSleepers({}) BY <1>1, CallSame
<1>13. \A q \in Proc : SleeperOK(q)' BY <1>11, <1>12, SleepersKept
<1>14. KernelOK' BY <1>1 DEF Flow, KernelOK
<1> QED BY <1>10, <1>11, <1>12, <1>13, <1>14 DEF Flow

(* Output is flushed. *)
LEMMA MFlushStep ==
    ASSUME TypeOK, Flow, NEW s \in Stream, NEW p \in Proc, MFlush(p, s) PROVE TypeOK' /\ Flow'
<1>0. BUF \in Nat BY StreamsAssumption
<1>1. UNCHANGED <<opt, dr, hr, dma, ttstop, held, due, sd_flag, scan, strscanflag, qr, cpu, pc, call>>
  BY DEF MFlush
<1>2. PICK f : f = Flushq(dw[s]) OBVIOUS
<1>3. /\ dw' = [dw EXCEPT ![s] = f.q] /\ run' = QenableIf(f.back, run, <<s, "hw">>)
      /\ qrunflag' = (qrunflag \/ run'.enab # run.enab) /\ back' = IF f.back THEN back \cup {s} ELSE back
  BY <1>2 DEF MFlush, Backenable, Schedule
<1>4. QueueOK(dw[s], BUF) BY DEF Flow, OutOK
<1>5. QueueOK(f.q, BUF) /\ f.q.msgs = << >> /\ (f.back <=> "QWANTW" \in dw[s].flag)
  BY <1>0, <1>2, <1>4, FlushqFacts
<1>6. f.q \in Queues BY <1>5 DEF QueueOK
<1>7. dw'[s] = f.q /\ dw' \in [Stream -> Queues] /\ \A t \in Stream \ {s} : dw'[t] = dw[t]
  BY <1>3, <1>6 DEF TypeOK
<1>8. run' \in RunType BY <1>3, StreamTyped, QenableType
<1>9. run'.enab = IF f.back THEN run.enab \cup {<<s, "hw">>} ELSE run.enab
  BY <1>3, QenableFacts, Zenon
<1>10. Pushed(s) BY <1>1, <1>5, <1>7, <1>9 DEF Pushed
<1>11. qrunflag' \in BOOLEAN /\ back' \subseteq Stream BY <1>3 DEF TypeOK
<1>12. TypeOK' BY <1>1, <1>7, <1>8, <1>11 DEF TypeOK, RunType
<1>13. (\A t \in Stream : OutOK(t)' /\ InOK(t)') /\ Keeps BY <1>10, PushedFlow
<1>14. (\A q \in Proc : CallOK(q)') /\ OldSleepers({}) BY <1>1, CallSame
<1>15. \A q \in Proc : SleeperOK(q)' BY <1>13, <1>14, SleepersKept
<1>16. KernelOK' BY <1>1 DEF Flow, KernelOK
<1> QED BY <1>12, <1>13, <1>14, <1>15, <1>16 DEF Flow

(* queuerun puts a held message downstream. *)
LEMMA QrScanStep ==
    ASSUME TypeOK, Flow, QrScan PROVE TypeOK' /\ Flow'
<1>0. BUF \in Nat /\ 0 \in 0 .. BUF BY StreamsAssumption
<1>1. UNCHANGED <<opt, dr, hr, ttstop, due, sd_flag, strscanflag, qr, cpu, pc, call>> BY DEF QrScan
<1>2. PICK q, s : q = scan.head /\ s = q[1] OBVIOUS
<1>3. q \in Queue /\ s \in Stream BY <1>2 DEF QrScan, TypeOK, Queue
<1>4. /\ scan' = [head  |-> run.link[q], tail  |-> IF run.link[q] = NULL THEN NULL ELSE scan.tail, hlist |-> scan.hlist \ {s}]
      /\ held' = [held EXCEPT ![s] = 0]
  BY <1>2 DEF QrScan
<1>5. run \in RunType /\ OutOK(s) BY <1>3 DEF TypeOK, RunType, Flow
<1>6. scan' \in [head : Queue \cup {NULL}, tail : Queue \cup {NULL}, hlist : SUBSET Stream]
  <2>1. run.link[q] \in Queue \cup {NULL} BY <1>3, <1>5 DEF RunType
  <2> QED BY <1>4, <2>1 DEF TypeOK
<1>7. held' \in [Stream -> 0 .. BUF] BY <1>0, <1>4 DEF TypeOK
<1>8. /\ dw' \in [Stream -> Queues] /\ dma' \in [Stream -> 0 .. BUF] /\ run' \in RunType
      /\ qrunflag' \in BOOLEAN /\ back' \subseteq Stream /\ Pushed(s)
  <2>1. CASE held[s] # 0
    <3>0. held[s] \in 0 .. BUF BY <1>3, StreamTyped
    <3>1. held[s] \in 1 .. BUF BY <1>0, <2>1, <3>0
    <3>2. Iuoput(s, held[s]) BY <1>2, <2>1 DEF QrScan
    <3>3. /\ dw' \in [Stream -> Queues] /\ dma' \in [Stream -> 0 .. BUF] /\ run' \in RunType
          /\ qrunflag' \in BOOLEAN /\ back' \subseteq Stream
          /\ \A t \in Stream \ {s} : dw'[t] = dw[t] /\ dma'[t] = dma[t]
          /\ QueueOK(dw'[s], BUF) /\ (dw'[s].msgs # << >> => dma'[s] # 0 \/ ttstop[s])
          /\ run.enab \subseteq run'.enab
          /\ "QWANTW" \in dw[s].flag /\ LOWAT <= Count(dw[s]) =>
                <<s, "hw">> \in run'.enab \/ ("QWANTW" \in dw'[s].flag /\ LOWAT <= Count(dw'[s]))
      BY <1>3, <1>5, <3>1, <3>2, IuoputFacts
    <3> QED BY <1>1, <3>3 DEF Pushed
  <2>2. CASE held[s] = 0
    <3>1. UNCHANGED <<dw, dma, run, qrunflag, back>> BY <1>2, <2>2 DEF QrScan
    <3>2. Pushed(s) BY <1>1, <1>5, <3>1 DEF Pushed, OutOK
    <3> QED BY <3>1, <3>2 DEF TypeOK, RunType
  <2> QED BY <2>1, <2>2
<1>9. TypeOK' BY <1>1, <1>6, <1>7, <1>8 DEF TypeOK, RunType
<1>10. (\A t \in Stream : OutOK(t)' /\ InOK(t)') /\ Keeps BY <1>3, <1>8, PushedFlow
<1>11. (\A p \in Proc : CallOK(p)') /\ OldSleepers({}) BY <1>1, CallSame
<1>12. \A p \in Proc : SleeperOK(p)' BY <1>10, <1>11, SleepersKept
<1>13. KernelOK' BY <1>1 DEF Flow, KernelOK
<1> QED BY <1>9, <1>10, <1>11, <1>12, <1>13 DEF Flow

(* strwrite puts a message downstream. *)
LEMMA WritePutStep ==
    ASSUME TypeOK, Flow, NEW p \in Proc, WritePut(p) PROVE TypeOK' /\ Flow'
<1>0. BUF \in Nat /\ 0 \in 0 .. BUF BY StreamsAssumption
<1>1. UNCHANGED <<opt, dr, hr, ttstop, due, sd_flag, scan, strscanflag, cpu>> BY DEF WritePut
<1>2. CallOK(p) /\ cpu = p /\ qr = OFF /\ pc[p] \in {"w_put", "w_made"} BY DEF Flow, WritePut, In
<1>3. PICK s, m : s = call[p].s /\ m = call[p].m OBVIOUS
<1>4. s \in Stream /\ m \in 1 .. BUF /\ call[p] \in CallType
  BY <1>0, <1>2, <1>3, ProcTyped DEF CallOK
<1>5. /\ held' = [held EXCEPT ![s] = 0] /\ Iuoput(s, m) /\ call' = [call EXCEPT ![p].m = 0]
      /\ pc' = [pc EXCEPT ![p] = "w_next"] /\ qr' = IF qrunflag' THEN SCAN ELSE OFF
  BY <1>3 DEF WritePut
<1>6. OutOK(s) BY <1>4 DEF Flow
<1>7. /\ dw' \in [Stream -> Queues] /\ dma' \in [Stream -> 0 .. BUF] /\ run' \in RunType
      /\ qrunflag' \in BOOLEAN /\ back' \subseteq Stream
      /\ \A t \in Stream \ {s} : dw'[t] = dw[t] /\ dma'[t] = dma[t]
      /\ QueueOK(dw'[s], BUF) /\ (dw'[s].msgs # << >> => dma'[s] # 0 \/ ttstop[s])
      /\ run.enab \subseteq run'.enab
      /\ "QWANTW" \in dw[s].flag /\ LOWAT <= Count(dw[s]) =>
            <<s, "hw">> \in run'.enab \/ ("QWANTW" \in dw'[s].flag /\ LOWAT <= Count(dw'[s]))
  BY <1>4, <1>5, <1>6, IuoputFacts
<1>8. Pushed(s) BY <1>1, <1>2, <1>7, OffFacts DEF Pushed
<1>9. PICK c : c = [call[p] EXCEPT !.m = 0] OBVIOUS
<1>10. c \in CallType /\ c.s = s BY <1>0, <1>3, <1>4, <1>9 DEF CallType
<1>11. call' = [call EXCEPT ![p] = c] BY <1>5, <1>9 DEF TypeOK
<1>12. pc' \in [Proc -> PcSet] /\ call' \in [Proc -> CallType]
  BY <1>5, <1>10, <1>11, SetType DEF PcSet
<1>13. pc'[p] = "w_next" /\ call'[p] = c /\ \A o \in Proc \ {p} : pc'[o] = pc[o] /\ call'[o] = call[o]
  BY <1>5, <1>11 DEF TypeOK
<1>14. held' \in [Stream -> 0 .. BUF] /\ qr' \in {OFF, SCAN} BY <1>0, <1>5 DEF TypeOK
<1>15. TypeOK' BY <1>1, <1>7, <1>12, <1>14 DEF TypeOK, RunType, PcSet, CallType
<1>16. (\A t \in Stream : OutOK(t)' /\ InOK(t)') /\ Keeps BY <1>4, <1>8, PushedFlow
<1>17. CallOK(p)' BY <1>1, <1>2, <1>4, <1>10, <1>13 DEF CallOK
<1>18. \A o \in Proc : CallOK(o)' BY <1>1, <1>13, <1>17, CallStep
<1>19. OldSleepers({}) BY <1>13, MoveStep
<1>20. \A o \in Proc : SleeperOK(o)' BY <1>16, <1>19, SleepersKept
<1>21. KernelOK' BY <1>1, <1>2, <1>13 DEF KernelOK
<1> QED BY <1>15, <1>16, <1>18, <1>20, <1>21 DEF Flow

(* v[i] is q after putq of the first i messages of ms. *)
Fills(v, q, ms, n) == v = [i \in 0 .. n |-> IF i = 0 THEN q ELSE Putq(v[i - 1], ms[i])]

(* The functions that Filled and Emptied choose exist. *)
LEMMA FilledExists ==
    ASSUME NEW q, NEW ms, NEW n \in Nat
    PROVE  \E v : Fills(v, q, ms, n)
<1> DEFINE P(v, m) == v = [i \in 0 .. m |-> IF i = 0 THEN q ELSE Putq(v[i - 1], ms[i])]
           S == {m \in Nat : ~\E v : P(v, m)}
<1>1. SUFFICES S = {} BY DEF Fills
<1>2. SUFFICES ASSUME NEW x \in S PROVE FALSE OBVIOUS
<1>3. S \in SUBSET Nat OBVIOUS
<1>4. PICK m \in S : \A z \in S : m <= z
  <2> HIDE DEF S
  <2> QED BY <1>3, LeastMember
<1>5. m \in Nat /\ ~\E v : P(v, m) OBVIOUS
<1>6. CASE m = 0
  <2> DEFINE v == [i \in 0 .. m |-> q]
  <2>1. P(v, m) BY <1>6
  <2> QED BY <1>5, <2>1
<1>7. CASE m # 0
  <2>1. m - 1 \in Nat /\ ~(m <= m - 1) BY <1>5, <1>7
  <2>2. PICK w : P(w, m - 1) BY <1>4, <2>1
  <2> DEFINE v == [i \in 0 .. m |-> IF i = m THEN Putq(w[m - 1], ms[m]) ELSE w[i]]
  <2>4. ASSUME NEW i \in 0 .. m PROVE v[i] = IF i = 0 THEN q ELSE Putq(v[i - 1], ms[i])
    <3>1. CASE i = m
      <4>1. v[i - 1] = w[m - 1] BY <1>5, <1>7, <3>1
      <4> QED BY <1>5, <1>7, <3>1, <4>1
    <3>2. CASE i # m
      <4>1. i \in 0 .. m - 1 /\ v[i] = w[i] BY <1>5, <3>2
      <4>2. w[i] = IF i = 0 THEN q ELSE Putq(w[i - 1], ms[i]) BY <2>2, <4>1
      <4>3. i # 0 => v[i - 1] = w[i - 1] BY <1>5, <4>1
      <4> QED BY <4>1, <4>2, <4>3
    <3> QED BY <3>1, <3>2
  <2>5. v = [i \in 0 .. m |-> v[i]] OBVIOUS
  <2> HIDE DEF v
  <2>6. P(v, m) BY <2>4, <2>5
  <2> QED BY <1>5, <2>6
<1> QED BY <1>6, <1>7

(* There are such queues for getq, too. *)
LEMMA EmptiedExists ==
    ASSUME NEW q, NEW n \in Nat
    PROVE  \E v : v = [i \in 0 .. n |-> IF i = 0 THEN q ELSE Getq(v[i - 1]).q]
<1> DEFINE P(v, m) == v = [i \in 0 .. m |-> IF i = 0 THEN q ELSE Getq(v[i - 1]).q]
           S == {m \in Nat : ~\E v : P(v, m)}
<1>1. SUFFICES S = {} OBVIOUS
<1>2. SUFFICES ASSUME NEW x \in S PROVE FALSE OBVIOUS
<1>3. S \in SUBSET Nat OBVIOUS
<1>4. PICK m \in S : \A z \in S : m <= z
  <2> HIDE DEF S
  <2> QED BY <1>3, LeastMember
<1>5. m \in Nat /\ ~\E v : P(v, m) OBVIOUS
<1>6. CASE m = 0
  <2> DEFINE v == [i \in 0 .. m |-> q]
  <2>1. P(v, m) BY <1>6
  <2> QED BY <1>5, <2>1
<1>7. CASE m # 0
  <2>1. m - 1 \in Nat /\ ~(m <= m - 1) BY <1>5, <1>7
  <2>2. PICK w : P(w, m - 1) BY <1>4, <2>1
  <2> DEFINE v == [i \in 0 .. m |-> IF i = m THEN Getq(w[m - 1]).q ELSE w[i]]
  <2>4. ASSUME NEW i \in 0 .. m PROVE v[i] = IF i = 0 THEN q ELSE Getq(v[i - 1]).q
    <3>1. CASE i = m
      <4>1. v[i - 1] = w[m - 1] BY <1>5, <1>7, <3>1
      <4> QED BY <1>5, <1>7, <3>1, <4>1
    <3>2. CASE i # m
      <4>1. i \in 0 .. m - 1 /\ v[i] = w[i] BY <1>5, <3>2
      <4>2. w[i] = IF i = 0 THEN q ELSE Getq(w[i - 1]).q BY <2>2, <4>1
      <4>3. i # 0 => v[i - 1] = w[i - 1] BY <1>5, <4>1
      <4> QED BY <4>1, <4>2, <4>3
    <3> QED BY <3>1, <3>2
  <2>5. v = [i \in 0 .. m |-> v[i]] OBVIOUS
  <2> HIDE DEF v
  <2>6. P(v, m) BY <2>4, <2>5
  <2> QED BY <1>5, <2>6
<1> QED BY <1>6, <1>7

(* What queue h is after i messages have been put on q. *)
Gained(h, q, i) ==
    /\ QueueOK(h, 1) /\ (i > 0 => h.msgs # << >>) /\ (i = 0 => h = q)
    /\ "QWANTW" \in h.flag <=> "QWANTW" \in q.flag

(* What putq leaves, after any number of messages. *)
LEMMA FilledFacts ==
    ASSUME NEW q, QueueOK(q, 1), NEW ms \in Seq(Nat), \A i \in 1 .. Len(ms) : 0 < ms[i] /\ ms[i] <= 1
    PROVE  \A i \in 0 .. Len(ms) : Gained(Filled(q, ms)[i], q, i)
<1>0. PICK n : n = Len(ms) OBVIOUS
<1>n. n \in Nat BY <1>0
<1> DEFINE P(v) == v = [i \in 0 .. n |-> IF i = 0 THEN q ELSE Putq(v[i - 1], ms[i])]
           h == CHOOSE v : P(v)
<1>1. P(h)
  <2>1. \E v : P(v)
    <3>1. \E v : Fills(v, q, ms, n) BY <1>n, FilledExists
    <3> QED BY <3>1 DEF Fills
  <2> HIDE DEF P
  <2> QED BY <2>1, Zenon
<1>2. Filled(q, ms) = h BY <1>0 DEF Filled
<1> HIDE DEF h
<1>3. \A i \in 0 .. n : h[i] = IF i = 0 THEN q ELSE Putq(h[i - 1], ms[i]) BY <1>1
<1> HIDE DEF P
<1>4. \A i \in 0 .. n : Gained(h[i], q, i)
  <2> DEFINE S == {j \in Nat : j <= n /\ ~Gained(h[j], q, j)}
  <2>1. SUFFICES S = {} BY <1>n
  <2>2. SUFFICES ASSUME NEW x \in S PROVE FALSE OBVIOUS
  <2>3. S \in SUBSET Nat OBVIOUS
  <2>4. PICK j \in S : \A z \in S : j <= z
    <3> HIDE DEF S
    <3> QED BY <2>3, LeastMember
  <2>5. j \in Nat /\ j <= n /\ ~Gained(h[j], q, j) OBVIOUS
  <2>6. CASE j = 0
    <3>1. h[0] = q BY <1>n, <1>3
    <3> QED BY <2>5, <2>6, <3>1 DEF Gained
  <2>7. CASE j # 0
    <3>1. j - 1 \in Nat /\ j - 1 <= n /\ ~(j <= j - 1) /\ j \in 0 .. n /\ j \in 1 .. n
      BY <1>n, <2>5, <2>7
    <3>2. Gained(h[j - 1], q, j - 1) BY <2>4, <3>1
    <3>3. h[j] = Putq(h[j - 1], ms[j]) BY <1>3, <2>7, <3>1
    <3>4. ms[j] \in Nat /\ 0 < ms[j] /\ ms[j] <= 1 BY <1>0, <3>1
    <3>5. QueueOK(h[j - 1], 1) /\ ("QWANTW" \in h[j - 1].flag <=> "QWANTW" \in q.flag)
      BY <3>2 DEF Gained
    <3>6. /\ QueueOK(h[j], 1) /\ h[j].msgs # << >>
          /\ "QWANTW" \in h[j].flag <=> "QWANTW" \in h[j - 1].flag
      BY <3>3, <3>4, <3>5, PutqFacts
    <3> QED BY <2>5, <2>7, <3>5, <3>6 DEF Gained
  <2> QED BY <2>6, <2>7
<1> QED BY <1>0, <1>2, <1>4

(* What getq leaves, after any number of them. *)
LEMMA EmptiedFacts ==
    ASSUME NEW q, QueueOK(q, 1)
    PROVE  \A i \in 0 .. Len(q.msgs) : QueueOK(Emptied(q)[i], 1) /\ Len(Emptied(q)[i].msgs) = Len(q.msgs) - i
<1>0. PICK n : n = Len(q.msgs) OBVIOUS
<1>n. n \in Nat BY <1>0, QueueTyped
<1> DEFINE P(v) == v = [i \in 0 .. n |-> IF i = 0 THEN q ELSE Getq(v[i - 1]).q]
           h == CHOOSE v : P(v)
<1>1. P(h)
  <2>1. \E v : P(v) BY <1>n, EmptiedExists
  <2> HIDE DEF P
  <2> QED BY <2>1, Zenon
<1>2. Emptied(q) = h BY <1>0 DEF Emptied
<1> HIDE DEF h
<1>3. \A i \in 0 .. n : h[i] = IF i = 0 THEN q ELSE Getq(h[i - 1]).q BY <1>1
<1> HIDE DEF P
<1>4. \A i \in 0 .. n : QueueOK(h[i], 1) /\ Len(h[i].msgs) = n - i
  <2> DEFINE S == {j \in Nat : j <= n /\ ~(QueueOK(h[j], 1) /\ Len(h[j].msgs) = n - j)}
  <2>1. SUFFICES S = {} BY <1>n
  <2>2. SUFFICES ASSUME NEW x \in S PROVE FALSE OBVIOUS
  <2>3. S \in SUBSET Nat OBVIOUS
  <2>4. PICK j \in S : \A z \in S : j <= z
    <3> HIDE DEF S
    <3> QED BY <2>3, LeastMember
  <2>5. j \in Nat /\ j <= n /\ ~(QueueOK(h[j], 1) /\ Len(h[j].msgs) = n - j) OBVIOUS
  <2>6. CASE j = 0
    <3>1. h[0] = q BY <1>n, <1>3
    <3> QED BY <1>0, <1>n, <2>5, <2>6, <3>1
  <2>7. CASE j # 0
    <3>1. j - 1 \in Nat /\ j - 1 <= n /\ ~(j <= j - 1) /\ j \in 0 .. n BY <1>n, <2>5, <2>7
    <3>2. QueueOK(h[j - 1], 1) /\ Len(h[j - 1].msgs) = n - (j - 1) BY <2>4, <3>1
    <3>3. h[j] = Getq(h[j - 1]).q BY <1>3, <2>7, <3>1
    <3>4. h[j - 1].msgs \in Seq(Nat) BY <3>2, QueueTyped
    <3>5. h[j - 1].msgs # << >> BY <1>n, <2>5, <3>2, <3>4
    <3>6. QueueOK(h[j], 1) /\ h[j].msgs = Tail(h[j - 1].msgs) BY <3>2, <3>3, <3>5, GetqFacts
    <3>7. Len(h[j].msgs) = Len(h[j - 1].msgs) - 1 BY <3>4, <3>5, <3>6
    <3> QED BY <1>n, <2>5, <3>2, <3>6, <3>7
  <2> QED BY <2>6, <2>7
<1> QED BY <1>0, <1>2, <1>4

(* The number of messages that go up. *)
LEMMA PassesFacts ==
    ASSUME NEW h, NEW k \in Nat
    PROVE  Passes(h, k) \in 0 .. k /\ (Passes(h, k) < k => ~Canput(h[Passes(h, k)]))
<1> DEFINE Q(i) == (\A j \in 0 .. i - 1 : Canput(h[j])) /\ (i < k => ~Canput(h[i]))
           S == {i \in Nat : i < k => ~Canput(h[i])}
<1>1. k \in S OBVIOUS
<1>2. PICK m \in S : \A z \in S : m <= z
  <2>1. S \in SUBSET Nat OBVIOUS
  <2> HIDE DEF S
  <2> QED BY <1>1, <2>1, LeastMember
<1>3. m \in 0 .. k /\ Q(m)
  <2>1. m \in Nat /\ m <= k /\ (m < k => ~Canput(h[m])) BY <1>1, <1>2
  <2>2. ASSUME NEW j \in 0 .. m - 1 PROVE Canput(h[j])
    <3>1. j \in Nat /\ ~(m <= j) /\ j < k BY <2>1, <2>2
    <3> QED BY <1>2, <3>1
  <2> QED BY <2>1, <2>2
<1>4. Passes(h, k) = CHOOSE i \in 0 .. k : Q(i) BY DEF Passes
<1>5. Passes(h, k) \in 0 .. k /\ Q(Passes(h, k))
  <2> HIDE DEF Q
  <2> QED BY <1>3, <1>4
<1> QED BY <1>5

(* Input arrives in the driver. *)
LEMMA IuscanStep ==
    ASSUME TypeOK, Flow, NEW s \in Stream, Iuscan(s) PROVE TypeOK' /\ Flow'
<1>1. UNCHANGED <<opt, dw, hr, dma, ttstop, held, due, sd_flag, back, scan, strscanflag, qr, cpu, pc, call>>
  BY DEF Iuscan
<1>2. /\ dr' = [dr EXCEPT ![s] = Putq(dr[s], 1)] /\ run' = QenableIf(Enables(dr[s]), run, <<s, "dr">>)
      /\ qrunflag' = (qrunflag \/ run'.enab # run.enab)
  BY DEF Iuscan, Schedule
<1>3. InOK(s) BY DEF Flow
<1>4. QueueOK(dr[s], 1) BY <1>3 DEF InOK
<1>5. QueueOK(Putq(dr[s], 1), 1) /\ Putq(dr[s], 1).msgs # << >> BY <1>4, PutqFacts
<1>6. Putq(dr[s], 1) \in Queues BY <1>5 DEF QueueOK
<1>7. dr' \in [Stream -> Queues] /\ dr'[s] = Putq(dr[s], 1) /\ \A t \in Stream \ {s} : dr'[t] = dr[t]
  BY <1>2, <1>6 DEF TypeOK
<1>8. run' \in RunType BY <1>2, StreamTyped, QenableType
<1>9. run'.enab = IF Enables(dr[s]) THEN run.enab \cup {<<s, "dr">>} ELSE run.enab
  BY <1>2, QenableFacts, Zenon
<1>10. TypeOK' BY <1>1, <1>2, <1>7, <1>8 DEF TypeOK, RunType
<1>11. Serving BY <1>1, <1>9 DEF Serving
<1>12. \A t \in Stream : OutOK(t)' BY <1>1, OutSame DEF Flow
<1>13. InOK(s)'
  <2>1. QueueOK(hr'[s], 1) BY <1>1, <1>3 DEF InOK
  <2>2. dr[s].msgs # << >> \/ Enables(dr[s]) BY <1>3 DEF InOK, Enables
  <2>3. CASE Enables(dr[s])
    <3>1. <<s, "dr">> \in run'.enab BY <1>9, <2>3
    <3> QED BY <1>5, <1>7, <2>1, <3>1 DEF InOK
  <2>4. CASE dr[s].msgs # << >>
    <3>1. \/ <<s, "dr">> \in run.enab \/ qr = <<s, "dr">>
          \/ "QWANTW" \in hr[s].flag /\ LOWAT <= Count(hr[s])
      BY <1>3, <2>4 DEF InOK
    <3>2. run.enab \subseteq run'.enab BY <1>9
    <3> QED BY <1>1, <1>5, <1>7, <2>1, <3>1, <3>2 DEF InOK
  <2> QED BY <2>2, <2>3, <2>4
<1>14. \A t \in Stream \ {s} : InOK(t)' BY <1>1, <1>7, <1>11, InSame DEF Flow
<1>15. Keeps BY <1>1, <1>11, PromisedSame DEF Keeps
<1>16. (\A q \in Proc : CallOK(q)') /\ OldSleepers({}) BY <1>1, CallSame
<1>17. \A q \in Proc : SleeperOK(q)' BY <1>15, <1>16, SleepersKept
<1>18. KernelOK' BY <1>1 DEF Flow, KernelOK
<1> QED BY <1>10, <1>12, <1>13, <1>14, <1>16, <1>17, <1>18 DEF Flow

(* A process found the driver's queue full, and marked it. *)
LEMMA RefusedFlow ==
    ASSUME TypeOK, Flow, NEW s \in Stream, dw' = [dw EXCEPT ![s] = Refused(dw[s])],
           UNCHANGED <<dr, hr, dma, ttstop, run, qr>>, ~Canput(dw[s])
    PROVE  /\ dw' \in [Stream -> Queues] /\ \A t \in Stream : OutOK(t)' /\ InOK(t)' /\ (Promised(t) => Promised(t)')
           /\ Promised(s)'
<1>0. BUF \in Nat /\ LOWAT \in Nat /\ HIWAT \in Nat /\ 0 < LOWAT /\ LOWAT <= HIWAT
  BY StreamsAssumption
<1>1. OutOK(s) /\ QueueOK(dw[s], BUF) BY DEF Flow, OutOK
<1>2. QueueOK(Refused(dw[s]), BUF) /\ Refused(dw[s]).msgs = dw[s].msgs /\ Count(Refused(dw[s])) = Count(dw[s])
      /\ "QWANTW" \in Refused(dw[s]).flag
  BY <1>0, <1>1, RefusedFacts
<1>3. Refused(dw[s]) \in Queues BY <1>2 DEF QueueOK
<1>4. dw' \in [Stream -> Queues] /\ dw'[s] = Refused(dw[s]) /\ \A t \in Stream \ {s} : dw'[t] = dw[t]
  BY <1>3 DEF TypeOK
<1>5. Count(dw[s]) \in Nat /\ ~(Count(dw[s]) < HIWAT) /\ (dw[s].msgs = << >> => Count(dw[s]) = 0)
  BY <1>0, <1>1, QueueTyped
<1>6. LOWAT <= Count(dw[s]) /\ dw[s].msgs # << >> BY <1>0, <1>5
<1>7. OutOK(s)' BY <1>1, <1>2, <1>4 DEF OutOK
<1>8. Promised(s)' BY <1>1, <1>2, <1>4, <1>6 DEF OutOK, Promised
<1>9. Serving BY DEF Serving
<1>10. \A t \in Stream \ {s} : OutOK(t)' /\ (Promised(t) => Promised(t)')
  BY <1>4, <1>9, OutSame, PromisedSame DEF Flow
<1>11. \A t \in Stream : InOK(t)' BY <1>9, InSame DEF Flow
<1> QED BY <1>4, <1>7, <1>8, <1>10, <1>11

(* strwrite finds the queue full. *)
LEMMA WriteFullStep ==
    ASSUME TypeOK, Flow, NEW p \in Proc, WriteFull(p) PROVE TypeOK' /\ Flow'
<1>1. PICK s : s = call[p].s OBVIOUS
<1>2. /\ cpu = p /\ qr = OFF /\ pc[p] = "w_canput" /\ ~Canput(dw[s])
      /\ dw' = [dw EXCEPT ![s] = Refused(dw[s])]
      /\ UNCHANGED <<opt, dr, hr, dma, ttstop, held, due, sched, qr>> /\ cpu' = NULL
  BY <1>1 DEF WriteFull, In, Leave
<1>3. CallOK(p) BY DEF Flow
<1>4. s \in Stream /\ 0 < call[p].resid BY <1>1, <1>2, <1>3 DEF CallOK
<1>5. /\ dw' \in [Stream -> Queues] /\ \A t \in Stream : OutOK(t)' /\ InOK(t)' /\ (Promised(t) => Promised(t)')
      /\ Promised(s)'
  BY <1>2, <1>4, RefusedFlow DEF sched
<1>6. KernelOK' BY <1>2 DEF KernelOK
<1>7. CASE Leave(p, pc) /\ UNCHANGED sd_flag
  <2>1. pc' = [pc EXCEPT ![p] = "user"] /\ call' = [call EXCEPT ![p] = NoCall] BY <1>7 DEF Leave
  <2>2. pc' \in [Proc -> PcSet] /\ call' \in [Proc -> CallType]
    BY <2>1, NoCallType, SetType DEF PcSet
  <2>3. pc'[p] = "user" /\ call'[p] = NoCall /\ \A o \in Proc \ {p} : pc'[o] = pc[o] /\ call'[o] = call[o]
    BY <2>1 DEF TypeOK
  <2>4. CallOK(p)' BY <2>3 DEF CallOK
  <2>5. \A o \in Proc : CallOK(o)' BY <1>2, <2>3, <2>4, CallStep
  <2>6. Keeps BY <1>2, <1>5, <1>7 DEF Keeps
  <2>7. OldSleepers({}) BY <2>3, MoveStep
  <2>8. \A o \in Proc : SleeperOK(o)' BY <2>6, <2>7, SleepersKept
  <2>9. TypeOK' BY <1>2, <1>5, <1>7, <2>2 DEF TypeOK, PcSet, CallType, sched
  <2> QED BY <1>5, <1>6, <2>5, <2>8, <2>9 DEF Flow
<1>8. CASE sd_flag' = [sd_flag EXCEPT ![s] = @ \cup {"WSLEEP"}] /\ pc' = [pc EXCEPT ![p] = "w_asleep"] /\ call' = call
  <2>1. sd_flag' \in [Stream -> SUBSET {"WSLEEP", "RSLEEP"}] /\ "WSLEEP" \in sd_flag'[s] /\ \A t \in Stream : sd_flag[t] \subseteq sd_flag'[t]
    BY <1>4, <1>8 DEF TypeOK
  <2>2. pc' \in [Proc -> PcSet] BY <1>8 DEF TypeOK, PcSet
  <2>3. pc'[p] = "w_asleep" /\ \A o \in Proc \ {p} : pc'[o] = pc[o] /\ call'[o] = call[o]
    BY <1>8 DEF TypeOK
  <2>4. CallOK(p)' BY <1>1, <1>4, <1>8, <2>3 DEF CallOK
  <2>5. \A o \in Proc : CallOK(o)' BY <1>2, <2>3, <2>4, CallStep
  <2>6. Keeps BY <1>2, <1>5, <2>1 DEF Keeps
  <2>7. OldSleepers({p}) BY <2>3 DEF OldSleepers
  <2>8. \A o \in Proc \ {p} : SleeperOK(o)' BY <2>6, <2>7, SleepersKept
  <2>9. SleeperOK(p)'
    <3>1. call'[p].s = s BY <1>1, <1>8
    <3>2. Promised(call[p].s)' BY <1>5, <3>1
    <3> QED BY <2>1, <2>3, <3>1, <3>2 DEF SleeperOK
  <2>10. TypeOK' BY <1>2, <1>5, <1>8, <2>1, <2>2 DEF TypeOK, PcSet, sched
  <2> QED BY <1>5, <1>6, <2>5, <2>8, <2>9, <2>10 DEF Flow
<1> QED BY <1>1, <1>7, <1>8 DEF WriteFull

(* strpoll finds the queue full. *)
LEMMA StrpollStep ==
    ASSUME TypeOK, Flow, NEW p \in Proc, NEW s \in Stream, Strpoll(p, s) PROVE TypeOK' /\ Flow'
<1>1. /\ cpu = NULL /\ qr = OFF /\ ~Canput(dw[s]) /\ dw' = [dw EXCEPT ![s] = Refused(dw[s])]
      /\ UNCHANGED <<opt, dr, hr, dma, ttstop, held, due, sd_flag, sched, qr, cpu>>
      /\ pc' = [pc EXCEPT ![p] = "polling"] /\ call' = [call EXCEPT ![p].s = s]
  BY DEF Strpoll
<1>2. /\ dw' \in [Stream -> Queues] /\ \A t \in Stream : OutOK(t)' /\ InOK(t)' /\ (Promised(t) => Promised(t)')
  BY <1>1, RefusedFlow DEF sched
<1>3. KernelOK' BY <1>1 DEF KernelOK
<1>4. pc' \in [Proc -> PcSet] BY <1>1 DEF TypeOK, PcSet
<1>5. call' \in [Proc -> CallType] BY <1>1 DEF TypeOK, CallType
<1>6. pc'[p] = "polling" /\ call'[p].s = s /\ \A o \in Proc \ {p} : pc'[o] = pc[o] /\ call'[o] = call[o]
  BY <1>1 DEF TypeOK
<1>7. CallOK(p)' BY <1>6 DEF CallOK
<1>8. \A o \in Proc : CallOK(o)' BY <1>1, <1>6, <1>7, CallStep
<1>9. Keeps BY <1>1, <1>2 DEF Keeps
<1>10. OldSleepers({}) BY <1>6, MoveStep
<1>11. \A o \in Proc : SleeperOK(o)' BY <1>9, <1>10, SleepersKept
<1>12. TypeOK' BY <1>1, <1>2, <1>4, <1>5 DEF TypeOK, PcSet, CallType, sched
<1> QED BY <1>2, <1>3, <1>8, <1>11, <1>12 DEF Flow

(* Getq() at the stream head. *)
LEMMA StrreadStep ==
    ASSUME TypeOK, Flow, NEW p \in Proc, NEW s \in Stream, Strread(p, s) PROVE TypeOK' /\ Flow'
<1>1. PICK g : g = Getq(hr[s]) OBVIOUS
<1>2. /\ qr = OFF /\ cpu \in {p, NULL} /\ hr' = [hr EXCEPT ![s] = g.q]
      /\ run' = QenableIf(g.back, run, <<s, "dr">>) /\ qrunflag' = (qrunflag \/ run'.enab # run.enab)
      /\ call' = [call EXCEPT ![p].s = s]
      /\ UNCHANGED <<opt, dw, dr, dma, ttstop, held, due, back, scan, strscanflag>>
  BY <1>1 DEF Strread, Schedule
<1>3. InOK(s) /\ QueueOK(hr[s], 1) BY DEF Flow, InOK
<1>4. /\ QueueOK(g.q, 1) /\ (g.m = 0 => g.q.msgs = << >>) /\ (hr[s].msgs = << >> => g.q.msgs = << >>)
      /\ ("QWANTW" \in hr[s].flag /\ LOWAT <= Count(hr[s]) => g.back \/ ("QWANTW" \in g.q.flag /\ LOWAT <= Count(g.q)))
  BY <1>1, <1>3, GetqFacts
<1>5. g.q \in Queues BY <1>4 DEF QueueOK
<1>6. hr' \in [Stream -> Queues] /\ hr'[s] = g.q /\ \A t \in Stream \ {s} : hr'[t] = hr[t]
  BY <1>2, <1>5 DEF TypeOK
<1>7. run' \in RunType BY <1>2, StreamTyped, QenableType
<1>8. run'.enab = IF g.back THEN run.enab \cup {<<s, "dr">>} ELSE run.enab
  BY <1>2, QenableFacts, Zenon
<1>9. Serving BY <1>2, <1>8, OffFacts DEF Serving
<1>10. \A t \in Stream : OutOK(t)' /\ (Promised(t) => Promised(t)')
  BY <1>2, <1>9, OutSame, PromisedSame DEF Flow
<1>11. \A t \in Stream \ {s} : InOK(t)' BY <1>2, <1>6, <1>9, InSame DEF Flow
<1>12. InOK(s)'
  <2>1. dr'[s] = dr[s] BY <1>2
  <2>2. qr # <<s, "dr">> BY <1>2, OffFacts DEF Queue
  <2>3. dr[s].msgs # << >> => \/ <<s, "dr">> \in run'.enab
                              \/ "QWANTW" \in hr'[s].flag /\ LOWAT <= Count(hr'[s])
    BY <1>3, <1>4, <1>6, <1>8, <2>2 DEF InOK
  <2> QED BY <1>3, <1>4, <1>6, <2>1, <2>3 DEF InOK
<1>13. call' \in [Proc -> CallType] BY <1>2 DEF TypeOK, CallType
<1>14. call'[p].s = s /\ call'[p].resid = call[p].resid /\ \A o \in Proc \ {p} : call'[o] = call[o]
  BY <1>2 DEF TypeOK
<1>15. qrunflag' \in BOOLEAN BY <1>2 DEF TypeOK
<1>16. CASE g.m # 0 /\ pc' = [pc EXCEPT ![p] = "r_next"] /\ cpu' = p /\ qr' = (IF qrunflag' THEN SCAN ELSE OFF) /\ UNCHANGED sd_flag
  <2>1. pc' \in [Proc -> PcSet] /\ pc'[p] = "r_next" /\ \A o \in Proc \ {p} : pc'[o] = pc[o]
    BY <1>16 DEF TypeOK, PcSet
  <2>2. CallOK(p)' BY <1>14, <1>16, <2>1 DEF CallOK
  <2>3. \A o \in Proc : CallOK(o)' BY <1>2, <1>14, <1>16, <2>1, <2>2, CallStep
  <2>4. Keeps BY <1>4, <1>6, <1>10, <1>16 DEF Keeps
  <2>5. OldSleepers({}) BY <1>14, <2>1, MoveStep
  <2>6. \A o \in Proc : SleeperOK(o)' BY <2>4, <2>5, SleepersKept
  <2>7. KernelOK' BY <1>16, <2>1 DEF KernelOK
  <2>8. TypeOK' BY <1>2, <1>6, <1>7, <1>13, <1>15, <1>16, <2>1 DEF TypeOK, PcSet, CallType, RunType
  <2> QED BY <1>10, <1>11, <1>12, <2>3, <2>6, <2>7, <2>8 DEF Flow
<1>17. CASE g.m = 0 /\ sd_flag' = [sd_flag EXCEPT ![s] = @ \cup {"RSLEEP"}] /\ pc' = [pc EXCEPT ![p] = "r_asleep"] /\ cpu' = NULL /\ qr' = qr
  <2>1. pc' \in [Proc -> PcSet] /\ pc'[p] = "r_asleep" /\ \A o \in Proc \ {p} : pc'[o] = pc[o]
    BY <1>17 DEF TypeOK, PcSet
  <2>2. CallOK(p)' BY <1>14, <2>1 DEF CallOK
  <2>3. \A o \in Proc : CallOK(o)' BY <1>2, <1>14, <1>17, <2>1, <2>2, CallStep
  <2>4. sd_flag' \in [Stream -> SUBSET {"WSLEEP", "RSLEEP"}] /\ "RSLEEP" \in sd_flag'[s] /\ \A t \in Stream : sd_flag[t] \subseteq sd_flag'[t]
    BY <1>17 DEF TypeOK
  <2>5. Keeps BY <1>4, <1>6, <1>10, <2>4 DEF Keeps
  <2>6. OldSleepers({p}) BY <1>14, <2>1 DEF OldSleepers
  <2>7. \A o \in Proc \ {p} : SleeperOK(o)' BY <2>5, <2>6, SleepersKept
  <2>8. SleeperOK(p)' BY <1>4, <1>6, <1>14, <1>17, <2>1, <2>4 DEF SleeperOK
  <2>9. KernelOK' BY <1>17 DEF KernelOK
  <2>10. TypeOK'
    BY <1>2, <1>6, <1>7, <1>13, <1>15, <1>17, <2>1, <2>4 DEF TypeOK, PcSet, CallType, RunType
  <2> QED BY <1>10, <1>11, <1>12, <2>3, <2>7, <2>8, <2>9, <2>10 DEF Flow
<1> QED BY <1>1, <1>16, <1>17 DEF Strread

(* Processes are woken, or leave poll: w is the new pc. *)
Woken(w) ==
    /\ w \in [Proc -> PcSet]
    /\ \A p \in Proc : \/ w[p] = pc[p]
                       \/ w[p] = "w_woken" /\ pc[p] = "w_asleep"
                       \/ w[p] = "r_woken" /\ pc[p] = "r_asleep"
                       \/ w[p] = "user" /\ pc[p] \in {"polling", "w_intr", "r_intr"}

(* Then the calls stay what they should be. *)
LEMMA WokenCalls ==
    ASSUME TypeOK, Flow, Woken(pc'), \A p \in Proc : pc'[p] # "user" => call'[p] = call[p],
           cpu' = cpu \/ \A p \in Proc : cpu = p => pc'[p] = "user"
    PROVE  \A p \in Proc : CallOK(p)'
<1> TAKE p \in Proc
<1>1. CallOK(p) BY DEF Flow
<1>2. CASE pc'[p] = "user" BY <1>2 DEF CallOK
<1>3. CASE pc'[p] # "user" /\ pc'[p] = pc[p] BY <1>1, <1>3 DEF CallOK
<1>4. CASE pc'[p] = "w_woken" /\ pc[p] = "w_asleep" BY <1>1, <1>4 DEF CallOK
<1>5. CASE pc'[p] = "r_woken" /\ pc[p] = "r_asleep" BY <1>1, <1>5 DEF CallOK
<1> QED BY <1>2, <1>3, <1>4, <1>5 DEF Woken

(* wakeup() of those at from. *)
LEMMA WakeupFacts ==
    ASSUME NEW w \in [Proc -> PcSet], NEW s, NEW from, NEW to \in PcSet
    PROVE  /\ Wakeup(w, s, from, to) \in [Proc -> PcSet]
           /\ \A p \in Proc : Wakeup(w, s, from, to)[p] = IF w[p] = from /\ call[p].s = s THEN to ELSE w[p]
BY DEF Wakeup

(* strwsrv wakes the writers. *)
LEMMA StrwsrvStep ==
    ASSUME TypeOK, Flow, Strwsrv PROVE TypeOK' /\ Flow' /\ Woken(pc')
<1>1. PICK s : s = qr[1] OBVIOUS
<1>2. qr \in Queue /\ qr[2] = "hw" /\ qr' = <<s, "clear">> BY <1>1 DEF Strwsrv, Serves
<1>3. s \in Stream /\ qr = <<s, "hw">> BY <1>1, <1>2 DEF Queue
<1>4. /\ sd_flag' = [sd_flag EXCEPT ![s] = @ \ {"WSLEEP"}]
      /\ UNCHANGED <<opt, dev, held, due, sched, cpu, call>>
  BY <1>1 DEF Strwsrv
<1>5. PICK w : w = IF "WSLEEP" \in sd_flag[s] THEN Wakeup(pc, s, "w_asleep", "w_woken") ELSE pc OBVIOUS
<1>6. pc' = IF s \in back /\ Canput(dw[s]) THEN Wakeup(w, s, "polling", "user") ELSE w
  BY <1>1, <1>5 DEF Strwsrv
<1>7. pc \in [Proc -> PcSet] /\ "w_woken" \in PcSet /\ "user" \in PcSet BY DEF TypeOK, PcSet
<1>8. w \in [Proc -> PcSet] /\ \A p \in Proc : w[p] = IF "WSLEEP" \in sd_flag[s] /\ pc[p] = "w_asleep" /\ call[p].s = s THEN "w_woken" ELSE pc[p]
  BY <1>5, <1>7, WakeupFacts
<1>9. /\ pc' \in [Proc -> PcSet]
      /\ \A p \in Proc : pc'[p] = IF s \in back /\ Canput(dw[s]) /\ w[p] = "polling" /\ call[p].s = s THEN "user" ELSE w[p]
  BY <1>6, <1>7, <1>8, WakeupFacts
<1>10. /\ sd_flag' \in [Stream -> SUBSET {"WSLEEP", "RSLEEP"}] /\ \A t \in Stream \ {s} : sd_flag'[t] = sd_flag[t]
       /\ "RSLEEP" \in sd_flag[s] => "RSLEEP" \in sd_flag'[s]
  BY <1>3, <1>4 DEF TypeOK
<1>11. TypeOK' BY <1>2, <1>3, <1>4, <1>9, <1>10 DEF TypeOK, PcSet, dev, sched
<1>12. Woken(pc') BY <1>8, <1>9 DEF Woken
<1>13. \A p \in Proc : CallOK(p)' BY <1>4, <1>12, WokenCalls
<1>14. \A t \in Stream : OutOK(t)' BY <1>4, OutSame DEF Flow, dev
<1>15. \A t \in Stream : InOK(t)'
  <2>1. \A t \in Stream : qr # <<t, "dr">> BY <1>3
  <2> QED BY <1>4, <2>1 DEF Flow, InOK, dev, sched
<1>16. \A t \in Stream \ {s} : Promised(t) => Promised(t)'
  <2>1. \A t \in Stream \ {s} : qr # <<t, "hw">> BY <1>3
  <2> QED BY <1>4, <2>1 DEF Promised, dev, sched
<1>17. \A p \in Proc : SleeperOK(p)'
  <2> TAKE p \in Proc
  <2>1. SleeperOK(p) /\ CallOK(p) /\ call'[p] = call[p] BY <1>4 DEF Flow
  <2>2. pc'[p] \in {"w_asleep", "r_asleep"} => pc'[p] = pc[p] BY <1>8, <1>9
  <2>3. CASE pc'[p] = "w_asleep"
    <3>1. pc[p] = "w_asleep" BY <2>2, <2>3
    <3>2. call[p].s \in Stream /\ "WSLEEP" \in sd_flag[call[p].s] /\ Promised(call[p].s)
      BY <2>1, <3>1 DEF SleeperOK, CallOK
    <3>3. call[p].s # s BY <1>8, <1>9, <2>3, <3>1, <3>2
    <3>4. "WSLEEP" \in sd_flag'[call[p].s] BY <1>10, <3>2, <3>3
    <3>5. PICK t \in Stream : t = call[p].s BY <3>2
    <3>6. Promised(t)' BY <1>16, <3>2, <3>3, <3>5
    <3>7. Promised(call[p].s)' BY <2>1, <3>5, <3>6
    <3> QED BY <2>1, <2>3, <3>4, <3>7 DEF SleeperOK
  <2>4. CASE pc'[p] = "r_asleep"
    <3>1. pc[p] = "r_asleep" BY <2>2, <2>4
    <3>2. call[p].s \in Stream /\ "RSLEEP" \in sd_flag[call[p].s] /\ hr[call[p].s].msgs = << >>
      BY <2>1, <3>1 DEF SleeperOK, CallOK
    <3>3. "RSLEEP" \in sd_flag'[call[p].s] BY <1>10, <3>2
    <3> QED BY <1>4, <2>1, <2>4, <3>2, <3>3 DEF SleeperOK, dev
  <2>5. CASE pc'[p] \notin {"w_asleep", "r_asleep"} BY <2>5 DEF SleeperOK
  <2> QED BY <2>3, <2>4, <2>5
<1>18. KernelOK'
  <2>1. KernelOK /\ qr # OFF BY <1>2, OffFacts DEF Flow
  <2>2. cpu \in Proc /\ pc[cpu] \in {"w_next", "r_next"} => pc'[cpu] = pc[cpu] BY <1>8, <1>9
  <2>3. cpu \in Proc \cup {NULL} BY DEF TypeOK
  <2> QED BY <1>4, <2>1, <2>2, <2>3 DEF KernelOK
<1> QED BY <1>11, <1>12, <1>13, <1>14, <1>15, <1>17, <1>18 DEF Flow

(* strwaitq is interrupted. *)
LEMMA EintrStep ==
    ASSUME TypeOK, Flow, NEW p \in Proc, Eintr(p) PROVE TypeOK' /\ Flow' /\ Woken(pc')
<1>1. PICK s, w : s = call[p].s /\ w = (pc[p] = "w_intr") OBVIOUS
<1>2. /\ cpu = NULL /\ qr = OFF /\ pc[p] \in {"w_intr", "r_intr"} /\ cpu' = NULL
      /\ sd_flag' = [sd_flag EXCEPT ![s] = @ \ {IF w THEN "WSLEEP" ELSE "RSLEEP"}]
      /\ call' = [call EXCEPT ![p] = NoCall]
      /\ UNCHANGED <<opt, dev, held, due, sched, qr>>
  BY <1>1 DEF Eintr, Leave
<1>3. CallOK(p) BY DEF Flow
<1>4. s \in Stream BY <1>1, <1>2, <1>3 DEF CallOK
<1>5. PICK e : e = EintrWakes(pc, s) OBVIOUS
<1>6. pc \in [Proc -> PcSet] /\ "w_woken" \in PcSet /\ "r_woken" \in PcSet /\ "user" \in PcSet
  BY DEF TypeOK, PcSet
<1>7. e \in [Proc -> PcSet] /\ \A o \in Proc :
        e[o] = IF pc[o] = "w_asleep" /\ call[o].s = s THEN "w_woken"
               ELSE IF pc[o] = "r_asleep" /\ call[o].s = s THEN "r_woken" ELSE pc[o]
  <2>1. PICK v : v = Wakeup(pc, s, "w_asleep", "w_woken") OBVIOUS
  <2>2. v \in [Proc -> PcSet] /\ \A o \in Proc : v[o] = IF pc[o] = "w_asleep" /\ call[o].s = s THEN "w_woken" ELSE pc[o]
    BY <1>6, <2>1, WakeupFacts
  <2>3. e = Wakeup(v, s, "r_asleep", "r_woken") BY <1>5, <2>1 DEF EintrWakes
  <2>4. e \in [Proc -> PcSet] /\ \A o \in Proc : e[o] = IF v[o] = "r_asleep" /\ call[o].s = s THEN "r_woken" ELSE v[o]
    BY <1>6, <2>2, <2>3, WakeupFacts
  <2> QED BY <2>2, <2>4
<1>8. PICK u : u = [q \in Proc |-> IF (IF w THEN pc[q] = "w_asleep" ELSE pc[q] = "r_asleep") THEN e[q] ELSE pc[q]]
  OBVIOUS
<1>9. pc' = [u EXCEPT ![p] = "user"] BY <1>1, <1>5, <1>8 DEF Eintr, Leave
<1>10. u \in [Proc -> PcSet] BY <1>6, <1>7, <1>8
<1>11. pc' \in [Proc -> PcSet] /\ pc'[p] = "user" /\ \A o \in Proc \ {p} :
         pc'[o] = IF (IF w THEN pc[o] = "w_asleep" ELSE pc[o] = "r_asleep") THEN e[o] ELSE pc[o]
  BY <1>6, <1>8, <1>9, <1>10
<1>12. call' \in [Proc -> CallType] BY <1>2, NoCallType DEF TypeOK, CallType
<1>13. call'[p] = NoCall /\ \A o \in Proc \ {p} : call'[o] = call[o] BY <1>2 DEF TypeOK
<1>14. sd_flag' \in [Stream -> SUBSET {"WSLEEP", "RSLEEP"}] /\ \A t \in Stream \ {s} : sd_flag'[t] = sd_flag[t]
  BY <1>2, <1>4 DEF TypeOK
<1>15. /\ "RSLEEP" \in sd_flag[s] /\ w => "RSLEEP" \in sd_flag'[s]
       /\ "WSLEEP" \in sd_flag[s] /\ ~w => "WSLEEP" \in sd_flag'[s]
  BY <1>2, <1>4 DEF TypeOK
<1>16. TypeOK' BY <1>2, <1>11, <1>12, <1>14 DEF TypeOK, PcSet, CallType, dev, sched
<1>17. Woken(pc') BY <1>2, <1>7, <1>11 DEF Woken
<1>18. \A o \in Proc : CallOK(o)' BY <1>2, <1>11, <1>13, <1>17, WokenCalls
<1>19. Serving BY <1>2 DEF Serving, sched
<1>20. \A t \in Stream : OutOK(t)' /\ InOK(t)' BY <1>2, <1>19, OutSame, InSame DEF Flow, dev
<1>21. \A t \in Stream : Promised(t) => Promised(t)' BY <1>2, <1>19, PromisedSame DEF dev
<1>22. \A o \in Proc : SleeperOK(o)'
  <2> TAKE o \in Proc
  <2>1. CASE pc'[o] \notin {"w_asleep", "r_asleep"} BY <2>1 DEF SleeperOK
  <2>2. CASE pc'[o] \in {"w_asleep", "r_asleep"}
    <3>1. o # p /\ pc'[o] = pc[o] /\ call'[o] = call[o] BY <1>7, <1>11, <1>13, <2>2
    <3>2. SleeperOK(o) /\ CallOK(o) BY DEF Flow
    <3>3. CASE pc'[o] = "w_asleep"
      <4>1. call[o].s \in Stream /\ "WSLEEP" \in sd_flag[call[o].s] /\ Promised(call[o].s)
        BY <3>1, <3>2, <3>3 DEF SleeperOK, CallOK
      <4>2. w => call[o].s # s BY <1>7, <1>11, <3>1, <3>3
      <4>3. "WSLEEP" \in sd_flag'[call[o].s] BY <1>14, <1>15, <4>1, <4>2
      <4>4. PICK t \in Stream : t = call[o].s BY <4>1
      <4>5. Promised(t)' BY <1>21, <4>1, <4>4
      <4>6. Promised(call[o].s)' BY <3>1, <4>4, <4>5
      <4> QED BY <3>1, <3>3, <4>3, <4>6 DEF SleeperOK
    <3>4. CASE pc'[o] = "r_asleep"
      <4>1. call[o].s \in Stream /\ "RSLEEP" \in sd_flag[call[o].s] /\ hr[call[o].s].msgs = << >>
        BY <3>1, <3>2, <3>4 DEF SleeperOK, CallOK
      <4>2. ~w => call[o].s # s BY <1>7, <1>11, <3>1, <3>4
      <4>3. "RSLEEP" \in sd_flag'[call[o].s] BY <1>14, <1>15, <4>1, <4>2
      <4> QED BY <1>2, <3>1, <3>4, <4>1, <4>3 DEF SleeperOK, dev
    <3> QED BY <2>2, <3>3, <3>4
  <2> QED BY <2>1, <2>2
<1>23. KernelOK' BY <1>2 DEF KernelOK
<1> QED BY <1>16, <1>17, <1>18, <1>20, <1>22, <1>23 DEF Flow

(* What iuisrv leaves of the two read queues. *)
LEMMA IuisrvQueues ==
    ASSUME TypeOK, Flow, NEW s \in Stream, qr = <<s, "dr">>, Iuisrv
    PROVE  \E n \in Nat :
             /\ dr' \in [Stream -> Queues] /\ hr' \in [Stream -> Queues]
             /\ \A t \in Stream \ {s} : dr'[t] = dr[t] /\ hr'[t] = hr[t]
             /\ QueueOK(dr'[s], 1) /\ QueueOK(hr'[s], 1)
             /\ dr'[s].msgs = << >> => "QWANTR" \in dr'[s].flag
             /\ dr'[s].msgs # << >> => "QWANTW" \in hr'[s].flag /\ LOWAT <= Count(hr'[s])
             /\ n = 0 => hr'[s].msgs = hr[s].msgs
             /\ IF n > 0 /\ "RSLEEP" \in sd_flag[s]
                THEN /\ pc' = Wakeup(pc, s, "r_asleep", "r_woken")
                     /\ sd_flag' = [sd_flag EXCEPT ![s] = @ \ {"RSLEEP"}]
                ELSE UNCHANGED <<pc, sd_flag>>
<1>0. HIWAT \in Nat /\ LOWAT \in Nat /\ LOWAT <= HIWAT BY StreamsAssumption
<1>1. PICK k, h : k = Len(dr[s].msgs) /\ h = Filled(hr[s], dr[s].msgs) OBVIOUS
<1>2. PICK n : n = Passes(h, k) OBVIOUS
<1>3. PICK d, g : d = Emptied(dr[s])[n] /\ g = Getq(d) OBVIOUS
<1>4. /\ dr' = [dr EXCEPT ![s] = IF n < k THEN Putbq(g.q, g.m) ELSE g.q]
      /\ hr' = [hr EXCEPT ![s] = IF n < k THEN Refused(h[n]) ELSE h[n]]
      /\ IF n > 0 /\ "RSLEEP" \in sd_flag[s]
         THEN /\ pc' = Wakeup(pc, s, "r_asleep", "r_woken")
              /\ sd_flag' = [sd_flag EXCEPT ![s] = @ \ {"RSLEEP"}]
         ELSE UNCHANGED <<pc, sd_flag>>
  BY <1>1, <1>2, <1>3 DEF Iuisrv
<1>5. InOK(s) BY DEF Flow
<1>6. QueueOK(dr[s], 1) /\ QueueOK(hr[s], 1) BY <1>5 DEF InOK
<1>7. dr[s].msgs \in Seq(Nat) /\ \A i \in 1 .. Len(dr[s].msgs) : 0 < dr[s].msgs[i] /\ dr[s].msgs[i] <= 1
  BY <1>6, QueueTyped DEF QueueOK
<1>8. k \in Nat BY <1>1, <1>7
<1>9. n \in 0 .. k /\ (n < k => ~Canput(h[n])) BY <1>2, <1>8, PassesFacts
<1>10. Gained(h[n], hr[s], n) BY <1>1, <1>6, <1>7, <1>9, FilledFacts
<1>11. QueueOK(d, 1) /\ Len(d.msgs) = k - n BY <1>1, <1>3, <1>6, <1>9, EmptiedFacts
<1>12. d.msgs \in Seq(Nat) BY <1>11, QueueTyped
<1>13. QueueOK(h[n], 1) BY <1>10 DEF Gained
<1>14. n = 0 => h[n] = hr[s] BY <1>10 DEF Gained
<1>15. CASE n < k
  <2>1. d.msgs # << >> BY <1>8, <1>9, <1>11, <1>12, <1>15
  <2>2. QueueOK(g.q, 1) /\ g.m \in Nat /\ 0 < g.m /\ g.m <= 1 BY <1>3, <1>11, <2>1, GetqFacts
  <2>3. QueueOK(Putbq(g.q, g.m), 1) /\ Putbq(g.q, g.m).msgs # << >> BY <2>2, PutbqFacts
  <2>4. QueueOK(Refused(h[n]), 1) /\ Refused(h[n]).msgs = h[n].msgs /\ Count(Refused(h[n])) = Count(h[n])
        /\ "QWANTW" \in Refused(h[n]).flag
    BY <1>13, RefusedFacts
  <2>5. Count(h[n]) \in Nat /\ ~(Count(h[n]) < HIWAT) BY <1>9, <1>13, <1>15, QueueTyped
  <2>6. LOWAT <= Count(Refused(h[n])) BY <1>0, <2>4, <2>5
  <2>7. Putbq(g.q, g.m) \in Queues /\ Refused(h[n]) \in Queues BY <2>3, <2>4 DEF QueueOK
  <2>8. dr' = [dr EXCEPT ![s] = Putbq(g.q, g.m)] /\ hr' = [hr EXCEPT ![s] = Refused(h[n])]
    BY <1>4, <1>15
  <2>9. /\ dr'[s] = Putbq(g.q, g.m) /\ hr'[s] = Refused(h[n]) /\ \A t \in Stream \ {s} : dr'[t] = dr[t] /\ hr'[t] = hr[t]
        /\ dr' \in [Stream -> Queues] /\ hr' \in [Stream -> Queues]
    BY <2>7, <2>8 DEF TypeOK
  <2>10. n \in Nat BY <1>8, <1>9
  <2> QED BY <1>4, <1>14, <2>3, <2>4, <2>6, <2>9, <2>10
<1>16. CASE ~(n < k)
  <2>1. d.msgs = << >> BY <1>8, <1>9, <1>11, <1>12, <1>16
  <2>2. QueueOK(g.q, 1) /\ g.q.msgs = << >> /\ "QWANTR" \in g.q.flag BY <1>3, <1>11, <2>1, GetqFacts
  <2>3. g.q \in Queues /\ h[n] \in Queues BY <1>13, <2>2 DEF QueueOK
  <2>4. dr' = [dr EXCEPT ![s] = g.q] /\ hr' = [hr EXCEPT ![s] = h[n]] BY <1>4, <1>16
  <2>5. /\ dr'[s] = g.q /\ hr'[s] = h[n] /\ \A t \in Stream \ {s} : dr'[t] = dr[t] /\ hr'[t] = hr[t]
        /\ dr' \in [Stream -> Queues] /\ hr' \in [Stream -> Queues]
    BY <2>3, <2>4 DEF TypeOK
  <2>6. n \in Nat BY <1>8, <1>9
  <2> QED BY <1>4, <1>13, <1>14, <2>2, <2>5, <2>6
<1> QED BY <1>15, <1>16

(* iuisrv passes input on to the head and wakes the readers. *)
LEMMA IuisrvStep ==
    ASSUME TypeOK, Flow, Iuisrv PROVE TypeOK' /\ Flow' /\ Woken(pc')
<1>1. PICK s : s = qr[1] OBVIOUS
<1>2. qr \in Queue /\ qr[2] = "dr" /\ qr' = NEXT BY <1>1 DEF Iuisrv, Serves
<1>3. s \in Stream /\ qr = <<s, "dr">> BY <1>1, <1>2 DEF Queue
<1>4. UNCHANGED <<opt, dw, dma, ttstop, held, due, sched, cpu, call>> BY DEF Iuisrv
<1>5. PICK n \in Nat :
             /\ dr' \in [Stream -> Queues] /\ hr' \in [Stream -> Queues]
             /\ \A t \in Stream \ {s} : dr'[t] = dr[t] /\ hr'[t] = hr[t]
             /\ QueueOK(dr'[s], 1) /\ QueueOK(hr'[s], 1)
             /\ dr'[s].msgs = << >> => "QWANTR" \in dr'[s].flag
             /\ dr'[s].msgs # << >> => "QWANTW" \in hr'[s].flag /\ LOWAT <= Count(hr'[s])
             /\ n = 0 => hr'[s].msgs = hr[s].msgs
             /\ IF n > 0 /\ "RSLEEP" \in sd_flag[s]
                THEN /\ pc' = Wakeup(pc, s, "r_asleep", "r_woken")
                     /\ sd_flag' = [sd_flag EXCEPT ![s] = @ \ {"RSLEEP"}]
                ELSE UNCHANGED <<pc, sd_flag>>
  BY <1>3, IuisrvQueues
<1>6. pc \in [Proc -> PcSet] /\ "r_woken" \in PcSet BY DEF TypeOK, PcSet
<1>7. PICK b \in BOOLEAN : b <=> (n > 0 /\ "RSLEEP" \in sd_flag[s]) OBVIOUS
<1>8. pc' \in [Proc -> PcSet] /\ \A p \in Proc : pc'[p] = IF b /\ pc[p] = "r_asleep" /\ call[p].s = s THEN "r_woken" ELSE pc[p]
  <2>1. CASE b
    <3>1. pc' = Wakeup(pc, s, "r_asleep", "r_woken") BY <1>5, <1>7, <2>1
    <3> QED BY <1>6, <2>1, <3>1, WakeupFacts
  <2>2. CASE ~b
    <3>1. pc' = pc BY <1>5, <1>7, <2>2
    <3> QED BY <1>6, <2>2, <3>1
  <2> QED BY <2>1, <2>2
<1>9. /\ sd_flag' \in [Stream -> SUBSET {"WSLEEP", "RSLEEP"}] /\ \A t \in Stream \ {s} : sd_flag'[t] = sd_flag[t]
      /\ "WSLEEP" \in sd_flag[s] => "WSLEEP" \in sd_flag'[s]
      /\ ~b => sd_flag' = sd_flag
  <2>1. CASE b
    <3>1. sd_flag' = [sd_flag EXCEPT ![s] = @ \ {"RSLEEP"}] BY <1>5, <1>7, <2>1
    <3> QED BY <1>3, <2>1, <3>1 DEF TypeOK
  <2>2. CASE ~b
    <3>1. sd_flag' = sd_flag BY <1>5, <1>7, <2>2
    <3> QED BY <3>1 DEF TypeOK
  <2> QED BY <2>1, <2>2
<1>10. TypeOK' BY <1>2, <1>4, <1>5, <1>8, <1>9 DEF TypeOK, PcSet, sched
<1>11. Woken(pc') BY <1>8 DEF Woken
<1>12. \A p \in Proc : CallOK(p)' BY <1>4, <1>11, WokenCalls
<1>13. \A t \in Stream : OutOK(t)' BY <1>4, OutSame DEF Flow
<1>14. \A t \in Stream : InOK(t)'
  <2>1. \A t \in Stream \ {s} : qr # <<t, "dr">> BY <1>3
  <2>2. \A t \in Stream \ {s} : InOK(t)' BY <1>4, <1>5, <2>1 DEF Flow, InOK, sched
  <2>3. InOK(s)' BY <1>5 DEF InOK
  <2> QED BY <2>2, <2>3
<1>15. \A t \in Stream : Promised(t) => Promised(t)'
  <2>1. \A t \in Stream : qr # <<t, "hw">> BY <1>3
  <2> QED BY <1>4, <2>1 DEF Promised, sched
<1>16. \A p \in Proc : SleeperOK(p)'
  <2> TAKE p \in Proc
  <2>1. CASE pc'[p] \notin {"w_asleep", "r_asleep"} BY <2>1 DEF SleeperOK
  <2>2. CASE pc'[p] \in {"w_asleep", "r_asleep"}
    <3>1. pc'[p] = pc[p] /\ call'[p] = call[p] BY <1>4, <1>8, <2>2
    <3>2. SleeperOK(p) /\ CallOK(p) BY DEF Flow
    <3>3. CASE pc'[p] = "w_asleep"
      <4>1. call[p].s \in Stream /\ "WSLEEP" \in sd_flag[call[p].s] /\ Promised(call[p].s)
        BY <3>1, <3>2, <3>3 DEF SleeperOK, CallOK
      <4>2. "WSLEEP" \in sd_flag'[call[p].s] BY <1>9, <4>1
      <4>3. PICK t \in Stream : t = call[p].s BY <4>1
      <4>4. Promised(t)' BY <1>15, <4>1, <4>3
      <4>5. Promised(call[p].s)' BY <3>1, <4>3, <4>4
      <4> QED BY <3>1, <3>3, <4>2, <4>5 DEF SleeperOK
    <3>4. CASE pc'[p] = "r_asleep"
      <4>1. call[p].s \in Stream /\ "RSLEEP" \in sd_flag[call[p].s] /\ hr[call[p].s].msgs = << >>
        BY <3>1, <3>2, <3>4 DEF SleeperOK, CallOK
      <4>2. call[p].s = s => ~b BY <1>8, <3>1, <3>4
      <4>3. call[p].s = s => n = 0 BY <1>7, <4>1, <4>2
      <4>4. "RSLEEP" \in sd_flag'[call[p].s] BY <1>9, <4>1, <4>2
      <4>5. hr'[call[p].s].msgs = << >> BY <1>5, <4>1, <4>3
      <4> QED BY <3>1, <3>4, <4>4, <4>5 DEF SleeperOK
    <3> QED BY <2>2, <3>3, <3>4
  <2> QED BY <2>1, <2>2
<1>17. KernelOK'
  <2>1. KernelOK /\ qr # OFF BY <1>2, OffFacts DEF Flow
  <2>2. cpu \in Proc /\ pc[cpu] \in {"w_next", "r_next"} => pc'[cpu] = pc[cpu] BY <1>8
  <2>3. cpu \in Proc \cup {NULL} BY DEF TypeOK
  <2> QED BY <1>4, <2>1, <2>2, <2>3 DEF KernelOK
<1> QED BY <1>10, <1>11, <1>12, <1>13, <1>14, <1>16, <1>17 DEF Flow

(* Counts are numbers. *)
LEMMA CountTyped ==
    ASSUME Flow, NEW s \in Stream
    PROVE  Count(dw[s]) \in Nat /\ HIWAT \in Nat /\ BUF \in Nat /\ (Canput(dw[s]) <=> Count(dw[s]) < HIWAT)
<1>1. BUF \in Nat /\ HIWAT \in Nat BY StreamsAssumption
<1>2. QueueOK(dw[s], BUF) BY DEF Flow, OutOK
<1> QED BY <1>1, <1>2, QueueTyped

(* The processes other than the one that moves have nothing in hand. *)
LEMMA RoomOthers ==
    ASSUME Room, NEW p \in Proc, cpu \in {p, NULL}, \A o \in Proc \ {p} : pc'[o] = pc[o] /\ call'[o] = call[o]
    PROVE  \A o \in Proc \ {p} : PRoom(o)'
<1> TAKE o \in Proc \ {p}
<1>1. PRoom(o) /\ o # NULL BY OffFacts DEF Room
<1>2. pc[o] \notin {"w_made", "w_put"} BY <1>1 DEF PRoom
<1> QED BY <1>1, <1>2 DEF PRoom

(* p moves, with nothing in hand, and no driver's queue outgrows its bound. *)
LEMMA RoomMove ==
    ASSUME TypeOK, Room, NEW p \in Proc, cpu \in {p, NULL},
           \A o \in Proc \ {p} : pc'[o] = pc[o] /\ call'[o] = call[o], pc'[p] \notin {"w_made", "w_put"}, call'[p].m = 0,
           \A s \in Stream : SRoom(s)'
    PROVE  Room'
<1>1. \A o \in Proc \ {p} : PRoom(o)' BY RoomOthers
<1>2. PRoom(p)' BY DEF PRoom
<1> QED BY <1>1, <1>2 DEF Room

(* Nothing is put anywhere. *)
LEMMA RoomSame ==
    ASSUME Room, UNCHANGED <<dw, held, cpu, call>>, Woken(pc') \/ pc' = pc
    PROVE  Room'
<1>1. \A s \in Stream : SRoom(s)' BY DEF Room, SRoom
<1>2. ASSUME NEW p \in Proc PROVE PRoom(p)'
  <2>1. PRoom(p) BY DEF Room
  <2>2. pc'[p] \in {"w_made", "w_put"} <=> pc[p] \in {"w_made", "w_put"} BY DEF Woken
  <2> QED BY <2>1, <2>2 DEF PRoom
<1> QED BY <1>1, <1>2 DEF Room

(* A driver's queue that does not grow keeps its room. *)
LEMMA RoomShrinks ==
    ASSUME TypeOK, Flow, Flow', Room, UNCHANGED <<held, cpu, pc, call>>,
           \A s \in Stream : Count(dw'[s]) <= Count(dw[s])
    PROVE  Room'
<1>1. \A s \in Stream : Count(dw[s]) \in Nat /\ Count(dw'[s]) \in Nat
  <2>1. \A s \in Stream : QueueOK(dw[s], BUF) /\ QueueOK(dw'[s], BUF) /\ BUF \in Nat
    BY StreamsAssumption DEF Flow, OutOK
  <2> QED BY <2>1, QueueTyped
<1>2. HIWAT \in Nat /\ BUF \in Nat BY StreamsAssumption
<1>3. \A s \in Stream : SRoom(s)' BY <1>1, <1>2 DEF Room, SRoom
<1>4. ASSUME NEW p \in Proc PROVE PRoom(p)'
  <2>1. PRoom(p) /\ CallOK(p) BY DEF Room, Flow
  <2>2. CASE pc[p] \in {"w_made", "w_put"}
    <3>1. call[p].s \in Stream BY <2>1, <2>2 DEF CallOK
    <3> QED BY <1>1, <1>2, <2>1, <2>2, <3>1 DEF PRoom
  <2>3. CASE pc[p] \notin {"w_made", "w_put"} BY <2>1, <2>3 DEF PRoom
  <2> QED BY <2>2, <2>3
<1> QED BY <1>3, <1>4 DEF Room

(* The driver's queue only gets shorter. *)
LEMMA RoomIuxint ==
    ASSUME TypeOK, Flow, Flow', Room, NEW s \in Stream, NEW p \in Proc,
           Iuxint(s) \/ MStart(p, s) \/ MFlush(p, s)
    PROVE  Room'
<1>0. BUF \in Nat /\ 0 \in 0 .. BUF BY StreamsAssumption
<1>1. UNCHANGED <<held, cpu, pc, call>> BY DEF Iuxint, MStart, MFlush
<1>2. QueueOK(dw[s], BUF) BY DEF Flow, OutOK
<1>3. Count(dw'[s]) <= Count(dw[s]) /\ \A t \in Stream \ {s} : dw'[t] = dw[t]
  <2>1. CASE Iuxint(s)
    <3>1. Output(s, dw[s], 0, ttstop[s], run) BY <2>1 DEF Iuxint
    <3>2. ttstop[s] \in BOOLEAN /\ run \in RunType BY StreamTyped
    <3>3. Moved(s, dw[s], 0, ttstop[s], run) BY <1>0, <1>2, <3>1, <3>2, OutputFacts
    <3> QED BY <3>3 DEF Moved
  <2>2. CASE MStart(p, s)
    <3>1. Output(s, dw[s], dma[s], FALSE, run) BY <2>2 DEF MStart
    <3>2. dma[s] \in 0 .. BUF /\ run \in RunType BY StreamTyped
    <3>3. Moved(s, dw[s], dma[s], FALSE, run) BY <1>0, <1>2, <3>1, <3>2, OutputFacts
    <3> QED BY <3>3 DEF Moved
  <2>3. CASE MFlush(p, s)
    <3>1. dw' = [dw EXCEPT ![s] = Flushq(dw[s]).q] BY <2>3 DEF MFlush
    <3>2. Count(Flushq(dw[s]).q) = 0 /\ Count(dw[s]) \in Nat BY <1>0, <1>2, FlushqFacts, QueueTyped
    <3>3. dw'[s] = Flushq(dw[s]).q /\ \A t \in Stream \ {s} : dw'[t] = dw[t] BY <3>1 DEF TypeOK
    <3> QED BY <3>2, <3>3
  <2> QED BY <2>1, <2>2, <2>3
<1>4. \A t \in Stream : Count(dw'[t]) <= Count(dw[t]) BY <1>3, CountTyped
<1> QED BY <1>1, <1>4, RoomShrinks

(* queuerun puts down a held message, for which there is room. *)
LEMMA RoomQrScan ==
    ASSUME TypeOK, Flow, Room, QrScan PROVE Room'
<1>1. UNCHANGED <<cpu, pc, call>> /\ qr = SCAN BY DEF QrScan
<1>2. PICK q, s : q = scan.head /\ s = q[1] OBVIOUS
<1>3. q \in Queue /\ s \in Stream BY <1>2 DEF QrScan, TypeOK, Queue
<1>4. held' = [held EXCEPT ![s] = 0] BY <1>2 DEF QrScan
<1>5. held'[s] = 0 /\ \A t \in Stream \ {s} : held'[t] = held[t] BY <1>3, <1>4 DEF TypeOK
<1>6. \A p \in Proc : PRoom(p)'
  <2> TAKE p \in Proc
  <2>1. PRoom(p) /\ KernelOK /\ p # NULL BY OffFacts DEF Room, Flow
  <2>2. pc[p] \notin {"w_made", "w_put"} BY <1>1, <2>1, OffFacts DEF PRoom, KernelOK
  <2> QED BY <1>1, <2>1, <2>2 DEF PRoom
<1>7. \A t \in Stream \ {s} : dw'[t] = dw[t]
  <2>1. CASE held[s] # 0
    <3>0. held[s] \in 0 .. BUF /\ BUF \in Nat BY <1>3, StreamTyped, StreamsAssumption
    <3>1. held[s] \in 1 .. BUF BY <2>1, <3>0
    <3>2. Iuoput(s, held[s]) /\ OutOK(s) BY <1>2, <1>3, <2>1 DEF QrScan, Flow
    <3> QED BY <1>3, <3>1, <3>2, IuoputFacts
  <2>2. CASE held[s] = 0 BY <1>2, <2>2 DEF QrScan
  <2> QED BY <2>1, <2>2
<1>8. SRoom(s)'
  <2>0. Count(dw[s]) \in Nat /\ HIWAT \in Nat /\ BUF \in Nat /\ SRoom(s)
    BY <1>3, CountTyped DEF Room
  <2>1. CASE held[s] # 0
    <3>0. held[s] \in 0 .. BUF BY <1>3, StreamTyped
    <3>1. PICK m \in 1 .. BUF : m = held[s] BY <2>0, <2>1, <3>0
    <3>2. Iuoput(s, m) /\ OutOK(s) BY <1>2, <1>3, <2>1, <3>1 DEF QrScan, Flow
    <3>3. Count(dw'[s]) \in Nat /\ Count(dw'[s]) <= Count(dw[s]) + m BY <1>3, <3>2, IuoputFacts
    <3>4. Count(dw[s]) < HIWAT BY <2>0, <2>1 DEF SRoom
    <3>5. Count(dw'[s]) < HIWAT + BUF BY <2>0, <3>3, <3>4
    <3> QED BY <1>5, <3>5 DEF SRoom
  <2>2. CASE held[s] = 0
    <3>1. dw' = dw BY <1>2, <2>2 DEF QrScan
    <3> QED BY <1>5, <2>0, <3>1 DEF SRoom
  <2> QED BY <2>1, <2>2
<1>9. \A t \in Stream \ {s} : SRoom(t)' BY <1>5, <1>7 DEF Room, SRoom
<1> QED BY <1>6, <1>8, <1>9 DEF Room

(* So does strwrite. *)
LEMMA RoomWritePut ==
    ASSUME TypeOK, Flow, Room, NEW p \in Proc, WritePut(p) PROVE Room'
<1>1. /\ cpu = p /\ pc[p] \in {"w_put", "w_made"} /\ CallOK(p) /\ PRoom(p)
  BY DEF Flow, Room, WritePut, In
<1>2. PICK s, m : s = call[p].s /\ m = call[p].m OBVIOUS
<1>3. s \in Stream /\ m \in 1 .. BUF BY <1>1, <1>2, ProcTyped, StreamsAssumption DEF CallOK
<1>4. /\ held' = [held EXCEPT ![s] = 0] /\ Iuoput(s, m) /\ call' = [call EXCEPT ![p].m = 0]
      /\ pc' = [pc EXCEPT ![p] = "w_next"] /\ OutOK(s)
  BY <1>2, <1>3 DEF WritePut, Flow
<1>5. Count(dw[s]) \in Nat /\ HIWAT \in Nat /\ BUF \in Nat /\ Count(dw[s]) < HIWAT
  BY <1>1, <1>2, <1>3, CountTyped DEF PRoom
<1>6. Count(dw'[s]) \in Nat /\ Count(dw'[s]) <= Count(dw[s]) + m /\ \A t \in Stream \ {s} : dw'[t] = dw[t]
  BY <1>3, <1>4, IuoputFacts
<1>7. held'[s] = 0 /\ \A t \in Stream \ {s} : held'[t] = held[t] BY <1>3, <1>4 DEF TypeOK
<1>8. Count(dw'[s]) < HIWAT + BUF BY <1>3, <1>5, <1>6
<1>9. SRoom(s)' BY <1>7, <1>8 DEF SRoom
<1>10. \A t \in Stream : SRoom(t)' BY <1>6, <1>7, <1>9 DEF Room, SRoom
<1>11. pc'[p] = "w_next" /\ call'[p].m = 0 /\ \A o \in Proc \ {p} : pc'[o] = pc[o] /\ call'[o] = call[o]
  BY <1>4 DEF TypeOK
<1> QED BY <1>1, <1>10, <1>11, RoomMove

(* What stays when only p's own state moves. *)
LEMMA RoomWriter ==
    ASSUME TypeOK, Flow, ~MAKESLEEP, Room, NEW p \in Proc, WriteHeld(p) \/ WriteMake(p) \/ WriteHold(p)
    PROVE  Room'
<1>1. /\ cpu = p /\ dw' = dw /\ pc[p] \in {"w_canput", "w_made"} /\ CallOK(p) /\ PRoom(p)
  BY DEF Flow, Room, WriteHeld, WriteMake, WriteHold, In, dev
<1>2. PICK s : s = call[p].s OBVIOUS
<1>3. s \in Stream BY <1>1, <1>2 DEF CallOK
<1>4. Count(dw[s]) \in Nat /\ HIWAT \in Nat /\ BUF \in Nat /\ (Canput(dw[s]) <=> Count(dw[s]) < HIWAT)
  BY <1>3, CountTyped
<1>5. Count(dw[s]) < HIWAT
  <2>1. CASE WriteHold(p)
    <3>1. pc[p] = "w_made" BY <2>1 DEF WriteHold, In
    <3> QED BY <1>1, <1>2, <3>1 DEF PRoom
  <2>2. CASE WriteHeld(p) \/ WriteMake(p) BY <1>2, <1>4, <2>2 DEF WriteHeld, WriteMake
  <2> QED BY <2>1, <2>2
<1>6. \A o \in Proc \ {p} : pc'[o] = pc[o] /\ call'[o] = call[o]
  BY DEF WriteHeld, WriteMake, WriteHold, Leave, TypeOK
<1>7. \A t \in Stream \ {s} : held'[t] = held[t]
  BY <1>2 DEF WriteHeld, WriteMake, WriteHold, Hold, TypeOK
<1>8. \A t \in Stream : SRoom(t)'
  <2>1. SRoom(s)' BY <1>1, <1>4, <1>5 DEF SRoom
  <2>2. \A t \in Stream \ {s} : SRoom(t)' BY <1>1, <1>7 DEF Room, SRoom
  <2> QED BY <2>1, <2>2
<1>9. \A o \in Proc \ {p} : PRoom(o)' BY <1>1, <1>6, RoomOthers
<1>10. PRoom(p)'
  <2>1. CASE Leave(p, pc)
    <3>1. pc'[p] = "user" /\ call'[p].m = 0 BY <2>1 DEF Leave, NoCall, TypeOK
    <3> QED BY <3>1 DEF PRoom
  <2>2. CASE WriteMake(p)
    <3>1. cpu' = p /\ held[s] = 0 /\ held' = held /\ pc'[p] = "w_made"
      BY <1>2, <2>2 DEF WriteMake, TypeOK
    <3>2. call'[p].s = s BY <1>2, <2>2 DEF WriteMake, TypeOK
    <3> QED BY <1>1, <1>5, <3>1, <3>2 DEF PRoom
  <2>3. CASE WriteHeld(p) /\ ~Leave(p, pc)
    <3>1. cpu' = cpu /\ held' = [held EXCEPT ![s] = 0] /\ pc' = [pc EXCEPT ![p] = "w_put"]
      BY <1>2, <2>3 DEF WriteHeld
    <3>2. call'[p].s = s
      <4>1. \E x, y : call' = [call EXCEPT ![p].m = x, ![p].resid = y] BY <2>3 DEF WriteHeld
      <4> QED BY <1>2, <4>1 DEF TypeOK
    <3>3. held'[s] = 0 /\ pc'[p] = "w_put" BY <1>3, <3>1 DEF TypeOK
    <3> QED BY <1>1, <1>5, <3>1, <3>2, <3>3 DEF PRoom
  <2> QED BY <2>1, <2>2, <2>3 DEF WriteHold
<1> QED BY <1>8, <1>9, <1>10 DEF Room

(* The other steps of a process. *)
LEMMA RoomProcess ==
    ASSUME TypeOK, Flow, Room, NEW p \in Proc, NEW s \in Stream,
           \/ \E n \in opt[s].sizes : Write(p, s, n)
           \/ WriteFull(p) \/ WriteNext(p) \/ ReadNext(p) \/ Dispatch(p) \/ Strread(p, s) \/ Strpoll(p, s)
    PROVE  Room'
<1>1. cpu \in {p, NULL} /\ pc[p] \notin {"w_made", "w_put"}
  <2>1. CASE Dispatch(p) BY <2>1, OffFacts DEF Dispatch, Room, PRoom
  <2>2. CASE \/ \E n \in opt[s].sizes : Write(p, s, n)
             \/ WriteFull(p) \/ WriteNext(p) \/ ReadNext(p) \/ Strread(p, s) \/ Strpoll(p, s)
    BY <2>2 DEF Write, WriteFull, WriteNext, ReadNext, Strread, Strpoll, In
  <2> QED BY <2>1, <2>2
<1>2. call[p].m = 0 BY <1>1 DEF Room, PRoom
<1>3. \A o \in Proc \ {p} : pc'[o] = pc[o] /\ call'[o] = call[o]
  BY DEF Write, WriteFull, WriteNext, ReadNext, Dispatch, Strread, Strpoll, Leave, TypeOK
<1>4. call'[p].m = 0
  BY <1>2 DEF Write, WriteFull, WriteNext, ReadNext, Dispatch, Strread, Strpoll, Leave, NoCall,
     TypeOK
<1>5. pc'[p] \notin {"w_made", "w_put"}
  <2>1. CASE Dispatch(p)
    <3>1. pc[p] \in {"w_woken", "r_woken"} /\ pc'[p] = Again(p) BY <1>1, <2>1 DEF Dispatch, TypeOK
    <3> QED BY <3>1 DEF Again
  <2>2. CASE \/ \E n \in opt[s].sizes : Write(p, s, n)
             \/ WriteFull(p) \/ WriteNext(p) \/ ReadNext(p) \/ Strread(p, s) \/ Strpoll(p, s)
    BY <2>2 DEF Write, WriteFull, WriteNext, ReadNext, Strread, Strpoll, Leave, TypeOK
  <2> QED BY <2>1, <2>2
<1>6. \A t \in Stream : SRoom(t)'
  <2>1. held' = held BY DEF Write, WriteFull, WriteNext, ReadNext, Dispatch, Strread, Strpoll
  <2>2. \A t \in Stream : Count(dw'[t]) = Count(dw[t])
    <3>1. CASE WriteFull(p) \/ Strpoll(p, s)
      <4>1. PICK t : dw' = [dw EXCEPT ![t] = Refused(dw[t])] BY <3>1 DEF WriteFull, Strpoll
      <4>2. \A x \in Stream : dw'[x] = dw[x] \/ dw'[x] = Refused(dw[x]) BY <4>1 DEF TypeOK
      <4>3. \A x \in Stream : Count(Refused(dw[x])) = Count(dw[x])
        <5>1. \A x \in Stream : QueueOK(dw[x], BUF) /\ BUF \in Nat
          BY StreamsAssumption DEF Flow, OutOK
        <5> QED BY <5>1, RefusedFacts
      <4> QED BY <4>2, <4>3
    <3>2. CASE \/ \E n \in opt[s].sizes : Write(p, s, n)
               \/ WriteNext(p) \/ ReadNext(p) \/ Dispatch(p) \/ Strread(p, s)
      <4>1. dw' = dw BY <3>2 DEF Write, WriteNext, ReadNext, Dispatch, Strread, dev
      <4> QED BY <4>1
    <3> QED BY <3>1, <3>2
  <2> QED BY <2>1, <2>2 DEF Room, SRoom
<1> QED BY <1>1, <1>3, <1>4, <1>5, <1>6, RoomMove

(* The steps, by what they do. *)
LEMMA Steps ==
    ASSUME Next
    PROVE  \/ Kick \/ QrScanned \/ QrNext \/ QrDone \/ QrClear \/ Iuosrv \/ Strscan \/ (\E s \in Stream : Elapse(s))
           \/ QrScan \/ Strwsrv \/ Iuisrv
           \/ \E s \in Stream : Iuxint(s) \/ Iuscan(s)
           \/ \E p \in Proc :
                 \/ WriteFull(p) \/ WriteHeld(p) \/ WriteMake(p) \/ WriteHold(p) \/ WritePut(p) \/ WriteNext(p) \/ ReadNext(p)
                 \/ Dispatch(p) \/ Signal(p) \/ Eintr(p)
           \/ \E p \in Proc, s \in Stream :
                 \/ \E n \in opt[s].sizes : Write(p, s, n)
                 \/ Strread(p, s) \/ Strpoll(p, s) \/ MStop(p, s) \/ MStart(p, s) \/ MFlush(p, s)
BY DEF Next, Queuerun, Process

(* Every step keeps the types and Flow. *)
LEMMA FlowNext ==
    ASSUME TypeOK, Flow, [Next]_vars PROVE TypeOK' /\ Flow'
<1>1. CASE UNCHANGED vars
  <2>1. UNCHANGED <<opt, dw, dr, hr, dma, ttstop, held, due, sd_flag, run, back, scan, qrunflag, strscanflag, qr, cpu, pc, call>>
    BY <1>1 DEF vars, dev, sched
  <2>2. TypeOK' BY <2>1 DEF TypeOK
  <2>3. \A t \in Stream : OutOK(t)' /\ InOK(t)' BY <2>1 DEF Flow, OutOK, InOK
  <2>4. \A p \in Proc : CallOK(p)' /\ SleeperOK(p)' BY <2>1 DEF Flow, CallOK, SleeperOK, Promised
  <2>5. KernelOK' BY <2>1 DEF Flow, KernelOK
  <2> QED BY <2>2, <2>3, <2>4, <2>5 DEF Flow
<1>2. CASE Kick \/ QrScanned \/ QrNext \/ QrDone \/ QrClear \/ Iuosrv \/ Strscan \/ (\E s \in Stream : Elapse(s))
  BY <1>2, QueuerunQuiet
<1>3. CASE QrScan BY <1>3, QrScanStep
<1>4. CASE Strwsrv BY <1>4, StrwsrvStep
<1>5. CASE Iuisrv BY <1>5, IuisrvStep
<1>6. ASSUME NEW s \in Stream, Iuxint(s) PROVE TypeOK' /\ Flow' BY <1>6, IuxintStep
<1>7. ASSUME NEW s \in Stream, Iuscan(s) PROVE TypeOK' /\ Flow' BY <1>7, IuscanStep
<1>8. ASSUME NEW p \in Proc, WriteFull(p) PROVE TypeOK' /\ Flow' BY <1>8, WriteFullStep
<1>9. ASSUME NEW p \in Proc, WriteHeld(p) PROVE TypeOK' /\ Flow' BY <1>9, WriteHeldStep
<1>10. ASSUME NEW p \in Proc, WriteMake(p) PROVE TypeOK' /\ Flow' BY <1>10, WriteMakeStep
<1>11. ASSUME NEW p \in Proc, WriteHold(p) PROVE TypeOK' /\ Flow' BY <1>11, WriteHoldStep
<1>12. ASSUME NEW p \in Proc, WritePut(p) PROVE TypeOK' /\ Flow' BY <1>12, WritePutStep
<1>13. ASSUME NEW p \in Proc, WriteNext(p) PROVE TypeOK' /\ Flow' BY <1>13, WriteNextStep
<1>14. ASSUME NEW p \in Proc, ReadNext(p) PROVE TypeOK' /\ Flow' BY <1>14, ReadNextStep
<1>15. ASSUME NEW p \in Proc, Dispatch(p) \/ Signal(p) PROVE TypeOK' /\ Flow' BY <1>15, DispatchStep
<1>16. ASSUME NEW p \in Proc, Eintr(p) PROVE TypeOK' /\ Flow' BY <1>16, EintrStep
<1>17. ASSUME NEW p \in Proc, NEW s \in Stream, NEW n \in opt[s].sizes, Write(p, s, n)
       PROVE  TypeOK' /\ Flow'
  BY <1>17, WriteStep
<1>18. ASSUME NEW p \in Proc, NEW s \in Stream, Strread(p, s) PROVE TypeOK' /\ Flow'
  BY <1>18, StrreadStep
<1>19. ASSUME NEW p \in Proc, NEW s \in Stream, Strpoll(p, s) PROVE TypeOK' /\ Flow'
  BY <1>19, StrpollStep
<1>20. ASSUME NEW p \in Proc, NEW s \in Stream, MStop(p, s) PROVE TypeOK' /\ Flow'
  BY <1>20, MStopStep
<1>21. ASSUME NEW p \in Proc, NEW s \in Stream, MStart(p, s) PROVE TypeOK' /\ Flow'
  BY <1>21, IuxintStep
<1>22. ASSUME NEW p \in Proc, NEW s \in Stream, MFlush(p, s) PROVE TypeOK' /\ Flow'
  BY <1>22, MFlushStep
<1>23. CASE Next
  BY <1>2, <1>3, <1>4, <1>5, <1>6, <1>7, <1>8, <1>9, <1>10, <1>11, <1>12, <1>13, <1>14, <1>15,
     <1>16, <1>17,
     <1>18, <1>19, <1>20, <1>21, <1>22, <1>23, Steps
<1> QED BY <1>1, <1>23

(* Every step keeps Room, unless strmakemsg sleeps. *)
LEMMA RoomNext ==
    ASSUME TypeOK, Flow, Flow', ~MAKESLEEP, Room, [Next]_vars PROVE Room'
<1>1. CASE \/ UNCHANGED vars
           \/ Kick \/ QrScanned \/ QrNext \/ QrDone \/ QrClear \/ Iuosrv \/ Strscan
           \/ (\E s \in Stream : Elapse(s) \/ Iuscan(s))
           \/ (\E p \in Proc, s \in Stream : MStop(p, s))
  <2>1. UNCHANGED <<dw, held, cpu, call, pc>>
    BY <1>1 DEF vars, dev, Kick, QrScanned, QrNext, QrDone, QrClear, Iuosrv, Strscan, Elapse,
       Iuscan, MStop
  <2> QED BY <2>1, RoomSame
<1>2. CASE Strwsrv
  <2>1. UNCHANGED <<dw, held, cpu, call>> BY <1>2 DEF Strwsrv, dev
  <2>2. Woken(pc') BY <1>2, StrwsrvStep
  <2> QED BY <2>1, <2>2, RoomSame
<1>3. CASE Iuisrv
  <2>1. UNCHANGED <<dw, held, cpu, call>> BY <1>3 DEF Iuisrv
  <2>2. Woken(pc') BY <1>3, IuisrvStep
  <2> QED BY <2>1, <2>2, RoomSame
<1>4. ASSUME NEW p \in Proc, Signal(p) PROVE Room'
  <2>1. UNCHANGED <<dw, held, cpu, call>> BY <1>4 DEF Signal, dev
  <2>2. \A s \in Stream : SRoom(s)' BY <2>1 DEF Room, SRoom
  <2>3. ASSUME NEW o \in Proc PROVE PRoom(o)'
    <3>1. pc'[o] \in {"w_made", "w_put"} <=> pc[o] \in {"w_made", "w_put"}
      BY <1>4 DEF Signal, TypeOK
    <3>2. PRoom(o) BY DEF Room
    <3> QED BY <2>1, <3>1, <3>2 DEF PRoom
  <2> QED BY <2>2, <2>3 DEF Room
<1>5. ASSUME NEW p \in Proc, Eintr(p) PROVE Room'
  <2>1. /\ UNCHANGED <<dw, held>> /\ cpu' = cpu /\ call' = [call EXCEPT ![p] = NoCall]
        /\ pc[p] \in {"w_intr", "r_intr"}
    BY <1>5 DEF Eintr, Leave, dev
  <2>2. \A s \in Stream : SRoom(s)' BY <2>1 DEF Room, SRoom
  <2>3. Woken(pc') BY <1>5, EintrStep
  <2>4. ASSUME NEW o \in Proc PROVE PRoom(o)'
    <3>1. pc'[o] \in {"w_made", "w_put"} <=> pc[o] \in {"w_made", "w_put"} BY <2>3 DEF Woken
    <3>2. PRoom(o) BY DEF Room
    <3>3. call'[o] = call[o] \/ (o = p /\ call'[o].m = 0) BY <2>1 DEF TypeOK, NoCall
    <3> QED BY <2>1, <3>1, <3>2, <3>3 DEF PRoom
  <2> QED BY <2>2, <2>4 DEF Room
<1>6. CASE QrScan BY <1>6, RoomQrScan
<1>7. ASSUME NEW p \in Proc, WriteHeld(p) \/ WriteMake(p) \/ WriteHold(p) PROVE Room'
  BY <1>7, RoomWriter
<1>8. ASSUME NEW p \in Proc, WritePut(p) PROVE Room' BY <1>8, RoomWritePut
<1>9. ASSUME NEW p \in Proc, NEW s \in Stream, Iuxint(s) \/ MStart(p, s) \/ MFlush(p, s) PROVE Room'
  BY <1>9, RoomIuxint
<1>10. ASSUME NEW p \in Proc, NEW s \in Stream,
           \/ \E n \in opt[s].sizes : Write(p, s, n)
           \/ WriteFull(p) \/ WriteNext(p) \/ ReadNext(p) \/ Dispatch(p) \/ Strread(p, s) \/ Strpoll(p, s)
       PROVE  Room'
  BY <1>10, RoomProcess
<1>11. ASSUME NEW s \in Stream, Iuxint(s), Proc = {} PROVE Room'
  <2>1. dma[s] # 0 /\ UNCHANGED <<held, cpu, pc, call>> BY <1>11 DEF Iuxint
  <2>2. \A t \in Stream : Count(dw'[t]) <= Count(dw[t])
    <3>1. QueueOK(dw[s], BUF) /\ ttstop[s] \in BOOLEAN /\ run \in RunType /\ 0 \in 0 .. BUF
      <4>1. QueueOK(dw[s], BUF) BY DEF Flow, OutOK
      <4>2. ttstop[s] \in BOOLEAN /\ run \in RunType BY StreamTyped
      <4>3. 0 \in 0 .. BUF BY StreamsAssumption
      <4> QED BY <4>1, <4>2, <4>3
    <3>2. Output(s, dw[s], 0, ttstop[s], run) BY <1>11 DEF Iuxint
    <3>3. Moved(s, dw[s], 0, ttstop[s], run) BY <3>1, <3>2, OutputFacts
    <3>4. Count(dw'[s]) <= Count(dw[s]) /\ \A t \in Stream \ {s} : dw'[t] = dw[t] BY <3>3 DEF Moved
    <3> QED BY <3>4, CountTyped
  <2> QED BY <2>1, <2>2, RoomShrinks
<1>12. ASSUME NEW p \in Proc, WriteFull(p) \/ WriteNext(p) \/ ReadNext(p) \/ Dispatch(p) PROVE Room'
  <2>1. pc[p] # "user" /\ CallOK(p) BY <1>12 DEF Flow, WriteFull, WriteNext, ReadNext, Dispatch, In
  <2>2. PICK s \in Stream : s = call[p].s BY <2>1 DEF CallOK
  <2> QED BY <1>10, <1>12
<1>13. CASE Next
  <2>1. ASSUME NEW s \in Stream, Iuxint(s) PROVE Room'
    <3>1. CASE Proc = {} BY <1>11, <2>1, <3>1
    <3>2. CASE Proc # {}
      <4>1. PICK p : p \in Proc BY <3>2
      <4> QED BY <1>9, <2>1, <4>1
    <3> QED BY <3>1, <3>2
  <2> QED BY <1>1, <1>2, <1>3, <1>4, <1>5, <1>6, <1>7, <1>8, <1>9, <1>10, <1>12, <1>13, <2>1, Steps
<1> QED BY <1>1, <1>13

(* The first state. *)
LEMMA FlowInit == ASSUME Init PROVE TypeOK /\ Flow /\ Room /\ opt \in [Stream -> Settings]
<1>0. /\ HIWAT \in Nat /\ LOWAT \in Nat /\ BUF \in Nat /\ 0 < LOWAT /\ LOWAT <= HIWAT
      /\ Settings \subseteq Setting
      /\ 0 \in 0 .. BUF /\ NULL \notin Queue
  BY StreamsAssumption
<1>1. NewQueue.msgs = << >> /\ NewQueue.flag = {"QWANTR"} /\ NewQueue \in Queues
  BY DEF NewQueue, Queues, Flag
<1>2. Count(NewQueue) = 0 BY <1>1, CountNone
<1>3. \A b \in Nat : QueueOK(NewQueue, b) BY <1>0, <1>1, <1>2 DEF QueueOK
<1>4. NoCall \in CallType /\ NoCall.m = 0 BY NoCallType DEF NoCall
<1>5. opt \in [Stream -> Settings] /\ opt \in [Stream -> Setting] BY <1>0 DEF Init
<1>6. /\ dw \in [Stream -> Queues] /\ dr \in [Stream -> Queues] /\ hr \in [Stream -> Queues]
      /\ held \in [Stream -> 0 .. BUF] /\ dma \in [Stream -> 0 .. BUF]
  BY <1>0, <1>1 DEF Init
<1>7. /\ due \in [Stream -> BOOLEAN] /\ ttstop \in [Stream -> BOOLEAN]
      /\ sd_flag \in [Stream -> SUBSET {"WSLEEP", "RSLEEP"}]
      /\ back \subseteq Stream /\ qrunflag \in BOOLEAN /\ strscanflag \in BOOLEAN
      /\ cpu \in Proc \cup {NULL}
      /\ qr \in {OFF, SCAN, NEXT} \cup Queue \cup (Stream \X {"clear"})
  BY DEF Init
<1>8. run \in RunType BY DEF Init, RunType
<1>9. scan \in [head : Queue \cup {NULL}, tail : Queue \cup {NULL}, hlist : SUBSET Stream]
  BY DEF Init
<1>10. pc \in [Proc -> PcSet] BY DEF Init, PcSet
<1>11. call \in [Proc -> CallType] BY <1>4 DEF Init
<1>12. TypeOK BY <1>5, <1>6, <1>7, <1>8, <1>9, <1>10, <1>11 DEF TypeOK, RunType, PcSet, CallType
<1>13. \A s \in Stream : OutOK(s) /\ InOK(s) BY <1>0, <1>1, <1>3 DEF Init, OutOK, InOK
<1>14. \A p \in Proc : CallOK(p) /\ SleeperOK(p) BY DEF Init, CallOK, SleeperOK
<1>15. KernelOK BY DEF Init, KernelOK
<1>16. \A s \in Stream : SRoom(s)
  <2>1. \A s \in Stream : Count(dw[s]) = 0 /\ held[s] = 0 BY <1>2 DEF Init
  <2> QED BY <1>0, <2>1 DEF SRoom
<1>17. \A p \in Proc : PRoom(p) BY <1>4 DEF Init, PRoom
<1> QED BY <1>5, <1>12, <1>13, <1>14, <1>15, <1>16, <1>17 DEF Flow, Room

(* qenable links the queue at the end. *)
LEMMA OnListQenable ==
    ASSUME NEW r \in RunType, NEW L, OnList(r, L), NEW q \in Queue, NEW k
    PROVE  \E M : OnList(QenableIf(k, r, q), M)
<1>1. CASE ~k \/ q \in r.enab
  <2>1. QenableIf(k, r, q) = r BY <1>1 DEF QenableIf, Qenable
  <2> QED BY <2>1
<1>2. CASE k /\ q \notin r.enab
  <2> DEFINE l == [x \in Queue |-> IF x = q THEN NULL ELSE IF x = r.qtail /\ r.qhead # NULL THEN q ELSE r.link[x]]
  <2>1. QenableIf(k, r, q) = [qhead |-> IF r.qhead = NULL THEN q ELSE r.qhead, qtail |-> q, link |-> l,
                              enab |-> r.enab \cup {q}]
    BY <1>2 DEF QenableIf, Qenable
  <2>2. \A x \in Queue : l[x] = IF x = q THEN NULL ELSE IF x = r.qtail /\ r.qhead # NULL THEN q ELSE r.link[x]
    OBVIOUS
  <2> HIDE DEF l
  <2>3. PICK t : t = QenableIf(k, r, q) OBVIOUS
  <2>4. t.qhead = (IF r.qhead = NULL THEN q ELSE r.qhead) /\ t.qtail = q /\ t.link = l /\ t.enab = r.enab \cup {q}
    BY <2>1, <2>3
  <2>5. L \in Seq(Queue) /\ IsInjective(L) /\ ToSet(L) = r.enab BY DEF OnList
  <2>6. PICK M, n : M = Append(L, q) /\ n = Len(L) OBVIOUS
  <2>7. M \in Seq(Queue) /\ IsInjective(M) /\ ToSet(M) = r.enab \cup {q}
    BY <1>2, <2>5, <2>6, AppendFacts
  <2>8. /\ n \in Nat /\ Len(M) = n + 1 /\ M[n + 1] = q /\ M # << >> /\ (L = << >> <=> n = 0)
        /\ \A i \in 1 .. n : M[i] = L[i] /\ L[i] \in Queue
    BY <2>5, <2>6
  <2>9. \A i, j \in 1 .. n : L[i] = L[j] => i = j BY <2>5, <2>6 DEF IsInjective
  <2>10. NULL \notin Queue BY StreamsAssumption
  <2>11. r.qhead = (IF n = 0 THEN NULL ELSE L[1]) /\ r.qtail = (IF n = 0 THEN NULL ELSE L[n])
    BY <2>6, <2>8 DEF OnList
  <2>12. t.qhead = M[1]
    <3>1. CASE n = 0 BY <2>4, <2>8, <2>11, <3>1
    <3>2. CASE n # 0
      <4>1. 1 \in 1 .. n BY <2>8, <3>2
      <4> QED BY <2>4, <2>8, <2>10, <2>11, <3>2, <4>1
    <3> QED BY <3>1, <3>2
  <2>13. \A i \in 1 .. n : q # L[i]
    <3>1. \A i \in 1 .. n : L[i] \in ToSet(L) BY <2>5, <2>6, MemberIff
    <3> QED BY <1>2, <2>5, <3>1
  <2>14. ASSUME NEW i \in 1 .. n + 1 PROVE t.link[M[i]] = IF i = n + 1 THEN NULL ELSE M[i + 1]
    <3>1. CASE i = n + 1 BY <2>2, <2>4, <2>8, <3>1
    <3>2. CASE i = n /\ i # n + 1
      <4>1. i \in 1 .. n /\ n # 0 /\ M[i] = L[n] /\ L[n] \in Queue /\ 1 \in 1 .. n BY <2>8, <3>2
      <4>2. r.qtail = M[i] /\ r.qhead # NULL /\ M[i] # q BY <2>8, <2>10, <2>11, <2>13, <4>1
      <4>3. t.link[M[i]] = q BY <2>2, <2>4, <4>1, <4>2
      <4> QED BY <2>8, <3>2, <4>3
    <3>3. CASE i # n /\ i # n + 1
      <4>1. i \in 1 .. n /\ i + 1 \in 1 .. n /\ n \in 1 .. n /\ n # 0 BY <2>8, <3>3
      <4>2. M[i] = L[i] /\ L[i] \in Queue /\ L[i] # q /\ M[i + 1] = L[i + 1] BY <2>8, <2>13, <4>1
      <4>3. L[i] # r.qtail BY <2>9, <2>11, <3>3, <4>1
      <4>4. r.link[L[i]] = L[i + 1] BY <2>6, <3>3, <4>1 DEF OnList
      <4> QED BY <2>2, <2>4, <3>3, <4>2, <4>3, <4>4
    <3> QED BY <3>1, <3>2, <3>3
  <2>15. OnList(t, M) BY <2>4, <2>7, <2>8, <2>12, <2>14 DEF OnList
  <2> QED BY <2>3, <2>15
<1> QED BY <1>1, <1>2

(* The first queue is taken off. *)
LEMMA OnListTail ==
    ASSUME NEW r \in RunType, NEW L, OnList(r, L), r.qhead # NULL, NEW t \in RunType,
           t.qhead = r.link[r.qhead], t.qtail = (IF r.link[r.qhead] = NULL THEN NULL ELSE r.qtail), t.link = r.link,
           t.enab = r.enab \ {r.qhead}
    PROVE  OnList(t, Tail(L))
<1>1. L \in Seq(Queue) /\ IsInjective(L) /\ ToSet(L) = r.enab /\ L # << >> BY DEF OnList
<1>2. PICK M, n : M = Tail(L) /\ n = Len(L) OBVIOUS
<1>3. M \in Seq(Queue) /\ IsInjective(M) /\ ToSet(M) = r.enab \ {L[1]} BY <1>1, <1>2, TailFacts
<1>4. /\ n \in Nat /\ n # 0 /\ Len(M) = n - 1 /\ \A i \in 1 .. n - 1 : M[i] = L[i + 1]
      /\ \A i \in 1 .. n : L[i] \in Queue
      /\ M = << >> <=> n = 1
  <2>1. n \in Nat /\ n # 0 /\ \A i \in 1 .. n : L[i] \in Queue BY <1>1, <1>2
  <2>2. Len(M) = n - 1 /\ \A i \in 1 .. n - 1 : M[i] = L[i + 1] BY <1>1, <1>2
  <2>3. M = << >> <=> Len(M) = 0 BY <1>3
  <2> QED BY <2>1, <2>2, <2>3
<1>5. r.qhead = L[1] /\ r.qtail = L[n] BY <1>1, <1>2 DEF OnList
<1>6. \A i \in 1 .. n : r.link[L[i]] = IF i = n THEN NULL ELSE L[i + 1] BY <1>2 DEF OnList
<1>7. NULL \notin Queue BY StreamsAssumption
<1>8. r.link[L[1]] = (IF n = 1 THEN NULL ELSE L[2])
  <2>1. 1 \in 1 .. n BY <1>4
  <2> QED BY <1>6, <2>1
<1>9. t.qhead = (IF M = << >> THEN NULL ELSE M[1])
  <2>1. CASE n = 1 BY <1>4, <1>5, <1>8, <2>1
  <2>2. CASE n # 1
    <3>1. 1 \in 1 .. n - 1 BY <1>4, <2>2
    <3> QED BY <1>4, <1>5, <1>8, <2>2, <3>1
  <2> QED BY <2>1, <2>2
<1>10. t.qtail = (IF M = << >> THEN NULL ELSE M[Len(M)])
  <2>1. CASE n = 1 BY <1>4, <1>5, <1>8, <2>1
  <2>2. CASE n # 1
    <3>1. n - 1 \in 1 .. n - 1 /\ 2 \in 1 .. n /\ M[n - 1] = L[n] BY <1>4, <2>2
    <3>2. L[2] # NULL BY <1>4, <1>7, <3>1
    <3> QED BY <1>4, <1>5, <1>8, <2>2, <3>1, <3>2
  <2> QED BY <2>1, <2>2
<1>11. ASSUME NEW i \in 1 .. Len(M) PROVE t.link[M[i]] = IF i = Len(M) THEN NULL ELSE M[i + 1]
  <2>1. i \in 1 .. n - 1 /\ i + 1 \in 1 .. n /\ M[i] = L[i + 1] BY <1>4
  <2>2. r.link[L[i + 1]] = IF i + 1 = n THEN NULL ELSE L[i + 2] BY <1>6, <2>1
  <2>3. i # Len(M) => i + 1 \in 1 .. n - 1 /\ i + 1 # n BY <1>4, <2>1
  <2>4. i # Len(M) => M[i + 1] = L[i + 2] BY <1>4, <2>3
  <2>5. i = Len(M) => i + 1 = n BY <1>4
  <2> QED BY <2>1, <2>2, <2>3, <2>4, <2>5
<1> QED BY <1>2, <1>3, <1>5, <1>9, <1>10, <1>11 DEF OnList

(* Walk() goes along the list. *)
LEMMA WalkIs ==
    ASSUME NEW L \in Seq(Queue), NEW n \in Nat, n = Len(L), NEW from,
           from = (IF n = 0 THEN NULL ELSE L[1]),
           \A i \in 1 .. n : run.link[L[i]] = IF i = n THEN NULL ELSE L[i + 1]
    PROVE  \A i \in 0 .. n : Walk(from, n)[i] = IF i = n THEN NULL ELSE L[i + 1]
<1>0. NULL \notin Queue BY StreamsAssumption
<1>1. \A i \in 1 .. n : L[i] \in Queue /\ L[i] # NULL BY <1>0
<1> DEFINE P(v) == v = [i \in 0 .. n |-> IF i = 0 THEN from ELSE IF v[i - 1] = NULL THEN NULL ELSE run.link[v[i - 1]]]
           w == CHOOSE v : P(v)
           u == [i \in 0 .. n |-> IF i = n THEN NULL ELSE L[i + 1]]
<1>2. P(u)
  <2>1. ASSUME NEW i \in 0 .. n
        PROVE  u[i] = IF i = 0 THEN from ELSE IF u[i - 1] = NULL THEN NULL ELSE run.link[u[i - 1]]
    <3>1. CASE i = 0 BY <3>1
    <3>2. CASE i # 0
      <4>1. i \in 1 .. n /\ u[i - 1] = L[i] BY <3>2
      <4>2. L[i] # NULL /\ run.link[L[i]] = IF i = n THEN NULL ELSE L[i + 1] BY <1>1, <4>1
      <4> QED BY <3>2, <4>1, <4>2
    <3> QED BY <3>1, <3>2
  <2>2. u = [i \in 0 .. n |-> u[i]] OBVIOUS
  <2> HIDE DEF u
  <2> QED BY <2>1, <2>2
<1>3. P(w)
  <2>1. \E v : P(v)
    <3> HIDE DEF P, u
    <3> QED BY <1>2
  <2> HIDE DEF P
  <2> QED BY <2>1, Zenon
<1>4. Walk(from, n) = [i \in 0 .. n |-> w[i]] BY DEF Walk
<1>5. \A i \in 0 .. n : u[i] = IF i = 0 THEN from ELSE IF u[i - 1] = NULL THEN NULL ELSE run.link[u[i - 1]]
  <2> HIDE DEF u
  <2> QED BY <1>2
<1>6. \A i \in 0 .. n : w[i] = IF i = 0 THEN from ELSE IF w[i - 1] = NULL THEN NULL ELSE run.link[w[i - 1]]
  <2> HIDE DEF w
  <2> QED BY <1>3
<1> HIDE DEF P, w, u
<1>7. \A i \in 0 .. n : w[i] = u[i]
  <2> DEFINE S == {i \in Nat : i <= n /\ w[i] # u[i]}
  <2>1. SUFFICES ASSUME NEW x \in S PROVE FALSE OBVIOUS
  <2>2. S \in SUBSET Nat OBVIOUS
  <2>3. PICK j \in S : \A z \in S : j <= z
    <3> HIDE DEF S
    <3> QED BY <2>2, LeastMember
  <2>4. j \in Nat /\ j <= n /\ w[j] # u[j] OBVIOUS
  <2>5. j # 0 BY <1>5, <1>6, <2>4
  <2>6. j - 1 \in Nat /\ j - 1 <= n /\ ~(j <= j - 1) /\ j \in 0 .. n BY <2>4, <2>5
  <2>7. w[j - 1] = u[j - 1] BY <2>3, <2>6
  <2> QED BY <1>5, <1>6, <2>4, <2>5, <2>6, <2>7
<1>8. \A i \in 0 .. n : u[i] = IF i = n THEN NULL ELSE L[i + 1] BY DEF u
<1> QED BY <1>4, <1>7, <1>8

(* A sequence that is linked from head to tail is a list in that sense. *)
LEMMA OnListLists ==
    ASSUME NEW r, r.link = run.link, NEW L, OnList(r, L)
    PROVE  Lists(r.qhead, r.qtail, r.enab)
<1>1. L \in Seq(Queue) /\ IsInjective(L) /\ ToSet(L) = r.enab BY DEF OnList
<1>2. PICK n : n = Len(L) OBVIOUS
<1>3. n \in Nat /\ (L = << >> <=> n = 0) BY <1>1, <1>2
<1>4. Cardinality(r.enab) = n BY <1>1, <1>2, InjectiveCardinality
<1>5. r.qhead = (IF n = 0 THEN NULL ELSE L[1]) /\ r.qtail = (IF n = 0 THEN NULL ELSE L[n])
  BY <1>2, <1>3 DEF OnList
<1>6. \A i \in 1 .. n : run.link[L[i]] = IF i = n THEN NULL ELSE L[i + 1] BY <1>2 DEF OnList
<1>7. PICK w : w = Walk(r.qhead, n) OBVIOUS
<1>8. \A i \in 0 .. n : w[i] = IF i = n THEN NULL ELSE L[i + 1]
  BY <1>1, <1>2, <1>3, <1>5, <1>6, <1>7, WalkIs
<1>9. {w[i] : i \in 0 .. n - 1} = r.enab
  <2>1. \A x : x \in r.enab <=> \E i \in 1 .. n : L[i] = x BY <1>1, <1>2, MemberIff
  <2>2. \A i \in 0 .. n - 1 : w[i] = L[i + 1] /\ i + 1 \in 1 .. n BY <1>3, <1>8
  <2>3. \A i \in 1 .. n : i - 1 \in 0 .. n - 1 /\ w[i - 1] = L[i] BY <1>3, <1>8
  <2> QED BY <2>1, <2>2, <2>3
<1>10. w[n] = NULL BY <1>3, <1>8
<1>11. r.qtail = IF n = 0 THEN NULL ELSE w[n - 1]
  <2>1. n # 0 => n - 1 \in 0 .. n /\ n - 1 # n BY <1>3
  <2> QED BY <1>3, <1>5, <1>8, <2>1
<1> QED BY <1>4, <1>7, <1>9, <1>10, <1>11 DEF Lists

(* How the streams are set does not change. *)
LEMMA OptSame == ASSUME [Next]_vars PROVE opt' = opt
<1>1. CASE UNCHANGED vars BY <1>1 DEF vars
<1>2. CASE Next
  BY <1>2, Steps DEF Kick, QrScanned, QrNext, QrDone, QrClear, Iuosrv, Strscan, Elapse, QrScan,
     Strwsrv, Iuisrv, Iuxint,
     Iuscan, WriteFull, WriteHeld, WriteMake, WriteHold, WritePut, WriteNext, ReadNext, Dispatch,
     Signal, Eintr, Write,
     Strread, Strpoll, MStop, MStart, MFlush
<1> QED BY <1>1, <1>2

(* The lists are empty when they have no head. *)
Headed == (run.qhead = NULL => run.enab = {}) /\ (scan.head = NULL => scan.hlist = {})

(* Steps that do not come back from queuerun keep what is called. *)
LEMMA CalledKept ==
    ASSUME Called, qr # OFF => qr' # OFF, qrunflag => qrunflag', strscanflag => strscanflag',
           run'.enab # run.enab => qrunflag', scan'.hlist # scan.hlist => strscanflag'
    PROVE  Called'
BY DEF Called

(* No step leaves a list to itself. *)
LEMMA CalledNext ==
    ASSUME TypeOK, Flow, Called, Headed, [Next]_vars PROVE Called'
<1>1. CASE Kick \/ QrScan \/ QrScanned \/ QrNext \/ Strwsrv \/ QrClear \/ Iuosrv \/ Iuisrv
  <2>1. qr' # OFF
    <3>1. CASE Kick \/ QrScan \/ QrScanned \/ QrClear \/ Iuosrv \/ Iuisrv
      BY <3>1, OffFacts DEF Kick, QrScan, QrScanned, QrClear, Iuosrv, Iuisrv
    <3>2. CASE QrNext
      <4>1. qr' \in Queue BY <3>2 DEF QrNext, TypeOK
      <4> QED BY <4>1, OffFacts
    <3>3. CASE Strwsrv
      <4>1. qr \in Queue /\ qr' = <<qr[1], "clear">> BY <3>3 DEF Strwsrv, Serves
      <4>2. qr' \in Stream \X {"clear"} BY <4>1 DEF Queue
      <4> QED BY <4>2, OffFacts
    <3> QED BY <1>1, <3>1, <3>2, <3>3
  <2> QED BY <2>1 DEF Called
<1>2. CASE QrDone
  <2>1. run' = run /\ run.enab = {} /\ scan' = scan /\ strscanflag' = (strscanflag \/ scan.head # NULL)
    BY <1>2 DEF QrDone, Headed
  <2> QED BY <2>1 DEF Called, Headed
<1>3. CASE Strscan
  <2>1. qrunflag' = TRUE BY <1>3 DEF Strscan
  <2> QED BY <2>1 DEF Called
<1>4. CASE \/ UNCHANGED vars \/ (\E s \in Stream : Elapse(s))
           \/ (\E p \in Proc : WriteFull(p) \/ WriteHeld(p) \/ WriteMake(p) \/ WriteNext(p) \/ ReadNext(p)
                               \/ Dispatch(p) \/ Signal(p) \/ Eintr(p))
           \/ (\E p \in Proc, s \in Stream : (\E n \in opt[s].sizes : Write(p, s, n)) \/ Strpoll(p, s) \/ MStop(p, s))
  <2>1. UNCHANGED <<run, scan, qrunflag, strscanflag, qr>>
    BY <1>4 DEF vars, sched, Elapse, WriteFull, WriteHeld, WriteMake, WriteNext, ReadNext,
       Dispatch, Signal, Eintr,
       Write, Strpoll, MStop
  <2> QED BY <2>1, CalledKept
<1>5. CASE \/ (\E s \in Stream : Iuxint(s) \/ Iuscan(s))
           \/ (\E p \in Proc, s \in Stream : MStart(p, s) \/ MFlush(p, s))
  <2>1. UNCHANGED <<scan, strscanflag, qr>> /\ qrunflag' = (qrunflag \/ run'.enab # run.enab)
    BY <1>5 DEF Iuxint, Iuscan, MStart, MFlush, Output, Backenable, Schedule
  <2> QED BY <2>1, CalledKept
<1>6. ASSUME NEW p \in Proc, WriteHold(p) PROVE Called'
  <2>1. qr' = qr /\ qrunflag' = qrunflag /\ call[p].s \in Stream
    BY <1>6 DEF WriteHold, Flow, CallOK, In
  <2>2. run'.enab = run.enab BY <1>6, <2>1, HoldFacts DEF WriteHold
  <2>3. strscanflag' = TRUE \/ (scan' = scan /\ strscanflag' = strscanflag)
    BY <1>6 DEF WriteHold, Hold
  <2> QED BY <2>1, <2>2, <2>3, CalledKept
<1>7. ASSUME NEW p \in Proc, WritePut(p) \/ (\E s \in Stream : Strread(p, s)) PROVE Called'
  <2>1. UNCHANGED <<scan, strscanflag>> /\ qrunflag' = (qrunflag \/ run'.enab # run.enab) /\ qr = OFF
    BY <1>7 DEF WritePut, Strread, Iuoput, Output, Backenable, Schedule, In
  <2> QED BY <2>1, CalledKept
<1> QED BY <1>1, <1>2, <1>3, <1>4, <1>5, <1>6, <1>7, Steps

(***************************************************************************)
(* Streams on which no write is held back.                                 *)
(***************************************************************************)
(* How the run list may change in a step. *)
RunStep ==
    \/ run' = run
    \/ \E k, q : q \in Queue /\ run' = QenableIf(k, run, q)
    \/ \E k, l, q, x : q \in Queue /\ x \in Queue /\ run' = QenableIf(k, QenableIf(l, run, x), q)

(* The run list stays whole. *)
LEMMA RunStepOnList ==
    ASSUME run \in RunType, NEW L, OnList(run, L), RunStep PROVE \E M : OnList(run', M)
<1>1. CASE run' = run BY <1>1
<1>2. ASSUME NEW k, NEW q \in Queue, run' = QenableIf(k, run, q) PROVE \E M : OnList(run', M)
  BY <1>2, OnListQenable
<1>3. ASSUME NEW k, NEW l, NEW q \in Queue, NEW x \in Queue, run' = QenableIf(k, QenableIf(l, run, x), q)
      PROVE  \E M : OnList(run', M)
  <2>1. PICK r : r = QenableIf(l, run, x) OBVIOUS
  <2>2. r \in RunType BY <2>1, QenableType
  <2>3. PICK M : OnList(r, M) BY <2>1, OnListQenable
  <2> QED BY <1>3, <2>1, <2>2, <2>3, OnListQenable
<1> QED BY <1>1, <1>2, <1>3 DEF RunStep

(* The steps by which a process does not write. *)
LEMMA SizedWoken ==
    ASSUME TypeOK, NEW p \in Proc, Sized(p), opt' = opt,
           \/ pc'[p] = pc[p] /\ call'[p] = call[p]
           \/ pc'[p] = "w_woken" /\ pc[p] = "w_asleep" /\ call'[p] = call[p]
           \/ pc'[p] = "w_intr" /\ pc[p] \in {"w_asleep", "w_woken"} /\ call'[p] = call[p]
           \/ pc'[p] = "w_canput" /\ pc[p] = "w_woken" /\ call'[p] = call[p]
           \/ pc'[p] = "w_asleep" /\ pc[p] = "w_canput" /\ call'[p] = call[p]
           \/ pc'[p] \in {"user", "polling", "r_again", "r_asleep", "r_woken", "r_intr", "r_next"}
    PROVE  Sized(p)'
BY DEF Sized

(* A step that holds nothing back. *)
LEMMA OneListStep ==
    ASSUME TypeOK, OneList, UNCHANGED <<scan, held>>, \E M : OnList(run', M), \A p \in Proc : Sized(p)'
    PROVE  OneList'
BY DEF OneList

(* Only p moves. *)
LEMMA SizedOthers ==
    ASSUME TypeOK, OneList, opt' = opt, NEW p \in Proc, \A o \in Proc \ {p} : pc'[o] = pc[o] /\ call'[o] = call[o], Sized(p)'
    PROVE  \A o \in Proc : Sized(o)'
<1>1. \A o \in Proc \ {p} : Sized(o)' BY SizedWoken DEF OneList
<1> QED BY <1>1

(* The steps of queuerun, the interrupts and the ioctls. *)
LEMMA OneListQueuerun ==
    ASSUME TypeOK, Flow, OneList, opt' = opt,
           \/ UNCHANGED vars \/ Kick \/ QrScanned \/ QrNext \/ QrDone \/ QrClear \/ Iuosrv \/ Strscan
           \/ (\E s \in Stream : Elapse(s) \/ Iuxint(s) \/ Iuscan(s))
           \/ (\E p \in Proc, s \in Stream : MStop(p, s) \/ MStart(p, s) \/ MFlush(p, s))
    PROVE  OneList'
<1>1. UNCHANGED <<scan, held, pc, call>>
  BY DEF vars, sched, Kick, QrScanned, QrNext, QrDone, QrClear, Iuosrv, Strscan, Elapse, Iuxint,
     Iuscan, MStop, MStart, MFlush
<1>2. \A p \in Proc : Sized(p)' BY <1>1, SizedWoken DEF OneList
<1>3. run \in RunType BY DEF TypeOK, RunType
<1>4. PICK L : OnList(run, L) BY DEF OneList
<1>5. \E M : OnList(run', M)
  <2>1. CASE QrNext
    <3>1. run.qhead \in Queue BY <2>1 DEF QrNext, TypeOK
    <3>2. PICK h, n : h = run.qhead /\ n = run.link[h] OBVIOUS
    <3>3. run' = [run EXCEPT !.qhead = n, !.qtail = IF n = NULL THEN NULL ELSE @, !.enab = @ \ {h}]
      BY <2>1, <3>2 DEF QrNext
    <3>4. n \in Queue \cup {NULL} BY <1>3, <3>1, <3>2 DEF RunType
    <3>5. /\ run' \in RunType /\ run'.qhead = n /\ run'.qtail = (IF n = NULL THEN NULL ELSE run.qtail)
          /\ run'.link = run.link /\ run'.enab = run.enab \ {h}
      BY <1>3, <3>3, <3>4 DEF RunType
    <3>6. run.qhead # NULL BY <2>1 DEF QrNext
    <3>7. OnList(run', Tail(L)) BY <1>3, <1>4, <3>2, <3>5, <3>6, OnListTail
    <3> QED BY <3>7
  <2>2. CASE ~QrNext
    <3>1. RunStep
      <4>1. ASSUME NEW s \in Stream, Iuxint(s) \/ (\E p \in Proc : MStart(p, s) \/ MFlush(p, s))
            PROVE  RunStep
        <5>1. \E k : run' = QenableIf(k, run, <<s, "hw">>)
          BY <4>1 DEF Iuxint, MStart, MFlush, Output, Backenable, Schedule
        <5>2. <<s, "hw">> \in Queue BY DEF Queue
        <5> QED BY <5>1, <5>2 DEF RunStep
      <4>2. ASSUME NEW s \in Stream, Iuscan(s) PROVE RunStep
        <5>1. \E k : run' = QenableIf(k, run, <<s, "dr">>) BY <4>2 DEF Iuscan, Schedule
        <5>2. <<s, "dr">> \in Queue BY DEF Queue
        <5> QED BY <5>1, <5>2 DEF RunStep
      <4>3. CASE \/ UNCHANGED vars \/ Kick \/ QrScanned \/ QrDone \/ QrClear \/ Iuosrv \/ Strscan
                 \/ (\E s \in Stream : Elapse(s)) \/ (\E p \in Proc, s \in Stream : MStop(p, s))
        <5>1. run' = run
          BY <4>3 DEF vars, sched, Kick, QrScanned, QrDone, QrClear, Iuosrv, Strscan, Elapse, MStop
        <5> QED BY <5>1 DEF RunStep
      <4> QED BY <2>2, <4>1, <4>2, <4>3
    <3> QED BY <1>3, <1>4, <3>1, RunStepOnList
  <2> QED BY <2>1, <2>2
<1> QED BY <1>1, <1>2, <1>5, OneListStep

(* Processes are woken. *)
LEMMA OneListWoken ==
    ASSUME TypeOK, Flow, OneList, opt' = opt, Strwsrv \/ Iuisrv \/ (\E p \in Proc : Eintr(p))
    PROVE  OneList'
<1>1. UNCHANGED <<scan, held, run>> BY DEF sched, Strwsrv, Iuisrv, Eintr
<1>2. Woken(pc') BY StrwsrvStep, IuisrvStep, EintrStep
<1>3. \A p \in Proc : call'[p] = call[p] \/ pc'[p] = "user"
  <2>1. CASE Strwsrv \/ Iuisrv BY <2>1 DEF Strwsrv, Iuisrv
  <2>2. ASSUME NEW p \in Proc, Eintr(p) PROVE \A o \in Proc : call'[o] = call[o] \/ pc'[o] = "user"
    <3>1. call' = [call EXCEPT ![p] = NoCall] BY <2>2 DEF Eintr, Leave
    <3>2. \E u : DOMAIN u = Proc /\ pc' = [u EXCEPT ![p] = "user"]
      <4>1. PICK s, w : s = call[p].s /\ w = (pc[p] = "w_intr") OBVIOUS
      <4>2. PICK u : u = [q \in Proc |-> IF (IF w THEN pc[q] = "w_asleep" ELSE pc[q] = "r_asleep") THEN EintrWakes(pc, s)[q] ELSE pc[q]]
        OBVIOUS
      <4>3. pc' = [u EXCEPT ![p] = "user"] /\ DOMAIN u = Proc BY <2>2, <4>1, <4>2 DEF Eintr, Leave
      <4> QED BY <4>3
    <3> QED BY <3>1, <3>2 DEF TypeOK
  <2> QED BY <2>1, <2>2
<1>4. \A p \in Proc : Sized(p)'
  <2> TAKE p \in Proc
  <2>1. Sized(p) BY DEF OneList
  <2>2. \/ pc'[p] = pc[p] /\ call'[p] = call[p]
        \/ pc'[p] = "w_woken" /\ pc[p] = "w_asleep" /\ call'[p] = call[p]
        \/ pc'[p] \in {"user", "polling", "r_again", "r_asleep", "r_woken", "r_intr", "r_next"}
    BY <1>2, <1>3 DEF Woken
  <2> QED BY <2>1, <2>2, SizedWoken
<1>5. \E M : OnList(run', M) BY <1>1 DEF OneList
<1> QED BY <1>1, <1>4, <1>5, OneListStep

(* A process moves. *)
LEMMA OneListProcess ==
    ASSUME TypeOK, Flow, HoldFree, OneList, opt' = opt, NEW p \in Proc, NEW s \in Stream,
           \/ \E n \in opt[s].sizes : Write(p, s, n)
           \/ WriteFull(p) \/ WriteMake(p) \/ WritePut(p) \/ WriteNext(p) \/ ReadNext(p) \/ Dispatch(p) \/ Signal(p)
           \/ Strread(p, s) \/ Strpoll(p, s)
    PROVE  OneList'
<1>1. Sized(p) /\ CallOK(p) /\ scan' = scan
  BY DEF OneList, Flow, sched, Write, WriteFull, WriteMake, WritePut, WriteNext, ReadNext,
     Dispatch, Signal, Strread, Strpoll
<1>2. \A o \in Proc \ {p} : pc'[o] = pc[o] /\ call'[o] = call[o]
  BY DEF Write, WriteFull, WriteMake, WritePut, WriteNext, ReadNext, Dispatch, Signal, Strread,
     Strpoll, Leave, TypeOK
<1>3. run \in RunType BY DEF TypeOK, RunType
<1>4. PICK L : OnList(run, L) BY DEF OneList
<1>5. CASE WritePut(p)
  <2>1. pc[p] = "w_made" /\ pc'[p] = "w_next" /\ call'[p].resid = call[p].resid
    BY <1>1, <1>5 DEF WritePut, In, TypeOK, Sized
  <2>2. Sized(p)' BY <1>1, <2>1 DEF Sized
  <2>3. \A o \in Proc : Sized(o)' BY <1>2, <2>2, SizedOthers
  <2>4. PICK t, m : t = call[p].s /\ m = call[p].m OBVIOUS
  <2>5. t \in Stream BY <1>1, <2>1, <2>4 DEF CallOK
  <2>6. held' = held
    <3>1. held' = [held EXCEPT ![t] = 0] /\ held[t] = 0 BY <1>5, <2>4, <2>5 DEF WritePut, OneList
    <3> QED BY <3>1 DEF TypeOK
  <2>7. RunStep
    <3>1. Iuoput(t, m) BY <1>5, <2>4 DEF WritePut
    <3>2. \E k : run' = QenableIf(k, QenableIf(Enables(dw[t]), run, <<t, "dw">>), <<t, "hw">>)
      BY <3>1 DEF Iuoput, Output, Backenable, Schedule
    <3>3. <<t, "hw">> \in Queue /\ <<t, "dw">> \in Queue BY <2>5 DEF Queue
    <3> QED BY <3>2, <3>3 DEF RunStep
  <2>8. \E M : OnList(run', M) BY <1>3, <1>4, <2>7, RunStepOnList
  <2> QED BY <1>1, <2>3, <2>6, <2>8, OneListStep
<1>6. CASE ~WritePut(p)
  <2>1. held' = held
    BY <1>6 DEF Write, WriteFull, WriteMake, WriteNext, ReadNext, Dispatch, Signal, Strread, Strpoll
  <2>2. RunStep
    <3>1. CASE Strread(p, s)
      <4>1. \E k : run' = QenableIf(k, run, <<s, "dr">>) BY <3>1 DEF Strread, Schedule
      <4>2. <<s, "dr">> \in Queue BY DEF Queue
      <4> QED BY <4>1, <4>2 DEF RunStep
    <3>2. CASE ~Strread(p, s)
      <4>1. run' = run
        BY <1>6, <3>2 DEF sched, Write, WriteFull, WriteMake, WriteNext, ReadNext, Dispatch,
           Signal, Strpoll
      <4> QED BY <4>1 DEF RunStep
    <3> QED BY <3>1, <3>2
  <2>3. \E M : OnList(run', M) BY <1>3, <1>4, <2>2, RunStepOnList
  <2>4. Sized(p)'
    <3>1. ASSUME NEW n \in opt[s].sizes, Write(p, s, n) PROVE Sized(p)'
      <4>1. pc'[p] = "w_canput" /\ call'[p].s = s /\ call'[p].resid = n BY <3>1 DEF Write, TypeOK
      <4> QED BY <4>1 DEF Sized
    <3>2. CASE WriteMake(p)
      <4>1. pc[p] = "w_canput" /\ pc'[p] = "w_made" BY <3>2 DEF WriteMake, In, TypeOK
      <4>2. call'[p].s = call[p].s /\ call'[p].m = call[p].resid /\ call'[p].resid = 0
        BY <3>2 DEF WriteMake, TypeOK
      <4> QED BY <1>1, <4>1, <4>2 DEF Sized
    <3>3. CASE WriteNext(p)
      <4>1. Leave(p, pc) BY <1>1, <3>3 DEF WriteNext, In, Sized
      <4>2. pc'[p] = "user" BY <4>1 DEF Leave, TypeOK
      <4> QED BY <1>1, <4>2, SizedWoken
    <3>4. CASE Dispatch(p)
      <4>1. pc'[p] = Again(p) /\ call' = call /\ pc[p] \in {"w_woken", "r_woken", "w_made"}
        BY <3>4 DEF Dispatch, TypeOK
      <4>2. CASE pc[p] = "w_woken"
        <5>1. pc'[p] = "w_canput" BY <4>1, <4>2 DEF Again
        <5> QED BY <1>1, <4>1, <4>2, <5>1, SizedWoken
      <4>3. CASE pc[p] = "r_woken"
        <5>1. pc'[p] = "r_again" BY <4>1, <4>3 DEF Again
        <5> QED BY <1>1, <5>1, SizedWoken
      <4>4. CASE pc[p] = "w_made"
        <5>1. pc'[p] = "w_made" BY <4>1, <4>4 DEF Again
        <5> QED BY <1>1, <4>1, <4>4, <5>1, SizedWoken
      <4> QED BY <4>1, <4>2, <4>3, <4>4
    <3>5. CASE Signal(p)
      <4>1. \/ pc'[p] = "w_intr" /\ pc[p] \in {"w_asleep", "w_woken"} /\ call'[p] = call[p]
            \/ pc'[p] = "r_intr"
        BY <3>5 DEF Signal, TypeOK
      <4> QED BY <1>1, <4>1, SizedWoken
    <3>6. CASE WriteFull(p)
      <4>1. pc'[p] = "user" \/ (pc'[p] = "w_asleep" /\ pc[p] = "w_canput" /\ call'[p] = call[p])
        BY <3>6 DEF WriteFull, In, Leave, TypeOK
      <4> QED BY <1>1, <4>1, SizedWoken
    <3>7. CASE ReadNext(p) \/ Strread(p, s) \/ Strpoll(p, s)
      <4>1. pc'[p] \in {"user", "r_next", "r_asleep", "polling"}
        BY <3>7 DEF ReadNext, Strread, Strpoll, Leave, TypeOK
      <4> QED BY <1>1, <4>1, SizedWoken
    <3> QED BY <1>6, <3>1, <3>2, <3>3, <3>4, <3>5, <3>6, <3>7
  <2>5. \A o \in Proc : Sized(o)' BY <1>2, <2>4, SizedOthers
  <2> QED BY <1>1, <2>1, <2>3, <2>5, OneListStep
<1> QED BY <1>5, <1>6

(* Every step. *)
LEMMA OneListNext ==
    ASSUME TypeOK, Flow, opt \in [Stream -> Settings], HoldFree, OneList, [Next]_vars PROVE OneList'
<1>1. opt' = opt BY OptSame
<1>2. ~QrScan BY DEF QrScan, OneList
<1>3. \A p \in Proc : ~WriteHeld(p)
  <2>1. SUFFICES ASSUME NEW p \in Proc, WriteHeld(p) PROVE FALSE OBVIOUS
  <2>2. CallOK(p) /\ pc[p] = "w_canput" /\ held[call[p].s] # 0 BY <2>1 DEF Flow, WriteHeld, In
  <2> QED BY <2>2 DEF CallOK, OneList
<1>4. \A p \in Proc : ~WriteHold(p)
  <2>1. SUFFICES ASSUME NEW p \in Proc, WriteHold(p) PROVE FALSE OBVIOUS
  <2>2. CallOK(p) /\ Sized(p) /\ pc[p] = "w_made" /\ Holds(p)
    BY <2>1 DEF Flow, OneList, WriteHold, In
  <2>3. PICK s, m : s = call[p].s /\ m = call[p].m OBVIOUS
  <2>4. s \in Stream /\ m \in opt[s].sizes BY <2>2, <2>3 DEF CallOK, Sized
  <2>5. NeverHolds(opt[s]) BY <2>4 DEF HoldFree
  <2>6. ~opt[s].strdelim /\ 2 * m <= BUF BY <2>2, <2>3 DEF Holds
  <2>7. m \in Nat /\ BUF \in Nat BY <2>4, StreamsAssumption, StreamTyped DEF Setting
  <2> QED BY <2>4, <2>5, <2>6, <2>7 DEF NeverHolds
<1>5. CASE \/ UNCHANGED vars \/ Kick \/ QrScanned \/ QrNext \/ QrDone \/ QrClear \/ Iuosrv \/ Strscan
           \/ (\E s \in Stream : Elapse(s) \/ Iuxint(s) \/ Iuscan(s))
           \/ (\E p \in Proc, s \in Stream : MStop(p, s) \/ MStart(p, s) \/ MFlush(p, s))
  BY <1>1, <1>5, OneListQueuerun
<1>6. CASE Strwsrv \/ Iuisrv \/ (\E p \in Proc : Eintr(p)) BY <1>1, <1>6, OneListWoken
<1>7. ASSUME NEW p \in Proc, NEW s \in Stream,
             \/ \E n \in opt[s].sizes : Write(p, s, n)
             \/ WriteFull(p) \/ WriteMake(p) \/ WritePut(p) \/ WriteNext(p) \/ ReadNext(p) \/ Dispatch(p) \/ Signal(p)
             \/ Strread(p, s) \/ Strpoll(p, s)
      PROVE  OneList'
  BY <1>1, <1>7, OneListProcess
<1>8. ASSUME NEW p \in Proc, WriteFull(p) \/ WriteMake(p) \/ WritePut(p) \/ WriteNext(p) \/ ReadNext(p) \/ Dispatch(p) \/ Signal(p)
      PROVE  OneList'
  <2>1. pc[p] # "user" /\ CallOK(p)
    BY <1>8 DEF Flow, WriteFull, WriteMake, WritePut, WriteNext, ReadNext, Dispatch, Signal, In
  <2>2. PICK s \in Stream : s = call[p].s BY <2>1 DEF CallOK
  <2> QED BY <1>7, <1>8
<1> QED BY <1>2, <1>3, <1>4, <1>5, <1>6, <1>7, <1>8, Steps

(***************************************************************************)
(* The only stream, which does not receive.                                *)
(***************************************************************************)
LEMMA OnlyQenable ==
    ASSUME NEW r \in RunType, NEW q \in Queue, Only(r, q), NEW k PROVE Only(QenableIf(k, r, q), q)
<1>1. CASE ~k \/ q \in r.enab
  <2>1. QenableIf(k, r, q) = r BY <1>1 DEF QenableIf, Qenable
  <2> QED BY <2>1
<1>2. CASE k /\ q \notin r.enab
  <2>0. r.enab = {} /\ r.qhead = NULL /\ r.qtail = NULL /\ \A x \in Queue : r.link[x] = NULL
    BY <1>2 DEF Only
  <2> DEFINE l == [x \in Queue |-> IF x = q THEN NULL ELSE IF x = r.qtail /\ r.qhead # NULL THEN q ELSE r.link[x]]
  <2>1. QenableIf(k, r, q) = [qhead |-> IF r.qhead = NULL THEN q ELSE r.qhead, qtail |-> q, link |-> l,
                              enab |-> r.enab \cup {q}]
    BY <1>2 DEF QenableIf, Qenable
  <2>2. \A x \in Queue : l[x] = NULL BY <2>0
  <2> HIDE DEF l
  <2>3. PICK t : t = QenableIf(k, r, q) OBVIOUS
  <2>4. t.qhead = q /\ t.qtail = q /\ t.link = l /\ t.enab = {q} BY <2>0, <2>1, <2>3
  <2>5. Only(t, q) BY <2>2, <2>4 DEF Only
  <2> QED BY <2>3, <2>5
<1> QED BY <1>1, <1>2

(* An empty list is anybody's. *)
LEMMA OnlyNone == ASSUME NEW r, NEW q, NEW x, Only(r, q), r.enab = {} PROVE Only(r, x)
BY DEF Only

(* A step that leaves the lists and the queues alone. *)
LEMMA ShortListsSame ==
    ASSUME NEW s \in Stream, ShortLists(s), UNCHANGED <<run, dw, dma, hr, scan>>,
           qr # OFF => qr' # OFF, qr' # <<s, "dr">>, held'[s] # 0 => held[s] # 0
    PROVE  ShortLists(s)'
BY DEF ShortLists, OutList, First, HeldList, Only

(* Such steps. *)
LEMMA ShortListsQuiet ==
    ASSUME TypeOK, Flow, NEW s \in Stream, Stream = {s}, ShortLists(s),
           \/ UNCHANGED vars \/ Kick \/ QrScanned \/ Strwsrv \/ QrClear \/ Iuosrv \/ Strscan \/ Elapse(s)
           \/ \E p \in Proc :
                 \/ \E n \in opt[s].sizes : Write(p, s, n)
                 \/ WriteHeld(p) \/ WriteMake(p) \/ WriteNext(p) \/ ReadNext(p)
                 \/ Dispatch(p) \/ Signal(p) \/ Eintr(p) \/ MStop(p, s)
    PROVE  ShortLists(s)'
<1>0. qr # <<s, "dr">> /\ <<s, "dr">> \in Queue BY StreamTyped DEF ShortLists
<1>1. UNCHANGED <<run, dw, dma, hr, scan>>
  BY DEF vars, dev, sched, Kick, QrScanned, Strwsrv, QrClear, Iuosrv, Strscan, Elapse, Write,
     WriteHeld, WriteMake, WriteNext,
     ReadNext, Dispatch, Signal, Eintr, MStop
<1>2. (qr # OFF => qr' # OFF) /\ qr' # <<s, "dr">>
  <2>1. CASE Strwsrv
    <3>1. qr \in Queue /\ qr' = <<qr[1], "clear">> BY <2>1 DEF Strwsrv, Serves
    <3>2. qr' \in Stream \X {"clear"} BY <3>1 DEF Queue
    <3> QED BY <1>0, <3>2, OffFacts
  <2>2. CASE Kick \/ QrScanned \/ QrClear \/ Iuosrv
    <3>1. qr' = SCAN \/ qr' = NEXT BY <2>2 DEF Kick, QrScanned, QrClear, Iuosrv
    <3> QED BY <1>0, <3>1, OffFacts
  <2>3. CASE qr' = qr BY <1>0, <2>3
  <2>4. Strwsrv \/ Kick \/ QrScanned \/ QrClear \/ Iuosrv \/ qr' = qr
    BY DEF vars, Strscan, Elapse, Write, WriteHeld, WriteMake, WriteNext, ReadNext, Dispatch,
       Signal, Eintr, MStop
  <2> QED BY <2>1, <2>2, <2>3, <2>4
<1>3. held'[s] # 0 => held[s] # 0
  <2>1. CASE held' = held BY <2>1
  <2>2. ASSUME NEW p \in Proc, WriteHeld(p) PROVE held'[s] # 0 => held[s] # 0
    <3>1. pc[p] = "w_canput" /\ CallOK(p) BY <2>2 DEF WriteHeld, In, Flow
    <3>2. call[p].s = s BY <3>1 DEF CallOK
    <3> QED BY <2>2, <3>2 DEF WriteHeld
  <2>3. held' = held \/ \E p \in Proc : WriteHeld(p)
    BY DEF vars, Kick, QrScanned, Strwsrv, QrClear, Iuosrv, Strscan, Elapse, Write, WriteMake,
       WriteNext,
       ReadNext, Dispatch, Signal, Eintr, MStop
  <2> QED BY <2>1, <2>2, <2>3
<1> QED BY <1>1, <1>2, <1>3, ShortListsSame

(* queuerun takes the queue off, or finds none. *)
LEMMA ShortListsQueuerun ==
    ASSUME TypeOK, Flow, NEW s \in Stream, Stream = {s}, ShortLists(s), QrNext \/ QrDone
    PROVE  ShortLists(s)'
<1>1. UNCHANGED <<dw, dma, hr, scan, held>> BY DEF QrNext, QrDone, dev
<1>2. Only(run, <<s, "hw">>) \/ Only(run, <<s, "dw">>) BY DEF ShortLists, OutList
<1>3. HeldList(s)' BY <1>1 DEF ShortLists, HeldList
<1>4. CASE QrDone
  <2>1. run' = run /\ run.enab = {} /\ qr' = OFF
    <3>1. run' = run /\ run.qhead = NULL /\ qr' = OFF BY <1>4 DEF QrDone
    <3>2. NULL # <<s, "hw">> /\ NULL # <<s, "dw">> BY StreamTyped, OffFacts
    <3> QED BY <1>2, <3>1, <3>2 DEF Only
  <2>2. Only(run, <<s, "hw">>) BY <1>2, <2>1, OnlyNone
  <2>3. OutList(s)' /\ First(s)' BY <1>1, <2>1, <2>2 DEF ShortLists, OutList, First, Only
  <2>4. qr' # <<s, "dr">> BY <2>1, StreamTyped, OffFacts
  <2> QED BY <1>1, <1>3, <2>3, <2>4 DEF ShortLists
<1>5. CASE QrNext
  <2>1. PICK h : h = run.qhead OBVIOUS
  <2>2. h # NULL /\ h \in Queue BY <1>5, <2>1 DEF QrNext, TypeOK
  <2>3. run.link[h] = NULL /\ run.enab = {h} /\ (h = <<s, "hw">> \/ h = <<s, "dw">>)
    BY <1>2, <2>1, <2>2 DEF Only
  <2>4. run' = [run EXCEPT !.qhead = NULL, !.qtail = NULL, !.enab = @ \ {h}] /\ qr' = h
    BY <1>5, <2>1, <2>3 DEF QrNext
  <2>5. run'.qhead = NULL /\ run'.qtail = NULL /\ run'.enab = {} /\ run'.link = run.link
    BY <2>3, <2>4 DEF TypeOK
  <2>6. OutList(s)' BY <1>2, <2>5 DEF OutList, Only
  <2>7. First(s)' BY <1>1, <2>5 DEF ShortLists, First
  <2>8. qr' # <<s, "dr">> BY <2>3, <2>4, QrFacts
  <2> QED BY <1>1, <1>3, <2>6, <2>7, <2>8 DEF ShortLists
<1> QED BY <1>4, <1>5

(* Output: the head may be enabled, if somebody was refused. *)
LEMMA ShortListsMoved ==
    ASSUME TypeOK, Flow, NEW s \in Stream, Stream = {s}, ShortLists(s),
           Iuxint(s) \/ (\E p \in Proc : MStart(p, s) \/ MFlush(p, s))
    PROVE  ShortLists(s)'
<1>0. QueueOK(dw[s], BUF) /\ BUF \in Nat /\ ttstop[s] \in BOOLEAN /\ run \in RunType /\ 0 \in 0 .. BUF
      /\ dma[s] \in 0 .. BUF /\ <<s, "hw">> \in Queue
  <2>1. QueueOK(dw[s], BUF) BY DEF Flow, OutOK
  <2>2. ttstop[s] \in BOOLEAN /\ run \in RunType /\ dma[s] \in 0 .. BUF /\ <<s, "hw">> \in Queue
    BY StreamTyped
  <2>3. BUF \in Nat /\ 0 \in 0 .. BUF BY StreamsAssumption
  <2> QED BY <2>1, <2>2, <2>3
<1>1. UNCHANGED <<hr, scan, held, qr>> BY DEF Iuxint, MStart, MFlush
<1>2. \E k : /\ run' = QenableIf(k, run, <<s, "hw">>) /\ (k => "QWANTW" \in dw[s].flag)
             /\ "QWANTW" \in dw'[s].flag => "QWANTW" \in dw[s].flag
             /\ "QWANTR" \in dw'[s].flag => /\ "QWANTR" \in dw[s].flag /\ dw'[s].msgs = << >> /\ dma'[s] = 0
  <2>1. CASE Iuxint(s)
    <3>1. Output(s, dw[s], 0, ttstop[s], run) /\ dma[s] # 0 BY <2>1 DEF Iuxint
    <3>2. Moved(s, dw[s], 0, ttstop[s], run) BY <1>0, <3>1, OutputFacts
    <3>3. "QWANTR" \notin dw'[s].flag BY <3>1, <3>2 DEF Moved, ShortLists, First
    <3> QED BY <3>2, <3>3 DEF Moved
  <2>2. ASSUME NEW p \in Proc, MStart(p, s)
        PROVE  \E k : /\ run' = QenableIf(k, run, <<s, "hw">>) /\ (k => "QWANTW" \in dw[s].flag)
                      /\ "QWANTW" \in dw'[s].flag => "QWANTW" \in dw[s].flag
                      /\ "QWANTR" \in dw'[s].flag => /\ "QWANTR" \in dw[s].flag /\ dw'[s].msgs = << >> /\ dma'[s] = 0
    <3>1. Output(s, dw[s], dma[s], FALSE, run) BY <2>2 DEF MStart
    <3>2. Moved(s, dw[s], dma[s], FALSE, run) BY <1>0, <3>1, OutputFacts
    <3>3. "QWANTR" \in dw'[s].flag => "QWANTR" \in dw[s].flag /\ dw'[s].msgs = << >> /\ dma'[s] = 0
      BY <3>2 DEF Moved, ShortLists, First
    <3> QED BY <3>2, <3>3 DEF Moved
  <2>3. ASSUME NEW p \in Proc, MFlush(p, s)
        PROVE  \E k : /\ run' = QenableIf(k, run, <<s, "hw">>) /\ (k => "QWANTW" \in dw[s].flag)
                      /\ "QWANTW" \in dw'[s].flag => "QWANTW" \in dw[s].flag
                      /\ "QWANTR" \in dw'[s].flag => /\ "QWANTR" \in dw[s].flag /\ dw'[s].msgs = << >> /\ dma'[s] = 0
    <3>1. PICK f : f = Flushq(dw[s]) OBVIOUS
    <3>2. /\ dw' = [dw EXCEPT ![s] = f.q] /\ dw[s].msgs # << >>
          /\ run' = QenableIf(f.back, run, <<s, "hw">>)
      BY <2>3, <3>1 DEF MFlush, Backenable, Schedule
    <3>3. /\ (f.back <=> "QWANTW" \in dw[s].flag) /\ "QWANTW" \notin f.q.flag
          /\ ("QWANTR" \in f.q.flag <=> "QWANTR" \in dw[s].flag)
      BY <1>0, <3>1, FlushqFacts
    <3>4. dw'[s] = f.q BY <3>2 DEF TypeOK
    <3>5. "QWANTR" \notin dw[s].flag BY <3>2 DEF ShortLists, First
    <3> QED BY <3>2, <3>3, <3>4, <3>5
  <2> QED BY <2>1, <2>2, <2>3
<1>3. PICK k : /\ run' = QenableIf(k, run, <<s, "hw">>) /\ (k => "QWANTW" \in dw[s].flag)
               /\ "QWANTW" \in dw'[s].flag => "QWANTW" \in dw[s].flag
               /\ "QWANTR" \in dw'[s].flag => /\ "QWANTR" \in dw[s].flag /\ dw'[s].msgs = << >> /\ dma'[s] = 0
  BY <1>2
<1>4. ~k => run' = run BY <1>3 DEF QenableIf
<1>5. OutList(s)'
  <2>1. CASE Only(run, <<s, "hw">>)
    <3>1. Only(run', <<s, "hw">>) BY <1>0, <1>3, <2>1, OnlyQenable
    <3> QED BY <3>1 DEF OutList, Only
  <2>2. CASE ~Only(run, <<s, "hw">>)
    <3>1. Only(run, <<s, "dw">>) /\ qr # OFF /\ "QWANTW" \notin dw[s].flag
      BY <2>2 DEF ShortLists, OutList
    <3> QED BY <1>1, <1>3, <1>4, <3>1 DEF OutList, Only
  <2> QED BY <2>1, <2>2
<1>6. First(s)'
  <2>1. SUFFICES ASSUME "QWANTR" \in dw'[s].flag
                 PROVE  /\ dw'[s].msgs = << >> /\ dma'[s] = 0 /\ run'.enab = {}
                        /\ "QWANTW" \notin dw'[s].flag
    BY DEF First
  <2>2. "QWANTR" \in dw[s].flag /\ dw'[s].msgs = << >> /\ dma'[s] = 0 BY <1>3, <2>1
  <2>3. run.enab = {} /\ "QWANTW" \notin dw[s].flag BY <2>2 DEF ShortLists, First
  <2> QED BY <1>3, <1>4, <2>2, <2>3
<1>7. HeldList(s)' BY <1>1 DEF ShortLists, HeldList
<1> QED BY <1>1, <1>5, <1>6, <1>7 DEF ShortLists

(* A message is put on the driver's queue. *)
LEMMA ShortListsPut ==
    ASSUME TypeOK, Flow, NEW s \in Stream, Stream = {s}, ShortLists(s), NEW m \in 1 .. BUF, Iuoput(s, m),
           hr' = hr, qr = OFF \/ qr' # OFF, run'.enab # run.enab => qr' # OFF, qr' # <<s, "dr">>, HeldList(s)'
    PROVE  ShortLists(s)'
<1>0. OutOK(s) /\ run \in RunType /\ <<s, "hw">> \in Queue /\ <<s, "dw">> \in Queue
  BY StreamTyped DEF Flow
<1>1. PICK k, l \in BOOLEAN :
                 /\ run' = QenableIf(k, QenableIf(l, run, <<s, "dw">>), <<s, "hw">>)
                 /\ (k => "QWANTW" \in dw[s].flag) /\ (l => "QWANTR" \in dw[s].flag)
                 /\ "QWANTW" \in dw'[s].flag => "QWANTW" \in dw[s].flag
  BY <1>0, IuoputFacts
<1>2. "QWANTR" \in dw'[s].flag => dma[s] # 0 /\ "QWANTR" \in dw[s].flag BY <1>0, IuoputFacts
<1>3. First(s)' BY <1>2 DEF ShortLists, First
<1>4. OutList(s)'
  <2>1. CASE "QWANTR" \in dw[s].flag
    <3>1. run.enab = {} /\ "QWANTW" \notin dw[s].flag BY <2>1 DEF ShortLists, First
    <3>2. run' = QenableIf(l, run, <<s, "dw">>) BY <1>1, <3>1 DEF QenableIf
    <3>3. Only(run, <<s, "dw">>) BY <3>1, OnlyNone DEF ShortLists, OutList
    <3>4. Only(run', <<s, "dw">>) BY <1>0, <3>2, <3>3, OnlyQenable
    <3>5. CASE run'.enab = {}
      <4>1. Only(run', <<s, "hw">>) BY <3>4, <3>5, OnlyNone
      <4> QED BY <4>1 DEF OutList, Only
    <3>6. CASE run'.enab # {} BY <1>1, <3>1, <3>4, <3>6 DEF OutList, Only
    <3> QED BY <3>5, <3>6
  <2>2. CASE "QWANTR" \notin dw[s].flag
    <3>1. run' = QenableIf(k, run, <<s, "hw">>) BY <1>1, <2>2 DEF QenableIf
    <3>2. CASE Only(run, <<s, "hw">>)
      <4>1. Only(run', <<s, "hw">>) BY <1>0, <3>1, <3>2, OnlyQenable
      <4> QED BY <4>1 DEF OutList, Only
    <3>3. CASE ~Only(run, <<s, "hw">>)
      <4>1. Only(run, <<s, "dw">>) /\ qr # OFF /\ "QWANTW" \notin dw[s].flag
        BY <3>3 DEF ShortLists, OutList
      <4>2. run' = run BY <1>1, <3>1, <4>1 DEF QenableIf
      <4> QED BY <1>1, <4>1, <4>2 DEF OutList, Only
    <3> QED BY <3>2, <3>3
  <2> QED BY <2>1, <2>2
<1> QED BY <1>3, <1>4 DEF ShortLists

(* ... by strwrite. *)
LEMMA ShortListsWrite ==
    ASSUME TypeOK, Flow, NEW s \in Stream, Stream = {s}, ShortLists(s), NEW p \in Proc, WritePut(p)
    PROVE  ShortLists(s)'
<1>1. pc[p] \in {"w_made", "w_put"} /\ qr = OFF BY DEF WritePut, In
<1>2. CallOK(p) BY DEF Flow
<1>3. call[p].s = s /\ 0 < call[p].m BY <1>1, <1>2 DEF CallOK
<1>4. call[p].m \in 1 .. BUF
  <2>1. PICK m : m = call[p].m OBVIOUS
  <2>2. m \in 0 .. BUF /\ 0 < m /\ BUF \in Nat BY <1>3, <2>1, ProcTyped, StreamsAssumption
  <2>3. m \in 1 .. BUF BY <2>2
  <2> QED BY <2>1, <2>3
<1>5. Iuoput(s, call[p].m) /\ hr' = hr /\ scan' = scan /\ qr' = (IF qrunflag' THEN SCAN ELSE OFF)
      /\ held' = [held EXCEPT ![s] = 0]
  BY <1>3 DEF WritePut
<1>6. qrunflag' = (qrunflag \/ run'.enab # run.enab)
  BY <1>5 DEF Iuoput, Output, Backenable, Schedule
<1>7. run'.enab # run.enab => qr' # OFF BY <1>5, <1>6, OffFacts
<1>8. qr' # <<s, "dr">> BY <1>5, OffFacts, StreamTyped
<1>9. HeldList(s)'
  <2>1. held'[s] = 0 BY <1>5 DEF TypeOK
  <2> QED BY <1>5, <2>1 DEF ShortLists, HeldList
<1> QED BY <1>1, <1>4, <1>5, <1>7, <1>8, <1>9, ShortListsPut

(* ... by queuerun, from the list of held messages. *)
LEMMA ShortListsScan ==
    ASSUME TypeOK, Flow, NEW s \in Stream, Stream = {s}, ShortLists(s), QrScan PROVE ShortLists(s)'
<1>1. scan.head # NULL /\ qr = SCAN /\ qr' = qr BY DEF QrScan
<1>2. scan.head = <<s, "hw">> /\ scan.hlist = {s} BY <1>1 DEF ShortLists, HeldList
<1>3. run.link[<<s, "hw">>] = NULL
  <2>1. <<s, "hw">> \in Queue BY StreamTyped
  <2> QED BY <2>1 DEF ShortLists, OutList, Only
<1>4. PICK q : q = scan.head OBVIOUS
<1>5. q[1] = s /\ run.link[q] = NULL BY <1>2, <1>3, <1>4
<1>6. /\ scan' = [head |-> NULL, tail |-> NULL, hlist |-> {s} \ {s}] /\ held' = [held EXCEPT ![s] = 0]
      /\ (IF held[s] # 0 THEN Iuoput(s, held[s]) ELSE UNCHANGED <<dw, dma, run, qrunflag, back>>)
      /\ hr' = hr
  BY <1>2, <1>4, <1>5 DEF QrScan
<1>7. HeldList(s)'
  <2>1. held'[s] = 0 /\ scan'.head = NULL /\ scan'.tail = NULL /\ scan'.hlist = {}
    BY <1>6 DEF TypeOK
  <2> QED BY <2>1 DEF HeldList
<1>8. qr' # OFF /\ qr' # <<s, "dr">> BY <1>1, OffFacts, StreamTyped
<1>9. CASE held[s] # 0
  <2>1. held[s] \in 1 .. BUF
    <3>1. held[s] \in 0 .. BUF BY StreamTyped
    <3> QED BY <1>9, <3>1, StreamsAssumption
  <2> QED BY <1>6, <1>7, <1>8, <1>9, <2>1, ShortListsPut
<1>10. CASE held[s] = 0
  <2>1. UNCHANGED <<dw, dma, run, hr>> BY <1>6, <1>10
  <2> QED BY <1>7, <1>8, <2>1 DEF ShortLists, OutList, First, Only
<1> QED BY <1>9, <1>10

(* A writer or a poller is refused: the queue is full, so no first message *)
(* is expected, and queuerun is not at work.                               *)
LEMMA ShortListsRefused ==
    ASSUME TypeOK, Flow, NEW s \in Stream, Stream = {s}, ShortLists(s), NEW p \in Proc, WriteFull(p) \/ Strpoll(p, s)
    PROVE  ShortLists(s)'
<1>1. ~Canput(dw[s]) /\ dw' = [dw EXCEPT ![s] = Refused(dw[s])] /\ qr = OFF /\ qr' = qr
  <2>1. CASE WriteFull(p)
    <3>1. pc[p] = "w_canput" /\ CallOK(p) BY <2>1 DEF WriteFull, In, Flow
    <3>2. call[p].s = s BY <3>1 DEF CallOK
    <3> QED BY <2>1, <3>2 DEF WriteFull, In
  <2>2. CASE Strpoll(p, s) BY <2>2 DEF Strpoll
  <2> QED BY <2>1, <2>2
<1>2. UNCHANGED <<hr, dma, held, scan, run>> BY DEF WriteFull, Strpoll, sched
<1>3. QueueOK(dw[s], BUF) /\ BUF \in Nat BY StreamsAssumption DEF Flow, OutOK
<1>4. dw[s].msgs # << >>
  <2>1. dw[s].msgs = << >> => Count(dw[s]) = 0 BY <1>3, QueueTyped
  <2>2. Canput(dw[s]) <=> Count(dw[s]) < HIWAT BY <1>3, QueueTyped
  <2>3. 0 < HIWAT BY StreamsAssumption
  <2> QED BY <1>1, <2>1, <2>2, <2>3
<1>5. dw'[s] = Refused(dw[s]) BY <1>1 DEF TypeOK
<1>6. "QWANTR" \notin dw[s].flag BY <1>4 DEF ShortLists, First
<1>7. "QWANTR" \notin dw'[s].flag BY <1>3, <1>5, <1>6, RefusedFacts
<1>8. Only(run, <<s, "hw">>) BY <1>1 DEF ShortLists, OutList
<1>9. OutList(s)' BY <1>2, <1>8 DEF OutList, Only
<1>10. First(s)' BY <1>7 DEF First
<1>11. HeldList(s)' BY <1>2 DEF ShortLists, HeldList
<1> QED BY <1>1, <1>2, <1>9, <1>10, <1>11 DEF ShortLists

(* Nothing enables the driver's read queue. *)
LEMMA ShortListsRead ==
    ASSUME TypeOK, Flow, NEW s \in Stream, Stream = {s}, ShortLists(s), NEW p \in Proc, Strread(p, s)
    PROVE  ShortLists(s)'
<1>1. PICK g : g = Getq(hr[s]) OBVIOUS
<1>2. QueueOK(hr[s], 1) /\ 1 \in Nat /\ "QWANTW" \notin hr[s].flag BY DEF Flow, InOK, ShortLists
<1>3. ~g.back /\ "QWANTW" \notin g.q.flag BY <1>1, <1>2, GetqFacts
<1>4. hr' = [hr EXCEPT ![s] = g.q] /\ run' = QenableIf(g.back, run, <<s, "dr">>) /\ qr = OFF
      /\ qr' \in {SCAN, OFF, qr} /\ UNCHANGED <<dw, dma, held, scan>>
  BY <1>1 DEF Strread, Schedule
<1>5. run' = run BY <1>3, <1>4 DEF QenableIf
<1>6. "QWANTW" \notin hr'[s].flag BY <1>3, <1>4 DEF TypeOK
<1>7. qr' # <<s, "dr">> BY <1>4, OffFacts, StreamTyped
<1> QED BY <1>4, <1>5, <1>6, <1>7 DEF ShortLists, OutList, First, HeldList, Only

(* A message is held back. *)
LEMMA ShortListsHold ==
    ASSUME TypeOK, Flow, NEW s \in Stream, Stream = {s}, ShortLists(s), NEW p \in Proc, WriteHold(p)
    PROVE  ShortLists(s)'
<1>1. pc[p] = "w_made" /\ CallOK(p) /\ Hold(p) /\ UNCHANGED <<dw, dma, hr, qr>>
  BY DEF WriteHold, In, Flow, dev
<1>2. call[p].s = s BY <1>1 DEF CallOK
<1>3. PICK q : q = <<s, "hw">> OBVIOUS
<1>4. q \in Queue /\ q # NULL BY <1>3, StreamTyped, OffFacts
<1>5. CASE s \in scan.hlist
  <2>1. scan' = scan /\ run' = run BY <1>1, <1>2, <1>5 DEF Hold
  <2> QED BY <1>1, <1>5, <2>1 DEF ShortLists, OutList, First, HeldList, Only
<1>6. CASE s \notin scan.hlist
  <2>1. scan.hlist = {} /\ scan.head = NULL BY <1>6 DEF ShortLists, HeldList
  <2> DEFINE l == [x \in Queue |-> IF x = q THEN NULL ELSE IF x = scan.tail /\ scan.head # NULL THEN q ELSE run.link[x]]
  <2>2. scan' = [head |-> q, tail |-> q, hlist |-> {} \cup {s}] /\ run' = [run EXCEPT !.link = l]
    BY <1>1, <1>2, <1>3, <1>6, <2>1 DEF Hold
  <2>3. \A x \in Queue : run.link[x] = NULL BY DEF ShortLists, OutList, Only
  <2>4. \A x \in Queue : l[x] = NULL BY <2>1, <2>3
  <2> HIDE DEF l
  <2>5. run'.link = l /\ run'.enab = run.enab /\ run'.qhead = run.qhead /\ run'.qtail = run.qtail
    BY <2>2 DEF TypeOK
  <2>6. HeldList(s)'
    <3>1. scan'.head = q /\ scan'.tail = q /\ scan'.hlist = {s} BY <2>2
    <3> QED BY <1>3, <3>1 DEF HeldList
  <2>7. OutList(s)' BY <1>1, <2>4, <2>5 DEF ShortLists, OutList, Only
  <2>8. First(s)' BY <1>1, <2>5 DEF ShortLists, First
  <2> QED BY <1>1, <2>6, <2>7, <2>8 DEF ShortLists
<1> QED BY <1>5, <1>6

(* Every step. *)
LEMMA ShortListsNext ==
    ASSUME TypeOK, Flow, NEW s \in Stream, Lone(s), ShortLists(s), [Next]_vars PROVE ShortLists(s)'
<1>0. Stream = {s} /\ ~opt[s].cread BY DEF Lone
<1>1. ~Iuscan(s) BY <1>0 DEF Iuscan
<1>2. ~Iuisrv
  <2>1. SUFFICES ASSUME Iuisrv PROVE FALSE OBVIOUS
  <2>2. qr \in Queue /\ qr[2] = "dr" BY <2>1 DEF Iuisrv, Serves
  <2>3. qr = <<s, "dr">> BY <1>0, <2>2 DEF Queue
  <2> QED BY <2>3 DEF ShortLists
<1>3. CASE \/ UNCHANGED vars \/ Kick \/ QrScanned \/ Strwsrv \/ QrClear \/ Iuosrv \/ Strscan \/ Elapse(s)
           \/ \E p \in Proc :
                 \/ \E n \in opt[s].sizes : Write(p, s, n)
                 \/ WriteHeld(p) \/ WriteMake(p) \/ WriteNext(p) \/ ReadNext(p)
                 \/ Dispatch(p) \/ Signal(p) \/ Eintr(p) \/ MStop(p, s)
  BY <1>0, <1>3, ShortListsQuiet
<1>4. CASE QrNext \/ QrDone BY <1>0, <1>4, ShortListsQueuerun
<1>5. CASE Iuxint(s) \/ (\E p \in Proc : MStart(p, s) \/ MFlush(p, s))
  BY <1>0, <1>5, ShortListsMoved
<1>6. CASE QrScan BY <1>0, <1>6, ShortListsScan
<1>7. ASSUME NEW p \in Proc, WriteFull(p) \/ Strpoll(p, s) PROVE ShortLists(s)'
  BY <1>0, <1>7, ShortListsRefused
<1>8. ASSUME NEW p \in Proc, Strread(p, s) PROVE ShortLists(s)' BY <1>0, <1>8, ShortListsRead
<1>9. ASSUME NEW p \in Proc, WriteHold(p) PROVE ShortLists(s)' BY <1>0, <1>9, ShortListsHold
<1>10. ASSUME NEW p \in Proc, WritePut(p) PROVE ShortLists(s)' BY <1>0, <1>10, ShortListsWrite
<1>11. CASE Next
  <2>1. \A t \in Stream : t = s BY <1>0
  <2> QED BY <1>1, <1>2, <1>3, <1>4, <1>5, <1>6, <1>7, <1>8, <1>9, <1>10, <1>11, <2>1, Steps
<1> QED BY <1>3, <1>11

(* What the settings must be for the two lists to stay apart: no write is  *)
(* held back, or there is one stream and it does not receive.              *)
Unshared ==
    \A o \in Settings : NeverHolds(o) \/ (~o.cread /\ \A s, t \in Stream : s = t)

(* Whether the streams are of the one kind or the other does not change. *)
LEMMA KindSame == ASSUME opt' = opt PROVE (HoldFree <=> HoldFree') /\ \A s : Lone(s) <=> Lone(s)'
BY DEF HoldFree, Lone

(* With such settings the streams are of one of the two kinds. *)
LEMMA UnsharedKinds ==
    ASSUME Unshared, opt \in [Stream -> Settings] PROVE HoldFree \/ \E s \in Stream : Lone(s)
<1> SUFFICES ASSUME ~HoldFree PROVE \E s \in Stream : Lone(s) OBVIOUS
<1>1. PICK s \in Stream : ~NeverHolds(opt[s]) BY DEF HoldFree
<1>2. opt[s] \in Settings OBVIOUS
<1>3. ~opt[s].cread /\ \A t \in Stream : t = s BY <1>1, <1>2 DEF Unshared
<1>4. Stream = {s} BY <1>3
<1> QED BY <1>3, <1>4 DEF Lone

(* Nothing is on an empty list. *)
LEMMA NoneOf == ASSUME NEW L \in Seq(Queue), L = << >> PROVE ToSet(L) = {}
<1>1. \A x \in ToSet(L) : \E i \in 1 .. Len(L) : L[i] = x BY MemberIff
<1>2. Len(L) = 0 OBVIOUS
<1> QED BY <1>1, <1>2

(* The first state. *)
LEMMA LinkedInit == ASSUME Init PROVE Linked
<1>1. /\ run = [qhead |-> NULL, qtail |-> NULL, link |-> [q \in Queue |-> NULL], enab |-> {}]
      /\ scan = [head |-> NULL, tail |-> NULL, hlist |-> {}] /\ qr = OFF /\ qrunflag = FALSE
      /\ held = [s \in Stream |-> 0] /\ pc = [p \in Proc |-> "user"]
      /\ dw = [s \in Stream |-> NewQueue] /\ hr = [s \in Stream |-> NewQueue]
      /\ dma = [s \in Stream |-> 0]
  BY DEF Init
<1>2. run.qhead = NULL /\ run.qtail = NULL /\ run.enab = {} /\ \A q \in Queue : run.link[q] = NULL
  BY <1>1
<1>3. scan.head = NULL /\ scan.tail = NULL /\ scan.hlist = {} BY <1>1
<1>4. OneList
  <2>1. \A p \in Proc : Sized(p) BY <1>1 DEF Sized
  <2>2. PICK L : L = << >> OBVIOUS
  <2>3. L \in Seq(Queue) /\ Len(L) = 0 BY <2>2
  <2>4. IsInjective(L) BY <2>3 DEF IsInjective
  <2>5. ToSet(L) = {} BY <2>2, <2>3, NoneOf
  <2>6. OnList(run, L) BY <1>2, <2>2, <2>3, <2>4, <2>5 DEF OnList
  <2> QED BY <1>1, <2>1, <2>6 DEF OneList
<1>5. ASSUME NEW s \in Stream PROVE ShortLists(s)
  <2>1. Only(run, <<s, "hw">>) BY <1>2 DEF Only
  <2>2. dw[s].flag = {"QWANTR"} /\ hr[s].flag = {"QWANTR"} /\ dw[s].msgs = << >> /\ dma[s] = 0 /\ held[s] = 0
    BY <1>1 DEF NewQueue
  <2>3. qr # <<s, "dr">>
    <3>1. <<s, "dr">> \in Queue BY DEF Queue
    <3> QED BY <1>1, <3>1, OffFacts
  <2>4. OutList(s) BY <2>1 DEF OutList
  <2>5. First(s) BY <1>2, <2>2 DEF First
  <2>6. HeldList(s) BY <1>3, <2>2 DEF HeldList
  <2> QED BY <2>2, <2>3, <2>4, <2>5, <2>6 DEF ShortLists
<1>6. Called BY <1>2, <1>3 DEF Called
<1> QED BY <1>4, <1>5, <1>6 DEF Linked

(* A whole list that has no head is empty. *)
LEMMA OneListHeaded == ASSUME OneList PROVE Headed
<1>1. PICK L : OnList(run, L) BY DEF OneList
<1>2. L \in Seq(Queue) /\ ToSet(L) = run.enab /\ run.qhead = (IF L = << >> THEN NULL ELSE L[1])
  BY <1>1 DEF OnList
<1>3. CASE L = << >>
  <2>1. ToSet(L) = {} BY <1>2, <1>3, NoneOf
  <2> QED BY <1>2, <2>1 DEF Headed, OneList
<1>4. CASE L # << >>
  <2>1. L[1] \in Queue BY <1>2, <1>4
  <2>2. run.qhead # NULL BY <1>2, <1>4, <2>1, OffFacts
  <2> QED BY <2>2 DEF Headed, OneList
<1> QED BY <1>3, <1>4

(* So is a short one. *)
LEMMA ShortListsHeaded == ASSUME NEW s \in Stream, ShortLists(s) PROVE Headed
<1>1. <<s, "hw">> # NULL /\ <<s, "dw">> # NULL
  <2>1. <<s, "hw">> \in Queue /\ <<s, "dw">> \in Queue BY DEF Queue
  <2> QED BY <2>1, OffFacts
<1>2. run.qhead = NULL => run.enab = {} BY <1>1 DEF ShortLists, OutList, Only
<1>3. scan.head = NULL => scan.hlist = {} BY <1>1 DEF ShortLists, HeldList
<1> QED BY <1>2, <1>3 DEF Headed

(* Every step keeps the lists linked. *)
LEMMA LinkedNext ==
    ASSUME TypeOK, Flow, opt \in [Stream -> Settings], Linked, [Next]_vars PROVE Linked'
<1>1. opt' = opt BY OptSame
<1>2. (HoldFree <=> HoldFree') /\ \A s : Lone(s) <=> Lone(s)' BY <1>1, KindSame
<1>3. HoldFree => OneList' BY OneListNext DEF Linked
<1>4. \A s \in Stream : Lone(s) => ShortLists(s)' BY ShortListsNext DEF Linked
<1>5. HoldFree \/ (\E s \in Stream : Lone(s)) => Called'
  <2>1. SUFFICES ASSUME HoldFree \/ (\E s \in Stream : Lone(s)) PROVE Called' OBVIOUS
  <2>2. Called BY <2>1 DEF Linked
  <2>3. Headed
    <3>1. CASE HoldFree BY <3>1, OneListHeaded DEF Linked
    <3>2. ASSUME NEW s \in Stream, Lone(s) PROVE Headed BY <3>2, ShortListsHeaded DEF Linked
    <3> QED BY <2>1, <3>1, <3>2
  <2> QED BY <2>2, <2>3, CalledNext
<1> QED BY <1>2, <1>3, <1>4, <1>5 DEF Linked

(* A list of at most one queue. *)
LEMMA OnlyLists ==
    ASSUME NEW q \in Queue, NEW h, NEW t, NEW S,
           \/ S = {} /\ h = NULL /\ t = NULL
           \/ S = {q} /\ h = q /\ t = q /\ run.link[q] = NULL
    PROVE  Lists(h, t, S)
<1>1. PICK r : r = [qhead |-> h, qtail |-> t, link |-> run.link, enab |-> S] OBVIOUS
<1>2. r.qhead = h /\ r.qtail = t /\ r.link = run.link /\ r.enab = S BY <1>1
<1>3. \E L : OnList(r, L)
  <2>1. CASE S = {} /\ h = NULL /\ t = NULL
    <3>2. PICK L : L = << >> OBVIOUS
    <3>3. L \in Seq(Queue) /\ Len(L) = 0 BY <3>2
    <3>4. IsInjective(L) BY <3>3 DEF IsInjective
    <3>5. ToSet(L) = {} BY <3>2, <3>3, NoneOf
    <3>6. OnList(r, L) BY <1>2, <2>1, <3>2, <3>3, <3>4, <3>5 DEF OnList
    <3> QED BY <3>6
  <2>2. CASE S = {q} /\ h = q /\ t = q /\ run.link[q] = NULL
    <3>2. PICK L : L = <<q>> OBVIOUS
    <3>3. L \in Seq(Queue) /\ Len(L) = 1 /\ L[1] = q /\ L # << >> BY <3>2
    <3>4. IsInjective(L) BY <3>3 DEF IsInjective
    <3>5. ToSet(L) = {q} BY <3>3, MemberIff
    <3>6. \A i \in 1 .. Len(L) : r.link[L[i]] = IF i = Len(L) THEN NULL ELSE L[i + 1]
      <4>1. \A i \in 1 .. Len(L) : i = 1 BY <3>3
      <4> QED BY <1>2, <2>2, <3>3, <4>1
    <3>7. OnList(r, L) BY <1>2, <2>2, <3>3, <3>4, <3>5, <3>6 DEF OnList
    <3> QED BY <3>7
  <2> QED BY <2>1, <2>2
<1>4. Lists(r.qhead, r.qtail, r.enab) BY <1>2, <1>3, OnListLists
<1> QED BY <1>2, <1>4

(* Linked lists are what RunListSound and HeldListed ask for. *)
LEMMA LinkedSound ==
    ASSUME TypeOK, Linked, HoldFree \/ (\E s \in Stream : Lone(s)) PROVE RunListSound /\ HeldListed
<1>0. Called BY DEF Linked
<1>1. CASE HoldFree
  <2>1. OneList BY <1>1 DEF Linked
  <2>2. PICK L : OnList(run, L) BY <2>1 DEF OneList
  <2>3. Lists(run.qhead, run.qtail, run.enab) BY <2>2, OnListLists
  <2>4. RunListSound BY <1>0, <2>3 DEF RunListSound, Called
  <2>5. scan.head = NULL /\ scan.tail = NULL /\ scan.hlist = {} /\ \A s \in Stream : held[s] = 0
    BY <2>1 DEF OneList
  <2>6. Lists(scan.head, scan.tail, {<<s, "hw">> : s \in scan.hlist})
    <3>1. CASE \E q : q \in Queue
      <4>1. {<<s, "hw">> : s \in scan.hlist} = {} BY <2>5
      <4> QED BY <2>5, <3>1, <4>1, OnlyLists
    <3>2. CASE ~\E q : q \in Queue
      <4>1. run.enab = {} /\ run.qhead = NULL /\ run.qtail = NULL BY <3>2 DEF TypeOK
      <4>2. {<<s, "hw">> : s \in scan.hlist} = {} BY <2>5
      <4> QED BY <2>3, <2>5, <4>1, <4>2
    <3> QED BY <3>1, <3>2
  <2>7. HeldListed BY <1>0, <2>5, <2>6 DEF HeldListed, Called
  <2> QED BY <2>4, <2>7
<1>2. ASSUME NEW s \in Stream, Lone(s) PROVE RunListSound /\ HeldListed
  <2>1. ShortLists(s) BY <1>2 DEF Linked
  <2>2. <<s, "hw">> \in Queue /\ <<s, "dw">> \in Queue BY DEF Queue
  <2>3. Only(run, <<s, "hw">>) \/ Only(run, <<s, "dw">>) BY <2>1 DEF ShortLists, OutList
  <2>4. \A x \in Queue : run.link[x] = NULL BY <2>3 DEF Only
  <2>5. Lists(run.qhead, run.qtail, run.enab)
    <3>1. ASSUME NEW q \in Queue, Only(run, q) PROVE Lists(run.qhead, run.qtail, run.enab)
      BY <2>4, <3>1, OnlyLists DEF Only
    <3> QED BY <2>2, <2>3, <3>1
  <2>6. RunListSound BY <1>0, <2>5 DEF RunListSound, Called
  <2>7. Lists(scan.head, scan.tail, {<<t, "hw">> : t \in scan.hlist})
    <3>1. CASE scan.hlist = {} /\ scan.head = NULL /\ scan.tail = NULL
      <4>1. {<<t, "hw">> : t \in scan.hlist} = {} BY <3>1
      <4> QED BY <2>2, <3>1, <4>1, OnlyLists
    <3>2. CASE scan.hlist = {s} /\ scan.head = <<s, "hw">> /\ scan.tail = <<s, "hw">>
      <4>1. {<<t, "hw">> : t \in scan.hlist} = {<<s, "hw">>} BY <3>2
      <4> QED BY <2>2, <2>4, <3>2, <4>1, OnlyLists
    <3> QED BY <2>1, <3>1, <3>2 DEF ShortLists, HeldList
  <2>8. \A t \in Stream : held[t] # 0 => t \in scan.hlist
    BY <1>2, <2>1 DEF Lone, ShortLists, HeldList
  <2>9. HeldListed BY <1>0, <2>7, <2>8 DEF HeldListed, Called
  <2> QED BY <2>6, <2>9
<1> QED BY <1>1, <1>2

(***************************************************************************)
(* The sum of a number per process.                                        *)
(***************************************************************************)
(* ps numbers the processes, and v[i] is the sum of e over the first i.    *)
Adds(e, ps, n, v) ==
    /\ n \in Nat /\ ps \in [1 .. n -> Proc]
    /\ \A i, j \in 1 .. n : ps[i] = ps[j] => i = j
    /\ \A p \in Proc : \E i \in 1 .. n : ps[i] = p
    /\ v[0] = 0 /\ \A i \in 1 .. n : v[i] = v[i - 1] + e[ps[i]]
    /\ \A i \in 0 .. n : v[i] \in Nat
    /\ Sum(e) = v[n]

(* SetToSeq numbers the processes. *)
LEMMA ProcsNumbered ==
    LET n == Cardinality(Proc)
        ps == SetToSeq(Proc)
    IN  /\ n \in Nat /\ ps \in [1 .. n -> Proc]
        /\ \A i, j \in 1 .. n : ps[i] = ps[j] => i = j
        /\ \A p \in Proc : \E i \in 1 .. n : ps[i] = p
<1> DEFINE n == Cardinality(Proc)
           ps == SetToSeq(Proc)
<1>1. IsFiniteSet(Proc) BY StreamsAssumption
<1>2. n \in Nat /\ ExistsBijection(1 .. n, Proc) BY <1>1, FS_CardinalityType
<1>3. \E f \in [1 .. n -> Proc] : IsInjective(f) BY <1>2 DEF ExistsBijection, Bijection, Injection
<1>4. ps \in [1 .. n -> Proc] /\ IsInjective(ps)
  <2> HIDE DEF n
  <2>1. ps = CHOOSE f \in [1 .. n -> Proc] : IsInjective(f) BY DEF n, SetToSeq
  <2> QED BY <1>3, <2>1
<1> HIDE DEF n, ps
<1>5. ps \in Injection(1 .. n, Proc) BY <1>4 DEF Injection
<1>6. Cardinality(1 .. n) = Cardinality(Proc)
  <2>1. Cardinality(1 .. n) = IF 1 > n THEN 0 ELSE n - 1 + 1 BY <1>2, FS_Interval
  <2> QED BY <1>2, <2>1 DEF n
<1>7. ps \in Surjection(1 .. n, Proc) BY <1>1, <1>5, <1>6, FS_Injection
<1>8. \A p \in Proc : \E i \in 1 .. n : ps[i] = p BY <1>7 DEF Surjection
<1>9. \A i, j \in 1 .. n : ps[i] = ps[j] => i = j BY <1>4 DEF IsInjective
<1> QED BY <1>2, <1>4, <1>8, <1>9 DEF n, ps

(* Sum() is the last of such sums. *)
LEMMA SumIs == ASSUME NEW e \in [Proc -> Nat] PROVE \E ps, n, v : Adds(e, ps, n, v)
<1>0. PICK n, ps : n = Cardinality(Proc) /\ ps = SetToSeq(Proc) OBVIOUS
<1>1. /\ n \in Nat /\ ps \in [1 .. n -> Proc]
      /\ \A i, j \in 1 .. n : ps[i] = ps[j] => i = j
      /\ \A p \in Proc : \E i \in 1 .. n : ps[i] = p
  BY <1>0, ProcsNumbered
<1> DEFINE P(v) == v = [i \in 0 .. n |-> IF i = 0 THEN 0 ELSE v[i - 1] + e[ps[i]]]
           sum == CHOOSE v : P(v)
<1>2. P(sum)
  <2>1. \E v : P(v)
    <3>1. PICK ms : ms = [i \in 1 .. n |-> e[ps[i]]] OBVIOUS
    <3>2. ms \in Seq(Nat) /\ Len(ms) = n BY <1>1, <3>1
    <3>3. PICK v : Sums(v, ms) BY <1>1, <3>2, SumsExist
    <3>4. v = [i \in 0 .. n |-> IF i = 0 THEN 0 ELSE v[i - 1] + ms[i]] BY <3>2, <3>3 DEF Sums
    <3>5. ASSUME NEW i \in 0 .. n PROVE v[i] = IF i = 0 THEN 0 ELSE v[i - 1] + e[ps[i]]
      <4>1. v[i] = IF i = 0 THEN 0 ELSE v[i - 1] + ms[i] BY <3>4
      <4>2. i # 0 => i \in 1 .. n BY <1>1
      <4>3. i # 0 => ms[i] = e[ps[i]] BY <3>1, <4>2
      <4> QED BY <4>1, <4>3
    <3>6. v = [i \in 0 .. n |-> v[i]] BY <3>4
    <3>7. P(v) BY <3>5, <3>6
    <3> QED BY <3>7
  <2> HIDE DEF P
  <2> QED BY <2>1, Zenon
<1>3. Sum(e) = sum[n] BY <1>0 DEF Sum
<1> HIDE DEF sum
<1>4. \A i \in 0 .. n : sum[i] = IF i = 0 THEN 0 ELSE sum[i - 1] + e[ps[i]] BY <1>2
<1>5. sum[0] = 0 /\ \A i \in 1 .. n : sum[i] = sum[i - 1] + e[ps[i]]
  <2>1. 0 \in 0 .. n /\ \A i \in 1 .. n : i \in 0 .. n /\ i # 0 BY <1>1
  <2> QED BY <1>4, <2>1
<1>6. \A i \in 0 .. n : sum[i] \in Nat
  <2> DEFINE S == {i \in Nat : i <= n /\ sum[i] \notin Nat}
  <2>1. SUFFICES ASSUME NEW x \in S PROVE FALSE OBVIOUS
  <2>2. S \in SUBSET Nat OBVIOUS
  <2>3. PICK j \in S : \A z \in S : j <= z
    <3> HIDE DEF S
    <3> QED BY <2>2, LeastMember
  <2>4. j \in Nat /\ j <= n /\ sum[j] \notin Nat OBVIOUS
  <2>5. j # 0 BY <1>5, <2>4
  <2>6. j - 1 \in Nat /\ j - 1 <= n /\ ~(j <= j - 1) /\ j \in 1 .. n BY <1>1, <2>4, <2>5
  <2>7. sum[j - 1] \in Nat BY <2>3, <2>6
  <2>8. e[ps[j]] \in Nat BY <1>1, <2>6
  <2> QED BY <1>5, <2>4, <2>6, <2>7, <2>8
<1>7. Adds(e, ps, n, sum) BY <1>1, <1>3, <1>5, <1>6 DEF Adds
<1> QED BY <1>7

(* It is a number. *)
LEMMA SumNat == ASSUME NEW e \in [Proc -> Nat] PROVE Sum(e) \in Nat
<1>1. PICK ps, n, v : Adds(e, ps, n, v) BY SumIs
<1>2. n \in 0 .. n BY <1>1 DEF Adds
<1> QED BY <1>1, <1>2 DEF Adds

(* If only p has a number, it is the sum. *)
LEMMA SumOne ==
    ASSUME NEW e \in [Proc -> Nat], NEW p \in Proc, \A o \in Proc \ {p} : e[o] = 0 PROVE Sum(e) = e[p]
<1>1. PICK ps, n, v : Adds(e, ps, n, v) BY SumIs
<1>2. PICK k \in 1 .. n : ps[k] = p BY <1>1 DEF Adds
<1>3. n \in Nat /\ e[p] \in Nat /\ k \in Nat /\ k <= n BY <1>1, <1>2 DEF Adds
<1>4. \A i \in 1 .. n : e[ps[i]] = IF i = k THEN e[p] ELSE 0 BY <1>1, <1>2 DEF Adds
<1>5. v[0] = 0 /\ \A i \in 1 .. n : v[i] = v[i - 1] + e[ps[i]] BY <1>1 DEF Adds
<1>6. \A i \in 0 .. n : v[i] = IF i < k THEN 0 ELSE e[p]
  <2> DEFINE S == {i \in Nat : i <= n /\ v[i] # IF i < k THEN 0 ELSE e[p]}
  <2>1. SUFFICES ASSUME NEW x \in S PROVE FALSE BY <1>3
  <2>2. S \in SUBSET Nat OBVIOUS
  <2>3. PICK j \in S : \A z \in S : j <= z
    <3> HIDE DEF S
    <3> QED BY <2>2, LeastMember
  <2>4. j \in Nat /\ j <= n /\ v[j] # IF j < k THEN 0 ELSE e[p] OBVIOUS
  <2>5. j # 0 BY <1>2, <1>3, <1>5, <2>4
  <2>6. j - 1 \in Nat /\ j - 1 <= n /\ ~(j <= j - 1) /\ j \in 1 .. n BY <1>3, <2>4, <2>5
  <2>7. v[j - 1] = IF j - 1 < k THEN 0 ELSE e[p] BY <2>3, <2>6
  <2>8. v[j] = v[j - 1] + (IF j = k THEN e[p] ELSE 0) BY <1>4, <1>5, <2>6
  <2> QED BY <1>3, <2>4, <2>6, <2>7, <2>8
<1>7. v[n] = e[p]
  <2>1. n \in 0 .. n /\ ~(n < k) BY <1>3
  <2> QED BY <1>6, <2>1
<1> QED BY <1>1, <1>7 DEF Adds

(***************************************************************************)
(* What strwrite has accepted.                                             *)
(***************************************************************************)
(* What the calls c have in hand for s. *)
Hand(c, s) == [p \in Proc |-> IF c[p].s = s THEN c[p].m ELSE 0]

(* It is a number per process. *)
LEMMA HandTyped ==
    ASSUME NEW c \in [Proc -> CallType], NEW s
    PROVE  Hand(c, s) \in [Proc -> Nat] /\ \A p \in Proc : Hand(c, s)[p] = IF c[p].s = s THEN c[p].m ELSE 0
<1>1. BUF \in Nat BY StreamsAssumption
<1>2. \A p \in Proc : c[p].m \in Nat BY <1>1 DEF CallType
<1> QED BY <1>2 DEF Hand

(* When p alone has something in hand. *)
LEMMA HandOne ==
    ASSUME NEW c \in [Proc -> CallType], NEW s, NEW p \in Proc, \A o \in Proc \ {p} : c[o].m = 0
    PROVE  Sum(Hand(c, s)) = IF c[p].s = s THEN c[p].m ELSE 0
<1>1. PICK e : e = Hand(c, s) OBVIOUS
<1>2. e \in [Proc -> Nat] /\ \A o \in Proc : e[o] = IF c[o].s = s THEN c[o].m ELSE 0
  BY <1>1, HandTyped
<1>3. \A o \in Proc \ {p} : e[o] = 0 BY <1>2
<1>4. Sum(e) = e[p] BY <1>2, <1>3, SumOne
<1> QED BY <1>1, <1>2, <1>4

(* Nothing that was taken from a writer for s gets lost. *)
Kept(s) ==
    \/ Pending(s)' >= Pending(s)
    \/ /\ UNCHANGED <<held, call>>
       /\ Pending(s)' = Pending(s) - dma[s] \/ dw'[s].msgs = <<>>

(* The parts of Pending(), in this state and in the next. *)
LEMMA PendingTyped ==
    ASSUME TypeOK, Flow, NEW s \in Stream
    PROVE  /\ held[s] \in Nat /\ Count(dw[s]) \in Nat /\ dma[s] \in Nat /\ Sum(Hand(call, s)) \in Nat
           /\ Pending(s) = held[s] + Count(dw[s]) + dma[s] + Sum(Hand(call, s))
           /\ Pending(s)' = held'[s] + Count(dw'[s]) + dma'[s] + Sum(Hand(call', s))
<1>1. held[s] \in 0 .. BUF /\ dma[s] \in 0 .. BUF /\ BUF \in Nat BY StreamTyped, StreamsAssumption
<1>2. Count(dw[s]) \in Nat BY CountTyped
<1>3. call \in [Proc -> CallType] BY DEF TypeOK, CallType
<1>4. Hand(call, s) \in [Proc -> Nat] BY <1>3, HandTyped
<1>5. Sum(Hand(call, s)) \in Nat BY <1>4, SumNat
<1>6. Pending(s) = held[s] + Count(dw[s]) + dma[s] + Sum(Hand(call, s)) BY DEF Pending, InHand, Hand
<1>7. Pending(s)' = held'[s] + Count(dw'[s]) + dma'[s] + Sum(Hand(call', s))
  BY DEF Pending, InHand, Hand
<1>8. held[s] \in Nat /\ dma[s] \in Nat BY <1>1
<1> QED BY <1>2, <1>5, <1>6, <1>7, <1>8

(* The calls have the same in hand. *)
LEMMA HandSame ==
    ASSUME NEW s, \A p \in Proc : call'[p] = call[p] \/ (call'[p].m = 0 /\ call[p].m = 0)
    PROVE  Sum(Hand(call', s)) = Sum(Hand(call, s))
<1>1. Hand(call', s) = Hand(call, s) BY DEF Hand
<1> QED BY <1>1

(* Nothing of s moves. *)
LEMMA KeptSame ==
    ASSUME TypeOK, Flow, NEW s \in Stream, held'[s] = held[s], dma'[s] = dma[s], Count(dw'[s]) = Count(dw[s]),
           \A p \in Proc : call'[p] = call[p] \/ (call'[p].m = 0 /\ call[p].m = 0)
    PROVE  Kept(s)
<1>1. Sum(Hand(call', s)) = Sum(Hand(call, s)) BY HandSame
<1>2. Pending(s) \in Nat /\ Pending(s)' = Pending(s) BY <1>1, PendingTyped
<1> QED BY <1>2 DEF Kept

(* A step of a process that has no message in hand before or after it. *)
LEMMA KeptProcess ==
    ASSUME TypeOK, Flow, Room, NEW p \in Proc, NEW s \in Stream,
           \/ \E n \in opt[s].sizes : Write(p, s, n)
           \/ WriteFull(p) \/ WriteNext(p) \/ ReadNext(p) \/ Dispatch(p) \/ Signal(p) \/ Eintr(p)
           \/ Strread(p, s) \/ Strpoll(p, s) \/ MStop(p, s)
    PROVE  \A t \in Stream : Kept(t)
<1>1. held' = held /\ dma' = dma
  BY DEF dev, Write, WriteFull, WriteNext, ReadNext, Dispatch, Signal, Eintr, Strread, Strpoll,
     MStop
<1>2. \A t \in Stream : Count(dw'[t]) = Count(dw[t])
  <2>1. CASE dw' = dw BY <2>1
  <2>2. ASSUME NEW u \in Stream, dw' = [dw EXCEPT ![u] = Refused(dw[u])]
        PROVE  \A t \in Stream : Count(dw'[t]) = Count(dw[t])
    <3>1. QueueOK(dw[u], BUF) /\ BUF \in Nat BY StreamsAssumption DEF Flow, OutOK
    <3>2. Count(Refused(dw[u])) = Count(dw[u]) BY <3>1, RefusedFacts
    <3> QED BY <2>2, <3>2 DEF TypeOK
  <2>3. CASE WriteFull(p)
    <3>1. pc[p] = "w_canput" /\ CallOK(p) BY <2>3 DEF WriteFull, In, Flow
    <3>2. call[p].s \in Stream BY <3>1 DEF CallOK
    <3>3. dw' = [dw EXCEPT ![call[p].s] = Refused(dw[call[p].s])] BY <2>3 DEF WriteFull
    <3> QED BY <2>2, <3>2, <3>3
  <2>4. CASE Strpoll(p, s)
    <3>1. dw' = [dw EXCEPT ![s] = Refused(dw[s])] BY <2>4 DEF Strpoll
    <3> QED BY <2>2, <3>1
  <2>5. dw' = dw \/ WriteFull(p) \/ Strpoll(p, s)
    BY DEF dev, Write, WriteNext, ReadNext, Dispatch, Signal, Eintr, Strread, MStop
  <2> QED BY <2>1, <2>3, <2>4, <2>5
<1>3. \A o \in Proc : call'[o] = call[o] \/ (call'[o].m = 0 /\ call[o].m = 0)
  <2>1. CASE call' = call BY <2>1
  <2>2. CASE call' # call
    <3>1. pc[p] \notin {"w_made", "w_put"}
      BY <2>2 DEF Write, WriteFull, WriteNext, ReadNext, Dispatch, Signal, Eintr, Strread, Strpoll,
         MStop, In
    <3>2. call[p].m = 0 BY <3>1 DEF Room, PRoom
    <3>3. \/ call' = [call EXCEPT ![p] = NoCall]
          \/ call' = [call EXCEPT ![p].s = s]
          \/ \E n : call' = [call EXCEPT ![p] = [s |-> s, resid |-> n, m |-> 0]]
      BY <2>2 DEF Write, WriteFull, WriteNext, ReadNext, Dispatch, Signal, Eintr, Strread, Strpoll,
         MStop, Leave
    <3>4. call'[p].m = 0
      <4>1. CASE call' = [call EXCEPT ![p] = NoCall] BY <4>1 DEF TypeOK, NoCall
      <4>2. CASE call' = [call EXCEPT ![p].s = s]
        <5>1. call \in [Proc -> CallType] /\ call[p] \in CallType BY DEF TypeOK, CallType
        <5>2. call'[p] = [call[p] EXCEPT !.s = s] BY <4>2, <5>1
        <5> QED BY <3>2, <5>1, <5>2 DEF CallType
      <4>3. ASSUME NEW n, call' = [call EXCEPT ![p] = [s |-> s, resid |-> n, m |-> 0]]
            PROVE  call'[p].m = 0
        BY <4>3 DEF TypeOK
      <4> QED BY <3>3, <4>1, <4>2, <4>3
    <3>5. \A o \in Proc \ {p} : call'[o] = call[o] BY <3>3 DEF TypeOK
    <3> QED BY <3>2, <3>4, <3>5
  <2> QED BY <2>1, <2>2
<1> QED BY <1>1, <1>2, <1>3, KeptSame

(* The port and the ioctls. *)
LEMMA KeptMoved ==
    ASSUME TypeOK, Flow, NEW s \in Stream, Iuxint(s) \/ (\E p \in Proc : MStart(p, s) \/ MFlush(p, s))
    PROVE  \A t \in Stream : Kept(t)
<1>0. QueueOK(dw[s], BUF) /\ ttstop[s] \in BOOLEAN /\ run \in RunType /\ 0 \in 0 .. BUF /\ dma[s] \in 0 .. BUF
  <2>1. QueueOK(dw[s], BUF) BY DEF Flow, OutOK
  <2>2. ttstop[s] \in BOOLEAN /\ run \in RunType /\ dma[s] \in 0 .. BUF BY StreamTyped
  <2>3. 0 \in 0 .. BUF BY StreamsAssumption
  <2> QED BY <2>1, <2>2, <2>3
<1>1. UNCHANGED <<held, call>> BY DEF Iuxint, MStart, MFlush
<1>2. \A t \in Stream : Sum(Hand(call', t)) = Sum(Hand(call, t)) BY <1>1
<1>3. ASSUME NEW busy \in 0 .. BUF, NEW stop \in BOOLEAN, Output(s, dw[s], busy, stop, run), busy = 0 \/ busy = dma[s]
      PROVE  \A t \in Stream : Kept(t)
  <2>1. Moved(s, dw[s], busy, stop, run) BY <1>0, <1>3, OutputFacts
  <2>2. Count(dw'[s]) + dma'[s] = Count(dw[s]) + busy /\ Count(dw'[s]) \in Nat /\ dma'[s] \in 0 .. BUF
    BY <2>1 DEF Moved
  <2>3. \A t \in Stream \ {s} : dw'[t] = dw[t] /\ dma'[t] = dma[t] BY <2>1 DEF Moved
  <2>4. \A t \in Stream \ {s} : Kept(t) BY <1>1, <2>3, KeptSame
  <2>5. Kept(s)
    <3>1. PICK h, c, d, u : h = held[s] /\ c = Count(dw[s]) /\ d = dma[s] /\ u = Sum(Hand(call, s))
      OBVIOUS
    <3>2. h \in Nat /\ c \in Nat /\ d \in Nat /\ u \in Nat /\ Pending(s) = h + c + d + u
      BY <3>1, PendingTyped
    <3>3. PICK c1, d1 : c1 = Count(dw'[s]) /\ d1 = dma'[s] OBVIOUS
    <3>4. c1 \in Nat /\ d1 \in Nat /\ c1 + d1 = c + busy BY <2>2, <3>1, <3>3, StreamsAssumption
    <3>5. Pending(s)' = h + c1 + d1 + u BY <1>1, <1>2, <3>1, <3>3, PendingTyped
    <3>6. busy = 0 => Pending(s)' = Pending(s) - dma[s] BY <3>1, <3>2, <3>4, <3>5
    <3>7. busy = dma[s] => Pending(s)' >= Pending(s) BY <3>1, <3>2, <3>4, <3>5
    <3> QED BY <1>1, <1>3, <3>6, <3>7 DEF Kept
  <2> QED BY <2>4, <2>5
<1>4. CASE Iuxint(s)
  <2>1. Output(s, dw[s], 0, ttstop[s], run) BY <1>4 DEF Iuxint
  <2> QED BY <1>0, <1>3, <2>1
<1>5. ASSUME NEW p \in Proc, MStart(p, s) PROVE \A t \in Stream : Kept(t)
  <2>1. Output(s, dw[s], dma[s], FALSE, run) BY <1>5 DEF MStart
  <2> QED BY <1>0, <1>3, <2>1
<1>6. ASSUME NEW p \in Proc, MFlush(p, s) PROVE \A t \in Stream : Kept(t)
  <2>1. PICK f : f = Flushq(dw[s]) OBVIOUS
  <2>2. dw' = [dw EXCEPT ![s] = f.q] /\ dma' = dma BY <1>6, <2>1 DEF MFlush
  <2>3. f.q.msgs = << >> BY <1>0, <2>1, FlushqFacts, StreamsAssumption
  <2>4. dw'[s].msgs = << >> /\ \A t \in Stream \ {s} : dw'[t] = dw[t] BY <2>2, <2>3 DEF TypeOK
  <2>5. Kept(s) BY <1>1, <2>4 DEF Kept
  <2>6. \A t \in Stream \ {s} : Kept(t) BY <1>1, <2>2, <2>4, KeptSame
  <2> QED BY <2>5, <2>6
<1> QED BY <1>4, <1>5, <1>6

(* A held message is put downstream by queuerun. *)
LEMMA KeptScan == ASSUME TypeOK, Flow, QrScan PROVE \A t \in Stream : Kept(t)
<1>1. PICK q, s : q = scan.head /\ s = q[1] OBVIOUS
<1>2. q \in Queue /\ s \in Stream BY <1>1 DEF QrScan, TypeOK, Queue
<1>3. /\ call' = call /\ held' = [held EXCEPT ![s] = 0]
      /\ (IF held[s] # 0 THEN Iuoput(s, held[s]) ELSE UNCHANGED <<dw, dma, run, qrunflag, back>>)
  BY <1>1 DEF QrScan
<1>4. held'[s] = 0 /\ \A t \in Stream \ {s} : held'[t] = held[t] BY <1>2, <1>3 DEF TypeOK
<1>5. CASE held[s] = 0
  <2>1. dw' = dw /\ dma' = dma BY <1>3, <1>5
  <2> QED BY <1>3, <1>4, <1>5, <2>1, KeptSame
<1>6. CASE held[s] # 0
  <2>1. held[s] \in 1 .. BUF
    <3>1. held[s] \in 0 .. BUF BY <1>2, StreamTyped
    <3> QED BY <1>6, <3>1, StreamsAssumption
  <2>2. OutOK(s) /\ Iuoput(s, held[s]) BY <1>2, <1>3, <1>6 DEF Flow
  <2>3. /\ Count(dw'[s]) + dma'[s] = Count(dw[s]) + held[s] + dma[s] /\ Count(dw'[s]) \in Nat
        /\ dma' \in [Stream -> 0 .. BUF] /\ \A t \in Stream \ {s} : dw'[t] = dw[t] /\ dma'[t] = dma[t]
    BY <1>2, <2>1, <2>2, IuoputFacts
  <2>4. \A t \in Stream \ {s} : Kept(t) BY <1>3, <1>4, <2>3, KeptSame
  <2>5. Kept(s)
    <3>1. PICK h, c, d, u : h = held[s] /\ c = Count(dw[s]) /\ d = dma[s] /\ u = Sum(Hand(call, s))
      OBVIOUS
    <3>2. h \in Nat /\ c \in Nat /\ d \in Nat /\ u \in Nat /\ Pending(s) = h + c + d + u
      BY <1>2, <3>1, PendingTyped
    <3>3. PICK c1, d1 : c1 = Count(dw'[s]) /\ d1 = dma'[s] OBVIOUS
    <3>4. c1 \in Nat /\ d1 \in Nat /\ c1 + d1 = c + h + d
      BY <1>2, <2>3, <3>1, <3>3, StreamsAssumption
    <3>5. Pending(s)' = 0 + c1 + d1 + u BY <1>2, <1>3, <1>4, <3>1, <3>3, PendingTyped
    <3>6. Pending(s)' >= Pending(s) BY <3>2, <3>4, <3>5
    <3> QED BY <3>6 DEF Kept
  <2> QED BY <2>4, <2>5
<1> QED BY <1>5, <1>6

(* The message of a writer, which alone has one in hand. *)
LEMMA KeptWriter ==
    ASSUME TypeOK, Flow, Room, TypeOK', NEW p \in Proc, WriteHeld(p) \/ WriteMake(p) \/ WriteHold(p) \/ WritePut(p)
    PROVE  \A t \in Stream : Kept(t)
<1>0. BUF \in Nat BY StreamsAssumption
<1>1. /\ cpu = p /\ CallOK(p) /\ PRoom(p) /\ pc[p] \in {"w_canput", "w_made", "w_put"}
  BY DEF Flow, Room, WriteHeld, WriteMake, WriteHold, WritePut, In
<1>2. PICK s, m, n : s = call[p].s /\ m = call[p].m /\ n = call[p].resid OBVIOUS
<1>3. s \in Stream /\ m \in 0 .. BUF /\ n \in 0 .. BUF BY <1>1, <1>2, ProcTyped DEF CallOK
<1>4. call \in [Proc -> CallType] /\ call' \in [Proc -> CallType] BY DEF TypeOK, CallType
<1>5. \A o \in Proc \ {p} : call[o].m = 0 BY <1>1 DEF Room, PRoom
<1>6. \A o \in Proc \ {p} : call'[o] = call[o]
  BY <1>4 DEF WriteHeld, WriteMake, WriteHold, WritePut, Leave
<1>7. \A o \in Proc \ {p} : call'[o].m = 0 BY <1>5, <1>6
<1>8. \A t : Sum(Hand(call, t)) = IF call[p].s = t THEN call[p].m ELSE 0 BY <1>4, <1>5, HandOne
<1>9. \A t : Sum(Hand(call', t)) = IF call'[p].s = t THEN call'[p].m ELSE 0 BY <1>4, <1>7, HandOne
<1>10. PICK h, c, d : h = held[s] /\ c = Count(dw[s]) /\ d = dma[s] OBVIOUS
<1>11. /\ h \in Nat /\ c \in Nat /\ d \in Nat /\ m \in Nat /\ n \in Nat /\ Pending(s) = h + c + d + m
  BY <1>0, <1>2, <1>3, <1>8, <1>10, PendingTyped
<1>12. PICK h1, c1, d1, m1 : h1 = held'[s] /\ c1 = Count(dw'[s]) /\ d1 = dma'[s] /\ m1 = call'[p].m
  OBVIOUS
<1>13. /\ h1 \in Nat /\ c1 \in Nat /\ d1 \in Nat /\ m1 \in Nat /\ h1 + c1 + d1 + m1 >= h + c + d + m
       /\ (call'[p].s = s \/ m1 = 0)
       /\ \A t \in Stream \ {s} : held'[t] = held[t] /\ dma'[t] = dma[t] /\ dw'[t] = dw[t]
  <2>1. CASE WriteHeld(p)
    <3>1. m = 0 /\ dw' = dw /\ dma' = dma BY <1>1, <1>2, <2>1 DEF PRoom, WriteHeld, In, dev
    <3>2. CASE 2 * n <= BUF - h
      <4>1. held' = [held EXCEPT ![s] = h + n] /\ call' = [call EXCEPT ![p] = NoCall]
        BY <1>2, <1>10, <2>1, <3>2 DEF WriteHeld, Leave
      <4>2. h1 = h + n /\ m1 = 0 /\ \A t \in Stream \ {s} : held'[t] = held[t]
        BY <1>3, <1>12, <4>1 DEF TypeOK, NoCall
      <4>3. c1 = c /\ d1 = d BY <1>10, <1>12, <3>1
      <4> QED BY <1>11, <3>1, <4>2, <4>3
    <3>3. CASE ~(2 * n <= BUF - h)
      <4>1. /\ held' = [held EXCEPT ![s] = 0]
            /\ call' = [call EXCEPT ![p].m = IF Fits(n, BUF - h) THEN h + n ELSE h,
                                    ![p].resid = IF Fits(n, BUF - h) THEN 0 ELSE n]
        BY <1>2, <1>10, <2>1, <3>3 DEF WriteHeld
      <4>2. h1 = 0 /\ \A t \in Stream \ {s} : held'[t] = held[t] BY <1>3, <1>12, <4>1 DEF TypeOK
      <4>3. (m1 = h + n \/ m1 = h) /\ call'[p].s = s BY <1>2, <1>4, <1>12, <4>1 DEF CallType
      <4>4. c1 = c /\ d1 = d BY <1>10, <1>12, <3>1
      <4> QED BY <1>11, <3>1, <4>2, <4>3, <4>4
    <3> QED BY <3>2, <3>3
  <2>2. CASE WriteMake(p)
    <3>1. m = 0 /\ dw' = dw /\ dma' = dma /\ held' = held
      BY <1>1, <1>2, <2>2 DEF PRoom, WriteMake, In, dev
    <3>2. call' = [call EXCEPT ![p].m = n, ![p].resid = 0] BY <1>2, <2>2 DEF WriteMake
    <3>3. m1 = n /\ call'[p].s = s BY <1>2, <1>4, <1>12, <3>2 DEF CallType
    <3>4. c1 = c /\ d1 = d /\ h1 = h BY <1>10, <1>12, <3>1
    <3> QED BY <1>11, <3>1, <3>3, <3>4
  <2>3. CASE WriteHold(p)
    <3>1. h = 0 /\ dw' = dw /\ dma' = dma BY <1>1, <1>2, <1>10, <2>3 DEF PRoom, WriteHold, In, dev
    <3>2. held' = [held EXCEPT ![s] = m] /\ call' = [call EXCEPT ![p] = NoCall]
      BY <1>2, <2>3 DEF WriteHold, Hold, Leave
    <3>3. h1 = m /\ m1 = 0 /\ \A t \in Stream \ {s} : held'[t] = held[t]
      BY <1>3, <1>12, <3>2 DEF TypeOK, NoCall
    <3>4. c1 = c /\ d1 = d BY <1>10, <1>12, <3>1
    <3> QED BY <1>11, <3>1, <3>3, <3>4
  <2>4. CASE WritePut(p)
    <3>1. h = 0 /\ 0 < m BY <1>1, <1>2, <1>10, <2>4 DEF PRoom, WritePut, In, CallOK
    <3>2. m \in 1 .. BUF /\ OutOK(s) /\ Iuoput(s, m)
      BY <1>0, <1>2, <1>3, <2>4, <3>1 DEF WritePut, Flow
    <3>3. /\ Count(dw'[s]) + dma'[s] = Count(dw[s]) + m + dma[s] /\ Count(dw'[s]) \in Nat
          /\ dma' \in [Stream -> 0 .. BUF] /\ \A t \in Stream \ {s} : dw'[t] = dw[t] /\ dma'[t] = dma[t]
      BY <1>3, <3>2, IuoputFacts
    <3>4. held' = [held EXCEPT ![s] = 0] /\ call' = [call EXCEPT ![p].m = 0]
      BY <1>2, <2>4 DEF WritePut
    <3>5. h1 = 0 /\ m1 = 0 /\ \A t \in Stream \ {s} : held'[t] = held[t]
      <4>1. h1 = 0 /\ \A t \in Stream \ {s} : held'[t] = held[t] BY <1>3, <1>12, <3>4 DEF TypeOK
      <4>2. m1 = 0 BY <1>4, <1>12, <3>4 DEF CallType
      <4> QED BY <4>1, <4>2
    <3>6. c1 \in Nat /\ d1 \in Nat /\ c1 + d1 = c + m + d BY <1>0, <1>3, <1>10, <1>12, <3>3
    <3> QED BY <1>11, <3>1, <3>3, <3>5, <3>6
  <2> QED BY <2>1, <2>2, <2>3, <2>4
<1>14. Kept(s)
  <2>1. Sum(Hand(call', s)) = m1 BY <1>9, <1>12, <1>13
  <2>2. Pending(s)' = h1 + c1 + d1 + m1 BY <1>3, <1>12, <2>1, PendingTyped
  <2>3. Pending(s)' >= Pending(s) BY <1>11, <1>13, <2>2
  <2> QED BY <2>3 DEF Kept
<1>15. ASSUME NEW t \in Stream \ {s} PROVE Kept(t)
  <2>1. Sum(Hand(call, t)) = 0 /\ Sum(Hand(call', t)) = 0 BY <1>2, <1>8, <1>9, <1>12, <1>13
  <2>2. held'[t] = held[t] /\ dma'[t] = dma[t] /\ Count(dw'[t]) = Count(dw[t]) BY <1>13
  <2>3. Pending(t) \in Nat /\ Pending(t)' = Pending(t) BY <2>1, <2>2, PendingTyped
  <2> QED BY <2>3 DEF Kept
<1> QED BY <1>14, <1>15

(***************************************************************************)
(* The theorems.                                                           *)
(***************************************************************************)
(* The invariant holds in every reachable state, for every choice of the   *)
(* constants: the parts that need more say themselves what they need.      *)
THEOREM Inductive == Spec => []IInv
<1>1. Init => IInv
  BY FlowInit, LinkedInit DEF IInv
<1>2. IInv /\ [Next]_vars => IInv'
  <2> SUFFICES ASSUME IInv, [Next]_vars PROVE IInv' OBVIOUS
  <2>1. TypeOK /\ Flow /\ opt \in [Stream -> Settings] /\ Linked /\ (MAKESLEEP \/ Room) BY DEF IInv
  <2>2. TypeOK' /\ Flow' BY <2>1, FlowNext
  <2>3. opt' \in [Stream -> Settings] BY <2>1, OptSame
  <2>4. Linked' BY <2>1, LinkedNext
  <2>5. MAKESLEEP \/ Room'
    <3>1. CASE MAKESLEEP BY <3>1
    <3>2. CASE ~MAKESLEEP BY <2>1, <2>2, <3>2, RoomNext
    <3> QED BY <3>1, <3>2
  <2> QED BY <2>2, <2>3, <2>4, <2>5 DEF IInv
<1> QED BY <1>1, <1>2, PTL DEF Spec

(* No process sleeps in strwaitq unannounced: the flag that strwsrv,       *)
(* strrput and an interrupted sleeper look at is set, a writer's queue is  *)
(* to be served or will back-enable the head when it drains, and a reader  *)
(* has nothing to read.  Interrupts, signals and other writers between the *)
(* test of canput and the sleep change nothing of this.                    *)
THEOREM SleepersPromised == Spec => []NobodyForgotten
<1>1. IInv => NobodyForgotten
  <2> SUFFICES ASSUME TypeOK, Flow PROVE WriterNotForgotten /\ ReaderNotForgotten
    BY DEF NobodyForgotten, IInv
  <2>1. WriterNotForgotten
    <3> SUFFICES ASSUME NEW p \in Proc, pc[p] = "w_asleep"
                 PROVE  /\ "WSLEEP" \in sd_flag[call[p].s]
                        /\ \/ <<call[p].s, "hw">> \in run.enab \/ qr = <<call[p].s, "hw">>
                           \/ /\ "QWANTW" \in dw[call[p].s].flag
                              /\ Count(dw[call[p].s]) >= LOWAT
                              /\ dma[call[p].s] # 0 \/ ttstop[call[p].s]
      BY DEF WriterNotForgotten
    <3>1. SleeperOK(p) /\ CallOK(p) BY DEF Flow
    <3>2. /\ "WSLEEP" \in sd_flag[call[p].s] /\ Promised(call[p].s) /\ call[p].s \in Stream
      BY <3>1 DEF SleeperOK, CallOK
    <3>3. Count(dw[call[p].s]) \in Nat /\ LOWAT \in Nat BY <3>2, CountTyped, StreamsAssumption
    <3> QED BY <3>2, <3>3 DEF Promised
  <2>2. ReaderNotForgotten BY DEF ReaderNotForgotten, Flow, SleeperOK
  <2> QED BY <2>1, <2>2
<1> QED BY <1>1, Inductive, PTL

(* Input in the driver is to be passed on or waits for a full head that    *)
(* will say when it is read (getq's back-enabling); output waits only for  *)
(* the port, or because it is suspended.                                   *)
THEOREM NothingStuck == Spec => [](InputMoves /\ OutputMoves)
<1>1. IInv => InputMoves /\ OutputMoves
  <2> SUFFICES ASSUME Flow PROVE InputMoves /\ OutputMoves BY DEF IInv
  <2>1. \A s \in Stream : Count(hr[s]) \in Nat /\ LOWAT \in Nat
    <3>1. \A s \in Stream : QueueOK(hr[s], 1) BY DEF Flow, InOK
    <3> QED BY <3>1, QueueTyped, StreamsAssumption
  <2>2. InputMoves BY <2>1 DEF InputMoves, Flow, InOK
  <2>3. OutputMoves BY DEF OutputMoves, Flow, OutOK
  <2> QED BY <2>2, <2>3
<1> QED BY <1>1, Inductive, PTL

(* Unless strmakemsg sleeps, flow control also bounds the driver's queue:  *)
(* strwrite asks canput before it makes a message, queuerun puts held      *)
(* messages down without asking, and still never more than one message is  *)
(* over the high water mark.                                               *)
THEOREM FlowControlled == ASSUME MAKESLEEP = FALSE PROVE Spec => []DataMoves
<1>1. IInv => QueueBounded BY DEF IInv, QueueBounded, Room, SRoom
<1>2. InputMoves /\ OutputMoves /\ QueueBounded => DataMoves BY DEF DataMoves
<1> QED BY <1>1, <1>2, Inductive, NothingStuck, PTL

(* Unless strmakemsg sleeps, what strwrite has taken from a process is     *)
(* held, queued, in hand or being sent until the port has sent it or the   *)
(* driver's queue is flushed: holding a message back, adding to it and     *)
(* sending it lose nothing.                                                *)
THEOREM NothingIsLost == ASSUME MAKESLEEP = FALSE PROVE Spec => NothingLost
<1> DEFINE A == \A s \in Stream : Kept(s)
<1>1. IInv /\ [Next]_vars => A
  <2> SUFFICES ASSUME TypeOK, Flow, Room, [Next]_vars PROVE A BY DEF IInv
  <2>0. TypeOK' BY FlowNext
  <2>1. CASE \/ UNCHANGED vars
             \/ Kick \/ QrScanned \/ QrNext \/ QrDone \/ QrClear \/ Iuosrv \/ Strscan \/ Strwsrv
             \/ Iuisrv
             \/ (\E s \in Stream : Elapse(s) \/ Iuscan(s))
    <3>1. UNCHANGED <<dw, held, dma, call>>
      BY <2>1 DEF vars, dev, Kick, QrScanned, QrNext, QrDone, QrClear, Iuosrv, Strscan, Elapse,
         Iuscan, Strwsrv, Iuisrv
    <3> QED BY <3>1, KeptSame
  <2>2. CASE QrScan BY <2>2, KeptScan
  <2>3. ASSUME NEW s \in Stream, Iuxint(s) \/ (\E p \in Proc : MStart(p, s) \/ MFlush(p, s))
        PROVE  A
    BY <2>3, KeptMoved
  <2>4. ASSUME NEW p \in Proc, WriteHeld(p) \/ WriteMake(p) \/ WriteHold(p) \/ WritePut(p) PROVE A
    BY <2>0, <2>4, KeptWriter
  <2>5. ASSUME NEW p \in Proc, NEW s \in Stream,
               \/ \E n \in opt[s].sizes : Write(p, s, n)
               \/ WriteFull(p) \/ WriteNext(p) \/ ReadNext(p) \/ Dispatch(p) \/ Signal(p) \/ Eintr(p)
               \/ Strread(p, s) \/ Strpoll(p, s) \/ MStop(p, s)
        PROVE  A
    BY <2>5, KeptProcess
  <2>6. ASSUME NEW p \in Proc,
               \/ WriteFull(p) \/ WriteNext(p) \/ ReadNext(p) \/ Dispatch(p) \/ Signal(p) \/ Eintr(p)
        PROVE  A
    <3>1. CASE Stream = {} BY <3>1
    <3>2. CASE Stream # {}
      <4>1. PICK s : s \in Stream BY <3>2
      <4> QED BY <2>5, <2>6, <4>1
    <3> QED BY <3>1, <3>2
  <2>7. CASE Next BY <2>1, <2>2, <2>3, <2>4, <2>5, <2>6, <2>7, Steps
  <2> QED BY <2>1, <2>7
<1>2. IInv /\ [Next]_vars => [\A s \in Stream : Kept(s)]_vars BY <1>1
<1> QED BY <1>2, Inductive, PTL DEF Spec, NothingLost, Kept

(* The queues marked QENAB are those that q_link leads to from qhead, the  *)
(* heads marked QHLIST those from scanqhead, and somebody will look at     *)
(* both lists, for streams that do not use q_link for both at once.  It is *)
(* not true of others (MCStreamsLink.cfg).                                 *)
THEOREM ListsWhole == ASSUME Unshared PROVE Spec => []ListsSound
<1>1. IInv => ListsSound
  <2> SUFFICES ASSUME IInv PROVE ListsSound OBVIOUS
  <2>1. TypeOK /\ Linked /\ opt \in [Stream -> Settings] BY DEF IInv
  <2>2. HoldFree \/ \E s \in Stream : Lone(s) BY <2>1, UnsharedKinds
  <2>3. RunListSound /\ HeldListed BY <2>1, <2>2, LinkedSound
  <2> QED BY <2>1, <2>3 DEF ListsSound
<1> QED BY <1>1, Inductive, PTL
=============================================================================
