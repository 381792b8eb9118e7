---------------------------- MODULE Flock_proofs ----------------------------
(*****************************************************************************)
(* Record locking (os/flock.c) for any number of processes, files and        *)
(* records: the lists keep their shape, blocked finds what is in the way and *)
(* nothing else, no wakeup is lost, what sleeplcks says has no circle,       *)
(* sleepers do not wait for one another in a circle, and locks are what      *)
(* ByteLocks promises, byte by byte.                                         *)
(*                                                                           *)
(* The first part is about the lock list, for every list and every lock:     *)
(* what blocked, flckadj and cleanlocks do to it.  A list is good if it is   *)
(* ordered by start, its records have distinct names, none is empty and      *)
(* those of one owner are clear of one another.  flckadj is a loop over the  *)
(* records.  Its invariant ScanInv says, besides, what the list, the lock as *)
(* joined so far and the set of records woken still know of the list the     *)
(* call began with (Kept), and how the records that have been visited lie    *)
(* relative to the lock (Cut).  There is one lemma for each way in which the *)
(* lock and a record may lie (Turn...); AdjustTurn puts them together,       *)
(* ScanFacts runs the loop, FlckadjFacts adds the insertion at the end.      *)
(*                                                                           *)
(* The second part is the inductive invariant Inv.  Each action keeps it     *)
(* because of what the first part shows of the list operations: flckadj      *)
(* wakes the sleepers of every record it removes, cuts or replaces, so that  *)
(* a process that stays asleep still has its record.                         *)
(*                                                                           *)
(* Deadlock.  deadflck lets p sleep behind the owner o only if some set S of *)
(* processes that is closed under blk holds o and not p.  A circle C that    *)
(* the new entry closes would pass through p and o; then C \cap S, in which  *)
(* every entry is an old one, was a circle before.  Every other step only    *)
(* removes entries.                                                          *)
(*                                                                           *)
(* Refinement.  HeldAt reads the type of a byte off the list.  By Inv at     *)
(* most one record of an owner is over a byte, so that HeldCovers turns      *)
(* questions about types into questions about records, which the list lemmas *)
(* answer.                                                                   *)
(*****************************************************************************)
EXTENDS Flock, TLAPS, NaturalsInduction, WellFoundedInduction, FiniteSetTheorems

(***************************************************************************)
(* Facts about the linked lists of the kernel, which the model keeps as    *)
(* sequences without repetition.                                           *)
(***************************************************************************)
(* A set of naturals that has a member has a least one, its Min. *)
LEMMA LeastMember ==
    ASSUME NEW S \in SUBSET Nat, NEW x \in S
    PROVE  Min(S) \in S /\ \A z \in S : Min(S) <= z
<1>1. IsWellFoundedOn(OpToRel(<, Nat), Nat)
  BY NatLessThanWellFounded, Zenon
<1>2. PICK y \in S : \A z \in S : ~(<<z, y>> \in OpToRel(<, Nat))
  BY <1>1, WFMin
<1>3. ASSUME NEW z \in S PROVE y <= z
  <2>1. ~(z < y)
    BY <1>2, <1>3 DEF OpToRel
  <2> QED BY <2>1
<1>4. \E m \in S : \A z \in S : m <= z
  BY <1>3
<1> QED BY <1>4 DEF Min

(* A set of naturals with an upper bound and a member has a greatest one. *)
LEMMA GreatestMember ==
    ASSUME NEW n \in Nat, NEW S \in SUBSET (0..n), NEW x \in S
    PROVE  Max(S) \in S /\ \A z \in S : z <= Max(S)
<1> DEFINE T == {n - y : y \in S}
<1>1. T \in SUBSET Nat /\ n - x \in T
  OBVIOUS
<1>2. Min(T) \in T /\ \A z \in T : Min(T) <= z
  <2> HIDE DEF T
  <2> QED BY <1>1, LeastMember
<1>3. PICK y \in S : Min(T) = n - y
  BY <1>2
<1>4. ASSUME NEW z \in S PROVE z <= y
  <2>1. n - z \in T
    BY <1>4
  <2>2. Min(T) <= n - z
    BY <1>2, <2>1
  <2> HIDE DEF T
  <2> QED BY <1>3, <2>2
<1>5. \E m \in S : \A z \in S : m >= z
  BY <1>4
<1>6. Max(S) \in S /\ \A z \in S : Max(S) >= z
  BY <1>5 DEF Max
<1> QED BY <1>6

(* The members of a sequence, by position. *)
LEMMA MemberIff ==
    ASSUME NEW A, NEW q \in Seq(A), NEW e
    PROVE  e \in ToSet(q) <=> \E i \in 1..Len(q) : q[i] = e
BY DEF ToSet

(* RemoveAt closes the gap at position k. *)
LEMMA RemoveAtFacts ==
    ASSUME NEW A, NEW q \in Seq(A), NEW k \in 1..Len(q)
    PROVE  /\ RemoveAt(q, k) \in Seq(A)
           /\ Len(RemoveAt(q, k)) = Len(q) - 1
           /\ \A i \in 1..Len(q) - 1 : RemoveAt(q, k)[i] = IF i < k THEN q[i] ELSE q[i + 1]
<1> DEFINE a == SubSeq(q, 1, k - 1)
           b == SubSeq(q, k + 1, Len(q))
<1>1. Len(q) \in Nat /\ \A i \in 1..Len(q) : q[i] \in A
  OBVIOUS
<1>2. a \in Seq(A) /\ Len(a) = k - 1 /\ \A i \in 1..k - 1 : a[i] = q[i]
  BY <1>1
<1>3. b \in Seq(A) /\ Len(b) = Len(q) - k /\ \A i \in 1..Len(q) - k : b[i] = q[k + i]
  BY <1>1
<1>4. RemoveAt(q, k) = a \o b
  BY DEF RemoveAt
<1> HIDE DEF a, b
<1>5. /\ a \o b \in Seq(A) /\ Len(a \o b) = Len(a) + Len(b)
      /\ \A i \in 1..Len(a) + Len(b) : (a \o b)[i] = IF i <= Len(a) THEN a[i] ELSE b[i - Len(a)]
  BY <1>2, <1>3, SMTT(30)
<1>6. ASSUME NEW i \in 1..Len(q) - 1, i < k PROVE (a \o b)[i] = q[i]
  BY <1>1, <1>2, <1>3, <1>5, <1>6
<1>7. ASSUME NEW i \in 1..Len(q) - 1, ~(i < k) PROVE (a \o b)[i] = q[i + 1]
  <2>1. (a \o b)[i] = b[i - (k - 1)] /\ i - (k - 1) \in 1..Len(q) - k /\ k + (i - (k - 1)) = i + 1
    BY <1>1, <1>2, <1>3, <1>5, <1>7
  <2> QED BY <1>3, <2>1
<1> QED BY <1>1, <1>2, <1>3, <1>4, <1>5, <1>6, <1>7

(* InsertAt makes room behind the first k. *)
LEMMA InsertAtFacts ==
    ASSUME NEW A, NEW q \in Seq(A), NEW k \in 0..Len(q), NEW e \in A
    PROVE  /\ InsertAt(q, k + 1, e) \in Seq(A)
           /\ Len(InsertAt(q, k + 1, e)) = Len(q) + 1
           /\ \A i \in 1..Len(q) + 1 :
                InsertAt(q, k + 1, e)[i] = IF i <= k THEN q[i]
                                           ELSE IF i = k + 1 THEN e ELSE q[i - 1]
<1> DEFINE a == SubSeq(q, 1, k)
           b == SubSeq(q, k + 1, Len(q))
           c == a \o <<e>>
<1>1. Len(q) \in Nat /\ \A i \in 1..Len(q) : q[i] \in A
  OBVIOUS
<1>2. a \in Seq(A) /\ Len(a) = k /\ \A i \in 1..k : a[i] = q[i]
  BY <1>1
<1>3. b \in Seq(A) /\ Len(b) = Len(q) - k /\ \A i \in 1..Len(q) - k : b[i] = q[k + i]
  BY <1>1
<1>4. InsertAt(q, k + 1, e) = c \o b
  <2>1. (k + 1) - 1 = k
    OBVIOUS
  <2> QED BY <2>1 DEF InsertAt
<1> HIDE DEF a, b
<1>5. c \in Seq(A) /\ Len(c) = k + 1 /\ c[k + 1] = e /\ \A i \in 1..k : c[i] = q[i]
  BY <1>2
<1> HIDE DEF c
<1>6. /\ c \o b \in Seq(A) /\ Len(c \o b) = Len(c) + Len(b)
      /\ \A i \in 1..Len(c) + Len(b) : (c \o b)[i] = IF i <= Len(c) THEN c[i] ELSE b[i - Len(c)]
  <2>1. c \in Seq(A) /\ b \in Seq(A)
    BY <1>3, <1>5
  <2> QED BY <2>1
<1>7. ASSUME NEW i \in 1..Len(q) + 1, i <= k PROVE (c \o b)[i] = q[i]
  BY <1>1, <1>3, <1>5, <1>6, <1>7
<1>8. (c \o b)[k + 1] = e
  BY <1>1, <1>3, <1>5, <1>6
<1>9. ASSUME NEW i \in 1..Len(q) + 1, i > k + 1 PROVE (c \o b)[i] = q[i - 1]
  <2>1. (c \o b)[i] = b[i - (k + 1)] /\ i - (k + 1) \in 1..Len(q) - k /\ k + (i - (k + 1)) = i - 1
    BY <1>1, <1>3, <1>5, <1>6, <1>9
  <2> QED BY <1>3, <2>1
<1>10. Len(c \o b) = Len(q) + 1
  BY <1>1, <1>3, <1>5, <1>6
<1> DEFINE r == c \o b
<1>11. ASSUME NEW i \in 1..Len(q) + 1
       PROVE  r[i] = IF i <= k THEN q[i] ELSE IF i = k + 1 THEN e ELSE q[i - 1]
  <2>1. i <= k => r[i] = q[i]
    BY <1>7
  <2>2. i = k + 1 => r[i] = e
    BY <1>8
  <2>3. i > k + 1 => r[i] = q[i - 1]
    BY <1>9
  <2> HIDE DEF r
  <2> QED BY <1>1, <2>1, <2>2, <2>3
<1> QED BY <1>4, <1>6, <1>10, <1>11

(* The list is ordered by l_start, no two records have owner and start in    *)
(* common, and it is made of records.                                        *)
Sorted(L) == \A j, k \in 1..Len(L) : j < k => L[j].start <= L[k].start
Named(L) == \A j, k \in 1..Len(L) : Id(L[j]) = Id(L[k]) => j = k
Ordered(L) == L \in Seq(Filock) /\ Sorted(L) /\ Named(L)

(* A lock that starts at start belongs behind the record id, or somewhere  *)
(* after it.                                                               *)
Fit(F, id, start) ==
    IF id = NULL THEN \A g \in F : start <= g.start
    ELSE \E g \in F : Id(g) = id /\ g.start <= start

(* The fields of a record. *)
LEMMA FilockFacts ==
    ASSUME NEW f \in Filock
    PROVE  /\ f.own \in Proc /\ f.type \in {F_RDLCK, F_WRLCK} /\ f.wakeflg \in BOOLEAN
           /\ f.start \in Nat /\ f.end \in Nat /\ f.start <= MAXEND /\ f.end <= MAXEND
           /\ MAXEND \in Nat
           /\ Id(f) \in Rec /\ Id(f) # NULL
BY FlockAssumption DEF Filock, Byte, Rec, Id

(* A record is known by its owner and its start. *)
LEMMA IdFacts ==
    ASSUME NEW f \in Filock, NEW g \in Filock
    PROVE  Id(f) = Id(g) <=> f.own = g.own /\ f.start = g.start
BY DEF Id

(* IndexOf finds the record. *)
LEMMA IndexFacts ==
    ASSUME NEW L, Ordered(L), NEW f \in ToSet(L)
    PROVE  /\ IndexOf(L, Id(f)) \in 1..Len(L) /\ L[IndexOf(L, Id(f))] = f
           /\ f \in Filock /\ Len(L) \in Nat
<1>1. L \in Seq(Filock) /\ Len(L) \in Nat /\ DOMAIN L = 1..Len(L)
  BY DEF Ordered
<1>2. PICK i \in 1..Len(L) : L[i] = f
  BY <1>1, MemberIff
<1>3. f \in Filock
  BY <1>1, <1>2
<1>4. IndexOf(L, Id(f)) = CHOOSE k \in 1..Len(L) : Id(L[k]) = Id(f)
  BY <1>1, <1>3, FilockFacts DEF IndexOf
<1> DEFINE c == CHOOSE k \in 1..Len(L) : Id(L[k]) = Id(f)
<1>5. c \in 1..Len(L) /\ Id(L[c]) = Id(f)
  BY <1>2
<1> HIDE DEF c
<1>6. c = i
  BY <1>2, <1>5 DEF Ordered, Named
<1> QED BY <1>1, <1>2, <1>3, <1>4, <1>6 DEF c

(* delflck: unlinking a record leaves the others in order. *)
LEMMA RemoveRecord ==
    ASSUME NEW L, Ordered(L), NEW f \in ToSet(L)
    PROVE  LET M == RemoveAt(L, IndexOf(L, Id(f)))
           IN  Ordered(M) /\ ToSet(M) = ToSet(L) \ {f}
<1> DEFINE k == IndexOf(L, Id(f))
           M == RemoveAt(L, k)
           n == Len(L)
<1>1. k \in 1..n /\ L[k] = f /\ f \in Filock /\ n \in Nat
  BY IndexFacts
<1>2. L \in Seq(Filock)
  BY DEF Ordered
<1> HIDE DEF k
<1>3. /\ M \in Seq(Filock) /\ Len(M) = n - 1
      /\ \A i \in 1..n - 1 : M[i] = IF i < k THEN L[i] ELSE L[i + 1]
  BY <1>1, <1>2, RemoveAtFacts
<1> HIDE DEF M
<1>4. \A i \in 1..n : L[i] \in Filock /\ L[i].start \in Nat
  BY <1>2, FilockFacts
<1>5. Sorted(M)
  <2>1. \A i, j \in 1..n : i < j => L[i].start <= L[j].start
    BY DEF Ordered, Sorted
  <2>2. ASSUME NEW i \in 1..n - 1, NEW j \in 1..n - 1, i < j
        PROVE  M[i].start <= M[j].start
    BY <1>1, <1>3, <2>1, <2>2
  <2> QED BY <1>3, <2>2 DEF Sorted
<1>6. Named(M)
  <2>1. \A i, j \in 1..n : Id(L[i]) = Id(L[j]) => i = j
    BY DEF Ordered, Named
  <2>2. ASSUME NEW i \in 1..n - 1, NEW j \in 1..n - 1, Id(M[i]) = Id(M[j])
        PROVE  i = j
    <3> DEFINE a == IF i < k THEN i ELSE i + 1
               b == IF j < k THEN j ELSE j + 1
    <3>1. a \in 1..n /\ b \in 1..n /\ M[i] = L[a] /\ M[j] = L[b]
      BY <1>1, <1>3
    <3>2. a = b
      <4> HIDE DEF a, b
      <4> QED BY <2>1, <2>2, <3>1
    <3> QED BY <1>1, <3>2
  <2> QED BY <1>3, <2>2 DEF Named
<1>7. ToSet(M) = ToSet(L) \ {f}
  <2>1. \A x : x \in ToSet(M) <=> \E i \in 1..n - 1 : M[i] = x
    BY <1>3, MemberIff
  <2>2. \A x : x \in ToSet(L) <=> \E i \in 1..n : L[i] = x
    BY <1>2, MemberIff
  <2>3. \A i \in 1..n : L[i] = f => i = k
    BY <1>1 DEF Ordered, Named
  <2>4. ASSUME NEW i \in 1..n - 1 PROVE M[i] \in ToSet(L) \ {f}
    BY <1>1, <1>3, <2>2, <2>3
  <2>5. ASSUME NEW i \in 1..n, i # k PROVE L[i] \in ToSet(M)
    <3>1. CASE i < k
      <4>1. i \in 1..n - 1 /\ M[i] = L[i]
        BY <1>1, <1>3, <3>1
      <4> QED BY <2>1, <4>1
    <3>2. CASE i > k
      <4>1. i - 1 \in 1..n - 1 /\ M[i - 1] = L[i]
        BY <1>1, <1>3, <3>2
      <4> QED BY <2>1, <4>1
    <3> QED BY <1>1, <2>5, <3>1, <3>2
  <2> QED BY <1>1, <2>1, <2>2, <2>4, <2>5
<1> QED BY <1>3, <1>5, <1>6, <1>7 DEF Ordered, M, k

(* A record that keeps its name is changed in place. *)
LEMMA ReplaceRecord ==
    ASSUME NEW L, Ordered(L), NEW f \in ToSet(L), NEW g \in Filock, Id(g) = Id(f)
    PROVE  LET M == ReplaceAt(L, IndexOf(L, Id(f)), g)
           IN  Ordered(M) /\ ToSet(M) = (ToSet(L) \ {f}) \cup {g}
<1> DEFINE k == IndexOf(L, Id(f))
           M == ReplaceAt(L, k, g)
           n == Len(L)
<1>1. k \in 1..n /\ L[k] = f /\ f \in Filock /\ n \in Nat
  BY IndexFacts
<1>2. L \in Seq(Filock)
  BY DEF Ordered
<1> HIDE DEF k
<1>3. /\ M \in Seq(Filock) /\ Len(M) = n
      /\ \A i \in 1..n : M[i] = IF i = k THEN g ELSE L[i]
  BY <1>1, <1>2 DEF ReplaceAt
<1> HIDE DEF M
<1>4. g.start = f.start
  BY <1>1, IdFacts
<1>5. Sorted(M)
  <2>1. \A i, j \in 1..n : i < j => L[i].start <= L[j].start
    BY DEF Ordered, Sorted
  <2>2. ASSUME NEW i \in 1..n, NEW j \in 1..n, i < j
        PROVE  M[i].start <= M[j].start
    <3>1. M[i].start = L[i].start /\ M[j].start = L[j].start
      BY <1>1, <1>3, <1>4
    <3> QED BY <2>1, <2>2, <3>1
  <2> QED BY <1>3, <2>2 DEF Sorted
<1>6. Named(M)
  <2>1. \A i, j \in 1..n : Id(L[i]) = Id(L[j]) => i = j
    BY DEF Ordered, Named
  <2>2. ASSUME NEW i \in 1..n, NEW j \in 1..n, Id(M[i]) = Id(M[j])
        PROVE  i = j
    <3>1. Id(M[i]) = Id(L[i]) /\ Id(M[j]) = Id(L[j])
      BY <1>1, <1>3
    <3> QED BY <2>1, <2>2, <3>1
  <2> QED BY <1>3, <2>2 DEF Named
<1>7. ToSet(M) = (ToSet(L) \ {f}) \cup {g}
  <2>1. \A x : x \in ToSet(M) <=> \E i \in 1..n : M[i] = x
    BY <1>3, MemberIff
  <2>2. \A x : x \in ToSet(L) <=> \E i \in 1..n : L[i] = x
    BY <1>2, MemberIff
  <2>3. \A i \in 1..n : L[i] = f => i = k
    BY <1>1 DEF Ordered, Named
  <2> QED BY <1>1, <1>3, <2>1, <2>2, <2>3
<1> QED BY <1>3, <1>5, <1>6, <1>7 DEF Ordered, M, k

(* Place counts the records that start before a lock, if the search begins   *)
(* at a record that does.                                                    *)
LEMMA PlaceFacts ==
    ASSUME NEW L, Ordered(L), NEW id, NEW start \in Nat, Fit(ToSet(L), id, start)
    PROVE  LET j == Place(L, id, start)
           IN  /\ j \in 0..Len(L)
               /\ \A i \in 1..j : L[i].start <= start
               /\ \A i \in j + 1..Len(L) : start <= L[i].start
<1> DEFINE n == Len(L)
<1>1. L \in Seq(Filock) /\ n \in Nat /\ \A i \in 1..n : L[i].start \in Nat /\ L[i] \in ToSet(L)
  BY FilockFacts, MemberIff DEF Ordered
<1>s. \A i, j \in 1..n : i < j => L[i].start <= L[j].start
  BY DEF Ordered, Sorted
<1>2. CASE id = NULL
  <2>1. Place(L, id, start) = 0
    BY <1>2 DEF Place, IndexOf
  <2> QED BY <1>1, <1>2, <2>1 DEF Fit
<1>3. CASE id # NULL
  <2>1. PICK g \in ToSet(L) : Id(g) = id /\ g.start <= start
    BY <1>3 DEF Fit
  <2> DEFINE k == IndexOf(L, id)
             S == {k} \cup {j \in k..n : \A i \in k..j : L[i].start < start}
  <2>2. k \in 1..n /\ L[k] = g
    BY <2>1, IndexFacts
  <2>3. Place(L, id, start) = Max(S)
    BY <2>2 DEF Place
  <2> HIDE DEF k
  <2>4. S \in SUBSET (0..n) /\ k \in S
    BY <1>1, <2>2
  <2> DEFINE m == Max(S)
  <2>5. m \in S /\ \A z \in S : z <= m
    <3> HIDE DEF S
    <3> QED BY <1>1, <2>4, GreatestMember
  <2> HIDE DEF m
  <2>6. m \in k..n /\ (m = k \/ \A i \in k..m : L[i].start < start)
    BY <1>1, <2>2, <2>5
  <2>7. ASSUME NEW i \in 1..m PROVE L[i].start <= start
    <3>1. CASE i < k
      BY <1>1, <1>s, <2>1, <2>2, <2>6, <2>7, <3>1
    <3>2. CASE i >= k
      BY <1>1, <2>1, <2>2, <2>6, <2>7, <3>2
    <3> QED BY <2>2, <2>6, <3>1, <3>2
  <2>8. ASSUME NEW i \in m + 1..n PROVE start <= L[i].start
    <3>1. m + 1 \in k..n /\ m + 1 \in 1..n
      BY <1>1, <2>2, <2>6, <2>8
    <3>2. m + 1 \notin S
      BY <2>5, <2>6
    <3>3. PICK x \in k..m + 1 : ~(L[x].start < start)
      BY <3>1, <3>2
    <3>4. start <= L[m + 1].start
      <4>1. x \in 1..n /\ start <= L[x].start
        BY <1>1, <2>2, <3>1, <3>3
      <4>2. CASE x = m + 1
        BY <4>1, <4>2
      <4>3. CASE x < m + 1
        BY <1>1, <1>s, <3>1, <4>1, <4>3
      <4> QED BY <2>2, <2>6, <3>3, <4>2, <4>3
    <3> QED BY <1>1, <1>s, <2>2, <2>6, <2>8, <3>1, <3>4
  <2> QED BY <1>1, <2>2, <2>3, <2>6, <2>7, <2>8 DEF m
<1> QED BY <1>2, <1>3

(* insflck: a new record goes where it keeps the list in order. *)
LEMMA InsertRecord ==
    ASSUME NEW L, Ordered(L), NEW id, NEW r \in Filock, Fit(ToSet(L), id, r.start),
           \A g \in ToSet(L) : Id(g) # Id(r)
    PROVE  LET M == InsertAt(L, Place(L, id, r.start) + 1, r)
           IN  Ordered(M) /\ ToSet(M) = ToSet(L) \cup {r}
<1> DEFINE k == Place(L, id, r.start)
           M == InsertAt(L, k + 1, r)
           n == Len(L)
<1>1. L \in Seq(Filock) /\ n \in Nat /\ r.start \in Nat
      /\ \A i \in 1..n : L[i].start \in Nat /\ L[i] \in ToSet(L)
  BY FilockFacts, MemberIff DEF Ordered
<1>2. /\ k \in 0..n
      /\ \A i \in 1..k : L[i].start <= r.start
      /\ \A i \in k + 1..n : r.start <= L[i].start
  BY <1>1, PlaceFacts
<1> HIDE DEF k
<1>3. /\ M \in Seq(Filock) /\ Len(M) = n + 1
      /\ \A i \in 1..n + 1 : M[i] = IF i <= k THEN L[i] ELSE IF i = k + 1 THEN r ELSE L[i - 1]
  BY <1>1, <1>2, InsertAtFacts
<1> HIDE DEF M
<1>4. Sorted(M)
  <2>1. \A i, j \in 1..n : i < j => L[i].start <= L[j].start
    BY DEF Ordered, Sorted
  <2>2. ASSUME NEW i \in 1..n + 1, NEW j \in 1..n + 1, i < j
        PROVE  M[i].start <= M[j].start
    <3>1. CASE j <= k
      BY <1>1, <1>2, <1>3, <2>1, <2>2, <3>1
    <3>2. CASE j = k + 1
      BY <1>1, <1>2, <1>3, <2>2, <3>2
    <3>3. CASE j > k + 1
      <4>1. CASE i <= k
        <5>1. M[i] = L[i] /\ M[j] = L[j - 1] /\ i \in 1..k /\ j - 1 \in k + 1..n
          BY <1>1, <1>2, <1>3, <2>2, <3>3, <4>1
        <5>2. L[i].start <= r.start /\ r.start <= L[j - 1].start
          BY <1>2, <5>1
        <5>3. i \in 1..n /\ j - 1 \in 1..n
          BY <1>1, <1>2, <5>1
        <5> QED BY <1>1, <5>1, <5>2, <5>3
      <4>2. CASE i = k + 1
        <5>1. M[i] = r /\ M[j] = L[j - 1] /\ j - 1 \in k + 1..n
          BY <1>1, <1>2, <1>3, <2>2, <3>3, <4>2
        <5> QED BY <1>2, <5>1
      <4>3. CASE i > k + 1
        <5>1. /\ M[i] = L[i - 1] /\ M[j] = L[j - 1]
              /\ i - 1 \in 1..n /\ j - 1 \in 1..n /\ i - 1 < j - 1
          BY <1>1, <1>2, <1>3, <2>2, <3>3, <4>3
        <5> QED BY <2>1, <5>1
      <4> QED BY <1>2, <4>1, <4>2, <4>3
    <3> QED BY <1>2, <3>1, <3>2, <3>3
  <2> QED BY <1>3, <2>2 DEF Sorted
<1>5. Named(M)
  <2>1. \A i, j \in 1..n : Id(L[i]) = Id(L[j]) => i = j
    BY DEF Ordered, Named
  <2>2. \A i \in 1..n : Id(L[i]) # Id(r)
    BY <1>1
  <2>3. ASSUME NEW i \in 1..n + 1, NEW j \in 1..n + 1, Id(M[i]) = Id(M[j])
        PROVE  i = j
    <3>1. CASE i = k + 1 \/ j = k + 1
      <4>1. M[k + 1] = r
        BY <1>1, <1>2, <1>3
      <4>2. ASSUME NEW x \in 1..n + 1, x # k + 1 PROVE Id(M[x]) # Id(r)
        BY <1>1, <1>2, <1>3, <2>2, <4>2
      <4> QED BY <2>3, <3>1, <4>1, <4>2
    <3>2. CASE i # k + 1 /\ j # k + 1
      <4> DEFINE a == IF i <= k THEN i ELSE i - 1
                 b == IF j <= k THEN j ELSE j - 1
      <4>1. a \in 1..n /\ b \in 1..n /\ M[i] = L[a] /\ M[j] = L[b]
        BY <1>1, <1>2, <1>3, <3>2
      <4>2. a = b
        <5> HIDE DEF a, b
        <5> QED BY <2>1, <2>3, <4>1
      <4> QED BY <1>2, <3>2, <4>2
    <3> QED BY <3>1, <3>2
  <2> QED BY <1>3, <2>3 DEF Named
<1>6. ToSet(M) = ToSet(L) \cup {r}
  <2>1. \A x : x \in ToSet(M) <=> \E i \in 1..n + 1 : M[i] = x
    BY <1>3, MemberIff
  <2>2. \A x : x \in ToSet(L) <=> \E i \in 1..n : L[i] = x
    BY <1>1, MemberIff
  <2>3. ASSUME NEW i \in 1..n + 1 PROVE M[i] \in ToSet(L) \cup {r}
    <3>1. CASE i <= k
      <4>1. i \in 1..n /\ M[i] = L[i]
        BY <1>1, <1>2, <1>3, <3>1
      <4> QED BY <1>1, <4>1
    <3>2. CASE i = k + 1
      <4>1. M[i] = r
        BY <1>2, <1>3, <3>2
      <4> QED BY <4>1
    <3>3. CASE i > k + 1
      <4>1. i - 1 \in 1..n /\ M[i] = L[i - 1]
        BY <1>1, <1>2, <1>3, <3>3
      <4> QED BY <1>1, <4>1
    <3> QED BY <1>2, <3>1, <3>2, <3>3
  <2>4. ASSUME NEW i \in 1..n PROVE L[i] \in ToSet(M)
    <3>1. CASE i <= k
      <4>1. i \in 1..n + 1 /\ M[i] = L[i]
        BY <1>1, <1>3, <3>1
      <4> QED BY <2>1, <4>1
    <3>2. CASE i > k
      <4>1. i + 1 \in 1..n + 1 /\ M[i + 1] = L[i]
        BY <1>1, <1>2, <1>3, <3>2
      <4> QED BY <2>1, <4>1
    <3> QED BY <1>2, <3>1, <3>2
  <2>5. r \in ToSet(M)
    <3>1. k + 1 \in 1..n + 1 /\ M[k + 1] = r
      BY <1>1, <1>2, <1>3
    <3> QED BY <2>1, <3>1
  <2> QED BY <2>1, <2>2, <2>3, <2>4, <2>5
<1> QED BY <1>3, <1>4, <1>5, <1>6 DEF Ordered, M, k

(* The record before f, or the head, is where something that starts with f   *)
(* may be inserted once f is gone.                                           *)
LEMMA PrevFacts ==
    ASSUME NEW L, Ordered(L), NEW f \in ToSet(L)
    PROVE  /\ PrevOf(L, Id(f)) \in Rec \cup {NULL}
           /\ Fit(ToSet(L) \ {f}, PrevOf(L, Id(f)), f.start)
<1> DEFINE k == IndexOf(L, Id(f))
           n == Len(L)
<1>1. k \in 1..n /\ L[k] = f /\ f \in Filock /\ n \in Nat
  BY IndexFacts
<1>2. L \in Seq(Filock) /\ DOMAIN L = 1..n
  BY DEF Ordered
<1>3. PrevOf(L, Id(f)) = IF k - 1 \in 1..n THEN Id(L[k - 1]) ELSE NULL
  BY <1>2 DEF PrevOf, IdAt
<1> HIDE DEF k
<1>s. \A i, j \in 1..n : i < j => L[i].start <= L[j].start
  BY DEF Ordered, Sorted
<1>m. \A x : x \in ToSet(L) <=> \E i \in 1..n : L[i] = x
  BY <1>2, MemberIff
<1>4. CASE k = 1
  <2>1. PrevOf(L, Id(f)) = NULL
    BY <1>3, <1>4
  <2>2. ASSUME NEW g \in ToSet(L) \ {f} PROVE f.start <= g.start
    BY <1>1, <1>4, <1>s, <1>m
  <2> QED BY <2>1, <2>2 DEF Fit
<1>5. CASE k # 1
  <2>1. k - 1 \in 1..n /\ k - 1 < k
    BY <1>1, <1>5
  <2>2. PrevOf(L, Id(f)) = Id(L[k - 1])
    BY <1>3, <2>1
  <2>3. L[k - 1] \in Filock /\ L[k - 1] \in ToSet(L) /\ L[k - 1].start <= f.start
    BY <1>1, <1>2, <1>s, <1>m, <2>1
  <2>4. L[k - 1] # f
    <3>1. Id(L[k - 1]) = Id(L[k]) => k - 1 = k
      BY <1>1, <2>1 DEF Ordered, Named
    <3> QED BY <1>1, <2>1, <3>1
  <2>5. Id(L[k - 1]) \in Rec /\ Id(L[k - 1]) # NULL
    BY <2>3, FilockFacts
  <2> QED BY <2>2, <2>3, <2>4, <2>5 DEF Fit
<1> QED BY <1>4, <1>5

(* g lies before the lock l, or behind it, and cannot be joined with it. *)
Before(g, l) == IF g.type = l.type THEN g.end + 1 < l.start ELSE g.end < l.start
After(g, l)  == IF g.type = l.type THEN l.end + 1 < g.start ELSE l.end < g.start

(* No record is empty, and those of one owner neither overlap nor could be   *)
(* joined.                                                                   *)
Clear(F) ==
    \A f \in F : /\ f.start <= f.end
                 /\ \A g \in F : f # g /\ f.own = g.own => Before(f, g) \/ After(f, g)

(* The states of the loop of flckadj. *)
State == [L : Seq(Filock), ld : Lock, insrtp : Rec \cup {NULL}, wake : SUBSET Rec,
          at : {"scan", "stop", "done", "ENOLCK"}]

(* The fields of a lock. *)
LEMMA LockFacts ==
    ASSUME NEW l \in Lock
    PROVE  /\ l.own \in Proc /\ l.type \in {F_RDLCK, F_WRLCK, F_UNLCK}
           /\ l.start \in Nat /\ l.end \in Nat /\ l.start <= MAXEND /\ l.end <= MAXEND
           /\ MAXEND \in Nat
BY FlockAssumption DEF Lock, Byte

(* The fields of a state of the loop. *)
LEMMA StateFacts ==
    ASSUME NEW s \in State
    PROVE  /\ s.L \in Seq(Filock) /\ s.ld \in Lock /\ s.insrtp \in Rec \cup {NULL}
           /\ s.wake \in SUBSET Rec /\ s.at \in {"scan", "stop", "done", "ENOLCK"}
           /\ s = [L |-> s.L, ld |-> s.ld, insrtp |-> s.insrtp, wake |-> s.wake, at |-> s.at]
BY DEF State

(* What regflck answers, from the ends of the two ranges. *)
LEMMA RegflckFacts ==
    ASSUME NEW l \in Lock, NEW f \in Filock, l.start <= l.end, f.start <= f.end
    PROVE  /\ l.end + 1 < f.start => Regflck(l, f) = <<"S_BEFORE", "E_BEFORE">>
           /\ l.end + 1 = f.start => Regflck(l, f) = <<"S_BEFORE", "E_START">>
           /\ l.start < f.start /\ f.start <= l.end /\ l.end < f.end
                => Regflck(l, f) = <<"S_BEFORE", "E_MIDDLE">>
           /\ l.start < f.start /\ l.end = f.end => Regflck(l, f) = <<"S_BEFORE", "E_END">>
           /\ l.start < f.start /\ l.end > f.end => Regflck(l, f) = <<"S_BEFORE", "E_AFTER">>
           /\ l.start = f.start /\ l.end < f.end => Regflck(l, f) = <<"S_START", "E_MIDDLE">>
           /\ l.start = f.start /\ l.end = f.end => Regflck(l, f) = <<"S_START", "E_END">>
           /\ l.start = f.start /\ l.end > f.end => Regflck(l, f) = <<"S_START", "E_AFTER">>
           /\ l.start > f.start /\ l.end < f.end => Regflck(l, f) = <<"S_MIDDLE", "E_MIDDLE">>
           /\ l.start > f.start /\ l.end = f.end => Regflck(l, f) = <<"S_MIDDLE", "E_END">>
           /\ l.start > f.start /\ l.start <= f.end /\ l.end > f.end
                => Regflck(l, f) = <<"S_MIDDLE", "E_AFTER">>
           /\ l.start = f.end + 1 => Regflck(l, f) = <<"S_END", "E_AFTER">>
           /\ l.start > f.end + 1 => Regflck(l, f) = <<"S_AFTER", "E_AFTER">>
<1>1. /\ l.start \in Nat /\ l.end \in Nat /\ f.start \in Nat /\ f.end \in Nat
  BY LockFacts, FilockFacts
<1> DEFINE a == l.start b == l.end x == f.start y == f.end
<1>2. Regflck(l, f) = 
    IF a > x /\ a - 1 = y THEN <<"S_END", "E_AFTER">>
    ELSE IF a > x /\ a > y THEN <<"S_AFTER", "E_AFTER">>
    ELSE << CASE a > x -> "S_MIDDLE"
              [] a = x -> "S_START"
              [] a < x -> "S_BEFORE",
            CASE b = y -> "E_END"
              [] b > y -> "E_AFTER"
              [] b < y /\ b = x - 1 -> "E_START"
              [] b < y /\ b < x - 1 -> "E_BEFORE"
              [] b < y /\ b > x - 1 -> "E_MIDDLE" >>
  BY DEF Regflck
<1>3. a \in Nat /\ b \in Nat /\ x \in Nat /\ y \in Nat /\ a <= b /\ x <= y
  BY <1>1
<1> HIDE DEF a, b, x, y
<1> DEFINE S == CASE a > x -> "S_MIDDLE"
              [] a = x -> "S_START"
              [] a < x -> "S_BEFORE"
           E == CASE b = y -> "E_END"
              [] b > y -> "E_AFTER"
              [] b < y /\ b = x - 1 -> "E_START"
              [] b < y /\ b < x - 1 -> "E_BEFORE"
              [] b < y /\ b > x - 1 -> "E_MIDDLE"
<1>4. /\ a > x => S = "S_MIDDLE"
      /\ a = x => S = "S_START"
      /\ a < x => S = "S_BEFORE"
  BY <1>3
<1>5. /\ b = y => E = "E_END"
      /\ b > y => E = "E_AFTER"
      /\ b + 1 = x => E = "E_START"
      /\ b + 1 < x => E = "E_BEFORE"
      /\ b < y /\ x <= b => E = "E_MIDDLE"
  BY <1>3
<1> HIDE DEF S, E
<1>6. Regflck(l, f) = 
    IF a > x /\ a - 1 = y THEN <<"S_END", "E_AFTER">>
    ELSE IF a > x /\ a > y THEN <<"S_AFTER", "E_AFTER">>
    ELSE <<S, E>>
  BY <1>2 DEF S, E
<1>7. /\ b + 1 < x => Regflck(l, f) = <<"S_BEFORE", "E_BEFORE">>
      /\ b + 1 = x => Regflck(l, f) = <<"S_BEFORE", "E_START">>
      /\ a < x /\ x <= b /\ b < y => Regflck(l, f) = <<"S_BEFORE", "E_MIDDLE">>
      /\ a < x /\ b = y => Regflck(l, f) = <<"S_BEFORE", "E_END">>
      /\ a < x /\ b > y => Regflck(l, f) = <<"S_BEFORE", "E_AFTER">>
      /\ a = x /\ b < y => Regflck(l, f) = <<"S_START", "E_MIDDLE">>
      /\ a = x /\ b = y => Regflck(l, f) = <<"S_START", "E_END">>
      /\ a = x /\ b > y => Regflck(l, f) = <<"S_START", "E_AFTER">>
      /\ a > x /\ b < y => Regflck(l, f) = <<"S_MIDDLE", "E_MIDDLE">>
      /\ a > x /\ b = y => Regflck(l, f) = <<"S_MIDDLE", "E_END">>
      /\ a > x /\ a <= y /\ b > y => Regflck(l, f) = <<"S_MIDDLE", "E_AFTER">>
      /\ a = y + 1 => Regflck(l, f) = <<"S_END", "E_AFTER">>
      /\ a > y + 1 => Regflck(l, f) = <<"S_AFTER", "E_AFTER">>
  BY <1>3, <1>4, <1>5, <1>6
<1> QED BY <1>7 DEF a, b, x, y

(* The loop ends; insflck comes next. *)
Stopping(t) == IF t.at = "scan" THEN [t EXCEPT !.at = "stop"] ELSE t

(* One turn of flckadj, sorted by how the ranges lie and not by the answer   *)
(* of regflck: the cases are those of the loop at flock.c 205.               *)
LEMMA AdjustFacts ==
    ASSUME NEW s \in State, NEW f \in Filock, NEW nomem, s.at = "scan", f.own = s.ld.own,
           s.ld.start <= s.ld.end, f.start <= f.end
    PROVE  LET t == Adjust(s, f, nomem)
               a == s.ld.start
               b == s.ld.end
               x == f.start
               y == f.end
               same == s.ld.type = f.type
           IN  /\ b + 1 < x => t = Stopping(s)
               /\ b + 1 = x /\ ~same => t = Stopping(s)
               /\ b + 1 = x /\ same => t = Stopping([Delflck(s, f) EXCEPT !.ld.end = y])
               /\ same /\ x <= a /\ b <= y => t = [s EXCEPT !.at = "done"]
               /\ a = x /\ (b > y \/ (b = y /\ ~same))
                    => t = [Delflck(s, f) EXCEPT !.insrtp = PrevOf(s.L, Id(f))]
               /\ a < x /\ b = y /\ same => t = Stopping(Delflck(s, f))
               /\ a < x /\ (b > y \/ (b = y /\ ~same)) => t = Delflck(s, f)
               /\ a < x /\ x <= b /\ b < y /\ same
                    => t = Stopping([Delflck(s, f) EXCEPT !.ld.end = y])
               /\ a = x /\ b < y /\ ~same
                    => t = Stopping(Split([s EXCEPT !.insrtp = PrevOf(s.L, Id(f))], f, nomem))
               /\ a # x /\ x <= b /\ b < y /\ ~same => t = Stopping(Split(s, f, nomem))
               /\ x < a /\ a <= y /\ b >= y /\ ~same => t = Trim(s, f)
               /\ x < a /\ a <= y + 1 /\ b > y /\ same => t = JoinBefore(s, f)
               /\ a = y + 1 /\ ~same => t = s
               /\ a > y + 1 => t = [s EXCEPT !.insrtp = Id(f)]
<1> DEFINE a == s.ld.start b == s.ld.end x == f.start y == f.end same == s.ld.type = f.type
           reg == Regflck(s.ld, f)
           t == Adjust(s, f, nomem)
<1>1. a \in Nat /\ b \in Nat /\ x \in Nat /\ y \in Nat /\ a <= b /\ x <= y
  BY LockFacts, FilockFacts, StateFacts
<1>2. /\ b + 1 < x => reg = <<"S_BEFORE", "E_BEFORE">>
      /\ b + 1 = x => reg = <<"S_BEFORE", "E_START">>
      /\ a < x /\ x <= b /\ b < y => reg = <<"S_BEFORE", "E_MIDDLE">>
      /\ a < x /\ b = y => reg = <<"S_BEFORE", "E_END">>
      /\ a < x /\ b > y => reg = <<"S_BEFORE", "E_AFTER">>
      /\ a = x /\ b < y => reg = <<"S_START", "E_MIDDLE">>
      /\ a = x /\ b = y => reg = <<"S_START", "E_END">>
      /\ a = x /\ b > y => reg = <<"S_START", "E_AFTER">>
      /\ a > x /\ b < y => reg = <<"S_MIDDLE", "E_MIDDLE">>
      /\ a > x /\ b = y => reg = <<"S_MIDDLE", "E_END">>
      /\ a > x /\ a <= y /\ b > y => reg = <<"S_MIDDLE", "E_AFTER">>
      /\ a = y + 1 => reg = <<"S_END", "E_AFTER">>
      /\ a > y + 1 => reg = <<"S_AFTER", "E_AFTER">>
  BY RegflckFacts, StateFacts
<1>3. /\ reg = <<"S_BEFORE", "E_BEFORE">> => t = Stopping(s)
      /\ reg = <<"S_BEFORE", "E_START">> =>
                t = IF same THEN Stopping([Delflck(s, f) EXCEPT !.ld.end = f.end]) ELSE Stopping(s)
      /\ same /\ reg \in {"S_START", "S_MIDDLE"} \X {"E_MIDDLE", "E_END"} =>
                t = [s EXCEPT !.at = "done"]
      /\ reg = <<"S_START", "E_AFTER">> \/ (reg = <<"S_START", "E_END">> /\ ~same) =>
                t = [Delflck(s, f) EXCEPT !.insrtp = PrevOf(s.L, Id(f))]
      /\ reg = <<"S_BEFORE", "E_END">> =>
                t = IF same THEN Stopping(Delflck(s, f)) ELSE Delflck(s, f)
      /\ reg = <<"S_BEFORE", "E_AFTER">> => t = Delflck(s, f)
      /\ reg = <<"S_BEFORE", "E_MIDDLE">> /\ same =>
                t = Stopping([Delflck(s, f) EXCEPT !.ld.end = f.end])
      /\ reg = <<"S_START", "E_MIDDLE">> /\ ~same =>
                t = Stopping(Split([s EXCEPT !.insrtp = PrevOf(s.L, Id(f))], f, nomem))
      /\ reg \in {<<"S_BEFORE", "E_MIDDLE">>, <<"S_MIDDLE", "E_MIDDLE">>} /\ ~same =>
                t = Stopping(Split(s, f, nomem))
      /\ reg = <<"S_MIDDLE", "E_END">> /\ ~same => t = Trim(s, f)
      /\ reg = <<"S_MIDDLE", "E_AFTER">> =>
                t = IF same THEN JoinBefore(s, f) ELSE Trim(s, f)
      /\ reg = <<"S_END", "E_AFTER">> => t = IF same THEN JoinBefore(s, f) ELSE s
      /\ reg = <<"S_AFTER", "E_AFTER">> => t = [s EXCEPT !.insrtp = Id(f)]
  <2> HIDE DEF reg
  <2>1. t = 
        CASE reg = <<"S_BEFORE", "E_BEFORE">> -> Stopping(s)
          [] reg = <<"S_BEFORE", "E_START">> ->
                IF same THEN Stopping([Delflck(s, f) EXCEPT !.ld.end = f.end]) ELSE Stopping(s)
          [] same /\ reg \in {"S_START", "S_MIDDLE"} \X {"E_MIDDLE", "E_END"} ->
                [s EXCEPT !.at = "done"]
          [] reg[1] = "S_START" /\ (reg[2] = "E_AFTER" \/ (reg[2] = "E_END" /\ ~same)) ->
                [Delflck(s, f) EXCEPT !.insrtp = PrevOf(s.L, Id(f))]
          [] reg = <<"S_BEFORE", "E_END">> ->
                IF same THEN Stopping(Delflck(s, f)) ELSE Delflck(s, f)
          [] reg = <<"S_BEFORE", "E_AFTER">> -> Delflck(s, f)
          [] reg = <<"S_BEFORE", "E_MIDDLE">> /\ same ->
                Stopping([Delflck(s, f) EXCEPT !.ld.end = f.end])
          [] reg[2] = "E_MIDDLE" /\ ~same ->
                Stopping(Split(IF reg[1] = "S_START" THEN [s EXCEPT !.insrtp = PrevOf(s.L, Id(f))]
                           ELSE s, f, nomem))
          [] reg = <<"S_MIDDLE", "E_END">> /\ ~same -> Trim(s, f)
          [] reg = <<"S_MIDDLE", "E_AFTER">> ->
                IF same THEN JoinBefore(s, f) ELSE Trim(s, f)
          [] reg = <<"S_END", "E_AFTER">> -> IF same THEN JoinBefore(s, f) ELSE s
          [] reg = <<"S_AFTER", "E_AFTER">> -> [s EXCEPT !.insrtp = Id(f)]
    BY DEF Adjust, Stopping, reg
  <2> HIDE DEF same, t
  <2> QED BY <2>1
<1> HIDE DEF a, b, x, y, same, reg, t
<1>4. /\ b + 1 < x => t = Stopping(s)
      /\ b + 1 = x /\ ~same => t = Stopping(s)
      /\ b + 1 = x /\ same => t = Stopping([Delflck(s, f) EXCEPT !.ld.end = f.end])
      /\ same /\ x <= a /\ b <= y => t = [s EXCEPT !.at = "done"]
      /\ a = x /\ (b > y \/ (b = y /\ ~same))
           => t = [Delflck(s, f) EXCEPT !.insrtp = PrevOf(s.L, Id(f))]
      /\ a < x /\ b = y /\ same => t = Stopping(Delflck(s, f))
      /\ a < x /\ (b > y \/ (b = y /\ ~same)) => t = Delflck(s, f)
      /\ a < x /\ x <= b /\ b < y /\ same
           => t = Stopping([Delflck(s, f) EXCEPT !.ld.end = f.end])
      /\ a = x /\ b < y /\ ~same
           => t = Stopping(Split([s EXCEPT !.insrtp = PrevOf(s.L, Id(f))], f, nomem))
      /\ a # x /\ x <= b /\ b < y /\ ~same => t = Stopping(Split(s, f, nomem))
      /\ x < a /\ a <= y /\ b >= y /\ ~same => t = Trim(s, f)
      /\ x < a /\ a <= y + 1 /\ b > y /\ same => t = JoinBefore(s, f)
      /\ a = y + 1 /\ ~same => t = s
      /\ a > y + 1 => t = [s EXCEPT !.insrtp = Id(f)]
  BY <1>1, <1>2, <1>3
<1> QED BY <1>4 DEF a, b, x, y, same, t

(* A record of F locks the byte b for p, in type t. *)
Covers(F, p, b, t) ==
    \E g \in F : g.own = p /\ g.type = t /\ g.start <= b /\ b <= g.end

(* What the records F, the lock ld as joined so far and the records woken    *)
(* still know of the list F0 that the call of l began with: a record that is *)
(* gone or changed was woken if anybody may sleep on it; other owners'       *)
(* records are as they were; no byte is locked that was not; bytes that are  *)
(* unlocked are in ld; and what ld has beyond l was locked in l's type.      *)
Kept(F0, F, ld, wake, l) ==
    /\ \A g \in F0 : g \in F \/ (g.wakeflg => Id(g) \in wake)
    /\ \A g : g.own # l.own => (g \in F <=> g \in F0)
    /\ \A b \in Byte, t \in {F_RDLCK, F_WRLCK} :
          /\ Covers(F, l.own, b, t) => Covers(F0, l.own, b, t)
          /\ Covers(F0, l.own, b, t) => Covers(F, l.own, b, t) \/ (ld.start <= b /\ b <= ld.end)
    /\ \A b \in Byte : /\ ld.start <= b /\ b <= ld.end
                       /\ ~(l.start <= b /\ b <= l.end)
                       => Covers(F0, l.own, b, l.type)

(* A state in which the list is in order and its records are clear of one    *)
(* another.                                                                  *)
Sound(s) == s \in State /\ Ordered(s.L) /\ Clear(ToSet(s.L))

(* ld is l, or has grown by records it was joined with. *)
Joined(ld, l) ==
    ld.own = l.own /\ ld.type = l.type /\ ld.start <= l.start /\ l.end <= ld.end

(* How far the loop has come.  The records R are still to be visited; those  *)
(* of the owner already visited lie before ld.  When the loop stops, ld is   *)
(* clear of all of them; when there is nothing to do, one of them has all of *)
(* ld; and insrtp is a place from which to look for ld's.                    *)
Cut(s, R, l) ==
    /\ s.at = "scan" =>
          /\ R \subseteq ToSet(s.L) /\ s.ld.end = l.end
          /\ \A g \in ToSet(s.L) \ R : g.own = l.own => Before(g, s.ld)
    /\ s.at = "stop" =>
          \A g \in ToSet(s.L) : g.own = l.own => Before(g, s.ld) \/ After(g, s.ld)
    /\ s.at = "done" =>
          \E g \in ToSet(s.L) : /\ g.own = l.own /\ g.type = l.type
                                /\ g.start <= s.ld.start /\ s.ld.end <= g.end
    /\ s.at \in {"scan", "stop"} /\ l.type # F_UNLCK => Fit(ToSet(s.L), s.insrtp, s.ld.start)

(* The invariant of the loop of flckadj. *)
ScanInv(s, F0, R, l) ==
    Sound(s) /\ Joined(s.ld, l) /\ Cut(s, R, l) /\ Kept(F0, ToSet(s.L), s.ld, s.wake, l)

(* A turn of the loop visits f, the first of the records that remain. *)
Turn(s, F0, R, l, f) ==
    /\ l \in Lock /\ l.start <= l.end /\ F0 \subseteq Filock
    /\ R \subseteq F0 /\ f \in R /\ \A g \in R : f.start <= g.start
    /\ ScanInv(s, F0, R, l) /\ s.at = "scan"

(* What a turn may rely on. *)
LEMMA TurnFacts ==
    ASSUME NEW s, NEW F0, NEW R, NEW l, NEW f, Turn(s, F0, R, l, f)
    PROVE  /\ s \in State /\ s.ld \in Lock /\ f \in Filock /\ f \in ToSet(s.L) /\ f \in F0
           /\ Ordered(s.L) /\ Clear(ToSet(s.L)) /\ ToSet(s.L) \subseteq Filock
           /\ s.ld.own = l.own /\ s.ld.type = l.type
           /\ s.ld.start <= s.ld.end /\ f.start <= f.end
           /\ \A g \in R \ {f} : g.own = l.own /\ f.own = l.own => After(g, f)
<1>1. /\ s \in State /\ f \in Filock /\ f \in ToSet(s.L) /\ f \in F0
      /\ Ordered(s.L) /\ Clear(ToSet(s.L)) /\ f.start <= f.end
      /\ l \in Lock /\ l.start <= l.end
      /\ s.ld.own = l.own /\ s.ld.type = l.type /\ s.ld.start <= l.start /\ l.end <= s.ld.end
  BY DEF Turn, ScanInv, Sound, Joined, Cut, Clear
<1>2. s.ld \in Lock
  BY <1>1, StateFacts
<1>3. s.ld.start <= s.ld.end
  BY <1>1, <1>2, LockFacts
<1>4. ToSet(s.L) \subseteq Filock
  <2>1. s.L \in Seq(Filock)
    BY <1>1 DEF Ordered
  <2> QED BY <2>1, MemberIff
<1>5. ASSUME NEW g \in R \ {f}, g.own = l.own, f.own = l.own PROVE After(g, f)
  <2>1. g \in ToSet(s.L) /\ f.start <= g.start
    BY <1>5 DEF Turn, ScanInv, Cut
  <2>2. g.start <= g.end /\ (Before(g, f) \/ After(g, f))
    BY <1>1, <1>5, <2>1 DEF Clear
  <2>3. g \in Filock
    BY <1>4, <2>1
  <2>4. ~Before(g, f)
    BY <1>1, <2>1, <2>2, <2>3, FilockFacts DEF Before
  <2> QED BY <2>2, <2>4
<1> QED BY <1>1, <1>2, <1>3, <1>4, <1>5

(* Replacing f by parts N of it loses nothing if ld has the rest. *)
LEMMA ChangedKept ==
    ASSUME NEW F0 \in SUBSET Filock, NEW F \in SUBSET Filock, NEW ld \in Lock, NEW le \in Lock,
           NEW wake, NEW l \in Lock, NEW f \in F, NEW N \in SUBSET Filock,
           Kept(F0, F, ld, wake, l), f \in F0, f.own = l.own,
           \A g \in N : /\ g.own = l.own /\ g.type = f.type
                        /\ f.start <= g.start /\ g.end <= f.end,
           \A b \in Byte : f.start <= b /\ b <= f.end =>
                  (le.start <= b /\ b <= le.end) \/ \E g \in N : g.start <= b /\ b <= g.end,
           le.start <= ld.start, ld.end <= le.end,
           \A b \in Byte : le.start <= b /\ b <= le.end =>
                  \/ ld.start <= b /\ b <= ld.end
                  \/ f.type = l.type /\ f.start <= b /\ b <= f.end
    PROVE  Kept(F0, (F \ {f}) \cup N, le, IF f.wakeflg THEN wake \cup {Id(f)} ELSE wake, l)
<1> DEFINE G == (F \ {f}) \cup N
           w == IF f.wakeflg THEN wake \cup {Id(f)} ELSE wake
<1>t. /\ f \in Filock /\ f.start \in Nat /\ f.end \in Nat /\ f.type \in {F_RDLCK, F_WRLCK}
      /\ ld.start \in Nat /\ ld.end \in Nat /\ le.start \in Nat /\ le.end \in Nat
      /\ l.start \in Nat /\ l.end \in Nat /\ Byte \subseteq Nat
  BY LockFacts, FilockFacts DEF Byte
<1>n. \A g \in N : g.start \in Nat /\ g.end \in Nat
  BY FilockFacts
<1>1. ASSUME NEW g \in F0 PROVE g \in G \/ (g.wakeflg => Id(g) \in w)
  BY DEF Kept
<1>2. ASSUME NEW g, g.own # l.own PROVE g \in G <=> g \in F0
  BY <1>2 DEF Kept
<1>3. ASSUME NEW b \in Byte, NEW t \in {F_RDLCK, F_WRLCK}, Covers(G, l.own, b, t)
      PROVE  Covers(F0, l.own, b, t)
  <2>1. PICK g \in G : g.own = l.own /\ g.type = t /\ g.start <= b /\ b <= g.end
    BY <1>3 DEF Covers
  <2>2. CASE g \in F
    BY <2>1, <2>2 DEF Kept, Covers
  <2>3. CASE g \in N
    <3>1. f.type = t /\ f.start <= b /\ b <= f.end
      BY <1>t, <1>n, <2>1, <2>3
    <3> QED BY <3>1 DEF Covers
  <2> QED BY <2>2, <2>3
<1>4. ASSUME NEW b \in Byte, NEW t \in {F_RDLCK, F_WRLCK}, Covers(F0, l.own, b, t),
             ~(le.start <= b /\ b <= le.end)
      PROVE  Covers(G, l.own, b, t)
  <2>1. ~(ld.start <= b /\ b <= ld.end)
    BY <1>t, <1>4
  <2>2. Covers(F, l.own, b, t)
    BY <1>4, <2>1 DEF Kept
  <2>3. PICK g \in F : g.own = l.own /\ g.type = t /\ g.start <= b /\ b <= g.end
    BY <2>2 DEF Covers
  <2>4. CASE g # f
    BY <2>3, <2>4 DEF Covers
  <2>5. CASE g = f
    <3>1. PICK h \in N : h.start <= b /\ b <= h.end
      BY <1>4, <2>3, <2>5
    <3>2. h \in G /\ h.own = l.own /\ h.type = t
      BY <2>3, <2>5, <3>1
    <3> QED BY <3>1, <3>2 DEF Covers
  <2> QED BY <2>4, <2>5
<1>5. ASSUME NEW b \in Byte, le.start <= b /\ b <= le.end, ~(l.start <= b /\ b <= l.end)
      PROVE  Covers(F0, l.own, b, l.type)
  <2>1. CASE ld.start <= b /\ b <= ld.end
    BY <1>5, <2>1 DEF Kept
  <2>2. CASE f.type = l.type /\ f.start <= b /\ b <= f.end
    BY <2>2 DEF Covers
  <2> QED BY <1>5, <2>1, <2>2
<1> HIDE DEF G, w
<1>6. Kept(F0, G, le, w, l)
  BY <1>1, <1>2, <1>3, <1>4, <1>5 DEF Kept
<1> QED BY <1>6 DEF G, w

(* Parts of a record are clear of whatever the record is clear of. *)
LEMMA ChangedClear ==
    ASSUME NEW F \in SUBSET Filock, NEW f \in F, NEW N \in SUBSET Filock, Clear(F),
           \A g \in N : /\ g.own = f.own /\ g.type = f.type /\ g.start <= g.end
                        /\ f.start <= g.start /\ g.end <= f.end
                        /\ \A h \in N : g # h => Before(g, h) \/ After(g, h)
    PROVE  Clear((F \ {f}) \cup N)
<1> DEFINE G == (F \ {f}) \cup N
<1>t. \A g \in F \cup N : g.start \in Nat /\ g.end \in Nat
  BY FilockFacts
<1>1. ASSUME NEW h \in F \ {f}, NEW g \in N, h.own = g.own
      PROVE  (Before(h, g) /\ After(g, h)) \/ (After(h, g) /\ Before(g, h))
  <2>1. (Before(h, f) \/ After(h, f)) /\ f.start <= f.end
    BY <1>1 DEF Clear
  <2> QED BY <1>t, <2>1 DEF Before, After
<1>2. ASSUME NEW g \in G, NEW h \in G, g # h, g.own = h.own PROVE Before(g, h) \/ After(g, h)
  <2>1. CASE g \in N /\ h \in N
    BY <1>2, <2>1
  <2>2. CASE g \in N /\ h \in F \ {f}
    BY <1>1, <1>2, <2>2
  <2>3. CASE h \in N /\ g \in F \ {f}
    BY <1>1, <1>2, <2>3
  <2>4. CASE h \in F /\ g \in F
    BY <1>2, <2>4 DEF Clear
  <2> QED BY <2>1, <2>2, <2>3, <2>4
<1>3. ASSUME NEW g \in G PROVE g.start <= g.end
  BY DEF Clear
<1> HIDE DEF G
<1>4. Clear(G)
  BY <1>2, <1>3 DEF Clear
<1> QED BY <1>4 DEF G

(* The state after delflck. *)
LEMMA DelFields ==
    ASSUME NEW s \in State, NEW f \in Filock, Ordered(s.L), f \in ToSet(s.L)
    PROVE  LET t == Delflck(s, f)
           IN  /\ t \in State /\ t.ld = s.ld /\ t.insrtp = s.insrtp /\ t.at = s.at
               /\ t.wake = (IF f.wakeflg THEN s.wake \cup {Id(f)} ELSE s.wake)
               /\ Ordered(t.L) /\ ToSet(t.L) = ToSet(s.L) \ {f}
<1> DEFINE M == RemoveAt(s.L, IndexOf(s.L, Id(f)))
           w == WakeOf(s, f)
<1>1. Ordered(M) /\ ToSet(M) = ToSet(s.L) \ {f}
  BY RemoveRecord
<1>2. w = (IF f.wakeflg THEN s.wake \cup {Id(f)} ELSE s.wake) /\ w \in SUBSET Rec
  BY StateFacts, FilockFacts DEF WakeOf
<1>3. M \in Seq(Filock)
  BY <1>1 DEF Ordered
<1>4. Delflck(s, f) = [s EXCEPT !.L = M, !.wake = w]
  BY DEF Delflck
<1> HIDE DEF M, w
<1>5. LET t == Delflck(s, f)
      IN  t \in State /\ t.L = M /\ t.wake = w /\ t.ld = s.ld /\ t.insrtp = s.insrtp /\ t.at = s.at
  BY <1>2, <1>3, <1>4 DEF State
<1> QED BY <1>1, <1>2, <1>5

(* The state after a record is cut off before ld. *)
LEMMA TrimFields ==
    ASSUME NEW s \in State, NEW f \in Filock, Ordered(s.L), f \in ToSet(s.L),
           f.start < s.ld.start
    PROVE  LET t == Trim(s, f)
               g == [f EXCEPT !.end = s.ld.start - 1, !.wakeflg = FALSE]
           IN  /\ t \in State /\ t.ld = s.ld /\ t.insrtp = Id(f) /\ t.at = s.at
               /\ t.wake = (IF f.wakeflg THEN s.wake \cup {Id(f)} ELSE s.wake)
               /\ Ordered(t.L) /\ ToSet(t.L) = (ToSet(s.L) \ {f}) \cup {g}
               /\ g \in Filock /\ g.own = f.own /\ g.type = f.type /\ g.start = f.start
               /\ g.end = s.ld.start - 1 /\ Id(g) = Id(f)
<1> DEFINE g == [f EXCEPT !.end = s.ld.start - 1, !.wakeflg = FALSE]
           M == ReplaceAt(s.L, IndexOf(s.L, Id(f)), g)
           w == WakeOf(s, f)
<1>0. s.ld.start \in Nat /\ f.start \in Nat /\ s.ld.start <= MAXEND /\ MAXEND \in Nat
  BY LockFacts, StateFacts, FilockFacts
<1>1. /\ g \in Filock /\ g.own = f.own /\ g.type = f.type /\ g.start = f.start
      /\ g.end = s.ld.start - 1
  <2>1. s.ld.start - 1 \in Byte
    BY <1>0 DEF Byte
  <2> QED BY <2>1 DEF Filock
<1>2. Id(g) = Id(f)
  BY <1>1 DEF Id
<1> HIDE DEF g
<1>3. Ordered(M) /\ ToSet(M) = (ToSet(s.L) \ {f}) \cup {g}
  BY <1>1, <1>2, ReplaceRecord
<1>4. w = (IF f.wakeflg THEN s.wake \cup {Id(f)} ELSE s.wake) /\ w \in SUBSET Rec
  BY StateFacts, FilockFacts DEF WakeOf
<1>5. M \in Seq(Filock)
  BY <1>3 DEF Ordered
<1>6. Trim(s, f) = [s EXCEPT !.L = M, !.wake = w, !.insrtp = Id(f)]
  BY DEF Trim, g
<1> HIDE DEF M, w
<1>7. Id(f) \in Rec
  BY FilockFacts
<1>8. LET t == Trim(s, f)
      IN  t \in State /\ t.L = M /\ t.wake = w /\ t.ld = s.ld /\ t.insrtp = Id(f) /\ t.at = s.at
  BY <1>4, <1>5, <1>6, <1>7 DEF State
<1> QED BY <1>1, <1>2, <1>3, <1>4, <1>8 DEF g

(* The turn leaves list, lock and sleepers alone. *)
LEMMA TurnKeep ==
    ASSUME NEW s, NEW F0, NEW R, NEW l, NEW f, Turn(s, F0, R, l, f), NEW t \in State,
           t.L = s.L, t.ld = s.ld, t.wake = s.wake, Cut(t, R \ {f}, l)
    PROVE  ScanInv(t, F0, R \ {f}, l)
  BY DEF Turn, ScanInv, Sound

(* The turn takes f out, or leaves parts of it. *)
LEMMA TurnChange ==
    ASSUME NEW s, NEW F0, NEW R, NEW l, NEW f, Turn(s, F0, R, l, f), NEW t \in State,
           f.own = l.own,
           NEW N \in SUBSET Filock, Ordered(t.L), ToSet(t.L) = (ToSet(s.L) \ {f}) \cup N,
           \A g \in N : /\ g.own = f.own /\ g.type = f.type /\ g.start <= g.end
                        /\ f.start <= g.start /\ g.end <= f.end
                        /\ \A h \in N : g # h => Before(g, h) \/ After(g, h),
           \A b \in Byte : f.start <= b /\ b <= f.end =>
                  (t.ld.start <= b /\ b <= t.ld.end) \/ \E g \in N : g.start <= b /\ b <= g.end,
           t.ld.own = s.ld.own, t.ld.type = s.ld.type,
           t.ld.start <= s.ld.start, s.ld.end <= t.ld.end,
           \A b \in Byte : t.ld.start <= b /\ b <= t.ld.end =>
                  \/ s.ld.start <= b /\ b <= s.ld.end
                  \/ f.type = l.type /\ f.start <= b /\ b <= f.end,
           t.wake = (IF f.wakeflg THEN s.wake \cup {Id(f)} ELSE s.wake),
           Cut(t, R \ {f}, l)
    PROVE  ScanInv(t, F0, R \ {f}, l)
<1>1. /\ s \in State /\ s.ld \in Lock /\ f \in Filock /\ f \in ToSet(s.L) /\ f \in F0
      /\ Clear(ToSet(s.L)) /\ ToSet(s.L) \subseteq Filock
      /\ s.ld.own = l.own /\ s.ld.type = l.type
  BY TurnFacts
<1>2. /\ F0 \subseteq Filock /\ l \in Lock /\ Kept(F0, ToSet(s.L), s.ld, s.wake, l)
      /\ Joined(s.ld, l)
  BY DEF Turn, ScanInv
<1>3. t.ld \in Lock
  BY StateFacts
<1>4. Clear(ToSet(t.L))
  <2> DEFINE F == ToSet(s.L)
  <2>1. F \in SUBSET Filock /\ f \in F /\ Clear(F)
    BY <1>1
  <2> HIDE DEF F
  <2>2. Clear((F \ {f}) \cup N)
    BY <2>1, ChangedClear
  <2> QED BY <2>2 DEF F
<1>5. Joined(t.ld, l)
  BY <1>1, <1>2, <1>3, LockFacts DEF Joined
<1>6. Kept(F0, ToSet(t.L), t.ld, t.wake, l)
  <2> DEFINE F == ToSet(s.L) w == s.wake d == s.ld e == t.ld
  <2>1. F \in SUBSET Filock /\ F0 \in SUBSET Filock /\ d \in Lock /\ e \in Lock /\ f \in F
    BY <1>1, <1>2, <1>3
  <2>2. /\ Kept(F0, F, d, w, l) /\ f \in F0 /\ f.own = l.own
        /\ e.start <= d.start /\ d.end <= e.end
        /\ \A g \in N : /\ g.own = l.own /\ g.type = f.type
                        /\ f.start <= g.start /\ g.end <= f.end
        /\ \A b \in Byte : f.start <= b /\ b <= f.end =>
                  (e.start <= b /\ b <= e.end) \/ \E g \in N : g.start <= b /\ b <= g.end
        /\ \A b \in Byte : e.start <= b /\ b <= e.end =>
                  \/ d.start <= b /\ b <= d.end
                  \/ f.type = l.type /\ f.start <= b /\ b <= f.end
    BY <1>1, <1>2
  <2>3. l \in Lock
    BY <1>2
  <2> HIDE DEF F, w, d, e
  <2>4. Kept(F0, (F \ {f}) \cup N, e, IF f.wakeflg THEN w \cup {Id(f)} ELSE w, l)
    BY <2>1, <2>2, <2>3, ChangedKept
  <2> QED BY <2>4 DEF F, w, d, e
<1> QED BY <1>4, <1>5, <1>6 DEF ScanInv, Sound

(* Ending the loop changes nothing else. *)
LEMMA StoppingFacts ==
    ASSUME NEW t \in State
    PROVE  /\ Stopping(t) \in State /\ Stopping(t).L = t.L /\ Stopping(t).ld = t.ld
           /\ Stopping(t).insrtp = t.insrtp /\ Stopping(t).wake = t.wake
           /\ Stopping(t).at = IF t.at = "scan" THEN "stop" ELSE t.at
  BY DEF Stopping, State

(* A record of another owner is passed over. *)
LEMMA TurnNotOwn ==
    ASSUME NEW s, NEW F0, NEW R, NEW l, NEW f, Turn(s, F0, R, l, f), f.own # l.own
    PROVE  ScanInv(s, F0, R \ {f}, l)
<1>1. s \in State
  BY TurnFacts
<1>2. Cut(s, R \ {f}, l)
  BY DEF Turn, ScanInv, Cut
<1> QED BY <1>1, <1>2, TurnKeep

(* ld ends before f, and does not join it. *)
LEMMA TurnBefore ==
    ASSUME NEW s, NEW F0, NEW R, NEW l, NEW f, Turn(s, F0, R, l, f), f.own = l.own,
           s.ld.end < f.start, s.ld.type = f.type => s.ld.end + 1 < f.start
    PROVE  ScanInv(Stopping(s), F0, R \ {f}, l)
<1> DEFINE t == Stopping(s)
<1>1. /\ s \in State /\ s.ld \in Lock /\ f \in Filock /\ f \in ToSet(s.L)
      /\ ToSet(s.L) \subseteq Filock /\ f.start <= f.end
      /\ \A g \in R \ {f} : g.own = l.own => After(g, f)
  BY TurnFacts
<1>2. s.at = "scan"
  BY DEF Turn
<1>3. /\ t \in State /\ t.L = s.L /\ t.ld = s.ld /\ t.insrtp = s.insrtp
      /\ t.wake = s.wake /\ t.at = "stop"
  BY <1>1, <1>2, StoppingFacts
<1>4. ASSUME NEW g \in ToSet(s.L), g.own = l.own PROVE Before(g, s.ld) \/ After(g, s.ld)
  <2>1. CASE g \notin R
    BY <1>4, <2>1 DEF Turn, ScanInv, Cut
  <2>2. CASE g = f
    BY <2>2 DEF After
  <2>3. CASE g \in R \ {f}
    <3>1. After(g, f) /\ g \in Filock
      BY <1>1, <1>4, <2>3
    <3> QED BY <1>1, <3>1, LockFacts, FilockFacts DEF After
  <2> QED BY <2>1, <2>2, <2>3
<1>5. l.type # F_UNLCK => Fit(ToSet(s.L), s.insrtp, s.ld.start)
  BY <1>2 DEF Turn, ScanInv, Cut
<1> HIDE DEF t
<1>6. Cut(t, R \ {f}, l)
  BY <1>3, <1>4, <1>5 DEF Cut
<1>7. ScanInv(t, F0, R \ {f}, l)
  BY <1>3, <1>6, TurnKeep
<1> QED BY <1>7 DEF t

(* f holds all of ld already. *)
LEMMA TurnDone ==
    ASSUME NEW s, NEW F0, NEW R, NEW l, NEW f, Turn(s, F0, R, l, f), f.own = l.own,
           s.ld.type = f.type, f.start <= s.ld.start, s.ld.end <= f.end
    PROVE  ScanInv([s EXCEPT !.at = "done"], F0, R \ {f}, l)
<1> DEFINE t == [s EXCEPT !.at = "done"]
<1>1. s \in State /\ f \in ToSet(s.L) /\ s.ld.type = l.type
  BY TurnFacts
<1>2. t \in State /\ t.L = s.L /\ t.ld = s.ld /\ t.wake = s.wake /\ t.at = "done"
  BY <1>1 DEF State
<1> HIDE DEF t
<1>3. Cut(t, R \ {f}, l)
  BY <1>1, <1>2 DEF Cut
<1>4. ScanInv(t, F0, R \ {f}, l)
  BY <1>2, <1>3, TurnKeep
<1> QED BY <1>4 DEF t

(* f ends before ld and does not join it; the place may move. *)
LEMMA TurnAfter ==
    ASSUME NEW s, NEW F0, NEW R, NEW l, NEW f, Turn(s, F0, R, l, f), f.own = l.own,
           f.end < s.ld.start, s.ld.type = f.type => f.end + 1 < s.ld.start,
           NEW t, t = s \/ t = [s EXCEPT !.insrtp = Id(f)]
    PROVE  ScanInv(t, F0, R \ {f}, l)
<1>1. /\ s \in State /\ f \in ToSet(s.L) /\ s.ld.type = l.type /\ f \in Filock /\ s.ld \in Lock
      /\ f.start <= f.end
  BY TurnFacts
<1>2. Id(f) \in Rec /\ Id(f) # NULL
  BY <1>1, FilockFacts
<1>3. /\ t \in State /\ t.L = s.L /\ t.ld = s.ld /\ t.wake = s.wake /\ t.at = s.at
      /\ t.insrtp \in {s.insrtp, Id(f)}
  BY <1>1, <1>2 DEF State
<1>4. Before(f, s.ld) /\ f.start <= s.ld.start
  BY <1>1, LockFacts, FilockFacts DEF Before
<1>5. l.type # F_UNLCK => Fit(ToSet(s.L), t.insrtp, s.ld.start)
  <2>1. Fit(ToSet(s.L), Id(f), s.ld.start)
    BY <1>1, <1>2, <1>4 DEF Fit
  <2> QED BY <1>3, <2>1 DEF Turn, ScanInv, Cut
<1>6. Cut(t, R \ {f}, l)
  BY <1>3, <1>4, <1>5 DEF Cut, Turn, ScanInv
<1> QED BY <1>3, <1>6, TurnKeep

(* f is deleted and the scan goes on: ld overlays f from f's start or      *)
(* before to f's end or behind.                                            *)
LEMMA TurnOverlay ==
    ASSUME NEW s, NEW F0, NEW R, NEW l, NEW f, Turn(s, F0, R, l, f), f.own = l.own,
           s.ld.start <= f.start, f.end <= s.ld.end,
           NEW t,
           \/ t = Delflck(s, f) /\ s.ld.start < f.start
           \/ t = [Delflck(s, f) EXCEPT !.insrtp = PrevOf(s.L, Id(f))] /\ s.ld.start = f.start
    PROVE  ScanInv(t, F0, R \ {f}, l)
<1> DEFINE d == Delflck(s, f)
           pv == PrevOf(s.L, Id(f))
<1>1. /\ s \in State /\ f \in ToSet(s.L) /\ s.ld.type = l.type /\ f \in Filock /\ s.ld \in Lock
      /\ f.start <= f.end /\ Ordered(s.L) /\ ToSet(s.L) \subseteq Filock
  BY TurnFacts
<1>2. /\ d \in State /\ d.ld = s.ld /\ d.insrtp = s.insrtp /\ d.at = s.at
      /\ d.wake = (IF f.wakeflg THEN s.wake \cup {Id(f)} ELSE s.wake)
      /\ Ordered(d.L) /\ ToSet(d.L) = ToSet(s.L) \ {f}
  BY <1>1, DelFields
<1>3. pv \in Rec \cup {NULL} /\ Fit(ToSet(s.L) \ {f}, pv, f.start)
  BY <1>1, PrevFacts
<1>4. /\ t \in State /\ t.ld = s.ld /\ t.at = s.at /\ t.L = d.L /\ t.wake = d.wake
      /\ \/ t.insrtp = s.insrtp /\ s.ld.start < f.start
         \/ t.insrtp = pv /\ s.ld.start = f.start
  <2>1. \/ t = d /\ s.ld.start < f.start
        \/ t = [d EXCEPT !.insrtp = pv] /\ s.ld.start = f.start
    OBVIOUS
  <2> HIDE DEF d, pv
  <2>2. CASE t = d /\ s.ld.start < f.start
    BY <1>2, <2>2
  <2>3. CASE t = [d EXCEPT !.insrtp = pv] /\ s.ld.start = f.start
    BY <1>2, <1>3, <2>3 DEF State
  <2> QED BY <2>1, <2>2, <2>3
<1> HIDE DEF d, pv
<1>5. l.type # F_UNLCK => Fit(ToSet(d.L), t.insrtp, t.ld.start)
  <2>1. CASE t.insrtp = s.insrtp /\ s.ld.start < f.start
    <3>1. ~(f.start <= s.ld.start)
      BY <1>1, <2>1, LockFacts, FilockFacts
    <3>2. l.type # F_UNLCK => Fit(ToSet(s.L), s.insrtp, s.ld.start)
      BY DEF Turn, ScanInv, Cut
    <3> QED BY <1>2, <1>4, <2>1, <3>1, <3>2 DEF Fit
  <2>2. CASE t.insrtp = pv /\ s.ld.start = f.start
    BY <1>2, <1>3, <1>4, <2>2
  <2> QED BY <1>4, <2>1, <2>2
<1>6. Cut(t, R \ {f}, l)
  <2>1. s.at = "scan" /\ R \subseteq ToSet(s.L) /\ s.ld.end = l.end
    BY DEF Turn, ScanInv, Cut
  <2>2. \A g \in ToSet(s.L) \ R : g.own = l.own => Before(g, s.ld)
    BY DEF Turn, ScanInv, Cut
  <2> QED BY <1>2, <1>4, <1>5, <2>1, <2>2 DEF Cut
<1>7. \A b \in Byte : f.start <= b /\ b <= f.end => t.ld.start <= b /\ b <= t.ld.end
  <2>1. ASSUME NEW b \in Byte, f.start <= b, b <= f.end PROVE s.ld.start <= b /\ b <= s.ld.end
    <3>1. b \in Nat
      BY <1>1, FilockFacts DEF Byte
    <3> QED BY <1>1, <2>1, <3>1, LockFacts, FilockFacts
  <2> QED BY <1>4, <2>1
<1>8. t.ld.start <= s.ld.start /\ s.ld.end <= t.ld.end
  BY <1>1, <1>4, LockFacts
<1>9. ToSet(t.L) = (ToSet(s.L) \ {f}) \cup {} /\ Ordered(t.L) /\ t \in State /\ t.ld = s.ld
      /\ t.wake = (IF f.wakeflg THEN s.wake \cup {Id(f)} ELSE s.wake)
  BY <1>2, <1>4
<1> QED
  <2> DEFINE N == {}
  <2>1. N \in SUBSET Filock /\ ToSet(t.L) = (ToSet(s.L) \ {f}) \cup N /\ \A g \in N : FALSE
    BY <1>9
  <2> HIDE DEF N
  <2> QED BY <1>6, <1>7, <1>8, <1>9, <2>1, TurnChange

(* f is of ld's type, starts before ld and reaches it: ld takes it over. *)
LEMMA TurnJoinBefore ==
    ASSUME NEW s, NEW F0, NEW R, NEW l, NEW f, Turn(s, F0, R, l, f), f.own = l.own,
           s.ld.type = f.type, f.start < s.ld.start, s.ld.start <= f.end + 1, f.end < s.ld.end
    PROVE  ScanInv(JoinBefore(s, f), F0, R \ {f}, l)
<1> DEFINE d == Delflck(s, f)
           t == JoinBefore(s, f)
           pv == PrevOf(s.L, Id(f))
<1>1. /\ s \in State /\ f \in ToSet(s.L) /\ s.ld.type = l.type /\ f \in Filock /\ s.ld \in Lock
      /\ f.start <= f.end /\ Ordered(s.L) /\ ToSet(s.L) \subseteq Filock /\ Clear(ToSet(s.L))
      /\ s.ld.own = l.own
  BY TurnFacts
<1>2. /\ d \in State /\ d.ld = s.ld /\ d.insrtp = s.insrtp /\ d.at = s.at
      /\ d.wake = (IF f.wakeflg THEN s.wake \cup {Id(f)} ELSE s.wake)
      /\ Ordered(d.L) /\ ToSet(d.L) = ToSet(s.L) \ {f}
  BY <1>1, DelFields
<1>3. pv \in Rec \cup {NULL} /\ Fit(ToSet(s.L) \ {f}, pv, f.start)
  BY <1>1, PrevFacts
<1>n. /\ s.ld.start \in Nat /\ s.ld.end \in Nat /\ f.start \in Nat /\ f.end \in Nat
      /\ f.start <= MAXEND /\ MAXEND \in Nat
  BY <1>1, LockFacts, FilockFacts
<1>4. /\ t \in State /\ t.ld.start = f.start /\ t.ld.end = s.ld.end /\ t.ld.own = s.ld.own
      /\ t.ld.type = s.ld.type /\ t.at = s.at /\ t.L = d.L /\ t.wake = d.wake /\ t.insrtp = pv
  <2>1. t = [d EXCEPT !.ld.start = f.start, !.insrtp = pv]
    BY DEF JoinBefore
  <2> DEFINE e == [s.ld EXCEPT !.start = f.start]
  <2>2. /\ e \in Lock /\ e.start = f.start /\ e.end = s.ld.end
        /\ e.own = s.ld.own /\ e.type = s.ld.type
    <3>1. f.start \in Byte
      BY <1>n DEF Byte
    <3> QED BY <1>1, <3>1 DEF Lock
  <2> HIDE DEF d, t, pv
  <2>3. t = [d EXCEPT !.ld = e, !.insrtp = pv]
    BY <1>2, <2>1 DEF State
  <2> HIDE DEF e
  <2>4. t \in State /\ t.ld = e /\ t.at = d.at /\ t.L = d.L /\ t.wake = d.wake /\ t.insrtp = pv
    BY <1>2, <1>3, <2>2, <2>3 DEF State
  <2> QED BY <1>2, <2>2, <2>4
<1> HIDE DEF d, t, pv
<1>5. ASSUME NEW g \in ToSet(s.L) \ R, g.own = l.own PROVE Before(g, t.ld)
  <2>1. Before(g, s.ld) /\ g # f
    BY <1>5 DEF Turn, ScanInv, Cut
  <2>2. g.start <= g.end /\ (Before(g, f) \/ After(g, f))
    BY <1>1, <1>5, <2>1 DEF Clear
  <2>3. g.start \in Nat /\ g.end \in Nat
    BY <1>1, FilockFacts
  <2>4. ~After(g, f)
    BY <1>n, <2>1, <2>2, <2>3 DEF Before, After
  <2> QED BY <1>4, <2>2, <2>4 DEF Before
<1>6. Cut(t, R \ {f}, l)
  <2>1. s.at = "scan" /\ R \subseteq ToSet(s.L) /\ s.ld.end = l.end
    BY DEF Turn, ScanInv, Cut
  <2>2. Fit(ToSet(t.L), t.insrtp, t.ld.start)
    BY <1>2, <1>3, <1>4
  <2>3. (R \ {f}) \subseteq ToSet(t.L) /\ t.ld.end = l.end
    BY <1>2, <1>4, <2>1
  <2>4. \A g \in ToSet(t.L) \ (R \ {f}) : g.own = l.own => Before(g, t.ld)
    BY <1>2, <1>4, <1>5
  <2>5. t.at = "scan"
    BY <1>4, <2>1
  <2> QED BY <2>2, <2>3, <2>4, <2>5 DEF Cut
<1>7. \A b \in Byte : f.start <= b /\ b <= f.end => t.ld.start <= b /\ b <= t.ld.end
  <2>1. ASSUME NEW b \in Byte, f.start <= b, b <= f.end PROVE f.start <= b /\ b <= s.ld.end
    BY <1>n, <2>1 DEF Byte
  <2> QED BY <1>4, <2>1
<1>8. t.ld.start <= s.ld.start /\ s.ld.end <= t.ld.end
  BY <1>n, <1>4
<1>9. ASSUME NEW b \in Byte, t.ld.start <= b, b <= t.ld.end
      PROVE  \/ s.ld.start <= b /\ b <= s.ld.end
             \/ f.type = l.type /\ f.start <= b /\ b <= f.end
  <2>1. f.start <= b /\ b <= s.ld.end /\ b \in Nat
    BY <1>n, <1>4, <1>9 DEF Byte
  <2>2. f.type = l.type
    BY <1>1
  <2> QED BY <1>n, <2>1, <2>2
<1> QED
  <2> DEFINE N == {}
  <2>1. N \in SUBSET Filock /\ ToSet(t.L) = (ToSet(s.L) \ {f}) \cup N /\ \A g \in N : FALSE
    BY <1>2, <1>4
  <2>2. /\ Ordered(t.L) /\ t \in State /\ t.ld.own = s.ld.own /\ t.ld.type = s.ld.type
        /\ t.wake = (IF f.wakeflg THEN s.wake \cup {Id(f)} ELSE s.wake)
    BY <1>2, <1>4
  <2> HIDE DEF N
  <2>3. ScanInv(t, F0, R \ {f}, l)
    BY <1>6, <1>7, <1>8, <1>9, <2>1, <2>2, TurnChange
  <2> QED BY <2>3 DEF t

(* f is of ld's type, starts behind ld's start and reaches up to its end   *)
(* or beyond: ld takes it over, and no other lock can be in the way.       *)
LEMMA TurnJoinAfter ==
    ASSUME NEW s, NEW F0, NEW R, NEW l, NEW f, Turn(s, F0, R, l, f), f.own = l.own,
           s.ld.type = f.type, s.ld.start < f.start, f.start <= s.ld.end + 1, s.ld.end <= f.end,
           NEW u,
           \/ u = Delflck(s, f) /\ f.end = s.ld.end
           \/ u = [Delflck(s, f) EXCEPT !.ld.end = f.end]
    PROVE  ScanInv(Stopping(u), F0, R \ {f}, l)
<1> DEFINE d == Delflck(s, f)
           t == Stopping(u)
<1>1. /\ s \in State /\ f \in ToSet(s.L) /\ s.ld.type = l.type /\ f \in Filock /\ s.ld \in Lock
      /\ f.start <= f.end /\ Ordered(s.L) /\ ToSet(s.L) \subseteq Filock /\ Clear(ToSet(s.L))
      /\ s.ld.own = l.own /\ s.ld.start <= s.ld.end
      /\ \A g \in R \ {f} : g.own = l.own => After(g, f)
  BY TurnFacts
<1>2. /\ d \in State /\ d.ld = s.ld /\ d.insrtp = s.insrtp /\ d.at = s.at
      /\ d.wake = (IF f.wakeflg THEN s.wake \cup {Id(f)} ELSE s.wake)
      /\ Ordered(d.L) /\ ToSet(d.L) = ToSet(s.L) \ {f}
  BY <1>1, DelFields
<1>n. /\ s.ld.start \in Nat /\ s.ld.end \in Nat /\ f.start \in Nat /\ f.end \in Nat
      /\ f.end <= MAXEND /\ MAXEND \in Nat
  BY <1>1, LockFacts, FilockFacts
<1>a. s.at = "scan"
  BY DEF Turn
<1>3. /\ u \in State /\ u.ld.end = f.end /\ u.ld.start = s.ld.start /\ u.ld.own = s.ld.own
      /\ u.ld.type = s.ld.type /\ u.at = s.at /\ u.L = d.L /\ u.wake = d.wake
      /\ u.insrtp = s.insrtp
  <2>1. CASE u = d /\ f.end = s.ld.end
    BY <1>2, <2>1
  <2>2. CASE u = [d EXCEPT !.ld.end = f.end]
    <3> DEFINE e == [s.ld EXCEPT !.end = f.end]
    <3>1. /\ e \in Lock /\ e.end = f.end /\ e.start = s.ld.start
          /\ e.own = s.ld.own /\ e.type = s.ld.type
      <4>1. f.end \in Byte
        BY <1>n DEF Byte
      <4> QED BY <1>1, <4>1 DEF Lock
    <3> HIDE DEF d
    <3>2. u = [d EXCEPT !.ld = e]
      BY <1>2, <2>2 DEF State
    <3> HIDE DEF e
    <3>3. /\ u \in State /\ u.ld = e /\ u.at = d.at
          /\ u.L = d.L /\ u.wake = d.wake /\ u.insrtp = d.insrtp
      BY <1>2, <3>1, <3>2 DEF State
    <3> QED BY <1>2, <3>1, <3>3
  <2> QED BY <2>1, <2>2 DEF d
<1> HIDE DEF d
<1>4. /\ t \in State /\ t.ld.end = f.end /\ t.ld.start = s.ld.start /\ t.ld.own = s.ld.own
      /\ t.ld.type = s.ld.type /\ t.at = "stop" /\ t.L = d.L /\ t.wake = d.wake
      /\ t.insrtp = s.insrtp
  BY <1>a, <1>3, StoppingFacts
<1> HIDE DEF t
<1>5. ASSUME NEW g \in ToSet(s.L) \ {f}, g.own = l.own PROVE Before(g, t.ld) \/ After(g, t.ld)
  <2>1. CASE g \notin R
    <3>1. Before(g, s.ld)
      BY <1>5, <1>a, <2>1 DEF Turn, ScanInv, Cut
    <3> QED BY <1>4, <3>1 DEF Before
  <2>2. CASE g \in R
    <3>1. After(g, f)
      BY <1>1, <1>5, <2>2
    <3> QED BY <1>4, <3>1 DEF After
  <2> QED BY <2>1, <2>2
<1>6. Cut(t, R \ {f}, l)
  <2>1. l.type # F_UNLCK => Fit(ToSet(t.L), t.insrtp, t.ld.start)
    <3>1. l.type # F_UNLCK => Fit(ToSet(s.L), s.insrtp, s.ld.start)
      BY <1>a DEF Turn, ScanInv, Cut
    <3>2. ~(f.start <= s.ld.start)
      BY <1>n
    <3> QED BY <1>2, <1>4, <3>1, <3>2 DEF Fit
  <2>2. \A g \in ToSet(t.L) : g.own = l.own => Before(g, t.ld) \/ After(g, t.ld)
    BY <1>2, <1>4, <1>5
  <2> QED BY <1>4, <2>1, <2>2 DEF Cut
<1>7. \A b \in Byte : f.start <= b /\ b <= f.end => t.ld.start <= b /\ b <= t.ld.end
  <2>1. ASSUME NEW b \in Byte, f.start <= b, b <= f.end PROVE s.ld.start <= b
    BY <1>n, <2>1 DEF Byte
  <2> QED BY <1>4, <2>1
<1>8. t.ld.start <= s.ld.start /\ s.ld.end <= t.ld.end
  BY <1>n, <1>4
<1>9. ASSUME NEW b \in Byte, t.ld.start <= b, b <= t.ld.end
      PROVE  \/ s.ld.start <= b /\ b <= s.ld.end
             \/ f.type = l.type /\ f.start <= b /\ b <= f.end
  <2>1. s.ld.start <= b /\ b <= f.end /\ b \in Nat
    BY <1>n, <1>4, <1>9 DEF Byte
  <2>2. f.type = l.type
    BY <1>1
  <2> QED BY <1>n, <2>1, <2>2
<1> QED
  <2> DEFINE N == {}
  <2>1. N \in SUBSET Filock /\ ToSet(t.L) = (ToSet(s.L) \ {f}) \cup N /\ \A g \in N : FALSE
    BY <1>2, <1>4
  <2>2. /\ Ordered(t.L) /\ t \in State /\ t.ld.own = s.ld.own /\ t.ld.type = s.ld.type
        /\ t.wake = (IF f.wakeflg THEN s.wake \cup {Id(f)} ELSE s.wake)
    BY <1>2, <1>4
  <2> HIDE DEF N
  <2>3. ScanInv(t, F0, R \ {f}, l)
    BY <1>6, <1>7, <1>8, <1>9, <2>1, <2>2, TurnChange
  <2> QED BY <2>3 DEF t

(* f is of another type, starts before ld and ends in it. *)
LEMMA TurnTrim ==
    ASSUME NEW s, NEW F0, NEW R, NEW l, NEW f, Turn(s, F0, R, l, f), f.own = l.own,
           s.ld.type # f.type, f.start < s.ld.start, s.ld.start <= f.end, f.end <= s.ld.end
    PROVE  ScanInv(Trim(s, f), F0, R \ {f}, l)
<1> DEFINE t == Trim(s, f)
           c == [f EXCEPT !.end = s.ld.start - 1, !.wakeflg = FALSE]
<1>1. /\ s \in State /\ f \in ToSet(s.L) /\ s.ld.type = l.type /\ f \in Filock /\ s.ld \in Lock
      /\ f.start <= f.end /\ Ordered(s.L) /\ ToSet(s.L) \subseteq Filock /\ Clear(ToSet(s.L))
      /\ s.ld.own = l.own
  BY TurnFacts
<1>2. /\ t \in State /\ t.ld = s.ld /\ t.insrtp = Id(f) /\ t.at = s.at
      /\ t.wake = (IF f.wakeflg THEN s.wake \cup {Id(f)} ELSE s.wake)
      /\ Ordered(t.L) /\ ToSet(t.L) = (ToSet(s.L) \ {f}) \cup {c}
      /\ c \in Filock /\ c.own = f.own /\ c.type = f.type /\ c.start = f.start
      /\ c.end = s.ld.start - 1 /\ Id(c) = Id(f)
  BY <1>1, TrimFields
<1> HIDE DEF t, c
<1>n. /\ s.ld.start \in Nat /\ s.ld.end \in Nat /\ f.start \in Nat /\ f.end \in Nat
      /\ Id(f) # NULL
  BY <1>1, LockFacts, FilockFacts
<1>3. Before(c, s.ld)
  BY <1>n, <1>2 DEF Before
<1>4. Fit(ToSet(t.L), Id(f), s.ld.start)
  <2>1. c.start <= s.ld.start
    BY <1>n, <1>2
  <2> QED BY <1>n, <1>2, <2>1 DEF Fit
<1>5. Cut(t, R \ {f}, l)
  <2>1. s.at = "scan" /\ R \subseteq ToSet(s.L) /\ s.ld.end = l.end
    BY DEF Turn, ScanInv, Cut
  <2>2. \A g \in ToSet(s.L) \ R : g.own = l.own => Before(g, s.ld)
    BY DEF Turn, ScanInv, Cut
  <2>3. \A g \in ToSet(t.L) \ (R \ {f}) : g.own = l.own => Before(g, t.ld)
    BY <1>2, <1>3, <2>2
  <2> QED BY <1>2, <1>4, <2>1, <2>3 DEF Cut
<1>6. ASSUME NEW b \in Byte, f.start <= b, b <= f.end
      PROVE  (t.ld.start <= b /\ b <= t.ld.end) \/ (c.start <= b /\ b <= c.end)
  BY <1>n, <1>2, <1>6 DEF Byte
<1>7. t.ld.start <= s.ld.start /\ s.ld.end <= t.ld.end /\ c.start <= c.end
      /\ f.start <= c.start /\ c.end <= f.end
  BY <1>n, <1>2
<1> QED
  <2> DEFINE N == {c}
  <2>1. N \in SUBSET Filock /\ ToSet(t.L) = (ToSet(s.L) \ {f}) \cup N
    BY <1>2
  <2>2. \A g \in N : /\ g.own = f.own /\ g.type = f.type /\ g.start <= g.end
                     /\ f.start <= g.start /\ g.end <= f.end
                     /\ \A h \in N : g # h => Before(g, h) \/ After(g, h)
    BY <1>2, <1>7
  <2>3. \A b \in Byte : f.start <= b /\ b <= f.end =>
                  (t.ld.start <= b /\ b <= t.ld.end) \/ \E g \in N : g.start <= b /\ b <= g.end
    BY <1>6
  <2>4. /\ t.ld.own = s.ld.own /\ t.ld.type = s.ld.type
        /\ \A b \in Byte : t.ld.start <= b /\ b <= t.ld.end =>
                  \/ s.ld.start <= b /\ b <= s.ld.end
                  \/ f.type = l.type /\ f.start <= b /\ b <= f.end
    BY <1>2
  <2> HIDE DEF N
  <2>5. ScanInv(t, F0, R \ {f}, l)
    BY <1>2, <1>5, <1>7, <2>1, <2>2, <2>3, <2>4, TurnChange
  <2> QED BY <2>5 DEF t

(* The piece of f behind ld. *)
Piece(ld, f) == [own |-> f.own, type |-> f.type, start |-> ld.end + 1, end |-> f.end,
                 wakeflg |-> FALSE]

(* The rest of f behind ld is a new record, to be inserted behind f. *)
LEMMA PieceFacts ==
    ASSUME NEW u \in State, NEW f \in ToSet(u.L), Ordered(u.L), Clear(ToSet(u.L)),
           f.start <= u.ld.end, u.ld.end < f.end
    PROVE  LET r == Piece(u.ld, f)
           IN  /\ r \in Filock /\ r.own = f.own /\ r.type = f.type /\ r.start = u.ld.end + 1
               /\ r.end = f.end /\ r.wakeflg = FALSE /\ r # f
               /\ \A g \in ToSet(u.L) : Id(g) # Id(r)
               /\ Fit(ToSet(u.L), Id(f), r.start)
<1> DEFINE r == Piece(u.ld, f)
<1>1. f \in Filock /\ u.ld \in Lock /\ ToSet(u.L) \subseteq Filock /\ f.start <= f.end
  BY StateFacts, MemberIff DEF Ordered, Clear
<1>2. /\ u.ld.end \in Nat /\ f.start \in Nat /\ f.end \in Nat /\ f.end <= MAXEND /\ MAXEND \in Nat
      /\ f.own \in Proc /\ f.type \in {F_RDLCK, F_WRLCK} /\ Id(f) # NULL
  BY <1>1, FilockFacts, LockFacts
<1>3. /\ r \in Filock /\ r.own = f.own /\ r.type = f.type /\ r.start = u.ld.end + 1
      /\ r.end = f.end /\ r.wakeflg = FALSE
  <2>1. u.ld.end + 1 \in Byte /\ f.end \in Byte
    BY <1>2 DEF Byte
  <2> QED BY <1>2, <2>1 DEF Filock, Piece
<1> HIDE DEF r
<1>4. ASSUME NEW g \in ToSet(u.L), Id(g) = Id(r) PROVE FALSE
  <2>1. g.own = f.own /\ g.start = u.ld.end + 1
    BY <1>1, <1>3, <1>4, IdFacts
  <2>2. g # f
    BY <1>2, <2>1
  <2>3. g.start <= g.end /\ (Before(g, f) \/ After(g, f))
    BY <2>1, <2>2 DEF Clear
  <2>4. g.start \in Nat /\ g.end \in Nat
    BY <1>1, FilockFacts
  <2> QED BY <1>2, <2>1, <2>3, <2>4 DEF Before, After
<1>5. f.start <= r.start
  BY <1>2, <1>3
<1>6. Fit(ToSet(u.L), Id(f), r.start)
  BY <1>2, <1>5 DEF Fit
<1>7. r # f
  BY <1>4
<1> QED BY <1>3, <1>4, <1>6, <1>7 DEF r

(* No memory for the rest: ENOLCK before anything has changed. *)
LEMMA SplitFails ==
    ASSUME NEW u \in State, NEW f
    PROVE  Split(u, f, "piece") = [u EXCEPT !.at = "ENOLCK"]
<1>1. [u EXCEPT !.at = "ENOLCK"].at = "ENOLCK"
  BY DEF State
<1> QED BY <1>1 DEF Split, Insflck

(* The state after f has been split. *)
LEMMA SplitFields ==
    ASSUME NEW u \in State, NEW f \in ToSet(u.L), Ordered(u.L), Clear(ToSet(u.L)),
           f.start <= u.ld.end, u.ld.end < f.end, u.ld.start <= u.ld.end, u.at = "scan",
           NEW nomem, nomem # "piece"
    PROVE  LET t == Split(u, f, nomem)
               r == Piece(u.ld, f)
               c == [f EXCEPT !.end = u.ld.start - 1, !.wakeflg = FALSE]
           IN  /\ t \in State /\ t.ld = u.ld /\ t.at = u.at /\ Ordered(t.L)
               /\ t.wake = (IF f.wakeflg THEN u.wake \cup {Id(f)} ELSE u.wake)
               /\ f.start < u.ld.start =>
                    /\ t.insrtp = Id(f)
                    /\ ToSet(t.L) = (ToSet(u.L) \ {f}) \cup {c, r}
                    /\ c \in Filock /\ c.own = f.own /\ c.type = f.type /\ c.start = f.start
                    /\ c.end = u.ld.start - 1 /\ Id(c) = Id(f)
               /\ ~(f.start < u.ld.start) =>
                    /\ t.insrtp = u.insrtp
                    /\ ToSet(t.L) = (ToSet(u.L) \ {f}) \cup {r}
<1> DEFINE r == Piece(u.ld, f)
           c == [f EXCEPT !.end = u.ld.start - 1, !.wakeflg = FALSE]
           q == [f EXCEPT !.start = u.ld.end + 1]
           s1 == Insflck(u, q, Place(u.L, Id(f), r.start), FALSE)
           t == Split(u, f, nomem)
<1>1. /\ r \in Filock /\ r.own = f.own /\ r.type = f.type /\ r.start = u.ld.end + 1
      /\ r.end = f.end /\ r.wakeflg = FALSE /\ r # f
      /\ \A g \in ToSet(u.L) : Id(g) # Id(r)
      /\ Fit(ToSet(u.L), Id(f), r.start)
  BY PieceFacts
<1>2. f \in Filock /\ u.ld \in Lock
  BY StateFacts, MemberIff DEF Ordered
<1>n. f.start \in Nat /\ u.ld.start \in Nat
  BY <1>2, FilockFacts, LockFacts
<1>3. r = [own |-> q.own, type |-> q.type, start |-> q.start, end |-> q.end,
           wakeflg |-> FALSE]
  BY <1>2 DEF Filock, Piece
<1>4. t = IF s1.at = "ENOLCK" THEN s1
          ELSE IF u.ld.start > f.start THEN Trim(s1, f) ELSE Delflck(s1, f)
  <2>1. (nomem = "piece") = FALSE
    OBVIOUS
  <2> QED BY <1>1, <2>1 DEF Split
<1> HIDE DEF r, q, t
<1>5. /\ s1 \in State /\ s1.ld = u.ld /\ s1.insrtp = u.insrtp /\ s1.at = u.at
      /\ s1.wake = u.wake
      /\ Ordered(s1.L) /\ ToSet(s1.L) = ToSet(u.L) \cup {r}
  <2> DEFINE M == InsertAt(u.L, Place(u.L, Id(f), r.start) + 1, r)
  <2>1. Ordered(M) /\ ToSet(M) = ToSet(u.L) \cup {r}
    BY <1>1, InsertRecord
  <2>2. s1 = [u EXCEPT !.L = M]
    BY <1>3 DEF Insflck
  <2>3. M \in Seq(Filock)
    BY <2>1 DEF Ordered
  <2> HIDE DEF M, s1
  <2>4. /\ s1 \in State /\ s1.ld = u.ld /\ s1.insrtp = u.insrtp /\ s1.at = u.at
        /\ s1.wake = u.wake /\ s1.L = M
    BY <2>2, <2>3 DEF State
  <2> QED BY <2>1, <2>4
<1> HIDE DEF s1
<1>6. f \in ToSet(s1.L)
  BY <1>5
<1>7. CASE f.start < u.ld.start
  <2>1. t = Trim(s1, f)
    BY <1>4, <1>5, <1>7, <1>n
  <2>2. /\ t \in State /\ t.ld = s1.ld /\ t.insrtp = Id(f) /\ t.at = s1.at
        /\ t.wake = (IF f.wakeflg THEN s1.wake \cup {Id(f)} ELSE s1.wake)
        /\ Ordered(t.L) /\ ToSet(t.L) = (ToSet(s1.L) \ {f}) \cup {c}
        /\ c \in Filock /\ c.own = f.own /\ c.type = f.type /\ c.start = f.start
        /\ c.end = u.ld.start - 1 /\ Id(c) = Id(f)
    BY <1>2, <1>5, <1>6, <1>7, <2>1, TrimFields
  <2> HIDE DEF c
  <2>3. ToSet(t.L) = (ToSet(u.L) \ {f}) \cup {c, r}
    BY <1>1, <1>5, <2>2
  <2> QED BY <1>5, <1>7, <2>2, <2>3 DEF t, r, c
<1>8. CASE ~(f.start < u.ld.start)
  <2>1. t = Delflck(s1, f)
    BY <1>4, <1>5, <1>8, <1>n
  <2>2. /\ t \in State /\ t.ld = s1.ld /\ t.insrtp = s1.insrtp /\ t.at = s1.at
        /\ t.wake = (IF f.wakeflg THEN s1.wake \cup {Id(f)} ELSE s1.wake)
        /\ Ordered(t.L) /\ ToSet(t.L) = ToSet(s1.L) \ {f}
    BY <1>2, <1>5, <1>6, <2>1, DelFields
  <2>3. ToSet(t.L) = (ToSet(u.L) \ {f}) \cup {r}
    BY <1>1, <1>5, <2>2
  <2> QED BY <1>5, <1>8, <2>2, <2>3 DEF t, r
<1> QED BY <1>7, <1>8

(* f is of another type and goes on behind ld. *)
LEMMA TurnSplit ==
    ASSUME NEW s, NEW F0, NEW R, NEW l, NEW f, Turn(s, F0, R, l, f), f.own = l.own,
           s.ld.type # f.type, f.start <= s.ld.end, s.ld.end < f.end, NEW nomem,
           NEW u,
           \/ u = s /\ s.ld.start # f.start
           \/ u = [s EXCEPT !.insrtp = PrevOf(s.L, Id(f))] /\ s.ld.start = f.start
    PROVE  ScanInv(Stopping(Split(u, f, nomem)), F0, R \ {f}, l)
<1>1. /\ s \in State /\ f \in ToSet(s.L) /\ s.ld.type = l.type /\ f \in Filock /\ s.ld \in Lock
      /\ f.start <= f.end /\ Ordered(s.L) /\ ToSet(s.L) \subseteq Filock /\ Clear(ToSet(s.L))
      /\ s.ld.own = l.own /\ s.ld.start <= s.ld.end
      /\ \A g \in R \ {f} : g.own = l.own => After(g, f)
  BY TurnFacts
<1>n. /\ s.ld.start \in Nat /\ s.ld.end \in Nat /\ f.start \in Nat /\ f.end \in Nat
      /\ Id(f) # NULL
  BY <1>1, LockFacts, FilockFacts
<1>a. s.at = "scan"
  BY DEF Turn
<1>2. PrevOf(s.L, Id(f)) \in Rec \cup {NULL} /\ Fit(ToSet(s.L) \ {f}, PrevOf(s.L, Id(f)), f.start)
  BY <1>1, PrevFacts
<1>3. /\ u \in State /\ u.L = s.L /\ u.ld = s.ld /\ u.wake = s.wake /\ u.at = s.at
      /\ s.ld.start # f.start => u.insrtp = s.insrtp
      /\ s.ld.start = f.start => u.insrtp = PrevOf(s.L, Id(f))
  <2> DEFINE pv == PrevOf(s.L, Id(f))
  <2>1. \/ u = s /\ s.ld.start # f.start
        \/ u = [s EXCEPT !.insrtp = pv] /\ s.ld.start = f.start
    OBVIOUS
  <2>2. pv \in Rec \cup {NULL}
    BY <1>2
  <2> HIDE DEF pv
  <2>3. CASE u = s /\ s.ld.start # f.start
    BY <1>1, <2>3
  <2>4. CASE u = [s EXCEPT !.insrtp = pv] /\ s.ld.start = f.start
    BY <1>1, <2>2, <2>4 DEF State, pv
  <2> QED BY <2>1, <2>3, <2>4
<1>4. CASE nomem = "piece"
  <2> DEFINE t == Split(u, f, nomem)
  <2>1. t = [u EXCEPT !.at = "ENOLCK"]
    BY <1>3, <1>4, SplitFails
  <2>2. t \in State /\ t.L = s.L /\ t.ld = s.ld /\ t.wake = s.wake /\ t.at = "ENOLCK"
    <3> HIDE DEF t
    <3> QED BY <1>3, <2>1 DEF State
  <2>3. Stopping(t) = t
    BY <2>2 DEF Stopping
  <2> HIDE DEF t
  <2>4. Cut(t, R \ {f}, l)
    BY <2>2 DEF Cut
  <2>5. ScanInv(t, F0, R \ {f}, l)
    BY <2>2, <2>4, TurnKeep
  <2> QED BY <2>3, <2>5 DEF t
<1>5. CASE nomem # "piece"
  <2> DEFINE v == Split(u, f, nomem)
             t == Stopping(v)
             r == Piece(s.ld, f)
             c == [f EXCEPT !.end = s.ld.start - 1, !.wakeflg = FALSE]
             N == IF f.start < s.ld.start THEN {c, r} ELSE {r}
  <2>1. /\ r \in Filock /\ r.own = f.own /\ r.type = f.type /\ r.start = s.ld.end + 1
        /\ r.end = f.end
    BY <1>1, PieceFacts
  <2>2. /\ v \in State /\ v.ld = s.ld /\ v.at = "scan" /\ Ordered(v.L)
        /\ v.wake = (IF f.wakeflg THEN s.wake \cup {Id(f)} ELSE s.wake)
        /\ f.start < s.ld.start =>
             /\ v.insrtp = Id(f)
             /\ ToSet(v.L) = (ToSet(s.L) \ {f}) \cup {c, r}
             /\ c \in Filock /\ c.own = f.own /\ c.type = f.type /\ c.start = f.start
             /\ c.end = s.ld.start - 1 /\ Id(c) = Id(f)
        /\ ~(f.start < s.ld.start) =>
             /\ v.insrtp = u.insrtp
             /\ ToSet(v.L) = (ToSet(s.L) \ {f}) \cup {r}
    <3> DEFINE k == [f EXCEPT !.end = u.ld.start - 1, !.wakeflg = FALSE]
               z == Piece(u.ld, f)
    <3>1. /\ u \in State /\ f \in ToSet(u.L) /\ Ordered(u.L) /\ Clear(ToSet(u.L))
          /\ f.start <= u.ld.end /\ u.ld.end < f.end /\ u.ld.start <= u.ld.end
          /\ u.at = "scan" /\ nomem # "piece"
      BY <1>1, <1>3, <1>5, <1>a
    <3>2. /\ v \in State /\ v.ld = u.ld /\ v.at = u.at /\ Ordered(v.L)
          /\ v.wake = (IF f.wakeflg THEN u.wake \cup {Id(f)} ELSE u.wake)
          /\ f.start < u.ld.start =>
               /\ v.insrtp = Id(f)
               /\ ToSet(v.L) = (ToSet(u.L) \ {f}) \cup {k, z}
               /\ k \in Filock /\ k.own = f.own /\ k.type = f.type /\ k.start = f.start
               /\ k.end = u.ld.start - 1 /\ Id(k) = Id(f)
          /\ ~(f.start < u.ld.start) =>
               /\ v.insrtp = u.insrtp
               /\ ToSet(v.L) = (ToSet(u.L) \ {f}) \cup {z}
      BY <3>1, SplitFields
    <3>3. k = c /\ z = r
      BY <1>3
    <3> HIDE DEF v, c, r, k, z
    <3> QED BY <1>3, <1>a, <3>2, <3>3
  <2> HIDE DEF v, r, c
  <2>3. /\ t \in State /\ t.ld = s.ld /\ t.at = "stop" /\ t.L = v.L /\ t.wake = v.wake
        /\ t.insrtp = v.insrtp
    BY <2>2, StoppingFacts
  <2> HIDE DEF t
  <2>4. After(r, s.ld) /\ r.start <= r.end /\ s.ld.start <= r.start /\ f.start <= r.start
    BY <1>n, <1>1, <2>1 DEF After
  <2>5. ASSUME f.start < s.ld.start
        PROVE  /\ Before(c, s.ld) /\ c.start <= c.end /\ c.end <= f.end
               /\ Before(c, r) /\ After(r, c)
    BY <1>n, <1>1, <2>1, <2>2, <2>5 DEF Before, After
  <2>6. ASSUME NEW g \in ToSet(s.L) \ {f}, g.own = l.own PROVE Before(g, s.ld) \/ After(g, s.ld)
    <3>1. CASE g \notin R
      BY <1>a, <2>6, <3>1 DEF Turn, ScanInv, Cut
    <3>2. CASE g \in R
      <4>1. After(g, f) /\ g.start \in Nat
        BY <1>1, <2>6, <3>2, FilockFacts
      <4> QED BY <1>n, <4>1 DEF After
    <3> QED BY <3>1, <3>2
  <2>7. /\ N \in SUBSET Filock /\ ToSet(t.L) = (ToSet(s.L) \ {f}) \cup N
        /\ \A g \in N : g = r \/ (f.start < s.ld.start /\ g = c)
        /\ r \in N /\ (f.start < s.ld.start => c \in N)
    BY <2>1, <2>2, <2>3
  <2>8. l.type # F_UNLCK => Fit(ToSet(t.L), t.insrtp, t.ld.start)
    <3>1. CASE f.start < s.ld.start
      <4>1. c.start <= s.ld.start
        BY <1>n, <2>2, <3>1
      <4> QED BY <1>n, <2>2, <2>3, <3>1, <4>1 DEF Fit
    <3>2. CASE f.start = s.ld.start
      <4>1. t.insrtp = PrevOf(s.L, Id(f))
        BY <1>n, <1>3, <2>2, <2>3, <3>2
      <4>2. ToSet(t.L) = (ToSet(s.L) \ {f}) \cup {r}
        BY <1>n, <2>2, <2>3, <3>2
      <4> QED BY <1>2, <2>3, <2>4, <3>2, <4>1, <4>2 DEF Fit
    <3>3. CASE s.ld.start < f.start
      <4>1. t.insrtp = s.insrtp
        BY <1>n, <1>3, <2>2, <2>3, <3>3
      <4>2. ToSet(t.L) = (ToSet(s.L) \ {f}) \cup {r}
        BY <1>n, <2>2, <2>3, <3>3
      <4>3. l.type # F_UNLCK => Fit(ToSet(s.L), s.insrtp, s.ld.start)
        BY <1>a DEF Turn, ScanInv, Cut
      <4>4. ~(f.start <= s.ld.start)
        BY <1>n, <3>3
      <4> QED BY <2>3, <2>4, <4>1, <4>2, <4>3, <4>4 DEF Fit
    <3> QED BY <1>n, <3>1, <3>2, <3>3
  <2> HIDE DEF N
  <2>9. Cut(t, R \ {f}, l)
    <3>1. \A g \in ToSet(t.L) : g.own = l.own => Before(g, t.ld) \/ After(g, t.ld)
      BY <2>3, <2>4, <2>5, <2>6, <2>7
    <3> QED BY <2>3, <2>8, <3>1 DEF Cut
  <2>10. \A g \in N : /\ g.own = f.own /\ g.type = f.type /\ g.start <= g.end
                      /\ f.start <= g.start /\ g.end <= f.end
                      /\ \A h \in N : g # h => Before(g, h) \/ After(g, h)
    BY <1>n, <2>1, <2>2, <2>4, <2>5, <2>7
  <2>11. ASSUME NEW b \in Byte, f.start <= b, b <= f.end
         PROVE  (t.ld.start <= b /\ b <= t.ld.end) \/ \E g \in N : g.start <= b /\ b <= g.end
    <3>1. b \in Nat
      BY <1>1, FilockFacts DEF Byte
    <3>2. CASE s.ld.end < b
      <4>1. r.start <= b /\ b <= r.end
        BY <1>n, <2>1, <2>11, <3>1, <3>2
      <4> QED BY <2>7, <4>1
    <3>3. CASE b < s.ld.start
      <4>1. f.start < s.ld.start
        BY <1>n, <2>11, <3>1, <3>3
      <4>2. c.start <= b /\ b <= c.end
        BY <1>n, <2>2, <2>11, <3>1, <3>3, <4>1
      <4> QED BY <2>7, <4>1, <4>2
    <3> QED BY <1>n, <2>3, <3>1, <3>2, <3>3
  <2>12. /\ t.ld.own = s.ld.own /\ t.ld.type = s.ld.type
         /\ t.ld.start <= s.ld.start /\ s.ld.end <= t.ld.end
         /\ Ordered(t.L) /\ t.wake = (IF f.wakeflg THEN s.wake \cup {Id(f)} ELSE s.wake)
         /\ \A b \in Byte : t.ld.start <= b /\ b <= t.ld.end =>
                  \/ s.ld.start <= b /\ b <= s.ld.end
                  \/ f.type = l.type /\ f.start <= b /\ b <= f.end
    BY <1>n, <2>2, <2>3
  <2>13. ScanInv(t, F0, R \ {f}, l)
    BY <2>3, <2>7, <2>9, <2>10, <2>11, <2>12, TurnChange
  <2> QED BY <2>13 DEF t, v
<1> QED BY <1>4, <1>5

(* One turn of the loop keeps the invariant. *)
LEMMA AdjustTurn ==
    ASSUME NEW s, NEW F0, NEW R, NEW l, NEW f, Turn(s, F0, R, l, f), NEW nomem
    PROVE  ScanInv(Adjust(s, f, nomem), F0, R \ {f}, l)
<1> DEFINE t == Adjust(s, f, nomem)
           a == s.ld.start
           b == s.ld.end
           x == f.start
           y == f.end
           same == s.ld.type = f.type
<1>1. /\ s \in State /\ f \in Filock /\ s.ld \in Lock /\ s.ld.own = l.own
      /\ f.start <= f.end /\ s.ld.start <= s.ld.end /\ s.at = "scan"
  BY TurnFacts DEF Turn
<1>2. CASE f.own # l.own
  <2>1. t = s
    BY <1>1, <1>2 DEF Adjust
  <2> QED BY <1>2, <2>1, TurnNotOwn
<1>3. CASE f.own = l.own
  <2>1. a \in Nat /\ b \in Nat /\ x \in Nat /\ y \in Nat /\ a <= b /\ x <= y
    BY <1>1, LockFacts, FilockFacts
  <2>2. /\ b + 1 < x => t = Stopping(s)
        /\ b + 1 = x /\ ~same => t = Stopping(s)
        /\ b + 1 = x /\ same => t = Stopping([Delflck(s, f) EXCEPT !.ld.end = y])
        /\ same /\ x <= a /\ b <= y => t = [s EXCEPT !.at = "done"]
        /\ a = x /\ (b > y \/ (b = y /\ ~same))
             => t = [Delflck(s, f) EXCEPT !.insrtp = PrevOf(s.L, Id(f))]
        /\ a < x /\ b = y /\ same => t = Stopping(Delflck(s, f))
        /\ a < x /\ (b > y \/ (b = y /\ ~same)) => t = Delflck(s, f)
        /\ a < x /\ x <= b /\ b < y /\ same
             => t = Stopping([Delflck(s, f) EXCEPT !.ld.end = y])
        /\ a = x /\ b < y /\ ~same
             => t = Stopping(Split([s EXCEPT !.insrtp = PrevOf(s.L, Id(f))], f, nomem))
        /\ a # x /\ x <= b /\ b < y /\ ~same => t = Stopping(Split(s, f, nomem))
        /\ x < a /\ a <= y /\ b >= y /\ ~same => t = Trim(s, f)
        /\ x < a /\ a <= y + 1 /\ b > y /\ same => t = JoinBefore(s, f)
        /\ a = y + 1 /\ ~same => t = s
        /\ a > y + 1 => t = [s EXCEPT !.insrtp = Id(f)]
    BY <1>1, <1>3, AdjustFacts
  <2>3. CASE b + 1 < x \/ (b + 1 = x /\ ~same)
    BY <1>3, <2>1, <2>2, <2>3, TurnBefore
  <2>4. CASE (b + 1 = x /\ same) \/ (a < x /\ x <= b /\ b < y /\ same)
    <3>1. t = Stopping([Delflck(s, f) EXCEPT !.ld.end = y])
      BY <2>2, <2>4
    <3>2. a < x /\ x <= b + 1 /\ b <= y
      BY <2>1, <2>4
    <3> QED BY <1>3, <2>4, <3>1, <3>2, TurnJoinAfter
  <2>5. CASE same /\ x <= a /\ b <= y
    BY <1>3, <2>2, <2>5, TurnDone
  <2>6. CASE a = x /\ (b > y \/ (b = y /\ ~same))
    <3>1. t = [Delflck(s, f) EXCEPT !.insrtp = PrevOf(s.L, Id(f))]
      BY <2>2, <2>6
    <3>2. a <= x /\ y <= b
      BY <2>1, <2>6
    <3> QED BY <1>3, <2>6, <3>1, <3>2, TurnOverlay
  <2>7. CASE a < x /\ b = y /\ same
    <3>1. t = Stopping(Delflck(s, f)) /\ x <= b + 1 /\ b <= y
      BY <2>1, <2>2, <2>7
    <3> QED BY <1>3, <2>7, <3>1, TurnJoinAfter
  <2>8. CASE a < x /\ (b > y \/ (b = y /\ ~same))
    <3>1. t = Delflck(s, f) /\ a <= x /\ y <= b
      BY <2>1, <2>2, <2>8
    <3> QED BY <1>3, <2>8, <3>1, TurnOverlay
  <2>9. CASE a = x /\ b < y /\ ~same
    <3>1. t = Stopping(Split([s EXCEPT !.insrtp = PrevOf(s.L, Id(f))], f, nomem)) /\ x <= b
      BY <2>1, <2>2, <2>9
    <3> QED BY <1>3, <2>9, <3>1, TurnSplit
  <2>10. CASE a # x /\ x <= b /\ b < y /\ ~same
    BY <1>3, <2>2, <2>10, TurnSplit
  <2>11. CASE x < a /\ a <= y /\ b >= y /\ ~same
    <3>1. y <= b
      BY <2>1, <2>11
    <3> QED BY <1>3, <2>2, <2>11, <3>1, TurnTrim
  <2>12. CASE x < a /\ a <= y + 1 /\ b > y /\ same
    <3>1. y < b
      BY <2>1, <2>12
    <3> QED BY <1>3, <2>2, <2>12, <3>1, TurnJoinBefore
  <2>13. CASE (a = y + 1 /\ ~same) \/ a > y + 1
    <3>1. y < a /\ (same => y + 1 < a) /\ (t = s \/ t = [s EXCEPT !.insrtp = Id(f)])
      BY <2>1, <2>2, <2>13
    <3> HIDE DEF t
    <3>2. ScanInv(t, F0, R \ {f}, l)
      BY <1>3, <3>1, TurnAfter
    <3> QED BY <3>2 DEF t
  <2>14. \/ b + 1 < x \/ (b + 1 = x /\ ~same)
         \/ (b + 1 = x /\ same) \/ (a < x /\ x <= b /\ b < y /\ same)
         \/ same /\ x <= a /\ b <= y
         \/ a = x /\ (b > y \/ (b = y /\ ~same))
         \/ a < x /\ b = y /\ same
         \/ a < x /\ (b > y \/ (b = y /\ ~same))
         \/ a = x /\ b < y /\ ~same
         \/ a # x /\ x <= b /\ b < y /\ ~same
         \/ x < a /\ a <= y /\ b >= y /\ ~same
         \/ x < a /\ a <= y + 1 /\ b > y /\ same
         \/ (a = y + 1 /\ ~same) \/ a > y + 1
    <3> HIDE DEF a, b, x, y
    <3>1. CASE same
      <4>1. \/ b + 1 <= x \/ (a < x /\ x <= b /\ b < y) \/ (x <= a /\ b <= y)
            \/ (a = x /\ b > y) \/ (a < x /\ b = y) \/ (a < x /\ b > y)
            \/ (x < a /\ a <= y + 1 /\ b > y) \/ a > y + 1
        BY <2>1
      <4>2. b + 1 <= x => b + 1 < x \/ b + 1 = x
        BY <2>1
      <4> QED BY <3>1, <4>1, <4>2
    <3>2. CASE ~same
      BY <2>1, <3>2
    <3> QED BY <3>1, <3>2
  <2> QED BY <2>3, <2>4, <2>5, <2>6, <2>7, <2>8, <2>9, <2>10, <2>11, <2>12, <2>13, <2>14
<1> QED BY <1>2, <1>3

(* The records behind the first k. *)
Rest(L, k) == {L[i] : i \in k + 1..Len(L)}

(* The states of the loop exist: each is made of the one before. *)
LEMMA ScanStates ==
    ASSUME NEW L, NEW n \in Nat, NEW from \in Nat \ {0}, NEW s, NEW nomem
    PROVE  \E g : g = [k \in 0..n |-> IF k < from THEN s ELSE Adjust(g[k - 1], L[k], nomem)]
<1> DEFINE P(m) == \E g : g = [k \in 0..m |-> IF k < from THEN s
                                              ELSE Adjust(g[k - 1], L[k], nomem)]
           S == {m \in Nat : ~P(m)}
<1>1. SUFFICES ASSUME n \in S PROVE FALSE
  OBVIOUS
<1>2. S \in SUBSET Nat
  OBVIOUS
<1>3. Min(S) \in S /\ \A z \in S : Min(S) <= z
  <2> HIDE DEF S
  <2> QED BY <1>1, <1>2, LeastMember
<1> DEFINE m == Min(S)
<1>4. m \in Nat /\ ~P(m)
  BY <1>3
<1>5. ASSUME m # 0 PROVE P(m - 1)
  <2>1. m - 1 \in Nat /\ ~(m <= m - 1)
    BY <1>4, <1>5
  <2>2. m - 1 \notin S
    BY <1>3, <2>1
  <2> QED BY <2>1, <2>2
<1> HIDE DEF m
<1>6. CASE m = 0
  <2> DEFINE g == [k \in 0..m |-> s]
  <2>1. g = [k \in 0..m |-> IF k < from THEN s ELSE Adjust(g[k - 1], L[k], nomem)]
    BY <1>6
  <2> QED BY <1>4, <2>1
<1>7. CASE m # 0
  <2>1. PICK h : h = [k \in 0..m - 1 |-> IF k < from THEN s ELSE Adjust(h[k - 1], L[k], nomem)]
    BY <1>5, <1>7
  <2> DEFINE e == IF m < from THEN s ELSE Adjust(h[m - 1], L[m], nomem)
             g == [k \in 0..m |-> IF k < m THEN h[k] ELSE e]
  <2>2. ASSUME NEW k \in 0..m
        PROVE  g[k] = IF k < from THEN s ELSE Adjust(g[k - 1], L[k], nomem)
    <3>1. CASE k < m
      <4>1. k \in 0..m - 1 /\ g[k] = h[k]
        BY <1>4, <3>1
      <4>2. h[k] = IF k < from THEN s ELSE Adjust(h[k - 1], L[k], nomem)
        BY <2>1, <4>1
      <4>3. ~(k < from) => g[k - 1] = h[k - 1]
        <5>1. ~(k < from) => k - 1 \in 0..m /\ k - 1 < m
          BY <1>4, <3>1
        <5> QED BY <5>1
      <4> QED BY <4>1, <4>2, <4>3
    <3>2. CASE k = m
      <4>1. g[m] = e /\ g[m - 1] = h[m - 1]
        BY <1>4, <1>7
      <4> QED BY <3>2, <4>1
    <3> QED BY <1>4, <3>1, <3>2
  <2>3. g = [k \in 0..m |-> IF k < from THEN s ELSE Adjust(g[k - 1], L[k], nomem)]
    <3>1. g = [k \in 0..m |-> g[k]]
      OBVIOUS
    <3> HIDE DEF g
    <3> QED BY <2>2, <3>1
  <2> QED BY <1>4, <2>3
<1> QED BY <1>6, <1>7

(* The invariant holds to the end of the loop. *)
LEMMA ScanFacts ==
    ASSUME NEW L, Ordered(L), NEW from \in 1..Len(L) + 1, NEW s, NEW nomem, NEW l \in Lock,
           l.start <= l.end, ScanInv(s, ToSet(L), Rest(L, from - 1), l)
    PROVE  ScanInv(Scan(L, from, s, nomem), ToSet(L), {}, l)
<1> DEFINE n == Len(L)
           after == CHOOSE g : g = [k \in 0..n |-> IF k < from THEN s
                                                   ELSE Adjust(g[k - 1], L[k], nomem)]
           F0 == ToSet(L)
           Bad == {k \in Nat : k \in from - 1..n /\ ~ScanInv(after[k], F0, Rest(L, k), l)}
<1>1. n \in Nat /\ from \in Nat \ {0} /\ L \in Seq(Filock) /\ F0 \subseteq Filock
  BY MemberIff DEF Ordered
<1>2. after = [k \in 0..n |-> IF k < from THEN s ELSE Adjust(after[k - 1], L[k], nomem)]
  BY <1>1, ScanStates
<1>3. Scan(L, from, s, nomem) = after[n]
  BY DEF Scan
<1> HIDE DEF after
<1>4. \A k \in 0..n : after[k] = IF k < from THEN s ELSE Adjust(after[k - 1], L[k], nomem)
  BY <1>2
<1>5. \A i \in 1..n : L[i] \in F0 /\ L[i] \in Filock
  BY <1>1, MemberIff
<1>6. Bad = {}
  <2> SUFFICES ASSUME NEW x \in Bad PROVE FALSE
    OBVIOUS
  <2>1. Bad \in SUBSET Nat
    OBVIOUS
  <2> DEFINE k == Min(Bad)
  <2>2. k \in Bad /\ \A z \in Bad : k <= z
    <3> HIDE DEF Bad
    <3> QED BY <2>1, LeastMember
  <2>3. k \in from - 1..n /\ ~ScanInv(after[k], F0, Rest(L, k), l)
    BY <2>2
  <2>4. k > from - 1 => ScanInv(after[k - 1], F0, Rest(L, k - 1), l)
    <3>1. k > from - 1 => k - 1 \in from - 1..n /\ k - 1 \in Nat /\ ~(k <= k - 1)
      BY <1>1, <2>3
    <3> QED BY <2>2, <3>1
  <2> HIDE DEF k
  <2>5. k # from - 1
    <3>1. from - 1 \in 0..n /\ after[from - 1] = s
      BY <1>1, <1>4
    <3> QED BY <2>3, <3>1
  <2>6. k \in 1..n /\ k > from - 1 /\ k \in 0..n /\ ~(k < from)
    BY <1>1, <2>3, <2>5
  <2>7. after[k] = Adjust(after[k - 1], L[k], nomem)
    BY <1>4, <2>6
  <2> DEFINE p == after[k - 1]
  <2>8. ScanInv(p, F0, Rest(L, k - 1), l)
    BY <2>4, <2>6
  <2> HIDE DEF p
  <2>9. /\ Rest(L, k - 1) \subseteq F0 /\ L[k] \in Rest(L, k - 1)
        /\ \A g \in Rest(L, k - 1) : L[k].start <= g.start
    <3>1. \A i, j \in 1..n : i < j => L[i].start <= L[j].start
      BY DEF Ordered, Sorted
    <3>2. \A i \in k - 1 + 1..n : i \in 1..n /\ (i = k \/ k < i)
      BY <1>1, <2>6
    <3>3. k \in k - 1 + 1..n
      BY <1>1, <2>6
    <3>4. L[k].start \in Nat
      BY <1>5, <2>6, FilockFacts
    <3>5. ASSUME NEW g \in Rest(L, k - 1) PROVE g \in F0 /\ L[k].start <= g.start
      <4>1. PICK i \in k - 1 + 1..n : g = L[i]
        BY <3>5 DEF Rest
      <4> QED BY <1>5, <2>6, <3>1, <3>2, <3>4, <4>1
    <3> QED BY <3>3, <3>5 DEF Rest
  <2>10. Rest(L, k - 1) \ {L[k]} = Rest(L, k)
    <3>1. ASSUME NEW i \in k + 1..n PROVE i \in k - 1 + 1..n /\ L[i] # L[k]
      <4>1. i \in 1..n /\ i # k /\ i \in k - 1 + 1..n
        BY <1>1, <2>6
      <4> QED BY <2>6, <4>1 DEF Ordered, Named
    <3>2. ASSUME NEW i \in k - 1 + 1..n PROVE i = k \/ i \in k + 1..n
      BY <1>1, <2>6
    <3> QED BY <3>1, <3>2 DEF Rest
  <2>11. CASE p.at = "scan"
    <3>1. Turn(p, F0, Rest(L, k - 1), l, L[k])
      BY <1>1, <2>8, <2>9, <2>11 DEF Turn
    <3>2. ScanInv(Adjust(p, L[k], nomem), F0, Rest(L, k - 1) \ {L[k]}, l)
      BY <3>1, AdjustTurn
    <3> QED BY <2>3, <2>7, <2>10, <3>2 DEF p
  <2>12. CASE p.at # "scan"
    <3>1. Adjust(p, L[k], nomem) = p
      BY <2>12 DEF Adjust
    <3>2. ScanInv(p, F0, Rest(L, k), l)
      BY <2>8, <2>12 DEF ScanInv, Cut
    <3> QED BY <2>3, <2>7, <3>1, <3>2 DEF p
  <2> QED BY <2>11, <2>12
<1>7. ScanInv(after[n], F0, Rest(L, n), l)
  <2>1. n \in from - 1..n /\ n \in Nat
    BY <1>1
  <2> QED BY <1>6, <2>1
<1>8. Rest(L, n) = {}
  BY <1>1 DEF Rest
<1> QED BY <1>3, <1>7, <1>8

(* flckadj may start at insrtp: no lock of the owner before it is touched. *)
Start(L, l, insrtp) ==
    LET from == IF insrtp = NULL THEN 1 ELSE IndexOf(L, insrtp)
    IN  /\ insrtp \in Rec \cup {NULL} /\ from \in 1..Len(L) + 1
        /\ \A i \in 1..from - 1 : L[i].own = l.own => Before(L[i], l)
        /\ l.type # F_UNLCK => Fit(ToSet(L), insrtp, l.start)

(* An unlock starts at the head. *)
LEMMA StartUnlock ==
    ASSUME NEW L, Ordered(L), NEW l \in Lock, l.type = F_UNLCK
    PROVE  Start(L, l, IdAt(L, 1))
<1>1. L \in Seq(Filock) /\ Len(L) \in Nat /\ DOMAIN L = 1..Len(L)
  BY DEF Ordered
<1>2. CASE Len(L) = 0
  <2>1. IdAt(L, 1) = NULL
    BY <1>1, <1>2 DEF IdAt
  <2> QED BY <1>1, <2>1 DEF Start
<1>3. CASE Len(L) # 0
  <2>1. 1 \in 1..Len(L) /\ L[1] \in Filock /\ L[1] \in ToSet(L)
    BY <1>1, <1>3, MemberIff
  <2>2. IdAt(L, 1) = Id(L[1])
    BY <1>1, <2>1 DEF IdAt
  <2>3. Id(L[1]) \in Rec /\ Id(L[1]) # NULL
    BY <2>1, FilockFacts
  <2>4. IndexOf(L, Id(L[1])) \in 1..Len(L) /\ Id(L[IndexOf(L, Id(L[1]))]) = Id(L[1])
    BY <2>1, IndexFacts
  <2>5. IndexOf(L, Id(L[1])) = 1
    BY <2>1, <2>4 DEF Ordered, Named
  <2> QED BY <1>1, <2>1, <2>2, <2>3, <2>5 DEF Start
<1> QED BY <1>2, <1>3

(* f keeps l from being set. *)
InWay(f, l) == Overlap(f, l) /\ Excludes(f, l)

(* blocked() finds a lock that is in the way if there is one, and a place    *)
(* for flckadj to start: both although its scans stop early, because the     *)
(* list is in order.                                                         *)
LEMMA BlockedFacts ==
    ASSUME NEW L, Ordered(L), NEW l \in Lock, l.start <= l.end
    PROVE  /\ Start(L, l, Blocked(L, l).insrt)
           /\ Blocked(L, l).found # NULL =>
                \E f \in ToSet(L) : Id(f) = Blocked(L, l).found /\ InWay(f, l)
           /\ Blocked(L, l).found = NULL => \A f \in ToSet(L) : ~InWay(f, l)
<1> DEFINE n       == Len(L)
           hit(k)  == l.start <= L[k].end /\ Excludes(L[k], l)
           own(k)  == L[k].own = l.own /\ l.start - 1 <= L[k].end
           A       == {n + 1} \cup {k \in 1 .. n : L[k].start >= l.start \/ own(k) \/ hit(k)}
           first   == Min(A)
           past(k) == l.end < L[k].start
           C       == {n + 1} \cup {k \in first .. n : past(k) \/ hit(k)}
           second  == Min(C)
           stop    == IF first <= n /\ L[first].start < l.start THEN first ELSE first - 1
<1>1. /\ Blocked(L, l).insrt = IdAt(L, stop)
      /\ Blocked(L, l).found = IF second <= n /\ past(second) THEN NULL ELSE IdAt(L, second)
  BY DEF Blocked
<1>2. L \in Seq(Filock) /\ n \in Nat /\ DOMAIN L = 1..n /\ n + 1 \in Nat
  BY DEF Ordered
<1>3. /\ \A i \in 1..n : /\ L[i] \in Filock /\ L[i] \in ToSet(L) /\ L[i].start \in Nat
                         /\ L[i].end \in Nat /\ Id(L[i]) \in Rec /\ Id(L[i]) # NULL
      /\ l.start \in Nat /\ l.end \in Nat
  BY <1>2, MemberIff, FilockFacts, LockFacts
<1>s. \A i, j \in 1..n : i < j => L[i].start <= L[j].start
  BY DEF Ordered, Sorted
<1>4. first \in A /\ \A z \in A : first <= z
  <2>1. A \in SUBSET Nat /\ n + 1 \in A
    BY <1>2
  <2> HIDE DEF A
  <2> QED BY <2>1, LeastMember
<1> HIDE DEF first
<1>5. /\ first \in 1..n + 1
      /\ \A k \in 1..n : k < first => ~(L[k].start >= l.start) /\ ~own(k) /\ ~hit(k)
      /\ first <= n => L[first].start >= l.start \/ own(first) \/ hit(first)
  <2>1. first \in 1..n + 1 /\ (first <= n => L[first].start >= l.start \/ own(first) \/ hit(first))
    BY <1>2, <1>4
  <2>2. ASSUME NEW k \in 1..n, k < first PROVE k \notin A
    BY <1>2, <1>4, <2>1, <2>2
  <2>3. ASSUME NEW k \in 1..n, k < first PROVE ~(L[k].start >= l.start) /\ ~own(k) /\ ~hit(k)
    BY <2>2, <2>3
  <2> QED BY <2>1, <2>3
<1>6. second \in C /\ \A z \in C : second <= z
  <2>1. C \in SUBSET Nat /\ n + 1 \in C
    BY <1>2, <1>5
  <2> HIDE DEF C
  <2> QED BY <2>1, LeastMember
<1> HIDE DEF second
<1>7. /\ second \in first..n + 1
      /\ \A k \in first..n : past(k) \/ hit(k) => second <= k
      /\ second <= n => past(second) \/ hit(second)
  <2>1. second \in first..n + 1 /\ (second <= n => past(second) \/ hit(second))
    BY <1>2, <1>5, <1>6
  <2>2. ASSUME NEW k \in first..n, past(k) \/ hit(k) PROVE second <= k
    <3>1. k \in C
      BY <2>2
    <3> QED BY <1>6, <3>1
  <2> QED BY <2>1, <2>2
<1>8. stop \in 0..n /\ stop <= first
      /\ (stop = 0 => first = 1 /\ ~(first <= n /\ L[first].start < l.start))
      /\ (stop >= 1 => stop \in 1..n /\ L[stop].start < l.start)
  <2>1. CASE first <= n /\ L[first].start < l.start
    <3>1. stop = first
      BY <2>1
    <3> HIDE DEF stop
    <3> QED BY <1>2, <1>5, <2>1, <3>1
  <2>2. CASE ~(first <= n /\ L[first].start < l.start)
    <3>1. stop = first - 1
      BY <2>2
    <3> HIDE DEF stop
    <3>2. /\ stop \in 0..n /\ stop <= first /\ (stop = 0 => first = 1)
          /\ stop >= 1 => stop \in 1..n /\ stop < first
      BY <1>2, <1>5, <3>1
    <3>3. stop >= 1 => L[stop].start < l.start
      BY <1>3, <1>5, <3>2
    <3> QED BY <2>2, <3>2, <3>3
  <2> QED BY <2>1, <2>2
<1> HIDE DEF stop
<1>9. Start(L, l, Blocked(L, l).insrt)
  <2>1. CASE stop = 0
    <3>1. Blocked(L, l).insrt = NULL
      BY <1>1, <1>2, <2>1 DEF IdAt
    <3>2. ASSUME NEW g \in ToSet(L) PROVE l.start <= g.start
      <4>1. PICK i \in 1..n : g = L[i]
        BY <1>2, MemberIff
      <4>2. 1 \in 1..n /\ l.start <= L[1].start /\ (i = 1 \/ 1 < i)
        BY <1>2, <1>3, <1>8, <2>1, <4>1
      <4> QED BY <1>3, <1>s, <4>1, <4>2
    <3> QED BY <1>2, <3>1, <3>2 DEF Start, Fit
  <2>2. CASE stop # 0
    <3>1. stop \in 1..n /\ L[stop].start < l.start /\ L[stop] \in ToSet(L)
      BY <1>3, <1>8, <2>2
    <3>2. Blocked(L, l).insrt = Id(L[stop]) /\ Id(L[stop]) # NULL /\ Id(L[stop]) \in Rec
      BY <1>1, <1>2, <1>3, <3>1 DEF IdAt
    <3>3. IndexOf(L, Id(L[stop])) \in 1..n /\ Id(L[IndexOf(L, Id(L[stop]))]) = Id(L[stop])
      BY <3>1, IndexFacts
    <3>4. IndexOf(L, Id(L[stop])) = stop
      BY <3>1, <3>3 DEF Ordered, Named
    <3>5. ASSUME NEW i \in 1..stop - 1, L[i].own = l.own PROVE Before(L[i], l)
      <4>1. i \in 1..n /\ i < first
        BY <1>2, <1>5, <1>8, <3>1
      <4>2. ~own(i)
        BY <1>5, <4>1
      <4>3. ~(l.start - 1 <= L[i].end)
        BY <3>5, <4>2
      <4> QED BY <1>3, <4>1, <4>3 DEF Before
    <3>6. stop \in 1..n + 1
      BY <1>2, <3>1
    <3>7. Fit(ToSet(L), Id(L[stop]), l.start)
      <4>1. L[stop].start <= l.start
        BY <1>3, <3>1
      <4> QED BY <3>1, <3>2, <4>1 DEF Fit
    <3> QED BY <3>2, <3>4, <3>5, <3>6, <3>7 DEF Start
  <2> QED BY <2>1, <2>2
<1>10. ASSUME Blocked(L, l).found # NULL
       PROVE  \E f \in ToSet(L) : Id(f) = Blocked(L, l).found /\ InWay(f, l)
  <2>1. second \in 1..n /\ Blocked(L, l).found = Id(L[second])
    BY <1>1, <1>2, <1>5, <1>7, <1>10 DEF IdAt
  <2>2. ~past(second) /\ hit(second)
    BY <1>1, <1>7, <1>10, <2>1
  <2>3. InWay(L[second], l)
    BY <1>3, <2>1, <2>2 DEF InWay, Overlap
  <2> QED BY <1>3, <2>1, <2>3
<1>11. ASSUME Blocked(L, l).found = NULL, NEW f \in ToSet(L), InWay(f, l) PROVE FALSE
  <2>1. PICK k \in 1..n : L[k] = f
    BY <1>2, MemberIff
  <2>2. hit(k) /\ ~past(k)
    BY <1>3, <1>11, <2>1 DEF InWay, Overlap
  <2>3. k \in first..n
    BY <1>2, <1>5, <2>1, <2>2
  <2>4. second <= k /\ second \in 1..n
    BY <1>2, <1>5, <1>7, <2>1, <2>2, <2>3
  <2>5. ~past(second)
    <3>1. second = k \/ second < k
      BY <2>1, <2>4
    <3>2. L[second].start <= L[k].start
      BY <1>s, <1>3, <2>1, <2>4, <3>1
    <3> QED BY <1>3, <2>1, <2>2, <2>4, <3>2
  <2>6. Blocked(L, l).found = Id(L[second])
    BY <1>1, <1>2, <2>4, <2>5 DEF IdAt
  <2> QED BY <1>3, <1>11, <2>4, <2>6
<1> QED BY <1>9, <1>10, <1>11

(* A list as ListCanonical has it. *)
Good(L) == Ordered(L) /\ Clear(ToSet(L))

(* The scan begins. *)
LEMMA ScanStart ==
    ASSUME NEW L, Good(L), NEW l \in Lock, l.start <= l.end, NEW insrtp, Start(L, l, insrtp)
    PROVE  ScanInv([L |-> L, ld |-> l, insrtp |-> insrtp, wake |-> {}, at |-> "scan"], ToSet(L),
             Rest(L, (IF insrtp = NULL THEN 1 ELSE IndexOf(L, insrtp)) - 1), l)
<1> DEFINE s == [L |-> L, ld |-> l, insrtp |-> insrtp, wake |-> {}, at |-> "scan"]
           from == IF insrtp = NULL THEN 1 ELSE IndexOf(L, insrtp)
           n == Len(L)
<1>1. L \in Seq(Filock) /\ n \in Nat /\ Ordered(L) /\ Clear(ToSet(L))
  BY DEF Good, Ordered
<1>2. /\ insrtp \in Rec \cup {NULL} /\ from \in 1..n + 1
      /\ \A i \in 1..from - 1 : L[i].own = l.own => Before(L[i], l)
      /\ l.type # F_UNLCK => Fit(ToSet(L), insrtp, l.start)
  BY DEF Start
<1>3. s \in State
  BY <1>1, <1>2 DEF State
<1>4. s.L = L /\ s.ld = l /\ s.insrtp = insrtp /\ s.wake = {} /\ s.at = "scan"
  OBVIOUS
<1> HIDE DEF s, from
<1>5. Sound(s)
  BY <1>1, <1>3, <1>4 DEF Sound
<1>6. Joined(s.ld, l)
  <2>1. l.start <= l.start /\ l.end <= l.end
    BY LockFacts
  <2> QED BY <1>4, <2>1 DEF Joined
<1>7. Kept(ToSet(L), ToSet(s.L), s.ld, s.wake, l)
  BY <1>4 DEF Kept
<1>8. Cut(s, Rest(L, from - 1), l)
  <2>1. Rest(L, from - 1) \subseteq ToSet(L)
    <3>1. \A i \in from - 1 + 1..n : i \in 1..n
      BY <1>1, <1>2
    <3> QED BY <1>1, <3>1, MemberIff DEF Rest
  <2>2. ASSUME NEW g \in ToSet(L) \ Rest(L, from - 1), g.own = l.own PROVE Before(g, l)
    <3>1. PICK i \in 1..n : L[i] = g
      BY <1>1, MemberIff
    <3>2. i \notin from - 1 + 1..n
      BY <2>2, <3>1 DEF Rest
    <3>3. i \in 1..from - 1
      BY <1>1, <1>2, <3>1, <3>2
    <3> QED BY <1>2, <2>2, <3>1, <3>3
  <2> QED BY <1>2, <1>4, <2>1, <2>2 DEF Cut
<1>9. ScanInv(s, ToSet(L), Rest(L, from - 1), l)
  BY <1>5, <1>6, <1>7, <1>8 DEF ScanInv
<1> QED BY <1>9 DEF s, from

(* The bytes of l are l's owner's, of l's type, and no others have changed. *)
Done(F0, F, l) ==
    \A b \in Byte, t \in {F_RDLCK, F_WRLCK} :
        Covers(F, l.own, b, t) <=>
            IF l.start <= b /\ b <= l.end THEN t = l.type ELSE Covers(F0, l.own, b, t)

(* No byte is newly locked; those lost are of l, or run up to it or on     *)
(* from it in l's type.                                                    *)
Lost(F0, F, l) ==
    \A b \in Byte, t \in {F_RDLCK, F_WRLCK} :
        /\ Covers(F, l.own, b, t) => Covers(F0, l.own, b, t)
        /\ Covers(F0, l.own, b, t) =>
              \/ Covers(F, l.own, b, t)
              \/ l.start <= b /\ b <= l.end
              \/ b < l.start /\ \A c \in b .. l.start - 1 : Covers(F0, l.own, c, l.type)
              \/ b > l.end /\ \A c \in l.end + 1 .. b : Covers(F0, l.own, c, l.type)

(* An owner has a byte locked in one type only. *)
LEMMA OneType ==
    ASSUME NEW F \in SUBSET Filock, Clear(F), NEW p, NEW b \in Byte, NEW t, NEW u,
           Covers(F, p, b, t), Covers(F, p, b, u)
    PROVE  t = u
<1>1. PICK g \in F : g.own = p /\ g.type = t /\ g.start <= b /\ b <= g.end
  BY DEF Covers
<1>2. PICK h \in F : h.own = p /\ h.type = u /\ h.start <= b /\ b <= h.end
  BY DEF Covers
<1>3. g.start \in Nat /\ g.end \in Nat /\ h.start \in Nat /\ h.end \in Nat /\ b \in Nat
  BY FilockFacts DEF Byte
<1>4. g # h => Before(g, h) \/ After(g, h)
  BY <1>1, <1>2 DEF Clear
<1>5. g = h
  BY <1>1, <1>2, <1>3, <1>4 DEF Before, After
<1> QED BY <1>1, <1>2, <1>5

(* When the bytes of ld are as l wants them the call is done: what ld has    *)
(* beyond l is as it was.                                                    *)
LEMMA SettledDone ==
    ASSUME NEW F0 \in SUBSET Filock, Clear(F0), NEW F, NEW G, NEW ld \in Lock, NEW l \in Lock,
           NEW wake, Joined(ld, l), Kept(F0, F, ld, wake, l),
           \A b \in Byte, t \in {F_RDLCK, F_WRLCK} :
               Covers(G, l.own, b, t) <=>
                   IF ld.start <= b /\ b <= ld.end THEN t = l.type ELSE Covers(F, l.own, b, t)
    PROVE  Done(F0, G, l)
<1>0. /\ l.start \in Nat /\ l.end \in Nat /\ ld.start \in Nat /\ ld.end \in Nat
      /\ Byte \subseteq Nat
      /\ ld.start <= l.start /\ l.end <= ld.end
  BY LockFacts DEF Joined, Byte
<1> SUFFICES ASSUME NEW b \in Byte, NEW t \in {F_RDLCK, F_WRLCK}
             PROVE  Covers(G, l.own, b, t) <=>
                 IF l.start <= b /\ b <= l.end THEN t = l.type ELSE Covers(F0, l.own, b, t)
  BY DEF Done
<1>1. CASE l.start <= b /\ b <= l.end
  <2>1. ld.start <= b /\ b <= ld.end
    BY <1>0, <1>1
  <2> QED BY <1>1, <2>1
<1>2. CASE ~(l.start <= b /\ b <= l.end) /\ ld.start <= b /\ b <= ld.end
  <2>1. Covers(F0, l.own, b, l.type)
    BY <1>2 DEF Kept
  <2>2. Covers(F0, l.own, b, t) <=> t = l.type
    BY <2>1, OneType
  <2> QED BY <1>2, <2>2
<1>3. CASE ~(ld.start <= b /\ b <= ld.end)
  <2>1. Covers(F, l.own, b, t) <=> Covers(F0, l.own, b, t)
    BY <1>3 DEF Kept
  <2>2. ~(l.start <= b /\ b <= l.end)
    BY <1>0, <1>3
  <2> QED BY <1>3, <2>1, <2>2
<1> QED BY <1>1, <1>2, <1>3

(* When the call ends early it has lost at most what ld has. *)
LEMMA KeptLost ==
    ASSUME NEW F0, NEW F, NEW ld \in Lock, NEW l \in Lock, l.start <= l.end,
           NEW wake, Joined(ld, l), Kept(F0, F, ld, wake, l)
    PROVE  Lost(F0, F, l)
<1>0. /\ l.start \in Nat /\ l.end \in Nat /\ ld.start \in Nat /\ ld.end \in Nat
      /\ ld.start <= l.start /\ l.end <= ld.end /\ Byte = 0..MAXEND /\ MAXEND \in Nat
      /\ l.start <= MAXEND /\ l.end <= MAXEND
  BY LockFacts DEF Joined, Byte
<1> SUFFICES ASSUME NEW b \in Byte, NEW t \in {F_RDLCK, F_WRLCK}
             PROVE
        /\ Covers(F, l.own, b, t) => Covers(F0, l.own, b, t)
        /\ Covers(F0, l.own, b, t) =>
              \/ Covers(F, l.own, b, t)
              \/ l.start <= b /\ b <= l.end
              \/ b < l.start /\ \A c \in b .. l.start - 1 : Covers(F0, l.own, c, l.type)
              \/ b > l.end /\ \A c \in l.end + 1 .. b : Covers(F0, l.own, c, l.type)
  BY DEF Lost
<1>1. Covers(F, l.own, b, t) => Covers(F0, l.own, b, t)
  BY DEF Kept
<1>2. ASSUME Covers(F0, l.own, b, t), ~Covers(F, l.own, b, t) PROVE ld.start <= b /\ b <= ld.end
  BY <1>2 DEF Kept
<1>3. ASSUME ld.start <= b, b <= ld.end, b < l.start, NEW c \in b .. l.start - 1
      PROVE  Covers(F0, l.own, c, l.type)
  <2>1. c \in Byte /\ ld.start <= c /\ c <= ld.end /\ ~(l.start <= c /\ c <= l.end)
    BY <1>0, <1>3
  <2> QED BY <2>1 DEF Kept
<1>4. ASSUME ld.start <= b, b <= ld.end, b > l.end, NEW c \in l.end + 1 .. b
      PROVE  Covers(F0, l.own, c, l.type)
  <2>1. c \in Byte /\ ld.start <= c /\ c <= ld.end /\ ~(l.start <= c /\ c <= l.end)
    BY <1>0, <1>4
  <2> QED BY <2>1 DEF Kept
<1>5. b < l.start \/ (l.start <= b /\ b <= l.end) \/ b > l.end
  BY <1>0
<1> QED BY <1>1, <1>2, <1>3, <1>4, <1>5

(* flckadj as a whole, from any place blocked() may give it and wherever     *)
(* memory runs out: the list is good, sleepers on records that change are    *)
(* woken, other owners' records stay, and the bytes of l are set or, with    *)
(* ENOLCK, some of the owner's are lost.                                     *)
LEMMA FlckadjFacts ==
    ASSUME NEW L, Good(L), NEW l \in Lock, l.start <= l.end, NEW insrtp, Start(L, l, insrtp),
           NEW nomem
    PROVE  LET t == Flckadj(L, insrtp, l, nomem)
           IN  /\ Good(t.L) /\ t.wake \in SUBSET Rec
               /\ \A g \in ToSet(L) : g \in ToSet(t.L) \/ (g.wakeflg => Id(g) \in t.wake)
               /\ \A g : g.own # l.own => (g \in ToSet(t.L) <=> g \in ToSet(L))
               /\ Done(ToSet(L), ToSet(t.L), l) \/ Lost(ToSet(L), ToSet(t.L), l)
<1> DEFINE from == IF insrtp = NULL THEN 1 ELSE IndexOf(L, insrtp)
           s0 == [L |-> L, ld |-> l, insrtp |-> insrtp, wake |-> {}, at |-> "scan"]
           s == Scan(L, from, s0, nomem)
           t == Flckadj(L, insrtp, l, nomem)
           F0 == ToSet(L)
           F == ToSet(s.L)
           new == Insflck(s, s.ld, Place(s.L, s.insrtp, s.ld.start), nomem = "new")
<1>1. from \in 1..Len(L) + 1 /\ Ordered(L) /\ Clear(F0)
  BY DEF Start, Good
<1>2. ScanInv(s0, F0, Rest(L, from - 1), l)
  BY ScanStart
<1>t. t = IF s.at \in {"done", "ENOLCK"} \/ l.type = F_UNLCK THEN s ELSE new
  BY DEF Flckadj
<1> HIDE DEF s0, from
<1>3. ScanInv(s, F0, {}, l)
  BY <1>1, <1>2, ScanFacts
<1> HIDE DEF s, t
<1>4. /\ s \in State /\ Ordered(s.L) /\ Clear(F) /\ Joined(s.ld, l) /\ Cut(s, {}, l)
      /\ Kept(F0, F, s.ld, s.wake, l) /\ Good(s.L)
  BY <1>3 DEF ScanInv, Sound, Good
<1>5. /\ s.ld \in Lock /\ s.wake \in SUBSET Rec /\ s.ld.own = l.own /\ s.ld.type = l.type
      /\ s.ld.start <= l.start /\ l.end <= s.ld.end /\ s.at \in {"scan", "stop", "done", "ENOLCK"}
      /\ s.L \in Seq(Filock) /\ s.insrtp \in Rec \cup {NULL}
  BY <1>4, StateFacts DEF Joined
<1>6. F \subseteq Filock /\ F0 \subseteq Filock
  BY <1>1, <1>4, MemberIff DEF Ordered
<1>7. /\ s.ld.start \in Nat /\ s.ld.end \in Nat /\ l.start \in Nat /\ l.end \in Nat
      /\ s.ld.start <= s.ld.end /\ Byte \subseteq Nat
      /\ \A g \in F : g.start \in Nat /\ g.end \in Nat /\ g.type \in {F_RDLCK, F_WRLCK}
  BY <1>5, <1>6, LockFacts, FilockFacts DEF Byte
<1>8. /\ \A g \in F0 : g \in F \/ (g.wakeflg => Id(g) \in s.wake)
      /\ \A g : g.own # l.own => (g \in F <=> g \in F0)
  BY <1>4 DEF Kept
<1>9. Lost(F0, F, l)
  BY <1>4, <1>5, KeptLost
<1>10. CASE s.at = "ENOLCK"
  <2>1. t = s
    BY <1>t, <1>10
  <2> QED BY <1>4, <1>5, <1>8, <1>9, <2>1 DEF t
<1>11. CASE s.at = "done"
  <2>1. t = s
    BY <1>t, <1>11
  <2>2. PICK g \in F : /\ g.own = l.own /\ g.type = l.type
                       /\ g.start <= s.ld.start /\ s.ld.end <= g.end
    BY <1>4, <1>11 DEF Cut
  <2>3. ASSUME NEW b \in Byte, NEW u \in {F_RDLCK, F_WRLCK}, s.ld.start <= b /\ b <= s.ld.end
        PROVE  Covers(F, l.own, b, u) <=> u = l.type
    <3>1. Covers(F, l.own, b, l.type)
      <4>1. g.start <= b /\ b <= g.end
        BY <1>7, <2>2, <2>3
      <4> QED BY <2>2, <4>1 DEF Covers
    <3> QED BY <1>4, <1>6, <3>1, OneType
  <2>4. Done(F0, F, l)
    BY <1>1, <1>4, <1>5, <1>6, <2>3, SettledDone
  <2> QED BY <1>4, <1>5, <1>8, <2>1, <2>4 DEF t
<1>12. ASSUME s.at \in {"scan", "stop"}, NEW g \in F, g.own = l.own
       PROVE  Before(g, s.ld) \/ After(g, s.ld)
  BY <1>4, <1>12 DEF Cut
<1>13. ASSUME s.at \in {"scan", "stop"}, NEW b \in Byte, NEW u, s.ld.start <= b /\ b <= s.ld.end
       PROVE  ~Covers(F, l.own, b, u)
  <2> SUFFICES ASSUME NEW g \in F, g.own = l.own, g.start <= b, b <= g.end PROVE FALSE
    BY DEF Covers
  <2>1. Before(g, s.ld) \/ After(g, s.ld)
    BY <1>12, <1>13
  <2> QED BY <1>7, <1>13, <2>1 DEF Before, After
<1>14. CASE s.at \in {"scan", "stop"} /\ l.type = F_UNLCK
  <2>1. t = s
    BY <1>t, <1>14
  <2>2. \A u \in {F_RDLCK, F_WRLCK} : u # l.type
    BY <1>14 DEF F_RDLCK, F_WRLCK, F_UNLCK
  <2>3. Done(F0, F, l)
    BY <1>1, <1>4, <1>5, <1>6, <1>13, <1>14, <2>2, SettledDone
  <2> QED BY <1>4, <1>5, <1>8, <2>1, <2>3 DEF t
<1>15. CASE s.at \in {"scan", "stop"} /\ l.type # F_UNLCK
  <2>1. t = new
    <3>1. s.at \notin {"done", "ENOLCK"}
      BY <1>15
    <3> QED BY <1>t, <1>15, <3>1
  <2>2. CASE nomem = "new"
    <3>1. t = [s EXCEPT !.at = "ENOLCK"]
      BY <2>1, <2>2 DEF Insflck
    <3>2. t.L = s.L /\ t.wake = s.wake
      BY <1>4, <3>1 DEF State
    <3> QED BY <1>4, <1>5, <1>8, <1>9, <3>2 DEF t
  <2>3. CASE nomem # "new"
    <3> DEFINE r == [own |-> s.ld.own, type |-> s.ld.type, start |-> s.ld.start,
                     end |-> s.ld.end, wakeflg |-> FALSE]
               M == InsertAt(s.L, Place(s.L, s.insrtp, s.ld.start) + 1, r)
    <3>1. t = [s EXCEPT !.L = M]
      BY <2>1, <2>3 DEF Insflck
    <3>2. /\ r \in Filock /\ r.own = l.own /\ r.type = l.type /\ r.start = s.ld.start
          /\ r.end = s.ld.end
      BY <1>5, <1>15 DEF Filock, Lock
    <3> HIDE DEF r
    <3>3. \A g \in F : Id(g) # Id(r)
      <4>1. ASSUME NEW g \in F, Id(g) = Id(r) PROVE FALSE
        <5>1. g.own = l.own /\ g.start = s.ld.start
          BY <1>6, <3>2, <4>1, IdFacts
        <5>2. (Before(g, s.ld) \/ After(g, s.ld)) /\ g.start <= g.end
          BY <1>4, <1>12, <1>15, <5>1 DEF Clear
        <5> QED BY <1>7, <5>1, <5>2 DEF Before, After
      <4> QED BY <4>1
    <3>4. Fit(F, s.insrtp, r.start)
      BY <1>4, <1>15, <3>2 DEF Cut
    <3>5. M = InsertAt(s.L, Place(s.L, s.insrtp, r.start) + 1, r)
      BY <3>2
    <3>6. Ordered(M) /\ ToSet(M) = F \cup {r}
      <4>1. LET K == InsertAt(s.L, Place(s.L, s.insrtp, r.start) + 1, r)
            IN  Ordered(K) /\ ToSet(K) = F \cup {r}
        BY <1>4, <3>2, <3>3, <3>4, InsertRecord
      <4> QED BY <3>5, <4>1
    <3> HIDE DEF M
    <3>7. t.L = M /\ t.wake = s.wake
      BY <1>4, <3>1 DEF State
    <3> DEFINE G == F \cup {r}
    <3>8. Clear(G)
      <4>1. ASSUME NEW g \in F, g.own = l.own
            PROVE  (Before(g, r) \/ After(g, r)) /\ (Before(r, g) \/ After(r, g))
        <5>1. Before(g, s.ld) \/ After(g, s.ld)
          BY <1>12, <1>15, <4>1
        <5> QED BY <1>5, <1>7, <3>2, <5>1 DEF Before, After
      <4>2. r.start <= r.end
        BY <1>7, <3>2
      <4> QED BY <1>4, <3>2, <4>1, <4>2 DEF Clear
    <3>9. ASSUME NEW b \in Byte, NEW u \in {F_RDLCK, F_WRLCK}
          PROVE  Covers(G, l.own, b, u) <=>
                   IF s.ld.start <= b /\ b <= s.ld.end THEN u = l.type ELSE Covers(F, l.own, b, u)
      <4>1. Covers(G, l.own, b, u) <=>
              \/ Covers(F, l.own, b, u)
              \/ u = l.type /\ s.ld.start <= b /\ b <= s.ld.end
        BY <3>2 DEF Covers
      <4> QED BY <1>13, <1>15, <4>1
    <3> HIDE DEF G
    <3>10. Done(F0, G, l)
      BY <1>1, <1>4, <1>5, <1>6, <3>9, SettledDone
    <3>11. /\ \A g \in F0 : g \in G \/ (g.wakeflg => Id(g) \in s.wake)
           /\ \A g : g.own # l.own => (g \in G <=> g \in F0)
      BY <1>8, <3>2 DEF G
    <3>12. ToSet(M) = G
      BY <3>6 DEF G
    <3> QED BY <1>5, <3>6, <3>7, <3>8, <3>10, <3>11, <3>12 DEF t, Good
  <2> QED BY <2>2, <2>3
<1> QED BY <1>5, <1>10, <1>11, <1>14, <1>15

(* The records of P among the first k. *)
Gone(L, k, P) == {g \in ToSet(L) : \E i \in 1..k : L[i] = g /\ g.own \in P}

(* The states of the loop of cleanlocks exist. *)
LEMMA CleanedStates ==
    ASSUME NEW L, NEW n \in Nat, NEW P, NEW s
    PROVE  \E g : g = [k \in 0..n |-> IF k = 0 THEN s
                                      ELSE IF L[k].own \in P THEN Delflck(g[k - 1], L[k])
                                      ELSE g[k - 1]]
<1> DEFINE D(q, k) == IF L[k].own \in P THEN Delflck(q, L[k]) ELSE q
           Q(m) == \E g : g = [k \in 0..m |-> IF k = 0 THEN s ELSE D(g[k - 1], k)]
           S == {m \in Nat : ~Q(m)}
<1> HIDE DEF D
<1>0. Q(n)
  <2>1. SUFFICES ASSUME n \in S PROVE FALSE
    OBVIOUS
  <2>2. S \in SUBSET Nat
    OBVIOUS
  <2>3. Min(S) \in S /\ \A z \in S : Min(S) <= z
    <3> HIDE DEF S
    <3> QED BY <2>1, <2>2, LeastMember
  <2> DEFINE m == Min(S)
  <2>4. m \in Nat /\ ~Q(m)
    BY <2>3
  <2>5. ASSUME m # 0 PROVE Q(m - 1)
    <3>1. m - 1 \in Nat /\ ~(m <= m - 1)
      BY <2>4, <2>5
    <3>2. m - 1 \notin S
      BY <2>3, <3>1
    <3> QED BY <3>1, <3>2
  <2> HIDE DEF m
  <2>6. CASE m = 0
    <3> DEFINE g == [k \in 0..m |-> s]
    <3>1. g = [k \in 0..m |-> IF k = 0 THEN s ELSE D(g[k - 1], k)]
      BY <2>6
    <3> QED BY <2>4, <3>1
  <2>7. CASE m # 0
    <3>1. PICK h : h = [k \in 0..m - 1 |-> IF k = 0 THEN s ELSE D(h[k - 1], k)]
      BY <2>5, <2>7
    <3> DEFINE e == D(h[m - 1], m)
               g == [k \in 0..m |-> IF k < m THEN h[k] ELSE e]
    <3>2. ASSUME NEW k \in 0..m
          PROVE  g[k] = IF k = 0 THEN s ELSE D(g[k - 1], k)
      <4>1. CASE k < m
        <5>1. k \in 0..m - 1 /\ g[k] = h[k]
          BY <2>4, <4>1
        <5>2. h[k] = IF k = 0 THEN s ELSE D(h[k - 1], k)
          BY <3>1, <5>1
        <5>3. k # 0 => g[k - 1] = h[k - 1]
          <6>1. k # 0 => k - 1 \in 0..m /\ k - 1 < m
            BY <2>4, <4>1
          <6> QED BY <6>1
        <5> QED BY <5>1, <5>2, <5>3
      <4>2. CASE k = m
        <5>1. g[m] = e /\ g[m - 1] = h[m - 1]
          BY <2>4, <2>7
        <5> QED BY <2>7, <4>2, <5>1
      <4> QED BY <2>4, <4>1, <4>2
    <3>3. g = [k \in 0..m |-> IF k = 0 THEN s ELSE D(g[k - 1], k)]
      <4>1. g = [k \in 0..m |-> g[k]]
        OBVIOUS
      <4> HIDE DEF g
      <4> QED BY <3>2, <4>1
    <3> QED BY <2>4, <3>3
  <2> QED BY <2>6, <2>7
<1> QED BY <1>0 DEF D

(* Where the loop of cleanlocks has come to. *)
Cleaning(L, k, P, s) ==
    /\ s \in [L : Seq(Filock), wake : SUBSET Rec]
    /\ Ordered(s.L) /\ ToSet(s.L) = ToSet(L) \ Gone(L, k, P)
    /\ \A g \in Gone(L, k, P) : g.wakeflg => Id(g) \in s.wake

(* cleanlocks removes the records of P and no others, and wakes their        *)
(* sleepers.                                                                 *)
LEMMA CleanedFacts ==
    ASSUME NEW L, Good(L), NEW P
    PROVE  LET t == Cleaned(L, P)
           IN  /\ Good(t.L) /\ t.wake \in SUBSET Rec
               /\ ToSet(t.L) = {g \in ToSet(L) : g.own \notin P}
               /\ \A g \in ToSet(L) : g \in ToSet(t.L) \/ (g.wakeflg => Id(g) \in t.wake)
<1> DEFINE n == Len(L)
           s0 == [L |-> L, wake |-> {}]
           after == CHOOSE g : g = [k \in 0..n |-> IF k = 0 THEN s0
                                      ELSE IF L[k].own \in P THEN Delflck(g[k - 1], L[k])
                                      ELSE g[k - 1]]
           Bad == {k \in Nat : k \in 0..n /\ ~Cleaning(L, k, P, after[k])}
           t == Cleaned(L, P)
<1>1. n \in Nat /\ L \in Seq(Filock) /\ ToSet(L) \subseteq Filock /\ Ordered(L) /\ Clear(ToSet(L))
  BY MemberIff DEF Ordered, Good
<1> HIDE DEF s0
<1>2. after = [k \in 0..n |-> IF k = 0 THEN s0
                                      ELSE IF L[k].own \in P THEN Delflck(after[k - 1], L[k])
                                      ELSE after[k - 1]]
  BY <1>1, CleanedStates, SMTT(30)
<1>3. t = after[n]
  BY DEF Cleaned, s0
<1> HIDE DEF after, t
<1>4. \A k \in 0..n : after[k] = IF k = 0 THEN s0
                                 ELSE IF L[k].own \in P THEN Delflck(after[k - 1], L[k])
                                 ELSE after[k - 1]
  BY <1>2
<1>5. \A i \in 1..n : L[i] \in ToSet(L) /\ L[i] \in Filock
  BY <1>1, MemberIff
<1>6. Bad = {}
  <2> SUFFICES ASSUME NEW x \in Bad PROVE FALSE
    OBVIOUS
  <2>1. Bad \in SUBSET Nat
    OBVIOUS
  <2> DEFINE k == Min(Bad)
  <2>2. k \in Bad /\ \A z \in Bad : k <= z
    <3> HIDE DEF Bad
    <3> QED BY <2>1, LeastMember
  <2>3. k \in 0..n /\ ~Cleaning(L, k, P, after[k])
    BY <2>2
  <2>4. k # 0 => Cleaning(L, k - 1, P, after[k - 1])
    <3>1. k # 0 => k - 1 \in 0..n /\ k - 1 \in Nat /\ ~(k <= k - 1)
      BY <1>1, <2>3
    <3> QED BY <2>2, <3>1
  <2> HIDE DEF k
  <2>5. k # 0
    <3>1. ASSUME k = 0 PROVE Gone(L, k, P) = {}
      BY <3>1 DEF Gone
    <3>2. ASSUME k = 0 PROVE after[k] = [L |-> L, wake |-> {}]
      BY <1>4, <2>3, <3>2 DEF s0
    <3>3. ASSUME k = 0 PROVE Cleaning(L, k, P, after[k])
      BY <1>1, <3>1, <3>2, <3>3 DEF Cleaning
    <3> QED BY <2>3, <3>3
  <2> DEFINE p == after[k - 1]
             f == L[k]
  <2>6. /\ Cleaning(L, k - 1, P, p) /\ k \in 1..n /\ f \in ToSet(L) /\ f \in Filock
        /\ after[k] = IF f.own \in P THEN Delflck(p, f) ELSE p
    BY <1>1, <1>4, <1>5, <2>3, <2>4, <2>5
  <2>7. /\ f \notin Gone(L, k - 1, P)
        /\ f.own \in P => Gone(L, k, P) = Gone(L, k - 1, P) \cup {f}
        /\ f.own \notin P => Gone(L, k, P) = Gone(L, k - 1, P)
    <3>1. \A i \in 1..k : i = k \/ i \in 1..k - 1
      BY <2>3
    <3>2. \A i \in 1..k - 1 : i \in 1..k /\ i \in 1..n /\ i # k
      BY <1>1, <2>3
    <3>3. \A i \in 1..k - 1 : L[i] # f
      BY <2>6, <3>2, <1>1 DEF Ordered, Named
    <3>4. k \in 1..k
      BY <2>6
    <3> QED BY <2>6, <3>1, <3>2, <3>3, <3>4 DEF Gone
  <2> HIDE DEF p, f
  <2>8. CASE f.own \notin P
    BY <2>3, <2>6, <2>7, <2>8 DEF Cleaning
  <2>9. CASE f.own \in P
    <3>1. p \in [L : Seq(Filock), wake : SUBSET Rec] /\ Ordered(p.L) /\ f \in ToSet(p.L)
      BY <2>6, <2>7 DEF Cleaning
    <3> DEFINE M == RemoveAt(p.L, IndexOf(p.L, Id(f)))
               w == WakeOf(p, f)
    <3>2. Ordered(M) /\ ToSet(M) = ToSet(p.L) \ {f}
      BY <3>1, RemoveRecord
    <3>3. w \in SUBSET Rec /\ p.wake \subseteq w /\ (f.wakeflg => Id(f) \in w)
      BY <2>6, <3>1, FilockFacts DEF WakeOf
    <3>4. Delflck(p, f) = [p EXCEPT !.L = M, !.wake = w]
      BY DEF Delflck
    <3> HIDE DEF M, w
    <3>5. M \in Seq(Filock)
      BY <3>2 DEF Ordered
    <3>6. /\ after[k] \in [L : Seq(Filock), wake : SUBSET Rec]
          /\ after[k].L = M /\ after[k].wake = w
      BY <2>6, <2>9, <3>1, <3>3, <3>4, <3>5
    <3>7. Cleaning(L, k, P, after[k])
      BY <2>6, <2>7, <2>9, <3>2, <3>3, <3>6 DEF Cleaning
    <3> QED BY <2>3, <3>7
  <2> QED BY <2>8, <2>9
<1>7. Cleaning(L, n, P, t)
  <2>1. n \in 0..n /\ n \in Nat
    BY <1>1
  <2> QED BY <1>3, <1>6, <2>1
<1>8. Gone(L, n, P) = {g \in ToSet(L) : g.own \in P}
  BY <1>1, MemberIff DEF Gone
<1>9. ToSet(t.L) = {g \in ToSet(L) : g.own \notin P}
  BY <1>7, <1>8 DEF Cleaning
<1>10. Clear(ToSet(t.L))
  BY <1>1, <1>9 DEF Clear
<1>11. /\ t.wake \in SUBSET Rec
       /\ \A g \in ToSet(L) : g \in ToSet(t.L) \/ (g.wakeflg => Id(g) \in t.wake)
  BY <1>7, <1>8, <1>9 DEF Cleaning
<1> QED BY <1>7, <1>9, <1>10, <1>11 DEF t, Cleaning, Good

(***************************************************************************)
(* The inductive invariant, and what each action does to it.               *)
(***************************************************************************)
(* A call in progress asks for a range that convoff has let pass. *)
Asks(p, l) == l \in Lock /\ l.own = p /\ l.start <= l.end

(* The inductive invariant.  The lists are good, because every scan relies   *)
(* on that; calls in progress ask for ranges that are not empty; and         *)
(* NoLostWakeup, which is inductive together with these.                     *)
Inv ==
    /\ TypeOK
    /\ \A v \in Vnode : Good(v_filocks[v])
    /\ \A p \in Proc : pc[p] # "user" => /\ call[p] \in [v : Vnode, l : Lock, cmd : Cmd]
                                         /\ Asks(p, call[p].l)
    /\ NoLostWakeup

(* What passes convoff and the test of the range (flock.c 400-413) is a lock *)
(* of the caller that is not empty: sums that overflow are negative.         *)
LEMMA ConvertFacts ==
    ASSUME NEW p \in Proc, NEW r \in Requests, Convert(p, r) # NULL
    PROVE  Asks(p, Convert(p, r)) /\ r.cmd \in Cmd
<1>1. /\ r.type \in {F_RDLCK, F_WRLCK, F_UNLCK} /\ r.whence \in 0..2 /\ r.start \in Int
      /\ r.len \in Int /\ r.start <= MAXEND /\ r.len <= MAXEND /\ r.cmd \in Cmd /\ MAXEND \in Nat
      /\ Offset \in Nat /\ Offset <= MAXEND /\ Size \in Nat /\ Size <= MAXEND
  BY FlockAssumption DEF Cmd
<1> DEFINE x == CASE r.whence = 0 -> 0 [] r.whence = 1 -> Offset [] r.whence = 2 -> Size
           start == Convoff(r)
           end == IF r.len = 0 THEN MAXEND ELSE Long(r.len + (start - 1))
           l == [own |-> p, type |-> r.type, start |-> start, end |-> end]
<1>2. x \in Nat /\ x <= MAXEND
  BY <1>1
<1>3. start = Long(r.start + x)
  BY DEF Convoff
<1> HIDE DEF x
<1>4. start \in Int /\ start <= MAXEND
  BY <1>1, <1>2, <1>3 DEF Long
<1>5. Convert(p, r) = l /\ ~(start < 0 \/ r.len < 0 \/ start > end)
  BY DEF Convert
<1> HIDE DEF start
<1>6. end \in Int /\ end <= MAXEND
  BY <1>1, <1>4, <1>5 DEF Long
<1> HIDE DEF end
<1>7. start \in Byte /\ end \in Byte /\ start <= end
  BY <1>1, <1>4, <1>5, <1>6 DEF Byte
<1>8. l \in Lock /\ l.own = p /\ l.start = start /\ l.end = end
  BY <1>1, <1>7 DEF Lock
<1> QED BY <1>1, <1>5, <1>7, <1>8 DEF Asks

(* Reaching a record that is to be marked. *)
LEMMA MarkFacts ==
    ASSUME NEW v \in Vnode, v_filocks \in [Vnode -> Seq(Filock)], Good(v_filocks[v]),
           NEW f \in ToSet(v_filocks[v])
    PROVE  \E M, g : /\ Mark(v, Id(f)) = [v_filocks EXCEPT ![v] = M]
                     /\ Good(M) /\ g \in Filock /\ Id(g) = Id(f) /\ g.wakeflg = TRUE
                     /\ g.own = f.own /\ g.type = f.type /\ g.start = f.start /\ g.end = f.end
                     /\ ToSet(M) = (ToSet(v_filocks[v]) \ {f}) \cup {g}
<1> DEFINE L == v_filocks[v]
           i == IndexOf(L, Id(f))
           g == [f EXCEPT !.wakeflg = TRUE]
           M == ReplaceAt(L, i, g)
<1>1. Ordered(L) /\ Clear(ToSet(L)) /\ L \in Seq(Filock)
  BY DEF Good
<1>2. i \in 1..Len(L) /\ L[i] = f /\ f \in Filock
  BY <1>1, IndexFacts
<1>3. Mark(v, Id(f)) = [v_filocks EXCEPT ![v] = [L EXCEPT ![i] = [L[i] EXCEPT !.wakeflg = TRUE]]]
  BY DEF Mark
<1>4. Mark(v, Id(f)) = [v_filocks EXCEPT ![v] = M]
  BY <1>2, <1>3 DEF ReplaceAt
<1>5. /\ g \in Filock /\ g.wakeflg = TRUE
      /\ g.own = f.own /\ g.type = f.type /\ g.start = f.start /\ g.end = f.end
  BY <1>2 DEF Filock
<1> HIDE DEF g, L, i
<1>6. Id(g) = Id(f)
  BY <1>5 DEF Id
<1>7. f \in ToSet(L)
  BY DEF L
<1>8. Ordered(M) /\ ToSet(M) = (ToSet(L) \ {f}) \cup {g}
  BY <1>1, <1>5, <1>6, <1>7, ReplaceRecord DEF i
<1> HIDE DEF M
<1>9. Clear(ToSet(M))
  <2>1. ToSet(L) \subseteq Filock
    BY <1>1, MemberIff
  <2>2. /\ g.start <= g.end /\ f.start <= g.start /\ g.end <= f.end
    BY <1>1, <1>2, <1>5, <1>7, FilockFacts DEF Clear
  <2>3. Clear((ToSet(L) \ {f}) \cup {g})
    BY <1>1, <1>5, <1>7, <2>1, <2>2, ChangedClear
  <2> QED BY <1>8, <2>3
<1>10. Good(M)
  BY <1>8, <1>9 DEF Good
<1> QED BY <1>4, <1>5, <1>6, <1>8, <1>10 DEF L

(* Whether p's sleep is on a lock that will wake it. *)
Guarded(p) ==
    \E f \in ToSet(v_filocks[call[p].v]) :
        /\ Id(f) = chan[p] /\ f.wakeflg
        /\ Overlap(f, call[p].l) /\ Excludes(f, call[p].l)

(* No wakeup is lost when every sleeper is guarded. *)
LEMMA GuardedIff == NoLostWakeup <=> \A p \in Proc : pc[p] = "asleep" => Guarded(p)
BY DEF NoLostWakeup, Guarded

(* A sleeper that a change of the list does not wake keeps its lock. *)
LEMMA GuardKept ==
    ASSUME Inv, NEW v \in Vnode, NEW M, NEW w,
           v_filocks' = [v_filocks EXCEPT ![v] = M],
           \A g \in ToSet(v_filocks[v]) : g \in ToSet(M) \/ (g.wakeflg => Id(g) \in w),
           NEW q \in Proc, pc[q] = "asleep", call[q].v = v => chan[q] \notin w,
           call'[q] = call[q], chan'[q] = chan[q]
    PROVE  Guarded(q)'
<1>1. PICK f \in ToSet(v_filocks[call[q].v]) :
        /\ Id(f) = chan[q] /\ f.wakeflg
        /\ Overlap(f, call[q].l) /\ Excludes(f, call[q].l)
  BY GuardedIff DEF Inv, Guarded
<1>2. call[q].v \in Vnode /\ v_filocks \in [Vnode -> Seq(Filock)]
  BY DEF Inv, TypeOK
<1>3. f \in ToSet(v_filocks'[call[q].v])
  <2>1. CASE call[q].v = v
    BY <1>1, <1>2, <2>1
  <2>2. CASE call[q].v # v
    BY <1>1, <1>2, <2>2
  <2> QED BY <2>1, <2>2
<1> QED BY <1>1, <1>3 DEF Guarded

(* The change of one list that keeps it good. *)
LEMMA ListsKept ==
    ASSUME Inv, NEW v \in Vnode, NEW M, Good(M), v_filocks' = [v_filocks EXCEPT ![v] = M]
    PROVE  v_filocks' \in [Vnode -> Seq(Filock)] /\ \A w \in Vnode : Good(v_filocks'[w])
<1>1. M \in Seq(Filock)
  BY DEF Good, Ordered
<1> QED BY <1>1 DEF Inv, TypeOK

(* wakeup() wakes those who sleep on one of the records and nobody else. *)
LEMMA WokenFacts ==
    ASSUME Inv, NEW v, NEW w
    PROVE  /\ Woken(v, w) \in [Proc -> {"user", "asleep", "woken"}]
           /\ \A q \in Proc : /\ Woken(v, w)[q] = "asleep" =>
                                   pc[q] = "asleep" /\ (call[q].v = v => chan[q] \notin w)
                              /\ Woken(v, w)[q] # "user" => pc[q] # "user"
BY DEF Woken, Inv, TypeOK

(* The return to user mode. *)
LEMMA ReturnKept ==
    ASSUME Inv, NEW p \in Proc, NEW pcs, Return(p, pcs),
           pcs \in [Proc -> {"user", "asleep", "woken"}],
           \A q \in Proc : pcs[q] # "user" => pc[q] # "user",
           v_filocks' \in [Vnode -> Seq(Filock)], \A v \in Vnode : Good(v_filocks'[v]),
           \A q \in Proc : pcs[q] = "asleep" /\ q # p /\ call'[q] = call[q] /\ chan'[q] = chan[q]
                              => Guarded(q)'
    PROVE  Inv'
<1>1. /\ pc' = [pcs EXCEPT ![p] = "user"]
      /\ blk' = [blk EXCEPT ![p] = NULL]
      /\ chan' = [chan EXCEPT ![p] = NULL]
      /\ call' = [call EXCEPT ![p] = NULL]
      /\ sig' = [sig EXCEPT ![p] = FALSE]
  BY DEF Return, NoCall
<1>2. TypeOK'
  BY <1>1 DEF Inv, TypeOK, NoCall
<1>3. \A q \in Proc : q # p => call'[q] = call[q] /\ chan'[q] = chan[q] /\ pc'[q] = pcs[q]
  BY <1>1 DEF Inv, TypeOK
<1>4. pc'[p] = "user"
  BY <1>1
<1>5. \A q \in Proc : pc'[q] # "user" => /\ call'[q] \in [v : Vnode, l : Lock, cmd : Cmd]
                                         /\ Asks(q, call'[q].l)
  BY <1>3, <1>4 DEF Inv
<1>6. NoLostWakeup'
  <2>1. ASSUME NEW q \in Proc, pc'[q] = "asleep" PROVE Guarded(q)'
    BY <1>3, <1>4, <2>1
  <2> QED BY <2>1 DEF NoLostWakeup, Guarded
<1> QED BY <1>2, <1>5, <1>6 DEF Inv

(* flckadj, after a lock was found free or for an unlock. *)
LEMMA SetKept ==
    ASSUME Inv, NEW p \in Proc, NEW v \in Vnode, NEW l, Asks(p, l), NEW insrtp,
           Start(v_filocks[v], l, insrtp), Set(p, v, l, insrtp)
    PROVE  Inv'
<1>1. PICK nomem : /\ v_filocks' = [v_filocks EXCEPT ![v] =
                                       Flckadj(v_filocks[v], insrtp, l, nomem).L]
                   /\ Return(p, Woken(v, Flckadj(v_filocks[v], insrtp, l, nomem).wake))
  BY DEF Set
<1> DEFINE t == Flckadj(v_filocks[v], insrtp, l, nomem)
           M == t.L
           w == t.wake
<1>2. /\ Good(M)
      /\ \A g \in ToSet(v_filocks[v]) : g \in ToSet(M) \/ (g.wakeflg => Id(g) \in w)
  BY FlckadjFacts DEF Inv, Asks
<1>3. v_filocks' = [v_filocks EXCEPT ![v] = M] /\ Return(p, Woken(v, w))
  BY <1>1
<1> HIDE DEF t, M, w
<1>4. v_filocks' \in [Vnode -> Seq(Filock)] /\ \A x \in Vnode : Good(v_filocks'[x])
  BY <1>2, <1>3, ListsKept
<1>5. ASSUME NEW q \in Proc, Woken(v, w)[q] = "asleep", call'[q] = call[q], chan'[q] = chan[q]
      PROVE  Guarded(q)'
  <2>1. pc[q] = "asleep" /\ (call[q].v = v => chan[q] \notin w)
    BY <1>5, WokenFacts
  <2> QED BY <1>2, <1>3, <1>5, <2>1, GuardKept DEF Guarded
<1> QED BY <1>3, <1>4, <1>5, WokenFacts, ReturnKept

(* Sleepers are undisturbed where no list changes. *)
LEMMA GuardSame ==
    ASSUME Inv, NEW q \in Proc, pc[q] = "asleep", v_filocks' = v_filocks,
           call'[q] = call[q], chan'[q] = chan[q]
    PROVE  Guarded(q)'
BY GuardedIff DEF Inv, Guarded

(* A return that leaves the lists alone. *)
LEMMA ReturnSame ==
    ASSUME Inv, NEW p \in Proc, Return(p, pc), v_filocks' = v_filocks
    PROVE  Inv'
<1>1. v_filocks' \in [Vnode -> Seq(Filock)] /\ \A v \in Vnode : Good(v_filocks'[v])
  BY DEF Inv, TypeOK
<1>2. \A q \in Proc : pc[q] = "asleep" /\ q # p /\ call'[q] = call[q] /\ chan'[q] = chan[q]
                              => Guarded(q)'
  BY GuardSame
<1> QED BY <1>1, <1>2, ReturnKept DEF Inv, TypeOK

(* Going to sleep: the record slept on is marked in the same step, and is in *)
(* the way.                                                                  *)
LEMMA WaitKept ==
    ASSUME Inv, NEW p \in Proc, NEW v \in Vnode, NEW l, Asks(p, l), NEW cmd \in Cmd,
           NEW f \in ToSet(v_filocks[v]), InWay(f, l), pc[p] # "asleep",
           Wait(p, v, l, cmd, Id(f))
    PROVE  Inv'
<1>1. CASE Return(p, pc) /\ UNCHANGED v_filocks
  BY <1>1, ReturnSame
<1>2. CASE v_filocks' = Mark(v, Id(f))
  <2>1. PICK M, g : /\ Mark(v, Id(f)) = [v_filocks EXCEPT ![v] = M]
                    /\ Good(M) /\ g \in Filock /\ Id(g) = Id(f) /\ g.wakeflg = TRUE
                    /\ g.own = f.own /\ g.type = f.type /\ g.start = f.start /\ g.end = f.end
                    /\ ToSet(M) = (ToSet(v_filocks[v]) \ {f}) \cup {g}
    BY MarkFacts DEF Inv, TypeOK
  <2>2. v_filocks' \in [Vnode -> Seq(Filock)] /\ \A x \in Vnode : Good(v_filocks'[x])
    BY <1>2, <2>1, ListsKept
  <2>3. ASSUME NEW q \in Proc, pc[q] = "asleep", call'[q] = call[q], chan'[q] = chan[q]
        PROVE  Guarded(q)'
    <3>1. PICK h \in ToSet(v_filocks[call[q].v]) :
            /\ Id(h) = chan[q] /\ h.wakeflg
            /\ Overlap(h, call[q].l) /\ Excludes(h, call[q].l)
      BY <2>3, GuardedIff DEF Inv, Guarded
    <3>2. call[q].v \in Vnode /\ v_filocks \in [Vnode -> Seq(Filock)]
      BY <2>3 DEF Inv, TypeOK
    <3>3. CASE call[q].v = v /\ h = f
      <4>1. g \in ToSet(v_filocks'[call[q].v])
        BY <1>2, <2>1, <3>2, <3>3
      <4>2. Id(g) = chan[q] /\ g.wakeflg /\ Overlap(g, call[q].l) /\ Excludes(g, call[q].l)
        BY <2>1, <3>1, <3>3 DEF Overlap, Excludes
      <4> QED BY <2>3, <4>1, <4>2 DEF Guarded
    <3>4. CASE ~(call[q].v = v /\ h = f)
      <4>1. h \in ToSet(v_filocks'[call[q].v])
        BY <1>2, <2>1, <3>1, <3>2, <3>4
      <4> QED BY <2>3, <3>1, <4>1 DEF Guarded
    <3> QED BY <3>3, <3>4
  <2>4. CASE Return(p, pc)
    BY <2>2, <2>3, <2>4, ReturnKept DEF Inv, TypeOK
  <2>5. CASE /\ pc' = [pc EXCEPT ![p] = "asleep"]
             /\ blk' = [blk EXCEPT ![p] = FilockAt(v, Id(f)).own]
             /\ chan' = [chan EXCEPT ![p] = Id(f)]
             /\ call' = [call EXCEPT ![p] = [v |-> v, l |-> l, cmd |-> cmd]]
             /\ UNCHANGED sig
    <3>1. FilockAt(v, Id(f)) = f /\ f \in Filock
      BY IndexFacts DEF FilockAt, Inv, Good
    <3>2. f.own \in Proc /\ Id(f) \in Rec
      BY <3>1, FilockFacts
    <3>3. [v |-> v, l |-> l, cmd |-> cmd] \in [v : Vnode, l : Lock, cmd : Cmd]
      BY DEF Asks
    <3>4. TypeOK'
      BY <2>2, <2>5, <3>1, <3>2, <3>3 DEF Inv, TypeOK
    <3>5. \A q \in Proc : q # p => call'[q] = call[q] /\ chan'[q] = chan[q] /\ pc'[q] = pc[q]
      BY <2>5 DEF Inv, TypeOK
    <3>6. call'[p] = [v |-> v, l |-> l, cmd |-> cmd] /\ chan'[p] = Id(f)
      BY <2>5 DEF Inv, TypeOK
    <3>7. \A q \in Proc : pc'[q] # "user" => /\ call'[q] \in [v : Vnode, l : Lock, cmd : Cmd]
                                             /\ Asks(q, call'[q].l)
      BY <3>3, <3>5, <3>6 DEF Inv
    <3>8. Guarded(p)'
      <4>1. call'[p].v = v /\ call'[p].l = l
        BY <3>6
      <4>2. g \in ToSet(v_filocks'[v])
        BY <1>2, <2>1 DEF Inv, TypeOK
      <4>3. Id(g) = chan'[p] /\ g.wakeflg /\ Overlap(g, l) /\ Excludes(g, l)
        BY <2>1, <3>6 DEF InWay, Overlap, Excludes
      <4> QED BY <4>1, <4>2, <4>3 DEF Guarded
    <3>9. NoLostWakeup'
      <4>1. ASSUME NEW q \in Proc, pc'[q] = "asleep" PROVE Guarded(q)'
        BY <2>3, <3>5, <3>8, <4>1
      <4> QED BY <4>1 DEF NoLostWakeup, Guarded
    <3> QED BY <2>2, <3>4, <3>7, <3>9 DEF Inv
  <2> QED BY <1>2, <2>4, <2>5 DEF Wait
<1> QED BY <1>1, <1>2 DEF Wait

(* One turn of the loop of reclock. *)
LEMMA ReclockKept ==
    ASSUME Inv, NEW p \in Proc, NEW v \in Vnode, NEW l, Asks(p, l), NEW cmd \in Cmd,
           pc[p] # "asleep", Reclock(p, v, l, cmd)
    PROVE  Inv'
<1> DEFINE L == v_filocks[v]
           b == Blocked(L, l)
<1>1. Good(L) /\ Ordered(L)
  BY DEF Inv, Good
<1>2. /\ Start(L, l, b.insrt)
      /\ b.found # NULL => \E f \in ToSet(L) : Id(f) = b.found /\ InWay(f, l)
  BY <1>1, BlockedFacts DEF Asks
<1>3. \/ l.type = F_UNLCK /\ Set(p, v, l, IdAt(L, 1))
      \/ Set(p, v, l, b.insrt)
      \/ Return(p, pc) /\ UNCHANGED v_filocks
      \/ b.found # NULL /\ Wait(p, v, l, cmd, b.found)
  BY DEF Reclock
<1>4. CASE l.type = F_UNLCK /\ Set(p, v, l, IdAt(L, 1))
  <2>1. Start(L, l, IdAt(L, 1))
    BY <1>1, <1>4, StartUnlock DEF Asks
  <2> QED BY <1>4, <2>1, SetKept
<1> HIDE DEF b
<1>5. CASE Set(p, v, l, b.insrt)
  BY <1>2, <1>5, SetKept
<1>6. CASE Return(p, pc) /\ UNCHANGED v_filocks
  BY <1>6, ReturnSame
<1>7. CASE b.found # NULL /\ Wait(p, v, l, cmd, b.found)
  BY <1>2, <1>7, WaitKept
<1> QED BY <1>3, <1>4, <1>5, <1>6, <1>7

(* A signal only wakes. *)
LEMMA SignalKept ==
    ASSUME Inv, NEW p \in Proc, Signal(p)
    PROVE  Inv'
<1>1. TypeOK' /\ \A v \in Vnode : Good(v_filocks'[v])
  BY DEF Signal, Inv, TypeOK
<1>2. \A q \in Proc : /\ pc'[q] = "asleep" => pc[q] = "asleep"
                      /\ pc'[q] # "user" => pc[q] # "user"
  BY DEF Signal, Inv, TypeOK
<1>3. call' = call /\ chan' = chan /\ v_filocks' = v_filocks
  BY DEF Signal
<1>4. NoLostWakeup'
  BY <1>2, <1>3 DEF Inv, NoLostWakeup
<1> QED BY <1>1, <1>2, <1>3, <1>4 DEF Inv

(* cleanlocks. *)
LEMMA CleanlocksKept ==
    ASSUME Inv, NEW v \in Vnode, NEW P, Cleanlocks(v, P)
    PROVE  Inv'
<1> DEFINE t == Cleaned(v_filocks[v], P)
           M == t.L
           w == t.wake
<1>1. /\ v_filocks' = [v_filocks EXCEPT ![v] = M] /\ pc' = Woken(v, w)
      /\ blk' = blk /\ chan' = chan /\ call' = call /\ sig' = sig
  BY DEF Cleanlocks
<1>2. /\ Good(M)
      /\ \A g \in ToSet(v_filocks[v]) : g \in ToSet(M) \/ (g.wakeflg => Id(g) \in w)
  BY CleanedFacts DEF Inv
<1> HIDE DEF t, M, w
<1>3. v_filocks' \in [Vnode -> Seq(Filock)] /\ \A x \in Vnode : Good(v_filocks'[x])
  BY <1>1, <1>2, ListsKept
<1>4. /\ Woken(v, w) \in [Proc -> {"user", "asleep", "woken"}]
      /\ \A q \in Proc : /\ Woken(v, w)[q] = "asleep" =>
                                   pc[q] = "asleep" /\ (call[q].v = v => chan[q] \notin w)
                         /\ Woken(v, w)[q] # "user" => pc[q] # "user"
  BY WokenFacts
<1>5. TypeOK'
  BY <1>1, <1>3, <1>4 DEF Inv, TypeOK
<1>6. ASSUME NEW q \in Proc, pc'[q] = "asleep" PROVE Guarded(q)'
  BY <1>1, <1>2, <1>4, <1>6, GuardKept DEF Guarded
<1>7. NoLostWakeup'
  BY <1>6 DEF NoLostWakeup, Guarded
<1> QED BY <1>1, <1>3, <1>4, <1>5, <1>7 DEF Inv

(* Every step keeps the invariant. *)
LEMMA NextKept ==
    ASSUME Inv, [Next]_vars
    PROVE  Inv'
<1>1. CASE UNCHANGED vars
  BY <1>1 DEF vars, Inv, TypeOK, NoLostWakeup
<1>2. ASSUME NEW p \in Proc, NEW v \in Vnode, NEW r \in Requests, Call(p, v, r) PROVE Inv'
  BY <1>2, ConvertFacts, ReclockKept DEF Call
<1>3. ASSUME NEW p \in Proc, Resume(p) PROVE Inv'
  <2>1. call[p] \in [v : Vnode, l : Lock, cmd : Cmd] /\ Asks(p, call[p].l) /\ pc[p] = "woken"
    BY <1>3 DEF Resume, Inv
  <2>2. CASE Return(p, pc) /\ UNCHANGED v_filocks
    BY <2>2, ReturnSame
  <2>3. CASE Reclock(p, call[p].v, call[p].l, call[p].cmd)
    BY <2>1, <2>3, ReclockKept
  <2> QED BY <1>3, <2>2, <2>3 DEF Resume
<1>4. ASSUME NEW p \in Proc, Signal(p) PROVE Inv'
  BY <1>4, SignalKept
<1>5. ASSUME NEW v \in Vnode, NEW P, Cleanlocks(v, P) PROVE Inv'
  BY <1>5, CleanlocksKept
<1> QED BY <1>1, <1>2, <1>3, <1>4, <1>5 DEF Next, Close

(* A file begins without locks. *)
LEMMA EmptyGood == Good(<<>>)
<1>1. <<>> \in Seq(Filock) /\ Len(<<>>) = 0 /\ ToSet(<<>>) = {}
  BY DEF ToSet
<1> QED BY <1>1 DEF Good, Ordered, Sorted, Named, Clear

(* The invariant of record locking holds in every reachable state, for any   *)
(* number of processes, files and requests and any size of offsets.          *)
THEOREM FlockInvariant == Spec => []Inv
<1>1. Init => Inv
  BY EmptyGood DEF Init, Inv, TypeOK, NoLostWakeup, NoCall
<1> QED BY <1>1, NextKept, PTL DEF Spec

(* A good list, record by record. *)
LEMMA GoodCanonical ==
    ASSUME NEW L, Good(L)
    PROVE  /\ \A k \in DOMAIN L : L[k].start <= L[k].end
           /\ \A j, k \in DOMAIN L : j < k =>
               /\ L[j].start <= L[k].start
               /\ Id(L[j]) # Id(L[k])
               /\ L[j].own = L[k].own =>
                    IF L[j].type = L[k].type THEN L[j].end + 1 < L[k].start
                                             ELSE L[j].end < L[k].start
<1>1. L \in Seq(Filock) /\ Len(L) \in Nat /\ DOMAIN L = 1..Len(L) /\ Sorted(L) /\ Named(L)
  BY DEF Good, Ordered
<1>2. \A k \in DOMAIN L : L[k] \in ToSet(L) /\ L[k] \in Filock
  BY <1>1, MemberIff
<1>3. \A k \in DOMAIN L : L[k].start <= L[k].end /\ L[k].start \in Nat /\ L[k].end \in Nat
  BY <1>2, FilockFacts DEF Good, Clear
<1>4. ASSUME NEW j \in DOMAIN L, NEW k \in DOMAIN L, j < k
      PROVE  /\ L[j].start <= L[k].start
             /\ Id(L[j]) # Id(L[k])
             /\ L[j].own = L[k].own =>
                    IF L[j].type = L[k].type THEN L[j].end + 1 < L[k].start
                                             ELSE L[j].end < L[k].start
  <2>1. L[j].start <= L[k].start /\ Id(L[j]) # Id(L[k])
    BY <1>1, <1>4 DEF Sorted, Named
  <2>2. L[j].own = L[k].own => Before(L[j], L[k]) \/ After(L[j], L[k])
    BY <1>2, <2>1 DEF Good, Clear
  <2> QED BY <1>3, <2>1, <2>2 DEF Before, After
<1> QED BY <1>3, <1>4

(* Lock lists stay ordered by start, and the locks of one owner never        *)
(* overlap nor adjoin in one type, whatever is asked for in whatever order   *)
(* and wherever memory runs out (flock.c 13, flckadj).                       *)
THEOREM ListsAreSound == Spec => []ListSound
<1>1. Inv => ListSound
  BY GoodCanonical DEF Inv, ListSound, ListCanonical
<1> QED BY <1>1, FlockInvariant, PTL

(* blocked() (flock.c 336) finds a lock if and only if one is in the way,    *)
(* for every lock anybody could ask for.                                     *)
THEOREM BlockedIsExact == Spec => []BlockedExact
<1>1. Inv => BlockedExact
  <2> SUFFICES ASSUME Inv, NEW v \in Vnode, NEW p \in Proc, NEW t \in {F_RDLCK, F_WRLCK},
                      NEW a \in Byte, NEW b \in Byte, a <= b
               PROVE  LET l == [own |-> p, type |-> t, start |-> a, end |-> b]
                          f == Blocked(v_filocks[v], l).found
                          inway == {g \in ToSet(v_filocks[v]) : Overlap(g, l) /\ Excludes(g, l)}
                      IN  IF inway = {} THEN f = NULL ELSE f \in {Id(g) : g \in inway}
    BY DEF BlockedExact
  <2> DEFINE l == [own |-> p, type |-> t, start |-> a, end |-> b]
             L == v_filocks[v]
             f == Blocked(L, l).found
             inway == {g \in ToSet(L) : Overlap(g, l) /\ Excludes(g, l)}
  <2>1. l \in Lock /\ l.start <= l.end
    BY DEF Lock
  <2>2. Ordered(L)
    BY DEF Inv, Good
  <2> HIDE DEF l, L
  <2>3. /\ f # NULL => \E g \in ToSet(L) : Id(g) = f /\ InWay(g, l)
        /\ f = NULL => \A g \in ToSet(L) : ~InWay(g, l)
    BY <2>1, <2>2, BlockedFacts
  <2> HIDE DEF f
  <2>4. f # NULL => \E g \in inway : Id(g) = f
    BY <2>3 DEF InWay
  <2>5. f = NULL => inway = {}
    BY <2>3 DEF InWay
  <2>6. IF inway = {} THEN f = NULL ELSE f \in {Id(g) : g \in inway}
    BY <2>4, <2>5
  <2> QED BY <2>6 DEF l, L, f
<1> QED BY <1>1, FlockInvariant, PTL

(* Whoever sleeps in reclock sleeps on a lock that is in the list, in its    *)
(* way and marked (IWLCK), so that its release wakes it: flckadj loses no    *)
(* wakeup when it joins, trims, splits or upgrades locks.                    *)
THEOREM WakeupsAreKept == Spec => []NoLostWakeup
BY FlockInvariant, PTL DEF Inv

(*****************************************************************************)
(* Deadlock detection.                                                       *)
(*****************************************************************************)
(* How a step of reclock may change the entries in sleeplcks: it leaves    *)
(* them, removes one, or adds one that deadflck has looked at.             *)
BlkStep ==
    \/ blk' = blk
    \/ \E p \in Proc : blk' = [blk EXCEPT ![p] = NULL]
    \/ \E p \in Proc, o \in Proc :
          ~Deadflck(o, p) /\ blk' = [blk EXCEPT ![p] = o]

(* The entries of sleeplcks are of processes, and name processes. *)
BlkType == blk \in [Proc -> Proc \cup {NULL}]

(* A process that deadflck lets wait waits for a process. *)
LEMMA OwnerIsProc ==
    ASSUME NEW o, NEW p \in Proc, ~Deadflck(o, p)
    PROVE  o \in Proc
  BY DEF Deadflck

(* flckadj leaves sleeplcks to reclock, which removes the caller's entry. *)
LEMMA SetBlk ==
    ASSUME NEW p \in Proc, NEW v, NEW l, NEW i, Set(p, v, l, i)
    PROVE  BlkStep
  <1>1. blk' = [blk EXCEPT ![p] = NULL]  BY DEF Set, Return
  <1> QED  BY <1>1 DEF BlkStep

(* Waiting adds an entry only after deadflck. *)
LEMMA WaitBlk ==
    ASSUME NEW p \in Proc, NEW v, NEW l, NEW c, NEW f, Wait(p, v, l, c, f)
    PROVE  BlkStep
  <1>1. CASE Return(p, pc)
    <2>1. blk' = [blk EXCEPT ![p] = NULL]  BY <1>1 DEF Return
    <2> QED  BY <2>1 DEF BlkStep
  <1>2. CASE ~Return(p, pc)
    <2>1. /\ ~Deadflck(FilockAt(v, f).own, p)
          /\ blk' = [blk EXCEPT ![p] = FilockAt(v, f).own]
      BY <1>2 DEF Wait
    <2>2. FilockAt(v, f).own \in Proc  BY <2>1, OwnerIsProc
    <2> QED  BY <2>1, <2>2 DEF BlkStep
  <1> QED  BY <1>1, <1>2

(* One turn of the loop of reclock. *)
LEMMA ReclockBlk ==
    ASSUME NEW p \in Proc, NEW v, NEW l, NEW c, Reclock(p, v, l, c)
    PROVE  BlkStep
  <1>1. \/ \E i : Set(p, v, l, i)
        \/ Return(p, pc)
        \/ \E f : Wait(p, v, l, c, f)
    BY DEF Reclock
  <1>2. CASE \E i : Set(p, v, l, i)      BY <1>2, SetBlk
  <1>3. CASE Return(p, pc)
    <2>1. blk' = [blk EXCEPT ![p] = NULL]  BY <1>3 DEF Return
    <2> QED  BY <2>1 DEF BlkStep
  <1>4. CASE \E f : Wait(p, v, l, c, f)  BY <1>4, WaitBlk
  <1> QED  BY <1>1, <1>2, <1>3, <1>4

(* Every step changes sleeplcks as BlkStep says. *)
LEMMA NextBlk ==
    ASSUME [Next]_vars
    PROVE  BlkStep
  <1>1. CASE UNCHANGED vars  BY <1>1 DEF vars, BlkStep
  <1>2. CASE Next
    <2>1. \/ \E p \in Proc, v \in Vnode, r \in Requests : Call(p, v, r)
          \/ \E p \in Proc, v \in Vnode : Close(p, v)
          \/ \E p \in Proc : Resume(p)
          \/ \E p \in Proc : Signal(p)
          \/ \E v \in Vnode : Cleanlocks(v, Remote)
      BY <1>2 DEF Next
    <2>2. CASE \E p \in Proc, v \in Vnode, r \in Requests : Call(p, v, r)
      <3>1. PICK p \in Proc, v \in Vnode, r \in Requests :
                    Reclock(p, v, Convert(p, r), r.cmd)
        BY <2>2 DEF Call
      <3> QED  BY <3>1, ReclockBlk
    <2>3. CASE \E p \in Proc, v \in Vnode : Close(p, v)
      BY <2>3 DEF Close, Cleanlocks, BlkStep
    <2>4. CASE \E p \in Proc : Resume(p)
      <3>1. PICK p \in Proc : Resume(p)  BY <2>4
      <3>2. CASE Return(p, pc)
        <4>1. blk' = [blk EXCEPT ![p] = NULL]  BY <3>2 DEF Return
        <4> QED  BY <4>1 DEF BlkStep
      <3>3. CASE Reclock(p, call[p].v, call[p].l, call[p].cmd)
        BY <3>3, ReclockBlk
      <3> QED  BY <3>1, <3>2, <3>3 DEF Resume
    <2>5. CASE \E p \in Proc : Signal(p)
      BY <2>5 DEF Signal, BlkStep
    <2>6. CASE \E v \in Vnode : Cleanlocks(v, Remote)
      BY <2>6 DEF Cleanlocks, BlkStep
    <2> QED  BY <2>1, <2>2, <2>3, <2>4, <2>5, <2>6
  <1> QED  BY <1>1, <1>2

(* The entries keep their type. *)
LEMMA BlkTypeStep ==
    ASSUME BlkType, BlkStep
    PROVE  BlkType'
  BY DEF BlkType, BlkStep

(* Removing an entry closes no circle. *)
LEMMA RemoveAcyclic ==
    ASSUME BlkType, DeadflckEnds, NEW p \in Proc, blk' = [blk EXCEPT ![p] = NULL]
    PROVE  DeadflckEnds'
  <1> SUFFICES ASSUME NEW C \in SUBSET Proc, C # {},
                      \A q \in C : blk'[q] # NULL /\ blk'[q] \in C
               PROVE  FALSE
    BY DEF DeadflckEnds
  <1>1. p \notin C  BY DEF BlkType
  <1>2. \A q \in C : blk'[q] = blk[q]  BY <1>1 DEF BlkType
  <1> QED  BY <1>2 DEF DeadflckEnds

(* Nor does adding one that deadflck has not objected to. *)
LEMMA AddAcyclic ==
    ASSUME BlkType, DeadflckEnds, NEW p \in Proc, NEW o \in Proc,
           ~Deadflck(o, p), blk' = [blk EXCEPT ![p] = o]
    PROVE  DeadflckEnds'
  <1> SUFFICES ASSUME NEW C \in SUBSET Proc, C # {},
                      \A q \in C : blk'[q] # NULL /\ blk'[q] \in C
               PROVE  FALSE
    BY DEF DeadflckEnds
  <1>1. PICK S \in SUBSET Proc :
               /\ o \in S /\ p \notin S
               /\ \A q \in S : blk[q] # NULL => blk[q] \in S
    BY DEF Deadflck
  <1>2. \A q \in Proc : q # p => blk'[q] = blk[q]  BY DEF BlkType
  <1>3. CASE p \notin C
    <2>1. \A q \in C : blk'[q] = blk[q]  BY <1>2, <1>3
    <2> QED  BY <2>1 DEF DeadflckEnds
  <1>4. CASE p \in C
    <2>1. o \in C  BY <1>4 DEF BlkType
    <2>2. C \cap S \in SUBSET Proc /\ C \cap S # {}  BY <2>1, <1>1
    <2>3. \A q \in C \cap S : blk[q] # NULL /\ blk[q] \in C \cap S
      BY <1>1, <1>2
    <2> QED  BY <2>2, <2>3 DEF DeadflckEnds
  <1> QED  BY <1>3, <1>4

(* The walk of deadflck (flock.c 541) ends from wherever it starts, in     *)
(* every reachable state: a process is entered into sleeplcks only when    *)
(* that closes no circle, and entries of woken processes do no harm.       *)
THEOREM DeadflckEndsAlways == Spec => []DeadflckEnds
  <1>1. Init => BlkType /\ DeadflckEnds
    BY DEF Init, BlkType, DeadflckEnds
  <1>2. BlkType /\ DeadflckEnds /\ [Next]_vars => (BlkType /\ DeadflckEnds)'
    <2> SUFFICES ASSUME BlkType, DeadflckEnds, [Next]_vars
                 PROVE  BlkType' /\ DeadflckEnds'
      OBVIOUS
    <2>1. BlkStep  BY NextBlk
    <2>2. BlkType'  BY <2>1, BlkTypeStep
    <2>3. CASE blk' = blk  BY <2>2, <2>3 DEF DeadflckEnds
    <2>4. CASE \E p \in Proc : blk' = [blk EXCEPT ![p] = NULL]
      BY <2>2, <2>4, RemoveAcyclic
    <2>5. CASE \E p \in Proc, o \in Proc :
                  ~Deadflck(o, p) /\ blk' = [blk EXCEPT ![p] = o]
      BY <2>2, <2>5, AddAcyclic
    <2> QED  BY <2>1, <2>2, <2>3, <2>4, <2>5 DEF BlkStep
  <1> QED  BY <1>1, <1>2, PTL DEF Spec

(***************************************************************************)
(* Sleepers.  The entry of a sleeper names the owner of the record it      *)
(* sleeps on.                                                              *)
(***************************************************************************)
SleepEntry ==
    /\ pc \in [Proc -> {"user", "asleep", "woken"}]
    /\ DOMAIN chan = Proc
    /\ \A p \in Proc : pc[p] = "asleep" => chan[p] # NULL /\ blk[p] = chan[p][1]

(* What blocked() finds is a record of the list. *)
LEMMA FoundInList ==
    ASSUME NEW L, NEW l, Blocked(L, l).found # NULL
    PROVE  \E k \in DOMAIN L : Id(L[k]) = Blocked(L, l).found
  BY DEF Blocked, IdAt

(* A record found by its name has the owner in that name. *)
LEMMA OwnerInName ==
    ASSUME NEW v, NEW id, id # NULL, \E k \in DOMAIN v_filocks[v] : Id(v_filocks[v][k]) = id
    PROVE  FilockAt(v, id).own = id[1]
  <1>1. PICK L : L = v_filocks[v]  OBVIOUS
  <1>2. PICK i : i = IndexOf(L, id)  OBVIOUS
  <1>3. i = CHOOSE k \in DOMAIN L : Id(L[k]) = id  BY <1>2 DEF IndexOf
  <1>4. \E k \in DOMAIN L : Id(L[k]) = id  BY <1>1
  <1>5. Id(L[i]) = id  BY <1>3, <1>4
  <1>6. L[i].own = id[1]  BY <1>5 DEF Id
  <1> QED  BY <1>1, <1>2, <1>6 DEF FilockAt

(* wakeup() puts nobody to sleep. *)
LEMMA WokenType ==
    ASSUME SleepEntry, NEW v, NEW ids
    PROVE  /\ Woken(v, ids) \in [Proc -> {"user", "asleep", "woken"}]
           /\ \A q \in Proc : Woken(v, ids)[q] = "asleep" => pc[q] = "asleep"
  BY DEF Woken, SleepEntry

(* The return to user mode leaves the other sleepers their entries. *)
LEMMA ReturnSleep ==
    ASSUME BlkType, SleepEntry, NEW p \in Proc, NEW pcs,
           pcs \in [Proc -> {"user", "asleep", "woken"}],
           \A q \in Proc : pcs[q] = "asleep" => pc[q] = "asleep",
           Return(p, pcs)
    PROVE  SleepEntry'
  <1>1. /\ pc' = [pcs EXCEPT ![p] = "user"]
        /\ blk' = [blk EXCEPT ![p] = NULL]
        /\ chan' = [chan EXCEPT ![p] = NULL]
    BY DEF Return
  <1>2. pc' \in [Proc -> {"user", "asleep", "woken"}]  BY <1>1
  <1>3. DOMAIN chan' = Proc  BY <1>1 DEF SleepEntry
  <1>4. ASSUME NEW q \in Proc, pc'[q] = "asleep"
        PROVE  chan'[q] # NULL /\ blk'[q] = chan'[q][1]
    <2>1. q # p  BY <1>1, <1>4
    <2>2. pc[q] = "asleep"  BY <1>1, <1>4, <2>1
    <2>3. blk'[q] = blk[q] /\ chan'[q] = chan[q]  BY <1>1, <2>1 DEF BlkType, SleepEntry
    <2> QED  BY <2>2, <2>3 DEF SleepEntry
  <1> QED  BY <1>2, <1>3, <1>4 DEF SleepEntry

(* reclock puts its caller to sleep on a record of the owner it enters. *)
LEMMA WaitSleep ==
    ASSUME BlkType, SleepEntry, NEW p \in Proc, NEW v, NEW l, NEW c, NEW f, f # NULL,
           \E k \in DOMAIN v_filocks[v] : Id(v_filocks[v][k]) = f,
           Wait(p, v, l, c, f)
    PROVE  SleepEntry'
  <1>1. CASE Return(p, pc)
    BY <1>1, ReturnSleep DEF SleepEntry
  <1>2. CASE ~Return(p, pc)
    <2>1. /\ pc' = [pc EXCEPT ![p] = "asleep"]
          /\ blk' = [blk EXCEPT ![p] = FilockAt(v, f).own]
          /\ chan' = [chan EXCEPT ![p] = f]
      BY <1>2 DEF Wait
    <2>2. pc' \in [Proc -> {"user", "asleep", "woken"}] /\ DOMAIN chan' = Proc
      BY <2>1 DEF SleepEntry
    <2>3. FilockAt(v, f).own = f[1]  BY OwnerInName
    <2>4. ASSUME NEW q \in Proc, pc'[q] = "asleep"
          PROVE  chan'[q] # NULL /\ blk'[q] = chan'[q][1]
      <3>1. CASE q = p
        BY <2>1, <2>3, <3>1 DEF BlkType, SleepEntry
      <3>2. CASE q # p
        <4>1. pc[q] = "asleep" /\ blk'[q] = blk[q] /\ chan'[q] = chan[q]
          BY <2>1, <2>4, <3>2 DEF BlkType, SleepEntry
        <4> QED  BY <4>1 DEF SleepEntry
      <3> QED  BY <3>1, <3>2
    <2> QED  BY <2>2, <2>4 DEF SleepEntry
  <1> QED  BY <1>1, <1>2

(* One turn of the loop of reclock. *)
LEMMA ReclockSleep ==
    ASSUME BlkType, SleepEntry, NEW p \in Proc, NEW v, NEW l, NEW c, Reclock(p, v, l, c)
    PROVE  SleepEntry'
  <1>1. PICK f : f = Blocked(v_filocks[v], l).found  OBVIOUS
  <1>2. \/ \E i : Set(p, v, l, i)
        \/ Return(p, pc)
        \/ f # NULL /\ Wait(p, v, l, c, f)
    BY <1>1 DEF Reclock
  <1>3. CASE \E i : Set(p, v, l, i)
    <2>1. \E ids : Return(p, Woken(v, ids))  BY <1>3 DEF Set
    <2> QED  BY <2>1, WokenType, ReturnSleep
  <1>4. CASE Return(p, pc)  BY <1>4, ReturnSleep DEF SleepEntry
  <1>5. CASE f # NULL /\ Wait(p, v, l, c, f)
    <2>1. \E k \in DOMAIN v_filocks[v] : Id(v_filocks[v][k]) = f
      BY <1>1, <1>5, FoundInList
    <2> QED  BY <1>5, <2>1, WaitSleep
  <1> QED  BY <1>2, <1>3, <1>4, <1>5

(* A step that only wakes sleepers. *)
LEMMA WakeSleep ==
    ASSUME SleepEntry, pc' \in [Proc -> {"user", "asleep", "woken"}],
           \A q \in Proc : pc'[q] = "asleep" => pc[q] = "asleep",
           blk' = blk, chan' = chan
    PROVE  SleepEntry'
  BY DEF SleepEntry

(* Every step keeps the entries of the sleepers right. *)
LEMMA NextSleep ==
    ASSUME BlkType, SleepEntry, [Next]_vars
    PROVE  SleepEntry'
  <1>1. CASE UNCHANGED vars  BY <1>1 DEF vars, SleepEntry
  <1>2. ASSUME NEW p \in Proc, NEW v \in Vnode, NEW r \in Requests, Call(p, v, r)
        PROVE  SleepEntry'
    BY <1>2, ReclockSleep DEF Call
  <1>3. ASSUME NEW p \in Proc, Resume(p)
        PROVE  SleepEntry'
    <2>1. CASE Return(p, pc)  BY <2>1, ReturnSleep DEF SleepEntry
    <2>2. CASE Reclock(p, call[p].v, call[p].l, call[p].cmd)  BY <2>2, ReclockSleep
    <2> QED  BY <1>3, <2>1, <2>2 DEF Resume
  <1>4. ASSUME NEW p \in Proc, Signal(p)
        PROVE  SleepEntry'
    BY <1>4, WakeSleep DEF Signal, SleepEntry
  <1>5. ASSUME NEW v, NEW P, Cleanlocks(v, P)
        PROVE  SleepEntry'
    <2>1. /\ \E ids : pc' = Woken(v, ids)
          /\ blk' = blk /\ chan' = chan
      BY <1>5 DEF Cleanlocks
    <2> QED  BY <2>1, WokenType, WakeSleep
  <1> QED  BY <1>1, <1>2, <1>3, <1>4, <1>5 DEF Next, Close

(* The processes asleep on record locks never wait for one another in a    *)
(* circle (flock.c 429-437): a lock whose release would have to come from  *)
(* a sleeper that waits for the caller is refused with EDEADLK.            *)
THEOREM NoDeadlockAlways == Spec => []NoDeadlock
  <1>1. Init => BlkType /\ SleepEntry
    BY DEF Init, BlkType, SleepEntry
  <1>2. BlkType /\ SleepEntry /\ [Next]_vars => (BlkType /\ SleepEntry)'
    BY NextBlk, BlkTypeStep, NextSleep
  <1>3. ASSUME SleepEntry, DeadflckEnds, NoLostWakeup
        PROVE  NoDeadlock
    <2>1. ASSUME NEW p \in Proc, pc[p] = "asleep"
          PROVE  WaitsFor(p) = blk[p]
      <3>1. chan[p] # NULL /\ blk[p] = chan[p][1]  BY <1>3, <2>1 DEF SleepEntry
      <3>2. \E k \in DOMAIN v_filocks[call[p].v] : Id(v_filocks[call[p].v][k]) = chan[p]
        BY <1>3, <2>1 DEF NoLostWakeup, ToSet
      <3> QED  BY <3>1, <3>2, OwnerInName DEF WaitsFor
    <2>2. ASSUME NEW C \in SUBSET Proc, C # {}
          PROVE  \E p \in C : pc[p] = "asleep" => WaitsFor(p) \notin C
      <3>1. PICK p \in C : blk[p] # NULL => blk[p] \notin C
        BY <1>3, <2>2 DEF DeadflckEnds
      <3>2. NULL \notin C  BY FlockAssumption
      <3> QED  BY <2>1, <3>1, <3>2
    <2> QED  BY <2>2 DEF NoDeadlock
  <1> QED  BY <1>1, <1>2, <1>3, DeadflckEndsAlways, WakeupsAreKept, PTL DEF Spec

(*****************************************************************************)
(* Refinement.                                                               *)
(*****************************************************************************)
(* The bytes held, as the abstract specification sees them. *)
Held == [v \in Vnode |-> [p \in Proc |-> [b \in Byte |-> HeldAt(v_filocks[v], p, b)]]]

(* HeldAt is what the record over the byte says; there is at most one. *)
LEMMA HeldCovers ==
    ASSUME NEW L, Good(L), NEW p, NEW b \in Byte
    PROVE  /\ HeldAt(L, p, b) \in {F_UNLCK, F_RDLCK, F_WRLCK}
           /\ \A t \in {F_RDLCK, F_WRLCK} : HeldAt(L, p, b) = t <=> Covers(ToSet(L), p, b, t)
<1> DEFINE f == {g \in ToSet(L) : g.own = p /\ g.start <= b /\ b <= g.end}
<1>1. ToSet(L) \in SUBSET Filock /\ Clear(ToSet(L))
  BY MemberIff DEF Good, Ordered
<1>2. HeldAt(L, p, b) = IF f = {} THEN F_UNLCK ELSE (CHOOSE g \in f : TRUE).type
  BY DEF HeldAt
<1>3. CASE f = {}
  <2>1. HeldAt(L, p, b) = F_UNLCK
    BY <1>2, <1>3
  <2>2. \A t : ~Covers(ToSet(L), p, b, t)
    BY <1>3 DEF Covers
  <2> QED BY <2>1, <2>2 DEF F_UNLCK, F_RDLCK, F_WRLCK
<1>4. CASE f # {}
  <2> DEFINE g == CHOOSE x \in f : TRUE
  <2>1. g \in f
    BY <1>4
  <2>2. HeldAt(L, p, b) = g.type
    BY <1>2, <1>4
  <2> HIDE DEF g
  <2>3. g \in Filock /\ g.type \in {F_RDLCK, F_WRLCK} /\ Covers(ToSet(L), p, b, g.type)
    BY <1>1, <2>1, FilockFacts DEF Covers
  <2>4. \A t : Covers(ToSet(L), p, b, t) => t = g.type
    BY <1>1, <2>3, OneType
  <2> QED BY <2>2, <2>3, <2>4
<1> QED BY <1>3, <1>4

(* Lists that cover the same bytes are held the same. *)
LEMMA HeldSame ==
    ASSUME NEW L, Good(L), NEW M, Good(M), NEW p, NEW b \in Byte,
           \A t \in {F_RDLCK, F_WRLCK} : Covers(ToSet(M), p, b, t) <=> Covers(ToSet(L), p, b, t)
    PROVE  HeldAt(M, p, b) = HeldAt(L, p, b)
<1>1. /\ HeldAt(L, p, b) \in {F_UNLCK, F_RDLCK, F_WRLCK}
      /\ \A t \in {F_RDLCK, F_WRLCK} : HeldAt(L, p, b) = t <=> Covers(ToSet(L), p, b, t)
  BY HeldCovers
<1>2. /\ HeldAt(M, p, b) \in {F_UNLCK, F_RDLCK, F_WRLCK}
      /\ \A t \in {F_RDLCK, F_WRLCK} : HeldAt(M, p, b) = t <=> Covers(ToSet(M), p, b, t)
  BY HeldCovers
<1> QED BY <1>1, <1>2

(* The bytes held, one by one. *)
LEMMA HeldIs ==
    ASSUME NEW v \in Vnode, NEW p \in Proc, NEW b \in Byte
    PROVE  /\ Held[v][p][b] = HeldAt(v_filocks[v], p, b)
           /\ Held'[v][p][b] = HeldAt(v_filocks'[v], p, b)
BY DEF Held

(* Only the list of v has changed, to M. *)
Changed(v, M) ==
    /\ v_filocks \in [Vnode -> Seq(Filock)] /\ v_filocks' = [v_filocks EXCEPT ![v] = M]
    /\ Good(v_filocks[v]) /\ Good(M)

(* Bytes of other files, and bytes that the new list holds as the old one    *)
(* did, have not changed.                                                    *)
LEMMA ChangedHeld ==
    ASSUME NEW v \in Vnode, NEW M, Changed(v, M), NEW w \in Vnode, NEW p \in Proc, NEW b \in Byte,
           w = v => HeldAt(M, p, b) = HeldAt(v_filocks[v], p, b)
    PROVE  Held'[w][p][b] = Held[w][p][b]
<1>1. v_filocks'[w] = IF w = v THEN M ELSE v_filocks[w]
  BY DEF Changed
<1> QED BY <1>1, HeldIs

(* A record that is marked covers the same bytes. *)
LEMMA MarkHeld ==
    ASSUME NEW v \in Vnode, NEW M, Changed(v, M), NEW f \in ToSet(v_filocks[v]), NEW g \in Filock,
           g.own = f.own, g.type = f.type, g.start = f.start, g.end = f.end,
           ToSet(M) = (ToSet(v_filocks[v]) \ {f}) \cup {g}
    PROVE  Held' = Held
<1>1. ASSUME NEW p \in Proc, NEW b \in Byte, NEW t \in {F_RDLCK, F_WRLCK}
      PROVE  Covers(ToSet(M), p, b, t) <=> Covers(ToSet(v_filocks[v]), p, b, t)
  BY DEF Covers
<1>2. \A p \in Proc, b \in Byte : HeldAt(M, p, b) = HeldAt(v_filocks[v], p, b)
  BY <1>1, HeldSame DEF Changed
<1>3. \A w \in Vnode, p \in Proc, b \in Byte : Held'[w][p][b] = Held[w][p][b]
  BY <1>2, ChangedHeld
<1>4. \A w \in Vnode, p \in Proc, b \in Byte :
         HeldAt(v_filocks'[w], p, b) = HeldAt(v_filocks[w], p, b)
  BY <1>3, HeldIs
<1> QED BY <1>4 DEF Held

(* What another owner holds does not depend on the records of this one. *)
LEMMA OthersHeld ==
    ASSUME NEW L, Good(L), NEW M, Good(M), NEW p,
           \A g : g.own # p => (g \in ToSet(M) <=> g \in ToSet(L)),
           NEW q, q # p, NEW b \in Byte
    PROVE  HeldAt(M, q, b) = HeldAt(L, q, b)
<1>1. \A t \in {F_RDLCK, F_WRLCK} : Covers(ToSet(M), q, b, t) <=> Covers(ToSet(L), q, b, t)
  BY DEF Covers
<1> QED BY <1>1, HeldSame

(* A call that has done its work is a SetRange. *)
LEMMA SetRangeStep ==
    ASSUME NEW v \in Vnode, NEW M, Changed(v, M), NEW p \in Proc, NEW l, Asks(p, l),
           \A g : g.own # p => (g \in ToSet(M) <=> g \in ToSet(v_filocks[v])),
           Done(ToSet(v_filocks[v]), ToSet(M), l),
           l.type # F_UNLCK => \A f \in ToSet(v_filocks[v]) : ~InWay(f, l)
    PROVE  Bytes!SetRange(v, p, l.start, l.end, l.type)
<1> DEFINE L == v_filocks[v]
<1>0. /\ Good(L) /\ Good(M) /\ l \in Lock /\ l.own = p /\ l.start \in Nat /\ l.end \in Nat
      /\ l.start <= MAXEND /\ l.end <= MAXEND /\ MAXEND \in Nat
      /\ l.type \in {F_RDLCK, F_WRLCK, F_UNLCK}
  BY LockFacts DEF Changed, Asks
<1>1. ASSUME NEW w \in Vnode, NEW q \in Proc, NEW b \in Byte
      PROVE  IF w = v /\ q = p /\ b \in l.start..l.end THEN Held'[w][q][b] = l.type
             ELSE Held'[w][q][b] = Held[w][q][b]
  <2>1. CASE w = v /\ q = p /\ b \in l.start..l.end
    <3>1. \A t \in {F_RDLCK, F_WRLCK} : Covers(ToSet(M), p, b, t) <=> t = l.type
      BY <1>0, <2>1 DEF Done
    <3>2. /\ HeldAt(M, p, b) \in {F_UNLCK, F_RDLCK, F_WRLCK}
          /\ \A t \in {F_RDLCK, F_WRLCK} : HeldAt(M, p, b) = t <=> Covers(ToSet(M), p, b, t)
      BY <1>0, HeldCovers
    <3>3. HeldAt(M, p, b) = l.type
      BY <1>0, <3>1, <3>2
    <3>4. Held'[w][q][b] = HeldAt(M, p, b)
      BY <2>1, HeldIs DEF Changed
    <3> QED BY <2>1, <3>3, <3>4
  <2>2. CASE ~(w = v /\ q = p /\ b \in l.start..l.end)
    <3>1. w = v => HeldAt(M, q, b) = HeldAt(L, q, b)
      <4>1. CASE q # p
        BY <1>0, <4>1, OthersHeld
      <4>2. CASE w = v /\ q = p
        <5>1. ~(l.start <= b /\ b <= l.end)
          BY <1>0, <2>2, <4>2 DEF Byte
        <5>2. \A t \in {F_RDLCK, F_WRLCK} : Covers(ToSet(M), p, b, t) <=> Covers(ToSet(L), p, b, t)
          BY <1>0, <5>1 DEF Done
        <5> QED BY <1>0, <4>2, <5>2, HeldSame
      <4> QED BY <4>1, <4>2
    <3>2. Held'[w][q][b] = Held[w][q][b]
      BY <3>1, ChangedHeld
    <3> QED BY <2>2, <3>2
  <2> QED BY <2>1, <2>2
<1>2. ASSUME NEW q \in Proc \ {p}, NEW b \in l.start..l.end
      PROVE  \/ l.type = F_UNLCK \/ Held[v][q][b] = F_UNLCK
             \/ l.type = F_RDLCK /\ Held[v][q][b] = F_RDLCK
  <2> SUFFICES ASSUME l.type # F_UNLCK, Held[v][q][b] # F_UNLCK
               PROVE  l.type = F_RDLCK /\ Held[v][q][b] = F_RDLCK
    OBVIOUS
  <2>1. b \in Byte
    BY <1>0 DEF Byte
  <2> DEFINE t == Held[v][q][b]
  <2>2. t \in {F_RDLCK, F_WRLCK} /\ Covers(ToSet(L), q, b, t)
    BY <1>0, <2>1, HeldIs, HeldCovers
  <2> HIDE DEF t
  <2>3. PICK g \in ToSet(L) : g.own = q /\ g.type = t /\ g.start <= b /\ b <= g.end
    BY <2>2 DEF Covers
  <2>4. g \in Filock /\ g.start \in Nat /\ g.end \in Nat
    BY <1>0, <2>3, MemberIff, FilockFacts DEF Good, Ordered
  <2>5. Overlap(g, l)
    BY <1>0, <2>3, <2>4 DEF Overlap
  <2>6. ~Excludes(g, l)
    BY <2>3, <2>5 DEF InWay
  <2>7. g.type # F_WRLCK /\ l.type # F_WRLCK
    BY <1>0, <2>3, <2>6 DEF Excludes
  <2> QED BY <1>0, <2>2, <2>3, <2>7 DEF t
<1>3. Byte = 0..MAXEND
  BY DEF Byte
<1>4. Bytes!Changes(v, p, Bytes!Range(l.start, l.end), LAMBDA old : {l.type})
  BY <1>1, <1>3 DEF Bytes!Changes, Bytes!ByteNo, Bytes!Range, Held
<1>5. Bytes!Compatible(v, p, Bytes!Range(l.start, l.end), l.type)
  BY <1>2 DEF Bytes!Compatible, Bytes!Range, Held, F_UNLCK, F_RDLCK
<1> QED BY <1>4, <1>5 DEF Bytes!SetRange

(* A call that ran out of memory is a LoseSome. *)
LEMMA LoseSomeStep ==
    ASSUME NEW v \in Vnode, NEW M, Changed(v, M), NEW p \in Proc, NEW l, Asks(p, l),
           \A g : g.own # p => (g \in ToSet(M) <=> g \in ToSet(v_filocks[v])),
           Lost(ToSet(v_filocks[v]), ToSet(M), l)
    PROVE  Bytes!LoseSome(v, p, l.start, l.end, l.type)
<1> DEFINE L == v_filocks[v]
           A == {b \in Byte : \/ b < l.start /\ \A c \in b .. l.start - 1 : Held[v][p][c] = l.type
                              \/ b > l.end /\ \A c \in l.end + 1 .. b : Held[v][p][c] = l.type}
<1>0. /\ Good(L) /\ Good(M) /\ l \in Lock /\ l.own = p /\ l.start \in Nat /\ l.end \in Nat
      /\ l.start <= MAXEND /\ l.end <= MAXEND /\ MAXEND \in Nat
      /\ l.type \in {F_RDLCK, F_WRLCK, F_UNLCK}
  BY LockFacts DEF Changed, Asks
<1>1. ASSUME NEW c \in Byte, Covers(ToSet(L), p, c, l.type) PROVE Held[v][p][c] = l.type
  <2>1. l.type \in {F_RDLCK, F_WRLCK}
    <3>1. PICK g \in ToSet(L) : g.type = l.type
      BY <1>1 DEF Covers
    <3>2. g \in Filock
      BY <1>0, MemberIff DEF Good, Ordered
    <3> QED BY <3>1, <3>2, FilockFacts
  <2> QED BY <1>0, <1>1, <2>1, HeldIs, HeldCovers
<1>2. ASSUME NEW b \in Byte, b \notin l.start..l.end, b \notin A
      PROVE  HeldAt(M, p, b) = HeldAt(L, p, b)
  <2>1. ~(l.start <= b /\ b <= l.end)
    BY <1>0, <1>2 DEF Byte
  <2>2. ~(b < l.start /\ \A c \in b .. l.start - 1 : Covers(ToSet(L), p, c, l.type))
    <3>1. b < l.start => \A c \in b .. l.start - 1 : c \in Byte
      BY <1>0 DEF Byte
    <3> QED BY <1>1, <1>2, <3>1
  <2>3. ~(b > l.end /\ \A c \in l.end + 1 .. b : Covers(ToSet(L), p, c, l.type))
    <3>1. b > l.end => \A c \in l.end + 1 .. b : c \in Byte
      BY <1>0 DEF Byte
    <3> QED BY <1>1, <1>2, <3>1
  <2>4. \A t \in {F_RDLCK, F_WRLCK} : Covers(ToSet(M), p, b, t) <=> Covers(ToSet(L), p, b, t)
    BY <1>0, <2>1, <2>2, <2>3 DEF Lost
  <2> QED BY <1>0, <2>4, HeldSame
<1>3. ASSUME NEW b \in Byte PROVE HeldAt(M, p, b) \in {HeldAt(L, p, b), F_UNLCK}
  <2>1. /\ HeldAt(M, p, b) \in {F_UNLCK, F_RDLCK, F_WRLCK}
        /\ \A t \in {F_RDLCK, F_WRLCK} : HeldAt(M, p, b) = t <=> Covers(ToSet(M), p, b, t)
        /\ \A t \in {F_RDLCK, F_WRLCK} : HeldAt(L, p, b) = t <=> Covers(ToSet(L), p, b, t)
    BY <1>0, HeldCovers
  <2>2. \A t \in {F_RDLCK, F_WRLCK} : Covers(ToSet(M), p, b, t) => Covers(ToSet(L), p, b, t)
    BY <1>0 DEF Lost
  <2> QED BY <2>1, <2>2
<1> HIDE DEF A
<1>4. ASSUME NEW w \in Vnode, NEW q \in Proc, NEW b \in Byte
      PROVE  IF w = v /\ q = p /\ b \in (l.start..l.end) \cup A
             THEN Held'[w][q][b] \in {Held[w][q][b], F_UNLCK}
             ELSE Held'[w][q][b] = Held[w][q][b]
  <2>1. CASE w = v /\ q = p /\ b \in (l.start..l.end) \cup A
    <3>1. Held'[w][q][b] = HeldAt(M, p, b) /\ Held[w][q][b] = HeldAt(L, p, b)
      BY <2>1, HeldIs DEF Changed
    <3>2. Held'[w][q][b] \in {Held[w][q][b], F_UNLCK}
      BY <1>3, <3>1
    <3> QED BY <2>1, <3>2
  <2>2. CASE ~(w = v /\ q = p /\ b \in (l.start..l.end) \cup A)
    <3>1. w = v => HeldAt(M, q, b) = HeldAt(L, q, b)
      <4>1. CASE q # p
        BY <1>0, <4>1, OthersHeld
      <4>2. CASE w = v /\ q = p
        BY <1>2, <2>2, <4>2
      <4> QED BY <4>1, <4>2
    <3>2. Held'[w][q][b] = Held[w][q][b]
      BY <3>1, ChangedHeld
    <3> QED BY <2>2, <3>2
  <2> QED BY <2>1, <2>2
<1>5. Bytes!Adjoining(v, p, l.start, l.end, l.type) = A
  BY DEF Bytes!Adjoining, Bytes!ByteNo, A, Held, Byte
<1>6. Bytes!Changes(v, p, Bytes!Range(l.start, l.end) \cup A, LAMBDA old : {old, "F_UNLCK"})
  BY <1>4 DEF Bytes!Changes, Bytes!ByteNo, Bytes!Range, Held, Byte, F_UNLCK
<1> QED BY <1>5, <1>6 DEF Bytes!LoseSome

(* cleanlocks is a Release. *)
LEMMA ReleaseStep ==
    ASSUME Inv, NEW v \in Vnode, NEW P \in SUBSET Proc, Cleanlocks(v, P)
    PROVE  Bytes!Release(v, P)
<1> DEFINE L == v_filocks[v]
           M == Cleaned(L, P).L
<1>1. Good(M) /\ ToSet(M) = {g \in ToSet(L) : g.own \notin P} /\ Good(L)
  BY CleanedFacts DEF Inv
<1>2. v_filocks' = [v_filocks EXCEPT ![v] = M]
  BY DEF Cleanlocks
<1> HIDE DEF M
<1>3. Changed(v, M)
  BY <1>1, <1>2 DEF Changed, Inv, TypeOK
<1>4. ASSUME NEW w \in Vnode, NEW q \in Proc, NEW b \in Byte
      PROVE  Held'[w][q][b] = IF w = v /\ q \in P THEN F_UNLCK ELSE Held[w][q][b]
  <2>1. CASE w = v /\ q \in P
    <3>1. \A t \in {F_RDLCK, F_WRLCK} : ~Covers(ToSet(M), q, b, t)
      BY <1>1, <2>1 DEF Covers
    <3>2. HeldAt(M, q, b) = F_UNLCK
      BY <1>1, <3>1, HeldCovers
    <3>3. Held'[w][q][b] = HeldAt(M, q, b)
      BY <1>3, <2>1, HeldIs DEF Changed
    <3> QED BY <2>1, <3>2, <3>3
  <2>2. CASE ~(w = v /\ q \in P)
    <3>1. w = v => HeldAt(M, q, b) = HeldAt(L, q, b)
      <4>1. ASSUME w = v, NEW t \in {F_RDLCK, F_WRLCK}
            PROVE  Covers(ToSet(M), q, b, t) <=> Covers(ToSet(L), q, b, t)
        BY <1>1, <2>2, <4>1 DEF Covers
      <4> QED BY <1>1, <4>1, HeldSame
    <3>2. Held'[w][q][b] = Held[w][q][b]
      BY <1>3, <3>1, ChangedHeld
    <3> QED BY <2>2, <3>2
  <2> QED BY <2>1, <2>2
<1> QED BY <1>4 DEF Bytes!Release, Bytes!ByteNo, Held, Byte, F_UNLCK

(* A step of flckadj is a step of the abstract specification. *)
LEMMA SetRefines ==
    ASSUME Inv, NEW p \in Proc, NEW v \in Vnode, NEW l, Asks(p, l), NEW insrtp,
           Start(v_filocks[v], l, insrtp), Set(p, v, l, insrtp),
           l.type # F_UNLCK => \A f \in ToSet(v_filocks[v]) : ~InWay(f, l)
    PROVE  Bytes!Next
<1>1. PICK nomem :
        v_filocks' = [v_filocks EXCEPT ![v] = Flckadj(v_filocks[v], insrtp, l, nomem).L]
  BY DEF Set
<1> DEFINE t == Flckadj(v_filocks[v], insrtp, l, nomem)
           M == t.L
           L == v_filocks[v]
<1>2. /\ Good(M)
      /\ \A g : g.own # l.own => (g \in ToSet(M) <=> g \in ToSet(L))
      /\ Done(ToSet(L), ToSet(M), l) \/ Lost(ToSet(L), ToSet(M), l)
  BY FlckadjFacts DEF Inv, Asks
<1>3. v_filocks' = [v_filocks EXCEPT ![v] = M]
  BY <1>1
<1> HIDE DEF t, M
<1>4. Changed(v, M) /\ l.own = p
  BY <1>2, <1>3 DEF Changed, Inv, TypeOK, Asks
<1>5. Bytes!SetRange(v, p, l.start, l.end, l.type) \/ Bytes!LoseSome(v, p, l.start, l.end, l.type)
  <2>1. CASE Done(ToSet(L), ToSet(M), l)
    BY <1>2, <1>4, <2>1, SetRangeStep
  <2>2. CASE Lost(ToSet(L), ToSet(M), l)
    BY <1>2, <1>4, <2>2, LoseSomeStep
  <2> QED BY <1>2, <2>1, <2>2
<1>6. /\ l.start \in 0..MAXEND /\ l.end \in 0..MAXEND /\ l.start <= l.end
      /\ l.type \in {"F_UNLCK", "F_RDLCK", "F_WRLCK"}
  BY DEF Asks, Lock, Byte, F_UNLCK, F_RDLCK, F_WRLCK
<1> QED BY <1>5, <1>6 DEF Bytes!Next, Bytes!ByteNo

(* One turn of the loop of reclock is one, or changes no byte. *)
LEMMA ReclockRefines ==
    ASSUME Inv, NEW p \in Proc, NEW v \in Vnode, NEW l, Asks(p, l), NEW cmd,
           Reclock(p, v, l, cmd)
    PROVE  Bytes!Next \/ Held' = Held
<1> DEFINE L == v_filocks[v]
           b == Blocked(L, l)
<1>1. Good(L) /\ Ordered(L)
  BY DEF Inv, Good
<1>2. /\ Start(L, l, b.insrt)
      /\ b.found # NULL => \E f \in ToSet(L) : Id(f) = b.found /\ InWay(f, l)
      /\ b.found = NULL => \A f \in ToSet(L) : ~InWay(f, l)
  BY <1>1, BlockedFacts DEF Asks
<1>3. \/ l.type = F_UNLCK /\ Set(p, v, l, IdAt(L, 1))
      \/ b.found = NULL /\ Set(p, v, l, b.insrt)
      \/ v_filocks' = v_filocks
      \/ b.found # NULL /\ v_filocks' = Mark(v, b.found)
  BY DEF Reclock, Wait
<1>4. CASE l.type = F_UNLCK /\ Set(p, v, l, IdAt(L, 1))
  <2>1. Start(L, l, IdAt(L, 1))
    BY <1>1, <1>4, StartUnlock DEF Asks
  <2> QED BY <1>4, <2>1, SetRefines
<1> HIDE DEF b
<1>5. CASE b.found = NULL /\ Set(p, v, l, b.insrt)
  BY <1>2, <1>5, SetRefines
<1>6. CASE v_filocks' = v_filocks
  BY <1>6 DEF Held
<1>7. CASE b.found # NULL /\ v_filocks' = Mark(v, b.found)
  <2>1. PICK f \in ToSet(L) : Id(f) = b.found
    BY <1>2, <1>7
  <2>2. PICK M, g : /\ Mark(v, Id(f)) = [v_filocks EXCEPT ![v] = M]
                    /\ Good(M) /\ g \in Filock /\ Id(g) = Id(f) /\ g.wakeflg = TRUE
                    /\ g.own = f.own /\ g.type = f.type /\ g.start = f.start /\ g.end = f.end
                    /\ ToSet(M) = (ToSet(v_filocks[v]) \ {f}) \cup {g}
    BY <1>1, MarkFacts DEF Inv, TypeOK
  <2>3. Changed(v, M)
    BY <1>1, <1>7, <2>1, <2>2 DEF Changed, Inv, TypeOK
  <2> QED BY <2>2, <2>3, MarkHeld
<1> QED BY <1>3, <1>4, <1>5, <1>6, <1>7

(* So is every step. *)
LEMMA NextRefines ==
    ASSUME Inv, [Next]_vars
    PROVE  Bytes!Next \/ Held' = Held
<1>1. CASE UNCHANGED vars
  BY <1>1 DEF vars, Held
<1>2. ASSUME NEW p \in Proc, NEW v \in Vnode, NEW r \in Requests, Call(p, v, r)
      PROVE  Bytes!Next \/ Held' = Held
  BY <1>2, ConvertFacts, ReclockRefines DEF Call
<1>3. ASSUME NEW p \in Proc, Resume(p) PROVE Bytes!Next \/ Held' = Held
  <2>1. call[p] \in [v : Vnode, l : Lock, cmd : Cmd] /\ Asks(p, call[p].l)
    BY <1>3 DEF Resume, Inv
  <2>2. CASE UNCHANGED v_filocks
    BY <2>2 DEF Held
  <2>3. CASE Reclock(p, call[p].v, call[p].l, call[p].cmd)
    BY <2>1, <2>3, ReclockRefines
  <2> QED BY <1>3, <2>2, <2>3 DEF Resume
<1>4. ASSUME NEW p \in Proc, Signal(p) PROVE Held' = Held
  BY <1>4 DEF Signal, Held
<1>5. ASSUME NEW v \in Vnode, NEW p \in Proc, Close(p, v) PROVE Bytes!Next
  <2>1. Bytes!Release(v, {p})
    BY <1>5, ReleaseStep DEF Close
  <2> QED BY <2>1 DEF Bytes!Next
<1>6. ASSUME NEW v \in Vnode, Cleanlocks(v, Remote) PROVE Bytes!Next
  <2>1. Bytes!Release(v, Remote)
    BY <1>6, ReleaseStep, FlockAssumption
  <2> QED BY <2>1 DEF Bytes!Next
<1> QED BY <1>1, <1>2, <1>3, <1>4, <1>5, <1>6 DEF Next

(* Record locking implements ByteLocks: every call of fcntl changes the      *)
(* bytes it was asked to change, for its owner, at once and no others; two   *)
(* owners never hold a byte in conflict; and a call that runs out of memory  *)
(* loses at most bytes it was to change and bytes of its type next to them.  *)
THEOREM ImplementsByteLocksAlways == Spec => ImplementsByteLocks
<1>1. Init => Bytes!Init
  <2> SUFFICES ASSUME Init PROVE Bytes!Init
    OBVIOUS
  <2>1. \A v \in Vnode, p \in Proc, b \in Byte : HeldAt(v_filocks[v], p, b) = "F_UNLCK"
    <3>1. \A v \in Vnode : v_filocks[v] = <<>>
      BY DEF Init
    <3>2. ToSet(<<>>) = {}
      BY DEF ToSet
    <3> QED BY <3>1, <3>2 DEF HeldAt, F_UNLCK
  <2>2. Held = [v \in Vnode |-> [p \in Proc |-> [b \in Byte |-> "F_UNLCK"]]]
    BY <2>1 DEF Held
  <2> QED BY <2>2 DEF Bytes!Init, Bytes!Free, Bytes!ByteNo, Held, Byte
<1>2. Inv /\ [Next]_vars => [Bytes!Next]_Held
  BY NextRefines
<1> QED BY <1>1, <1>2, FlockInvariant, PTL DEF Spec, ImplementsByteLocks, Bytes!Spec, Held

=============================================================================
