------------------------------ MODULE Bio_proofs ------------------------------
(***************************************************************************)
(* The buffer cache (os/bio.c) for any number of processes, headers and    *)
(* blocks, any sizes and any high-water mark: headers, asynchronous writes *)
(* and memory are accounted for, no wakeup is lost and, unless getblk()    *)
(* sleeps in kmem_zalloc(), a valid block is in the cache once, its holder *)
(* reads what was last written and no change is lost.                      *)
(*                                                                         *)
(* The invariant has five parts.  Struct: every header is in one place,    *)
(* the flags say which, and every process has the entry its routine needs. *)
(* CpuOK: who is in the middle of a routine has the processor.  Counts and *)
(* Charged: basyncnt and b_bufsize.  Data: where the current contents of a *)
(* block are, and in which order the driver holds the requests for it.     *)
(*                                                                         *)
(* A step is a chain of operations on a state record.  In the middle of it *)
(* a buffer is in nobody's list and nobody's entry: Base(s, p, H, k, m, d, *)
(* D) is the invariant with the headers H in the hands of p, k writes not  *)
(* counted, m bytes charged and not allocated and D changed and not        *)
(* marked.  There is one lemma Base... for each operation; the lemmas      *)
(* Returns, Owns, Stepped and Interrupted lead back to the invariant.      *)
(***************************************************************************)
EXTENDS Bio, TLAPS, NaturalsInduction, WellFoundedInduction, FiniteSetTheorems

(***************************************************************************)
(* Facts about the linked lists of the kernel, which the model keeps as    *)
(* sequences without repetition.                                           *)
(***************************************************************************)
(* A set of naturals that has a member has a least one, its Min. *)
LEMMA LeastMember ==
    ASSUME NEW S \in SUBSET Nat, NEW x \in S
    PROVE  Min(S) \in S /\ \A z \in S : Min(S) <= z
<1>1. IsWellFoundedOn(OpToRel(<, Nat), Nat)
  BY NatLessThanWellFounded, Zenon
<1>2. PICK y \in S : \A z \in S : ~(<<z, y>> \in OpToRel(<, Nat))
  BY <1>1, WFMin
<1>3. ASSUME NEW z \in S PROVE y <= z
  <2>1. ~(z < y)
    BY <1>2, <1>3 DEF OpToRel
  <2> QED BY <2>1
<1>4. \E m \in S : \A z \in S : m <= z
  BY <1>3
<1> QED BY <1>4 DEF Min

(* The members of a sequence, by position. *)
LEMMA MemberIff ==
    ASSUME NEW A, NEW q \in Seq(A), NEW e
    PROVE  e \in ToSet(q) <=> \E i \in 1..Len(q) : q[i] = e
BY DEF ToSet

(* RemoveAt closes the gap at position k. *)
LEMMA RemoveAtFacts ==
    ASSUME NEW A, NEW q \in Seq(A), NEW k \in 1..Len(q)
    PROVE  /\ RemoveAt(q, k) \in Seq(A)
           /\ Len(RemoveAt(q, k)) = Len(q) - 1
           /\ \A i \in 1..Len(q) - 1 : RemoveAt(q, k)[i] = IF i < k THEN q[i] ELSE q[i + 1]
<1> DEFINE a == SubSeq(q, 1, k - 1)
           b == SubSeq(q, k + 1, Len(q))
<1>1. Len(q) \in Nat /\ \A i \in 1..Len(q) : q[i] \in A
  OBVIOUS
<1>2. a \in Seq(A) /\ Len(a) = k - 1 /\ \A i \in 1..k - 1 : a[i] = q[i]
  BY <1>1
<1>3. b \in Seq(A) /\ Len(b) = Len(q) - k /\ \A i \in 1..Len(q) - k : b[i] = q[k + i]
  BY <1>1
<1>4. RemoveAt(q, k) = a \o b
  BY DEF RemoveAt
<1> HIDE DEF a, b
<1>5. /\ a \o b \in Seq(A) /\ Len(a \o b) = Len(a) + Len(b)
      /\ \A i \in 1..Len(a) + Len(b) : (a \o b)[i] = IF i <= Len(a) THEN a[i] ELSE b[i - Len(a)]
  BY <1>2, <1>3, SMTT(30)
<1>6. ASSUME NEW i \in 1..Len(q) - 1, i < k PROVE (a \o b)[i] = q[i]
  BY <1>1, <1>2, <1>3, <1>5, <1>6
<1>7. ASSUME NEW i \in 1..Len(q) - 1, ~(i < k) PROVE (a \o b)[i] = q[i + 1]
  <2>1. (a \o b)[i] = b[i - (k - 1)] /\ i - (k - 1) \in 1..Len(q) - k /\ k + (i - (k - 1)) = i + 1
    BY <1>1, <1>2, <1>3, <1>5, <1>7
  <2> QED BY <1>3, <2>1
<1> QED BY <1>1, <1>2, <1>3, <1>4, <1>5, <1>6, <1>7

(* RemoveFirst takes e out, if it is there, and nothing else; a sequence   *)
(* without repetition stays one.                                           *)
LEMMA RemoveFirstFacts ==
    ASSUME NEW A, NEW q \in Seq(A), NEW e
    PROVE  /\ RemoveFirst(q, e) \in Seq(A)
           /\ IsInjective(q) => /\ IsInjective(RemoveFirst(q, e))
                                /\ ToSet(RemoveFirst(q, e)) = ToSet(q) \ {e}
<1>1. CASE ~ \E i \in 1..Len(q) : q[i] = e
  <2>1. RemoveFirst(q, e) = q
    BY <1>1 DEF RemoveFirst
  <2>2. e \notin ToSet(q)
    BY <1>1, MemberIff
  <2> QED BY <2>1, <2>2
<1>2. CASE \E i \in 1..Len(q) : q[i] = e
  <2> DEFINE I == {i \in 1..Len(q) : q[i] = e}
             k == Min(I)
             r == RemoveAt(q, k)
  <2>1. k \in I
    <3>1. I \in SUBSET Nat /\ \E i \in I : TRUE
      BY <1>2
    <3> HIDE DEF I
    <3> QED BY <3>1, LeastMember
  <2>2. RemoveFirst(q, e) = r
    BY <1>2, <2>1 DEF RemoveFirst, SelectInSeq
  <2>3. k \in 1..Len(q) /\ q[k] = e
    BY <2>1
  <2> HIDE DEF k
  <2>4. /\ r \in Seq(A) /\ Len(r) = Len(q) - 1
        /\ \A i \in 1..Len(q) - 1 : r[i] = IF i < k THEN q[i] ELSE q[i + 1]
    BY <2>3, RemoveAtFacts
  <2> HIDE DEF r
  <2>5. ASSUME IsInjective(q)
        PROVE  IsInjective(r)
    <3> SUFFICES ASSUME NEW i \in 1..Len(r), NEW j \in 1..Len(r), r[i] = r[j]
                 PROVE  i = j
      BY <2>4 DEF IsInjective
    <3>1. \A a, b \in 1..Len(q) : q[a] = q[b] => a = b
      BY <2>5 DEF IsInjective
    <3> QED BY <2>3, <2>4, <3>1
  <2>6. ASSUME IsInjective(q)
        PROVE  ToSet(r) = ToSet(q) \ {e}
    <3>1. \A a, b \in 1..Len(q) : q[a] = q[b] => a = b
      BY <2>6 DEF IsInjective
    <3>2. ASSUME NEW x \in ToSet(r) PROVE x \in ToSet(q) \ {e}
      <4>1. PICK i \in 1..Len(r) : r[i] = x
        BY <2>4, <3>2, MemberIff
      <4>2. PICK j \in 1..Len(q) : q[j] = x /\ j # k
        BY <2>3, <2>4, <4>1
      <4> QED BY <2>3, <3>1, <4>2, MemberIff
    <3>3. ASSUME NEW x \in ToSet(q), x # e PROVE x \in ToSet(r)
      <4>1. PICK j \in 1..Len(q) : q[j] = x
        BY <3>3, MemberIff
      <4>2. j < k \/ k < j
        BY <2>3, <3>3, <4>1
      <4>3. CASE j < k
        <5>1. j \in 1..Len(r) /\ r[j] = x
          BY <2>3, <2>4, <4>1, <4>3
        <5> QED BY <2>4, <5>1, MemberIff
      <4>4. CASE k < j
        <5>1. j - 1 \in 1..Len(r) /\ r[j - 1] = x
          BY <2>3, <2>4, <4>1, <4>4
        <5> QED BY <2>4, <5>1, MemberIff
      <4> QED BY <4>2, <4>3, <4>4
    <3> QED BY <3>2, <3>3
  <2> QED BY <2>2, <2>4, <2>5, <2>6
<1> QED BY <1>1, <1>2

(* Appending a new member. *)
LEMMA AppendFacts ==
    ASSUME NEW A, NEW q \in Seq(A), NEW e \in A, e \notin ToSet(q), IsInjective(q)
    PROVE  /\ Append(q, e) \in Seq(A) /\ IsInjective(Append(q, e))
           /\ ToSet(Append(q, e)) = ToSet(q) \cup {e}
<1> DEFINE r == Append(q, e)
<1>1. /\ r \in Seq(A) /\ Len(r) = Len(q) + 1 /\ r[Len(q) + 1] = e
      /\ \A i \in 1..Len(q) : r[i] = q[i]
  OBVIOUS
<1> HIDE DEF r
<1>2. IsInjective(r)
  <2> SUFFICES ASSUME NEW i \in 1..Len(r), NEW j \in 1..Len(r), r[i] = r[j]
               PROVE  i = j
    BY <1>1 DEF IsInjective
  <2>1. \A a, b \in 1..Len(q) : q[a] = q[b] => a = b
    BY DEF IsInjective
  <2>2. \A a \in 1..Len(q) : q[a] # e
    BY MemberIff
  <2> QED BY <1>1, <2>1, <2>2
<1>3. ToSet(r) = ToSet(q) \cup {e}
  <2>1. \A x : x \in ToSet(r) <=> \E i \in 1..Len(r) : r[i] = x
    BY <1>1, MemberIff
  <2>2. \A x : x \in ToSet(q) <=> \E i \in 1..Len(q) : q[i] = x
    BY MemberIff
  <2>3. ASSUME NEW x \in ToSet(r) PROVE x \in ToSet(q) \cup {e}
    BY <1>1, <2>1, <2>2, <2>3
  <2>4. ASSUME NEW x \in ToSet(q) PROVE x \in ToSet(r)
    <3>1. PICK i \in 1..Len(q) : q[i] = x
      BY <2>2, <2>4
    <3>2. i \in 1..Len(r) /\ r[i] = x
      BY <1>1, <3>1
    <3> QED BY <2>1, <3>2
  <2>5. e \in ToSet(r)
    <3>1. Len(q) + 1 \in 1..Len(r)
      BY <1>1
    <3> QED BY <1>1, <2>1, <3>1
  <2> QED BY <2>3, <2>4, <2>5
<1> QED BY <1>1, <1>2, <1>3 DEF r

(* Putting a new member in front. *)
LEMMA PrependFacts ==
    ASSUME NEW A, NEW q \in Seq(A), NEW e \in A, e \notin ToSet(q), IsInjective(q)
    PROVE  /\ <<e>> \o q \in Seq(A) /\ IsInjective(<<e>> \o q)
           /\ ToSet(<<e>> \o q) = ToSet(q) \cup {e}
<1> DEFINE r == <<e>> \o q
<1>1. /\ r \in Seq(A) /\ Len(r) = Len(q) + 1 /\ r[1] = e
      /\ \A i \in 2 .. Len(q) + 1 : r[i] = q[i - 1]
  OBVIOUS
<1> HIDE DEF r
<1>0. Len(q) \in Nat OBVIOUS
<1>4. \A i \in 1 .. Len(r) : i = 1 \/ (i \in 2 .. Len(q) + 1 /\ i - 1 \in 1 .. Len(q) /\ r[i] = q[i - 1])
  BY <1>0, <1>1
<1>2. IsInjective(r)
  <2> SUFFICES ASSUME NEW i \in 1..Len(r), NEW j \in 1..Len(r), r[i] = r[j]
               PROVE  i = j
    BY <1>1 DEF IsInjective
  <2>1. \A a, b \in 1..Len(q) : q[a] = q[b] => a = b
    BY DEF IsInjective
  <2>2. \A a \in 1..Len(q) : q[a] # e
    BY MemberIff
  <2>3. CASE i = 1 /\ j = 1 BY <2>3
  <2>4. CASE i # 1 /\ j # 1
    <3>1. i - 1 \in 1..Len(q) /\ j - 1 \in 1..Len(q) /\ q[i - 1] = q[j - 1] BY <1>4, <2>4
    <3>2. i - 1 = j - 1 BY <2>1, <3>1
    <3> QED BY <3>2
  <2>5. CASE i = 1 /\ j # 1 BY <1>1, <1>4, <2>2, <2>5
  <2>6. CASE i # 1 /\ j = 1 BY <1>1, <1>4, <2>2, <2>6
  <2> QED BY <2>3, <2>4, <2>5, <2>6
<1>3. ToSet(r) = ToSet(q) \cup {e}
  <2>1. \A x : x \in ToSet(r) <=> \E i \in 1..Len(r) : r[i] = x
    BY <1>1, MemberIff
  <2>2. \A x : x \in ToSet(q) <=> \E i \in 1..Len(q) : q[i] = x
    BY MemberIff
  <2>3. ASSUME NEW x \in ToSet(r) PROVE x \in ToSet(q) \cup {e}
    BY <1>1, <1>4, <2>1, <2>2, <2>3
  <2>4. ASSUME NEW x \in ToSet(q) PROVE x \in ToSet(r)
    <3>1. PICK i \in 1..Len(q) : q[i] = x
      BY <2>2, <2>4
    <3>2. i + 1 \in 1..Len(r) /\ r[i + 1] = x
      BY <1>0, <1>1, <3>1
    <3> QED BY <2>1, <3>2
  <2>5. e \in ToSet(r)
    <3>1. 1 \in 1..Len(r)
      BY <1>0, <1>1
    <3> QED BY <1>1, <2>1, <3>1
  <2> QED BY <2>3, <2>4, <2>5
<1> QED BY <1>1, <1>2, <1>3 DEF r

(* Taking the first one off. *)
LEMMA TailFacts ==
    ASSUME NEW A, NEW q \in Seq(A), q # << >>, IsInjective(q)
    PROVE  /\ Tail(q) \in Seq(A) /\ IsInjective(Tail(q)) /\ Head(q) \in ToSet(q)
           /\ Head(q) \in A /\ ToSet(Tail(q)) = ToSet(q) \ {Head(q)}
<1> DEFINE r == Tail(q)
<1>1. /\ r \in Seq(A) /\ Len(q) \in Nat /\ Len(q) # 0 /\ Len(r) = Len(q) - 1
      /\ \A i \in 1 .. Len(q) - 1 : r[i] = q[i + 1]
      /\ Head(q) = q[1] /\ q[1] \in A
  OBVIOUS
<1> HIDE DEF r
<1>2. \A a, b \in 1..Len(q) : q[a] = q[b] => a = b
  BY DEF IsInjective
<1>3. IsInjective(r)
  <2> SUFFICES ASSUME NEW i \in 1..Len(r), NEW j \in 1..Len(r), r[i] = r[j]
               PROVE  i = j
    BY <1>1 DEF IsInjective
  <2>1. i + 1 \in 1..Len(q) /\ j + 1 \in 1..Len(q) BY <1>1
  <2>2. i + 1 = j + 1 BY <1>1, <1>2, <2>1
  <2> QED BY <2>2
<1>4. \A x : x \in ToSet(r) <=> \E i \in 1..Len(r) : r[i] = x
  BY <1>1, MemberIff
<1>5. \A x : x \in ToSet(q) <=> \E i \in 1..Len(q) : q[i] = x
  BY MemberIff
<1>6. 1 \in 1..Len(q) BY <1>1
<1>7. ASSUME NEW x \in ToSet(r) PROVE x \in ToSet(q) /\ x # q[1]
  <2>1. PICK i \in 1..Len(r) : r[i] = x BY <1>4, <1>7
  <2>2. i + 1 \in 1..Len(q) /\ q[i + 1] = x /\ i + 1 # 1 BY <1>1, <2>1
  <2> QED BY <1>2, <1>5, <1>6, <2>2
<1>8. ASSUME NEW x \in ToSet(q), x # q[1] PROVE x \in ToSet(r)
  <2>1. PICK i \in 1..Len(q) : q[i] = x BY <1>5, <1>8
  <2>2. i # 1 BY <1>8, <2>1
  <2>3. i - 1 \in 1..Len(r) /\ r[i - 1] = x BY <1>1, <2>1, <2>2
  <2> QED BY <1>4, <2>3
<1>9. q[1] \in ToSet(q) BY <1>5, <1>6
<1> QED BY <1>1, <1>3, <1>7, <1>8, <1>9 DEF r

(* Unlinking a member closes the gap. *)
LEMMA RemoveFirstOrder ==
    ASSUME NEW A, NEW q \in Seq(A), NEW e \in ToSet(q)
    PROVE  \E k \in 1..Len(q) :
              /\ q[k] = e /\ Len(RemoveFirst(q, e)) = Len(q) - 1
              /\ \A i \in 1..Len(q) - 1 : RemoveFirst(q, e)[i] = IF i < k THEN q[i] ELSE q[i + 1]
<1> DEFINE I == {i \in 1..Len(q) : q[i] = e}
           k == Min(I)
           r == RemoveAt(q, k)
<1>0. \E i \in 1..Len(q) : q[i] = e BY MemberIff
<1>1. k \in I
  <2>1. I \in SUBSET Nat /\ \E i \in I : TRUE
    BY <1>0
  <2> HIDE DEF I
  <2> QED BY <2>1, LeastMember
<1>2. RemoveFirst(q, e) = r
  BY <1>0, <1>1 DEF RemoveFirst, SelectInSeq
<1>3. k \in 1..Len(q) /\ q[k] = e
  BY <1>1
<1> HIDE DEF k
<1>4. /\ r \in Seq(A) /\ Len(r) = Len(q) - 1
      /\ \A i \in 1..Len(q) - 1 : r[i] = IF i < k THEN q[i] ELSE q[i + 1]
  BY <1>3, RemoveAtFacts
<1> HIDE DEF r
<1> QED BY <1>2, <1>3, <1>4

(* How often a member is in a list without repetitions. *)
LEMMA Occurrences ==
    ASSUME NEW A, NEW q \in Seq(A), NEW e, IsInjective(q)
    PROVE  Cardinality({i \in DOMAIN q : q[i] = e}) = IF e \in ToSet(q) THEN 1 ELSE 0
<1> DEFINE S == {i \in DOMAIN q : q[i] = e}
<1>1. DOMAIN q = 1 .. Len(q) OBVIOUS
<1>2. CASE e \in ToSet(q)
  <2>1. PICK j \in 1 .. Len(q) : q[j] = e BY <1>2, MemberIff
  <2>2. \A i \in 1 .. Len(q) : q[i] = e => i = j BY <1>1, <2>1 DEF IsInjective
  <2>3. S = {j} BY <1>1, <2>1, <2>2
  <2>4. Cardinality({j}) = 1 BY FS_Singleton
  <2> QED BY <1>2, <2>3, <2>4
<1>3. CASE e \notin ToSet(q)
  <2>1. S = {} BY <1>1, <1>3, MemberIff
  <2> QED BY <1>3, <2>1, FS_EmptySet
<1> QED BY <1>2, <1>3

(***************************************************************************)
(* The inductive invariant, of a state record s.                           *)
(***************************************************************************)
BufSet == [flags : SUBSET BFlag, blk : Block \cup {NULL}, size : 0 .. BUFHWM, cur : BOOLEAN]

ProcSet ==
    [pc : {"idle", "getblk", "getfreeblk", "alloc", "zalloc", "biowait", "own", "bawrite",
           "ahead", "bflush", "blkflush", "bdwait", "asleep"},
     blk : Block \cup {NULL}, ra : Block \cup {NULL}, bp : Buf \cup {NULL},
     savebp : Buf \cup {NULL}, chan : Buf \cup {NULL, "bfreelist", "bhdrlist", "basyncnt", "kmem"},
     then : {NULL, "own", "read", "first", "ahead", "brelse", "blkflush", "close"},
     ret : {NULL, "getblk", "getfreeblk", "zalloc", "biowait", "blkflush", "bdwait"}]

StateSet ==
    [buf : [Buf -> BufSet], bfreelist : Seq(Buf), bhdrlist : Seq(Buf), bufsize : Int,
     wanted : SUBSET {"bfreelist", "bhdrlist"}, basyncnt : Int, basynwait : BOOLEAN,
     ioq : Seq(Buf), proc : [Proc -> ProcSet]]

Free(s) == ToSet(s.bfreelist)
Hdr(s) == ToSet(s.bhdrlist)
Io(s) == ToSet(s.ioq)

(* What the flags of a header say of where it is. *)
BufOK(s, H, b) ==
    /\ "B_ASYNC" \in s.buf[b].flags => b \in Io(s) \/ b \in H
    /\ b \in Io(s) => /\ "B_BUSY" \in s.buf[b].flags /\ s.buf[b].blk # NULL
                      /\ "B_DONE" \notin s.buf[b].flags /\ "B_DELWRI" \notin s.buf[b].flags
                      /\ "B_ERROR" \notin s.buf[b].flags
    /\ "B_DELWRI" \in s.buf[b].flags =>
                      /\ "B_DONE" \in s.buf[b].flags /\ s.buf[b].blk # NULL
                      /\ "B_STALE" \notin s.buf[b].flags /\ "B_ERROR" \notin s.buf[b].flags
    /\ b \in Free(s) => /\ "B_BUSY" \notin s.buf[b].flags /\ "B_WANTED" \notin s.buf[b].flags
                        /\ "B_ERROR" \notin s.buf[b].flags
    /\ b \in Hdr(s) => s.buf[b] = NewBuf

(* Where a process is, or will be when it is woken. *)
At(r) == IF r.pc = "asleep" THEN r.ret ELSE r.pc

Getting(r) ==
    /\ r.then \in {"own", "read", "first", "ahead"}
    /\ Target(r) = NULL => r.then = "own"
    /\ r.then \in {"first", "ahead"} => r.blk \in Block /\ r.ra \in Block
    /\ r.then # "ahead" => r.bp = NULL

(* What the fields of a process have to do with where it is. *)
Shape(r) ==
    /\ r.pc # "asleep" => r.chan = NULL /\ r.ret = NULL
    /\ r.pc = "asleep" =>
          \/ r.chan \in Buf /\ r.ret \in {"getblk", "blkflush"}
          \/ r.chan \in {"bfreelist", "bhdrlist"} /\ r.ret = Again(r)
          \/ r.chan = "kmem" /\ r.ret = "zalloc"
          \/ r.chan \in Buf /\ r.chan = r.bp /\ r.ret = "biowait"
          \/ r.chan = "basyncnt" /\ r.ret = "bdwait"
    /\ r.pc = "idle" => r = Idle
    /\ At(r) = "own" => r.bp # NULL
    /\ At(r) \in {"getblk", "getfreeblk", "alloc", "zalloc"} => Getting(r)
    /\ At(r) = "getblk" => Target(r) # NULL
    /\ At(r) = "zalloc" => r.savebp # NULL
    /\ r.savebp # NULL => At(r) \in {"getfreeblk", "alloc", "zalloc"} /\ r.savebp # r.bp
    /\ r.savebp # NULL /\ r.pc = "asleep" => r.ret = "zalloc"
    /\ At(r) = "biowait" => r.bp # NULL /\ r.then \in {NULL, "brelse", "blkflush"}
    /\ At(r) = "biowait" /\ r.then = "blkflush" => r.blk \in Block
    /\ At(r) = "ahead" => r.then = "first" /\ r.blk \in Block /\ r.ra \in Block
    /\ At(r) = "blkflush" => r.blk \in Block
    /\ At(r) = "bflush" => r.then \in {NULL, "close"}
    /\ At(r) \in {"bawrite", "bflush", "blkflush", "bdwait"} => r.bp = NULL

(* These processes have the CPU. *)
OnCpu(r) ==
    \/ r.pc \in {"alloc", "bawrite", "ahead", "bflush"}
    \/ r.pc = "getfreeblk" /\ (Target(r) # NULL \/ r.savebp # NULL)

(* The buffer a process holds, and the one getfreeblk() keeps for it. *)
HoldsOK(s, r) ==
    r.bp # NULL =>
        /\ "B_BUSY" \in s.buf[r.bp].flags /\ "B_ASYNC" \notin s.buf[r.bp].flags
        /\ "B_STALE" \notin s.buf[r.bp].flags
        /\ r.pc = "own" => r.bp \notin Io(s)
        /\ r.pc # "own" /\ "B_DONE" \notin s.buf[r.bp].flags => r.bp \in Io(s)

KeepsOK(s, r) ==
    r.savebp # NULL =>
        /\ s.buf[r.savebp].blk = NULL
        /\ "B_WANTED" \notin s.buf[r.savebp].flags /\ "B_ASYNC" \notin s.buf[r.savebp].flags
        /\ At(r) = "zalloc" => s.buf[r.savebp] = NewBuf
        /\ At(r) # "zalloc" => s.buf[r.savebp].size = Want(r)

(* Who sleeps will be woken. *)
SleepOK(s, r) ==
    r.pc = "asleep" =>
        /\ r.chan \in Buf => /\ "B_BUSY" \in s.buf[r.chan].flags
                             /\ "B_WANTED" \in s.buf[r.chan].flags
        /\ r.chan \in {"bfreelist", "bhdrlist"} => r.chan \in s.wanted
        /\ r.ret = "biowait" => r.chan \in Io(s)

ProcOK(s, r) == Shape(r) /\ HoldsOK(s, r) /\ KeepsOK(s, r) /\ SleepOK(s, r)

Hold(r) == {r.bp, r.savebp} \ {NULL}

Async(s, b) == b \in Io(s) /\ "B_ASYNC" \in s.buf[b].flags

(* Each header is in one place; H are those in the hands of the running    *)
(* process p, whose entry does not count.                                  *)
Lonely(s) == IsInjective(s.bfreelist) /\ IsInjective(s.bhdrlist) /\ IsInjective(s.ioq)

Apart(s, p, H) ==
    /\ \A b \in Buf : b \in Free(s) => b \notin Hdr(s)
    /\ \A b \in H : b \in Buf /\ b \notin Free(s) /\ b \notin Hdr(s) /\ ~Async(s, b)
    /\ \A q \in Proc \ {p} : \A b \in Hold(s.proc[q]) : b \notin Free(s) /\ b \notin Hdr(s) /\ b \notin H
    /\ \A q, r \in Proc \ {p} : q # r => \A b \in Hold(s.proc[q]) : b \notin Hold(s.proc[r])

Somewhere(s, p, H) ==
    \A b \in Buf : \/ b \in Free(s) \/ b \in Hdr(s) \/ b \in H \/ Async(s, b)
                    \/ \E q \in Proc \ {p} : b \in Hold(s.proc[q])

Struct(s, p, H) ==
    /\ s \in StateSet
    /\ p \in Proc => s.proc[p].pc # "asleep"
    /\ \A b \in Buf : BufOK(s, H, b)
    /\ \A q \in Proc \ {p} : ProcOK(s, s.proc[q])
    /\ Lonely(s) /\ Apart(s, p, H) /\ Somewhere(s, p, H)

(* The processor. *)
CpuOK(s, c) ==
    \A q \in Proc :
        /\ OnCpu(s.proc[q]) => c = q
        /\ s.proc[q].pc = "bflush" /\ s.proc[q].then = "close" =>
              \A r \in Proc \ {q} : s.proc[r].pc = "idle"

(* The contents.  D is a buffer in hand that has just been changed.        *)
Pend(s, D, b) ==
    \/ b = D \/ "B_DELWRI" \in s.buf[b].flags
    \/ b \in Io(s) /\ "B_READ" \notin s.buf[b].flags

Unique(s) ==
    \A b, c \in Buf : b # c /\ s.buf[b].blk # NULL /\ s.buf[b].blk = s.buf[c].blk
        => "B_STALE" \in s.buf[b].flags \/ "B_STALE" \in s.buf[c].flags

Somebody(s, d, D) ==
    \A n \in Block : d[n] \/ \E b \in Buf : s.buf[b].blk = n /\ s.buf[b].cur /\ Pend(s, D, b)

Unwritten(s, d, D) == \A b \in Buf : s.buf[b].blk # NULL /\ Pend(s, D, b) => ~d[s.buf[b].blk]

Alone(s, D) ==
    \A b, c \in Buf : b # c /\ s.buf[b].blk # NULL /\ s.buf[b].blk = s.buf[c].blk
                       /\ Pend(s, D, b) /\ s.buf[b].cur => ~s.buf[c].cur

Valid(s) ==
    \A b \in Buf : s.buf[b].blk # NULL /\ "B_STALE" \notin s.buf[b].flags
                    /\ "B_DONE" \in s.buf[b].flags /\ "B_ERROR" \notin s.buf[b].flags => s.buf[b].cur

Writing(s) ==
    \A b \in Buf : b \in Io(s) /\ "B_READ" \notin s.buf[b].flags /\ "B_STALE" \notin s.buf[b].flags
                    => s.buf[b].cur

StaleFirst(s) ==
    \A i, j \in 1 .. Len(s.ioq) :
        (/\ s.buf[s.ioq[i]].blk = s.buf[s.ioq[j]].blk
         /\ "B_STALE" \in s.buf[s.ioq[i]].flags /\ "B_STALE" \notin s.buf[s.ioq[j]].flags) => i < j

LastWrite(s) ==
    \A i, j \in 1 .. Len(s.ioq) :
        (/\ s.buf[s.ioq[i]].blk = s.buf[s.ioq[j]].blk /\ i < j
         /\ "B_READ" \notin s.buf[s.ioq[i]].flags /\ "B_READ" \notin s.buf[s.ioq[j]].flags)
        => ~s.buf[s.ioq[i]].cur

Data(s, d, D) ==
    /\ Unique(s) /\ Somebody(s, d, D) /\ Unwritten(s, d, D) /\ Alone(s, D)
    /\ Valid(s) /\ Writing(s) /\ StaleFirst(s) /\ LastWrite(s)

Behind(s) == {b \in Buf : b \in Io(s) /\ "B_ASYNC" \in s.buf[b].flags /\ "B_READ" \notin s.buf[b].flags}

Counts(s, k) ==
    /\ s.basyncnt + k = Cardinality(Behind(s))
    /\ \A q \in Proc : s.proc[q].pc = "asleep" /\ s.proc[q].chan = "basyncnt"
                       => s.basynwait /\ s.basyncnt > 0

InBawrite(s, c) == IF c # NULL /\ s.proc[c].pc = "bawrite" THEN 1 ELSE 0

(* The fields of a state, and of a header. *)
LEMMA StateTyped ==
    ASSUME NEW s \in StateSet
    PROVE  /\ s.buf \in [Buf -> BufSet] /\ s.bfreelist \in Seq(Buf) /\ s.bhdrlist \in Seq(Buf)
           /\ s.bufsize \in Int /\ s.wanted \in SUBSET {"bfreelist", "bhdrlist"}
           /\ s.basyncnt \in Int /\ s.basynwait \in BOOLEAN /\ s.ioq \in Seq(Buf)
           /\ s.proc \in [Proc -> ProcSet]
BY DEF StateSet

(* What a header may hold. *)
LEMMA BufTyped ==
    ASSUME NEW s \in StateSet, NEW b \in Buf
    PROVE  /\ s.buf[b] \in BufSet
           /\ s.buf[b].flags \in SUBSET BFlag /\ s.buf[b].blk \in Block \cup {NULL}
           /\ s.buf[b].size \in 0 .. BUFHWM /\ s.buf[b].cur \in BOOLEAN
BY DEF StateSet, BufSet

(* What a process may hold. *)
LEMMA ProcTyped ==
    ASSUME NEW s \in StateSet, NEW q \in Proc
    PROVE  /\ s.proc[q] \in ProcSet
           /\ s.proc[q].bp \in Buf \cup {NULL} /\ s.proc[q].savebp \in Buf \cup {NULL}
           /\ s.proc[q].blk \in Block \cup {NULL} /\ s.proc[q].ra \in Block \cup {NULL}
BY DEF StateSet, ProcSet

(* A state is its fields. *)
LEMMA StateMade ==
    ASSUME NEW a \in [Buf -> BufSet], NEW f \in Seq(Buf), NEW h \in Seq(Buf), NEW n \in Int,
           NEW w \in SUBSET {"bfreelist", "bhdrlist"}, NEW c \in Int, NEW y \in BOOLEAN,
           NEW i \in Seq(Buf), NEW x \in [Proc -> ProcSet]
    PROVE  [buf |-> a, bfreelist |-> f, bhdrlist |-> h, bufsize |-> n, wanted |-> w,
            basyncnt |-> c, basynwait |-> y, ioq |-> i, proc |-> x] \in StateSet
BY DEF StateSet

(* A state record has no other field. *)
LEMMA StateIs ==
    ASSUME NEW s \in StateSet
    PROVE  s = [buf |-> s.buf, bfreelist |-> s.bfreelist, bhdrlist |-> s.bhdrlist,
                bufsize |-> s.bufsize, wanted |-> s.wanted, basyncnt |-> s.basyncnt,
                basynwait |-> s.basynwait, ioq |-> s.ioq, proc |-> s.proc]
BY DEF StateSet

(* A step that ends in s makes it the next state. *)
LEMMA Becomes ==
    ASSUME NEW s \in StateSet, Become(s)
    PROVE  State' = s
BY StateIs DEF Become, State

(* The fields that stay. *)
SameLists(t, s) == t.bfreelist = s.bfreelist /\ t.bhdrlist = s.bhdrlist /\ t.ioq = s.ioq
SameCounts(t, s) ==
    t.bufsize = s.bufsize /\ t.wanted = s.wanted /\ t.basyncnt = s.basyncnt /\ t.basynwait = s.basynwait
(* The other headers are the same. *)
Elsewhere(t, s, b) == \A c \in Buf \ {b} : t.buf[c] = s.buf[c] /\ (c \in Io(t) <=> c \in Io(s))

OnlyFlags(t, s, b, fl) ==
    /\ t.buf[b].flags = fl /\ t.buf[b].blk = s.buf[b].blk
    /\ t.buf[b].size = s.buf[b].size /\ t.buf[b].cur = s.buf[b].cur
    /\ \A c \in Buf \ {b} : t.buf[c] = s.buf[c]

PutFlags(s, b, fl) == [s EXCEPT !.buf[b].flags = fl]

(* Other flags for a header leave everything else alone. *)
LEMMA FlagsPut ==
    ASSUME NEW s \in StateSet, NEW b \in Buf, NEW fl \in SUBSET BFlag
    PROVE  /\ PutFlags(s, b, fl) \in StateSet /\ OnlyFlags(PutFlags(s, b, fl), s, b, fl)
           /\ SameLists(PutFlags(s, b, fl), s) /\ SameCounts(PutFlags(s, b, fl), s)
           /\ PutFlags(s, b, fl).proc = s.proc
<1> DEFINE t == PutFlags(s, b, fl)
           r == [s.buf[b] EXCEPT !.flags = fl]
           a == [s.buf EXCEPT ![b] = r]
<1>1. r \in BufSet /\ r.flags = fl /\ r.blk = s.buf[b].blk /\ r.size = s.buf[b].size /\ r.cur = s.buf[b].cur
  BY BufTyped DEF BufSet
<1>2. a \in [Buf -> BufSet] /\ a[b] = r /\ \A c \in Buf \ {b} : a[c] = s.buf[c]
  BY <1>1, StateTyped
<1>3. t = [s EXCEPT !.buf = a] BY DEF PutFlags
<1> HIDE DEF a, r
<1>4. t \in StateSet /\ t.buf = a /\ SameLists(t, s) /\ SameCounts(t, s) /\ t.proc = s.proc
  BY <1>2, <1>3 DEF StateSet, SameLists, SameCounts
<1> HIDE DEF t
<1>5. OnlyFlags(t, s, b, fl) BY <1>1, <1>2, <1>4 DEF OnlyFlags
<1> QED BY <1>4, <1>5 DEF t

(* Setting flags. *)
LEMMA SetF ==
    ASSUME NEW s \in StateSet, NEW b \in Buf, NEW fl \in SUBSET BFlag
    PROVE  /\ Set(s, b, fl) \in StateSet
           /\ OnlyFlags(Set(s, b, fl), s, b, s.buf[b].flags \cup fl)
           /\ SameLists(Set(s, b, fl), s) /\ SameCounts(Set(s, b, fl), s) /\ Set(s, b, fl).proc = s.proc
<1>1. s.buf[b].flags \cup fl \in SUBSET BFlag BY BufTyped
<1>2. Set(s, b, fl) = PutFlags(s, b, s.buf[b].flags \cup fl) BY DEF Set, PutFlags
<1> QED BY <1>1, <1>2, FlagsPut

(* Clearing flags. *)
LEMMA ClearF ==
    ASSUME NEW s \in StateSet, NEW b \in Buf, NEW fl
    PROVE  /\ Clear(s, b, fl) \in StateSet
           /\ OnlyFlags(Clear(s, b, fl), s, b, s.buf[b].flags \ fl)
           /\ SameLists(Clear(s, b, fl), s) /\ SameCounts(Clear(s, b, fl), s)
           /\ Clear(s, b, fl).proc = s.proc
<1>1. s.buf[b].flags \ fl \in SUBSET BFlag BY BufTyped
<1>2. Clear(s, b, fl) = PutFlags(s, b, s.buf[b].flags \ fl) BY DEF Clear, PutFlags
<1> QED BY <1>1, <1>2, FlagsPut

(* Another entry for a process leaves everything else alone. *)
LEMMA WithF ==
    ASSUME NEW s \in StateSet, NEW p \in Proc, NEW r \in ProcSet
    PROVE  /\ With(s, p, r) \in StateSet /\ With(s, p, r).buf = s.buf
           /\ SameLists(With(s, p, r), s) /\ SameCounts(With(s, p, r), s)
           /\ With(s, p, r).proc[p] = r
           /\ \A q \in Proc \ {p} : With(s, p, r).proc[q] = s.proc[q]
<1> DEFINE x == [s.proc EXCEPT ![p] = r]
<1>1. x \in [Proc -> ProcSet] /\ x[p] = r /\ \A q \in Proc \ {p} : x[q] = s.proc[q]
  BY StateTyped
<1>2. With(s, p, r) = [s EXCEPT !.proc = x] BY DEF With
<1> HIDE DEF x
<1>3. /\ With(s, p, r) \in StateSet /\ With(s, p, r).buf = s.buf /\ With(s, p, r).proc = x
      /\ SameLists(With(s, p, r), s) /\ SameCounts(With(s, p, r), s)
  BY <1>1, <1>2 DEF StateSet, SameLists, SameCounts
<1> QED BY <1>1, <1>3

(* From s to t the header b alone changes and changes places. *)
Moves(t, s, b) ==
    /\ t.proc = s.proc /\ s.wanted \subseteq t.wanted /\ Lonely(t)
    /\ \A c \in Buf \ {b} : /\ t.buf[c] = s.buf[c]
                            /\ c \in Free(t) <=> c \in Free(s)
                            /\ c \in Hdr(t) <=> c \in Hdr(s)
                            /\ c \in Io(t) <=> c \in Io(s)

NotHeld(s, p, b) == \A q \in Proc \ {p} : b \notin Hold(s.proc[q])

NoSleeper(s, p, b) == \A q \in Proc \ {p} : ~(s.proc[q].pc = "asleep" /\ s.proc[q].chan = b)

(* A place for b. *)
Placed(t, G, b) ==
    /\ b \in Free(t) => b \notin Hdr(t)
    /\ b \in G => b \notin Free(t) /\ b \notin Hdr(t) /\ ~Async(t, b)
    /\ b \in Free(t) \/ b \in Hdr(t) \/ b \in G \/ Async(t, b)

(* A header that is in a list, in hand or with the driver for nobody is    *)
(* held by no other process.                                               *)
LEMMA NotHeldIf ==
    ASSUME NEW s, NEW p, NEW H, NEW b \in Buf, Struct(s, p, H),
           b \in Free(s) \/ b \in Hdr(s) \/ b \in H \/ Async(s, b)
    PROVE  NotHeld(s, p, b)
<1> SUFFICES ASSUME NEW q \in Proc \ {p}, b \in Hold(s.proc[q]) PROVE FALSE BY DEF NotHeld
<1>1. b \notin Free(s) /\ b \notin Hdr(s) /\ b \notin H BY DEF Struct, Apart
<1>2. b \in Io(s) /\ "B_ASYNC" \in s.buf[b].flags BY <1>1 DEF Async
<1>3. s.buf[b].blk # NULL BY <1>2 DEF Struct, BufOK
<1>4. b = s.proc[q].bp \/ b = s.proc[q].savebp BY DEF Hold
<1>5. b # NULL BY ConstantsAssumption
<1>6. ProcOK(s, s.proc[q]) BY DEF Struct
<1> QED BY <1>2, <1>3, <1>4, <1>5, <1>6 DEF ProcOK, HoldsOK, KeepsOK

(* A process that does not hold b does not see it move, if it is not       *)
(* asleep on it or b stays busy and wanted.                                *)
LEMMA ProcKept ==
    ASSUME NEW s, NEW t, NEW p, NEW b \in Buf, NEW q \in Proc \ {p}, s \in StateSet,
           ProcOK(s, s.proc[q]), Moves(t, s, b), NotHeld(s, p, b),
           NoSleeper(s, p, b) \/ ("B_BUSY" \in t.buf[b].flags /\ "B_WANTED" \in t.buf[b].flags)
    PROVE  ProcOK(t, s.proc[q])
<1> DEFINE r == s.proc[q]
<1>0. r.bp \in Buf \cup {NULL} /\ r.savebp \in Buf \cup {NULL} BY ProcTyped
<1>1. r.bp # NULL => r.bp \in Buf \ {b} BY <1>0 DEF NotHeld, Hold
<1>2. r.savebp # NULL => r.savebp \in Buf \ {b} BY <1>0 DEF NotHeld, Hold
<1>3. NoSleeper(s, p, b) => ~(r.pc = "asleep" /\ r.chan = b) BY DEF NoSleeper
<1>4. s.wanted \subseteq t.wanted
      /\ \A c \in Buf \ {b} : t.buf[c] = s.buf[c] /\ (c \in Io(t) <=> c \in Io(s))
  BY DEF Moves
<1>5. Shape(r) /\ HoldsOK(s, r) /\ KeepsOK(s, r) /\ SleepOK(s, r) BY DEF ProcOK
<1>6. r.pc = "asleep" /\ r.ret = "biowait" => r.chan = r.bp /\ r.chan \in Buf
  BY <1>5 DEF Shape, Again
<1>7. NULL \notin Buf BY ConstantsAssumption
<1> HIDE DEF r
<1>8. HoldsOK(t, r) BY <1>1, <1>4, <1>5 DEF HoldsOK
<1>9. KeepsOK(t, r) BY <1>2, <1>4, <1>5 DEF KeepsOK
<1>10. SleepOK(t, r) BY <1>1, <1>3, <1>4, <1>5, <1>6, <1>7 DEF SleepOK
<1> QED BY <1>5, <1>8, <1>9, <1>10 DEF ProcOK, r

(* A header that was in a list, in hand or with the driver may change and  *)
(* change places.                                                          *)
LEMMA Handed ==
    ASSUME NEW s, NEW t, NEW p, NEW H, NEW G \in SUBSET Buf, NEW b \in Buf,
           Struct(s, p, H), t \in StateSet, Moves(t, s, b),
           b \in Free(s) \/ b \in Hdr(s) \/ b \in H \/ Async(s, b),
           BufOK(t, G, b), Placed(t, G, b),
           NoSleeper(s, p, b) \/ ("B_BUSY" \in t.buf[b].flags /\ "B_WANTED" \in t.buf[b].flags),
           \A c \in Buf \ {b} : c \in G <=> c \in H
    PROVE  Struct(t, p, G)
<1>1. NotHeld(s, p, b) BY NotHeldIf
<1>2. p \in Proc => t.proc[p].pc # "asleep" BY DEF Struct, Moves
<1>3. ASSUME NEW c \in Buf PROVE BufOK(t, G, c)
  <2>1. CASE c = b BY <2>1
  <2>2. CASE c # b
    <3>1. BufOK(s, H, c) BY DEF Struct
    <3>2. /\ t.buf[c] = s.buf[c] /\ (c \in G <=> c \in H)
          /\ (c \in Free(t) <=> c \in Free(s)) /\ (c \in Hdr(t) <=> c \in Hdr(s))
          /\ (c \in Io(t) <=> c \in Io(s))
      BY <2>2 DEF Moves
    <3> QED BY <3>1, <3>2 DEF BufOK
  <2> QED BY <2>1, <2>2
<1>4. ASSUME NEW q \in Proc \ {p} PROVE ProcOK(t, t.proc[q])
  <2>1. s \in StateSet /\ ProcOK(s, s.proc[q]) /\ t.proc[q] = s.proc[q] BY DEF Struct, Moves
  <2>2. ProcOK(t, s.proc[q]) BY <1>1, <2>1, ProcKept
  <2> QED BY <2>1, <2>2
<1>5. Lonely(t) /\ t.proc = s.proc BY DEF Moves
<1>6. \A c \in Buf \ {b} : /\ (c \in G <=> c \in H) /\ t.buf[c] = s.buf[c]
                           /\ (c \in Free(t) <=> c \in Free(s)) /\ (c \in Hdr(t) <=> c \in Hdr(s))
                           /\ (Async(t, c) <=> Async(s, c))
  BY DEF Moves, Async
<1>7. \A q \in Proc : Hold(s.proc[q]) \subseteq Buf
  <2>1. s \in StateSet BY DEF Struct
  <2> QED BY <2>1, ProcTyped DEF Hold
<1>8. Apart(s, p, H) BY DEF Struct
<1>9. Apart(t, p, G)
  <2>1. \A c \in Buf : c \in Free(t) => c \notin Hdr(t) BY <1>6, <1>8 DEF Placed, Apart
  <2>2. \A c \in G : c \in Buf /\ c \notin Free(t) /\ c \notin Hdr(t) /\ ~Async(t, c)
    BY <1>6, <1>8 DEF Placed, Apart
  <2>3. ASSUME NEW q \in Proc \ {p}, NEW c \in Hold(s.proc[q])
        PROVE  c \notin Free(t) /\ c \notin Hdr(t) /\ c \notin G
    <3>1. c \in Buf \ {b} BY <1>1, <1>7 DEF NotHeld
    <3>2. c \notin Free(s) /\ c \notin Hdr(s) /\ c \notin H BY <1>8 DEF Apart
    <3> QED BY <1>6, <3>1, <3>2
  <2>4. \A q, r \in Proc \ {p} : q # r => \A c \in Hold(s.proc[q]) : c \notin Hold(s.proc[r])
    BY <1>8 DEF Apart
  <2> QED BY <1>5, <2>1, <2>2, <2>3, <2>4 DEF Apart
<1>10. Somewhere(t, p, G)
  <2>1. Somewhere(s, p, H) BY DEF Struct
  <2>2. ASSUME NEW c \in Buf
        PROVE  \/ c \in Free(t) \/ c \in Hdr(t) \/ c \in G \/ Async(t, c)
               \/ \E q \in Proc \ {p} : c \in Hold(t.proc[q])
    <3>1. CASE c = b BY <3>1 DEF Placed
    <3>2. CASE c # b BY <3>2, <1>5, <1>6, <2>1 DEF Somewhere
    <3> QED BY <3>1, <3>2
  <2> QED BY <2>2 DEF Somewhere
<1> QED BY <1>2, <1>3, <1>4, <1>5, <1>9, <1>10 DEF Struct

(* A process starts to run: what it holds is in hand. *)
LEMMA Begin ==
    ASSUME NEW s, NEW p \in Proc, Struct(s, NULL, {}), s.proc[p].pc # "asleep"
    PROVE  Struct(s, p, Hold(s.proc[p])) /\ ProcOK(s, s.proc[p])
<1>0. NULL \notin Proc /\ NULL \notin Buf BY ConstantsAssumption
<1> DEFINE r == s.proc[p]
           H == Hold(r)
<1>1. \A q \in Proc : q \in Proc \ {NULL} BY <1>0
<1>2. ProcOK(s, r) BY <1>1 DEF Struct
<1>3. s \in StateSet BY DEF Struct
<1>4. H \subseteq Buf BY <1>3, ProcTyped DEF Hold
<1>5. \A b \in Buf : BufOK(s, {}, b) BY DEF Struct
<1>6. ASSUME NEW b \in H PROVE ~Async(s, b)
  <2>1. b = r.bp \/ b = r.savebp BY DEF Hold
  <2>2. b # NULL /\ b \in Buf BY <1>0, <1>4
  <2> HIDE DEF r, H
  <2> QED BY <1>2, <1>5, <2>1, <2>2 DEF ProcOK, HoldsOK, KeepsOK, Async, BufOK
<1>7. ASSUME NEW b \in Buf PROVE BufOK(s, H, b)
  <2>1. BufOK(s, {}, b) BY <1>5
  <2> HIDE DEF H
  <2> QED BY <2>1 DEF BufOK
<1>8. Apart(s, NULL, {}) BY DEF Struct
<1>9. Apart(s, p, H)
  <2>1. \A b \in Buf : b \in Free(s) => b \notin Hdr(s) BY <1>8 DEF Apart
  <2>2. \A b \in H : b \in Buf /\ b \notin Free(s) /\ b \notin Hdr(s) /\ ~Async(s, b)
    BY <1>1, <1>4, <1>6, <1>8 DEF Apart
  <2>3. \A q \in Proc \ {p} : \A b \in Hold(s.proc[q]) : b \notin Free(s) /\ b \notin Hdr(s) /\ b \notin H
    BY <1>1, <1>8 DEF Apart
  <2>4. \A q, v \in Proc \ {p} : q # v => \A b \in Hold(s.proc[q]) : b \notin Hold(s.proc[v])
    BY <1>1, <1>8 DEF Apart
  <2> HIDE DEF H
  <2> QED BY <2>1, <2>2, <2>3, <2>4 DEF Apart
<1>10. Somewhere(s, p, H)
  <2>1. Somewhere(s, NULL, {}) BY DEF Struct
  <2> QED BY <1>1, <2>1 DEF Somewhere
<1>11. Lonely(s) /\ \A q \in Proc \ {p} : ProcOK(s, s.proc[q]) BY <1>1 DEF Struct
<1> HIDE DEF H, r
<1>12. Struct(s, p, H) BY <1>3, <1>7, <1>9, <1>10, <1>11 DEF Struct, r
<1> QED BY <1>2, <1>12 DEF H, r

(* It ends with the entry r. *)
LEMMA End ==
    ASSUME NEW s, NEW p \in Proc, NEW H, NEW r \in ProcSet, Struct(s, p, H), ProcOK(s, r), Hold(r) = H
    PROVE  Struct(With(s, p, r), NULL, {})
<1> DEFINE t == With(s, p, r)
<1>0. s \in StateSet BY DEF Struct
<1>1. /\ t \in StateSet /\ t.buf = s.buf /\ SameLists(t, s) /\ SameCounts(t, s) /\ t.proc[p] = r
      /\ \A q \in Proc \ {p} : t.proc[q] = s.proc[q]
  BY <1>0, WithF
<1> HIDE DEF t
<1>2. NULL \notin Proc BY ConstantsAssumption
<1>3. Free(t) = Free(s) /\ Hdr(t) = Hdr(s) /\ Io(t) = Io(s) /\ t.wanted = s.wanted
  BY <1>1 DEF SameLists, SameCounts, Free, Hdr, Io
<1>4. Lonely(t) BY <1>1 DEF SameLists, Struct, Lonely
<1>5. Apart(s, p, H) /\ Somewhere(s, p, H) BY DEF Struct
<1>6. ASSUME NEW b \in Buf PROVE BufOK(t, {}, b)
  <2>1. BufOK(s, H, b) BY DEF Struct
  <2>2. b \in H /\ "B_ASYNC" \in s.buf[b].flags => b \in Io(s)
    <3>1. SUFFICES ASSUME b \in H, "B_ASYNC" \in s.buf[b].flags, b \notin Io(s) PROVE FALSE OBVIOUS
    <3>2. (b = r.bp \/ b = r.savebp) /\ b # NULL BY <3>1 DEF Hold
    <3>3. b # r.bp BY <3>1, <3>2 DEF ProcOK, HoldsOK
    <3>4. KeepsOK(s, r) /\ b = r.savebp /\ r.savebp # NULL BY <3>2, <3>3 DEF ProcOK
    <3> QED BY <3>1, <3>4 DEF KeepsOK
  <2> QED BY <1>1, <1>3, <2>1, <2>2 DEF BufOK
<1>7. \A v \in ProcSet : ProcOK(s, v) => ProcOK(t, v)
  BY <1>1, <1>3 DEF ProcOK, HoldsOK, KeepsOK, SleepOK
<1>8. ASSUME NEW q \in Proc \ {NULL} PROVE ProcOK(t, t.proc[q])
  <2>1. CASE q = p BY <1>1, <1>7, <2>1
  <2>2. CASE q # p
    <3>1. ProcOK(s, s.proc[q]) /\ s.proc[q] \in ProcSet BY <1>0, <2>2, ProcTyped DEF Struct
    <3> QED BY <1>1, <1>7, <2>2, <3>1
  <2> QED BY <2>1, <2>2
<1>9. \A b \in Buf : Async(t, b) <=> Async(s, b) BY <1>1, <1>3 DEF Async
<1>10. Apart(t, NULL, {})
  <2>1. \A b \in Buf : b \in Free(t) => b \notin Hdr(t) BY <1>3, <1>5 DEF Apart
  <2>2. ASSUME NEW q \in Proc, NEW b \in Hold(t.proc[q]) PROVE b \notin Free(t) /\ b \notin Hdr(t)
    <3>1. CASE q = p
      <4>1. b \in H BY <1>1, <2>2, <3>1
      <4> QED BY <1>3, <1>5, <4>1 DEF Apart
    <3>2. CASE q # p
      <4>1. b \in Hold(s.proc[q]) BY <1>1, <2>2, <3>2
      <4> QED BY <1>3, <1>5, <3>2, <4>1 DEF Apart
    <3> QED BY <3>1, <3>2
  <2>3. ASSUME NEW q \in Proc, NEW v \in Proc, q # v, NEW b \in Hold(t.proc[q]) PROVE b \notin Hold(t.proc[v])
    <3>1. CASE q = p
      <4>1. b \in H /\ t.proc[v] = s.proc[v] BY <1>1, <2>3, <3>1
      <4> QED BY <1>5, <2>3, <3>1, <4>1 DEF Apart
    <3>2. CASE v = p
      <4>1. b \in Hold(s.proc[q]) /\ Hold(t.proc[v]) = H BY <1>1, <2>3, <3>2
      <4> QED BY <1>5, <2>3, <3>2, <4>1 DEF Apart
    <3>3. CASE q # p /\ v # p
      <4>1. b \in Hold(s.proc[q]) /\ t.proc[v] = s.proc[v] BY <1>1, <2>3, <3>3
      <4> QED BY <1>5, <2>3, <3>3, <4>1 DEF Apart
    <3> QED BY <3>1, <3>2, <3>3
  <2> QED BY <2>1, <2>2, <2>3 DEF Apart
<1>11. Somewhere(t, NULL, {})
  <2> SUFFICES ASSUME NEW b \in Buf
               PROVE  \/ b \in Free(t) \/ b \in Hdr(t) \/ Async(t, b)
                      \/ \E q \in Proc \ {NULL} : b \in Hold(t.proc[q])
    BY DEF Somewhere
  <2>1. CASE b \in H BY <1>1, <1>2, <2>1
  <2>2. CASE \E q \in Proc \ {p} : b \in Hold(s.proc[q]) BY <1>1, <1>2, <2>2
  <2> QED BY <1>3, <1>5, <1>9, <2>1, <2>2 DEF Somewhere
<1>12. NULL \in Proc => t.proc[NULL].pc # "asleep" BY <1>2
<1>13. Struct(t, NULL, {}) BY <1>1, <1>4, <1>6, <1>8, <1>10, <1>11, <1>12 DEF Struct
<1> QED BY <1>13 DEF t

(***************************************************************************)
(* Wakeups.                                                                *)
(***************************************************************************)
LEMMA WokenSet ==
    ASSUME NEW r \in ProcSet, NEW c, r.pc = "asleep" => r.ret # NULL
    PROVE  /\ Woken(r, c) \in ProcSet
           /\ Woken(r, c).blk = r.blk /\ Woken(r, c).ra = r.ra /\ Woken(r, c).bp = r.bp
           /\ Woken(r, c).savebp = r.savebp /\ Woken(r, c).then = r.then
           /\ ~(r.pc = "asleep" /\ r.chan = c) => Woken(r, c) = r
           /\ r.pc = "asleep" /\ r.chan = c =>
                 /\ Woken(r, c).pc = r.ret /\ Woken(r, c).chan = NULL /\ Woken(r, c).ret = NULL
                 /\ r.ret \in {"getblk", "getfreeblk", "zalloc", "biowait", "blkflush", "bdwait"}
<1>1. CASE ~(r.pc = "asleep" /\ r.chan = c) BY <1>1 DEF Woken
<1>2. CASE r.pc = "asleep" /\ r.chan = c
  <2> DEFINE v == [r EXCEPT !.pc = r.ret, !.chan = NULL, !.ret = NULL]
  <2>1. r.ret \in {"getblk", "getfreeblk", "zalloc", "biowait", "blkflush", "bdwait"} BY <1>2 DEF ProcSet
  <2>2. Woken(r, c) = v BY <1>2 DEF Woken
  <2>3. /\ v.pc = r.ret /\ v.chan = NULL /\ v.ret = NULL /\ v.blk = r.blk /\ v.ra = r.ra /\ v.bp = r.bp
        /\ v.savebp = r.savebp /\ v.then = r.then
    BY DEF ProcSet
  <2>4. v \in ProcSet BY <2>1 DEF ProcSet
  <2> QED BY <1>2, <2>1, <2>2, <2>3, <2>4
<1> QED BY <1>1, <1>2

(* A sleeper knows what it sleeps on and where it goes on. *)
LEMMA SleeperRet ==
    ASSUME NEW r \in ProcSet, Shape(r), r.pc = "asleep"
    PROVE  r.ret # NULL /\ r.chan # NULL
<1>1. r.ret \in {NULL, "getblk", "getfreeblk", "zalloc", "biowait", "blkflush", "bdwait"} BY DEF ProcSet
<1>2. r.ret # NULL
  <2>1. SUFFICES ASSUME r.ret = NULL PROVE FALSE OBVIOUS
  <2> QED BY <2>1, ConstantsAssumption DEF Shape, Again
<1>3. r.chan # NULL BY ConstantsAssumption DEF Shape, Again
<1> QED BY <1>2, <1>3

(* From s to t some of the sleepers are woken. *)
Wakes(t, s) ==
    \A q \in Proc : \/ t.proc[q] = s.proc[q]
                    \/ s.proc[q].pc = "asleep" /\ t.proc[q] = Woken(s.proc[q], s.proc[q].chan)

(* A woken process is where its sleep was to end, with what it held. *)
LEMMA WokenOK ==
    ASSUME NEW s, NEW t, NEW r \in ProcSet, ProcOK(s, r), t.buf = s.buf, SameLists(t, s), r.pc = "asleep"
    PROVE  /\ ProcOK(t, Woken(r, r.chan)) /\ Hold(Woken(r, r.chan)) = Hold(r)
           /\ Woken(r, r.chan).pc # "asleep" /\ Woken(r, r.chan) \in ProcSet
           /\ At(Woken(r, r.chan)) = At(r) /\ Target(Woken(r, r.chan)) = Target(r)
<1> DEFINE v == Woken(r, r.chan)
<1>1. Shape(r) /\ HoldsOK(s, r) /\ KeepsOK(s, r) BY DEF ProcOK
<1>2. r.ret # NULL BY <1>1, SleeperRet
<1>3. /\ v \in ProcSet /\ v.blk = r.blk /\ v.ra = r.ra /\ v.bp = r.bp /\ v.savebp = r.savebp
      /\ v.then = r.then /\ v.pc = r.ret /\ v.chan = NULL /\ v.ret = NULL
      /\ r.ret \in {"getblk", "getfreeblk", "zalloc", "biowait", "blkflush", "bdwait"}
  BY <1>2, WokenSet
<1> HIDE DEF v
<1>4. v.pc # "asleep" /\ v.pc # "own" /\ v.pc # "idle" BY <1>3
<1>5. At(v) = At(r) BY <1>3, <1>4 DEF At
<1>6. Target(v) = Target(r) /\ (Getting(r) => Getting(v)) /\ Want(v) = Want(r)
  <2>1. Target(v) = Target(r) BY <1>3 DEF Target
  <2> QED BY <1>3, <2>1 DEF Getting, Want
<1>7. Shape(v)
  <2>1. r.savebp # NULL => r.ret = "zalloc" BY <1>1 DEF Shape
  <2> QED BY <1>1, <1>3, <1>4, <1>5, <1>6 DEF Shape
<1>8. Io(t) = Io(s) BY DEF SameLists, Io
<1>9. HoldsOK(t, v) BY <1>1, <1>3, <1>4, <1>8 DEF HoldsOK
<1>10. KeepsOK(t, v) BY <1>1, <1>3, <1>5, <1>6 DEF KeepsOK
<1>11. SleepOK(t, v) BY <1>4 DEF SleepOK
<1>12. Hold(v) = Hold(r) BY <1>3 DEF Hold
<1> QED BY <1>3, <1>4, <1>5, <1>6, <1>7, <1>9, <1>10, <1>11, <1>12 DEF ProcOK, v

(* Waking does not disturb the structure if nobody is left asleep on a     *)
(* list that is no longer wanted.                                          *)
LEMMA WakesStruct ==
    ASSUME NEW s, NEW t, NEW p, NEW H, Struct(s, p, H), t \in StateSet, t.buf = s.buf, SameLists(t, s),
           Wakes(t, s),
           \A q \in Proc \ {p} : t.proc[q].pc = "asleep" /\ t.proc[q].chan \in {"bfreelist", "bhdrlist"}
                                  => t.proc[q].chan \in t.wanted
    PROVE  Struct(t, p, H)
<1>1. s \in StateSet BY DEF Struct
<1>2. Free(t) = Free(s) /\ Hdr(t) = Hdr(s) /\ Io(t) = Io(s) BY DEF SameLists, Free, Hdr, Io
<1>3. p \in Proc => t.proc[p].pc # "asleep"
  <2>1. p \in Proc => s.proc[p].pc # "asleep" BY DEF Struct
  <2> QED BY <2>1 DEF Wakes
<1>4. ASSUME NEW b \in Buf PROVE BufOK(t, H, b)
  <2>1. BufOK(s, H, b) BY DEF Struct
  <2> QED BY <1>2, <2>1 DEF BufOK
<1>5. ASSUME NEW q \in Proc \ {p} PROVE ProcOK(t, t.proc[q]) /\ Hold(t.proc[q]) = Hold(s.proc[q])
  <2>1. ProcOK(s, s.proc[q]) /\ s.proc[q] \in ProcSet BY <1>1, ProcTyped DEF Struct
  <2>2. CASE t.proc[q] = s.proc[q]
    <3>1. HoldsOK(t, s.proc[q]) /\ KeepsOK(t, s.proc[q])
      BY <1>2, <2>1 DEF ProcOK, HoldsOK, KeepsOK
    <3>2. SleepOK(t, s.proc[q])
      <4>1. SleepOK(s, s.proc[q]) BY <2>1 DEF ProcOK
      <4>2. t.proc[q].pc = "asleep" /\ t.proc[q].chan \in {"bfreelist", "bhdrlist"}
                => t.proc[q].chan \in t.wanted
        OBVIOUS
      <4> QED BY <1>2, <2>2, <4>1, <4>2 DEF SleepOK
    <3> QED BY <2>1, <2>2, <3>1, <3>2 DEF ProcOK
  <2>3. CASE s.proc[q].pc = "asleep" /\ t.proc[q] = Woken(s.proc[q], s.proc[q].chan)
    BY <2>1, <2>3, WokenOK
  <2> QED BY <2>2, <2>3 DEF Wakes
<1>6. \A b \in Buf : Async(t, b) <=> Async(s, b) BY <1>2 DEF Async
<1>7. Lonely(t) BY DEF Struct, Lonely, SameLists
<1>8. Apart(t, p, H)
  <2>1. Apart(s, p, H) BY DEF Struct
  <2> QED BY <1>2, <1>5, <1>6, <2>1 DEF Apart
<1>9. Somewhere(t, p, H)
  <2>1. Somewhere(s, p, H) BY DEF Struct
  <2> QED BY <1>2, <1>5, <1>6, <2>1 DEF Somewhere
<1> QED BY <1>3, <1>4, <1>5, <1>7, <1>8, <1>9 DEF Struct

(* wakeup() of a channel. *)
LEMMA WakeF ==
    ASSUME NEW s, NEW p, NEW H, NEW c, NEW u \in StateSet, Struct(s, p, H), u.proc = s.proc
    PROVE  /\ Wakeup(u, c) \in StateSet /\ Wakeup(u, c).buf = u.buf
           /\ SameLists(Wakeup(u, c), u) /\ SameCounts(Wakeup(u, c), u)
           /\ \A q \in Proc : Wakeup(u, c).proc[q] = Woken(s.proc[q], c)
           /\ Wakes(Wakeup(u, c), s) /\ NoSleeper(Wakeup(u, c), p, c)
           /\ p \in Proc => Wakeup(u, c).proc[p] = s.proc[p]
<1> DEFINE x == [q \in Proc |-> Woken(u.proc[q], c)]
<1>0. s \in StateSet BY DEF Struct
<1>1. ASSUME NEW q \in Proc
      PROVE  /\ Woken(s.proc[q], c) \in ProcSet
             /\ \/ Woken(s.proc[q], c) = s.proc[q]
                \/ s.proc[q].pc = "asleep" /\ Woken(s.proc[q], c) = Woken(s.proc[q], s.proc[q].chan)
             /\ ~(Woken(s.proc[q], c).pc = "asleep" /\ Woken(s.proc[q], c).chan = c)
  <2>1. s.proc[q] \in ProcSet BY <1>0, ProcTyped
  <2>2. s.proc[q].pc = "asleep" => s.proc[q].ret # NULL
    <3>1. CASE q = p BY <3>1 DEF Struct
    <3>2. CASE q # p
      <4>1. Shape(s.proc[q]) BY <3>2 DEF Struct, ProcOK
      <4> QED BY <2>1, <4>1, SleeperRet
    <3> QED BY <3>1, <3>2
  <2>3. CASE s.proc[q].pc = "asleep" /\ s.proc[q].chan = c
    <3>1. /\ Woken(s.proc[q], c) \in ProcSet /\ Woken(s.proc[q], c).pc = s.proc[q].ret
          /\ s.proc[q].ret \in {"getblk", "getfreeblk", "zalloc", "biowait", "blkflush", "bdwait"}
      BY <2>1, <2>2, <2>3, WokenSet
    <3> QED BY <2>3, <3>1
  <2>4. CASE ~(s.proc[q].pc = "asleep" /\ s.proc[q].chan = c)
    BY <2>1, <2>2, <2>4, WokenSet
  <2> QED BY <2>3, <2>4
<1>2. x \in [Proc -> ProcSet] /\ \A q \in Proc : x[q] = Woken(s.proc[q], c) BY <1>1
<1>3. Wakeup(u, c) = [u EXCEPT !.proc = x] BY DEF Wakeup
<1> HIDE DEF x
<1> DEFINE t == Wakeup(u, c)
<1>4. t \in StateSet /\ t.buf = u.buf /\ t.proc = x /\ SameLists(t, u) /\ SameCounts(t, u)
  BY <1>2, <1>3 DEF StateSet, SameLists, SameCounts
<1> HIDE DEF t
<1>5. \A q \in Proc : t.proc[q] = Woken(s.proc[q], c) BY <1>2, <1>4
<1>6. Wakes(t, s) BY <1>1, <1>5 DEF Wakes
<1>7. NoSleeper(t, p, c) BY <1>1, <1>5 DEF NoSleeper
<1>8. p \in Proc => t.proc[p] = s.proc[p]
  <2>1. p \in Proc => s.proc[p].pc # "asleep" BY DEF Struct
  <2> QED BY <1>5, <2>1, Zenon DEF Woken
<1> QED BY <1>4, <1>5, <1>6, <1>7, <1>8 DEF t

(* wakeup() keeps the structure. *)
LEMMA WakeStruct ==
    ASSUME NEW s, NEW p, NEW H, NEW c, Struct(s, p, H)
    PROVE  /\ Struct(Wakeup(s, c), p, H) /\ Wakeup(s, c).buf = s.buf
           /\ SameLists(Wakeup(s, c), s) /\ SameCounts(Wakeup(s, c), s)
           /\ Wakes(Wakeup(s, c), s) /\ NoSleeper(Wakeup(s, c), p, c)
           /\ p \in Proc => Wakeup(s, c).proc[p] = s.proc[p]
<1> DEFINE t == Wakeup(s, c)
<1>0. s \in StateSet BY DEF Struct
<1>1. /\ t \in StateSet /\ t.buf = s.buf /\ SameLists(t, s) /\ SameCounts(t, s) /\ Wakes(t, s)
      /\ NoSleeper(t, p, c) /\ (p \in Proc => t.proc[p] = s.proc[p])
      /\ \A q \in Proc : t.proc[q] = Woken(s.proc[q], c)
  BY <1>0, WakeF
<1> HIDE DEF t
<1>2. ASSUME NEW q \in Proc \ {p}, t.proc[q].pc = "asleep", t.proc[q].chan \in {"bfreelist", "bhdrlist"}
      PROVE  t.proc[q].chan \in t.wanted
  <2>1. /\ ProcOK(s, s.proc[q]) /\ s.proc[q] \in ProcSet BY <1>0, ProcTyped DEF Struct
  <2>2. t.proc[q] = s.proc[q]
    <3>1. CASE t.proc[q] = s.proc[q] BY <3>1
    <3>2. CASE s.proc[q].pc = "asleep" /\ t.proc[q] = Woken(s.proc[q], s.proc[q].chan)
      <4>1. SameLists(s, s) BY DEF SameLists
      <4>2. Woken(s.proc[q], s.proc[q].chan).pc # "asleep" BY <2>1, <3>2, <4>1, WokenOK
      <4> QED BY <1>2, <3>2, <4>2
    <3> QED BY <1>1, <3>1, <3>2 DEF Wakes
  <2> QED BY <1>1, <1>2, <2>1, <2>2 DEF ProcOK, SleepOK, SameCounts
<1>3. Struct(t, p, H) BY <1>1, <1>2, WakesStruct
<1> QED BY <1>1, <1>3 DEF t

(* All that wakeups leave alone. *)
Rest(t, s) ==
    /\ t.buf = s.buf /\ SameLists(t, s)
    /\ t.bufsize = s.bufsize /\ t.basyncnt = s.basyncnt /\ t.basynwait = s.basynwait

(* Waking who waits for a list, and clearing its B_WANTED. *)
LEMMA WakeListStruct ==
    ASSUME NEW s, NEW p, NEW H, NEW l \in {"bfreelist", "bhdrlist"}, Struct(s, p, H)
    PROVE  /\ Struct(WakeList(s, l), p, H) /\ Rest(WakeList(s, l), s) /\ Wakes(WakeList(s, l), s)
           /\ p \in Proc => WakeList(s, l).proc[p] = s.proc[p]
<1> DEFINE t == WakeList(s, l)
<1>1. CASE l \notin s.wanted
  <2>1. t = s BY <1>1 DEF WakeList
  <2> QED BY <2>1 DEF Rest, SameLists, Wakes
<1>2. CASE l \in s.wanted
  <2> DEFINE u == [s EXCEPT !.wanted = @ \ {l}]
  <2>0. s \in StateSet BY DEF Struct
  <2>1. /\ u \in StateSet /\ u.proc = s.proc /\ u.buf = s.buf /\ u.wanted = s.wanted \ {l}
        /\ SameLists(u, s) /\ u.bufsize = s.bufsize /\ u.basyncnt = s.basyncnt
        /\ u.basynwait = s.basynwait
    BY <2>0 DEF StateSet, SameLists
  <2>2. t = Wakeup(u, l) BY <1>2 DEF WakeList
  <2> HIDE DEF u
  <2> HIDE DEF t
  <2>3. /\ t \in StateSet /\ t.buf = u.buf /\ SameLists(t, u) /\ SameCounts(t, u) /\ Wakes(t, s)
        /\ NoSleeper(t, p, l) /\ (p \in Proc => t.proc[p] = s.proc[p])
    <3>1. u \in StateSet /\ u.proc = s.proc BY <2>1
    <3>2. /\ Wakeup(u, l) \in StateSet /\ Wakeup(u, l).buf = u.buf /\ SameLists(Wakeup(u, l), u)
          /\ SameCounts(Wakeup(u, l), u) /\ Wakes(Wakeup(u, l), s) /\ NoSleeper(Wakeup(u, l), p, l)
          /\ (p \in Proc => Wakeup(u, l).proc[p] = s.proc[p])
      BY <3>1, WakeF
    <3> QED BY <2>2, <3>2
  <2>4. Rest(t, s) BY <2>1, <2>3 DEF Rest, SameLists, SameCounts
  <2>5. ASSUME NEW q \in Proc \ {p}, t.proc[q].pc = "asleep", t.proc[q].chan \in {"bfreelist", "bhdrlist"}
        PROVE  t.proc[q].chan \in t.wanted
    <3>1. /\ ProcOK(s, s.proc[q]) /\ s.proc[q] \in ProcSet BY <2>0, ProcTyped DEF Struct
    <3>2. t.proc[q] = s.proc[q]
      <4>1. CASE t.proc[q] = s.proc[q] BY <4>1
      <4>2. CASE s.proc[q].pc = "asleep" /\ t.proc[q] = Woken(s.proc[q], s.proc[q].chan)
        <5>1. SameLists(s, s) BY DEF SameLists
        <5>2. Woken(s.proc[q], s.proc[q].chan).pc # "asleep" BY <3>1, <4>2, <5>1, WokenOK
        <5> QED BY <2>5, <4>2, <5>2
      <4> QED BY <2>3, <4>1, <4>2 DEF Wakes
    <3>3. t.proc[q].chan # l BY <2>3, <2>5 DEF NoSleeper
    <3>4. t.wanted = s.wanted \ {l} BY <2>1, <2>3 DEF SameCounts
    <3>5. s.proc[q].chan \in s.wanted BY <2>5, <3>1, <3>2 DEF ProcOK, SleepOK
    <3> QED BY <3>2, <3>3, <3>4, <3>5
  <2>6. Struct(t, p, H) BY <2>3, <2>4, <2>5, WakesStruct DEF Rest
  <2> QED BY <2>3, <2>4, <2>6 DEF t
<1> QED BY <1>1, <1>2

(* Wakeups after wakeups are wakeups. *)
LEMMA WakesTwice ==
    ASSUME NEW s, NEW t, NEW u, NEW p, NEW H, Struct(s, p, H), Wakes(t, s), Wakes(u, t)
    PROVE  Wakes(u, s)
<1> SUFFICES ASSUME NEW q \in Proc
             PROVE  \/ u.proc[q] = s.proc[q]
                    \/ s.proc[q].pc = "asleep" /\ u.proc[q] = Woken(s.proc[q], s.proc[q].chan)
  BY DEF Wakes
<1>1. CASE t.proc[q] = s.proc[q] BY <1>1 DEF Wakes
<1>2. CASE s.proc[q].pc = "asleep" /\ t.proc[q] = Woken(s.proc[q], s.proc[q].chan)
  <2>1. q # p /\ s.proc[q] \in ProcSet BY <1>2, ProcTyped DEF Struct
  <2>2. ProcOK(s, s.proc[q]) BY <2>1 DEF Struct
  <2>3. SameLists(s, s) BY DEF SameLists
  <2>4. t.proc[q].pc # "asleep" BY <1>2, <2>1, <2>2, <2>3, WokenOK
  <2> QED BY <1>2, <2>4 DEF Wakes
<1> QED BY <1>1, <1>2 DEF Wakes

(* Nobody falls asleep by a wakeup. *)
LEMMA NoSleeperKept ==
    ASSUME NEW s, NEW t, NEW p, NEW H, NEW b, Struct(s, p, H), Wakes(t, s), NoSleeper(s, p, b)
    PROVE  NoSleeper(t, p, b)
<1> SUFFICES ASSUME NEW q \in Proc \ {p}, t.proc[q].pc = "asleep", t.proc[q].chan = b PROVE FALSE
  BY DEF NoSleeper
<1>1. CASE t.proc[q] = s.proc[q] BY <1>1 DEF NoSleeper
<1>2. CASE s.proc[q].pc = "asleep" /\ t.proc[q] = Woken(s.proc[q], s.proc[q].chan)
  <2>1. s.proc[q] \in ProcSet /\ ProcOK(s, s.proc[q]) BY ProcTyped DEF Struct
  <2>3. SameLists(s, s) BY DEF SameLists
  <2>4. t.proc[q].pc # "asleep" BY <1>2, <2>1, <2>3, WokenOK
  <2> QED BY <2>4
<1> QED BY <1>1, <1>2 DEF Wakes

(* The wakeups of brelse(). *)
Roused(s, b) == WakeList(WakeWanted(s, b), "bfreelist")

(* They keep the structure, and leave nobody asleep on b. *)
LEMMA RousedStruct ==
    ASSUME NEW s, NEW p, NEW H, NEW b \in Buf, Struct(s, p, H)
    PROVE  /\ Struct(Roused(s, b), p, H) /\ Rest(Roused(s, b), s) /\ Wakes(Roused(s, b), s)
           /\ p \in Proc => Roused(s, b).proc[p] = s.proc[p]
           /\ NoSleeper(Roused(s, b), p, b)
<1> DEFINE t == WakeWanted(s, b)
           u == WakeList(t, "bfreelist")
<1>1. /\ Struct(t, p, H) /\ Rest(t, s) /\ Wakes(t, s) /\ NoSleeper(t, p, b)
      /\ (p \in Proc => t.proc[p] = s.proc[p])
  <2>1. CASE "B_WANTED" \in s.buf[b].flags
    <3>1. t = Wakeup(s, b) BY <2>1 DEF WakeWanted
    <3> HIDE DEF t
    <3>2. /\ Struct(t, p, H) /\ t.buf = s.buf /\ SameLists(t, s) /\ SameCounts(t, s)
          /\ Wakes(t, s) /\ NoSleeper(t, p, b) /\ (p \in Proc => t.proc[p] = s.proc[p])
      BY <3>1, WakeStruct
    <3> QED BY <3>2 DEF Rest, SameCounts
  <2>2. CASE "B_WANTED" \notin s.buf[b].flags
    <3>1. t = s BY <2>2 DEF WakeWanted
    <3>2. NoSleeper(s, p, b) BY <2>2 DEF NoSleeper, Struct, ProcOK, SleepOK
    <3> QED BY <3>1, <3>2 DEF Rest, SameLists, Wakes
  <2> QED BY <2>1, <2>2
<1> HIDE DEF t
<1>2. Struct(u, p, H) /\ Rest(u, t) /\ Wakes(u, t) /\ (p \in Proc => u.proc[p] = t.proc[p])
  BY <1>1, WakeListStruct
<1> HIDE DEF u
<1>3. Wakes(u, s) BY <1>1, <1>2, WakesTwice
<1>4. NoSleeper(u, p, b) BY <1>1, <1>2, NoSleeperKept
<1>5. Rest(u, s) BY <1>1, <1>2 DEF Rest, SameLists
<1>6. u = Roused(s, b) BY DEF u, t, Roused
<1> QED BY <1>1, <1>2, <1>3, <1>4, <1>5, <1>6

(* What brelse() does to the flags. *)
Released(f) ==
    (IF "B_ERROR" \in f THEN (f \ {"B_ERROR", "B_DELWRI"}) \cup {"B_STALE", "B_AGE"} ELSE f)
    \ {"B_WANTED", "B_BUSY", "B_ASYNC"}

(* brelse() of a buffer with an error. *)
LEMMA ForgetF ==
    ASSUME NEW s \in StateSet, NEW b \in Buf
    PROVE  /\ Forget(s, b) \in StateSet
           /\ OnlyFlags(Forget(s, b), s, b,
                 IF "B_ERROR" \in s.buf[b].flags
                 THEN (s.buf[b].flags \ {"B_ERROR", "B_DELWRI"}) \cup {"B_STALE", "B_AGE"} ELSE s.buf[b].flags)
           /\ SameLists(Forget(s, b), s) /\ SameCounts(Forget(s, b), s) /\ Forget(s, b).proc = s.proc
<1>1. CASE "B_ERROR" \notin s.buf[b].flags
  BY <1>1 DEF Forget, OnlyFlags, SameLists, SameCounts
<1>2. CASE "B_ERROR" \in s.buf[b].flags
  <2> DEFINE u == Clear(s, b, {"B_ERROR", "B_DELWRI"})
             fl == {"B_STALE", "B_AGE"}
  <2>1. /\ u \in StateSet /\ OnlyFlags(u, s, b, s.buf[b].flags \ {"B_ERROR", "B_DELWRI"})
        /\ SameLists(u, s) /\ SameCounts(u, s) /\ u.proc = s.proc
    BY ClearF
  <2> HIDE DEF u
  <2>2. fl \in SUBSET BFlag BY DEF BFlag
  <2>3. Forget(s, b) = Set(u, b, fl) BY <1>2 DEF Forget, u
  <2> HIDE DEF fl
  <2>4. /\ Set(u, b, fl) \in StateSet /\ OnlyFlags(Set(u, b, fl), u, b, u.buf[b].flags \cup fl)
        /\ SameLists(Set(u, b, fl), u) /\ SameCounts(Set(u, b, fl), u) /\ Set(u, b, fl).proc = u.proc
    BY <2>1, <2>2, SetF
  <2>5. OnlyFlags(Set(u, b, fl), s, b, (s.buf[b].flags \ {"B_ERROR", "B_DELWRI"}) \cup fl)
    BY <2>1, <2>4 DEF OnlyFlags
  <2> QED BY <1>2, <2>1, <2>3, <2>4, <2>5 DEF SameLists, SameCounts, fl
<1> QED BY <1>1, <1>2

(* brelse() puts the buffer on the free list, in front or behind. *)
LEMMA PutbackF ==
    ASSUME NEW s \in StateSet, NEW b \in Buf, b \notin Free(s), IsInjective(s.bfreelist)
    PROVE  /\ Putback(s, b) \in StateSet /\ Putback(s, b).buf = s.buf
           /\ Free(Putback(s, b)) = Free(s) \cup {b} /\ IsInjective(Putback(s, b).bfreelist)
           /\ Putback(s, b).bhdrlist = s.bhdrlist /\ Putback(s, b).ioq = s.ioq
           /\ SameCounts(Putback(s, b), s) /\ Putback(s, b).proc = s.proc
<1>1. PICK l : l = IF "B_AGE" \in s.buf[b].flags THEN <<b>> \o s.bfreelist ELSE Append(s.bfreelist, b)
  OBVIOUS
<1>2. Putback(s, b) = [s EXCEPT !.bfreelist = l] BY <1>1 DEF Putback
<1>3. s.bfreelist \in Seq(Buf) BY StateTyped
<1>4. l \in Seq(Buf) /\ IsInjective(l) /\ ToSet(l) = ToSet(s.bfreelist) \cup {b}
  <2>1. b \notin ToSet(s.bfreelist) BY DEF Free
  <2>2. CASE "B_AGE" \in s.buf[b].flags
    <3>1. l = <<b>> \o s.bfreelist BY <1>1, <2>2
    <3> QED BY <1>3, <2>1, <3>1, PrependFacts
  <2>3. CASE "B_AGE" \notin s.buf[b].flags
    <3>1. l = Append(s.bfreelist, b) BY <1>1, <2>3
    <3> QED BY <1>3, <2>1, <3>1, AppendFacts
  <2> QED BY <2>2, <2>3
<1>5. /\ Putback(s, b) \in StateSet /\ Putback(s, b).buf = s.buf /\ Putback(s, b).bfreelist = l
      /\ Putback(s, b).bhdrlist = s.bhdrlist /\ Putback(s, b).ioq = s.ioq
      /\ SameCounts(Putback(s, b), s) /\ Putback(s, b).proc = s.proc
  BY <1>2, <1>4 DEF StateSet, SameCounts
<1> QED BY <1>4, <1>5 DEF Free

(* brelse() of a buffer in hand. *)
LEMMA BrelseStruct ==
    ASSUME NEW s, NEW p, NEW H, NEW b \in H, Struct(s, p, H), b \notin Io(s)
    PROVE  /\ Struct(Brelse(s, b), p, H \ {b})
           /\ OnlyFlags(Brelse(s, b), s, b, Released(s.buf[b].flags))
           /\ Brelse(s, b).bhdrlist = s.bhdrlist /\ Brelse(s, b).ioq = s.ioq
           /\ Brelse(s, b).bufsize = s.bufsize /\ Brelse(s, b).basyncnt = s.basyncnt
           /\ Brelse(s, b).basynwait = s.basynwait
           /\ Wakes(Brelse(s, b), s) /\ (p \in Proc => Brelse(s, b).proc[p] = s.proc[p])
<1> DEFINE u == Roused(s, b)
           v == Forget(u, b)
           w == Putback(v, b)
           fl == {"B_WANTED", "B_BUSY", "B_ASYNC"}
           t == Clear(w, b, fl)
<1>0. b \in Buf /\ H \subseteq Buf BY DEF Struct, Apart
<1>1. /\ Struct(u, p, H) /\ Rest(u, s) /\ Wakes(u, s) /\ NoSleeper(u, p, b)
      /\ (p \in Proc => u.proc[p] = s.proc[p])
  BY <1>0, RousedStruct
<1>2. Brelse(s, b) = t BY DEF Brelse, Roused
<1> HIDE DEF u
<1>3. u \in StateSet /\ b \notin Free(u) /\ Lonely(u) BY <1>1 DEF Struct, Apart
<1> DEFINE f == u.buf[b].flags
           g == IF "B_ERROR" \in f THEN (f \ {"B_ERROR", "B_DELWRI"}) \cup {"B_STALE", "B_AGE"} ELSE f
<1>4. /\ v \in StateSet /\ OnlyFlags(v, u, b, g) /\ SameLists(v, u) /\ SameCounts(v, u) /\ v.proc = u.proc
  BY <1>0, <1>3, ForgetF
<1> HIDE DEF v
<1>5. b \notin Free(v) /\ IsInjective(v.bfreelist) BY <1>3, <1>4 DEF SameLists, Free, Lonely
<1>6. /\ w \in StateSet /\ w.buf = v.buf /\ Free(w) = Free(v) \cup {b} /\ IsInjective(w.bfreelist)
      /\ w.bhdrlist = v.bhdrlist /\ w.ioq = v.ioq /\ SameCounts(w, v) /\ w.proc = v.proc
  BY <1>0, <1>4, <1>5, PutbackF
<1> HIDE DEF w, fl
<1>7. /\ t \in StateSet /\ OnlyFlags(t, w, b, w.buf[b].flags \ fl)
      /\ SameLists(t, w) /\ SameCounts(t, w) /\ t.proc = w.proc
  BY <1>0, <1>6, ClearF
<1> HIDE DEF t
<1>8. OnlyFlags(t, u, b, Released(f))
  <2>1. v.buf[b].flags = g BY <1>4 DEF OnlyFlags
  <2>2. t.buf[b].flags = Released(f) BY <1>6, <1>7, <2>1 DEF OnlyFlags, Released, fl
  <2> QED BY <1>4, <1>6, <1>7, <2>2 DEF OnlyFlags
<1>9. /\ t.proc = u.proc /\ t.wanted = u.wanted /\ t.bhdrlist = u.bhdrlist /\ t.ioq = u.ioq
      /\ t.bufsize = u.bufsize /\ t.basyncnt = u.basyncnt /\ t.basynwait = u.basynwait
      /\ Free(t) = Free(u) \cup {b} /\ IsInjective(t.bfreelist)
  BY <1>4, <1>6, <1>7 DEF SameLists, SameCounts, Free
<1>10. Hdr(t) = Hdr(u) /\ Io(t) = Io(u) /\ Lonely(t) BY <1>3, <1>9 DEF Hdr, Io, Lonely
<1>11. Moves(t, u, b) BY <1>8, <1>9, <1>10 DEF Moves, OnlyFlags
<1>12. b \notin Io(u) /\ b \notin Hdr(u)
  BY <1>1 DEF Rest, SameLists, Io, Struct, Apart
<1>13. BufOK(t, H \ {b}, b)
  <2>1. BufOK(u, H, b) BY <1>0, <1>1 DEF Struct
  <2>2. t.buf[b].flags = Released(f) /\ t.buf[b].blk = u.buf[b].blk BY <1>8 DEF OnlyFlags
  <2> QED BY <1>10, <1>12, <2>1, <2>2 DEF BufOK, Released
<1>14. Placed(t, H \ {b}, b) BY <1>9, <1>10, <1>12 DEF Placed, Async
<1>15. Struct(t, p, H \ {b})
  <2> DEFINE G == H \ {b}
  <2>1. G \in SUBSET Buf /\ \A c \in Buf \ {b} : c \in G <=> c \in H BY <1>0
  <2> HIDE DEF G
  <2>2. BufOK(t, G, b) /\ Placed(t, G, b) BY <1>13, <1>14 DEF G
  <2>3. Struct(t, p, G) BY <1>0, <1>1, <1>7, <1>11, <2>1, <2>2, Handed
  <2> QED BY <2>3 DEF G
<1>16. OnlyFlags(t, s, b, Released(s.buf[b].flags))
  <2>1. u.buf = s.buf BY <1>1 DEF Rest
  <2> QED BY <1>8, <2>1 DEF OnlyFlags
<1>17. Wakes(t, s) BY <1>1, <1>9 DEF Wakes
<1>18. u.bhdrlist = s.bhdrlist /\ u.ioq = s.ioq BY <1>1 DEF Rest, SameLists
<1>19. t.bhdrlist = s.bhdrlist /\ t.ioq = s.ioq BY <1>9, <1>18
<1>20. t.bufsize = s.bufsize /\ t.basyncnt = s.basyncnt /\ t.basynwait = s.basynwait
  BY <1>1, <1>9 DEF Rest
<1>21. p \in Proc => t.proc[p] = s.proc[p] BY <1>1, <1>9
<1> QED BY <1>2, <1>15, <1>16, <1>17, <1>19, <1>20, <1>21

Kept(t, s) == t.proc = s.proc /\ SameCounts(t, s)

(* A header in hand, or in a list, whose flags change where it is. *)
LEMMA Flagged ==
    ASSUME NEW s, NEW t, NEW p, NEW H, NEW b \in Buf, NEW fl, Struct(s, p, H),
           b \in Free(s) \/ b \in H, b \notin Io(s),
           t \in StateSet, OnlyFlags(t, s, b, fl), SameLists(t, s), Kept(t, s), BufOK(t, H, b),
           NoSleeper(s, p, b) \/ ("B_BUSY" \in fl /\ "B_WANTED" \in fl)
    PROVE  Struct(t, p, H)
<1>1. Free(t) = Free(s) /\ Hdr(t) = Hdr(s) /\ Io(t) = Io(s) /\ Lonely(t)
  BY DEF SameLists, Free, Hdr, Io, Struct, Lonely
<1>2. Moves(t, s, b) BY <1>1 DEF Moves, OnlyFlags, Kept, SameCounts
<1>3. H \in SUBSET Buf /\ Apart(s, p, H) BY DEF Struct, Apart
<1>4. Placed(t, H, b) BY <1>1, <1>3 DEF Placed, Apart, Async
<1>5. NoSleeper(s, p, b) \/ ("B_BUSY" \in t.buf[b].flags /\ "B_WANTED" \in t.buf[b].flags)
  BY DEF OnlyFlags
<1> QED BY <1>2, <1>3, <1>4, <1>5, Handed

(* Nobody waits for a buffer without B_WANTED. *)
LEMMA Unwanted ==
    ASSUME NEW s, NEW p, NEW H, NEW b \in Buf, Struct(s, p, H),
           "B_WANTED" \notin s.buf[b].flags \/ "B_BUSY" \notin s.buf[b].flags
    PROVE  NoSleeper(s, p, b)
BY DEF NoSleeper, Struct, ProcOK, SleepOK

(* What is known of a free buffer. *)
LEMMA FreeIs ==
    ASSUME NEW s, NEW p, NEW H, NEW b \in Free(s), Struct(s, p, H)
    PROVE  /\ b \in Buf /\ b \notin Hdr(s) /\ b \notin H /\ b \notin Io(s) /\ NoSleeper(s, p, b)
           /\ "B_BUSY" \notin s.buf[b].flags /\ "B_WANTED" \notin s.buf[b].flags
           /\ "B_ERROR" \notin s.buf[b].flags /\ "B_ASYNC" \notin s.buf[b].flags
<1>1. s \in StateSet BY DEF Struct
<1>2. b \in Buf
  <2>1. s.bfreelist \in Seq(Buf) BY <1>1, StateTyped
  <2> QED BY <2>1 DEF Free, ToSet
<1>3. BufOK(s, H, b) /\ Apart(s, p, H) BY <1>2 DEF Struct
<1>4. b \notin Hdr(s) /\ b \notin H BY <1>2, <1>3 DEF Apart
<1>5. /\ "B_BUSY" \notin s.buf[b].flags /\ "B_WANTED" \notin s.buf[b].flags
      /\ "B_ERROR" \notin s.buf[b].flags /\ b \notin Io(s)
  BY <1>3 DEF BufOK
<1>6. "B_ASYNC" \notin s.buf[b].flags BY <1>3, <1>4, <1>5 DEF BufOK
<1>7. NoSleeper(s, p, b) BY <1>2, <1>5, Unwanted
<1> QED BY <1>2, <1>4, <1>5, <1>6, <1>7

(* A buffer is taken off the free list. *)
LEMMA UnlinkF ==
    ASSUME NEW s \in StateSet, NEW b \in Buf, IsInjective(s.bfreelist)
    PROVE  /\ Unlink(s, b) \in StateSet /\ Unlink(s, b).buf = s.buf
           /\ Free(Unlink(s, b)) = Free(s) \ {b} /\ IsInjective(Unlink(s, b).bfreelist)
           /\ Unlink(s, b).bhdrlist = s.bhdrlist /\ Unlink(s, b).ioq = s.ioq
           /\ SameCounts(Unlink(s, b), s) /\ Unlink(s, b).proc = s.proc
<1>1. PICK l : l = RemoveFirst(s.bfreelist, b) OBVIOUS
<1>2. Unlink(s, b) = [s EXCEPT !.bfreelist = l] BY <1>1 DEF Unlink
<1>3. s.bfreelist \in Seq(Buf) BY StateTyped
<1>4. l \in Seq(Buf) /\ IsInjective(l) /\ ToSet(l) = ToSet(s.bfreelist) \ {b}
  BY <1>1, <1>3, RemoveFirstFacts
<1>5. /\ Unlink(s, b) \in StateSet /\ Unlink(s, b).buf = s.buf /\ Unlink(s, b).bfreelist = l
      /\ Unlink(s, b).bhdrlist = s.bhdrlist /\ Unlink(s, b).ioq = s.ioq
      /\ SameCounts(Unlink(s, b), s) /\ Unlink(s, b).proc = s.proc
  BY <1>2, <1>4 DEF StateSet, SameCounts
<1> QED BY <1>4, <1>5 DEF Free

(* notavail() of a free buffer. *)
LEMMA NotavailStruct ==
    ASSUME NEW s, NEW p, NEW H, NEW b \in Free(s), Struct(s, p, H)
    PROVE  /\ Struct(Notavail(s, b), p, H \cup {b})
           /\ OnlyFlags(Notavail(s, b), s, b, s.buf[b].flags \cup {"B_BUSY"})
           /\ Notavail(s, b).bhdrlist = s.bhdrlist /\ Notavail(s, b).ioq = s.ioq
           /\ Kept(Notavail(s, b), s)
<1> DEFINE u == Unlink(s, b)
           fl == {"B_BUSY"}
           t == Set(u, b, fl)
           G == H \cup {b}
<1>0. t = Notavail(s, b) BY DEF Notavail
<1>1. /\ b \in Buf /\ b \notin Hdr(s) /\ b \notin H /\ b \notin Io(s) /\ NoSleeper(s, p, b)
      /\ "B_BUSY" \notin s.buf[b].flags /\ "B_WANTED" \notin s.buf[b].flags
      /\ "B_ERROR" \notin s.buf[b].flags /\ "B_ASYNC" \notin s.buf[b].flags
  BY FreeIs
<1>2. s \in StateSet /\ Lonely(s) /\ BufOK(s, H, b) /\ H \subseteq Buf BY <1>1 DEF Struct, Apart
<1>3. /\ u \in StateSet /\ u.buf = s.buf /\ Free(u) = Free(s) \ {b} /\ IsInjective(u.bfreelist)
      /\ u.bhdrlist = s.bhdrlist /\ u.ioq = s.ioq /\ SameCounts(u, s) /\ u.proc = s.proc
  BY <1>1, <1>2, UnlinkF DEF Lonely
<1> HIDE DEF u
<1>4. fl \in SUBSET BFlag BY DEF BFlag
<1> HIDE DEF fl
<1>5. /\ t \in StateSet /\ OnlyFlags(t, u, b, u.buf[b].flags \cup fl)
      /\ SameLists(t, u) /\ SameCounts(t, u) /\ t.proc = u.proc
  BY <1>1, <1>3, <1>4, SetF
<1> HIDE DEF t
<1>6. OnlyFlags(t, s, b, s.buf[b].flags \cup {"B_BUSY"}) BY <1>3, <1>5 DEF OnlyFlags, fl
<1>7. t.bhdrlist = s.bhdrlist /\ t.ioq = s.ioq /\ Kept(t, s) /\ Free(t) = Free(s) \ {b}
      /\ IsInjective(t.bfreelist)
  BY <1>3, <1>5 DEF SameLists, SameCounts, Kept, Free
<1>8. Hdr(t) = Hdr(s) /\ Io(t) = Io(s) BY <1>7 DEF Hdr, Io
<1>9. Lonely(t) BY <1>2, <1>7 DEF Lonely
<1>10. Moves(t, s, b) BY <1>6, <1>7, <1>8, <1>9 DEF Moves, OnlyFlags, Kept, SameCounts
<1>11. t.buf[b].flags = s.buf[b].flags \cup {"B_BUSY"} /\ t.buf[b].blk = s.buf[b].blk
  BY <1>6 DEF OnlyFlags
<1>12. G \in SUBSET Buf /\ b \in G /\ \A c \in Buf \ {b} : c \in G <=> c \in H BY <1>1, <1>2
<1> HIDE DEF G
<1>13. BufOK(t, G, b) BY <1>1, <1>2, <1>7, <1>8, <1>11 DEF BufOK
<1>14. Placed(t, G, b) BY <1>1, <1>7, <1>8, <1>12 DEF Placed, Async
<1>15. Struct(t, p, G) BY <1>1, <1>5, <1>10, <1>12, <1>13, <1>14, Handed
<1> QED BY <1>0, <1>6, <1>7, <1>15 DEF G

(* B_WANTED is set in a busy buffer, whoever has it. *)
LEMMA MarkStruct ==
    ASSUME NEW s, NEW p, NEW H, NEW b \in Buf, Struct(s, p, H),
           "B_BUSY" \in s.buf[b].flags, s.buf[b].blk # NULL
    PROVE  /\ Struct(Set(s, b, {"B_WANTED"}), p, H)
           /\ OnlyFlags(Set(s, b, {"B_WANTED"}), s, b, s.buf[b].flags \cup {"B_WANTED"})
           /\ SameLists(Set(s, b, {"B_WANTED"}), s) /\ Kept(Set(s, b, {"B_WANTED"}), s)
<1> DEFINE fl == {"B_WANTED"}
           t == Set(s, b, fl)
<1>0. s \in StateSet BY DEF Struct
<1>1. fl \in SUBSET BFlag BY DEF BFlag
<1> HIDE DEF fl
<1>2. /\ t \in StateSet /\ OnlyFlags(t, s, b, s.buf[b].flags \cup fl)
      /\ SameLists(t, s) /\ SameCounts(t, s) /\ t.proc = s.proc
  BY <1>0, <1>1, SetF
<1> HIDE DEF t
<1>3. t.buf[b].flags = s.buf[b].flags \cup {"B_WANTED"} /\ t.buf[b].blk = s.buf[b].blk
  BY <1>2 DEF OnlyFlags, fl
<1>4. \A c \in Buf : c # b => t.buf[c] = s.buf[c] BY <1>2 DEF OnlyFlags
<1>5. Free(t) = Free(s) /\ Hdr(t) = Hdr(s) /\ Io(t) = Io(s) /\ Lonely(t) /\ t.wanted = s.wanted
  BY <1>2 DEF SameLists, Free, Hdr, Io, Struct, Lonely, SameCounts
<1>6. ASSUME NEW c \in Buf PROVE BufOK(t, H, c)
  <2>1. BufOK(s, H, c) BY DEF Struct
  <2>2. CASE c = b
    <3>1. b \notin Hdr(s) BY <2>1, <2>2 DEF BufOK, NewBuf
    <3> QED BY <1>3, <1>5, <2>1, <2>2, <3>1 DEF BufOK
  <2>3. CASE c # b BY <1>4, <1>5, <2>1, <2>3 DEF BufOK
  <2> QED BY <2>2, <2>3
<1>7. ASSUME NEW q \in Proc \ {p} PROVE ProcOK(t, t.proc[q])
  <2>1. ProcOK(s, s.proc[q]) /\ t.proc[q] = s.proc[q] BY <1>2 DEF Struct
  <2>2. PICK r : r = s.proc[q] OBVIOUS
  <2>3. r.bp \in Buf \cup {NULL} /\ r.savebp \in Buf \cup {NULL} BY <1>0, <2>2, ProcTyped
  <2>4. Shape(r) /\ HoldsOK(s, r) /\ KeepsOK(s, r) /\ SleepOK(s, r) BY <2>1, <2>2 DEF ProcOK
  <2>5. HoldsOK(t, r) BY <1>3, <1>4, <1>5, <2>3, <2>4 DEF HoldsOK
  <2>6. r.savebp # NULL => r.savebp # b BY <2>4 DEF KeepsOK
  <2>7. KeepsOK(t, r) BY <1>4, <1>5, <2>3, <2>4, <2>6 DEF KeepsOK
  <2>8. SleepOK(t, r) BY <1>3, <1>4, <1>5, <2>4 DEF SleepOK
  <2> QED BY <2>1, <2>2, <2>4, <2>5, <2>7, <2>8 DEF ProcOK
<1>8. \A c \in Buf : Async(t, c) <=> Async(s, c) BY <1>3, <1>4, <1>5 DEF Async
<1>9. Apart(t, p, H)
  <2>1. Apart(s, p, H) BY DEF Struct
  <2> QED BY <1>2, <1>5, <1>8, <2>1 DEF Apart
<1>10. Somewhere(t, p, H)
  <2>1. Somewhere(s, p, H) BY DEF Struct
  <2> QED BY <1>2, <1>5, <1>8, <2>1 DEF Somewhere
<1>11. p \in Proc => t.proc[p].pc # "asleep" BY <1>2 DEF Struct
<1>12. Struct(t, p, H) BY <1>2, <1>5, <1>6, <1>7, <1>9, <1>10, <1>11 DEF Struct
<1> QED BY <1>2, <1>12 DEF t, fl, Kept

(* The driver takes the request. *)
LEMMA StrategyF ==
    ASSUME NEW s \in StateSet, NEW b \in Buf, b \notin Io(s), IsInjective(s.ioq)
    PROVE  /\ Strategy(s, b) \in StateSet /\ Strategy(s, b).buf = s.buf
           /\ Strategy(s, b).ioq = Append(s.ioq, b)
           /\ Io(Strategy(s, b)) = Io(s) \cup {b} /\ IsInjective(Strategy(s, b).ioq)
           /\ Strategy(s, b).bhdrlist = s.bhdrlist /\ Strategy(s, b).bfreelist = s.bfreelist
           /\ Kept(Strategy(s, b), s)
<1>1. PICK l : l = Append(s.ioq, b) OBVIOUS
<1>2. Strategy(s, b) = [s EXCEPT !.ioq = l] BY <1>1 DEF Strategy
<1>3. s.ioq \in Seq(Buf) BY StateTyped
<1>4. l \in Seq(Buf) /\ IsInjective(l) /\ ToSet(l) = ToSet(s.ioq) \cup {b}
  BY <1>1, <1>3, AppendFacts DEF Io
<1>5. /\ Strategy(s, b) \in StateSet /\ Strategy(s, b).buf = s.buf /\ Strategy(s, b).ioq = l
      /\ Strategy(s, b).bhdrlist = s.bhdrlist /\ Strategy(s, b).bfreelist = s.bfreelist
      /\ SameCounts(Strategy(s, b), s) /\ Strategy(s, b).proc = s.proc
  BY <1>2, <1>4 DEF StateSet, SameCounts
<1> QED BY <1>1, <1>4, <1>5 DEF Io, Kept

(* From s to t the header b, with the flags fl, joins the requests. *)
Starts(t, s, b, fl) ==
    /\ t \in StateSet /\ OnlyFlags(t, s, b, fl) /\ t.ioq = Append(s.ioq, b)
    /\ t.bhdrlist = s.bhdrlist /\ t.bfreelist = s.bfreelist /\ Kept(t, s)

(* What the lists are then. *)
LEMMA StartsF ==
    ASSUME NEW s \in StateSet, NEW t, NEW b \in Buf, NEW fl, b \notin Io(s), Lonely(s), Starts(t, s, b, fl)
    PROVE  Io(t) = Io(s) \cup {b} /\ Lonely(t) /\ Free(t) = Free(s) /\ Hdr(t) = Hdr(s)
<1>1. s.ioq \in Seq(Buf) /\ IsInjective(s.ioq) BY StateTyped DEF Lonely
<1>2. IsInjective(Append(s.ioq, b)) /\ ToSet(Append(s.ioq, b)) = ToSet(s.ioq) \cup {b}
  BY <1>1, AppendFacts DEF Io
<1>3. IsInjective(t.ioq) /\ ToSet(t.ioq) = ToSet(s.ioq) \cup {b} BY <1>2 DEF Starts
<1> QED BY <1>3 DEF Io, Lonely, Starts, Free, Hdr

(* A header in hand that joins the requests leaves the hand if it is       *)
(* asynchronous.                                                           *)
LEMMA StartsStruct ==
    ASSUME NEW s, NEW t, NEW p, NEW H, NEW G \in SUBSET Buf, NEW b \in H, NEW fl, Struct(s, p, H),
           b \notin Io(s), s.buf[b].blk # NULL, Starts(t, s, b, fl),
           "B_BUSY" \in fl, "B_DONE" \notin fl, "B_DELWRI" \notin fl, "B_ERROR" \notin fl,
           "B_WANTED" \in s.buf[b].flags => "B_WANTED" \in fl,
           b \in G <=> "B_ASYNC" \notin fl, \A c \in Buf \ {b} : c \in G <=> c \in H
    PROVE  Struct(t, p, G)
<1>0. b \in Buf /\ s \in StateSet /\ Lonely(s) /\ b \notin Free(s) /\ b \notin Hdr(s) BY DEF Struct, Apart
<1>1. Io(t) = Io(s) \cup {b} /\ Lonely(t) /\ Free(t) = Free(s) /\ Hdr(t) = Hdr(s) BY <1>0, StartsF
<1>2. t.buf[b].flags = fl /\ t.buf[b].blk = s.buf[b].blk /\ t \in StateSet BY DEF Starts, OnlyFlags
<1>3. Moves(t, s, b) BY <1>0, <1>1 DEF Moves, Starts, OnlyFlags, Kept, SameCounts
<1>4. NoSleeper(s, p, b) \/ ("B_BUSY" \in t.buf[b].flags /\ "B_WANTED" \in t.buf[b].flags)
  BY <1>0, <1>2, Unwanted
<1>5. BufOK(t, G, b) BY <1>0, <1>1, <1>2 DEF BufOK
<1>6. Placed(t, G, b) BY <1>0, <1>1, <1>2 DEF Placed, Async
<1> QED BY <1>0, <1>2, <1>3, <1>4, <1>5, <1>6, Handed

(* The read that bread() and breada() start is such a step. *)
LEMMA StartReadF ==
    ASSUME NEW s \in StateSet, NEW b \in Buf, NEW fl \in SUBSET BFlag, b \notin Io(s), Lonely(s)
    PROVE  Starts(StartRead(s, b, fl), s, b, s.buf[b].flags \cup ({"B_READ"} \cup fl))
<1> DEFINE g == {"B_READ"} \cup fl
           u == Set(s, b, g)
           t == Strategy(u, b)
<1>1. g \in SUBSET BFlag BY DEF BFlag
<1>2. StartRead(s, b, fl) = t BY DEF StartRead
<1> HIDE DEF g
<1>3. /\ u \in StateSet /\ OnlyFlags(u, s, b, s.buf[b].flags \cup g)
      /\ SameLists(u, s) /\ SameCounts(u, s) /\ u.proc = s.proc
  BY <1>1, SetF
<1> HIDE DEF u
<1>4. b \notin Io(u) /\ IsInjective(u.ioq) BY <1>3 DEF SameLists, Io, Lonely
<1>5. /\ t \in StateSet /\ t.buf = u.buf /\ t.ioq = Append(u.ioq, b)
      /\ t.bhdrlist = u.bhdrlist /\ t.bfreelist = u.bfreelist /\ Kept(t, u)
  BY <1>3, <1>4, StrategyF
<1> HIDE DEF t
<1>6. OnlyFlags(t, s, b, s.buf[b].flags \cup g) BY <1>3, <1>5 DEF OnlyFlags
<1>7. Starts(t, s, b, s.buf[b].flags \cup g)
  BY <1>3, <1>5, <1>6 DEF Starts, SameLists, Kept, SameCounts
<1> QED BY <1>2, <1>7 DEF g

(* So is the write of bwrite(). *)
LEMMA StartWriteF ==
    ASSUME NEW s \in StateSet, NEW b \in Buf, b \notin Io(s), Lonely(s)
    PROVE  Starts(StartWrite(s, b), s, b, s.buf[b].flags \ {"B_READ", "B_DONE", "B_ERROR", "B_DELWRI"})
<1> DEFINE g == {"B_READ", "B_DONE", "B_ERROR", "B_DELWRI"}
           u == Clear(s, b, g)
           t == Strategy(u, b)
<1>2. StartWrite(s, b) = t BY DEF StartWrite
<1> HIDE DEF g
<1>3. /\ u \in StateSet /\ OnlyFlags(u, s, b, s.buf[b].flags \ g)
      /\ SameLists(u, s) /\ SameCounts(u, s) /\ u.proc = s.proc
  BY ClearF
<1> HIDE DEF u
<1>4. b \notin Io(u) /\ IsInjective(u.ioq) BY <1>3 DEF SameLists, Io, Lonely
<1>5. /\ t \in StateSet /\ t.buf = u.buf /\ t.ioq = Append(u.ioq, b)
      /\ t.bhdrlist = u.bhdrlist /\ t.bfreelist = u.bfreelist /\ Kept(t, u)
  BY <1>3, <1>4, StrategyF
<1> HIDE DEF t
<1>6. OnlyFlags(t, s, b, s.buf[b].flags \ g) BY <1>3, <1>5 DEF OnlyFlags
<1>7. Starts(t, s, b, s.buf[b].flags \ g)
  BY <1>3, <1>5, <1>6 DEF Starts, SameLists, Kept, SameCounts
<1> QED BY <1>2, <1>7 DEF g

(* The same with B_ASYNC set before, as bawrite() and the flushing do. *)
LEMMA StartBehindF ==
    ASSUME NEW s \in StateSet, NEW b \in Buf, b \notin Io(s), Lonely(s)
    PROVE  Starts(StartWrite(Set(s, b, {"B_ASYNC"}), b), s, b,
                  (s.buf[b].flags \cup {"B_ASYNC"}) \ {"B_READ", "B_DONE", "B_ERROR", "B_DELWRI"})
<1> DEFINE g == {"B_ASYNC"}
           u == Set(s, b, g)
           t == StartWrite(u, b)
           h == {"B_READ", "B_DONE", "B_ERROR", "B_DELWRI"}
<1>1. g \in SUBSET BFlag BY DEF BFlag
<1> HIDE DEF g
<1>2. /\ u \in StateSet /\ OnlyFlags(u, s, b, s.buf[b].flags \cup g)
      /\ SameLists(u, s) /\ SameCounts(u, s) /\ u.proc = s.proc
  BY <1>1, SetF
<1> HIDE DEF u
<1>3. b \notin Io(u) /\ Lonely(u) BY <1>2 DEF SameLists, Io, Lonely
<1>4. Starts(t, u, b, u.buf[b].flags \ h) BY <1>2, <1>3, StartWriteF
<1> HIDE DEF t, h
<1>5. OnlyFlags(t, s, b, (s.buf[b].flags \cup g) \ h) BY <1>2, <1>4 DEF OnlyFlags, Starts
<1>6. Starts(t, s, b, (s.buf[b].flags \cup g) \ h)
  BY <1>2, <1>4, <1>5 DEF Starts, SameLists, Kept, SameCounts
<1> QED BY <1>6 DEF t, u, g, h

(* A header is given other contents where it is. *)
Replace(s, b, r) == [s EXCEPT !.buf[b] = r]

(* Everything else stays. *)
LEMMA ReplaceF ==
    ASSUME NEW s \in StateSet, NEW b \in Buf, NEW r \in BufSet
    PROVE  /\ Replace(s, b, r) \in StateSet /\ Replace(s, b, r).buf[b] = r
           /\ \A c \in Buf \ {b} : Replace(s, b, r).buf[c] = s.buf[c]
           /\ SameLists(Replace(s, b, r), s) /\ Kept(Replace(s, b, r), s)
<1> DEFINE a == [s.buf EXCEPT ![b] = r]
           t == Replace(s, b, r)
<1>2. a \in [Buf -> BufSet] /\ a[b] = r /\ \A c \in Buf \ {b} : a[c] = s.buf[c]
  BY StateTyped
<1>3. t = [s EXCEPT !.buf = a] BY DEF Replace
<1> HIDE DEF a
<1>4. t \in StateSet /\ t.buf = a /\ SameLists(t, s) /\ SameCounts(t, s) /\ t.proc = s.proc
  BY <1>2, <1>3 DEF StateSet, SameLists, SameCounts
<1> HIDE DEF t
<1> QED BY <1>2, <1>4 DEF Kept, t

(* A header in hand that nobody wants may get any identity. *)
LEMMA ReplaceStruct ==
    ASSUME NEW s, NEW p, NEW H, NEW b \in H, NEW r \in BufSet, Struct(s, p, H), b \notin Io(s),
           "B_WANTED" \notin s.buf[b].flags,
           "B_DELWRI" \notin r.flags
    PROVE  Struct(Replace(s, b, r), p, H)
<1> DEFINE t == Replace(s, b, r)
<1>0. b \in Buf /\ H \in SUBSET Buf /\ s \in StateSet /\ Lonely(s) /\ b \notin Free(s) /\ b \notin Hdr(s)
  BY DEF Struct, Apart
<1>1. /\ t \in StateSet /\ t.buf[b] = r /\ (\A c \in Buf \ {b} : t.buf[c] = s.buf[c])
      /\ SameLists(t, s) /\ Kept(t, s)
  BY <1>0, ReplaceF
<1> HIDE DEF t
<1>2. Free(t) = Free(s) /\ Hdr(t) = Hdr(s) /\ Io(t) = Io(s) /\ Lonely(t)
  BY <1>0, <1>1 DEF SameLists, Free, Hdr, Io, Lonely
<1>3. Moves(t, s, b) BY <1>1, <1>2 DEF Moves, Kept, SameCounts
<1>4. BufOK(t, H, b) BY <1>0, <1>1, <1>2 DEF BufOK
<1>5. Placed(t, H, b) BY <1>0, <1>2 DEF Placed, Async
<1>6. NoSleeper(s, p, b) BY <1>0, Unwanted
<1>7. Struct(t, p, H) BY <1>0, <1>1, <1>3, <1>4, <1>5, <1>6, Handed
<1> QED BY <1>7 DEF t

(* Only counters change, or a list is wanted. *)
LEMMA CountersStruct ==
    ASSUME NEW s, NEW t, NEW p, NEW H, Struct(s, p, H), t \in StateSet, t.buf = s.buf, SameLists(t, s),
           t.proc = s.proc, s.wanted \subseteq t.wanted
    PROVE  Struct(t, p, H)
<1>1. Wakes(t, s) BY DEF Wakes
<1>2. ASSUME NEW q \in Proc \ {p}, t.proc[q].pc = "asleep", t.proc[q].chan \in {"bfreelist", "bhdrlist"}
      PROVE  t.proc[q].chan \in t.wanted
  BY <1>2 DEF Struct, ProcOK, SleepOK
<1> QED BY <1>1, <1>2, WakesStruct

(* A header without memory has no block and no flag. *)
LEMMA NewBufSet == NewBuf \in BufSet /\ NewBuf.flags = {} /\ NewBuf.blk = NULL /\ NewBuf.size = 0 /\ NewBuf.cur = FALSE
<1>1. BUFHWM \in Int /\ 0 <= BUFHWM BY ConstantsAssumption
<1> QED BY <1>1 DEF NewBuf, BufSet

(* The first header without memory is taken. *)
TakeHdr(s) == [s EXCEPT !.bhdrlist = Tail(@)]

(* It is in hand then, and empty. *)
LEMMA TakeHdrStruct ==
    ASSUME NEW s, NEW p, NEW H, Struct(s, p, H), s.bhdrlist # << >>
    PROVE  /\ Head(s.bhdrlist) \in Buf /\ Head(s.bhdrlist) \notin Io(s) /\ s.buf[Head(s.bhdrlist)] = NewBuf
           /\ Head(s.bhdrlist) \notin H
           /\ Struct(TakeHdr(s), p, H \cup {Head(s.bhdrlist)})
           /\ TakeHdr(s).buf = s.buf /\ TakeHdr(s).bfreelist = s.bfreelist /\ TakeHdr(s).ioq = s.ioq
           /\ Kept(TakeHdr(s), s)
<1> DEFINE b == Head(s.bhdrlist)
           l == Tail(s.bhdrlist)
           t == TakeHdr(s)
           G == H \cup {b}
<1>0. s \in StateSet /\ Lonely(s) /\ H \subseteq Buf BY DEF Struct, Apart
<1>1. s.bhdrlist \in Seq(Buf) /\ IsInjective(s.bhdrlist) BY <1>0, StateTyped DEF Lonely
<1>2. /\ l \in Seq(Buf) /\ IsInjective(l) /\ b \in ToSet(s.bhdrlist)
      /\ b \in Buf /\ ToSet(l) = ToSet(s.bhdrlist) \ {b}
  BY <1>1, TailFacts
<1>3. t = [s EXCEPT !.bhdrlist = l] BY DEF TakeHdr
<1> HIDE DEF l, b
<1>4. /\ t \in StateSet /\ t.buf = s.buf /\ t.bfreelist = s.bfreelist /\ t.ioq = s.ioq /\ t.bhdrlist = l
      /\ SameCounts(t, s) /\ t.proc = s.proc
  BY <1>0, <1>2, <1>3 DEF StateSet, SameCounts
<1> HIDE DEF t
<1>5. b \in Hdr(s) /\ Hdr(t) = Hdr(s) \ {b} /\ Free(t) = Free(s) /\ Io(t) = Io(s)
  BY <1>2, <1>4 DEF Hdr, Free, Io
<1>6. Lonely(t) BY <1>0, <1>2, <1>4 DEF Lonely
<1>7. Moves(t, s, b) BY <1>4, <1>5, <1>6 DEF Moves, SameCounts
<1>8. BufOK(s, H, b) /\ b \notin Free(s) /\ b \notin H BY <1>2, <1>5 DEF Struct, Apart
<1>9. s.buf[b] = NewBuf /\ s.buf[b].flags = {} BY <1>5, <1>8, NewBufSet DEF BufOK
<1>10. b \notin Io(s) BY <1>8, <1>9 DEF BufOK
<1>11. NoSleeper(s, p, b) BY <1>2, <1>9, Unwanted
<1>12. G \in SUBSET Buf /\ b \in G /\ \A c \in Buf \ {b} : c \in G <=> c \in H BY <1>0, <1>2
<1> HIDE DEF G
<1>13. BufOK(t, G, b) BY <1>4, <1>5, <1>8, <1>9, <1>10 DEF BufOK
<1>14. Placed(t, G, b) BY <1>5, <1>8, <1>10, <1>12 DEF Placed, Async
<1>15. Struct(t, p, G) BY <1>2, <1>4, <1>5, <1>7, <1>11, <1>12, <1>13, <1>14, Handed
<1> QED BY <1>2, <1>4, <1>8, <1>9, <1>10, <1>15 DEF Kept, t, G, b

(* The header b loses its memory and joins bhdrlist. *)
Emptied(s, b) ==
    [s EXCEPT !.bufsize = @ + s.buf[b].size, !.buf[b] = NewBuf, !.bhdrlist = <<b>> \o @]

(* It leaves the hand, and its memory is given back. *)
LEMMA EmptiedStruct ==
    ASSUME NEW s, NEW p, NEW H, NEW b \in H, Struct(s, p, H), b \notin Io(s),
           "B_WANTED" \notin s.buf[b].flags
    PROVE  /\ Struct(Emptied(s, b), p, H \ {b})
           /\ Emptied(s, b).buf[b] = NewBuf /\ \A c \in Buf \ {b} : Emptied(s, b).buf[c] = s.buf[c]
           /\ Emptied(s, b).bfreelist = s.bfreelist /\ Emptied(s, b).ioq = s.ioq
           /\ Emptied(s, b).bufsize = s.bufsize + s.buf[b].size
           /\ Emptied(s, b).basyncnt = s.basyncnt /\ Emptied(s, b).basynwait = s.basynwait
           /\ Emptied(s, b).wanted = s.wanted /\ Emptied(s, b).proc = s.proc
<1> DEFINE a == [s.buf EXCEPT ![b] = NewBuf]
           l == <<b>> \o s.bhdrlist
           n == s.bufsize + s.buf[b].size
           t == Emptied(s, b)
           G == H \ {b}
<1>0. s \in StateSet /\ Lonely(s) /\ H \subseteq Buf /\ b \in Buf /\ b \notin Free(s) /\ b \notin Hdr(s)
  BY DEF Struct, Apart
<1>1. a \in [Buf -> BufSet] /\ a[b] = NewBuf /\ \A c \in Buf \ {b} : a[c] = s.buf[c]
  BY <1>0, StateTyped, NewBufSet
<1>2. l \in Seq(Buf) /\ IsInjective(l) /\ ToSet(l) = ToSet(s.bhdrlist) \cup {b}
  <2>1. s.bhdrlist \in Seq(Buf) /\ IsInjective(s.bhdrlist) /\ b \notin ToSet(s.bhdrlist)
    BY <1>0, StateTyped DEF Lonely, Hdr
  <2> QED BY <1>0, <2>1, PrependFacts
<1>3. n \in Int
  <2>1. s.bufsize \in Int /\ s.buf[b].size \in 0 .. BUFHWM /\ BUFHWM \in Int
    BY <1>0, StateTyped, BufTyped, ConstantsAssumption
  <2> QED BY <2>1
<1>4. t = [s EXCEPT !.bufsize = n, !.buf = a, !.bhdrlist = l] BY DEF Emptied
<1> HIDE DEF a, l, n
<1>5. /\ t \in StateSet /\ t.buf = a /\ t.bfreelist = s.bfreelist /\ t.ioq = s.ioq /\ t.bhdrlist = l
      /\ t.bufsize = n /\ t.basyncnt = s.basyncnt /\ t.basynwait = s.basynwait /\ t.wanted = s.wanted
      /\ t.proc = s.proc
  BY <1>0, <1>1, <1>2, <1>3, <1>4 DEF StateSet
<1> HIDE DEF t
<1>6. Hdr(t) = Hdr(s) \cup {b} /\ Free(t) = Free(s) /\ Io(t) = Io(s)
  BY <1>2, <1>5 DEF Hdr, Free, Io
<1>7. Lonely(t) BY <1>0, <1>2, <1>5 DEF Lonely
<1>8. Moves(t, s, b) BY <1>1, <1>5, <1>6, <1>7 DEF Moves
<1>9. NoSleeper(s, p, b) BY <1>0, Unwanted
<1>10. G \in SUBSET Buf /\ b \notin G /\ \A c \in Buf \ {b} : c \in G <=> c \in H BY <1>0
<1> HIDE DEF G
<1>11. t.buf[b] = NewBuf /\ t.buf[b].flags = {} BY <1>1, <1>5, NewBufSet
<1>12. BufOK(t, G, b) BY <1>0, <1>6, <1>11 DEF BufOK
<1>13. Placed(t, G, b) BY <1>0, <1>6, <1>10 DEF Placed
<1>14. Struct(t, p, G) BY <1>0, <1>5, <1>8, <1>9, <1>10, <1>12, <1>13, Handed
<1> QED BY <1>1, <1>5, <1>14 DEF t, G, n

Freed(t, s, b) ==
    /\ t.buf[b] = NewBuf /\ Elsewhere(t, s, b)
    /\ t.bfreelist = s.bfreelist /\ t.ioq = s.ioq /\ t.bufsize = s.bufsize + s.buf[b].size
    /\ t.basyncnt = s.basyncnt /\ t.basynwait = s.basynwait /\ Wakes(t, s)

(* The same with the wakeup that follows. *)
LEMMA FreeHeaderStruct ==
    ASSUME NEW s, NEW p, NEW H, NEW b \in H, Struct(s, p, H), b \notin Io(s),
           "B_WANTED" \notin s.buf[b].flags
    PROVE  Struct(FreeHeader(s, b), p, H \ {b}) /\ Freed(FreeHeader(s, b), s, b)
<1> DEFINE u == Emptied(s, b)
           t == WakeList(u, "bhdrlist")
           G == H \ {b}
<1>0. t = FreeHeader(s, b) BY DEF FreeHeader, Emptied
<1>1. /\ Struct(u, p, G) /\ u.buf[b] = NewBuf /\ (\A c \in Buf \ {b} : u.buf[c] = s.buf[c])
      /\ u.bfreelist = s.bfreelist /\ u.ioq = s.ioq /\ u.bufsize = s.bufsize + s.buf[b].size
      /\ u.basyncnt = s.basyncnt /\ u.basynwait = s.basynwait /\ u.proc = s.proc
  BY EmptiedStruct
<1> HIDE DEF u, G
<1>2. /\ Struct(t, p, G) /\ Rest(t, u) /\ Wakes(t, u) /\ (p \in Proc => t.proc[p] = u.proc[p])
  BY <1>1, WakeListStruct
<1> HIDE DEF t
<1>3. Wakes(t, s) BY <1>1, <1>2 DEF Wakes
<1>4. /\ t.buf[b] = NewBuf /\ (\A c \in Buf \ {b} : t.buf[c] = s.buf[c])
      /\ t.bfreelist = s.bfreelist /\ t.ioq = s.ioq /\ t.bufsize = s.bufsize + s.buf[b].size
      /\ t.basyncnt = s.basyncnt /\ t.basynwait = s.basynwait /\ (p \in Proc => t.proc[p] = s.proc[p])
  BY <1>1, <1>2 DEF Rest, SameLists
<1>5. Freed(t, s, b) BY <1>3, <1>4 DEF Elsewhere, Freed, Io
<1> QED BY <1>0, <1>2, <1>5 DEF G

(* The buffers of some blocks change where they are: who has the current   *)
(* contents, or, if nobody holds them, whether they are stale.             *)
Tints(t, s, b) ==
    /\ t.buf[b].blk = s.buf[b].blk /\ t.buf[b].size = s.buf[b].size
    /\ s.buf[b].blk = NULL => t.buf[b] = s.buf[b]
    /\ \A f \in {"B_BUSY", "B_WANTED", "B_ASYNC", "B_DONE", "B_DELWRI", "B_ERROR", "B_READ"} :
          f \in t.buf[b].flags <=> f \in s.buf[b].flags

(* Such a change does not disturb the structure. *)
LEMMA TintsStruct ==
    ASSUME NEW s, NEW t, NEW p, NEW H, Struct(s, p, H), t \in StateSet, SameLists(t, s), Kept(t, s),
           \A b \in Buf : Tints(t, s, b),
           \A b \in Buf : ("B_STALE" \in t.buf[b].flags <=> "B_STALE" \in s.buf[b].flags)
                          \/ ("B_DELWRI" \notin s.buf[b].flags /\ NotHeld(s, p, b))
    PROVE  Struct(t, p, H)
<1>1. Free(t) = Free(s) /\ Hdr(t) = Hdr(s) /\ Io(t) = Io(s) /\ Lonely(t) /\ t.proc = s.proc /\ t.wanted = s.wanted
  BY DEF SameLists, Free, Hdr, Io, Struct, Lonely, Kept, SameCounts
<1>2. \A b \in Buf : /\ "B_BUSY" \in t.buf[b].flags <=> "B_BUSY" \in s.buf[b].flags
                     /\ "B_WANTED" \in t.buf[b].flags <=> "B_WANTED" \in s.buf[b].flags
                     /\ "B_ASYNC" \in t.buf[b].flags <=> "B_ASYNC" \in s.buf[b].flags
                     /\ "B_DONE" \in t.buf[b].flags <=> "B_DONE" \in s.buf[b].flags
                     /\ "B_DELWRI" \in t.buf[b].flags <=> "B_DELWRI" \in s.buf[b].flags
                     /\ "B_ERROR" \in t.buf[b].flags <=> "B_ERROR" \in s.buf[b].flags
                     /\ t.buf[b].blk = s.buf[b].blk /\ t.buf[b].size = s.buf[b].size
                     /\ s.buf[b].blk = NULL => t.buf[b] = s.buf[b]
  BY DEF Tints
<1>3. ASSUME NEW b \in Buf PROVE BufOK(t, H, b)
  <2>1. BufOK(s, H, b) BY DEF Struct
  <2>2. b \in Hdr(s) => s.buf[b].blk = NULL BY <2>1, NewBufSet DEF BufOK
  <2> QED BY <1>1, <1>2, <2>1, <2>2 DEF BufOK
<1>4. ASSUME NEW q \in Proc \ {p} PROVE ProcOK(t, t.proc[q])
  <2>1. ProcOK(s, s.proc[q]) /\ t.proc[q] = s.proc[q] /\ s \in StateSet BY <1>1 DEF Struct
  <2>2. PICK r : r = s.proc[q] OBVIOUS
  <2>3. r.bp \in Buf \cup {NULL} /\ r.savebp \in Buf \cup {NULL} BY <2>1, <2>2, ProcTyped
  <2>4. Shape(r) /\ HoldsOK(s, r) /\ KeepsOK(s, r) /\ SleepOK(s, r) BY <2>1, <2>2 DEF ProcOK
  <2>5. r.bp # NULL => ~NotHeld(s, p, r.bp) BY <2>2 DEF NotHeld, Hold
  <2>6. HoldsOK(t, r)
    <3>1. r.bp # NULL => "B_STALE" \notin s.buf[r.bp].flags BY <2>4 DEF HoldsOK
    <3>2. r.bp # NULL => "B_STALE" \notin t.buf[r.bp].flags BY <2>3, <2>5, <3>1
    <3> QED BY <1>1, <1>2, <2>3, <2>4, <3>2 DEF HoldsOK
  <2>7. KeepsOK(t, r) BY <1>1, <1>2, <2>3, <2>4 DEF KeepsOK
  <2>8. SleepOK(t, r) BY <1>1, <1>2, <2>4 DEF SleepOK
  <2> QED BY <2>1, <2>2, <2>4, <2>6, <2>7, <2>8 DEF ProcOK
<1>5. \A b \in Buf : Async(t, b) <=> Async(s, b) BY <1>1, <1>2 DEF Async
<1>6. Apart(t, p, H)
  <2>1. Apart(s, p, H) BY DEF Struct
  <2> QED BY <1>1, <1>5, <2>1 DEF Apart
<1>7. Somewhere(t, p, H)
  <2>1. Somewhere(s, p, H) BY DEF Struct
  <2> QED BY <1>1, <1>5, <2>1 DEF Somewhere
<1>8. p \in Proc => t.proc[p].pc # "asleep" BY <1>1 DEF Struct
<1> QED BY <1>1, <1>3, <1>4, <1>6, <1>7, <1>8 DEF Struct

(* The holder of b changes the contents of its block. *)
LEMMA ModifyF ==
    ASSUME NEW s \in StateSet, NEW b \in Buf
    PROVE  /\ Modify(s, b) \in StateSet /\ SameLists(Modify(s, b), s) /\ Kept(Modify(s, b), s)
           /\ \A c \in Buf : /\ Modify(s, b).buf[c].flags = s.buf[c].flags
                             /\ Modify(s, b).buf[c].blk = s.buf[c].blk
                             /\ Modify(s, b).buf[c].size = s.buf[c].size
                             /\ Modify(s, b).buf[c].cur =
                                   IF s.buf[c].blk = s.buf[b].blk /\ s.buf[b].blk # NULL
                                   THEN (c = b) ELSE s.buf[c].cur
                             /\ s.buf[c].blk = NULL => Modify(s, b).buf[c] = s.buf[c]
<1> DEFINE new(c) == IF s.buf[c].blk = s.buf[b].blk /\ s.buf[b].blk # NULL
                     THEN [s.buf[c] EXCEPT !.cur = (c = b)] ELSE s.buf[c]
           a == [c \in Buf |-> new(c)]
           t == Modify(s, b)
<1>1. ASSUME NEW c \in Buf
      PROVE  /\ new(c) \in BufSet /\ new(c).flags = s.buf[c].flags /\ new(c).blk = s.buf[c].blk
             /\ new(c).size = s.buf[c].size
             /\ new(c).cur = (IF s.buf[c].blk = s.buf[b].blk /\ s.buf[b].blk # NULL
                              THEN (c = b) ELSE s.buf[c].cur)
             /\ s.buf[c].blk = NULL => new(c) = s.buf[c]
  <2>1. s.buf[c] \in BufSet BY BufTyped
  <2>2. CASE s.buf[c].blk = s.buf[b].blk /\ s.buf[b].blk # NULL
    BY <2>1, <2>2 DEF BufSet
  <2>3. CASE ~(s.buf[c].blk = s.buf[b].blk /\ s.buf[b].blk # NULL)
    BY <2>1, <2>3
  <2> QED BY <2>2, <2>3
<1>2. a \in [Buf -> BufSet] /\ \A c \in Buf : a[c] = new(c) BY <1>1
<1>3. t = [s EXCEPT !.buf = a] BY DEF Modify
<1> HIDE DEF a, new
<1>4. t \in StateSet /\ t.buf = a /\ SameLists(t, s) /\ SameCounts(t, s) /\ t.proc = s.proc
  BY <1>2, <1>3 DEF StateSet, SameLists, SameCounts
<1> HIDE DEF t
<1>5. \A c \in Buf : t.buf[c] = new(c) BY <1>2, <1>4
<1> QED BY <1>1, <1>4, <1>5 DEF Kept, t

(* The structure does not see it. *)
LEMMA ModifyStruct ==
    ASSUME NEW s, NEW p, NEW H, NEW b \in Buf, Struct(s, p, H)
    PROVE  Struct(Modify(s, b), p, H)
<1> DEFINE t == Modify(s, b)
<1>0. s \in StateSet BY DEF Struct
<1>1. t \in StateSet /\ SameLists(t, s) /\ Kept(t, s) BY <1>0, ModifyF
<1>2. ASSUME NEW c \in Buf
      PROVE  /\ t.buf[c].flags = s.buf[c].flags /\ t.buf[c].blk = s.buf[c].blk
             /\ t.buf[c].size = s.buf[c].size /\ (s.buf[c].blk = NULL => t.buf[c] = s.buf[c])
  BY <1>0, ModifyF
<1> HIDE DEF t
<1>3. \A c \in Buf : Tints(t, s, c) BY <1>2 DEF Tints
<1>4. \A c \in Buf : "B_STALE" \in t.buf[c].flags <=> "B_STALE" \in s.buf[c].flags BY <1>2
<1>5. Struct(t, p, H) BY <1>1, <1>3, <1>4, TintsStruct
<1> QED BY <1>5 DEF t

(* binval() when nobody holds a buffer and no write is delayed. *)
LEMMA BinvalF ==
    ASSUME NEW s \in StateSet
    PROVE  /\ Binval(s) \in StateSet /\ SameLists(Binval(s), s) /\ Kept(Binval(s), s)
           /\ \A c \in Buf : /\ Binval(s).buf[c].flags = (IF s.buf[c].blk = NULL THEN s.buf[c].flags
                                                         ELSE s.buf[c].flags \cup {"B_STALE", "B_AGE"})
                             /\ Binval(s).buf[c].blk = s.buf[c].blk
                             /\ Binval(s).buf[c].size = s.buf[c].size
                             /\ Binval(s).buf[c].cur = s.buf[c].cur
                             /\ s.buf[c].blk = NULL => Binval(s).buf[c] = s.buf[c]
<1> DEFINE new(c) == IF s.buf[c].blk = NULL THEN s.buf[c]
                     ELSE [s.buf[c] EXCEPT !.flags = @ \cup {"B_STALE", "B_AGE"}]
           a == [c \in Buf |-> new(c)]
           t == Binval(s)
<1>1. ASSUME NEW c \in Buf
      PROVE  /\ new(c) \in BufSet /\ new(c).blk = s.buf[c].blk
             /\ new(c).size = s.buf[c].size /\ new(c).cur = s.buf[c].cur
             /\ new(c).flags = (IF s.buf[c].blk = NULL THEN s.buf[c].flags
                                ELSE s.buf[c].flags \cup {"B_STALE", "B_AGE"})
             /\ s.buf[c].blk = NULL => new(c) = s.buf[c]
  <2>1. s.buf[c] \in BufSet BY BufTyped
  <2>2. CASE s.buf[c].blk = NULL BY <2>1, <2>2
  <2>3. CASE s.buf[c].blk # NULL
    <3>1. s.buf[c].flags \cup {"B_STALE", "B_AGE"} \in SUBSET BFlag BY <2>1 DEF BufSet, BFlag
    <3> QED BY <2>1, <2>3, <3>1 DEF BufSet
  <2> QED BY <2>2, <2>3
<1>2. a \in [Buf -> BufSet] /\ \A c \in Buf : a[c] = new(c) BY <1>1
<1>3. t = [s EXCEPT !.buf = a] BY DEF Binval
<1> HIDE DEF a, new
<1>4. t \in StateSet /\ t.buf = a /\ SameLists(t, s) /\ SameCounts(t, s) /\ t.proc = s.proc
  BY <1>2, <1>3 DEF StateSet, SameLists, SameCounts
<1> HIDE DEF t
<1>5. \A c \in Buf : t.buf[c] = new(c) BY <1>2, <1>4
<1> QED BY <1>1, <1>4, <1>5 DEF Kept, t

(* It keeps the structure. *)
LEMMA BinvalStruct ==
    ASSUME NEW s, NEW p, NEW H, Struct(s, p, H), \A b \in Buf : NotHeld(s, p, b),
           \A b \in Buf : "B_DELWRI" \notin s.buf[b].flags
    PROVE  Struct(Binval(s), p, H)
<1> DEFINE t == Binval(s)
<1>0. s \in StateSet BY DEF Struct
<1>1. t \in StateSet /\ SameLists(t, s) /\ Kept(t, s) BY <1>0, BinvalF
<1>2. ASSUME NEW c \in Buf
      PROVE  /\ t.buf[c].flags = (IF s.buf[c].blk = NULL THEN s.buf[c].flags
                                  ELSE s.buf[c].flags \cup {"B_STALE", "B_AGE"})
             /\ t.buf[c].blk = s.buf[c].blk
             /\ t.buf[c].size = s.buf[c].size /\ (s.buf[c].blk = NULL => t.buf[c] = s.buf[c])
  BY <1>0, BinvalF
<1> HIDE DEF t
<1>3. \A c \in Buf : Tints(t, s, c) BY <1>2 DEF Tints
<1>5. Struct(t, p, H) BY <1>1, <1>3, TintsStruct
<1> QED BY <1>5 DEF t

(* From s to t the transfer of b ends. *)
Completes(t, s, b, fl) ==
    /\ t \in StateSet /\ t.ioq = RemoveFirst(s.ioq, b)
    /\ t.buf[b].flags = fl /\ t.buf[b].blk = s.buf[b].blk /\ t.buf[b].size = s.buf[b].size
    /\ \A c \in Buf \ {b} : t.buf[c] = s.buf[c]
    /\ t.bhdrlist = s.bhdrlist /\ t.bfreelist = s.bfreelist /\ Kept(t, s)

DoneFlags(f, error) == f \cup (IF error THEN {"B_DONE", "B_ERROR"} ELSE {"B_DONE"})

(* biodone() ends the transfer so. *)
LEMMA EndedF ==
    ASSUME NEW b \in Buf, NEW error \in BOOLEAN, State \in StateSet, disk \in [Block -> BOOLEAN],
           buf[b].blk \in Block
    PROVE  /\ Completes(Ended(b, error), State, b, DoneFlags(buf[b].flags, error))
           /\ Ended(b, error).buf[b].cur =
                 IF "B_READ" \in buf[b].flags THEN disk[buf[b].blk] /\ ~error ELSE buf[b].cur
<1> DEFINE r == Transferred(b, error)
           fl == DoneFlags(buf[b].flags, error)
           cu == IF "B_READ" \in buf[b].flags THEN disk[buf[b].blk] /\ ~error ELSE buf[b].cur
           a == [buf EXCEPT ![b] = r]
           l == RemoveFirst(ioq, b)
           t == Ended(b, error)
<1>0. buf \in [Buf -> BufSet] /\ ioq \in Seq(Buf) /\ buf[b] \in BufSet
  BY StateTyped DEF State, StateSet
<1>1. fl \in SUBSET BFlag /\ cu \in BOOLEAN
  <2>1. fl \in SUBSET BFlag BY <1>0 DEF BufSet, BFlag, DoneFlags
  <2>2. cu \in BOOLEAN BY <1>0 DEF BufSet
  <2> QED BY <2>1, <2>2
<1>2. r = [buf[b] EXCEPT !.flags = fl, !.cur = cu] BY DEF Transferred, DoneFlags
<1> HIDE DEF r, fl, cu
<1>3. /\ r \in BufSet /\ r.flags = fl /\ r.cur = cu /\ r.blk = buf[b].blk /\ r.size = buf[b].size
  BY <1>0, <1>1, <1>2 DEF BufSet
<1>4. a \in [Buf -> BufSet] /\ a[b] = r /\ \A c \in Buf \ {b} : a[c] = buf[c] BY <1>0, <1>3
<1>5. l \in Seq(Buf) BY <1>0, RemoveFirstFacts
<1>6. t = [State EXCEPT !.ioq = l, !.buf = a]
  <2>1. State.buf = buf /\ State.ioq = ioq BY DEF State
  <2>2. t = [State EXCEPT !.ioq = RemoveFirst(State.ioq, b), !.buf = [State.buf EXCEPT ![b] = r]]
    BY DEF Ended, r
  <2> QED BY <2>1, <2>2
<1> HIDE DEF a, l
<1>7. t \in StateSet /\ t.buf = a /\ t.ioq = l /\ t.bhdrlist = State.bhdrlist /\ t.bfreelist = State.bfreelist
      /\ SameCounts(t, State) /\ t.proc = State.proc
  BY <1>4, <1>5, <1>6 DEF StateSet, SameCounts
<1> HIDE DEF t
<1>8. State.ioq = ioq /\ State.buf = buf BY DEF State
<1>9. Completes(t, State, b, fl) BY <1>3, <1>4, <1>7, <1>8 DEF Completes, Kept, l
<1> QED BY <1>3, <1>4, <1>7, <1>9 DEF t, fl, cu

(* What the lists are then. *)
LEMMA CompletesF ==
    ASSUME NEW s \in StateSet, NEW t, NEW b \in Buf, NEW fl, Lonely(s), Completes(t, s, b, fl)
    PROVE  Io(t) = Io(s) \ {b} /\ Lonely(t) /\ Free(t) = Free(s) /\ Hdr(t) = Hdr(s)
<1>1. s.ioq \in Seq(Buf) /\ IsInjective(s.ioq) BY StateTyped DEF Lonely
<1>2. IsInjective(RemoveFirst(s.ioq, b)) /\ ToSet(RemoveFirst(s.ioq, b)) = ToSet(s.ioq) \ {b}
  BY <1>1, RemoveFirstFacts
<1>3. IsInjective(t.ioq) /\ ToSet(t.ioq) = ToSet(s.ioq) \ {b} BY <1>2 DEF Completes
<1> QED BY <1>3 DEF Io, Lonely, Completes, Free, Hdr

(* An asynchronous transfer leaves the buffer in biodone()'s hands. *)
LEMMA CompletesAsync ==
    ASSUME NEW s, NEW t, NEW b \in Buf, NEW fl, Struct(s, NULL, {}), Async(s, b), Completes(t, s, b, fl),
           fl \ {"B_DONE", "B_ERROR"} = s.buf[b].flags \ {"B_DONE", "B_ERROR"}
    PROVE  Struct(t, NULL, {b})
<1>0. s \in StateSet /\ Lonely(s) /\ b \in Io(s) /\ BufOK(s, {}, b) BY DEF Struct, Async
<1>1. Io(t) = Io(s) \ {b} /\ Lonely(t) /\ Free(t) = Free(s) /\ Hdr(t) = Hdr(s) BY <1>0, CompletesF
<1>2. t.buf[b].flags = fl /\ t.buf[b].blk = s.buf[b].blk /\ t \in StateSet BY DEF Completes
<1>3. Moves(t, s, b) BY <1>0, <1>1 DEF Moves, Completes, Kept, SameCounts
<1>4. /\ "B_BUSY" \in fl /\ ("B_WANTED" \in s.buf[b].flags <=> "B_WANTED" \in fl)
      /\ "B_DELWRI" \notin fl /\ b \notin Free(s) /\ b \notin Hdr(s)
  BY <1>0, NewBufSet DEF BufOK
<1>5. NoSleeper(s, NULL, b) \/ ("B_BUSY" \in t.buf[b].flags /\ "B_WANTED" \in t.buf[b].flags)
  BY <1>0, <1>2, <1>4, Unwanted
<1>6. PICK G : G = {b} OBVIOUS
<1>7. BufOK(t, G, b) BY <1>0, <1>1, <1>2, <1>4, <1>6 DEF BufOK
<1>8. Placed(t, G, b) BY <1>0, <1>1, <1>2, <1>4, <1>6 DEF Placed, Async
<1>9. G \in SUBSET Buf /\ \A c \in Buf \ {b} : c \in G <=> c \in {} BY <1>6
<1>10. Struct(t, NULL, G) BY <1>0, <1>2, <1>3, <1>5, <1>7, <1>8, <1>9, Handed
<1> QED BY <1>6, <1>10

(* A transfer somebody waits for, or will wait for: the buffer stays with  *)
(* him.                                                                    *)
LEMMA CompletesHeld ==
    ASSUME NEW s, NEW t, NEW b \in Buf, NEW fl, Struct(s, NULL, {}), b \in Io(s), ~Async(s, b),
           Completes(t, s, b, fl), "B_DONE" \in fl,
           fl \ {"B_DONE", "B_ERROR"} = s.buf[b].flags \ {"B_DONE", "B_ERROR"}
    PROVE  /\ Struct(Wakeup(Clear(t, b, {"B_WANTED"}), b), NULL, {})
           /\ Completes(Clear(t, b, {"B_WANTED"}), s, b, fl \ {"B_WANTED"})
           /\ Clear(t, b, {"B_WANTED"}).buf[b].cur = t.buf[b].cur
           /\ Wakeup(Clear(t, b, {"B_WANTED"}), b).buf = Clear(t, b, {"B_WANTED"}).buf
           /\ SameLists(Wakeup(Clear(t, b, {"B_WANTED"}), b), Clear(t, b, {"B_WANTED"}))
           /\ SameCounts(Wakeup(Clear(t, b, {"B_WANTED"}), b), Clear(t, b, {"B_WANTED"}))
           /\ Wakes(Wakeup(Clear(t, b, {"B_WANTED"}), b), s)
<1> DEFINE u == Clear(t, b, {"B_WANTED"})
           w == Wakeup(u, b)
           gl == fl \ {"B_WANTED"}
<1>0. s \in StateSet /\ Lonely(s) /\ BufOK(s, {}, b) /\ NULL \notin Proc
  BY ConstantsAssumption DEF Struct
<1>1. t \in StateSet BY DEF Completes
<1>2. /\ u \in StateSet /\ OnlyFlags(u, t, b, t.buf[b].flags \ {"B_WANTED"})
      /\ SameLists(u, t) /\ SameCounts(u, t) /\ u.proc = t.proc
  BY <1>1, ClearF
<1> HIDE DEF u
<1>3. Completes(u, s, b, gl) /\ u.buf[b].cur = t.buf[b].cur
  BY <1>2 DEF Completes, OnlyFlags, SameLists, SameCounts, Kept
<1>4. Io(u) = Io(s) \ {b} /\ Lonely(u) /\ Free(u) = Free(s) /\ Hdr(u) = Hdr(s) BY <1>0, <1>3, CompletesF
<1>5. u.proc = s.proc /\ u.wanted = s.wanted BY <1>3 DEF Completes, Kept, SameCounts
<1>6. /\ w \in StateSet /\ w.buf = u.buf /\ SameLists(w, u) /\ SameCounts(w, u)
      /\ (\A q \in Proc : w.proc[q] = Woken(s.proc[q], b)) /\ Wakes(w, s)
      /\ NoSleeper(w, NULL, b)
  <2>1. u \in StateSet /\ u.proc = s.proc BY <1>2, <1>5
  <2>2. PICK H : H = {} OBVIOUS
  <2>3. Struct(s, NULL, H) BY <2>2
  <2>4. /\ Wakeup(u, b) \in StateSet /\ Wakeup(u, b).buf = u.buf
        /\ SameLists(Wakeup(u, b), u) /\ SameCounts(Wakeup(u, b), u)
        /\ Wakes(Wakeup(u, b), s) /\ NoSleeper(Wakeup(u, b), NULL, b)
    BY <2>1, <2>3, WakeF
  <2>5. \A q \in Proc : Wakeup(u, b).proc[q] = Woken(s.proc[q], b)
    <3>1. Wakeup(u, b).proc = [q \in Proc |-> Woken(u.proc[q], b)] BY <2>1 DEF Wakeup, StateSet
    <3> QED BY <2>1, <3>1
  <2> QED BY <2>4, <2>5
<1> HIDE DEF w, gl
<1>7. Free(w) = Free(s) /\ Hdr(w) = Hdr(s) /\ Io(w) = Io(s) \ {b} /\ w.wanted = s.wanted /\ Lonely(w)
  BY <1>4, <1>5, <1>6 DEF SameLists, Free, Hdr, Io, SameCounts, Lonely
<1>8. /\ w.buf[b].flags = gl /\ w.buf[b].blk = s.buf[b].blk
      /\ \A c \in Buf \ {b} : w.buf[c] = s.buf[c]
  BY <1>3, <1>6 DEF Completes
<1>9. /\ "B_BUSY" \in gl /\ "B_ASYNC" \notin gl /\ "B_DONE" \in gl /\ "B_DELWRI" \notin gl
      /\ ("B_STALE" \in gl <=> "B_STALE" \in s.buf[b].flags)
      /\ b \notin Free(s) /\ b \notin Hdr(s) /\ s.buf[b].blk # NULL
  BY <1>0, NewBufSet DEF BufOK, Async, gl
<1>10. ASSUME NEW r \in ProcSet, ProcOK(s, r), ~(r.pc = "asleep" /\ r.chan = b) PROVE ProcOK(w, r)
  <2>1. Shape(r) /\ HoldsOK(s, r) /\ KeepsOK(s, r) /\ SleepOK(s, r) BY <1>10 DEF ProcOK
  <2>2. r.bp \in Buf \cup {NULL} /\ r.savebp \in Buf \cup {NULL} BY DEF ProcSet
  <2>3. HoldsOK(w, r) BY <1>7, <1>8, <1>9, <2>1, <2>2 DEF HoldsOK
  <2>4. r.savebp # NULL => r.savebp # b BY <1>9, <2>1 DEF KeepsOK
  <2>5. KeepsOK(w, r) BY <1>8, <2>1, <2>2, <2>4 DEF KeepsOK
  <2>6. SleepOK(w, r)
    <3>1. r.pc = "asleep" => r.chan # b BY <1>10
    <3> QED BY <1>7, <1>8, <2>1, <3>1 DEF SleepOK
  <2> QED BY <2>1, <2>3, <2>5, <2>6 DEF ProcOK
<1>11. ASSUME NEW q \in Proc PROVE ProcOK(w, w.proc[q]) /\ Hold(w.proc[q]) = Hold(s.proc[q])
  <2>1. ProcOK(s, s.proc[q]) /\ s.proc[q] \in ProcSet BY <1>0, ProcTyped DEF Struct
  <2>2. CASE s.proc[q].pc = "asleep" /\ s.proc[q].chan = b
    <3>1. SameLists(s, s) BY DEF SameLists
    <3>2. PICK v : v = Woken(s.proc[q], s.proc[q].chan) OBVIOUS
    <3>3. ProcOK(s, v) /\ Hold(v) = Hold(s.proc[q]) /\ v.pc # "asleep" /\ v \in ProcSet
      BY <2>1, <2>2, <3>1, <3>2, WokenOK
    <3>4. w.proc[q] = v BY <1>6, <2>2, <3>2
    <3> QED BY <1>10, <3>3, <3>4
  <2>3. CASE ~(s.proc[q].pc = "asleep" /\ s.proc[q].chan = b)
    <3>1. w.proc[q] = s.proc[q] BY <1>6, <2>3, Zenon DEF Woken
    <3> QED BY <1>10, <2>1, <2>3, <3>1
  <2> QED BY <2>2, <2>3
<1>12. ASSUME NEW c \in Buf PROVE BufOK(w, {}, c)
  <2>1. BufOK(s, {}, c) BY DEF Struct
  <2>2. CASE c = b BY <1>7, <1>8, <1>9, <2>2, <1>0 DEF BufOK, gl
  <2>3. CASE c # b BY <1>7, <1>8, <2>1, <2>3 DEF BufOK
  <2> QED BY <2>2, <2>3
<1>13. \A c \in Buf : Async(w, c) <=> Async(s, c) BY <1>7, <1>8, <1>9 DEF Async
<1>14. Apart(w, NULL, {})
  <2>1. Apart(s, NULL, {}) BY DEF Struct
  <2> QED BY <1>7, <1>11, <1>13, <2>1 DEF Apart
<1>15. Somewhere(w, NULL, {})
  <2>1. Somewhere(s, NULL, {}) BY DEF Struct
  <2> QED BY <1>7, <1>11, <1>13, <2>1 DEF Somewhere
<1>16. Struct(w, NULL, {}) BY <1>0, <1>6, <1>7, <1>11, <1>12, <1>14, <1>15 DEF Struct
<1> QED BY <1>3, <1>6, <1>16 DEF w, u, gl

(* The end of the asynchronous writes wakes bdwait(). *)
LEMMA WakeSyncStruct ==
    ASSUME NEW s, NEW p, NEW H, Struct(s, p, H)
    PROVE  /\ Struct(WakeSync(s), p, H) /\ WakeSync(s).buf = s.buf /\ SameLists(WakeSync(s), s)
           /\ WakeSync(s).bufsize = s.bufsize /\ WakeSync(s).wanted = s.wanted
           /\ WakeSync(s).basyncnt = s.basyncnt /\ Wakes(WakeSync(s), s)
           /\ (p \in Proc => WakeSync(s).proc[p] = s.proc[p])
           /\ s.basyncnt # 0 => WakeSync(s) = s
           /\ s.basyncnt = 0 /\ s.basynwait => NoSleeper(WakeSync(s), p, "basyncnt")
           /\ s.basyncnt = 0 /\ ~s.basynwait => WakeSync(s) = s
<1> DEFINE t == WakeSync(s)
<1>1. CASE ~(s.basyncnt = 0 /\ s.basynwait)
  <2>1. t = s BY <1>1 DEF WakeSync
  <2> QED BY <1>1, <2>1 DEF SameLists, Wakes
<1>2. CASE s.basyncnt = 0 /\ s.basynwait
  <2> DEFINE u == [s EXCEPT !.basynwait = FALSE]
             w == Wakeup(u, "basyncnt")
  <2>0. s \in StateSet BY DEF Struct
  <2>1. /\ u \in StateSet /\ u.proc = s.proc /\ u.buf = s.buf /\ u.wanted = s.wanted
        /\ SameLists(u, s) /\ u.bufsize = s.bufsize /\ u.basyncnt = s.basyncnt
    BY <2>0 DEF StateSet, SameLists
  <2>2. t = w BY <1>2 DEF WakeSync
  <2> HIDE DEF u
  <2>3. /\ w \in StateSet /\ w.buf = u.buf /\ SameLists(w, u) /\ SameCounts(w, u) /\ Wakes(w, s)
        /\ NoSleeper(w, p, "basyncnt") /\ (p \in Proc => w.proc[p] = s.proc[p])
    BY <2>1, WakeF, SMTT(30)
  <2> HIDE DEF w, t
  <2>4. /\ w.buf = s.buf /\ SameLists(w, s) /\ w.bufsize = s.bufsize /\ w.wanted = s.wanted
        /\ w.basyncnt = s.basyncnt
    BY <2>1, <2>3 DEF SameLists, SameCounts
  <2>5. ASSUME NEW q \in Proc \ {p}, w.proc[q].pc = "asleep", w.proc[q].chan \in {"bfreelist", "bhdrlist"}
        PROVE  w.proc[q].chan \in w.wanted
    <3>1. /\ ProcOK(s, s.proc[q]) /\ s.proc[q] \in ProcSet BY <2>0, ProcTyped DEF Struct
    <3>2. w.proc[q] = s.proc[q]
      <4>1. CASE w.proc[q] = s.proc[q] BY <4>1
      <4>2. CASE s.proc[q].pc = "asleep" /\ w.proc[q] = Woken(s.proc[q], s.proc[q].chan)
        <5>1. SameLists(s, s) BY DEF SameLists
        <5>2. Woken(s.proc[q], s.proc[q].chan).pc # "asleep" BY <3>1, <4>2, <5>1, WokenOK
        <5> QED BY <2>5, <4>2, <5>2
      <4> QED BY <2>3, <4>1, <4>2 DEF Wakes
    <3> QED BY <2>4, <2>5, <3>1, <3>2 DEF ProcOK, SleepOK
  <2>6. Struct(w, p, H) BY <2>3, <2>4, <2>5, WakesStruct
  <2> QED BY <1>2, <2>2, <2>3, <2>4, <2>6 DEF t
<1> QED BY <1>1, <1>2

(***************************************************************************)
(* The processor.                                                          *)
(***************************************************************************)
Off(s, p) == \A q \in Proc \ {p} : ~OnCpu(s.proc[q])

(* A woken process is not in the middle of a routine that has the processor. *)
LEMMA WokenOff ==
    ASSUME NEW s, NEW r \in ProcSet, ProcOK(s, r), r.pc = "asleep"
    PROVE  ~OnCpu(Woken(r, r.chan)) /\ Woken(r, r.chan).pc # "idle"
           /\ Woken(r, r.chan).pc # "bflush" /\ Woken(r, r.chan).pc # "bawrite"
<1> DEFINE v == Woken(r, r.chan)
<1>1. Shape(r) BY DEF ProcOK
<1>2. r.ret # NULL BY <1>1, SleeperRet
<1>3. /\ v.pc = r.ret /\ v.savebp = r.savebp
      /\ r.ret \in {"getblk", "getfreeblk", "zalloc", "biowait", "blkflush", "bdwait"}
  BY <1>2, WokenSet
<1>4. Target(v) = Target(r)
  <2>1. SameLists(s, s) BY DEF SameLists
  <2> QED BY <2>1, WokenOK
<1> HIDE DEF v
<1>5. r.ret = "getfreeblk" => Target(r) = NULL /\ r.savebp = NULL BY <1>1 DEF Shape, Again
<1> QED BY <1>3, <1>4, <1>5 DEF OnCpu, v

(* Wakeups give nobody the processor. *)
LEMMA OffKept ==
    ASSUME NEW s, NEW t, NEW p, NEW H, Struct(s, p, H), Off(s, p), Wakes(t, s)
    PROVE  Off(t, p)
<1> SUFFICES ASSUME NEW q \in Proc \ {p} PROVE ~OnCpu(t.proc[q]) BY DEF Off
<1>1. CASE t.proc[q] = s.proc[q] BY <1>1 DEF Off
<1>2. CASE s.proc[q].pc = "asleep" /\ t.proc[q] = Woken(s.proc[q], s.proc[q].chan)
  <2>1. s.proc[q] \in ProcSet /\ ProcOK(s, s.proc[q]) BY ProcTyped DEF Struct
  <2> QED BY <1>2, <2>1, WokenOff
<1> QED BY <1>1, <1>2 DEF Wakes

(* Interrupts leave the processor to who has it. *)
LEMMA CpuKept ==
    ASSUME NEW s, NEW t, NEW c, Struct(s, NULL, {}), CpuOK(s, c), Wakes(t, s)
    PROVE  CpuOK(t, c)
<1>1. NULL \notin Proc /\ s \in StateSet BY ConstantsAssumption DEF Struct
<1>2. ASSUME NEW q \in Proc
      PROVE  /\ OnCpu(t.proc[q]) => t.proc[q] = s.proc[q]
             /\ t.proc[q].pc = "bflush" => t.proc[q] = s.proc[q]
             /\ s.proc[q].pc = "idle" => t.proc[q] = s.proc[q]
  <2>1. s.proc[q] \in ProcSet /\ ProcOK(s, s.proc[q]) BY <1>1, ProcTyped DEF Struct
  <2>2. CASE t.proc[q] = s.proc[q] BY <2>2
  <2>3. CASE s.proc[q].pc = "asleep" /\ t.proc[q] = Woken(s.proc[q], s.proc[q].chan)
    BY <2>1, <2>3, WokenOff
  <2> QED BY <2>2, <2>3 DEF Wakes
<1> QED BY <1>2 DEF CpuOK

(* At the end of a step of p, which has become r. *)
LEMMA CpuStep ==
    ASSUME NEW s, NEW p \in Proc, NEW r \in ProcSet, NEW c, s \in StateSet, Off(s, p),
           OnCpu(r) => c = p,
           r.pc = "bflush" /\ r.then = "close" => \A q \in Proc \ {p} : s.proc[q].pc = "idle"
    PROVE  CpuOK(With(s, p, r), c)
<1> DEFINE t == With(s, p, r)
<1>1. t.proc[p] = r /\ \A q \in Proc \ {p} : t.proc[q] = s.proc[q] BY WithF
<1> HIDE DEF t
<1>2. \A q \in Proc \ {p} : ~OnCpu(t.proc[q]) BY <1>1 DEF Off
<1>3. \A q \in Proc \ {p} : t.proc[q].pc # "bflush" BY <1>2 DEF OnCpu
<1>4. CpuOK(t, c) BY <1>1, <1>2, <1>3 DEF CpuOK
<1> QED BY <1>4 DEF t

(* While p runs nobody else is in the middle of a routine. *)
LEMMA CpuBegin ==
    ASSUME NEW s, NEW p \in Proc, NEW c, CpuOK(s, c), c \in {NULL, p}
    PROVE  Off(s, p)
<1>1. NULL \notin Proc BY ConstantsAssumption
<1> QED BY <1>1 DEF Off, CpuOK

(***************************************************************************)
(* Sums over the headers.                                                  *)
(***************************************************************************)
NBuf == Cardinality(Buf)

hdrList == SetToSeq(Buf)

(* SetToSeq() lists every header. *)
LEMMA Headers ==
    /\ NBuf \in Nat /\ hdrList \in [1 .. NBuf -> Buf] /\ IsInjective(hdrList)
    /\ \A b \in Buf : \E j \in 1 .. NBuf : hdrList[j] = b
<1>1. IsFiniteSet(Buf) BY ConstantsAssumption
<1>2. NBuf \in Nat /\ ExistsBijection(1 .. NBuf, Buf) BY <1>1, FS_CardinalityType DEF NBuf
<1>3. PICK f : f \in Bijection(1 .. NBuf, Buf) BY <1>2 DEF ExistsBijection
<1>4. f \in [1 .. NBuf -> Buf] /\ IsInjective(f) BY <1>3 DEF Bijection, Injection
<1>5. \E g \in [1 .. NBuf -> Buf] : IsInjective(g) BY <1>4
<1>6. hdrList \in [1 .. NBuf -> Buf] /\ IsInjective(hdrList)
  BY <1>5, Zenon DEF hdrList, SetToSeq, NBuf
<1>7. PICK g : g = hdrList OBVIOUS
<1>8. g \in Injection(1 .. NBuf, Buf) BY <1>6, <1>7 DEF Injection
<1>9. IsFiniteSet(1 .. NBuf) /\ Cardinality(1 .. NBuf) = NBuf
  <2>1. NBuf \in Int /\ 1 \in Int BY <1>2
  <2>2. /\ IsFiniteSet(1 .. NBuf) /\ Cardinality(1 .. NBuf) = IF 1 > NBuf THEN 0 ELSE NBuf - 1 + 1
    BY <2>1, FS_Interval
  <2> QED BY <1>2, <2>2
<1>10. g \in Surjection(1 .. NBuf, Buf)
  <2>1. PICK n : n = Cardinality(1 .. NBuf) OBVIOUS
  <2>2. Cardinality(1 .. NBuf) = Cardinality(Buf) BY <1>9 DEF NBuf
  <2> QED BY <1>1, <1>8, <2>2, FS_Injection
<1>11. \A b \in Buf : \E j \in 1 .. NBuf : g[j] = b BY <1>10 DEF Surjection
<1> QED BY <1>2, <1>6, <1>7, <1>11

(* Each of them once. *)
LEMMA HeadersOnce ==
    ASSUME NEW b \in Buf
    PROVE  \E j \in 1 .. NBuf : \A k \in 1 .. NBuf : hdrList[k] = b <=> k = j
<1>1. PICK j \in 1 .. NBuf : hdrList[j] = b BY Headers
<1>2. \A k \in 1 .. NBuf : hdrList[k] = hdrList[j] => k = j BY Headers DEF IsInjective
<1> QED BY <1>1, <1>2

(* It is the list binit() makes. *)
LEMMA HeaderSeq == hdrList \in Seq(Buf) /\ IsInjective(hdrList) /\ ToSet(hdrList) = Buf
<1>1. hdrList \in Seq(Buf) /\ DOMAIN hdrList = 1 .. NBuf BY Headers
<1>2. ToSet(hdrList) = Buf BY <1>1, Headers DEF ToSet
<1> QED BY <1>1, <1>2, Headers

(* s[j] is the sum of the first j. *)
Sums(s, e) == s = [j \in 0 .. NBuf |-> IF j = 0 THEN 0 ELSE s[j - 1] + e[hdrList[j]]]

(* There are such sums. *)
LEMMA SumsExist == ASSUME NEW e PROVE \E s : Sums(s, e)
<1> DEFINE Q(m) == \E v : v = [k \in 0 .. m |-> IF k = 0 THEN 0 ELSE v[k - 1] + e[hdrList[k]]]
           S == {m \in Nat : ~Q(m)}
<1>0. Q(NBuf)
  <2>0. NBuf \in Nat BY Headers
  <2>1. SUFFICES ASSUME NBuf \in S PROVE FALSE BY <2>0
  <2>2. S \in SUBSET Nat OBVIOUS
  <2>3. PICK m \in S : \A z \in S : m <= z
    <3> HIDE DEF S
    <3>1. Min(S) \in S /\ \A z \in S : Min(S) <= z BY <2>1, <2>2, LeastMember
    <3> QED BY <3>1
  <2>4. m \in Nat /\ ~Q(m) OBVIOUS
  <2>5. CASE m = 0
    <3> DEFINE v == [k \in 0 .. m |-> 0]
    <3>1. v = [k \in 0 .. m |-> IF k = 0 THEN 0 ELSE v[k - 1] + e[hdrList[k]]] BY <2>5
    <3> QED BY <2>4, <3>1
  <2>6. CASE m # 0
    <3>1. m - 1 \in Nat /\ ~(m <= m - 1) BY <2>4, <2>6
    <3>2. Q(m - 1) BY <2>3, <3>1
    <3>3. PICK w : w = [k \in 0 .. m - 1 |-> IF k = 0 THEN 0 ELSE w[k - 1] + e[hdrList[k]]] BY <3>2
    <3> DEFINE v == [k \in 0 .. m |-> IF k = m THEN w[m - 1] + e[hdrList[m]] ELSE w[k]]
    <3>4. \A k \in 0 .. m : v[k] = IF k = 0 THEN 0 ELSE v[k - 1] + e[hdrList[k]]
      <4> SUFFICES ASSUME NEW k \in 0 .. m PROVE v[k] = IF k = 0 THEN 0 ELSE v[k - 1] + e[hdrList[k]]
        OBVIOUS
      <4>1. CASE k = m
        <5>1. v[k - 1] = w[m - 1] BY <2>4, <2>6, <4>1
        <5> QED BY <2>4, <2>6, <4>1, <5>1
      <4>2. CASE k # m
        <5>1. k \in 0 .. m - 1 /\ v[k] = w[k] BY <2>4, <4>2
        <5>2. w[k] = IF k = 0 THEN 0 ELSE w[k - 1] + e[hdrList[k]] BY <3>3, <5>1
        <5>3. k # 0 => v[k - 1] = w[k - 1] BY <2>4, <5>1
        <5> QED BY <5>1, <5>2, <5>3
      <4> QED BY <4>1, <4>2
    <3>5. v = [k \in 0 .. m |-> v[k]] OBVIOUS
    <3> HIDE DEF v
    <3>6. v = [k \in 0 .. m |-> IF k = 0 THEN 0 ELSE v[k - 1] + e[hdrList[k]]] BY <3>4, <3>5
    <3> QED BY <2>4, <3>6
  <2> QED BY <2>5, <2>6
<1> QED BY <1>0 DEF Sums

(* InUse() is the last of them. *)
LEMMA InUseIs == ASSUME NEW e PROVE \E s : Sums(s, e) /\ InUse(e) = s[NBuf]
<1> DEFINE sum == CHOOSE s : s = [j \in 0 .. NBuf |-> IF j = 0 THEN 0 ELSE s[j - 1] + e[hdrList[j]]]
<1>1. Sums(sum, e)
  <2>1. \E s : Sums(s, e) BY SumsExist
  <2> QED BY <2>1, Zenon DEF Sums
<1>2. InUse(e) = sum[NBuf] BY DEF InUse, NBuf, hdrList
<1> QED BY <1>1, <1>2

(* One more header adds its number. *)
LEMMA SumSteps ==
    ASSUME NEW e, NEW s, Sums(s, e)
    PROVE  /\ s[0] = 0
           /\ \A j \in 1 .. NBuf : s[j] = s[j - 1] + e[hdrList[j]]
<1>0. NBuf \in Nat BY Headers
<1>1. \A j \in 0 .. NBuf : s[j] = IF j = 0 THEN 0 ELSE s[j - 1] + e[hdrList[j]] BY DEF Sums
<1>2. 0 \in 0 .. NBuf BY <1>0
<1>3. \A j \in 1 .. NBuf : j \in 0 .. NBuf /\ j # 0 BY <1>0
<1> QED BY <1>1, <1>2, <1>3

(* If nothing differs but the number of b, by d, so do the sums. *)
LEMMA InUseShift ==
    ASSUME NEW e \in [Buf -> Int], NEW f \in [Buf -> Int], NEW b \in Buf, NEW d \in Int,
           f[b] = e[b] + d, \A v \in Buf \ {b} : f[v] = e[v]
    PROVE  InUse(e) \in Int /\ InUse(f) = InUse(e) + d
<1>1. PICK s : Sums(s, e) /\ InUse(e) = s[NBuf] BY InUseIs
<1>2. PICK t : Sums(t, f) /\ InUse(f) = t[NBuf] BY InUseIs
<1>3. NBuf \in Nat /\ hdrList \in [1 .. NBuf -> Buf] BY Headers
<1>4. PICK m \in 1 .. NBuf : \A k \in 1 .. NBuf : hdrList[k] = b <=> k = m BY HeadersOnce
<1>5. \A j \in 1 .. NBuf : hdrList[j] \in Buf BY <1>3
<1>6. s[0] = 0 /\ \A j \in 1 .. NBuf : s[j] = s[j - 1] + e[hdrList[j]] BY <1>1, SumSteps
<1>7. t[0] = 0 /\ \A j \in 1 .. NBuf : t[j] = t[j - 1] + f[hdrList[j]] BY <1>2, SumSteps
<1> DEFINE R(j) == s[j] \in Int /\ t[j] = s[j] + (IF m <= j THEN d ELSE 0)
           S == {j \in Nat : j <= NBuf /\ ~R(j)}
<1>8. S = {}
  <2> SUFFICES ASSUME NEW x \in S PROVE FALSE OBVIOUS
  <2>1. S \in SUBSET Nat OBVIOUS
  <2>2. PICK j \in S : \A z \in S : j <= z
    <3> HIDE DEF S
    <3>1. Min(S) \in S /\ \A z \in S : Min(S) <= z BY <2>1, LeastMember
    <3> QED BY <3>1
  <2>3. j \in Nat /\ j <= NBuf /\ ~R(j) OBVIOUS
  <2>4. j # 0 BY <2>3, <1>3, <1>4, <1>6, <1>7
  <2>5. j \in 1 .. NBuf /\ j - 1 \in Nat /\ j - 1 <= NBuf /\ ~(j <= j - 1) BY <2>3, <2>4, <1>3
  <2>6. R(j - 1) BY <2>2, <2>5
  <2>7. /\ hdrList[j] \in Buf /\ s[j] = s[j - 1] + e[hdrList[j]]
        /\ t[j] = t[j - 1] + f[hdrList[j]]
    BY <2>5, <1>5, <1>6, <1>7
  <2>8. e[hdrList[j]] \in Int /\ f[hdrList[j]] = e[hdrList[j]] + (IF j = m THEN d ELSE 0)
    BY <2>5, <2>7, <1>4
  <2> HIDE DEF S
  <2>9. m \in Int /\ j \in Int BY <2>3, <1>3, <1>4
  <2>10. R(j) BY <2>6, <2>7, <2>8, <2>9
  <2> QED BY <2>3, <2>10
<1>9. R(NBuf)
  <2>1. NBuf \notin S BY <1>8
  <2> QED BY <2>1, <1>3
<1>10. m <= NBuf BY <1>3, <1>4
<1> QED BY <1>1, <1>2, <1>9, <1>10

(* Nothing adds up to nothing. *)
LEMMA InUseZero ==
    ASSUME NEW e, \A b \in Buf : e[b] = 0
    PROVE  InUse(e) = 0
<1>1. PICK s : Sums(s, e) /\ InUse(e) = s[NBuf] BY InUseIs
<1>3. NBuf \in Nat /\ hdrList \in [1 .. NBuf -> Buf] BY Headers
<1>5. \A j \in 1 .. NBuf : hdrList[j] \in Buf BY <1>3
<1>6. s[0] = 0 /\ \A j \in 1 .. NBuf : s[j] = s[j - 1] + e[hdrList[j]] BY <1>1, SumSteps
<1> DEFINE S == {j \in Nat : j <= NBuf /\ s[j] # 0}
<1>8. S = {}
  <2> SUFFICES ASSUME NEW x \in S PROVE FALSE OBVIOUS
  <2>1. S \in SUBSET Nat OBVIOUS
  <2>2. PICK j \in S : \A z \in S : j <= z
    <3> HIDE DEF S
    <3>1. Min(S) \in S /\ \A z \in S : Min(S) <= z BY <2>1, LeastMember
    <3> QED BY <3>1
  <2>3. j \in Nat /\ j <= NBuf /\ s[j] # 0 OBVIOUS
  <2>4. j # 0 BY <2>3, <1>6
  <2>5. j \in 1 .. NBuf /\ j - 1 \in Nat /\ j - 1 <= NBuf /\ ~(j <= j - 1) BY <2>3, <2>4, <1>3
  <2>6. s[j - 1] = 0 BY <2>2, <2>5
  <2>7. s[j] = 0 + 0 BY <2>5, <2>6, <1>5, <1>6
  <2> QED BY <2>3, <2>7
<1>9. NBuf \notin S BY <1>8
<1> QED BY <1>1, <1>3, <1>9

(***************************************************************************)
(* Memory: m bytes have been charged to the cache and not yet allocated.   *)
(***************************************************************************)
Sizes(s) == [b \in Buf |-> s.buf[b].size]

Charged(s, m) == s.bufsize + InUse(Sizes(s)) + m = BUFHWM

(* The sizes are numbers. *)
LEMMA SizesType == ASSUME NEW s \in StateSet PROVE Sizes(s) \in [Buf -> Int]
<1>1. \A b \in Buf : s.buf[b].size \in Int BY BufTyped, ConstantsAssumption
<1> QED BY <1>1 DEF Sizes

(* The sum is the same if no size changes. *)
LEMMA ChargedSame ==
    ASSUME NEW s, NEW t, NEW m, Charged(s, m), t.bufsize = s.bufsize,
           \A b \in Buf : t.buf[b].size = s.buf[b].size
    PROVE  Charged(t, m)
<1>1. Sizes(t) = Sizes(s) BY DEF Sizes
<1> QED BY <1>1 DEF Charged

(* One header's memory is charged or given back. *)
LEMMA ChargedShift ==
    ASSUME NEW s \in StateSet, NEW t \in StateSet, NEW m \in Int, NEW k \in Int, NEW b \in Buf, Charged(s, m),
           \A c \in Buf \ {b} : t.buf[c].size = s.buf[c].size,
           t.bufsize + t.buf[b].size + k = s.bufsize + s.buf[b].size + m
    PROVE  Charged(t, k)
<1> DEFINE d == t.buf[b].size - s.buf[b].size
<1>1. /\ t.bufsize \in Int /\ s.bufsize \in Int /\ t.buf[b].size \in Int /\ s.buf[b].size \in Int
      /\ BUFHWM \in Int
  BY StateTyped, BufTyped, ConstantsAssumption
<1>2. PICK e : e = Sizes(s) OBVIOUS
<1>3. PICK f : f = Sizes(t) OBVIOUS
<1>4. e \in [Buf -> Int] /\ f \in [Buf -> Int] BY <1>2, <1>3, SizesType
<1>5. e[b] = s.buf[b].size /\ f[b] = t.buf[b].size BY <1>2, <1>3 DEF Sizes
<1>6. d \in Int /\ f[b] = e[b] + d BY <1>1, <1>5
<1>7. \A c \in Buf \ {b} : f[c] = e[c] BY <1>2, <1>3 DEF Sizes
<1> HIDE DEF d
<1>8. InUse(e) \in Int /\ InUse(f) = InUse(e) + d BY <1>4, <1>6, <1>7, InUseShift
<1>9. s.bufsize + InUse(e) + m = BUFHWM BY <1>2 DEF Charged
<1>10. t.bufsize + InUse(f) + k = BUFHWM BY <1>1, <1>8, <1>9 DEF d
<1> QED BY <1>3, <1>10 DEF Charged

(***************************************************************************)
(* Asynchronous writes.                                                    *)
(***************************************************************************)
Counted(s, k) == s.basyncnt + k = Cardinality(Behind(s))

(* Who waits for them to end. *)
Waits(s) ==
    \A q \in Proc : s.proc[q].pc = "asleep" /\ s.proc[q].chan = "basyncnt" => s.basynwait /\ s.basyncnt > 0

(* The two halves of Counts. *)
LEMMA CountsIs == ASSUME NEW s, NEW k PROVE Counts(s, k) <=> Counted(s, k) /\ Waits(s)
BY DEF Counts, Counted, Waits

(* There are no more writes behind than headers. *)
LEMMA BehindFinite == ASSUME NEW s PROVE IsFiniteSet(Behind(s)) /\ Cardinality(Behind(s)) \in Nat
                                        /\ Cardinality(Behind(s)) <= Cardinality(Buf)
<1>1. PICK S : S = Behind(s) OBVIOUS
<1>2. S \in SUBSET Buf BY <1>1 DEF Behind
<1>3. IsFiniteSet(S) /\ Cardinality(S) <= Cardinality(Buf) BY <1>2, FS_Subset, ConstantsAssumption
<1>4. Cardinality(S) \in Nat BY <1>3, FS_CardinalityType
<1> QED BY <1>1, <1>3, <1>4

(* Whoever is still asleep was so before. *)
LEMMA StillAsleep ==
    ASSUME NEW s, NEW t, NEW p, NEW H, NEW q \in Proc, Struct(s, p, H), Wakes(t, s), t.proc[q].pc = "asleep"
    PROVE  t.proc[q] = s.proc[q] /\ q # p
<1>0. p \in Proc => s.proc[p].pc # "asleep" BY DEF Struct
<1>1. CASE t.proc[q] = s.proc[q] BY <1>0, <1>1
<1>2. CASE s.proc[q].pc = "asleep" /\ t.proc[q] = Woken(s.proc[q], s.proc[q].chan)
  <2>1. q # p /\ s.proc[q] \in ProcSet BY <1>0, <1>2, ProcTyped DEF Struct
  <2>2. ProcOK(s, s.proc[q]) BY <2>1 DEF Struct
  <2>3. SameLists(s, s) BY DEF SameLists
  <2>4. t.proc[q].pc # "asleep" BY <1>2, <2>1, <2>2, <2>3, WokenOK
  <2> QED BY <2>4
<1> QED BY <1>1, <1>2 DEF Wakes

(* bdwait() goes on waiting rightly if the count does not go down. *)
LEMMA WaitsKept ==
    ASSUME NEW s, NEW t, NEW p, NEW H, Struct(s, p, H), Wakes(t, s), Waits(s), s.basyncnt \in Int, t.basyncnt \in Int,
           s.basyncnt <= t.basyncnt, s.basynwait => t.basynwait
    PROVE  Waits(t)
<1> SUFFICES ASSUME NEW q \in Proc, t.proc[q].pc = "asleep", t.proc[q].chan = "basyncnt"
             PROVE  t.basynwait /\ t.basyncnt > 0
  BY DEF Waits
<1>1. t.proc[q] = s.proc[q] BY StillAsleep
<1>2. s.basynwait /\ s.basyncnt > 0 BY <1>1 DEF Waits
<1> QED BY <1>2

(* The count stays right if the same requests are writes behind. *)
LEMMA CountsSame ==
    ASSUME NEW s, NEW t, NEW p, NEW H, NEW k, Struct(s, p, H), Wakes(t, s), Counts(s, k),
           t.basyncnt = s.basyncnt, t.basynwait = s.basynwait,
           \A c \in Buf : (c \in Io(t) /\ "B_ASYNC" \in t.buf[c].flags /\ "B_READ" \notin t.buf[c].flags)
                          <=> (c \in Io(s) /\ "B_ASYNC" \in s.buf[c].flags /\ "B_READ" \notin s.buf[c].flags)
    PROVE  Counts(t, k)
<1>1. Behind(t) = Behind(s) BY DEF Behind
<1>2. s.basyncnt \in Int BY StateTyped DEF Struct
<1>3. Waits(t) BY <1>2, WaitsKept, CountsIs
<1> QED BY <1>1, <1>3, CountsIs DEF Counted

(* A write behind has started. *)
LEMMA CountsStarted ==
    ASSUME NEW s, NEW t, NEW p, NEW H, NEW k \in Int, NEW b \in Buf, NEW fl, Struct(s, p, H), Counts(s, k),
           b \notin Io(s), Starts(t, s, b, fl), "B_ASYNC" \in fl, "B_READ" \notin fl
    PROVE  Counts(t, k + 1)
<1>0. s \in StateSet /\ Lonely(s) /\ s.basyncnt \in Int BY StateTyped DEF Struct
<1>1. Io(t) = Io(s) \cup {b} BY <1>0, StartsF
<1>2. t.buf[b].flags = fl /\ \A c \in Buf \ {b} : t.buf[c] = s.buf[c] BY DEF Starts, OnlyFlags
<1>3. Behind(t) = Behind(s) \cup {b} /\ b \notin Behind(s)
  <2>1. ASSUME NEW c \in Buf PROVE c \in Behind(t) <=> c \in Behind(s) \/ c = b
    BY <1>1, <1>2 DEF Behind
  <2>2. Behind(t) \subseteq Buf /\ Behind(s) \subseteq Buf BY DEF Behind
  <2> QED BY <2>1, <2>2 DEF Behind
<1>4. Cardinality(Behind(t)) = Cardinality(Behind(s)) + 1
  <2>1. PICK S : S = Behind(s) OBVIOUS
  <2>2. IsFiniteSet(S) BY <2>1, BehindFinite
  <2>3. Cardinality(S \cup {b}) = IF b \in S THEN Cardinality(S) ELSE Cardinality(S) + 1
    BY <2>2, FS_AddElement
  <2> QED BY <1>3, <2>1, <2>3
<1>5. t.basyncnt = s.basyncnt /\ t.basynwait = s.basynwait /\ t.proc = s.proc
  BY DEF Starts, Kept, SameCounts
<1>6. Wakes(t, s) BY <1>5 DEF Wakes
<1>7. Waits(t) BY <1>0, <1>5, <1>6, WaitsKept, CountsIs
<1>8. s.basyncnt + k = Cardinality(Behind(s)) BY DEF Counts
<1>9. Counted(t, k + 1) BY <1>0, <1>4, <1>5, <1>8, BehindFinite DEF Counted
<1> QED BY <1>7, <1>9, CountsIs

(* It has ended; k is the same once it has been counted off. *)
LEMMA CountedEnded ==
    ASSUME NEW s, NEW t, NEW k \in Int, NEW b \in Buf, NEW fl, s \in StateSet, Lonely(s), Counted(s, k), b \in Behind(s),
           Completes(t, s, b, fl)
    PROVE  Counted(t, k - 1)
<1>0. s.basyncnt \in Int BY StateTyped
<1>1. Io(t) = Io(s) \ {b} BY CompletesF
<1>2. \A c \in Buf \ {b} : t.buf[c] = s.buf[c] BY DEF Completes
<1>3. Behind(t) = Behind(s) \ {b}
  <2>1. ASSUME NEW c \in Buf PROVE c \in Behind(t) <=> c \in Behind(s) /\ c # b
    BY <1>1, <1>2 DEF Behind
  <2>2. Behind(t) \subseteq Buf /\ Behind(s) \subseteq Buf BY DEF Behind
  <2> QED BY <2>1, <2>2
<1>4. Cardinality(Behind(t)) = Cardinality(Behind(s)) - 1
  <2>1. PICK S : S = Behind(s) OBVIOUS
  <2>2. IsFiniteSet(S) BY <2>1, BehindFinite
  <2>3. Cardinality(S \ {b}) = IF b \in S THEN Cardinality(S) - 1 ELSE Cardinality(S)
    BY <2>2, FS_RemoveElement
  <2> QED BY <1>3, <2>1, <2>3
<1>5. t.basyncnt = s.basyncnt BY DEF Completes, Kept, SameCounts
<1>6. s.basyncnt + k = Cardinality(Behind(s)) BY DEF Counted
<1> QED BY <1>0, <1>4, <1>5, <1>6, BehindFinite DEF Counted

(* The count of basyncnt is set off against it. *)
CountUp(s, d) == [s EXCEPT !.basyncnt = @ + d]

(* The structure does not see the count. *)
LEMMA CountUpStruct ==
    ASSUME NEW s, NEW p, NEW H, NEW d \in Int, Struct(s, p, H)
    PROVE  /\ Struct(CountUp(s, d), p, H) /\ CountUp(s, d).buf = s.buf /\ SameLists(CountUp(s, d), s)
           /\ CountUp(s, d).proc = s.proc /\ CountUp(s, d).wanted = s.wanted
           /\ CountUp(s, d).bufsize = s.bufsize /\ CountUp(s, d).basynwait = s.basynwait
           /\ CountUp(s, d).basyncnt = s.basyncnt + d
<1> DEFINE t == CountUp(s, d)
<1>0. s \in StateSet BY DEF Struct
<1>1. s.basyncnt + d \in Int BY <1>0, StateTyped
<1>2. /\ t \in StateSet /\ t.buf = s.buf /\ SameLists(t, s) /\ t.proc = s.proc /\ t.wanted = s.wanted
      /\ t.bufsize = s.bufsize /\ t.basynwait = s.basynwait /\ t.basyncnt = s.basyncnt + d
  BY <1>0, <1>1 DEF CountUp, StateSet, SameLists
<1> HIDE DEF t
<1>3. Struct(t, p, H) BY <1>2, CountersStruct
<1> QED BY <1>2, <1>3 DEF t

(* The writes behind are a matter of requests and flags. *)
LEMMA BehindIs ==
    ASSUME NEW s, NEW t, t.buf = s.buf, SameLists(t, s)
    PROVE  Behind(t) = Behind(s)
BY DEF Behind, SameLists, Io

(* bawrite() counts its write after the request. *)
LEMMA CountUpCounts ==
    ASSUME NEW s, NEW p, NEW H, NEW k \in Int, Struct(s, p, H), Counts(s, k)
    PROVE  Counts(CountUp(s, 1), k - 1)
<1> DEFINE t == CountUp(s, 1)
<1>1. /\ t.buf = s.buf /\ SameLists(t, s) /\ t.proc = s.proc /\ t.basynwait = s.basynwait
      /\ t.basyncnt = s.basyncnt + 1
  BY CountUpStruct
<1> HIDE DEF t
<1>2. s.basyncnt \in Int BY StateTyped DEF Struct
<1>3. Wakes(t, s) BY <1>1 DEF Wakes
<1>4. Waits(t) BY <1>1, <1>2, <1>3, WaitsKept, CountsIs
<1>5. Behind(t) = Behind(s) BY <1>1, BehindIs
<1>6. Counted(t, k - 1) BY <1>1, <1>2, <1>5 DEF Counted, Counts
<1> QED BY <1>4, <1>6, CountsIs DEF t

(* Counted off, and bdwait() woken at zero: s is the state before the      *)
(* transfer ended, u that after it.                                        *)
LEMMA WakeSyncCounts ==
    ASSUME NEW s, NEW u, NEW p, NEW H, NEW k, Struct(u, p, H), Waits(s), Counted(u, k), s \in StateSet,
           u.proc = s.proc, u.basynwait = s.basynwait, u.basyncnt \in {s.basyncnt, s.basyncnt - 1}
    PROVE  Counts(WakeSync(u), k)
<1> DEFINE t == WakeSync(u)
<1>0. s.basyncnt \in Int /\ u.basyncnt \in Int BY StateTyped DEF Struct
<1>1. /\ t.buf = u.buf /\ SameLists(t, u) /\ t.basyncnt = u.basyncnt /\ Wakes(t, u)
      /\ (p \in Proc => t.proc[p] = u.proc[p])
      /\ (u.basyncnt # 0 => t = u)
      /\ (u.basyncnt = 0 /\ u.basynwait => NoSleeper(t, p, "basyncnt"))
      /\ (u.basyncnt = 0 /\ ~u.basynwait => t = u)
  BY WakeSyncStruct
<1> HIDE DEF t
<1>2. Counted(t, k) BY <1>1, BehindIs DEF Counted
<1>3. Waits(t)
  <2> SUFFICES ASSUME NEW q \in Proc, t.proc[q].pc = "asleep", t.proc[q].chan = "basyncnt"
               PROVE  t.basynwait /\ t.basyncnt > 0
    BY DEF Waits
  <2>1. t.proc[q] = u.proc[q] /\ q # p BY <1>1, StillAsleep
  <2>2. s.basynwait /\ s.basyncnt > 0 BY <2>1 DEF Waits
  <2>3. CASE u.basyncnt = 0
    <3>1. NoSleeper(t, p, "basyncnt") BY <1>1, <2>2, <2>3
    <3> QED BY <2>1, <3>1 DEF NoSleeper
  <2>4. CASE u.basyncnt # 0
    <3>1. t = u BY <1>1, <2>4
    <3>2. u.basyncnt > 0 BY <1>0, <2>2, <2>4
    <3>3. u.basynwait BY <2>2, Zenon
    <3> QED BY <3>1, <3>2, <3>3
  <2> QED BY <2>3, <2>4
<1> QED BY <1>2, <1>3, CountsIs DEF t

(***************************************************************************)
(* The contents.                                                           *)
(***************************************************************************)

(* The requests are headers. *)
LEMMA IoMember ==
    ASSUME NEW s \in StateSet
    PROVE  /\ Io(s) \subseteq Buf
           /\ \A i \in 1 .. Len(s.ioq) : s.ioq[i] \in Buf /\ s.ioq[i] \in Io(s)
           /\ \A b \in Io(s) : \E i \in 1 .. Len(s.ioq) : s.ioq[i] = b
<1>1. s.ioq \in Seq(Buf) BY StateTyped
<1>2. \A x : x \in ToSet(s.ioq) <=> \E i \in 1 .. Len(s.ioq) : s.ioq[i] = x BY <1>1, MemberIff
<1>3. \A i \in 1 .. Len(s.ioq) : s.ioq[i] \in Buf BY <1>1
<1> QED BY <1>2, <1>3 DEF Io

(* Nothing that matters for the contents changes, or a buffer is no longer *)
(* to be found.                                                            *)
SameData(t, s, c) ==
    /\ t.buf[c].blk = s.buf[c].blk /\ t.buf[c].cur = s.buf[c].cur
    /\ "B_DELWRI" \in t.buf[c].flags <=> "B_DELWRI" \in s.buf[c].flags
    /\ c \in Io(s) => ("B_READ" \in t.buf[c].flags <=> "B_READ" \in s.buf[c].flags)
    /\ "B_STALE" \in s.buf[c].flags => "B_STALE" \in t.buf[c].flags
    /\ "B_STALE" \notin t.buf[c].flags /\ "B_DONE" \in t.buf[c].flags /\ "B_ERROR" \notin t.buf[c].flags
         => "B_DONE" \in s.buf[c].flags /\ "B_ERROR" \notin s.buf[c].flags

(* Such a change keeps what is known of the contents. *)
LEMMA DataKept ==
    ASSUME NEW s \in StateSet, NEW t, NEW d, NEW D, Data(s, d, D), t.ioq = s.ioq,
           \A c \in Buf : SameData(t, s, c),
           \/ \A c \in Io(s) : "B_STALE" \in t.buf[c].flags <=> "B_STALE" \in s.buf[c].flags
           \/ \A c \in Io(s) : "B_STALE" \in t.buf[c].flags
    PROVE  Data(t, d, D)
<1>1. Io(t) = Io(s) BY DEF Io
<1>2. \A c \in Buf : Pend(t, D, c) <=> Pend(s, D, c) BY <1>1 DEF Pend, SameData
<1>3. \A c \in Buf : /\ t.buf[c].blk = s.buf[c].blk /\ t.buf[c].cur = s.buf[c].cur
                     /\ "B_STALE" \in s.buf[c].flags => "B_STALE" \in t.buf[c].flags
  BY DEF SameData
<1>4. Unique(t) BY <1>3 DEF Data, Unique
<1>5. Somebody(t, d, D) BY <1>2, <1>3 DEF Data, Somebody
<1>6. Unwritten(t, d, D) BY <1>2, <1>3 DEF Data, Unwritten
<1>7. Alone(t, D) BY <1>2, <1>3 DEF Data, Alone
<1>8. Valid(t)
  <2> SUFFICES ASSUME NEW b \in Buf, t.buf[b].blk # NULL, "B_STALE" \notin t.buf[b].flags,
                      "B_DONE" \in t.buf[b].flags, "B_ERROR" \notin t.buf[b].flags
               PROVE  t.buf[b].cur
    BY DEF Valid
  <2>1. SameData(t, s, b) OBVIOUS
  <2>2. /\ s.buf[b].blk # NULL /\ "B_STALE" \notin s.buf[b].flags /\ "B_DONE" \in s.buf[b].flags
        /\ "B_ERROR" \notin s.buf[b].flags
    BY <2>1 DEF SameData
  <2>3. s.buf[b].cur BY <2>2 DEF Data, Valid
  <2> QED BY <1>3, <2>3, Zenon
<1>9. Writing(t)
  <2> SUFFICES ASSUME NEW b \in Buf, b \in Io(t), "B_READ" \notin t.buf[b].flags, "B_STALE" \notin t.buf[b].flags
               PROVE  t.buf[b].cur
    BY DEF Writing
  <2>1. SameData(t, s, b) OBVIOUS
  <2>2. b \in Io(s) /\ "B_READ" \notin s.buf[b].flags /\ "B_STALE" \notin s.buf[b].flags
    BY <1>1, <2>1 DEF SameData
  <2>3. s.buf[b].cur BY <2>2 DEF Data, Writing
  <2> QED BY <1>3, <2>3, Zenon
<1>10. \A i \in 1 .. Len(s.ioq) : s.ioq[i] \in Buf /\ s.ioq[i] \in Io(s) BY IoMember
<1>11. StaleFirst(t)
  <2> SUFFICES ASSUME NEW i \in 1 .. Len(s.ioq), NEW j \in 1 .. Len(s.ioq),
                      t.buf[s.ioq[i]].blk = t.buf[s.ioq[j]].blk,
                      "B_STALE" \in t.buf[s.ioq[i]].flags, "B_STALE" \notin t.buf[s.ioq[j]].flags
               PROVE  i < j
    BY DEF StaleFirst
  <2>1. /\ "B_STALE" \in s.buf[s.ioq[i]].flags /\ "B_STALE" \notin s.buf[s.ioq[j]].flags
        /\ s.buf[s.ioq[i]].blk = s.buf[s.ioq[j]].blk
    BY <1>3, <1>10
  <2> QED BY <2>1 DEF Data, StaleFirst
<1>12. LastWrite(t)
  <2> SUFFICES ASSUME NEW i \in 1 .. Len(s.ioq), NEW j \in 1 .. Len(s.ioq), i < j,
                      t.buf[s.ioq[i]].blk = t.buf[s.ioq[j]].blk,
                      "B_READ" \notin t.buf[s.ioq[i]].flags, "B_READ" \notin t.buf[s.ioq[j]].flags
               PROVE  ~t.buf[s.ioq[i]].cur
    BY DEF LastWrite
  <2>1. SameData(t, s, s.ioq[i]) /\ SameData(t, s, s.ioq[j]) BY <1>10
  <2>2. /\ "B_READ" \notin s.buf[s.ioq[i]].flags /\ "B_READ" \notin s.buf[s.ioq[j]].flags
        /\ s.buf[s.ioq[i]].blk = s.buf[s.ioq[j]].blk
    BY <1>3, <1>10, <2>1 DEF SameData
  <2>3. ~s.buf[s.ioq[i]].cur BY <2>2 DEF Data, LastWrite
  <2>4. t.buf[s.ioq[i]].cur = s.buf[s.ioq[i]].cur BY <1>3, <1>10
  <2> QED BY <2>3, <2>4, Zenon
<1> QED BY <1>4, <1>5, <1>6, <1>7, <1>8, <1>9, <1>11, <1>12 DEF Data

(* A request joins the queue. *)
LEMMA StartsSeq ==
    ASSUME NEW s \in StateSet, NEW t, NEW b \in Buf, NEW fl, b \notin Io(s), Starts(t, s, b, fl)
    PROVE  /\ Len(s.ioq) \in Nat /\ Len(t.ioq) = Len(s.ioq) + 1 /\ t.ioq[Len(s.ioq) + 1] = b
           /\ \A i \in 1 .. Len(s.ioq) : t.ioq[i] = s.ioq[i] /\ s.ioq[i] \in Buf \ {b} /\ s.ioq[i] \in Io(s)
<1>1. s.ioq \in Seq(Buf) BY StateTyped
<1>2. PICK q : q = s.ioq OBVIOUS
<1>3. t.ioq = Append(q, b) BY <1>2 DEF Starts
<1>4. Len(q) \in Nat /\ Len(Append(q, b)) = Len(q) + 1 /\ Append(q, b)[Len(q) + 1] = b
      /\ \A i \in 1 .. Len(q) : Append(q, b)[i] = q[i]
  BY <1>1, <1>2
<1>5. \A i \in 1 .. Len(q) : q[i] \in Buf /\ q[i] \in Io(s) BY <1>2, IoMember
<1> QED BY <1>2, <1>3, <1>4, <1>5

(* A read that starts keeps it: a stale buffer is not read into. *)
LEMMA DataRead ==
    ASSUME NEW s, NEW t, NEW p, NEW H, NEW d, NEW b \in H, NEW fl, Struct(s, p, H), Data(s, d, NULL),
           b \notin Io(s), Starts(t, s, b, fl), "B_READ" \in fl,
           "B_DELWRI" \notin s.buf[b].flags, "B_DELWRI" \notin fl, "B_DONE" \notin fl,
           "B_STALE" \notin s.buf[b].flags, "B_STALE" \notin fl
    PROVE  Data(t, d, NULL)
<1>0. b \in Buf /\ s \in StateSet /\ Lonely(s) /\ NULL \notin Buf BY ConstantsAssumption DEF Struct, Apart
<1>1. Io(t) = Io(s) \cup {b} BY <1>0, StartsF
<1>2. t.buf[b].flags = fl /\ t.buf[b].blk = s.buf[b].blk /\ t.buf[b].cur = s.buf[b].cur
      /\ \A c \in Buf \ {b} : t.buf[c] = s.buf[c]
  BY DEF Starts, OnlyFlags
<1>3. \A c \in Buf : Pend(t, NULL, c) <=> Pend(s, NULL, c) BY <1>0, <1>1, <1>2 DEF Pend
<1>4. \A c \in Buf : /\ t.buf[c].blk = s.buf[c].blk /\ t.buf[c].cur = s.buf[c].cur
                     /\ "B_STALE" \in t.buf[c].flags <=> "B_STALE" \in s.buf[c].flags
  BY <1>2
<1>5. Unique(t) BY <1>4 DEF Data, Unique
<1>6. Somebody(t, d, NULL) BY <1>3, <1>4 DEF Data, Somebody
<1>7. Unwritten(t, d, NULL) BY <1>3, <1>4 DEF Data, Unwritten
<1>8. Alone(t, NULL) BY <1>3, <1>4 DEF Data, Alone
<1>9. Valid(t) BY <1>2 DEF Data, Valid
<1>10. Writing(t) BY <1>1, <1>2 DEF Data, Writing
<1> DEFINE n == Len(s.ioq)
<1>11. /\ n \in Nat /\ Len(t.ioq) = n + 1 /\ t.ioq[n + 1] = b
       /\ \A i \in 1 .. n : t.ioq[i] = s.ioq[i] /\ s.ioq[i] \in Buf \ {b}
  BY <1>0, StartsSeq
<1> HIDE DEF n
<1>12. StaleFirst(t)
  <2> SUFFICES ASSUME NEW i \in 1 .. n + 1, NEW j \in 1 .. n + 1,
                      t.buf[t.ioq[i]].blk = t.buf[t.ioq[j]].blk,
                      "B_STALE" \in t.buf[t.ioq[i]].flags, "B_STALE" \notin t.buf[t.ioq[j]].flags
               PROVE  i < j
    BY <1>11 DEF StaleFirst
  <2>1. i # n + 1 BY <1>2, <1>11
  <2>2. i \in 1 .. n BY <1>11, <2>1
  <2>3. CASE j = n + 1 BY <1>11, <2>2, <2>3
  <2>4. CASE j # n + 1
    <3>1. j \in 1 .. n BY <1>11, <2>4
    <3>2. t.buf[t.ioq[i]] = s.buf[s.ioq[i]] /\ t.buf[t.ioq[j]] = s.buf[s.ioq[j]] BY <1>2, <1>11, <2>2, <3>1
    <3> QED BY <2>2, <3>1, <3>2 DEF Data, StaleFirst, n
  <2> QED BY <2>3, <2>4
<1>13. LastWrite(t)
  <2> SUFFICES ASSUME NEW i \in 1 .. n + 1, NEW j \in 1 .. n + 1, i < j,
                      t.buf[t.ioq[i]].blk = t.buf[t.ioq[j]].blk,
                      "B_READ" \notin t.buf[t.ioq[i]].flags, "B_READ" \notin t.buf[t.ioq[j]].flags
               PROVE  ~t.buf[t.ioq[i]].cur
    BY <1>11 DEF LastWrite
  <2>1. i # n + 1 /\ j # n + 1 BY <1>2, <1>11
  <2>2. i \in 1 .. n /\ j \in 1 .. n BY <1>11, <2>1
  <2>3. t.buf[t.ioq[i]] = s.buf[s.ioq[i]] /\ t.buf[t.ioq[j]] = s.buf[s.ioq[j]] BY <1>2, <1>11, <2>2
  <2> QED BY <2>2, <2>3 DEF Data, LastWrite, n
<1> QED BY <1>5, <1>6, <1>7, <1>8, <1>9, <1>10, <1>12, <1>13 DEF Data

(* So does a write of current contents: the older requests for the block   *)
(* are for stale buffers.                                                  *)
LEMMA DataWrite ==
    ASSUME NEW s, NEW t, NEW p, NEW H, NEW d, NEW b \in H, NEW D \in {NULL, b}, NEW fl,
           Struct(s, p, H), Data(s, d, D),
           b \notin Io(s), Starts(t, s, b, fl), s.buf[b].blk # NULL, "B_READ" \notin fl,
           "B_DELWRI" \in s.buf[b].flags \/ D = b, s.buf[b].cur, "B_DELWRI" \notin fl, "B_DONE" \notin fl,
           "B_STALE" \notin s.buf[b].flags, "B_STALE" \notin fl
    PROVE  Data(t, d, NULL)
<1>0. b \in Buf /\ s \in StateSet /\ Lonely(s) /\ NULL \notin Buf BY ConstantsAssumption DEF Struct, Apart
<1>1. Io(t) = Io(s) \cup {b} BY <1>0, StartsF
<1>2. t.buf[b].flags = fl /\ t.buf[b].blk = s.buf[b].blk /\ t.buf[b].cur = s.buf[b].cur
      /\ \A c \in Buf \ {b} : t.buf[c] = s.buf[c]
  BY DEF Starts, OnlyFlags
<1>3. \A c \in Buf : Pend(t, NULL, c) <=> Pend(s, D, c) BY <1>0, <1>1, <1>2 DEF Pend
<1>4. \A c \in Buf : /\ t.buf[c].blk = s.buf[c].blk /\ t.buf[c].cur = s.buf[c].cur
                     /\ "B_STALE" \in t.buf[c].flags <=> "B_STALE" \in s.buf[c].flags
  BY <1>2
<1>5. Unique(t) BY <1>4 DEF Data, Unique
<1>6. Somebody(t, d, NULL) BY <1>3, <1>4 DEF Data, Somebody
<1>7. Unwritten(t, d, NULL) BY <1>3, <1>4 DEF Data, Unwritten
<1>8. Alone(t, NULL) BY <1>3, <1>4 DEF Data, Alone
<1>9. Valid(t) BY <1>2 DEF Data, Valid
<1>10. Writing(t) BY <1>1, <1>2 DEF Data, Writing
<1> DEFINE n == Len(s.ioq)
<1>11. /\ n \in Nat /\ Len(t.ioq) = n + 1 /\ t.ioq[n + 1] = b
       /\ \A i \in 1 .. n : t.ioq[i] = s.ioq[i] /\ s.ioq[i] \in Buf \ {b} /\ s.ioq[i] \in Io(s)
  BY <1>0, StartsSeq
<1> HIDE DEF n
<1>12. StaleFirst(t)
  <2> SUFFICES ASSUME NEW i \in 1 .. n + 1, NEW j \in 1 .. n + 1,
                      t.buf[t.ioq[i]].blk = t.buf[t.ioq[j]].blk,
                      "B_STALE" \in t.buf[t.ioq[i]].flags, "B_STALE" \notin t.buf[t.ioq[j]].flags
               PROVE  i < j
    BY <1>11 DEF StaleFirst
  <2>1. i # n + 1 BY <1>2, <1>11
  <2>2. i \in 1 .. n BY <1>11, <2>1
  <2>3. CASE j = n + 1 BY <1>11, <2>2, <2>3
  <2>4. CASE j # n + 1
    <3>1. j \in 1 .. n BY <1>11, <2>4
    <3>2. t.buf[t.ioq[i]] = s.buf[s.ioq[i]] /\ t.buf[t.ioq[j]] = s.buf[s.ioq[j]] BY <1>2, <1>11, <2>2, <3>1
    <3> QED BY <2>2, <3>1, <3>2 DEF Data, StaleFirst, n
  <2> QED BY <2>3, <2>4
<1>13. LastWrite(t)
  <2> SUFFICES ASSUME NEW i \in 1 .. n + 1, NEW j \in 1 .. n + 1, i < j,
                      t.buf[t.ioq[i]].blk = t.buf[t.ioq[j]].blk,
                      "B_READ" \notin t.buf[t.ioq[i]].flags, "B_READ" \notin t.buf[t.ioq[j]].flags
               PROVE  ~t.buf[t.ioq[i]].cur
    BY <1>11 DEF LastWrite
  <2>1. i \in 1 .. n BY <1>11
  <2>2. t.buf[t.ioq[i]] = s.buf[s.ioq[i]] /\ s.ioq[i] \in Buf \ {b} /\ s.ioq[i] \in Io(s) BY <1>2, <1>11, <2>1
  <2>3. CASE j = n + 1
    <3>1. s.buf[b].blk = s.buf[s.ioq[i]].blk BY <1>2, <1>11, <2>2, <2>3
    <3>2. Pend(s, D, b) BY DEF Pend
    <3>3. ~s.buf[s.ioq[i]].cur BY <1>0, <2>2, <3>1, <3>2 DEF Data, Alone
    <3> QED BY <2>2, <3>3, Zenon
  <2>4. CASE j # n + 1
    <3>1. j \in 1 .. n BY <1>11, <2>4
    <3>2. t.buf[t.ioq[j]] = s.buf[s.ioq[j]] BY <1>2, <1>11, <3>1
    <3> QED BY <2>1, <2>2, <3>1, <3>2 DEF Data, LastWrite, n
  <2> QED BY <2>3, <2>4
<1> QED BY <1>5, <1>6, <1>7, <1>8, <1>9, <1>10, <1>12, <1>13 DEF Data

(* Two of those that stay keep their order. *)
Ordered(t, s, b, i, j) ==
    \E x, y \in 1 .. Len(s.ioq) :
        /\ t.ioq[i] = s.ioq[x] /\ t.ioq[j] = s.ioq[y] /\ (x < y <=> i < j)
        /\ s.ioq[x] \in Buf \ {b} /\ s.ioq[y] \in Buf \ {b}

(* The end of one request keeps the order of the others. *)
LEMMA CompletesOrder ==
    ASSUME NEW s \in StateSet, NEW t, NEW b \in Io(s), NEW fl, Lonely(s), Completes(t, s, b, fl),
           NEW i \in 1 .. Len(t.ioq), NEW j \in 1 .. Len(t.ioq)
    PROVE  Ordered(t, s, b, i, j)
<1>1. s.ioq \in Seq(Buf) /\ IsInjective(s.ioq) BY StateTyped DEF Lonely
<1>2. PICK q : q = s.ioq OBVIOUS
<1>3. q \in Seq(Buf) /\ IsInjective(q) /\ b \in ToSet(q) /\ Len(q) \in Nat BY <1>1, <1>2 DEF Io
<1>4. PICK r : r = RemoveFirst(q, b) OBVIOUS
<1>5. PICK k \in 1..Len(q) :
         /\ q[k] = b /\ Len(r) = Len(q) - 1
         /\ \A n \in 1..Len(q) - 1 : r[n] = IF n < k THEN q[n] ELSE q[n + 1]
  BY <1>3, <1>4, RemoveFirstOrder
<1>6. t.ioq = r BY <1>2, <1>4 DEF Completes
<1>7. \A a, c \in 1..Len(q) : q[a] = q[c] => a = c BY <1>3 DEF IsInjective
<1> DEFINE o(n) == IF n < k THEN n ELSE n + 1
<1>8. ASSUME NEW n \in 1 .. Len(q) - 1 PROVE o(n) \in 1 .. Len(q) /\ o(n) # k /\ r[n] = q[o(n)]
  BY <1>3, <1>5, SMTT(30)
<1>9. \A n \in 1 .. Len(q) - 1 : q[o(n)] \in Buf \ {b} BY <1>3, <1>5, <1>7, <1>8
<1>10. i \in 1 .. Len(q) - 1 /\ j \in 1 .. Len(q) - 1 BY <1>5, <1>6
<1>11. o(i) < o(j) <=> i < j BY <1>3, <1>5, <1>10
<1> QED BY <1>2, <1>6, <1>8, <1>9, <1>10, <1>11 DEF Ordered

(* The holder changes the contents of b's block: the disk has them no      *)
(* longer.                                                                 *)
LEMMA DataModify ==
    ASSUME NEW s \in StateSet, NEW b \in Buf, NEW d, NEW e, Data(s, d, NULL),
           b \notin Io(s), s.buf[b].blk # NULL, "B_STALE" \notin s.buf[b].flags,
           \A n \in Block : e[n] <=> d[n] /\ n # s.buf[b].blk
    PROVE  Data(Modify(s, b), e, b) /\ Modify(s, b).buf[b].cur
<1> DEFINE t == Modify(s, b)
           n == s.buf[b].blk
<1>0. NULL \notin Buf BY ConstantsAssumption
<1>1. t \in StateSet /\ SameLists(t, s)
      /\ \A c \in Buf : /\ t.buf[c].flags = s.buf[c].flags /\ t.buf[c].blk = s.buf[c].blk
                        /\ t.buf[c].cur = IF s.buf[c].blk = n /\ n # NULL THEN (c = b) ELSE s.buf[c].cur
  BY ModifyF
<1> HIDE DEF t
<1>2. n # NULL /\ n \in Block BY BufTyped
<1>3. \A c \in Buf : s.buf[c].blk = n => (t.buf[c].cur <=> c = b) BY <1>1, <1>2
<1>4. \A c \in Buf : s.buf[c].blk # n => t.buf[c].cur = s.buf[c].cur BY <1>1
<1>5. t.ioq = s.ioq /\ Io(t) = Io(s) BY <1>1 DEF SameLists, Io
<1>6. \A c \in Buf : t.buf[c].flags = s.buf[c].flags /\ t.buf[c].blk = s.buf[c].blk BY <1>1
<1> HIDE DEF n
<1>7. \A c \in Buf : Pend(t, b, c) <=> Pend(s, NULL, c) \/ c = b BY <1>0, <1>5, <1>6 DEF Pend
<1>8. t.buf[b].cur BY <1>3 DEF n
<1>9. Unique(t) BY <1>6 DEF Data, Unique
<1>10. Somebody(t, e, b)
  <2> SUFFICES ASSUME NEW k \in Block, ~e[k]
               PROVE  \E c \in Buf : t.buf[c].blk = k /\ t.buf[c].cur /\ Pend(t, b, c)
    BY DEF Somebody
  <2>1. CASE k = n
    <3>1. t.buf[b].blk = k /\ Pend(t, b, b) BY <1>6, <1>7, <2>1 DEF n
    <3> QED BY <1>8, <3>1
  <2>2. CASE k # n
    <3>1. ~d[k] BY <2>2 DEF n
    <3>2. PICK c \in Buf : s.buf[c].blk = k /\ s.buf[c].cur /\ Pend(s, NULL, c) BY <3>1 DEF Data, Somebody
    <3>3. t.buf[c].cur = s.buf[c].cur /\ t.buf[c].blk = k /\ Pend(t, b, c) BY <1>4, <1>6, <1>7, <2>2, <3>2
    <3> QED BY <3>2, <3>3
  <2> QED BY <2>1, <2>2
<1>11. Unwritten(t, e, b)
  <2> SUFFICES ASSUME NEW c \in Buf, t.buf[c].blk # NULL, Pend(t, b, c) PROVE ~e[t.buf[c].blk]
    BY DEF Unwritten
  <2>1. t.buf[c].blk = s.buf[c].blk /\ s.buf[c].blk \in Block BY <1>6, BufTyped
  <2>2. CASE s.buf[c].blk = n BY <2>1, <2>2 DEF n
  <2>3. CASE s.buf[c].blk # n
    <3>1. Pend(s, NULL, c) BY <1>7, <2>3 DEF n
    <3>2. ~d[s.buf[c].blk] BY <2>1, <3>1 DEF Data, Unwritten
    <3> QED BY <2>1, <3>2
  <2> QED BY <2>2, <2>3
<1>12. Alone(t, b)
  <2> SUFFICES ASSUME NEW x \in Buf, NEW c \in Buf, x # c, t.buf[x].blk # NULL, t.buf[x].blk = t.buf[c].blk,
                      Pend(t, b, x), t.buf[x].cur
               PROVE  ~t.buf[c].cur
    BY DEF Alone
  <2>1. s.buf[x].blk # NULL /\ s.buf[x].blk = s.buf[c].blk BY <1>6
  <2>2. CASE s.buf[x].blk = n BY <1>3, <2>1, <2>2
  <2>3. CASE s.buf[x].blk # n
    <3>1. Pend(s, NULL, x) BY <1>7, <2>3 DEF n
    <3>2. t.buf[x].cur = s.buf[x].cur /\ t.buf[c].cur = s.buf[c].cur BY <1>4, <2>1, <2>3
    <3>3. s.buf[x].cur BY <3>2, Zenon
    <3>4. ~s.buf[c].cur BY <2>1, <3>1, <3>3 DEF Data, Alone
    <3> QED BY <3>2, <3>4, Zenon
  <2> QED BY <2>2, <2>3
<1>13. \A c \in Buf : s.buf[c].blk = n /\ c # b => "B_STALE" \in s.buf[c].flags
  BY <1>2 DEF Data, Unique, n
<1>14. Valid(t)
  <2> SUFFICES ASSUME NEW c \in Buf, t.buf[c].blk # NULL, "B_STALE" \notin t.buf[c].flags,
                      "B_DONE" \in t.buf[c].flags, "B_ERROR" \notin t.buf[c].flags
               PROVE  t.buf[c].cur
    BY DEF Valid
  <2>1. CASE c = b BY <1>8, <2>1
  <2>2. CASE c # b
    <3>1. s.buf[c].blk # n BY <1>6, <1>13, <2>2
    <3>2. s.buf[c].cur BY <1>6 DEF Data, Valid
    <3> QED BY <1>4, <3>1, <3>2, Zenon
  <2> QED BY <2>1, <2>2
<1>15. Writing(t)
  <2> SUFFICES ASSUME NEW c \in Buf, c \in Io(t), "B_READ" \notin t.buf[c].flags, "B_STALE" \notin t.buf[c].flags
               PROVE  t.buf[c].cur
    BY DEF Writing
  <2>1. c # b BY <1>5
  <2>2. s.buf[c].blk # n BY <1>6, <1>13, <2>1
  <2>3. s.buf[c].cur BY <1>5, <1>6 DEF Data, Writing
  <2> QED BY <1>4, <2>2, <2>3, Zenon
<1>16. \A i \in 1 .. Len(s.ioq) : s.ioq[i] \in Buf /\ s.ioq[i] \in Io(s) BY IoMember
<1>17. StaleFirst(t) BY <1>5, <1>6, <1>16, SMTT(30) DEF Data, StaleFirst
<1>18. LastWrite(t)
  <2> SUFFICES ASSUME NEW i \in 1 .. Len(s.ioq), NEW j \in 1 .. Len(s.ioq), i < j,
                      t.buf[s.ioq[i]].blk = t.buf[s.ioq[j]].blk,
                      "B_READ" \notin t.buf[s.ioq[i]].flags, "B_READ" \notin t.buf[s.ioq[j]].flags
               PROVE  ~t.buf[s.ioq[i]].cur
    BY <1>5 DEF LastWrite
  <2>1. s.ioq[i] # b /\ s.ioq[i] \in Buf /\ s.ioq[j] \in Buf BY <1>16
  <2>2. CASE s.buf[s.ioq[i]].blk = n BY <1>3, <2>1, <2>2
  <2>3. CASE s.buf[s.ioq[i]].blk # n
    <3>1. ~s.buf[s.ioq[i]].cur BY <1>6, <2>1 DEF Data, LastWrite
    <3> QED BY <1>4, <2>1, <2>3, <3>1, Zenon
  <2> QED BY <2>2, <2>3
<1> QED BY <1>8, <1>9, <1>10, <1>11, <1>12, <1>14, <1>15, <1>17, <1>18 DEF Data, t

(* A header in hand gets a new identity, or none. *)
LEMMA DataNew ==
    ASSUME NEW s \in StateSet, NEW t, NEW b \in Buf, NEW d, Data(s, d, NULL), t.ioq = s.ioq, b \notin Io(s),
           "B_DELWRI" \notin s.buf[b].flags, "B_DELWRI" \notin t.buf[b].flags,
           \A c \in Buf \ {b} : t.buf[c] = s.buf[c],
           \/ t.buf[b].blk = NULL
           \/ /\ ~t.buf[b].cur /\ "B_DONE" \notin t.buf[b].flags
              /\ \A c \in Buf \ {b} : s.buf[c].blk = t.buf[b].blk => "B_STALE" \in s.buf[c].flags
    PROVE  Data(t, d, NULL)
<1>0. NULL \notin Buf /\ NULL \notin Block BY ConstantsAssumption
<1>1. Io(t) = Io(s) BY DEF Io
<1>2. ~Pend(t, NULL, b) /\ ~Pend(s, NULL, b) BY <1>0, <1>1 DEF Pend
<1>3. \A c \in Buf : c # b => t.buf[c] = s.buf[c] /\ (Pend(t, NULL, c) <=> Pend(s, NULL, c))
  BY <1>1 DEF Pend
<1>4. Unique(t) BY <1>3 DEF Data, Unique
<1>5. Somebody(t, d, NULL)
  <2> SUFFICES ASSUME NEW k \in Block, ~d[k]
               PROVE  \E c \in Buf : t.buf[c].blk = k /\ t.buf[c].cur /\ Pend(t, NULL, c)
    BY DEF Somebody
  <2>1. PICK c \in Buf : s.buf[c].blk = k /\ s.buf[c].cur /\ Pend(s, NULL, c) BY DEF Data, Somebody
  <2>2. c # b BY <1>2, <2>1
  <2> QED BY <1>3, <2>1, <2>2
<1>6. Unwritten(t, d, NULL) BY <1>2, <1>3 DEF Data, Unwritten
<1>7. Alone(t, NULL)
  <2> SUFFICES ASSUME NEW x \in Buf, NEW c \in Buf, x # c, t.buf[x].blk # NULL, t.buf[x].blk = t.buf[c].blk,
                      Pend(t, NULL, x), t.buf[x].cur
               PROVE  ~t.buf[c].cur
    BY DEF Alone
  <2>1. x # b BY <1>2
  <2>2. CASE c = b BY <2>2
  <2>3. CASE c # b BY <1>3, <2>1, <2>3 DEF Data, Alone
  <2> QED BY <2>2, <2>3
<1>8. Valid(t) BY <1>3 DEF Data, Valid
<1>9. Writing(t)
  <2>1. \A c \in Buf : c \in Io(t) => c # b BY <1>1
  <2> QED BY <1>1, <1>3, <2>1 DEF Data, Writing
<1>10. \A i \in 1 .. Len(s.ioq) : t.buf[s.ioq[i]] = s.buf[s.ioq[i]] BY <1>3, IoMember
<1>11. StaleFirst(t) BY <1>10 DEF Data, StaleFirst
<1>12. LastWrite(t) BY <1>10, SMTT(30) DEF Data, LastWrite
<1> QED BY <1>4, <1>5, <1>6, <1>7, <1>8, <1>9, <1>11, <1>12 DEF Data

(* The change is marked to be written later. *)
LEMMA DataDelay ==
    ASSUME NEW s \in StateSet, NEW t, NEW b \in Buf, NEW d, Data(s, d, b), t.ioq = s.ioq, b \notin Io(s),
           OnlyFlags(t, s, b, s.buf[b].flags \cup {"B_DELWRI", "B_DONE"}), s.buf[b].cur
    PROVE  Data(t, d, NULL)
<1>0. NULL \notin Buf BY ConstantsAssumption
<1>1. Io(t) = Io(s) BY DEF Io
<1>2. /\ t.buf[b].flags = s.buf[b].flags \cup {"B_DELWRI", "B_DONE"}
      /\ \A c \in Buf : t.buf[c].blk = s.buf[c].blk /\ t.buf[c].cur = s.buf[c].cur
      /\ \A c \in Buf \ {b} : t.buf[c] = s.buf[c]
  BY DEF OnlyFlags
<1>3. \A c \in Buf : Pend(t, NULL, c) <=> Pend(s, b, c) BY <1>0, <1>1, <1>2 DEF Pend
<1>4. \A c \in Buf : "B_STALE" \in t.buf[c].flags <=> "B_STALE" \in s.buf[c].flags BY <1>2
<1>5. Unique(t) BY <1>2, <1>4 DEF Data, Unique
<1>6. Somebody(t, d, NULL) BY <1>2, <1>3 DEF Data, Somebody
<1>7. Unwritten(t, d, NULL) BY <1>2, <1>3 DEF Data, Unwritten
<1>8. Alone(t, NULL) BY <1>2, <1>3 DEF Data, Alone
<1>9. Valid(t)
  <2> SUFFICES ASSUME NEW c \in Buf, t.buf[c].blk # NULL, "B_STALE" \notin t.buf[c].flags,
                      "B_DONE" \in t.buf[c].flags, "B_ERROR" \notin t.buf[c].flags
               PROVE  t.buf[c].cur
    BY DEF Valid
  <2>1. CASE c = b BY <1>2, <2>1, Zenon
  <2>2. CASE c # b BY <1>2, <2>2 DEF Data, Valid
  <2> QED BY <2>1, <2>2
<1>10. Writing(t)
  <2>1. \A c \in Buf : c \in Io(t) => c # b BY <1>1
  <2> QED BY <1>1, <1>2, <2>1 DEF Data, Writing
<1>11. \A i \in 1 .. Len(s.ioq) : t.buf[s.ioq[i]] = s.buf[s.ioq[i]] BY <1>2, IoMember
<1>12. StaleFirst(t) BY <1>11 DEF Data, StaleFirst
<1>13. LastWrite(t) BY <1>11 DEF Data, LastWrite
<1> QED BY <1>5, <1>6, <1>7, <1>8, <1>9, <1>10, <1>12, <1>13 DEF Data

(* No request for the block of b is older. *)
FirstIn(s, b) ==
    \E i \in 1 .. Len(s.ioq) : s.ioq[i] = b /\ \A j \in 1 .. i - 1 : s.buf[s.ioq[j]].blk # s.buf[b].blk

(* The others of its block come later. *)
LEMMA FirstOf ==
    ASSUME NEW s \in StateSet, NEW b \in Io(s), NEW c \in Io(s), Lonely(s), FirstIn(s, b), c # b,
           s.buf[c].blk = s.buf[b].blk
    PROVE  \E i, j \in 1 .. Len(s.ioq) : i < j /\ s.ioq[i] = b /\ s.ioq[j] = c
<1>1. PICK i \in 1 .. Len(s.ioq) : s.ioq[i] = b /\ \A j \in 1 .. i - 1 : s.buf[s.ioq[j]].blk # s.buf[b].blk
  BY DEF FirstIn
<1>2. PICK j \in 1 .. Len(s.ioq) : s.ioq[j] = c BY IoMember
<1>3. s.ioq \in Seq(Buf) BY StateTyped
<1>4. Len(s.ioq) \in Nat BY <1>3
<1>5. j \notin 1 .. i - 1 BY <1>1, <1>2
<1>6. i # j BY <1>1, <1>2
<1>7. i < j BY <1>4, <1>5, <1>6
<1> QED BY <1>1, <1>2, <1>7

(* What stays of the requests when b's has ended. *)
LEMMA DoneQueue ==
    ASSUME NEW s \in StateSet, NEW t, NEW b \in Io(s), NEW fl, Lonely(s), Completes(t, s, b, fl),
           StaleFirst(s), LastWrite(s)
    PROVE  StaleFirst(t) /\ LastWrite(t)
<1>0. ASSUME NEW i \in 1 .. Len(t.ioq), NEW j \in 1 .. Len(t.ioq) PROVE Ordered(t, s, b, i, j)
  BY CompletesOrder
<1>1. \A c \in Buf \ {b} : t.buf[c] = s.buf[c] BY DEF Completes
<1>2. StaleFirst(t)
  <2> SUFFICES ASSUME NEW i \in 1 .. Len(t.ioq), NEW j \in 1 .. Len(t.ioq),
                      t.buf[t.ioq[i]].blk = t.buf[t.ioq[j]].blk,
                      "B_STALE" \in t.buf[t.ioq[i]].flags, "B_STALE" \notin t.buf[t.ioq[j]].flags
               PROVE  i < j
    BY DEF StaleFirst
  <2>0. Ordered(t, s, b, i, j) BY <1>0
  <2>1. PICK x, y \in 1 .. Len(s.ioq) :
              /\ t.ioq[i] = s.ioq[x] /\ t.ioq[j] = s.ioq[y] /\ (x < y <=> i < j)
              /\ s.ioq[x] \in Buf \ {b} /\ s.ioq[y] \in Buf \ {b}
    BY <2>0 DEF Ordered
  <2>2. t.buf[t.ioq[i]] = s.buf[s.ioq[x]] /\ t.buf[t.ioq[j]] = s.buf[s.ioq[y]] BY <1>1, <2>1
  <2>3. x < y BY <2>1, <2>2 DEF StaleFirst
  <2> QED BY <2>1, <2>3
<1>3. LastWrite(t)
  <2> SUFFICES ASSUME NEW i \in 1 .. Len(t.ioq), NEW j \in 1 .. Len(t.ioq), i < j,
                      t.buf[t.ioq[i]].blk = t.buf[t.ioq[j]].blk,
                      "B_READ" \notin t.buf[t.ioq[i]].flags, "B_READ" \notin t.buf[t.ioq[j]].flags
               PROVE  ~t.buf[t.ioq[i]].cur
    BY DEF LastWrite
  <2>0. Ordered(t, s, b, i, j) BY <1>0
  <2>1. PICK x, y \in 1 .. Len(s.ioq) :
              /\ t.ioq[i] = s.ioq[x] /\ t.ioq[j] = s.ioq[y] /\ (x < y <=> i < j)
              /\ s.ioq[x] \in Buf \ {b} /\ s.ioq[y] \in Buf \ {b}
    BY <2>0 DEF Ordered
  <2>2. t.buf[t.ioq[i]] = s.buf[s.ioq[x]] /\ t.buf[t.ioq[j]] = s.buf[s.ioq[y]] BY <1>1, <2>1
  <2>3. x < y BY <2>1
  <2> QED BY <2>1, <2>2, <2>3 DEF LastWrite
<1> QED BY <1>2, <1>3

(* A delayed write is valid and current. *)
LEMMA DelayedCurrent ==
    ASSUME NEW s, NEW p, NEW H, NEW c \in Buf, NEW d, NEW D, Struct(s, p, H), Data(s, d, D),
           "B_DELWRI" \in s.buf[c].flags
    PROVE  /\ s.buf[c].cur /\ s.buf[c].blk # NULL /\ "B_STALE" \notin s.buf[c].flags
           /\ "B_DONE" \in s.buf[c].flags
<1>1. BufOK(s, H, c) BY DEF Struct
<1>2. /\ "B_DONE" \in s.buf[c].flags /\ s.buf[c].blk # NULL
      /\ "B_STALE" \notin s.buf[c].flags /\ "B_ERROR" \notin s.buf[c].flags
  BY <1>1 DEF BufOK
<1> QED BY <1>2 DEF Data, Valid

(* The end of a read: the buffer has what the disk has. *)
LEMMA DoneRead ==
    ASSUME NEW s, NEW t, NEW b \in Io(s), NEW d, NEW error \in BOOLEAN, Struct(s, NULL, {}), Data(s, d, NULL),
           Completes(t, s, b, DoneFlags(s.buf[b].flags, error)), FirstIn(s, b), "B_READ" \in s.buf[b].flags,
           t.buf[b].cur <=> d[s.buf[b].blk] /\ ~error
    PROVE  Data(t, d, NULL)
<1>0. b \in Buf /\ s \in StateSet /\ Lonely(s) /\ NULL \notin Buf BY ConstantsAssumption, IoMember DEF Struct
<1>1. Io(t) = Io(s) \ {b} BY <1>0, CompletesF
<1>2. BufOK(s, {}, b) BY <1>0 DEF Struct
<1>3. /\ s.buf[b].blk # NULL /\ s.buf[b].blk \in Block /\ "B_DELWRI" \notin s.buf[b].flags
      /\ t.buf[b].blk = s.buf[b].blk /\ t.buf[b].flags = DoneFlags(s.buf[b].flags, error)
      /\ \A c \in Buf \ {b} : t.buf[c] = s.buf[c]
  BY <1>0, <1>2, BufTyped DEF BufOK, Completes
<1>4. /\ "B_DELWRI" \notin t.buf[b].flags /\ ("B_STALE" \in t.buf[b].flags <=> "B_STALE" \in s.buf[b].flags)
      /\ ("B_ERROR" \notin t.buf[b].flags => ~error)
  BY <1>3 DEF DoneFlags
<1>5. ~Pend(t, NULL, b) /\ ~Pend(s, NULL, b) BY <1>0, <1>1, <1>3, <1>4 DEF Pend
<1>6. \A c \in Buf : c # b => t.buf[c] = s.buf[c] /\ (Pend(t, NULL, c) <=> Pend(s, NULL, c))
  BY <1>1, <1>3 DEF Pend
<1>7. Unique(t) BY <1>3, <1>4, <1>6 DEF Data, Unique
<1>8. Somebody(t, d, NULL)
  <2> SUFFICES ASSUME NEW k \in Block, ~d[k]
               PROVE  \E c \in Buf : t.buf[c].blk = k /\ t.buf[c].cur /\ Pend(t, NULL, c)
    BY DEF Somebody
  <2>1. PICK c \in Buf : s.buf[c].blk = k /\ s.buf[c].cur /\ Pend(s, NULL, c) BY DEF Data, Somebody
  <2>2. c # b BY <1>5, <2>1
  <2> QED BY <1>6, <2>1, <2>2
<1>9. Unwritten(t, d, NULL) BY <1>5, <1>6 DEF Data, Unwritten
<1>10. Alone(t, NULL)
  <2> SUFFICES ASSUME NEW x \in Buf, NEW c \in Buf, x # c, t.buf[x].blk # NULL, t.buf[x].blk = t.buf[c].blk,
                      Pend(t, NULL, x), t.buf[x].cur
               PROVE  ~t.buf[c].cur
    BY DEF Alone
  <2>1. x # b BY <1>5
  <2>2. CASE c = b
    <3>1. s.buf[x].blk # NULL /\ Pend(s, NULL, x) /\ s.buf[x].blk = s.buf[b].blk BY <1>3, <1>6, <2>1, <2>2
    <3>2. ~d[s.buf[b].blk] BY <3>1 DEF Data, Unwritten
    <3> QED BY <2>2, <3>2
  <2>3. CASE c # b BY <1>6, <2>1, <2>3 DEF Data, Alone
  <2> QED BY <2>2, <2>3
<1>11. "B_STALE" \notin s.buf[b].flags => d[s.buf[b].blk]
  <2> SUFFICES ASSUME "B_STALE" \notin s.buf[b].flags, ~d[s.buf[b].blk] PROVE FALSE OBVIOUS
  <2>1. PICK c \in Buf : s.buf[c].blk = s.buf[b].blk /\ s.buf[c].cur /\ Pend(s, NULL, c)
    BY <1>3 DEF Data, Somebody
  <2>2. c # b BY <1>5, <2>1
  <2>3. "B_STALE" \in s.buf[c].flags BY <1>0, <1>3, <2>1, <2>2 DEF Data, Unique
  <2>4. "B_DELWRI" \notin s.buf[c].flags BY <2>3, DelayedCurrent
  <2>5. c \in Io(s) BY <1>0, <2>1, <2>4 DEF Pend
  <2>6. PICK i, j \in 1 .. Len(s.ioq) : i < j /\ s.ioq[i] = b /\ s.ioq[j] = c
    BY <1>0, <2>1, <2>2, <2>5, FirstOf
  <2>7. j < i BY <2>1, <2>3, <2>6 DEF Data, StaleFirst
  <2>8. i \in Int /\ j \in Int OBVIOUS
  <2> QED BY <2>6, <2>7, <2>8
<1>12. Valid(t)
  <2> SUFFICES ASSUME NEW c \in Buf, t.buf[c].blk # NULL, "B_STALE" \notin t.buf[c].flags,
                      "B_DONE" \in t.buf[c].flags, "B_ERROR" \notin t.buf[c].flags
               PROVE  t.buf[c].cur
    BY DEF Valid
  <2>1. CASE c = b BY <1>4, <1>11, <2>1
  <2>2. CASE c # b BY <1>6, <2>2 DEF Data, Valid
  <2> QED BY <2>1, <2>2
<1>13. Writing(t) BY <1>1, <1>6 DEF Data, Writing
<1>14. StaleFirst(t) /\ LastWrite(t) BY <1>0, DoneQueue DEF Data
<1> QED BY <1>7, <1>8, <1>9, <1>10, <1>12, <1>13, <1>14 DEF Data

(* The end of a write: the disk has what the buffer has, or what it had if *)
(* the write failed.                                                       *)
LEMMA DoneWrite ==
    ASSUME NEW s, NEW t, NEW b \in Io(s), NEW d, NEW e, NEW error \in BOOLEAN, Struct(s, NULL, {}), Data(s, d, NULL),
           Completes(t, s, b, DoneFlags(s.buf[b].flags, error)), FirstIn(s, b), "B_READ" \notin s.buf[b].flags,
           t.buf[b].cur = s.buf[b].cur,
           \A n \in Block : n # s.buf[b].blk => (e[n] <=> d[n]),
           e[s.buf[b].blk] <=> s.buf[b].cur \/ (error /\ d[s.buf[b].blk])
    PROVE  Data(t, e, NULL)
<1> DEFINE n == s.buf[b].blk
<1>0. b \in Buf /\ s \in StateSet /\ Lonely(s) /\ NULL \notin Buf BY ConstantsAssumption, IoMember DEF Struct
<1>1. Io(t) = Io(s) \ {b} BY <1>0, CompletesF
<1>2. BufOK(s, {}, b) BY <1>0 DEF Struct
<1>3. /\ n # NULL /\ n \in Block /\ "B_DELWRI" \notin s.buf[b].flags
      /\ t.buf[b].blk = n /\ t.buf[b].flags = DoneFlags(s.buf[b].flags, error)
      /\ \A c \in Buf \ {b} : t.buf[c] = s.buf[c]
  BY <1>0, <1>2, BufTyped DEF BufOK, Completes
<1>4. /\ "B_DELWRI" \notin t.buf[b].flags /\ ("B_STALE" \in t.buf[b].flags <=> "B_STALE" \in s.buf[b].flags)
  BY <1>3 DEF DoneFlags
<1>5. ~Pend(t, NULL, b) /\ Pend(s, NULL, b) BY <1>0, <1>1, <1>3, <1>4 DEF Pend
<1>6. \A c \in Buf : c # b => t.buf[c] = s.buf[c] /\ (Pend(t, NULL, c) <=> Pend(s, NULL, c))
  BY <1>1, <1>3 DEF Pend
<1>7. ~d[n] BY <1>0, <1>3, <1>5 DEF Data, Unwritten
<1>8. e[n] <=> s.buf[b].cur BY <1>7 DEF n
<1>9. \A k \in Block : k # n => (e[k] <=> d[k]) BY DEF n
<1>10. s.buf[b].blk = n OBVIOUS
<1> HIDE DEF n
<1>11. Unique(t) BY <1>3, <1>4, <1>6, <1>10 DEF Data, Unique
<1>12. Somebody(t, e, NULL)
  <2> SUFFICES ASSUME NEW k \in Block, ~e[k]
               PROVE  \E c \in Buf : t.buf[c].blk = k /\ t.buf[c].cur /\ Pend(t, NULL, c)
    BY DEF Somebody
  <2>1. ~d[k] BY <1>7, <1>9
  <2>2. PICK c \in Buf : s.buf[c].blk = k /\ s.buf[c].cur /\ Pend(s, NULL, c) BY <2>1 DEF Data, Somebody
  <2>3. c # b
    <3>1. SUFFICES ASSUME c = b PROVE FALSE OBVIOUS
    <3>2. k = n /\ s.buf[b].cur BY <1>10, <2>2, <3>1
    <3> QED BY <1>8, <3>2
  <2> QED BY <1>6, <2>2, <2>3
<1>13. Unwritten(t, e, NULL)
  <2> SUFFICES ASSUME NEW c \in Buf, t.buf[c].blk # NULL, Pend(t, NULL, c) PROVE ~e[t.buf[c].blk]
    BY DEF Unwritten
  <2>1. c # b BY <1>5
  <2>2. t.buf[c] = s.buf[c] /\ Pend(s, NULL, c) /\ s.buf[c].blk \in Block BY <1>0, <1>6, <2>1, BufTyped
  <2>3. ~d[s.buf[c].blk] BY <2>2 DEF Data, Unwritten
  <2>4. CASE s.buf[c].blk # n BY <1>9, <2>2, <2>3, <2>4
  <2>5. CASE s.buf[c].blk = n
    <3> SUFFICES ASSUME s.buf[b].cur PROVE FALSE BY <1>8, <2>2, <2>5
    <3>1. ~s.buf[c].cur BY <1>0, <1>3, <1>5, <1>10, <2>1, <2>5 DEF Data, Alone
    <3>2. "B_DELWRI" \notin s.buf[c].flags BY <3>1, DelayedCurrent
    <3>3. c \in Io(s) /\ "B_READ" \notin s.buf[c].flags BY <1>0, <2>2, <3>2 DEF Pend
    <3>4. PICK i, j \in 1 .. Len(s.ioq) : i < j /\ s.ioq[i] = b /\ s.ioq[j] = c
      BY <1>0, <1>10, <2>1, <2>5, <3>3, FirstOf
    <3>5. ~s.buf[b].cur BY <1>10, <2>5, <3>3, <3>4 DEF Data, LastWrite
    <3> QED BY <3>5
  <2> QED BY <2>4, <2>5
<1>14. \A c \in Buf : t.buf[c].blk = s.buf[c].blk /\ t.buf[c].cur = s.buf[c].cur BY <1>3, <1>6, <1>10
<1>15. Alone(t, NULL)
  <2> SUFFICES ASSUME NEW x \in Buf, NEW c \in Buf, x # c, t.buf[x].blk # NULL, t.buf[x].blk = t.buf[c].blk,
                      Pend(t, NULL, x), t.buf[x].cur
               PROVE  ~t.buf[c].cur
    BY DEF Alone
  <2>1. x # b BY <1>5
  <2>2. Pend(s, NULL, x) BY <1>6, <2>1
  <2>3. s.buf[x].cur /\ s.buf[x].blk # NULL /\ s.buf[x].blk = s.buf[c].blk
    <3>1. s.buf[x].cur BY <1>14, Zenon
    <3>2. s.buf[x].blk # NULL /\ s.buf[x].blk = s.buf[c].blk BY <1>14
    <3> QED BY <3>1, <3>2
  <2>4. ~s.buf[c].cur BY <2>2, <2>3 DEF Data, Alone
  <2> QED BY <1>14, <2>4, Zenon
<1>16. Valid(t)
  <2> SUFFICES ASSUME NEW c \in Buf, t.buf[c].blk # NULL, "B_STALE" \notin t.buf[c].flags,
                      "B_DONE" \in t.buf[c].flags, "B_ERROR" \notin t.buf[c].flags
               PROVE  t.buf[c].cur
    BY DEF Valid
  <2>1. CASE c = b
    <3>1. "B_STALE" \notin s.buf[b].flags BY <1>4, <2>1
    <3>2. s.buf[b].cur BY <1>0, <3>1 DEF Data, Writing
    <3> QED BY <2>1, <3>2, Zenon
  <2>2. CASE c # b BY <1>6, <2>2 DEF Data, Valid
  <2> QED BY <2>1, <2>2
<1>17. Writing(t) BY <1>1, <1>6 DEF Data, Writing
<1>18. StaleFirst(t) /\ LastWrite(t) BY <1>0, DoneQueue DEF Data
<1> QED BY <1>11, <1>12, <1>13, <1>15, <1>16, <1>17, <1>18 DEF Data

(***************************************************************************)
(* In the middle of a step of p: H are the headers in its hands, k the     *)
(* writes behind not counted yet, m the memory charged and not allocated,  *)
(* D a buffer it has changed and not marked.                               *)
(***************************************************************************)
Sure == "getblk" \notin KMEMSLEEP

Base(s, p, H, k, m, d, D) ==
    Struct(s, p, H) /\ Counts(s, k) /\ Charged(s, m) /\ (Sure => Data(s, d, D))

(* The asynchronous transfers and the contents do not see the change. *)
Blind(t, s, c) ==
    /\ SameData(t, s, c) /\ t.buf[c].size = s.buf[c].size
    /\ c \in Io(s) => /\ "B_ASYNC" \in t.buf[c].flags <=> "B_ASYNC" \in s.buf[c].flags
                      /\ "B_READ" \in t.buf[c].flags <=> "B_READ" \in s.buf[c].flags
                      /\ "B_STALE" \in t.buf[c].flags <=> "B_STALE" \in s.buf[c].flags

Quiet(t, s) ==
    t.ioq = s.ioq /\ t.bufsize = s.bufsize /\ t.basyncnt = s.basyncnt /\ t.basynwait = s.basynwait

(* A change that neither sees. *)
LEMMA BaseKept ==
    ASSUME NEW s, NEW t, NEW p, NEW H, NEW G, NEW k, NEW m, NEW d, NEW D, Base(s, p, H, k, m, d, D),
           Struct(t, p, G), Wakes(t, s), Quiet(t, s), \A c \in Buf : Blind(t, s, c)
    PROVE  Base(t, p, G, k, m, d, D)
<1>1. Struct(s, p, H) /\ Counts(s, k) /\ Charged(s, m) /\ s \in StateSet BY DEF Base, Struct
<1>2. Io(t) = Io(s) BY DEF Quiet, Io
<1>3. Counts(t, k)
  <2>1. \A c \in Buf : (c \in Io(t) /\ "B_ASYNC" \in t.buf[c].flags /\ "B_READ" \notin t.buf[c].flags)
                       <=> (c \in Io(s) /\ "B_ASYNC" \in s.buf[c].flags /\ "B_READ" \notin s.buf[c].flags)
    BY <1>2 DEF Blind
  <2>2. t.basyncnt = s.basyncnt /\ t.basynwait = s.basynwait BY DEF Quiet
  <2> QED BY <1>1, <2>1, <2>2, CountsSame
<1>4. Charged(t, m) BY <1>1, ChargedSame DEF Quiet, Blind
<1>5. Sure => Data(t, d, D)
  <2> SUFFICES ASSUME Sure PROVE Data(t, d, D) OBVIOUS
  <2>1. Data(s, d, D) BY DEF Base
  <2>2. \A c \in Buf : SameData(t, s, c) BY DEF Blind
  <2>3. \A c \in Io(s) : "B_STALE" \in t.buf[c].flags <=> "B_STALE" \in s.buf[c].flags
    BY <1>1, IoMember DEF Blind
  <2>4. t.ioq = s.ioq BY DEF Quiet
  <2> QED BY <1>1, <2>1, <2>2, <2>3, <2>4, DataKept
<1> QED BY <1>3, <1>4, <1>5 DEF Base

(* The flags of one header change. *)
LEMMA BlindFlags ==
    ASSUME NEW s, NEW t, NEW b \in Buf, NEW fl, OnlyFlags(t, s, b, fl),
           "B_DELWRI" \in fl <=> "B_DELWRI" \in s.buf[b].flags,
           "B_STALE" \in s.buf[b].flags => "B_STALE" \in fl,
           ("B_STALE" \notin fl /\ "B_DONE" \in fl /\ "B_ERROR" \notin fl)
              => ("B_DONE" \in s.buf[b].flags /\ "B_ERROR" \notin s.buf[b].flags),
           \/ b \notin Io(s)
           \/ /\ "B_ASYNC" \in fl <=> "B_ASYNC" \in s.buf[b].flags
              /\ "B_READ" \in fl <=> "B_READ" \in s.buf[b].flags
              /\ "B_STALE" \in fl <=> "B_STALE" \in s.buf[b].flags
    PROVE  \A c \in Buf : Blind(t, s, c)
<1> SUFFICES ASSUME NEW c \in Buf PROVE Blind(t, s, c) OBVIOUS
<1>1. CASE c # b
  <2>1. t.buf[c] = s.buf[c] BY <1>1 DEF OnlyFlags
  <2> QED BY <2>1 DEF Blind, SameData
<1>2. CASE c = b
  <2>1. t.buf[b].flags = fl /\ t.buf[b].blk = s.buf[b].blk /\ t.buf[b].size = s.buf[b].size BY DEF OnlyFlags
  <2>2. t.buf[b].cur = s.buf[b].cur BY DEF OnlyFlags
  <2>3. SameData(t, s, b) BY <2>1, <2>2, Zenon DEF SameData
  <2> QED BY <1>2, <2>1, <2>3 DEF Blind
<1> QED BY <1>1, <1>2

(* To change no process is to wake none. *)
LEMMA KeptWakes == ASSUME NEW s, NEW t, t.proc = s.proc PROVE Wakes(t, s)
BY DEF Wakes

(* notavail(). *)
LEMMA BaseNotavail ==
    ASSUME NEW s, NEW p, NEW H, NEW k, NEW m, NEW d, NEW D, Base(s, p, H, k, m, d, D), NEW b \in Free(s)
    PROVE  /\ Base(Notavail(s, b), p, H \cup {b}, k, m, d, D) /\ Notavail(s, b).proc = s.proc
           /\ b \in Buf /\ b \notin Io(s) /\ Notavail(s, b).ioq = s.ioq /\ b \notin H
           /\ OnlyFlags(Notavail(s, b), s, b, s.buf[b].flags \cup {"B_BUSY"})
           /\ Notavail(s, b).bhdrlist = s.bhdrlist
           /\ "B_BUSY" \notin s.buf[b].flags /\ "B_WANTED" \notin s.buf[b].flags
           /\ "B_ERROR" \notin s.buf[b].flags /\ "B_ASYNC" \notin s.buf[b].flags
<1> DEFINE t == Notavail(s, b)
<1>1. Struct(s, p, H) BY DEF Base
<1>2. /\ b \in Buf /\ b \notin Io(s) /\ b \notin H
      /\ "B_BUSY" \notin s.buf[b].flags /\ "B_WANTED" \notin s.buf[b].flags
      /\ "B_ERROR" \notin s.buf[b].flags /\ "B_ASYNC" \notin s.buf[b].flags
  BY <1>1, FreeIs
<1>3. /\ Struct(t, p, H \cup {b}) /\ OnlyFlags(t, s, b, s.buf[b].flags \cup {"B_BUSY"})
      /\ t.bhdrlist = s.bhdrlist /\ t.ioq = s.ioq /\ Kept(t, s)
  BY <1>1, NotavailStruct
<1> HIDE DEF t
<1>4. Wakes(t, s) /\ Quiet(t, s) /\ t.proc = s.proc BY <1>3, KeptWakes DEF Kept, SameCounts, Quiet
<1>5. \A c \in Buf : Blind(t, s, c) BY <1>2, <1>3, BlindFlags
<1>6. Base(t, p, H \cup {b}, k, m, d, D) BY <1>3, <1>4, <1>5, BaseKept
<1> QED BY <1>2, <1>3, <1>4, <1>6 DEF t

(* B_WANTED is set. *)
LEMMA BaseMark ==
    ASSUME NEW s, NEW p, NEW H, NEW k, NEW m, NEW d, NEW D, Base(s, p, H, k, m, d, D), NEW b \in Buf,
           "B_BUSY" \in s.buf[b].flags, s.buf[b].blk # NULL
    PROVE  /\ Base(Set(s, b, {"B_WANTED"}), p, H, k, m, d, D) /\ Set(s, b, {"B_WANTED"}).proc = s.proc
           /\ OnlyFlags(Set(s, b, {"B_WANTED"}), s, b, s.buf[b].flags \cup {"B_WANTED"})
           /\ Set(s, b, {"B_WANTED"}).ioq = s.ioq
<1> DEFINE t == Set(s, b, {"B_WANTED"})
<1>1. Struct(s, p, H) BY DEF Base
<1>2. /\ Struct(t, p, H) /\ OnlyFlags(t, s, b, s.buf[b].flags \cup {"B_WANTED"})
      /\ SameLists(t, s) /\ Kept(t, s)
  BY <1>1, MarkStruct
<1> HIDE DEF t
<1>3. Wakes(t, s) /\ Quiet(t, s) /\ t.proc = s.proc BY <1>2, KeptWakes DEF Kept, SameCounts, SameLists, Quiet
<1>4. \A c \in Buf : Blind(t, s, c) BY <1>2, BlindFlags
<1>5. Base(t, p, H, k, m, d, D) BY <1>2, <1>3, <1>4, BaseKept
<1> QED BY <1>2, <1>3, <1>5 DEF t, Quiet

(* brelse(). *)
LEMMA BaseBrelse ==
    ASSUME NEW s, NEW p, NEW H, NEW k, NEW m, NEW d, Base(s, p, H, k, m, d, NULL), NEW b \in H, b \notin Io(s)
    PROVE  /\ Base(Brelse(s, b), p, H \ {b}, k, m, d, NULL) /\ Wakes(Brelse(s, b), s)
           /\ OnlyFlags(Brelse(s, b), s, b, Released(s.buf[b].flags)) /\ Brelse(s, b).ioq = s.ioq
<1> DEFINE t == Brelse(s, b)
<1>1. Struct(s, p, H) BY DEF Base
<1>2. /\ Struct(t, p, H \ {b}) /\ OnlyFlags(t, s, b, Released(s.buf[b].flags)) /\ t.ioq = s.ioq
      /\ t.bufsize = s.bufsize /\ t.basyncnt = s.basyncnt /\ t.basynwait = s.basynwait /\ Wakes(t, s)
  BY <1>1, BrelseStruct
<1> HIDE DEF t
<1>3. b \in Buf /\ BufOK(s, H, b) BY <1>1 DEF Struct, Apart
<1>4. "B_DELWRI" \in s.buf[b].flags => "B_ERROR" \notin s.buf[b].flags BY <1>3 DEF BufOK
<1>5. \A c \in Buf : Blind(t, s, c)
  <2> DEFINE f == s.buf[b].flags
             fl == Released(f)
  <2>1. "B_DELWRI" \in fl <=> "B_DELWRI" \in f BY <1>4 DEF Released
  <2>2. "B_STALE" \in f => "B_STALE" \in fl BY DEF Released
  <2>3. ("B_STALE" \notin fl /\ "B_DONE" \in fl /\ "B_ERROR" \notin fl) => ("B_DONE" \in f /\ "B_ERROR" \notin f)
    BY DEF Released
  <2>4. OnlyFlags(t, s, b, fl) BY <1>2
  <2> HIDE DEF fl
  <2> QED BY <1>3, <2>1, <2>2, <2>3, <2>4, BlindFlags
<1>6. Quiet(t, s) BY <1>2 DEF Quiet
<1>7. Base(t, p, H \ {b}, k, m, d, NULL) BY <1>2, <1>5, <1>6, BaseKept
<1> QED BY <1>2, <1>7 DEF t

(* B_AGE is set or cleared. *)
LEMMA BaseAge ==
    ASSUME NEW s, NEW t, NEW p, NEW H, NEW k, NEW m, NEW d, NEW D, Base(s, p, H, k, m, d, D), NEW b \in Buf, NEW fl,
           b \in Free(s) \/ b \in H, b \notin Io(s), t \in StateSet,
           OnlyFlags(t, s, b, fl), SameLists(t, s), Kept(t, s), fl \ {"B_AGE"} = s.buf[b].flags \ {"B_AGE"},
           "B_WANTED" \notin s.buf[b].flags
    PROVE  Base(t, p, H, k, m, d, D)
<1>1. Struct(s, p, H) /\ s \in StateSet BY DEF Base, Struct
<1>2. \A f : f # "B_AGE" => (f \in fl <=> f \in s.buf[b].flags) OBVIOUS
<1>3. BufOK(s, H, b) BY <1>1 DEF Struct
<1>4. /\ t.buf[b].flags = fl /\ t.buf[b].blk = s.buf[b].blk /\ Free(t) = Free(s) /\ Hdr(t) = Hdr(s) /\ Io(t) = Io(s)
  BY DEF OnlyFlags, SameLists, Free, Hdr, Io
<1>5. b \notin Hdr(s) BY <1>1 DEF Struct, Apart
<1>6. BufOK(t, H, b)
  <2>1. "B_ASYNC" \in t.buf[b].flags => b \in Io(t) \/ b \in H BY <1>2, <1>3, <1>4 DEF BufOK
  <2>2. "B_DELWRI" \in t.buf[b].flags =>
                      /\ "B_DONE" \in t.buf[b].flags /\ t.buf[b].blk # NULL
                      /\ "B_STALE" \notin t.buf[b].flags /\ "B_ERROR" \notin t.buf[b].flags
    BY <1>2, <1>3, <1>4 DEF BufOK
  <2>3. b \in Free(t) => /\ "B_BUSY" \notin t.buf[b].flags /\ "B_WANTED" \notin t.buf[b].flags
                         /\ "B_ERROR" \notin t.buf[b].flags
    BY <1>2, <1>3, <1>4 DEF BufOK
  <2> QED BY <1>4, <1>5, <2>1, <2>2, <2>3 DEF BufOK
<1>7. NoSleeper(s, p, b) BY <1>1, Unwanted
<1>8. Struct(t, p, H) BY <1>1, <1>6, <1>7, Flagged
<1>9. Wakes(t, s) /\ Quiet(t, s) BY KeptWakes DEF Kept, SameCounts, SameLists, Quiet
<1>10. \A c \in Buf : Blind(t, s, c) BY <1>2, BlindFlags
<1> QED BY <1>8, <1>9, <1>10, BaseKept

(* The memory is where it was when a request starts or ends. *)
LEMMA StartsCharged ==
    ASSUME NEW s, NEW t, NEW b \in Buf, NEW fl, NEW m, Charged(s, m), Starts(t, s, b, fl)
    PROVE  Charged(t, m)
<1>1. t.bufsize = s.bufsize BY DEF Starts, Kept, SameCounts
<1>2. \A c \in Buf : t.buf[c].size = s.buf[c].size BY DEF Starts, OnlyFlags
<1> QED BY <1>1, <1>2, ChargedSame

(* A transfer that is not a write behind does not count. *)
LEMMA StartsCounts ==
    ASSUME NEW s, NEW t, NEW p, NEW H, NEW k, NEW b \in Buf, NEW fl, Struct(s, p, H), Counts(s, k), b \notin Io(s),
           Starts(t, s, b, fl), "B_ASYNC" \notin fl \/ "B_READ" \in fl
    PROVE  Counts(t, k)
<1>1. Io(t) = Io(s) \cup {b} BY StartsF DEF Struct
<1>2. \A c \in Buf : (c \in Io(t) /\ "B_ASYNC" \in t.buf[c].flags /\ "B_READ" \notin t.buf[c].flags)
                     <=> (c \in Io(s) /\ "B_ASYNC" \in s.buf[c].flags /\ "B_READ" \notin s.buf[c].flags)
  BY <1>1 DEF Starts, OnlyFlags
<1>3. t.basyncnt = s.basyncnt /\ t.basynwait = s.basynwait /\ Wakes(t, s)
  BY KeptWakes DEF Starts, Kept, SameCounts
<1> QED BY <1>2, <1>3, CountsSame

(* bread() and breada() start a read. *)
LEMMA BaseRead ==
    ASSUME NEW s, NEW p, NEW H \in SUBSET Buf, NEW k, NEW m, NEW d, Base(s, p, H, k, m, d, NULL), NEW b \in H,
           NEW a \in SUBSET {"B_ASYNC"}, NEW G \in SUBSET Buf,
           b \notin Io(s), s.buf[b].blk # NULL, "B_BUSY" \in s.buf[b].flags, "B_DONE" \notin s.buf[b].flags,
           "B_ERROR" \notin s.buf[b].flags, "B_STALE" \notin s.buf[b].flags, "B_ASYNC" \notin s.buf[b].flags,
           b \in G <=> "B_ASYNC" \notin a, \A c \in Buf \ {b} : c \in G <=> c \in H
    PROVE  /\ Base(StartRead(s, b, a), p, G, k, m, d, NULL) /\ StartRead(s, b, a).proc = s.proc
           /\ Starts(StartRead(s, b, a), s, b, s.buf[b].flags \cup ({"B_READ"} \cup a))
<1> DEFINE t == StartRead(s, b, a)
           fl == s.buf[b].flags \cup ({"B_READ"} \cup a)
<1>1. /\ Struct(s, p, H) /\ s \in StateSet /\ Lonely(s) /\ Counts(s, k) /\ Charged(s, m) /\ b \in Buf
      /\ BufOK(s, H, b)
  BY DEF Base, Struct
<1>2. "B_DELWRI" \notin s.buf[b].flags BY <1>1 DEF BufOK
<1>3. a \in SUBSET BFlag BY DEF BFlag
<1>4. Starts(t, s, b, fl) BY <1>1, <1>3, StartReadF
<1>5. /\ "B_READ" \in fl /\ "B_BUSY" \in fl /\ "B_DONE" \notin fl /\ "B_DELWRI" \notin fl /\ "B_ERROR" \notin fl
      /\ "B_STALE" \notin fl /\ ("B_WANTED" \in s.buf[b].flags => "B_WANTED" \in fl)
      /\ ("B_ASYNC" \in fl <=> "B_ASYNC" \in a)
  BY <1>2
<1> HIDE DEF t, fl
<1>6. Struct(t, p, G) BY <1>1, <1>4, <1>5, StartsStruct
<1>7. Counts(t, k) BY <1>1, <1>4, <1>5, StartsCounts
<1>8. Charged(t, m) BY <1>1, <1>4, StartsCharged
<1>9. Sure => Data(t, d, NULL) BY <1>1, <1>2, <1>4, <1>5, DataRead DEF Base
<1>10. Base(t, p, G, k, m, d, NULL) /\ t.proc = s.proc BY <1>4, <1>6, <1>7, <1>8, <1>9 DEF Base, Starts, Kept
<1> QED BY <1>4, <1>10 DEF t, fl

(* A write of a buffer in hand that is to be written. *)
Due(s, b, D) == ("B_DELWRI" \in s.buf[b].flags /\ D = NULL) \/ (D = b /\ s.buf[b].cur)

(* It joins the requests, with B_ASYNC or without. *)
LEMMA BaseWrites ==
    ASSUME NEW s, NEW t, NEW p, NEW H \in SUBSET Buf, NEW k \in Int, NEW m, NEW d, NEW D,
           Base(s, p, H, k, m, d, D), NEW b \in H, NEW fl, NEW G \in SUBSET Buf,
           b \notin Io(s), s.buf[b].blk # NULL, "B_BUSY" \in s.buf[b].flags, "B_STALE" \notin s.buf[b].flags,
           Sure => Due(s, b, D), Starts(t, s, b, fl),
           \A f \in {"B_READ", "B_DONE", "B_ERROR", "B_DELWRI"} : f \notin fl,
           \A f \in {"B_BUSY", "B_STALE", "B_WANTED"} : f \in fl <=> f \in s.buf[b].flags,
           b \in G <=> "B_ASYNC" \notin fl, \A c \in Buf \ {b} : c \in G <=> c \in H
    PROVE  Base(t, p, G, IF "B_ASYNC" \in fl THEN k + 1 ELSE k, m, d, NULL) /\ t.proc = s.proc
<1>1. /\ Struct(s, p, H) /\ s \in StateSet /\ Lonely(s) /\ Counts(s, k) /\ Charged(s, m) /\ b \in Buf
      /\ BufOK(s, H, b)
  BY DEF Base, Struct
<1>2. /\ "B_READ" \notin fl /\ "B_BUSY" \in fl /\ "B_DONE" \notin fl /\ "B_DELWRI" \notin fl
      /\ "B_ERROR" \notin fl /\ "B_STALE" \notin fl /\ ("B_WANTED" \in s.buf[b].flags => "B_WANTED" \in fl)
  OBVIOUS
<1>3. Struct(t, p, G) BY <1>1, <1>2, StartsStruct
<1>4. Counts(t, IF "B_ASYNC" \in fl THEN k + 1 ELSE k)
  <2>1. CASE "B_ASYNC" \in fl
    <3>1. Counts(t, k + 1) BY <1>1, <1>2, <2>1, CountsStarted
    <3> QED BY <2>1, <3>1
  <2>2. CASE "B_ASYNC" \notin fl
    <3>1. Counts(t, k) BY <1>1, <2>2, StartsCounts
    <3> QED BY <2>2, <3>1
  <2> QED BY <2>1, <2>2
<1>5. Charged(t, m) BY <1>1, StartsCharged
<1>6. Sure => Data(t, d, NULL)
  <2> SUFFICES ASSUME Sure PROVE Data(t, d, NULL) OBVIOUS
  <2>1. Data(s, d, D) BY DEF Base
  <2>2. s.buf[b].cur
    <3>1. CASE "B_DELWRI" \in s.buf[b].flags BY <1>1, <2>1, <3>1, DelayedCurrent
    <3>2. CASE "B_DELWRI" \notin s.buf[b].flags BY <3>2 DEF Due
    <3> QED BY <3>1, <3>2
  <2>3. D \in {NULL, b} /\ ("B_DELWRI" \in s.buf[b].flags \/ D = b) BY DEF Due
  <2> QED BY <1>1, <1>2, <2>1, <2>2, <2>3, DataWrite
<1> QED BY <1>3, <1>4, <1>5, <1>6 DEF Base, Starts, Kept

(* bwrite() and bawrite(). *)
LEMMA BaseWrite ==
    ASSUME NEW s, NEW p, NEW H \in SUBSET Buf, NEW k \in Int, NEW m, NEW d, NEW D,
           Base(s, p, H, k, m, d, D), NEW b \in H,
           b \notin Io(s), s.buf[b].blk # NULL, "B_BUSY" \in s.buf[b].flags, "B_STALE" \notin s.buf[b].flags,
           "B_ASYNC" \notin s.buf[b].flags, Sure => Due(s, b, D)
    PROVE  /\ Base(StartWrite(s, b), p, H, k, m, d, NULL) /\ StartWrite(s, b).proc = s.proc
           /\ Starts(StartWrite(s, b), s, b, s.buf[b].flags \ {"B_READ", "B_DONE", "B_ERROR", "B_DELWRI"})
<1> DEFINE t == StartWrite(s, b)
           fl == s.buf[b].flags \ {"B_READ", "B_DONE", "B_ERROR", "B_DELWRI"}
<1>1. s \in StateSet /\ Lonely(s) /\ b \in Buf BY DEF Base, Struct
<1>2. Starts(t, s, b, fl) BY <1>1, StartWriteF
<1>3. /\ \A f \in {"B_READ", "B_DONE", "B_ERROR", "B_DELWRI"} : f \notin fl
      /\ \A f \in {"B_BUSY", "B_STALE", "B_WANTED"} : f \in fl <=> f \in s.buf[b].flags
      /\ "B_ASYNC" \notin fl
  OBVIOUS
<1> HIDE DEF t, fl
<1>4. Base(t, p, H, IF "B_ASYNC" \in fl THEN k + 1 ELSE k, m, d, NULL) /\ t.proc = s.proc
  BY <1>1, <1>2, <1>3, BaseWrites
<1>5. Base(t, p, H, k, m, d, NULL) BY <1>3, <1>4
<1> QED BY <1>2, <1>4, <1>5 DEF t, fl

StartBehind(s, b) == StartWrite(Set(s, b, {"B_ASYNC"}), b)

(* The request of bawrite(), which is not counted yet. *)
LEMMA BaseStartBehind ==
    ASSUME NEW s, NEW p, NEW H \in SUBSET Buf, NEW k \in Int, NEW m, NEW d, NEW D,
           Base(s, p, H, k, m, d, D), NEW b \in H,
           b \notin Io(s), s.buf[b].blk # NULL, "B_BUSY" \in s.buf[b].flags, "B_STALE" \notin s.buf[b].flags,
           Sure => Due(s, b, D)
    PROVE  /\ Base(StartBehind(s, b), p, H \ {b}, k + 1, m, d, NULL) /\ StartBehind(s, b).proc = s.proc
           /\ Elsewhere(StartBehind(s, b), s, b) /\ StartBehind(s, b).buf[b].blk = s.buf[b].blk
<1> DEFINE t == StartBehind(s, b)
           fl == (s.buf[b].flags \cup {"B_ASYNC"}) \ {"B_READ", "B_DONE", "B_ERROR", "B_DELWRI"}
           G == H \ {b}
<1>1. s \in StateSet /\ Lonely(s) /\ b \in Buf BY DEF Base, Struct
<1>2. Starts(t, s, b, fl) BY <1>1, StartBehindF DEF StartBehind
<1>3. /\ \A f \in {"B_READ", "B_DONE", "B_ERROR", "B_DELWRI"} : f \notin fl
      /\ \A f \in {"B_BUSY", "B_STALE", "B_WANTED"} : f \in fl <=> f \in s.buf[b].flags
      /\ "B_ASYNC" \in fl
  OBVIOUS
<1>4. G \in SUBSET Buf /\ b \notin G /\ \A c \in Buf \ {b} : c \in G <=> c \in H OBVIOUS
<1> HIDE DEF t, fl, G
<1>5. Base(t, p, G, IF "B_ASYNC" \in fl THEN k + 1 ELSE k, m, d, NULL) /\ t.proc = s.proc
  BY <1>1, <1>2, <1>3, <1>4, BaseWrites
<1>6. Base(t, p, G, k + 1, m, d, NULL) BY <1>3, <1>5
<1>7. Elsewhere(t, s, b) /\ t.buf[b].blk = s.buf[b].blk
  <2>1. Io(t) = Io(s) \cup {b} BY <1>1, <1>2, StartsF
  <2> QED BY <1>2, <2>1 DEF Starts, OnlyFlags, Elsewhere
<1> QED BY <1>5, <1>6, <1>7 DEF t, G

(* It is counted. *)
LEMMA BaseCount ==
    ASSUME NEW s, NEW p, NEW H, NEW k \in Int, NEW m, NEW d, NEW D, Base(s, p, H, k, m, d, D)
    PROVE  /\ Base(CountUp(s, 1), p, H, k - 1, m, d, D) /\ CountUp(s, 1).proc = s.proc
           /\ CountUp(s, 1).buf = s.buf /\ CountUp(s, 1).ioq = s.ioq
<1> DEFINE t == CountUp(s, 1)
<1>1. Struct(s, p, H) /\ Counts(s, k) /\ Charged(s, m) /\ s \in StateSet BY DEF Base, Struct
<1>2. /\ Struct(t, p, H) /\ t.buf = s.buf /\ SameLists(t, s) /\ t.proc = s.proc /\ t.bufsize = s.bufsize
  BY <1>1, CountUpStruct
<1>3. Counts(t, k - 1) BY <1>1, CountUpCounts
<1> HIDE DEF t
<1>4. Charged(t, m) BY <1>1, <1>2, ChargedSame
<1>5. Sure => Data(t, d, D)
  <2> SUFFICES ASSUME Sure PROVE Data(t, d, D) OBVIOUS
  <2>1. Data(s, d, D) BY DEF Base
  <2>2. \A c \in Buf : SameData(t, s, c) BY <1>2 DEF SameData
  <2>3. \A c \in Io(s) : "B_STALE" \in t.buf[c].flags <=> "B_STALE" \in s.buf[c].flags BY <1>2
  <2>4. t.ioq = s.ioq BY <1>2 DEF SameLists
  <2> QED BY <1>1, <2>1, <2>2, <2>3, <2>4, DataKept
<1>6. Base(t, p, H, k - 1, m, d, D) BY <1>2, <1>3, <1>4, <1>5 DEF Base
<1> QED BY <1>2, <1>6 DEF t, SameLists

Written(t, s, b) == t.proc = s.proc /\ Elsewhere(t, s, b) /\ t.buf[b].blk = s.buf[b].blk

(* bwrite() with B_ASYNC, counted at once. *)
LEMMA BaseBehind ==
    ASSUME NEW s, NEW p, NEW H \in SUBSET Buf, NEW k \in Int, NEW m, NEW d, NEW D,
           Base(s, p, H, k, m, d, D), NEW b \in H,
           b \notin Io(s), s.buf[b].blk # NULL, "B_BUSY" \in s.buf[b].flags, "B_STALE" \notin s.buf[b].flags,
           Sure => Due(s, b, D)
    PROVE  Base(WriteBehind(s, b), p, H \ {b}, k, m, d, NULL) /\ Written(WriteBehind(s, b), s, b)
<1> DEFINE t == StartBehind(s, b)
           G == H \ {b}
<1>1. /\ Base(t, p, G, k + 1, m, d, NULL) /\ t.proc = s.proc
      /\ Elsewhere(t, s, b) /\ t.buf[b].blk = s.buf[b].blk
  BY BaseStartBehind
<1>2. WriteBehind(s, b) = CountUp(t, 1) BY DEF WriteBehind, CountUp, StartBehind
<1> HIDE DEF t, G
<1>3. k + 1 \in Int /\ k + 1 - 1 = k OBVIOUS
<1>4. Base(CountUp(t, 1), p, G, k + 1 - 1, m, d, NULL) /\ CountUp(t, 1).proc = t.proc
      /\ CountUp(t, 1).buf = t.buf /\ CountUp(t, 1).ioq = t.ioq
  BY <1>1, <1>3, BaseCount
<1>5. Base(CountUp(t, 1), p, G, k, m, d, NULL) BY <1>3, <1>4
<1>6. Written(CountUp(t, 1), s, b) BY <1>1, <1>4 DEF Elsewhere, Io, Written
<1> QED BY <1>2, <1>5, <1>6 DEF G

(* The asynchronous writes when the header b, no request, changes. *)
LEMMA CountsElsewhere ==
    ASSUME NEW s, NEW t, NEW p, NEW H, NEW k, NEW b \in Buf, Struct(s, p, H), Counts(s, k), b \notin Io(s),
           Wakes(t, s), Elsewhere(t, s, b), t.ioq = s.ioq, t.basyncnt = s.basyncnt, t.basynwait = s.basynwait
    PROVE  Counts(t, k)
<1>1. Io(t) = Io(s) BY DEF Io
<1>2. \A c \in Buf : (c \in Io(t) /\ "B_ASYNC" \in t.buf[c].flags /\ "B_READ" \notin t.buf[c].flags)
                     <=> (c \in Io(s) /\ "B_ASYNC" \in s.buf[c].flags /\ "B_READ" \notin s.buf[c].flags)
  BY <1>1 DEF Elsewhere
<1> QED BY <1>2, CountsSame

(* The header loses its memory. *)
LEMMA BaseFree ==
    ASSUME NEW s, NEW p, NEW H, NEW k, NEW m \in Int, NEW d, Base(s, p, H, k, m, d, NULL), NEW b \in H,
           b \notin Io(s), "B_WANTED" \notin s.buf[b].flags, "B_DELWRI" \notin s.buf[b].flags
    PROVE  /\ Base(FreeHeader(s, b), p, H \ {b}, k, m, d, NULL) /\ Wakes(FreeHeader(s, b), s)
           /\ Elsewhere(FreeHeader(s, b), s, b) /\ FreeHeader(s, b).buf[b] = NewBuf
<1> DEFINE t == FreeHeader(s, b)
<1>1. /\ Struct(s, p, H) /\ Counts(s, k) /\ Charged(s, m) /\ s \in StateSet /\ b \in Buf
  BY DEF Base, Struct, Apart
<1>2. /\ Struct(t, p, H \ {b}) /\ t.buf[b] = NewBuf /\ Elsewhere(t, s, b)
      /\ t.bfreelist = s.bfreelist /\ t.ioq = s.ioq /\ t.bufsize = s.bufsize + s.buf[b].size
      /\ t.basyncnt = s.basyncnt /\ t.basynwait = s.basynwait /\ Wakes(t, s)
  <2>1. Struct(t, p, H \ {b}) /\ Freed(t, s, b) BY <1>1, FreeHeaderStruct
  <2> QED BY <2>1 DEF Freed
<1>3. \A c \in Buf \ {b} : t.buf[c] = s.buf[c] BY <1>2 DEF Elsewhere
<1> HIDE DEF t
<1>4. Elsewhere(t, s, b) /\ t \in StateSet BY <1>2 DEF Struct
<1>5. Counts(t, k) BY <1>1, <1>2, <1>4, CountsElsewhere
<1>6. Charged(t, m)
  <2>1. t.buf[b].size = 0 /\ s.buf[b].size \in Int /\ s.bufsize \in Int BY <1>1, <1>2, NewBufSet, BufTyped, StateTyped
  <2>2. t.bufsize + t.buf[b].size + m = s.bufsize + s.buf[b].size + m BY <1>2, <2>1
  <2>3. \A c \in Buf \ {b} : t.buf[c].size = s.buf[c].size BY <1>3
  <2> QED BY <1>1, <1>4, <2>2, <2>3, ChargedShift
<1>7. Sure => Data(t, d, NULL)
  <2> SUFFICES ASSUME Sure PROVE Data(t, d, NULL) OBVIOUS
  <2>1. Data(s, d, NULL) BY DEF Base
  <2>2. t.buf[b].blk = NULL /\ "B_DELWRI" \notin t.buf[b].flags BY <1>2, NewBufSet
  <2> QED BY <1>1, <1>2, <1>3, <2>1, <2>2, DataNew
<1>8. Base(t, p, H \ {b}, k, m, d, NULL) BY <1>2, <1>5, <1>6, <1>7 DEF Base
<1> QED BY <1>2, <1>4, <1>8 DEF t

(* No other buffer has the block. *)
Only(s, b, n) == \A c \in Buf \ {b} : s.buf[c].blk = n => "B_STALE" \in s.buf[c].flags

Replaced(t, s, b, r) == t.proc = s.proc /\ Elsewhere(t, s, b) /\ t.buf[b] = r /\ t.ioq = s.ioq

(* It gets a new identity, which no valid buffer has. *)
LEMMA BaseReplace ==
    ASSUME NEW s, NEW p, NEW H, NEW k, NEW m \in Int, NEW l \in Int, NEW d, Base(s, p, H, k, m, d, NULL), NEW b \in H,
           NEW r \in BufSet, b \notin Io(s), "B_WANTED" \notin s.buf[b].flags, "B_DELWRI" \notin s.buf[b].flags,
           "B_DELWRI" \notin r.flags, r.size + l = s.buf[b].size + m,
           Sure => r.blk = NULL \/ (~r.cur /\ "B_DONE" \notin r.flags /\ Only(s, b, r.blk))
    PROVE  Base(Replace(s, b, r), p, H, k, l, d, NULL) /\ Replaced(Replace(s, b, r), s, b, r)
<1> DEFINE t == Replace(s, b, r)
<1>1. /\ Struct(s, p, H) /\ Counts(s, k) /\ Charged(s, m) /\ s \in StateSet /\ b \in Buf
  BY DEF Base, Struct, Apart
<1>2. Struct(t, p, H) BY <1>1, ReplaceStruct
<1>3. t \in StateSet /\ t.buf[b] = r /\ SameLists(t, s) /\ Kept(t, s) BY <1>1, ReplaceF
<1>4. \A c \in Buf \ {b} : t.buf[c] = s.buf[c] BY <1>1, ReplaceF
<1> HIDE DEF t
<1>5. Elsewhere(t, s, b) /\ Wakes(t, s) /\ t.proc = s.proc /\ t.ioq = s.ioq /\ t.basyncnt = s.basyncnt
      /\ t.basynwait = s.basynwait /\ t.bufsize = s.bufsize
  BY <1>3, <1>4, KeptWakes DEF Elsewhere, Kept, SameCounts, SameLists, Io
<1>6. Counts(t, k) BY <1>1, <1>5, CountsElsewhere
<1>7. Charged(t, l)
  <2>1. r.size \in Int /\ s.buf[b].size \in Int /\ s.bufsize \in Int BY <1>1, BufTyped, StateTyped DEF BufSet
  <2>2. t.bufsize + t.buf[b].size + l = s.bufsize + s.buf[b].size + m BY <1>3, <1>5, <2>1
  <2>3. \A c \in Buf \ {b} : t.buf[c].size = s.buf[c].size BY <1>4
  <2> QED BY <1>1, <1>3, <2>2, <2>3, ChargedShift
<1>8. Sure => Data(t, d, NULL)
  <2> SUFFICES ASSUME Sure PROVE Data(t, d, NULL) OBVIOUS
  <2>1. Data(s, d, NULL) BY DEF Base
  <2>2. \/ t.buf[b].blk = NULL
        \/ /\ ~t.buf[b].cur /\ "B_DONE" \notin t.buf[b].flags
           /\ \A c \in Buf \ {b} : s.buf[c].blk = t.buf[b].blk => "B_STALE" \in s.buf[c].flags
    BY <1>3 DEF Only
  <2>3. "B_DELWRI" \notin t.buf[b].flags BY <1>3
  <2> QED BY <1>1, <1>4, <1>5, <2>1, <2>2, <2>3, DataNew
<1>9. Base(t, p, H, k, l, d, NULL) BY <1>2, <1>6, <1>7, <1>8 DEF Base
<1>10. Replaced(t, s, b, r) BY <1>3, <1>5 DEF Replaced
<1> QED BY <1>9, <1>10 DEF t

(* The holder changes the contents. *)
LEMMA BaseModify ==
    ASSUME NEW s, NEW p, NEW H, NEW k, NEW m, NEW d, NEW e, Base(s, p, H, k, m, d, NULL), NEW b \in H,
           b \notin Io(s), s.buf[b].blk # NULL, "B_STALE" \notin s.buf[b].flags,
           \A n \in Block : e[n] <=> d[n] /\ n # s.buf[b].blk
    PROVE  /\ Base(Modify(s, b), p, H, k, m, e, b) /\ Modify(s, b).proc = s.proc
           /\ Modify(s, b).buf[b].flags = s.buf[b].flags /\ Modify(s, b).buf[b].blk = s.buf[b].blk
           /\ Modify(s, b).ioq = s.ioq /\ (Sure => Modify(s, b).buf[b].cur)
<1> DEFINE t == Modify(s, b)
<1>1. /\ Struct(s, p, H) /\ Counts(s, k) /\ Charged(s, m) /\ s \in StateSet /\ b \in Buf
  BY DEF Base, Struct, Apart
<1>2. Struct(t, p, H) BY <1>1, ModifyStruct
<1>3. t \in StateSet /\ SameLists(t, s) /\ Kept(t, s) BY <1>1, ModifyF
<1>4. ASSUME NEW c \in Buf
      PROVE  t.buf[c].flags = s.buf[c].flags /\ t.buf[c].size = s.buf[c].size /\ t.buf[c].blk = s.buf[c].blk
  BY <1>1, ModifyF
<1>5. Sure => Data(t, e, b) /\ t.buf[b].cur BY <1>1, DataModify DEF Base
<1> HIDE DEF t
<1>6. /\ Wakes(t, s) /\ t.proc = s.proc /\ t.ioq = s.ioq /\ t.basyncnt = s.basyncnt /\ Io(t) = Io(s)
      /\ t.basynwait = s.basynwait /\ t.bufsize = s.bufsize
  BY <1>3, KeptWakes DEF Kept, SameCounts, SameLists, Io
<1>7. Counts(t, k)
  <2>1. \A c \in Buf : (c \in Io(t) /\ "B_ASYNC" \in t.buf[c].flags /\ "B_READ" \notin t.buf[c].flags)
                     <=> (c \in Io(s) /\ "B_ASYNC" \in s.buf[c].flags /\ "B_READ" \notin s.buf[c].flags)
    BY <1>4, <1>6
  <2> QED BY <1>1, <1>6, <2>1, CountsSame
<1>8. Charged(t, m) BY <1>1, <1>4, <1>6, ChargedSame
<1>9. Base(t, p, H, k, m, e, b) BY <1>2, <1>5, <1>7, <1>8 DEF Base
<1> QED BY <1>1, <1>4, <1>5, <1>6, <1>9 DEF t

Delayed(s, b) == Set(s, b, {"B_DELWRI", "B_DONE"})

(* bdwrite() marks them. *)
LEMMA BaseDelay ==
    ASSUME NEW s, NEW p, NEW H, NEW k, NEW m, NEW d, NEW b \in H, Base(s, p, H, k, m, d, b), Sure => s.buf[b].cur,
           b \notin Io(s), s.buf[b].blk # NULL, "B_STALE" \notin s.buf[b].flags, "B_ERROR" \notin s.buf[b].flags,
           "B_BUSY" \in s.buf[b].flags
    PROVE  /\ Base(Delayed(s, b), p, H, k, m, d, NULL) /\ Delayed(s, b).proc = s.proc /\ Delayed(s, b).ioq = s.ioq
<1> DEFINE t == Delayed(s, b)
           fl == s.buf[b].flags \cup {"B_DELWRI", "B_DONE"}
<1>1. /\ Struct(s, p, H) /\ Counts(s, k) /\ Charged(s, m) /\ s \in StateSet /\ b \in Buf
      /\ BufOK(s, H, b) /\ b \notin Free(s) /\ b \notin Hdr(s)
  BY DEF Base, Struct, Apart
<1>2. {"B_DELWRI", "B_DONE"} \in SUBSET BFlag BY DEF BFlag
<1>3. t \in StateSet /\ OnlyFlags(t, s, b, fl) /\ SameLists(t, s) /\ SameCounts(t, s) /\ t.proc = s.proc
  BY <1>1, <1>2, SetF DEF Delayed
<1>4. fl = s.buf[b].flags \cup {"B_DELWRI", "B_DONE"} OBVIOUS
<1> HIDE DEF t, fl
<1>5. Kept(t, s) /\ Free(t) = Free(s) /\ Hdr(t) = Hdr(s) /\ Io(t) = Io(s) BY <1>3 DEF Kept, SameLists, Free, Hdr, Io
<1>6. t.buf[b].flags = fl /\ t.buf[b].blk = s.buf[b].blk BY <1>3 DEF OnlyFlags
<1>7. BufOK(t, H, b) BY <1>1, <1>4, <1>5, <1>6 DEF BufOK
<1>8. NoSleeper(s, p, b) \/ ("B_BUSY" \in fl /\ "B_WANTED" \in fl) BY <1>1, <1>4, Unwanted
<1>9. Struct(t, p, H) BY <1>1, <1>3, <1>5, <1>7, <1>8, Flagged
<1>10. Elsewhere(t, s, b) /\ t.ioq = s.ioq /\ t.basyncnt = s.basyncnt /\ t.basynwait = s.basynwait
       /\ t.bufsize = s.bufsize /\ Wakes(t, s)
  BY <1>3, KeptWakes DEF Elsewhere, OnlyFlags, SameLists, SameCounts, Io
<1>11. Counts(t, k) BY <1>1, <1>10, CountsElsewhere
<1>12. Charged(t, m)
  <2>1. \A c \in Buf : t.buf[c].size = s.buf[c].size BY <1>3 DEF OnlyFlags
  <2> QED BY <1>1, <1>10, <2>1, ChargedSame
<1>13. Sure => Data(t, d, NULL)
  <2>1. OnlyFlags(t, s, b, s.buf[b].flags \cup {"B_DELWRI", "B_DONE"}) BY <1>3 DEF fl
  <2> QED BY <1>1, <1>10, <2>1, DataDelay DEF Base
<1>14. Base(t, p, H, k, m, d, NULL) BY <1>9, <1>11, <1>12, <1>13 DEF Base
<1> QED BY <1>3, <1>10, <1>14 DEF t

Inval(t, s, c) ==
    /\ t.buf[c].blk = s.buf[c].blk /\ t.buf[c].size = s.buf[c].size /\ t.buf[c].cur = s.buf[c].cur
    /\ \A f \in {"B_DELWRI", "B_READ", "B_DONE", "B_ERROR", "B_ASYNC"} :
          f \in t.buf[c].flags <=> f \in s.buf[c].flags
    /\ "B_STALE" \in s.buf[c].flags => "B_STALE" \in t.buf[c].flags
    /\ s.buf[c].blk # NULL => "B_STALE" \in t.buf[c].flags

(* binval() after bflush(). *)
LEMMA BaseBinval ==
    ASSUME NEW s, NEW p, NEW H, NEW k, NEW m, NEW d, Base(s, p, H, k, m, d, NULL),
           \A b \in Buf : NotHeld(s, p, b), \A b \in Buf : "B_DELWRI" \notin s.buf[b].flags
    PROVE  Base(Binval(s), p, H, k, m, d, NULL) /\ Binval(s).proc = s.proc
<1> DEFINE t == Binval(s)
<1>1. Struct(s, p, H) /\ Counts(s, k) /\ Charged(s, m) /\ s \in StateSet BY DEF Base, Struct
<1>2. Struct(t, p, H) BY <1>1, BinvalStruct
<1>3. t \in StateSet /\ SameLists(t, s) /\ Kept(t, s) BY <1>1, BinvalF
<1>4. ASSUME NEW c \in Buf PROVE Inval(t, s, c)
  <2>1. /\ t.buf[c].flags = (IF s.buf[c].blk = NULL THEN s.buf[c].flags
                             ELSE s.buf[c].flags \cup {"B_STALE", "B_AGE"})
        /\ t.buf[c].blk = s.buf[c].blk /\ t.buf[c].size = s.buf[c].size /\ t.buf[c].cur = s.buf[c].cur
    BY <1>1, BinvalF
  <2> HIDE DEF t
  <2>2. CASE s.buf[c].blk = NULL
    <3>1. t.buf[c].flags = s.buf[c].flags BY <2>1, <2>2
    <3> QED BY <2>1, <2>2, <3>1, Zenon DEF Inval
  <2>3. CASE s.buf[c].blk # NULL
    <3>1. t.buf[c].flags = s.buf[c].flags \cup {"B_STALE", "B_AGE"} BY <2>1, <2>3
    <3>2. /\ \A f \in {"B_DELWRI", "B_READ", "B_DONE", "B_ERROR", "B_ASYNC"} :
                f \in t.buf[c].flags <=> f \in s.buf[c].flags
          /\ "B_STALE" \in t.buf[c].flags
      BY <3>1
    <3> QED BY <2>1, <2>3, <3>2, Zenon DEF Inval
  <2> QED BY <2>2, <2>3
<1> HIDE DEF t
<1>5. /\ Wakes(t, s) /\ t.proc = s.proc /\ t.ioq = s.ioq /\ t.basyncnt = s.basyncnt /\ Io(t) = Io(s)
      /\ t.basynwait = s.basynwait /\ t.bufsize = s.bufsize
  BY <1>3, KeptWakes DEF Kept, SameCounts, SameLists, Io
<1>6. Counts(t, k)
  <2>1. \A c \in Buf : (c \in Io(t) /\ "B_ASYNC" \in t.buf[c].flags /\ "B_READ" \notin t.buf[c].flags)
                     <=> (c \in Io(s) /\ "B_ASYNC" \in s.buf[c].flags /\ "B_READ" \notin s.buf[c].flags)
    BY <1>4, <1>5 DEF Inval
  <2> QED BY <1>1, <1>5, <2>1, CountsSame
<1>7. Charged(t, m) BY <1>1, <1>4, <1>5, ChargedSame DEF Inval
<1>8. Sure => Data(t, d, NULL)
  <2> SUFFICES ASSUME Sure PROVE Data(t, d, NULL) OBVIOUS
  <2>1. Data(s, d, NULL) BY DEF Base
  <2>2. ASSUME NEW c \in Buf PROVE SameData(t, s, c)
    <3>1. t.buf[c].cur = s.buf[c].cur BY <1>4 DEF Inval
    <3>2. /\ t.buf[c].blk = s.buf[c].blk /\ ("B_DELWRI" \in t.buf[c].flags <=> "B_DELWRI" \in s.buf[c].flags)
          /\ ("B_READ" \in t.buf[c].flags <=> "B_READ" \in s.buf[c].flags)
          /\ ("B_DONE" \in t.buf[c].flags <=> "B_DONE" \in s.buf[c].flags)
          /\ ("B_ERROR" \in t.buf[c].flags <=> "B_ERROR" \in s.buf[c].flags)
          /\ ("B_STALE" \in s.buf[c].flags => "B_STALE" \in t.buf[c].flags)
      BY <1>4 DEF Inval
    <3> QED BY <3>1, <3>2, Zenon DEF SameData
  <2>3. \A c \in Io(s) : "B_STALE" \in t.buf[c].flags
    <3> SUFFICES ASSUME NEW c \in Io(s) PROVE "B_STALE" \in t.buf[c].flags OBVIOUS
    <3>1. c \in Buf BY <1>1, IoMember
    <3>2. BufOK(s, H, c) BY <1>1, <3>1 DEF Struct
    <3> QED BY <1>4, <3>1, <3>2 DEF BufOK, Inval
  <2>4. \A c \in Buf : SameData(t, s, c) BY <2>2
  <2> QED BY <1>1, <1>5, <2>1, <2>3, <2>4, DataKept
<1>9. Base(t, p, H, k, m, d, NULL) BY <1>2, <1>6, <1>7, <1>8 DEF Base
<1> QED BY <1>5, <1>9 DEF t

(* A header without memory is taken. *)
LEMMA BaseTake ==
    ASSUME NEW s, NEW p, NEW H, NEW k, NEW m, NEW d, NEW D, Base(s, p, H, k, m, d, D), s.bhdrlist # << >>
    PROVE  /\ Base(TakeHdr(s), p, H \cup {Head(s.bhdrlist)}, k, m, d, D) /\ TakeHdr(s).proc = s.proc
           /\ Head(s.bhdrlist) \in Buf /\ Head(s.bhdrlist) \notin Io(s) /\ Head(s.bhdrlist) \notin H
           /\ s.buf[Head(s.bhdrlist)] = NewBuf /\ TakeHdr(s).buf = s.buf /\ TakeHdr(s).ioq = s.ioq
<1> DEFINE t == TakeHdr(s)
           b == Head(s.bhdrlist)
<1>1. Struct(s, p, H) BY DEF Base
<1>2. /\ b \in Buf /\ b \notin Io(s) /\ b \notin H /\ s.buf[b] = NewBuf
      /\ Struct(t, p, H \cup {b}) /\ t.buf = s.buf /\ t.ioq = s.ioq /\ Kept(t, s)
  BY <1>1, TakeHdrStruct
<1> HIDE DEF t, b
<1>3. Wakes(t, s) /\ Quiet(t, s) /\ t.proc = s.proc BY <1>2, KeptWakes DEF Kept, SameCounts, Quiet
<1>4. \A c \in Buf : Blind(t, s, c) BY <1>2 DEF Blind, SameData
<1>5. Base(t, p, H \cup {b}, k, m, d, D) BY <1>2, <1>3, <1>4, BaseKept
<1> QED BY <1>2, <1>3, <1>5 DEF t, b

(* The buffers stay as they are. *)
LEMMA BaseSameBuf ==
    ASSUME NEW s, NEW t, NEW p, NEW H, NEW k, NEW l, NEW m, NEW n, NEW d, NEW D, Base(s, p, H, k, m, d, D),
           t \in StateSet, t.buf = s.buf, SameLists(t, s), t.proc = s.proc, s.wanted \subseteq t.wanted,
           Counts(t, l), Charged(t, n)
    PROVE  Base(t, p, H, l, n, d, D)
<1>1. Struct(s, p, H) /\ s \in StateSet BY DEF Base, Struct
<1>2. Struct(t, p, H) BY <1>1, CountersStruct
<1>3. Sure => Data(t, d, D)
  <2> SUFFICES ASSUME Sure PROVE Data(t, d, D) OBVIOUS
  <2>1. Data(s, d, D) BY DEF Base
  <2>2. \A c \in Buf : SameData(t, s, c) BY DEF SameData
  <2>3. \A c \in Io(s) : "B_STALE" \in t.buf[c].flags <=> "B_STALE" \in s.buf[c].flags OBVIOUS
  <2>4. t.ioq = s.ioq BY DEF SameLists
  <2> QED BY <1>1, <2>1, <2>2, <2>3, <2>4, DataKept
<1> QED BY <1>2, <1>3 DEF Base

(* Charging memory to the cache changes nothing else. *)
LEMMA ChargeF ==
    ASSUME NEW s \in StateSet, NEW n \in Int
    PROVE  /\ Charge(s, n) \in StateSet /\ Charge(s, n).buf = s.buf /\ SameLists(Charge(s, n), s)
           /\ Charge(s, n).proc = s.proc /\ Charge(s, n).wanted = s.wanted /\ Charge(s, n).bufsize = s.bufsize - n
           /\ Charge(s, n).basyncnt = s.basyncnt /\ Charge(s, n).basynwait = s.basynwait
<1> DEFINE x == s.bufsize - n
<1>1. x \in Int BY StateTyped
<1> HIDE DEF x
<1>2. Charge(s, n) = [s EXCEPT !.bufsize = x] BY DEF Charge, x
<1>3. [s EXCEPT !.bufsize = x] \in StateSet BY <1>1 DEF StateSet
<1>4. /\ Charge(s, n).buf = s.buf /\ Charge(s, n).bfreelist = s.bfreelist /\ Charge(s, n).bhdrlist = s.bhdrlist
      /\ Charge(s, n).ioq = s.ioq /\ Charge(s, n).proc = s.proc /\ Charge(s, n).wanted = s.wanted
      /\ Charge(s, n).bufsize = x
      /\ Charge(s, n).basyncnt = s.basyncnt /\ Charge(s, n).basynwait = s.basynwait
  BY <1>2 DEF StateSet
<1> QED BY <1>2, <1>3, <1>4 DEF SameLists, x

(* The memory is charged before the header has it. *)
LEMMA BaseCharge ==
    ASSUME NEW s, NEW p, NEW H, NEW k, NEW m \in Int, NEW n \in Int, NEW d, NEW D, Base(s, p, H, k, m, d, D),
           NEW b \in Buf
    PROVE  /\ Base(Charge(s, n), p, H, k, m + n, d, D) /\ Charge(s, n).proc = s.proc
           /\ Charge(s, n).buf = s.buf /\ Charge(s, n).ioq = s.ioq
<1> DEFINE t == Charge(s, n)
<1>1. Struct(s, p, H) /\ s \in StateSet /\ Counts(s, k) /\ Charged(s, m) BY DEF Base, Struct
<1>2. /\ t \in StateSet /\ t.buf = s.buf /\ SameLists(t, s) /\ t.proc = s.proc /\ t.wanted = s.wanted
      /\ t.bufsize = s.bufsize - n /\ t.basyncnt = s.basyncnt /\ t.basynwait = s.basynwait
  BY <1>1, ChargeF
<1> HIDE DEF t
<1>3. Io(t) = Io(s) /\ t.ioq = s.ioq /\ Wakes(t, s) BY <1>2, KeptWakes DEF Io, SameLists
<1>4. Counts(t, k)
  <2>1. \A c \in Buf : (c \in Io(t) /\ "B_ASYNC" \in t.buf[c].flags /\ "B_READ" \notin t.buf[c].flags)
                     <=> (c \in Io(s) /\ "B_ASYNC" \in s.buf[c].flags /\ "B_READ" \notin s.buf[c].flags)
    BY <1>2, <1>3
  <2> QED BY <1>1, <1>2, <1>3, <2>1, CountsSame
<1>5. Charged(t, m + n)
  <2>1. s.bufsize \in Int /\ s.buf[b].size \in Int /\ m + n \in Int BY <1>1, StateTyped, BufTyped
  <2>2. t.bufsize + t.buf[b].size + (m + n) = s.bufsize + s.buf[b].size + m BY <1>2, <2>1
  <2>3. \A c \in Buf \ {b} : t.buf[c].size = s.buf[c].size BY <1>2
  <2> QED BY <1>1, <1>2, <2>1, <2>2, <2>3, ChargedShift
<1>6. Base(t, p, H, k, m + n, d, D) BY <1>2, <1>4, <1>5, BaseSameBuf
<1> QED BY <1>2, <1>3, <1>6 DEF t

AskFor(s, l) == [s EXCEPT !.wanted = @ \cup {l}]

(* A list is wanted. *)
LEMMA BaseAsk ==
    ASSUME NEW s, NEW p, NEW H, NEW k, NEW m, NEW d, NEW D, Base(s, p, H, k, m, d, D),
           NEW l \in {"bfreelist", "bhdrlist"}
    PROVE  /\ Base(AskFor(s, l), p, H, k, m, d, D) /\ AskFor(s, l).proc = s.proc
           /\ AskFor(s, l).buf = s.buf /\ AskFor(s, l).ioq = s.ioq /\ l \in AskFor(s, l).wanted
<1> DEFINE x == s.wanted \cup {l}
           t == AskFor(s, l)
<1>1. Struct(s, p, H) /\ s \in StateSet /\ Counts(s, k) /\ Charged(s, m) BY DEF Base, Struct
<1>2. x \in SUBSET {"bfreelist", "bhdrlist"} /\ l \in x /\ s.wanted \subseteq x BY <1>1, StateTyped
<1> HIDE DEF x
<1>3. t = [s EXCEPT !.wanted = x] BY DEF AskFor, x
<1>4. t \in StateSet BY <1>1, <1>2, <1>3 DEF StateSet
<1>5. /\ t.buf = s.buf /\ t.bfreelist = s.bfreelist /\ t.bhdrlist = s.bhdrlist /\ t.ioq = s.ioq
      /\ t.proc = s.proc /\ t.wanted = x /\ t.bufsize = s.bufsize /\ t.basyncnt = s.basyncnt
      /\ t.basynwait = s.basynwait
  BY <1>1, <1>3 DEF StateSet
<1> HIDE DEF t
<1>6. Io(t) = Io(s) /\ SameLists(t, s) /\ Wakes(t, s) BY <1>5, KeptWakes DEF Io, SameLists
<1>7. Counts(t, k)
  <2>1. \A c \in Buf : (c \in Io(t) /\ "B_ASYNC" \in t.buf[c].flags /\ "B_READ" \notin t.buf[c].flags)
                     <=> (c \in Io(s) /\ "B_ASYNC" \in s.buf[c].flags /\ "B_READ" \notin s.buf[c].flags)
    BY <1>5, <1>6
  <2> QED BY <1>1, <1>5, <1>6, <2>1, CountsSame
<1>8. Charged(t, m) BY <1>1, <1>5, ChargedSame
<1>9. Base(t, p, H, k, m, d, D) BY <1>2, <1>4, <1>5, <1>6, <1>7, <1>8, BaseSameBuf
<1> QED BY <1>2, <1>5, <1>9 DEF t

SyncWait(s) == [s EXCEPT !.basynwait = TRUE]

(* bdwait() leaves its mark. *)
LEMMA BaseSync ==
    ASSUME NEW s, NEW p, NEW H, NEW k, NEW m, NEW d, NEW D, Base(s, p, H, k, m, d, D)
    PROVE  /\ Base(SyncWait(s), p, H, k, m, d, D) /\ SyncWait(s).proc = s.proc
           /\ SyncWait(s).buf = s.buf /\ SyncWait(s).basynwait /\ SyncWait(s).basyncnt = s.basyncnt
<1> DEFINE t == SyncWait(s)
<1>1. Struct(s, p, H) /\ s \in StateSet /\ Counts(s, k) /\ Charged(s, m) BY DEF Base, Struct
<1>2. t \in StateSet BY <1>1 DEF StateSet, SyncWait
<1>3. /\ t.buf = s.buf /\ t.bfreelist = s.bfreelist /\ t.bhdrlist = s.bhdrlist /\ t.ioq = s.ioq
      /\ t.proc = s.proc /\ t.wanted = s.wanted /\ t.bufsize = s.bufsize /\ t.basyncnt = s.basyncnt
  BY <1>1 DEF StateSet, SyncWait
<1>4. t.basynwait BY <1>1 DEF StateSet, SyncWait
<1> HIDE DEF t
<1>5. SameLists(t, s) /\ Wakes(t, s) BY <1>3, KeptWakes DEF SameLists
<1>6. Behind(t) = Behind(s) BY <1>3, <1>5, BehindIs
<1>7. Counts(t, k) BY <1>1, <1>3, <1>4, <1>6 DEF Counts
<1>8. Charged(t, m) BY <1>1, <1>3, ChargedSame
<1>9. Base(t, p, H, k, m, d, D) BY <1>2, <1>3, <1>5, <1>7, <1>8, BaseSameBuf
<1> QED BY <1>3, <1>4, <1>9 DEF t

(***************************************************************************)
(* Between the steps.                                                      *)
(***************************************************************************)
(* No valid buffer has the block getfreeblk() looks for a buffer for. *)
Searches(s, r) ==
    /\ r.pc \in {"getfreeblk", "alloc"} /\ Target(r) # NULL =>
          \A b \in Buf : s.buf[b].blk = Target(r) => "B_STALE" \in s.buf[b].flags
    /\ At(r) = "zalloc" => Target(r) = NULL

Inv(s, c, d) ==
    /\ Struct(s, NULL, {}) /\ CpuOK(s, c) /\ Counts(s, InBawrite(s, c)) /\ Charged(s, 0)
    /\ Sure => Data(s, d, NULL) /\ \A q \in Proc : Searches(s, s.proc[q])

Uncounted(r) == IF r.pc = "bawrite" THEN 1 ELSE 0

(* What holds between steps holds when p starts one, with its own entry    *)
(* apart.                                                                  *)
LEMMA Starting ==
    ASSUME NEW s, NEW c, NEW d, NEW p \in Proc, Inv(s, c, d), c \in {NULL, p}, s.proc[p].pc # "asleep"
    PROVE  /\ Base(s, p, Hold(s.proc[p]), Uncounted(s.proc[p]), 0, d, NULL)
           /\ ProcOK(s, s.proc[p]) /\ Off(s, p) /\ s.proc[p] \in ProcSet
           /\ Sure => Searches(s, s.proc[p])
<1>1. Struct(s, NULL, {}) /\ CpuOK(s, c) /\ Counts(s, InBawrite(s, c)) /\ Charged(s, 0) BY DEF Inv
<1>2. Struct(s, p, Hold(s.proc[p])) /\ ProcOK(s, s.proc[p]) BY <1>1, Begin
<1>3. Off(s, p) BY <1>1, CpuBegin
<1>4. NULL \notin Proc BY ConstantsAssumption
<1>5. InBawrite(s, c) = Uncounted(s.proc[p])
  <2>1. CASE c = p BY <1>4, <2>1 DEF InBawrite, Uncounted
  <2>2. CASE c = NULL
    <3>1. s.proc[p].pc # "bawrite" BY <1>1, <1>4, <2>2 DEF CpuOK, OnCpu
    <3> QED BY <2>2, <3>1 DEF InBawrite, Uncounted
  <2> QED BY <2>1, <2>2
<1>6. Base(s, p, Hold(s.proc[p]), Uncounted(s.proc[p]), 0, d, NULL) BY <1>1, <1>2, <1>5 DEF Base, Inv
<1> QED BY <1>1, <1>2, <1>3, <1>6, ProcTyped DEF Inv, Struct

(* What p must see to before it stops, or goes on, as r. *)
Stops(t, p, r, c) ==
    /\ ProcOK(t, r) /\ c \in {NULL, p} /\ (OnCpu(r) => c = p)
    /\ r.pc = "bflush" /\ r.then = "close" => \A q \in Proc \ {p} : t.proc[q].pc = "idle"
    /\ r.pc = "asleep" /\ r.chan = "basyncnt" => t.basynwait /\ t.basyncnt > 0
    /\ Sure => Searches(t, r)

(* And what holds when it stops holds between steps. *)
LEMMA Stopping ==
    ASSUME NEW s, NEW t, NEW c, NEW a, NEW d, NEW e, NEW p \in Proc, NEW r \in ProcSet, Inv(s, c, d), c \in {NULL, p},
           s.proc[p].pc # "asleep", Wakes(t, s), Base(t, p, Hold(r), Uncounted(r), 0, e, NULL), Stops(t, p, r, a)
    PROVE  Inv(With(t, p, r), a, e)
<1> DEFINE u == With(t, p, r)
<1>0. NULL \notin Proc BY ConstantsAssumption
<1>1. Struct(t, p, Hold(r)) /\ Counts(t, Uncounted(r)) /\ Charged(t, 0) /\ t \in StateSet BY DEF Base, Struct
<1>2. /\ Base(s, p, Hold(s.proc[p]), Uncounted(s.proc[p]), 0, d, NULL)
      /\ ProcOK(s, s.proc[p]) /\ Off(s, p) /\ s.proc[p] \in ProcSet
  BY Starting
<1>3. Struct(s, p, Hold(s.proc[p])) BY <1>2 DEF Base
<1>4. Off(t, p) BY <1>2, <1>3, OffKept
<1>5. Struct(u, NULL, {}) BY <1>1, End DEF Stops
<1>6. CpuOK(u, a) BY <1>1, <1>4, CpuStep DEF Stops
<1>7. u \in StateSet /\ u.buf = t.buf /\ SameLists(u, t) /\ SameCounts(u, t) /\ u.proc[p] = r BY <1>1, WithF
<1>8. \A q \in Proc \ {p} : u.proc[q] = t.proc[q] BY <1>1, WithF
<1> HIDE DEF u
<1>9. Counts(u, InBawrite(u, a))
  <2>1. Behind(u) = Behind(t) BY <1>7, BehindIs
  <2>2. InBawrite(u, a) = Uncounted(r)
    <3>1. CASE a = p BY <1>0, <1>7, <3>1 DEF InBawrite, Uncounted
    <3>2. CASE a = NULL
      <4>1. r.pc # "bawrite" BY <1>0, <3>2 DEF Stops, OnCpu
      <4> QED BY <3>2, <4>1 DEF InBawrite, Uncounted
    <3> QED BY <3>1, <3>2 DEF Stops
  <2>3. u.basyncnt = t.basyncnt /\ u.basynwait = t.basynwait BY <1>7 DEF SameCounts
  <2>4. u.basyncnt + InBawrite(u, a) = Cardinality(Behind(u)) BY <1>1, <2>1, <2>2, <2>3 DEF Counts
  <2>5. ASSUME NEW q \in Proc, u.proc[q].pc = "asleep", u.proc[q].chan = "basyncnt"
        PROVE  u.basynwait /\ u.basyncnt > 0
    <3>1. CASE q = p BY <1>7, <2>3, <2>5, <3>1 DEF Stops
    <3>2. CASE q # p
      <4>1. u.proc[q] = t.proc[q] BY <1>8, <3>2
      <4> QED BY <1>1, <2>3, <2>5, <4>1 DEF Counts
    <3> QED BY <3>1, <3>2
  <2> QED BY <2>4, <2>5 DEF Counts
<1>10. Charged(u, 0) BY <1>1, <1>7, ChargedSame DEF SameCounts
<1>11. ASSUME Sure PROVE Data(u, e, NULL) /\ \A q \in Proc : Searches(u, u.proc[q])
  <2>1. Data(t, e, NULL) BY <1>11 DEF Base
  <2>2. Data(u, e, NULL)
    <3>1. \A b \in Buf : SameData(u, t, b) BY <1>7 DEF SameData
    <3>2. \A b \in Io(t) : "B_STALE" \in u.buf[b].flags <=> "B_STALE" \in t.buf[b].flags BY <1>7
    <3>3. u.ioq = t.ioq BY <1>7 DEF SameLists
    <3> QED BY <1>1, <2>1, <3>1, <3>2, <3>3, DataKept
  <2>3. ASSUME NEW q \in Proc PROVE Searches(u, u.proc[q])
    <3>1. CASE q = p
      <4>1. Searches(t, r) BY <1>11 DEF Stops
      <4> QED BY <1>7, <3>1, <4>1 DEF Searches
    <3>2. CASE q # p
      <4>1. u.proc[q] = t.proc[q] /\ ~OnCpu(t.proc[q]) BY <1>4, <1>8, <3>2 DEF Off
      <4>2. s.proc[q] \in ProcSet /\ ProcOK(s, s.proc[q]) /\ Searches(s, s.proc[q])
        BY <1>3, <1>11, <3>2, ProcTyped DEF Struct, Inv
      <4>3. At(t.proc[q]) = At(s.proc[q]) /\ Target(t.proc[q]) = Target(s.proc[q])
        <5>1. CASE t.proc[q] = s.proc[q] BY <5>1
        <5>2. CASE s.proc[q].pc = "asleep" /\ t.proc[q] = Woken(s.proc[q], s.proc[q].chan)
          <6>1. s.buf = s.buf /\ SameLists(s, s) BY DEF SameLists
          <6> QED BY <4>2, <5>2, <6>1, WokenOK
        <5> QED BY <5>1, <5>2 DEF Wakes
      <4>4. At(t.proc[q]) = "zalloc" => Target(t.proc[q]) = NULL BY <4>2, <4>3 DEF Searches
      <4>5. ~(t.proc[q].pc \in {"getfreeblk", "alloc"} /\ Target(t.proc[q]) # NULL) BY <4>1 DEF OnCpu
      <4> QED BY <4>1, <4>4, <4>5 DEF Searches
    <3> QED BY <3>1, <3>2
  <2> QED BY <2>2, <2>3
<1>12. Inv(u, a, e) BY <1>5, <1>6, <1>9, <1>10, <1>11 DEF Inv
<1> QED BY <1>12 DEF u

(***************************************************************************)
(* The steps.  The ways a process stops.                                   *)
(***************************************************************************)
(* p, in a routine, may run. *)
MayRun(p) == p \in Proc /\ Inv(State, cpu, disk) /\ cpu \in {NULL, p} /\ proc[p].pc # "asleep"

(* The record is the variables. *)
LEMMA StateFields ==
    /\ State.buf = buf /\ State.bfreelist = bfreelist /\ State.bhdrlist = bhdrlist /\ State.bufsize = bufsize
    /\ State.wanted = wanted /\ State.basyncnt = basyncnt /\ State.basynwait = basynwait /\ State.ioq = ioq
    /\ State.proc = proc
BY DEF State

(* What p may count on. *)
LEMMA Ready ==
    ASSUME NEW p, MayRun(p)
    PROVE  /\ Base(State, p, Hold(proc[p]), Uncounted(proc[p]), 0, disk, NULL)
           /\ ProcOK(State, proc[p]) /\ Off(State, p) /\ proc[p] \in ProcSet
           /\ Sure => Searches(State, proc[p])
BY Starting, StateFields DEF MayRun

(* A step of p that ends with the entry r. *)
LEMMA Stepped ==
    ASSUME NEW p, MayRun(p), NEW t, NEW r \in ProcSet, Wakes(t, State),
           Base(t, p, Hold(r), Uncounted(r), 0, disk', NULL), Stops(t, p, r, cpu'), Become(With(t, p, r))
    PROVE  Inv(State', cpu', disk')
<1>1. p \in Proc /\ Inv(State, cpu, disk) /\ cpu \in {NULL, p} /\ State.proc[p].pc # "asleep"
  BY StateFields DEF MayRun
<1>2. Inv(With(t, p, r), cpu', disk') BY <1>1, Stopping
<1>3. With(t, p, r) \in StateSet BY <1>2 DEF Inv, Struct
<1>4. State' = With(t, p, r) BY <1>3, Becomes
<1> QED BY <1>2, <1>4

(* The same if the entry of p has not changed. *)
LEMMA WithSame ==
    ASSUME NEW t \in StateSet, NEW p \in Proc
    PROVE  With(t, p, t.proc[p]) = t
<1>1. t.proc \in [Proc -> ProcSet] BY StateTyped
<1>2. [t.proc EXCEPT ![p] = t.proc[p]] = t.proc BY <1>1
<1>3. With(t, p, t.proc[p]) = [t EXCEPT !.proc = [t.proc EXCEPT ![p] = t.proc[p]]] BY DEF With
<1>4. [t EXCEPT !.proc = t.proc] = t BY DEF StateSet
<1> QED BY <1>2, <1>3, <1>4

(* It goes on where it is. *)
LEMMA SteppedSame ==
    ASSUME NEW p, MayRun(p), NEW t, Wakes(t, State),
           Base(t, p, Hold(proc[p]), Uncounted(proc[p]), 0, disk', NULL), Stops(t, p, proc[p], cpu'), Become(t)
    PROVE  Inv(State', cpu', disk')
<1>1. t \in StateSet /\ p \in Proc BY DEF Base, Struct, MayRun
<1>2. t.proc[p] = proc[p] BY StateFields DEF Wakes, MayRun
<1>3. With(t, p, proc[p]) = t BY <1>1, <1>2, WithSame
<1>4. proc[p] \in ProcSet BY Ready
<1> QED BY <1>3, <1>4, Stepped

(* A process in no routine holds nothing. *)
LEMMA IdleIs ==
    /\ Idle \in ProcSet /\ Idle.pc = "idle" /\ Idle.blk = NULL /\ Idle.ra = NULL /\ Idle.bp = NULL
    /\ Idle.savebp = NULL /\ Idle.then = NULL /\ Idle.chan = NULL /\ Idle.ret = NULL
BY DEF Idle, ProcSet

(* It returns to its caller. *)
LEMMA Returns ==
    ASSUME NEW p, MayRun(p), NEW t, Wakes(t, State), Base(t, p, {}, 0, 0, disk', NULL), Return(t, p)
    PROVE  Inv(State', cpu', disk')
<1>1. Idle \in ProcSet BY IdleIs
<1>2. Hold(Idle) = {} BY IdleIs DEF Hold
<1>3. Uncounted(Idle) = 0 BY IdleIs DEF Uncounted
<1>4. Base(t, p, Hold(Idle), Uncounted(Idle), 0, disk', NULL) BY <1>2, <1>3
<1>5. cpu' = NULL /\ Become(With(t, p, Idle)) BY DEF Return
<1>6. Stops(t, p, Idle, NULL)
  <2>1. At(Idle) = "idle" BY IdleIs DEF At
  <2>2. Shape(Idle) BY <2>1, IdleIs DEF Shape
  <2>3. ProcOK(t, Idle) BY <2>2, IdleIs DEF ProcOK, HoldsOK, KeepsOK, SleepOK
  <2>4. ~OnCpu(Idle) BY IdleIs DEF OnCpu
  <2>5. Searches(t, Idle) BY <2>1, IdleIs DEF Searches
  <2> QED BY <2>3, <2>4, <2>5, IdleIs DEF Stops
<1> QED BY <1>1, <1>4, <1>5, <1>6, Stepped

(* It returns with a buffer. *)
LEMMA Owns ==
    ASSUME NEW p, MayRun(p), NEW t, NEW b \in Buf, Wakes(t, State), Base(t, p, {b}, 0, 0, disk', NULL), Own(t, p, b),
           b \notin Io(t), "B_BUSY" \in t.buf[b].flags, "B_ASYNC" \notin t.buf[b].flags, "B_STALE" \notin t.buf[b].flags
    PROVE  Inv(State', cpu', disk')
<1> DEFINE r == [Idle EXCEPT !.pc = "own", !.bp = b]
<1>0. NULL \notin Buf BY ConstantsAssumption
<1>1. cpu' = NULL /\ Become(With(t, p, r)) BY DEF Own
<1>2. /\ r \in ProcSet /\ r.pc = "own" /\ r.bp = b /\ r.savebp = NULL /\ r.blk = NULL /\ r.ra = NULL
      /\ r.chan = NULL /\ r.ret = NULL /\ r.then = NULL
  BY IdleIs DEF ProcSet
<1> HIDE DEF r
<1>3. Hold(r) = {b} BY <1>0, <1>2 DEF Hold
<1>4. Uncounted(r) = 0 /\ At(r) = "own" BY <1>2 DEF Uncounted, At
<1>5. Shape(r) BY <1>0, <1>2, <1>4 DEF Shape
<1>6. ProcOK(t, r) BY <1>2, <1>5 DEF ProcOK, HoldsOK, KeepsOK, SleepOK
<1>7. Stops(t, p, r, NULL) BY <1>2, <1>4, <1>6 DEF Stops, OnCpu, Searches
<1>8. Base(t, p, Hold(r), Uncounted(r), 0, disk', NULL) BY <1>3, <1>4
<1> QED BY <1>1, <1>2, <1>7, <1>8, Stepped

(* It sleeps. *)
Asleep(x, chan, ret) == [x EXCEPT !.pc = "asleep", !.chan = chan, !.ret = ret]

IsAsleep(r, x, chan, ret) ==
    /\ r \in ProcSet /\ r.pc = "asleep" /\ r.chan = chan /\ r.ret = ret
    /\ r.blk = x.blk /\ r.ra = x.ra /\ r.bp = x.bp /\ r.savebp = x.savebp /\ r.then = x.then
    /\ Hold(r) = Hold(x) /\ Uncounted(r) = 0 /\ At(r) = ret /\ Target(r) = Target(x)
    /\ Want(r) = Want(x) /\ Again(r) = Again(x) /\ (Getting(r) <=> Getting(x)) /\ ~OnCpu(r)

(* The entry of a sleeper. *)
LEMMA AsleepIs ==
    ASSUME NEW x \in ProcSet, NEW chan \in Buf \cup {"bfreelist", "bhdrlist", "basyncnt", "kmem"},
           NEW ret \in {"getblk", "getfreeblk", "zalloc", "biowait", "blkflush", "bdwait"}
    PROVE  IsAsleep(Asleep(x, chan, ret), x, chan, ret)
<1> DEFINE r == Asleep(x, chan, ret)
<1>1. r \in ProcSet BY ZenonT(60) DEF ProcSet, Asleep
<1>2. /\ r.pc = "asleep" /\ r.chan = chan /\ r.ret = ret /\ r.blk = x.blk /\ r.ra = x.ra
      /\ r.bp = x.bp /\ r.savebp = x.savebp /\ r.then = x.then
  BY DEF ProcSet, Asleep
<1> HIDE DEF r
<1>3. Target(r) = Target(x) /\ Hold(r) = Hold(x) BY <1>2 DEF Target, Hold
<1>4. Want(r) = Want(x) /\ Again(r) = Again(x) /\ (Getting(r) <=> Getting(x)) BY <1>2, <1>3 DEF Want, Again, Getting
<1>5. Uncounted(r) = 0 /\ At(r) = ret /\ ~OnCpu(r) BY <1>2 DEF Uncounted, At, OnCpu
<1> QED BY <1>1, <1>2, <1>3, <1>4, <1>5 DEF r, IsAsleep

(* What it holds stays as it was. *)
LEMMA Carried ==
    ASSUME NEW s, NEW t, NEW x, NEW r, HoldsOK(s, x), r.bp = x.bp, x.pc # "own", r.pc # "own",
           x.bp # NULL => /\ \A f \in {"B_BUSY", "B_ASYNC", "B_STALE", "B_DONE"} :
                                f \in t.buf[x.bp].flags <=> f \in s.buf[x.bp].flags
                          /\ x.bp \in Io(t) <=> x.bp \in Io(s)
    PROVE  HoldsOK(t, r)
BY DEF HoldsOK

(* The same if another header changed. *)
LEMMA CarriedElse ==
    ASSUME NEW s, NEW t, NEW b \in Buf, NEW x \in ProcSet, NEW r, HoldsOK(s, x), r.bp = x.bp, x.pc # "own", r.pc # "own",
           x.bp # b, Elsewhere(t, s, b)
    PROVE  HoldsOK(t, r)
<1>1. x.bp # NULL => t.buf[x.bp] = s.buf[x.bp] /\ (x.bp \in Io(t) <=> x.bp \in Io(s)) BY DEF Elsewhere, ProcSet
<1> QED BY <1>1, Carried

(* getblk() and incore(). *)
LEMMA LookupIs ==
    ASSUME NEW s, NEW n
    PROVE  \/ Lookup(s, n) = NULL /\ \A b \in Buf : s.buf[b].blk = n => "B_STALE" \in s.buf[b].flags
           \/ /\ Lookup(s, n) \in Buf /\ s.buf[Lookup(s, n)].blk = n /\ "B_STALE" \notin s.buf[Lookup(s, n)].flags
              /\ Lookup(s, n) # NULL
<1> DEFINE F == {b \in Buf : s.buf[b].blk = n /\ "B_STALE" \notin s.buf[b].flags}
<1>0. NULL \notin Buf BY ConstantsAssumption
<1>1. Lookup(s, n) = IF F = {} THEN NULL ELSE CHOOSE b \in F : TRUE BY DEF Lookup
<1>2. CASE F = {} BY <1>1, <1>2
<1>3. CASE F # {}
  <2>1. Lookup(s, n) \in F BY <1>1, <1>3
  <2> QED BY <1>0, <2>1
<1> QED BY <1>2, <1>3

(* A buffer with a block that is not busy is free. *)
LEMMA IsFree ==
    ASSUME NEW s, NEW p, NEW H, NEW b \in Buf, Struct(s, p, H), s.buf[b].blk # NULL, "B_BUSY" \notin s.buf[b].flags,
           b \notin H
    PROVE  b \in Free(s)
<1>1. BufOK(s, H, b) /\ s \in StateSet BY DEF Struct
<1>2. b \notin Hdr(s) BY <1>1, NewBufSet DEF BufOK
<1>3. ~Async(s, b) BY <1>1 DEF BufOK, Async
<1>4. ASSUME NEW q \in Proc \ {p} PROVE b \notin Hold(s.proc[q])
  <2>1. ProcOK(s, s.proc[q]) BY DEF Struct
  <2>2. NULL \notin Buf BY ConstantsAssumption
  <2> QED BY <2>1, <2>2 DEF ProcOK, HoldsOK, KeepsOK, Hold
<1> QED BY <1>2, <1>3, <1>4 DEF Struct, Somewhere

(* breada() goes on to its own block. *)
LEMMA AheadEnds ==
    ASSUME NEW p, MayRun(p), NEW t, NEW r \in ProcSet, Wakes(t, State), Base(t, p, Hold(r), 0, 0, disk', NULL),
           Ahead(t, p, r), r.savebp = NULL, r.chan = NULL, r.ret = NULL, r.blk \in Block, HoldsOK(t, r), r.pc # "own"
    PROVE  Inv(State', cpu', disk')
<1>0. NULL \notin Buf /\ NULL \notin Block BY ConstantsAssumption
<1>1. CASE r.bp = NULL
  <2> DEFINE x == [r EXCEPT !.pc = "getblk", !.then = "read"]
  <2>1. cpu' = p /\ Become(With(t, p, x)) BY <1>1 DEF Ahead, Continue
  <2>2. /\ x \in ProcSet /\ x.pc = "getblk" /\ x.bp = NULL /\ x.savebp = NULL /\ x.blk = r.blk /\ x.ra = r.ra
        /\ x.chan = NULL /\ x.ret = NULL /\ x.then = "read"
    BY <1>1 DEF ProcSet
  <2> HIDE DEF x
  <2>3. Hold(x) = Hold(r) BY <1>1, <2>2 DEF Hold
  <2>4. Uncounted(x) = 0 /\ At(x) = "getblk" /\ Target(x) = r.blk BY <2>2 DEF Uncounted, At, Target
  <2>5. Getting(x) BY <1>0, <2>2, <2>4 DEF Getting
  <2>6. Shape(x) BY <1>0, <2>2, <2>4, <2>5 DEF Shape
  <2>7. ProcOK(t, x) BY <2>2, <2>6 DEF ProcOK, HoldsOK, KeepsOK, SleepOK
  <2>8. Stops(t, p, x, p) BY <2>2, <2>4, <2>7 DEF Stops, OnCpu, Searches
  <2>9. Base(t, p, Hold(x), Uncounted(x), 0, disk', NULL) BY <2>3, <2>4
  <2> QED BY <2>1, <2>2, <2>8, <2>9, Stepped
<1>2. CASE r.bp # NULL
  <2> DEFINE x == [r EXCEPT !.pc = "biowait", !.then = NULL]
  <2>1. cpu' = p /\ Become(With(t, p, x)) BY <1>2 DEF Ahead, Continue
  <2>2. /\ x \in ProcSet /\ x.pc = "biowait" /\ x.bp = r.bp /\ x.savebp = NULL /\ x.blk = r.blk /\ x.ra = r.ra
        /\ x.chan = NULL /\ x.ret = NULL /\ x.then = NULL
    BY <1>2 DEF ProcSet
  <2> HIDE DEF x
  <2>3. Hold(x) = Hold(r) BY <2>2 DEF Hold
  <2>4. Uncounted(x) = 0 /\ At(x) = "biowait" BY <2>2 DEF Uncounted, At
  <2>5. Shape(x) BY <1>0, <1>2, <2>2, <2>4, ConstantsAssumption DEF Shape
  <2>6. HoldsOK(t, x) BY <2>2 DEF HoldsOK
  <2>7. ProcOK(t, x) BY <2>2, <2>5, <2>6 DEF ProcOK, KeepsOK, SleepOK
  <2>8. Stops(t, p, x, p) BY <2>2, <2>4, <2>7 DEF Stops, OnCpu, Searches
  <2>9. Base(t, p, Hold(x), Uncounted(x), 0, disk', NULL) BY <2>3, <2>4
  <2> QED BY <2>1, <2>2, <2>8, <2>9, Stepped
<1> QED BY <1>1, <1>2

(* The caller of getblk() has its buffer. *)
InHand(s, r, b) ==
    /\ b \notin Io(s) /\ r.bp # b /\ s.buf[b].blk = Target(r)
    /\ "B_BUSY" \in s.buf[b].flags /\ "B_ASYNC" \notin s.buf[b].flags
    /\ "B_STALE" \notin s.buf[b].flags /\ "B_ERROR" \notin s.buf[b].flags

(* Whatever the caller does with it, the invariant holds again. *)
LEMMA GotEnds ==
    ASSUME NEW p, MayRun(p), NEW s, NEW r \in ProcSet, NEW b \in Buf, Wakes(s, State),
           Base(s, p, Hold(r) \cup {b}, 0, 0, disk', NULL), Got(s, p, r, b), InHand(s, r, b),
           r.savebp = NULL, r.chan = NULL, r.ret = NULL, Getting(r), r.pc # "own", HoldsOK(s, r)
    PROVE  Inv(State', cpu', disk')
<1> DEFINE done == "B_DONE" \in s.buf[b].flags
           G == Hold(r)
           H == G \cup {b}
<1>0. NULL \notin Buf /\ NULL \notin Block BY ConstantsAssumption
<1>1. /\ G \in SUBSET Buf /\ H \in SUBSET Buf /\ b \in H /\ b \notin G /\ \A c \in Buf \ {b} : c \in G <=> c \in H
  BY <1>0 DEF Hold, InHand, ProcSet
<1>2. Base(s, p, H, 0, 0, disk', NULL) OBVIOUS
<1>3. r.then # "ahead" => G = {} BY DEF Getting, Hold
<1>4. r.then # "own" => s.buf[b].blk # NULL BY DEF Getting, InHand
<1>5. /\ b \notin Io(s) /\ r.bp # b /\ s.buf[b].blk = Target(r)
      /\ "B_BUSY" \in s.buf[b].flags /\ "B_ASYNC" \notin s.buf[b].flags
      /\ "B_STALE" \notin s.buf[b].flags /\ "B_ERROR" \notin s.buf[b].flags
  BY DEF InHand
<1> HIDE DEF G, H
<1>6. CASE (r.then = "own" \/ (r.then = "read" /\ done)) /\ Own(s, p, b)
  <2>1. H = {b} BY <1>3, <1>6 DEF H
  <2>2. Base(s, p, {b}, 0, 0, disk', NULL) BY <1>2, <2>1
  <2> QED BY <1>5, <1>6, <2>2, Owns
<1>7. ASSUME s.buf[b].blk # NULL, ~done
      PROVE  LET t == StartRead(s, b, {})
             IN  /\ Base(t, p, H, 0, 0, disk', NULL) /\ Wakes(t, State)
                 /\ b \in Io(t) /\ "B_BUSY" \in t.buf[b].flags /\ "B_ASYNC" \notin t.buf[b].flags
                 /\ "B_STALE" \notin t.buf[b].flags
  <2> DEFINE t == StartRead(s, b, {})
  <2>1. {} \in SUBSET {"B_ASYNC"} /\ "B_ASYNC" \notin {} OBVIOUS
  <2>2. Base(t, p, H, 0, 0, disk', NULL) /\ t.proc = s.proc /\ Starts(t, s, b, s.buf[b].flags \cup ({"B_READ"} \cup {}))
    BY <1>1, <1>2, <1>5, <1>7, <2>1, BaseRead
  <2> HIDE DEF t
  <2>3. Wakes(t, State) BY <2>2 DEF Wakes
  <2>4. s \in StateSet /\ Lonely(s) BY DEF Base, Struct
  <2>5. Io(t) = Io(s) \cup {b} BY <1>5, <2>2, <2>4, StartsF
  <2>6. t.buf[b].flags = s.buf[b].flags \cup {"B_READ"} BY <2>2 DEF Starts, OnlyFlags
  <2>7. b \in Io(t) /\ "B_BUSY" \in t.buf[b].flags /\ "B_ASYNC" \notin t.buf[b].flags /\ "B_STALE" \notin t.buf[b].flags
    BY <1>5, <2>5, <2>6
  <2> QED BY <2>2, <2>3, <2>7 DEF t
<1>8. CASE /\ r.then = "read" /\ ~done
           /\ Continue(StartRead(s, b, {}), p, [r EXCEPT !.pc = "biowait", !.bp = b, !.then = NULL])
  <2> DEFINE t == StartRead(s, b, {})
             x == [r EXCEPT !.pc = "biowait", !.bp = b, !.then = NULL]
  <2>1. /\ Base(t, p, H, 0, 0, disk', NULL) /\ Wakes(t, State)
        /\ b \in Io(t) /\ "B_BUSY" \in t.buf[b].flags /\ "B_ASYNC" \notin t.buf[b].flags
        /\ "B_STALE" \notin t.buf[b].flags
    BY <1>4, <1>7, <1>8
  <2>2. cpu' = p /\ Become(With(t, p, x)) BY <1>8 DEF Continue
  <2>3. /\ x \in ProcSet /\ x.pc = "biowait" /\ x.bp = b /\ x.savebp = NULL /\ x.blk = r.blk /\ x.ra = r.ra
        /\ x.chan = NULL /\ x.ret = NULL /\ x.then = NULL
    BY DEF ProcSet
  <2> HIDE DEF x, t
  <2>4. Hold(x) = H BY <1>0, <1>3, <1>8, <2>3 DEF Hold, H
  <2>5. Uncounted(x) = 0 /\ At(x) = "biowait" BY <2>3 DEF Uncounted, At
  <2>6. Shape(x) BY <1>0, <2>3, <2>5, ConstantsAssumption DEF Shape
  <2>7. ProcOK(t, x) BY <2>1, <2>3, <2>6 DEF ProcOK, HoldsOK, KeepsOK, SleepOK
  <2>8. Stops(t, p, x, p) BY <2>3, <2>5, <2>7 DEF Stops, OnCpu, Searches
  <2>9. Base(t, p, Hold(x), Uncounted(x), 0, disk', NULL) BY <2>1, <2>4, <2>5
  <2> QED BY <2>1, <2>2, <2>3, <2>8, <2>9, Stepped
<1>9. CASE /\ r.then = "first"
           /\ Continue(IF done THEN s ELSE StartRead(s, b, {}), p, [r EXCEPT !.pc = "ahead", !.bp = b])
  <2> DEFINE t == IF done THEN s ELSE StartRead(s, b, {})
             x == [r EXCEPT !.pc = "ahead", !.bp = b]
  <2>1. /\ Base(t, p, H, 0, 0, disk', NULL) /\ Wakes(t, State)
        /\ ("B_DONE" \notin t.buf[b].flags => b \in Io(t)) /\ "B_BUSY" \in t.buf[b].flags
        /\ "B_ASYNC" \notin t.buf[b].flags /\ "B_STALE" \notin t.buf[b].flags
    <3>1. CASE done BY <1>2, <1>5, <3>1
    <3>2. CASE ~done BY <1>4, <1>7, <1>9, <3>2
    <3> QED BY <3>1, <3>2
  <2>2. cpu' = p /\ Become(With(t, p, x)) BY <1>9 DEF Continue
  <2>3. /\ x \in ProcSet /\ x.pc = "ahead" /\ x.bp = b /\ x.savebp = NULL /\ x.blk = r.blk /\ x.ra = r.ra
        /\ x.chan = NULL /\ x.ret = NULL /\ x.then = "first"
    BY <1>9 DEF ProcSet
  <2>4. x.blk \in Block /\ x.ra \in Block BY <1>9, <2>3 DEF Getting
  <2> HIDE DEF x, t
  <2>5. Hold(x) = H BY <1>0, <1>3, <1>9, <2>3 DEF Hold, H
  <2>6. Uncounted(x) = 0 /\ At(x) = "ahead" BY <2>3 DEF Uncounted, At
  <2>7. Shape(x) BY <1>0, <2>3, <2>4, <2>6, ConstantsAssumption DEF Shape
  <2>8. ProcOK(t, x) BY <2>1, <2>3, <2>7 DEF ProcOK, HoldsOK, KeepsOK, SleepOK
  <2>9. Stops(t, p, x, p) BY <2>3, <2>6, <2>8 DEF Stops, OnCpu, Searches
  <2>10. Base(t, p, Hold(x), Uncounted(x), 0, disk', NULL) BY <2>1, <2>5, <2>6
  <2> QED BY <2>1, <2>2, <2>3, <2>9, <2>10, Stepped
<1>10. CASE /\ r.then = "ahead"
            /\ Ahead(IF done THEN Brelse(s, b) ELSE StartRead(s, b, {"B_ASYNC"}), p, r)
  <2> DEFINE t == IF done THEN Brelse(s, b) ELSE StartRead(s, b, {"B_ASYNC"})
  <2>1. Base(t, p, G, 0, 0, disk', NULL) /\ Wakes(t, s) /\ Elsewhere(t, s, b)
    <3>1. CASE done
      <4>1. /\ Base(Brelse(s, b), p, H \ {b}, 0, 0, disk', NULL) /\ Wakes(Brelse(s, b), s)
            /\ OnlyFlags(Brelse(s, b), s, b, Released(s.buf[b].flags)) /\ Brelse(s, b).ioq = s.ioq
        BY <1>1, <1>2, <1>5, BaseBrelse
      <4>2. H \ {b} = G BY <1>1 DEF H
      <4>3. Elsewhere(Brelse(s, b), s, b) BY <4>1 DEF Elsewhere, OnlyFlags, Io
      <4> QED BY <3>1, <4>1, <4>2, <4>3
    <3>2. CASE ~done
      <4> DEFINE u == StartRead(s, b, {"B_ASYNC"})
      <4>1. {"B_ASYNC"} \in SUBSET {"B_ASYNC"} /\ "B_ASYNC" \in {"B_ASYNC"} OBVIOUS
      <4>2. Base(u, p, G, 0, 0, disk', NULL) /\ u.proc = s.proc
            /\ Starts(u, s, b, s.buf[b].flags \cup ({"B_READ"} \cup {"B_ASYNC"}))
        BY <1>1, <1>2, <1>4, <1>5, <1>10, <3>2, <4>1, BaseRead
      <4> HIDE DEF u
      <4>3. s \in StateSet /\ Lonely(s) BY DEF Base, Struct
      <4>4. Io(u) = Io(s) \cup {b} BY <1>5, <4>2, <4>3, StartsF
      <4>5. Elsewhere(u, s, b) /\ Wakes(u, s) BY <4>2, <4>4, KeptWakes DEF Elsewhere, Starts, OnlyFlags
      <4> QED BY <3>2, <4>2, <4>5 DEF u
    <3> QED BY <3>1, <3>2
  <2>2. Ahead(t, p, r) BY <1>10
  <2> HIDE DEF t
  <2>3. HoldsOK(t, r) BY <1>5, <2>1, CarriedElse
  <2>4. Wakes(t, State)
    <3>1. Struct(State, NULL, {}) BY DEF MayRun, Inv
    <3> QED BY <2>1, <3>1, WakesTwice
  <2>5. r.blk \in Block BY <1>10 DEF Getting
  <2>6. Base(t, p, Hold(r), 0, 0, disk', NULL) BY <2>1 DEF G
  <2> QED BY <2>2, <2>3, <2>4, <2>5, <2>6, AheadEnds
<1> QED BY <1>6, <1>8, <1>9, <1>10 DEF Got

(* A buffer with a block that is not busy, and is not stale. *)
LEMMA Available ==
    ASSUME NEW p, MayRun(p), NEW b \in Buf, buf[b].blk # NULL, "B_BUSY" \notin buf[b].flags, proc[p].savebp = NULL
    PROVE  b \in Free(State) /\ b # proc[p].bp
<1>1. Struct(State, p, Hold(proc[p])) /\ HoldsOK(State, proc[p]) BY Ready DEF Base, ProcOK
<1>2. NULL \notin Buf BY ConstantsAssumption
<1>3. b # proc[p].bp BY <1>1, <1>2, StateFields DEF HoldsOK
<1>4. b \notin Hold(proc[p]) BY <1>2, <1>3 DEF Hold
<1> QED BY <1>1, <1>3, <1>4, StateFields, IsFree

(* getblk(): the search of the hash queue, with the sleep on a busy buffer. *)
LEMMA GetblkInv ==
    ASSUME NEW p \in Proc, Inv(State, cpu, disk), Getblk(p), disk' = disk
    PROVE  Inv(State', cpu', disk')
<1> DEFINE x == proc[p]
           n == Target(x)
           b == Lookup(State, n)
<1>0. NULL \notin Buf /\ NULL \notin Block BY ConstantsAssumption
<1>1. MayRun(p) /\ x.pc = "getblk" BY DEF Getblk, Runs, MayRun
<1>2. /\ Base(State, p, Hold(x), Uncounted(x), 0, disk, NULL) /\ ProcOK(State, x) /\ x \in ProcSet
  BY <1>1, Ready
<1>3. Uncounted(x) = 0 /\ At(x) = "getblk" BY <1>1 DEF Uncounted, At
<1>4. /\ x.savebp = NULL /\ x.chan = NULL /\ x.ret = NULL /\ Getting(x) /\ n # NULL /\ HoldsOK(State, x)
  BY <1>1, <1>2, <1>3 DEF ProcOK, Shape
<1>5. Base(State, p, Hold(x), 0, 0, disk', NULL) BY <1>2, <1>3
<1>6. Wakes(State, State) /\ State \in StateSet BY <1>5 DEF Wakes, Base, Struct
<1>7. State.buf = buf BY StateFields
<1>8. \/ b = NULL /\ \A c \in Buf : State.buf[c].blk = n => "B_STALE" \in State.buf[c].flags
      \/ b \in Buf /\ buf[b].blk = n /\ "B_STALE" \notin buf[b].flags /\ b # NULL
  BY <1>7, LookupIs
<1>9. CASE b = NULL /\ Goto(State, p, "getfreeblk")
  <2> DEFINE r == [x EXCEPT !.pc = "getfreeblk"]
  <2>1. cpu' = p /\ Become(With(State, p, r)) BY <1>9 DEF Goto, Continue
  <2>2. /\ r \in ProcSet /\ r.pc = "getfreeblk" /\ r.bp = x.bp /\ r.savebp = x.savebp /\ r.blk = x.blk /\ r.ra = x.ra
        /\ r.chan = x.chan /\ r.ret = x.ret /\ r.then = x.then
    BY <1>2 DEF ProcSet
  <2>3. \A c \in Buf : State.buf[c].blk = n => "B_STALE" \in State.buf[c].flags BY <1>0, <1>8, <1>9
  <2> HIDE DEF r
  <2>4. Hold(r) = Hold(x) /\ Target(r) = n /\ (Getting(r) <=> Getting(x)) BY <2>2 DEF Hold, Target, Getting
  <2>5. Uncounted(r) = 0 /\ At(r) = "getfreeblk" BY <2>2 DEF Uncounted, At
  <2>6. Shape(r) BY <1>4, <2>2, <2>4, <2>5 DEF Shape
  <2>7. HoldsOK(State, r) BY <1>1, <1>4, <2>2 DEF HoldsOK
  <2>8. ProcOK(State, r) BY <1>4, <2>2, <2>6, <2>7 DEF ProcOK, KeepsOK, SleepOK
  <2>9. Searches(State, r) BY <2>3, <2>4, <2>5 DEF Searches
  <2>10. Stops(State, p, r, p) BY <2>2, <2>8, <2>9 DEF Stops
  <2>11. Base(State, p, Hold(r), Uncounted(r), 0, disk', NULL) BY <1>5, <2>4, <2>5
  <2> QED BY <1>1, <1>6, <2>1, <2>2, <2>10, <2>11, Stepped
<1>10. CASE b # NULL /\ "B_BUSY" \in buf[b].flags /\ Sleep(Set(State, b, {"B_WANTED"}), p, b, "getblk")
  <2> DEFINE t == Set(State, b, {"B_WANTED"})
             r == Asleep(x, b, "getblk")
  <2>1. b \in Buf /\ buf[b].blk # NULL BY <1>4, <1>8, <1>10
  <2> HIDE DEF b
  <2>2. /\ Base(t, p, Hold(x), 0, 0, disk', NULL) /\ t.proc = State.proc /\ t.ioq = State.ioq
        /\ OnlyFlags(t, State, b, State.buf[b].flags \cup {"B_WANTED"})
    BY <1>5, <1>7, <1>10, <2>1, BaseMark
  <2>3. cpu' = NULL /\ Become(With(t, p, r)) BY <1>10 DEF Sleep, Asleep
  <2>4. /\ r \in ProcSet /\ r.pc = "asleep" /\ r.chan = b /\ r.ret = "getblk" /\ r.bp = x.bp /\ r.savebp = x.savebp
        /\ r.blk = x.blk /\ r.ra = x.ra /\ r.then = x.then /\ Hold(r) = Hold(x) /\ Uncounted(r) = 0
        /\ At(r) = "getblk" /\ Target(r) = Target(x) /\ (Getting(r) <=> Getting(x)) /\ ~OnCpu(r)
    <3>1. b \in Buf \cup {"bfreelist", "bhdrlist", "basyncnt", "kmem"} BY <2>1
    <3>2. IsAsleep(r, x, b, "getblk") BY <1>2, <3>1, AsleepIs
    <3> QED BY <3>2 DEF IsAsleep
  <2> HIDE DEF t, r
  <2>5. Wakes(t, State) BY <2>2, KeptWakes
  <2>6. Io(t) = Io(State) BY <2>2 DEF Io
  <2>7. t.buf[b].flags = buf[b].flags \cup {"B_WANTED"} /\ \A c \in Buf \ {b} : t.buf[c] = buf[c]
    BY <1>7, <2>2 DEF OnlyFlags
  <2>8. HoldsOK(t, r)
    <3>1. x.bp \in Buf \cup {NULL} BY <1>2 DEF ProcSet
    <3>2. x.bp # NULL => /\ \A f \in {"B_BUSY", "B_ASYNC", "B_STALE", "B_DONE"} :
                                f \in t.buf[x.bp].flags <=> f \in State.buf[x.bp].flags
                         /\ x.bp \in Io(t) <=> x.bp \in Io(State)
      BY <1>7, <2>6, <2>7, <3>1
    <3> QED BY <1>1, <1>4, <2>4, <3>2, Carried
  <2>9. Shape(r) BY <1>4, <2>1, <2>4 DEF Shape
  <2>10. SleepOK(t, r) BY <1>10, <2>1, <2>4, <2>7, ConstantsAssumption DEF SleepOK
  <2>11. ProcOK(t, r) BY <1>4, <2>4, <2>8, <2>9, <2>10 DEF ProcOK, KeepsOK
  <2>12. Stops(t, p, r, NULL) BY <2>1, <2>4, <2>11, ConstantsAssumption DEF Stops, Searches
  <2>13. Base(t, p, Hold(r), Uncounted(r), 0, disk', NULL) BY <2>2, <2>4
  <2> QED BY <1>1, <2>3, <2>4, <2>5, <2>12, <2>13, Stepped
<1>11. CASE /\ b # NULL /\ "B_BUSY" \notin buf[b].flags
            /\ Got(Notavail(Clear(State, b, {"B_AGE"}), b), p, x, b)
  <2> DEFINE u == Clear(State, b, {"B_AGE"})
             t == Notavail(u, b)
  <2>1. b \in Buf /\ buf[b].blk # NULL /\ buf[b].blk = n /\ "B_STALE" \notin buf[b].flags BY <1>4, <1>8, <1>11
  <2>2. Got(t, p, x, b) BY <1>11
  <2> HIDE DEF b
  <2>3. b \in Free(State) /\ b # x.bp BY <1>1, <1>4, <1>11, <2>1, Available
  <2>4. Struct(State, p, Hold(x)) BY <1>5 DEF Base
  <2>5. /\ b \notin Io(State) /\ "B_WANTED" \notin State.buf[b].flags /\ b \notin Hold(x)
        /\ "B_ERROR" \notin State.buf[b].flags /\ "B_ASYNC" \notin State.buf[b].flags
    BY <2>3, <2>4, FreeIs
  <2>6. /\ u \in StateSet /\ OnlyFlags(u, State, b, State.buf[b].flags \ {"B_AGE"}) /\ SameLists(u, State)
        /\ SameCounts(u, State) /\ u.proc = State.proc
    BY <1>6, <2>1, ClearF
  <2> HIDE DEF u
  <2>7. Kept(u, State) BY <2>6 DEF Kept
  <2>8. (State.buf[b].flags \ {"B_AGE"}) \ {"B_AGE"} = State.buf[b].flags \ {"B_AGE"} OBVIOUS
  <2>9. Base(u, p, Hold(x), 0, 0, disk', NULL) BY <1>5, <2>1, <2>3, <2>5, <2>6, <2>7, <2>8, BaseAge
  <2>10. b \in Free(u) BY <2>3, <2>6 DEF Free, SameLists
  <2>11. /\ Base(t, p, Hold(x) \cup {b}, 0, 0, disk', NULL) /\ t.proc = u.proc /\ t.ioq = u.ioq
         /\ OnlyFlags(t, u, b, u.buf[b].flags \cup {"B_BUSY"})
    BY <2>9, <2>10, BaseNotavail
  <2> HIDE DEF t
  <2>12. Wakes(t, State) BY <2>6, <2>11, KeptWakes
  <2>13. /\ t.buf[b].flags = (buf[b].flags \ {"B_AGE"}) \cup {"B_BUSY"} /\ t.buf[b].blk = n
         /\ \A c \in Buf \ {b} : t.buf[c] = State.buf[c]
    BY <1>7, <2>1, <2>6, <2>11 DEF OnlyFlags
  <2>14. Io(t) = Io(State) BY <2>6, <2>11 DEF Io, SameLists
  <2>15. InHand(t, x, b) BY <1>7, <2>1, <2>3, <2>5, <2>13, <2>14 DEF InHand
  <2>16. Elsewhere(t, State, b) BY <2>13, <2>14 DEF Elsewhere
  <2>17. HoldsOK(t, x) BY <1>1, <1>2, <1>4, <2>1, <2>3, <2>16, CarriedElse
  <2> QED BY <1>1, <1>2, <1>4, <2>1, <2>2, <2>11, <2>12, <2>15, <2>17, GotEnds
<1> QED BY <1>9, <1>10, <1>11 DEF Getblk

(* The new identity is one. *)
LEMMA NewIdIs ==
    ASSUME NEW x \in ProcSet
    PROVE  /\ NewId(x) \in BufSet /\ NewId(x).blk = Target(x) /\ NewId(x).size = Want(x) /\ ~NewId(x).cur
           /\ NewId(x).flags = (IF Target(x) = NULL THEN {"B_BUSY", "B_AGE"} ELSE {"B_BUSY"})
           /\ Want(x) \in Int
<1>1. Target(x) \in Block \cup {NULL} BY DEF Target, ProcSet
<1>2. Want(x) \in 0 .. BUFHWM BY <1>1, ConstantsAssumption DEF Want
<1> DEFINE fl == IF Target(x) = NULL THEN {"B_BUSY", "B_AGE"} ELSE {"B_BUSY"}
<1>3. fl \in SUBSET BFlag BY DEF BFlag
<1> HIDE DEF fl
<1>4. NewId(x) = [flags |-> fl, blk |-> Target(x), size |-> Want(x), cur |-> FALSE] BY DEF NewId, fl
<1>5. NewId(x) \in BufSet BY <1>1, <1>2, <1>3, <1>4 DEF BufSet
<1>6. NewId(x).flags = fl /\ NewId(x).blk = Target(x) /\ NewId(x).size = Want(x) BY <1>4
<1>7. ~NewId(x).cur BY <1>4
<1>8. Want(x) \in Int BY <1>2
<1> QED BY <1>5, <1>6, <1>7, <1>8 DEF fl

(* What getfreeblk() has found gets its new identity. *)
LEMMA FoundEnds ==
    ASSUME NEW p, MayRun(p), NEW s, NEW b \in Buf, NEW m \in Int, NEW r, r = [proc[p] EXCEPT !.savebp = NULL],
           Wakes(s, State), Base(s, p, Hold(r) \cup {b}, 0, m, disk', NULL), Found(s, p, b),
           b \notin Io(s), s.buf[b].blk = NULL, "B_WANTED" \notin s.buf[b].flags,
           Want(proc[p]) = s.buf[b].size + m, proc[p].bp # b, Getting(proc[p]), HoldsOK(s, proc[p]),
           proc[p].pc # "own",
           Sure => Target(proc[p]) = NULL \/ Only(s, b, Target(proc[p]))
    PROVE  Inv(State', cpu', disk')
<1> DEFINE x == proc[p]
           w == NewId(x)
           t == Replace(s, b, w)
           H == Hold(r) \cup {b}
<1>1. x \in ProcSet /\ ProcOK(State, x) /\ x.pc # "asleep" BY Ready DEF MayRun
<1>2. /\ w \in BufSet /\ w.blk = Target(x) /\ w.size = Want(x) /\ ~w.cur
      /\ w.flags = (IF Target(x) = NULL THEN {"B_BUSY", "B_AGE"} ELSE {"B_BUSY"}) /\ Want(x) \in Int
  BY <1>1, NewIdIs
<1>3. /\ r \in ProcSet /\ r.pc = x.pc /\ r.bp = x.bp /\ r.savebp = NULL /\ r.blk = x.blk /\ r.ra = x.ra
      /\ r.chan = x.chan /\ r.ret = x.ret /\ r.then = x.then
  BY <1>1 DEF ProcSet
<1>4. Got(t, p, r, b) BY DEF Found, Replace
<1>5. Target(r) = Target(x) /\ (Getting(r) <=> Getting(x)) BY <1>3 DEF Target, Getting
<1>6. r.chan = NULL /\ r.ret = NULL BY <1>1, <1>3 DEF ProcOK, Shape
<1> HIDE DEF w
<1>7. Struct(s, p, H) BY DEF Base
<1>8. "B_DELWRI" \notin s.buf[b].flags
  <2>1. BufOK(s, H, b) BY <1>7 DEF Struct
  <2> QED BY <2>1 DEF BufOK
<1>9. w.size + 0 = s.buf[b].size + m BY <1>2
<1>10. "B_DELWRI" \notin w.flags /\ "B_DONE" \notin w.flags /\ "B_BUSY" \in w.flags /\ "B_ASYNC" \notin w.flags
       /\ "B_STALE" \notin w.flags /\ "B_ERROR" \notin w.flags
  BY <1>2
<1>11. Sure => w.blk = NULL \/ (~w.cur /\ "B_DONE" \notin w.flags /\ Only(s, b, w.blk)) BY <1>2, <1>10
<1>12. b \in H /\ Base(s, p, H, 0, m, disk', NULL) OBVIOUS
<1> HIDE DEF H
<1>13. /\ Base(t, p, H, 0, 0, disk', NULL) /\ t.proc = s.proc
       /\ Elsewhere(t, s, b) /\ t.buf[b] = w /\ t.ioq = s.ioq
  <2>1. PICK l : l = 0 OBVIOUS
  <2>2. PICK v : v = w OBVIOUS
  <2>3. l \in Int /\ v \in BufSet /\ "B_DELWRI" \notin v.flags /\ v.size + l = s.buf[b].size + m
    BY <1>2, <1>9, <1>10, <2>1, <2>2
  <2>4. Sure => v.blk = NULL \/ (~v.cur /\ "B_DONE" \notin v.flags /\ Only(s, b, v.blk)) BY <1>11, <2>2
  <2>5. Base(Replace(s, b, v), p, H, 0, l, disk', NULL) /\ Replaced(Replace(s, b, v), s, b, v)
    BY <1>8, <1>12, <2>3, <2>4, BaseReplace
  <2>6. Base(t, p, H, 0, 0, disk', NULL) /\ Replaced(t, s, b, w) BY <2>1, <2>2, <2>5
  <2> QED BY <2>6 DEF Replaced
<1> HIDE DEF t
<1>14. Wakes(t, State) BY <1>13 DEF Wakes
<1>15. Io(t) = Io(s) BY <1>13 DEF Io
<1>16. InHand(t, r, b) BY <1>2, <1>3, <1>5, <1>10, <1>13, <1>15 DEF InHand
<1>17. HoldsOK(t, r) BY <1>1, <1>3, <1>13, CarriedElse
<1>18. Base(t, p, Hold(r) \cup {b}, 0, 0, disk', NULL) BY <1>13 DEF H
<1> QED BY <1>3, <1>4, <1>5, <1>6, <1>14, <1>16, <1>17, <1>18, GotEnds

(* p's entry, if what changes is not in its hands. *)
LEMMA Untouched ==
    ASSUME NEW s, NEW t, NEW x \in ProcSet, NEW b \in Buf, ProcOK(s, x), x.pc # "own", x.pc # "asleep",
           Elsewhere(t, s, b), b \notin Hold(x)
    PROVE  ProcOK(t, x) /\ x.bp # b /\ x.savebp # b
<1>0. NULL \notin Buf BY ConstantsAssumption
<1>1. x.bp # b /\ x.savebp # b BY <1>0 DEF Hold
<1>2. HoldsOK(t, x) BY <1>1, CarriedElse DEF ProcOK
<1>3. x.savebp # NULL => t.buf[x.savebp] = s.buf[x.savebp] BY <1>1 DEF Elsewhere, ProcSet
<1>4. KeepsOK(t, x) BY <1>3 DEF ProcOK, KeepsOK
<1> QED BY <1>1, <1>2, <1>4 DEF ProcOK, SleepOK

(* getfreeblk(): one turn of its loop. *)
LEMMA GetfreeblkInv ==
    ASSUME NEW p \in Proc, Inv(State, cpu, disk), Getfreeblk(p), disk' = disk
    PROVE  Inv(State', cpu', disk')
<1> DEFINE x == proc[p]
           b == Head(bfreelist)
           H == Hold(x)
<1>0. NULL \notin Buf /\ NULL \notin Block BY ConstantsAssumption
<1>1. MayRun(p) /\ x.pc = "getfreeblk" BY DEF Getfreeblk, Runs, MayRun
<1>2. /\ Base(State, p, H, Uncounted(x), 0, disk, NULL) /\ ProcOK(State, x) /\ x \in ProcSet
      /\ (Sure => Searches(State, x))
  BY <1>1, Ready
<1>3. Uncounted(x) = 0 /\ At(x) = "getfreeblk" BY <1>1 DEF Uncounted, At
<1>4. x.chan = NULL /\ x.ret = NULL /\ Getting(x) /\ HoldsOK(State, x) BY <1>1, <1>2, <1>3 DEF ProcOK, Shape
<1>5. Base(State, p, H, 0, 0, disk', NULL) BY <1>2, <1>3
<1>6. Wakes(State, State) /\ State \in StateSet BY <1>5 DEF Wakes, Base, Struct
<1>7. State.buf = buf BY StateFields
<1>8. H \in SUBSET Buf BY <1>2 DEF Hold, ProcSet
<1> HIDE DEF H
<1>9. CASE ~MustFree(x) /\ Goto(State, p, "alloc")
  <2> DEFINE r == [x EXCEPT !.pc = "alloc"]
  <2>1. cpu' = p /\ Become(With(State, p, r)) BY <1>9 DEF Goto, Continue
  <2>2. /\ r \in ProcSet /\ r.pc = "alloc" /\ r.bp = x.bp /\ r.savebp = x.savebp /\ r.blk = x.blk /\ r.ra = x.ra
        /\ r.chan = x.chan /\ r.ret = x.ret /\ r.then = x.then
    BY <1>2 DEF ProcSet
  <2> HIDE DEF r
  <2>3. Hold(r) = Hold(x) /\ Target(r) = Target(x) /\ (Getting(r) <=> Getting(x)) BY <2>2 DEF Hold, Target, Getting
  <2>4. Uncounted(r) = 0 /\ At(r) = "alloc" /\ Want(r) = Want(x) BY <2>2, <2>3 DEF Uncounted, At, Want
  <2>5. x.savebp # NULL => x.savebp # x.bp BY <1>2 DEF ProcOK, Shape
  <2>6. Shape(r) BY <1>4, <2>2, <2>3, <2>4, <2>5 DEF Shape
  <2>7. HoldsOK(State, r) BY <1>1, <1>4, <2>2 DEF HoldsOK
  <2>8. KeepsOK(State, r) BY <1>2, <1>3, <2>2, <2>4 DEF ProcOK, KeepsOK
  <2>9. ProcOK(State, r) BY <2>2, <2>6, <2>7, <2>8 DEF ProcOK, SleepOK
  <2>10. Sure => Searches(State, r) BY <1>1, <1>2, <2>3, <2>4 DEF Searches
  <2>11. Stops(State, p, r, p) BY <2>2, <2>9, <2>10 DEF Stops
  <2>12. Base(State, p, Hold(r), Uncounted(r), 0, disk', NULL) BY <1>5, <2>3, <2>4 DEF H
  <2> QED BY <1>1, <1>6, <2>1, <2>2, <2>11, <2>12, Stepped
<1>10. CASE MustFree(x) /\ cpu' = p /\ Become(FreeOne(State, p, b))
  <2> DEFINE s == Notavail(State, b)
             G == H \cup {b}
  <2>1. b \in Free(State)
    <3>1. Struct(State, p, H) BY <1>5 DEF Base
    <3>2. State.bfreelist \in Seq(Buf) /\ IsInjective(State.bfreelist) /\ State.bfreelist # << >>
      BY <1>6, <1>10, <3>1, StateFields, StateTyped DEF Struct, Lonely, MustFree
    <3>3. Head(State.bfreelist) \in ToSet(State.bfreelist) BY <3>2, TailFacts
    <3> QED BY <3>3, StateFields DEF Free
  <2>2. /\ Base(s, p, G, 0, 0, disk', NULL) /\ s.proc = State.proc
        /\ b \in Buf /\ b \notin Io(State) /\ s.ioq = State.ioq /\ b \notin H
        /\ OnlyFlags(s, State, b, State.buf[b].flags \cup {"B_BUSY"})
        /\ "B_WANTED" \notin State.buf[b].flags /\ "B_ASYNC" \notin State.buf[b].flags
    BY <1>5, <2>1, BaseNotavail
  <2> HIDE DEF s
  <2>3. /\ s.buf[b].flags = buf[b].flags \cup {"B_BUSY"} /\ s.buf[b].blk = buf[b].blk /\ s.buf[b].size = buf[b].size
        /\ \A c \in Buf \ {b} : s.buf[c] = State.buf[c]
    BY <1>7, <2>2 DEF OnlyFlags
  <2>4. Io(s) = Io(State) /\ s \in StateSet BY <2>2 DEF Io, Base, Struct
  <2>5. Elsewhere(s, State, b) BY <2>3, <2>4 DEF Elsewhere
  <2>6. G \ {b} = H /\ G \in SUBSET Buf /\ b \in G BY <1>8, <2>2
  <2>7. ASSUME NEW t, Wakes(t, s), Base(t, p, H, 0, 0, disk', NULL), Elsewhere(t, s, b), Become(t),
               t.buf[b].blk = NULL \/ (t.buf[b].blk = buf[b].blk /\ "B_STALE" \notin buf[b].flags)
        PROVE  Inv(State', cpu', disk')
    <3>1. Elsewhere(t, State, b) BY <2>5, <2>7 DEF Elsewhere
    <3>2. ProcOK(t, x) BY <1>1, <1>2, <2>2, <3>1, Untouched DEF H
    <3>3. Sure => Searches(t, x)
      <4>1. SUFFICES ASSUME Sure PROVE Searches(t, x) OBVIOUS
      <4>2. Searches(State, x) BY <1>2, <4>1
      <4>3. ASSUME Target(x) # NULL, NEW c \in Buf, t.buf[c].blk = Target(x) PROVE "B_STALE" \in t.buf[c].flags
        <5>1. CASE c = b BY <1>1, <1>7, <2>7, <4>2, <4>3, <5>1 DEF Searches
        <5>2. CASE c # b BY <1>1, <3>1, <4>2, <4>3, <5>2 DEF Searches, Elsewhere
        <5> QED BY <5>1, <5>2
      <4> QED BY <1>3, <4>3 DEF Searches
    <3>4. Stops(t, p, x, p) BY <1>1, <3>2, <3>3 DEF Stops
    <3>5. Wakes(t, State) BY <2>2, <2>7 DEF Wakes
    <3>6. Base(t, p, Hold(x), Uncounted(x), 0, disk', NULL) BY <1>3, <2>7 DEF H
    <3> QED BY <1>1, <1>10, <2>7, <3>4, <3>5, <3>6, SteppedSame
  <2>8. CASE "B_DELWRI" \in buf[b].flags
    <3> DEFINE u == Set(s, b, {"B_AGE"})
               t == WriteBehind(u, b)
    <3>1. Become(t) BY <1>7, <1>10, <2>8 DEF FreeOne, s
    <3>2. BufOK(State, H, b) BY <1>5, <2>2 DEF Base, Struct
    <3>3. buf[b].blk # NULL /\ "B_STALE" \notin buf[b].flags BY <1>7, <2>8, <3>2 DEF BufOK
    <3>4. {"B_AGE"} \in SUBSET BFlag BY DEF BFlag
    <3>5. /\ u \in StateSet /\ OnlyFlags(u, s, b, s.buf[b].flags \cup {"B_AGE"}) /\ SameLists(u, s)
          /\ SameCounts(u, s) /\ u.proc = s.proc
      BY <2>2, <2>4, <3>4, SetF
    <3> HIDE DEF u
    <3>6. (s.buf[b].flags \cup {"B_AGE"}) \ {"B_AGE"} = s.buf[b].flags \ {"B_AGE"} OBVIOUS
    <3>7. "B_WANTED" \notin s.buf[b].flags BY <1>7, <2>2, <2>3
    <3>8. Kept(u, s) /\ b \notin Io(s) BY <2>2, <2>4, <3>5 DEF Kept
    <3>9. Base(u, p, G, 0, 0, disk', NULL) BY <2>2, <2>4, <2>6, <3>5, <3>6, <3>7, <3>8, BaseAge
    <3>10. u.buf[b].flags = s.buf[b].flags \cup {"B_AGE"} /\ u.buf[b].blk = buf[b].blk BY <2>3, <3>5 DEF OnlyFlags
    <3>11. Elsewhere(u, s, b) /\ b \notin Io(u) BY <3>5, <3>8 DEF Elsewhere, OnlyFlags, SameLists, Io
    <3>12. "B_DELWRI" \in u.buf[b].flags /\ "B_BUSY" \in u.buf[b].flags /\ "B_STALE" \notin u.buf[b].flags
      BY <2>3, <2>8, <3>3, <3>10
    <3>13. Due(u, b, NULL) BY <3>12 DEF Due
    <3>14. u.buf[b].blk # NULL BY <3>3, <3>10
    <3>15. /\ Base(t, p, G \ {b}, 0, 0, disk', NULL) /\ t.proc = u.proc
           /\ Elsewhere(t, u, b) /\ t.buf[b].blk = u.buf[b].blk
      <4> HIDE DEF G, b
      <4>1. PICK k : k = 0 OBVIOUS
      <4>2. k \in Int /\ Base(u, p, G, k, k, disk', NULL) BY <3>9, <4>1
      <4>3. Base(WriteBehind(u, b), p, G \ {b}, k, k, disk', NULL) /\ Written(WriteBehind(u, b), u, b)
        BY <2>6, <3>11, <3>12, <3>13, <3>14, <4>2, BaseBehind
      <4>4. Base(t, p, G \ {b}, 0, 0, disk', NULL) /\ Written(t, u, b) BY <4>1, <4>3
      <4> QED BY <4>4 DEF Written
    <3> HIDE DEF t
    <3>16. Base(t, p, H, 0, 0, disk', NULL) BY <2>6, <3>15
    <3>17. Wakes(t, s) /\ Elsewhere(t, s, b) BY <3>5, <3>11, <3>15, KeptWakes DEF Elsewhere
    <3>18. t.buf[b].blk = buf[b].blk BY <3>10, <3>15
    <3> QED BY <2>7, <3>1, <3>3, <3>16, <3>17, <3>18
  <2>9. CASE "B_DELWRI" \notin buf[b].flags
    <3> DEFINE w == [s.buf[b] EXCEPT !.blk = NULL]
               u == Replace(s, b, w)
    <3>1. Unhash(s, b) = u BY DEF Unhash, Replace
    <3>2. s.buf[b] \in BufSet BY <2>2, <2>4, BufTyped
    <3>3. /\ w \in BufSet /\ w.blk = NULL /\ w.flags = s.buf[b].flags /\ w.size = s.buf[b].size
      BY <3>2 DEF BufSet
    <3>4. w.size + 0 = s.buf[b].size + 0 BY <3>3
    <3>5. /\ "B_WANTED" \notin s.buf[b].flags /\ "B_DELWRI" \notin s.buf[b].flags /\ "B_ASYNC" \notin s.buf[b].flags
          /\ b \notin Io(s)
      BY <1>7, <2>2, <2>3, <2>4, <2>9
    <3> HIDE DEF w
    <3>6. /\ Base(u, p, G, 0, 0, disk', NULL) /\ u.proc = s.proc
          /\ Elsewhere(u, s, b) /\ u.buf[b] = w /\ u.ioq = s.ioq
      <4>1. Base(u, p, G, 0, 0, disk', NULL) /\ Replaced(u, s, b, w)
        BY <2>2, <2>6, <3>3, <3>4, <3>5, BaseReplace
      <4> QED BY <4>1 DEF Replaced
    <3> HIDE DEF u
    <3>7. FreeOne(State, p, b) = IF x.savebp = NULL /\ buf[b].size = Want(x)
                                 THEN With(u, p, [x EXCEPT !.savebp = b]) ELSE FreeHeader(u, b)
      BY <1>7, <2>9, <3>1 DEF FreeOne, s
    <3>8. b \notin Io(u) /\ "B_WANTED" \notin u.buf[b].flags /\ "B_DELWRI" \notin u.buf[b].flags
      BY <3>3, <3>5, <3>6 DEF Io
    <3>9. CASE x.savebp = NULL /\ buf[b].size = Want(x)
      <4> DEFINE r == [x EXCEPT !.savebp = b]
      <4>1. Become(With(u, p, r)) BY <1>10, <3>7, <3>9
      <4>2. /\ r \in ProcSet /\ r.pc = "getfreeblk" /\ r.bp = x.bp /\ r.savebp = b /\ r.blk = x.blk /\ r.ra = x.ra
            /\ r.chan = x.chan /\ r.ret = x.ret /\ r.then = x.then
        BY <1>1, <1>2, <2>2 DEF ProcSet
      <4> HIDE DEF r
      <4>3. Hold(r) = G BY <1>0, <2>2, <3>9, <4>2 DEF Hold, H
      <4>4. Target(r) = Target(x) /\ (Getting(r) <=> Getting(x)) BY <4>2 DEF Target, Getting
      <4>5. Uncounted(r) = 0 /\ At(r) = "getfreeblk" /\ Want(r) = Want(x) BY <4>2, <4>4 DEF Uncounted, At, Want
      <4>6. Elsewhere(u, State, b) BY <2>5, <3>6 DEF Elsewhere
      <4>7. ProcOK(u, x) /\ x.bp # b BY <1>1, <1>2, <2>2, <4>6, Untouched DEF H
      <4>8. HoldsOK(u, r) BY <1>1, <4>2, <4>7 DEF ProcOK, HoldsOK
      <4>9. KeepsOK(u, r) BY <2>3, <3>3, <3>5, <3>6, <3>9, <4>2, <4>5 DEF KeepsOK
      <4>10. Shape(r) BY <1>4, <4>2, <4>4, <4>5, <4>7 DEF Shape
      <4>11. ProcOK(u, r) BY <4>2, <4>8, <4>9, <4>10 DEF ProcOK, SleepOK
      <4>12. Sure => Searches(u, r)
        <5>1. SUFFICES ASSUME Sure PROVE Searches(u, r) OBVIOUS
        <5>2. Searches(State, x) BY <1>2, <5>1
        <5>3. ASSUME Target(x) # NULL, NEW c \in Buf, u.buf[c].blk = Target(x) PROVE "B_STALE" \in u.buf[c].flags
          <6>1. CASE c = b BY <3>3, <3>6, <5>3, <6>1
          <6>2. CASE c # b BY <1>1, <4>6, <5>2, <5>3, <6>2 DEF Searches, Elsewhere
          <6> QED BY <6>1, <6>2
        <5> QED BY <4>4, <4>5, <5>3 DEF Searches
      <4>13. Stops(u, p, r, cpu') BY <1>10, <4>2, <4>11, <4>12 DEF Stops
      <4>14. Wakes(u, State) BY <2>2, <3>6, KeptWakes
      <4>15. Base(u, p, Hold(r), Uncounted(r), 0, disk', NULL) BY <3>6, <4>3, <4>5
      <4> QED BY <1>1, <4>1, <4>2, <4>13, <4>14, <4>15, Stepped
    <3>10. CASE ~(x.savebp = NULL /\ buf[b].size = Want(x))
      <4> DEFINE t == FreeHeader(u, b)
      <4>1. Become(t) BY <1>10, <3>7, <3>10
      <4>2. /\ Base(t, p, G \ {b}, 0, 0, disk', NULL) /\ Wakes(t, u) /\ Elsewhere(t, u, b) /\ t.buf[b] = NewBuf
        BY <2>6, <3>6, <3>8, BaseFree
      <4> HIDE DEF t
      <4>3. Base(t, p, H, 0, 0, disk', NULL) BY <2>6, <4>2
      <4>4. Wakes(t, s) /\ Elsewhere(t, s, b) BY <3>6, <4>2 DEF Elsewhere, Wakes
      <4>5. t.buf[b].blk = NULL BY <4>2, NewBufSet
      <4> QED BY <2>7, <4>1, <4>3, <4>4, <4>5
    <3> QED BY <3>9, <3>10
  <2> QED BY <2>8, <2>9
<1> QED BY <1>9, <1>10 DEF Getfreeblk

(* getfreeblk() found no memory, or no header. *)
LEMMA Awaits ==
    ASSUME NEW p, MayRun(p), disk' = disk, proc[p].pc = "alloc", proc[p].savebp = NULL,
           NEW l \in {"bfreelist", "bhdrlist"}, Sleep(Asks(l), p, l, Again(proc[p]))
    PROVE  Inv(State', cpu', disk')
<1> DEFINE x == proc[p]
           t == AskFor(State, l)
           a == Again(x)
           r == Asleep(x, l, a)
<1>1. /\ Base(State, p, Hold(x), Uncounted(x), 0, disk, NULL) /\ ProcOK(State, x) /\ x \in ProcSet
  BY Ready
<1>2. Uncounted(x) = 0 /\ At(x) = "alloc" BY DEF Uncounted, At
<1>3. Getting(x) /\ HoldsOK(State, x) BY <1>1, <1>2 DEF ProcOK, Shape
<1>4. Base(State, p, Hold(x), 0, 0, disk', NULL) BY <1>1, <1>2
<1>5. /\ Base(t, p, Hold(x), 0, 0, disk', NULL) /\ t.proc = State.proc
      /\ t.buf = State.buf /\ t.ioq = State.ioq /\ l \in t.wanted
  BY <1>4, BaseAsk
<1>6. cpu' = NULL /\ Become(With(t, p, r)) BY DEF Sleep, Asks, AskFor, Asleep
<1>7. a \in {"getblk", "getfreeblk"} /\ (a = "getblk" => Target(x) # NULL) BY DEF Again
<1>8. l \notin Buf /\ l # NULL /\ NULL \notin Buf BY ConstantsAssumption
<1> HIDE DEF a
<1>9. IsAsleep(r, x, l, a) BY <1>1, <1>7, AsleepIs
<1> HIDE DEF t, r
<1>10. /\ r \in ProcSet /\ r.pc = "asleep" /\ r.chan = l /\ r.ret = a
       /\ r.blk = x.blk /\ r.ra = x.ra /\ r.bp = x.bp /\ r.savebp = NULL /\ r.then = x.then
       /\ Hold(r) = Hold(x) /\ Uncounted(r) = 0 /\ At(r) = a /\ Target(r) = Target(x)
       /\ Again(r) = a /\ (Getting(r) <=> Getting(x)) /\ ~OnCpu(r)
  BY <1>9 DEF IsAsleep, a
<1>11. Shape(r) BY <1>3, <1>7, <1>8, <1>10 DEF Shape
<1>12. HoldsOK(t, r) BY <1>3, <1>5, <1>10 DEF HoldsOK, Io
<1>13. SleepOK(t, r) BY <1>5, <1>7, <1>8, <1>10 DEF SleepOK
<1>14. ProcOK(t, r) BY <1>10, <1>11, <1>12, <1>13 DEF ProcOK, KeepsOK
<1>15. Stops(t, p, r, NULL) BY <1>7, <1>10, <1>14 DEF Stops, Searches
<1>16. Base(t, p, Hold(r), Uncounted(r), 0, disk', NULL) BY <1>5, <1>10
<1>17. Wakes(t, State) BY <1>5, KeptWakes
<1> QED BY <1>6, <1>10, <1>15, <1>16, <1>17, Stepped

(* getfreeblk(): the buffer kept, no memory, no header, or a new one. *)
LEMMA AllocInv ==
    ASSUME NEW p \in Proc, Inv(State, cpu, disk), Alloc(p), disk' = disk
    PROVE  Inv(State', cpu', disk')
<1> DEFINE x == proc[p]
           H == Hold(x)
<1>0. NULL \notin Buf /\ NULL \notin Block BY ConstantsAssumption
<1>1. MayRun(p) /\ x.pc = "alloc" BY DEF Alloc, Runs, MayRun
<1>2. /\ Base(State, p, H, Uncounted(x), 0, disk, NULL) /\ ProcOK(State, x) /\ x \in ProcSet
      /\ (Sure => Searches(State, x))
  BY <1>1, Ready
<1>3. Uncounted(x) = 0 /\ At(x) = "alloc" BY <1>1 DEF Uncounted, At
<1>4. x.chan = NULL /\ x.ret = NULL /\ Getting(x) /\ HoldsOK(State, x) /\ (x.savebp # NULL => x.savebp # x.bp)
  BY <1>1, <1>2, <1>3 DEF ProcOK, Shape
<1>5. Base(State, p, H, 0, 0, disk', NULL) BY <1>2, <1>3
<1>6. Wakes(State, State) /\ State \in StateSet BY <1>5 DEF Wakes, Base, Struct
<1>7. Sure => Target(x) = NULL \/ \A c \in Buf : State.buf[c].blk = Target(x) => "B_STALE" \in State.buf[c].flags
  BY <1>1, <1>2 DEF Searches
<1>8. Want(x) \in Int BY <1>2, NewIdIs
<1> HIDE DEF H
<1>9. CASE x.savebp # NULL /\ Found(State, p, x.savebp)
  <2> DEFINE b == x.savebp
             r == [x EXCEPT !.savebp = NULL]
  <2>1. b \in Buf BY <1>2, <1>9 DEF ProcSet
  <2>2. /\ State.buf[b].blk = NULL /\ "B_WANTED" \notin State.buf[b].flags /\ State.buf[b].size = Want(x)
    BY <1>2, <1>3, <1>9 DEF ProcOK, KeepsOK
  <2>3. BufOK(State, H, b) BY <1>5, <2>1 DEF Base, Struct
  <2>4. b \notin Io(State) BY <2>2, <2>3 DEF BufOK
  <2>5. r.bp = x.bp /\ r.savebp = NULL BY <1>2 DEF ProcSet
  <2>6. Hold(r) \cup {b} = H BY <1>0, <1>9, <2>5 DEF Hold, H
  <2>7. Base(State, p, Hold(r) \cup {b}, 0, 0, disk', NULL) BY <1>5, <2>6
  <2>8. Want(x) = State.buf[b].size + 0 BY <1>8, <2>2
  <2>9. Sure => Target(x) = NULL \/ Only(State, b, Target(x)) BY <1>7 DEF Only
  <2>10. x.bp # b /\ x.pc # "own" /\ Found(State, p, b) BY <1>1, <1>4, <1>9
  <2>11. PICK m : m = 0 OBVIOUS
  <2>12. m \in Int /\ Want(x) = State.buf[b].size + m /\ Base(State, p, Hold(r) \cup {b}, 0, m, disk', NULL)
    BY <2>7, <2>8, <2>11
  <2>13. r = [proc[p] EXCEPT !.savebp = NULL] OBVIOUS
  <2> HIDE DEF b, r
  <2> QED BY <1>1, <1>4, <1>6, <2>1, <2>2, <2>4, <2>9, <2>10, <2>12, <2>13, FoundEnds
<1>10. CASE /\ x.savebp = NULL
            /\ Sleep(Asks("bfreelist"), p, "bfreelist", Again(x)) \/ Sleep(Asks("bhdrlist"), p, "bhdrlist", Again(x))
  BY <1>1, <1>10, Awaits
<1>11. CASE /\ x.savebp = NULL /\ bhdrlist # << >>
            /\ \/ Found(Charge(Taken, Want(x)), p, Head(bhdrlist))
               \/ /\ (IF Target(x) = NULL THEN "ngeteblk" ELSE "getblk") \in KMEMSLEEP
                  /\ cpu' = NULL
                  /\ Become(With(Taken, p, [x EXCEPT !.pc = "asleep", !.chan = "kmem", !.ret = "zalloc",
                                                     !.savebp = Head(bhdrlist)]))
  <2> DEFINE b == Head(bhdrlist)
             t == TakeHdr(State)
  <2>1. Taken = t /\ Head(State.bhdrlist) = b /\ State.bhdrlist # << >> BY <1>11, StateFields DEF Taken, TakeHdr
  <2>2. /\ Base(t, p, H \cup {b}, 0, 0, disk', NULL) /\ t.proc = State.proc /\ b \in Buf /\ b \notin Io(State)
        /\ b \notin H /\ State.buf[b] = NewBuf /\ t.buf = State.buf /\ t.ioq = State.ioq
    BY <1>5, <2>1, BaseTake
  <2> HIDE DEF t, b
  <2>3. Wakes(t, State) /\ Io(t) = Io(State) BY <2>2, KeptWakes DEF Io
  <2>4. HoldsOK(t, x) BY <1>4, <2>2, <2>3 DEF HoldsOK
  <2>5. x.bp # b BY <1>0, <2>2 DEF H, Hold
  <2>6. CASE Found(Charge(t, Want(x)), p, b)
    <3> DEFINE w == Want(x)
               u == Charge(t, w)
               r == [x EXCEPT !.savebp = NULL]
    <3>1. PICK m : m = 0 OBVIOUS
    <3>2. m \in Int /\ Base(t, p, H \cup {b}, 0, m, disk', NULL) BY <2>2, <3>1
    <3>3. w \in Int BY <1>8
    <3> HIDE DEF w
    <3>4. /\ Base(u, p, H \cup {b}, 0, m + w, disk', NULL) /\ u.proc = t.proc /\ u.buf = t.buf /\ u.ioq = t.ioq
      BY <2>2, <3>2, <3>3, BaseCharge
    <3> HIDE DEF u
    <3>5. m + w = w BY <3>1, <3>3
    <3>6. Io(u) = Io(State) /\ Wakes(u, State) BY <2>2, <2>3, <3>4, KeptWakes DEF Io
    <3>7. r.bp = x.bp /\ r.savebp = NULL BY <1>2 DEF ProcSet
    <3>8. Hold(r) = H BY <1>11, <3>7 DEF Hold, H
    <3>9. Base(u, p, Hold(r) \cup {b}, 0, w, disk', NULL) BY <3>4, <3>5, <3>8
    <3>10. u.buf[b].blk = NULL /\ "B_WANTED" \notin u.buf[b].flags /\ u.buf[b].size = 0 BY <2>2, <3>4, NewBufSet
    <3>11. w = u.buf[b].size + w /\ w = Want(x) BY <3>3, <3>10 DEF w
    <3>12. HoldsOK(u, x) BY <2>2, <2>3, <2>4, <3>4, <3>6 DEF HoldsOK
    <3>13. Sure => Target(x) = NULL \/ Only(u, b, Target(x)) BY <1>7, <2>2, <3>4 DEF Only
    <3>14. Found(u, p, b) BY <2>6 DEF u, w
    <3>15. r = [proc[p] EXCEPT !.savebp = NULL] /\ x.pc # "own" /\ b \notin Io(u) BY <1>1, <2>2, <3>6
    <3> HIDE DEF r
    <3> QED BY <1>1, <1>4, <2>2, <2>5, <3>3, <3>6, <3>9, <3>10, <3>11, <3>12, <3>13, <3>14, <3>15, FoundEnds
  <2>7. CASE /\ (IF Target(x) = NULL THEN "ngeteblk" ELSE "getblk") \in KMEMSLEEP
             /\ cpu' = NULL
             /\ Become(With(t, p, [x EXCEPT !.pc = "asleep", !.chan = "kmem", !.ret = "zalloc", !.savebp = b]))
    <3> DEFINE r == [x EXCEPT !.pc = "asleep", !.chan = "kmem", !.ret = "zalloc", !.savebp = b]
    <3>1. cpu' = NULL /\ Become(With(t, p, r)) BY <2>7
    <3>2. /\ r \in ProcSet /\ r.pc = "asleep" /\ r.chan = "kmem" /\ r.ret = "zalloc" /\ r.savebp = b
          /\ r.blk = x.blk /\ r.ra = x.ra /\ r.bp = x.bp /\ r.then = x.then
      BY <1>2, <2>2 DEF ProcSet
    <3> HIDE DEF r
    <3>3. Target(r) = Target(x) /\ (Getting(r) <=> Getting(x)) BY <3>2 DEF Target, Getting
    <3>4. Uncounted(r) = 0 /\ At(r) = "zalloc" /\ ~OnCpu(r) BY <3>2 DEF Uncounted, At, OnCpu
    <3>5. Hold(r) = H \cup {b} BY <1>0, <1>11, <2>2, <3>2 DEF Hold, H
    <3>6. "kmem" \notin Buf BY ConstantsAssumption
    <3>7. Shape(r) BY <1>0, <1>4, <2>2, <2>5, <3>2, <3>3, <3>4 DEF Shape
    <3>8. HoldsOK(t, r) BY <1>1, <2>4, <3>2 DEF HoldsOK
    <3>9. KeepsOK(t, r) BY <2>2, <3>2, <3>4, NewBufSet DEF KeepsOK
    <3>10. SleepOK(t, r) BY <3>2, <3>6 DEF SleepOK
    <3>11. ProcOK(t, r) BY <3>7, <3>8, <3>9, <3>10 DEF ProcOK
    <3>12. Sure => Searches(t, r) BY <2>7, <3>2, <3>3 DEF Sure, Searches
    <3>13. Stops(t, p, r, NULL) BY <3>2, <3>4, <3>11, <3>12 DEF Stops
    <3>14. Base(t, p, Hold(r), Uncounted(r), 0, disk', NULL) BY <2>2, <3>4, <3>5
    <3> QED BY <1>1, <2>3, <3>1, <3>2, <3>13, <3>14, Stepped
  <2> QED BY <1>11, <2>1, <2>6, <2>7 DEF b
<1> QED BY <1>9, <1>10, <1>11 DEF Alloc

(* kmem_zalloc() returns after a sleep. *)
LEMMA ZallocInv ==
    ASSUME NEW p \in Proc, Inv(State, cpu, disk), Zalloc(p), disk' = disk
    PROVE  Inv(State', cpu', disk')
<1> DEFINE x == proc[p]
           b == x.savebp
           w == Want(x)
           u == Charge(State, w)
           r == [x EXCEPT !.savebp = NULL]
           H == Hold(x)
<1>0. NULL \notin Buf /\ NULL \notin Block BY ConstantsAssumption
<1>1. MayRun(p) /\ x.pc = "zalloc" BY DEF Zalloc, Runs, MayRun
<1>2. /\ Base(State, p, H, Uncounted(x), 0, disk, NULL) /\ ProcOK(State, x) /\ x \in ProcSet
      /\ (Sure => Searches(State, x))
  BY <1>1, Ready
<1>3. Uncounted(x) = 0 /\ At(x) = "zalloc" BY <1>1 DEF Uncounted, At
<1>4. /\ Getting(x) /\ HoldsOK(State, x) /\ b # NULL /\ b # x.bp /\ State.buf[b] = NewBuf
  BY <1>1, <1>2, <1>3 DEF ProcOK, Shape, KeepsOK
<1>5. b \in Buf /\ w \in Int BY <1>2, <1>4, NewIdIs DEF ProcSet
<1>6. PICK m : m = 0 OBVIOUS
<1>7. m \in Int /\ Base(State, p, H, 0, m, disk', NULL) BY <1>2, <1>3, <1>6
<1>8. r.bp = x.bp /\ r.savebp = NULL BY <1>2 DEF ProcSet
<1>9. Hold(r) \cup {b} = H BY <1>0, <1>4, <1>8 DEF Hold
<1>10. Found(u, p, b) BY DEF Zalloc
<1>11. Sure => Target(x) = NULL BY <1>2, <1>3 DEF Searches
<1>12. r = [proc[p] EXCEPT !.savebp = NULL] /\ w = Want(x) OBVIOUS
<1> HIDE DEF H, w, r, b
<1>13. /\ Base(u, p, H, 0, m + w, disk', NULL) /\ u.proc = State.proc /\ u.buf = State.buf /\ u.ioq = State.ioq
  BY <1>5, <1>7, BaseCharge
<1> HIDE DEF u
<1>14. m + w = w BY <1>5, <1>6
<1>15. Io(u) = Io(State) /\ Wakes(u, State) BY <1>13, KeptWakes DEF Io
<1>16. Base(u, p, Hold(r) \cup {b}, 0, w, disk', NULL) BY <1>9, <1>13, <1>14
<1>17. u.buf[b].blk = NULL /\ "B_WANTED" \notin u.buf[b].flags /\ u.buf[b].size = 0 BY <1>4, <1>13, NewBufSet
<1>18. w = u.buf[b].size + w BY <1>5, <1>17
<1>19. HoldsOK(u, x) BY <1>4, <1>13, <1>15 DEF HoldsOK
<1>20. b \notin Io(u)
  <2>1. BufOK(u, H, b) BY <1>5, <1>13 DEF Base, Struct
  <2> QED BY <1>17, <2>1 DEF BufOK
<1>21. x.pc # "own" /\ x.bp # b BY <1>1, <1>4
<1> QED BY <1>1, <1>4, <1>5, <1>10, <1>11, <1>12, <1>15, <1>16, <1>17, <1>18, <1>19, <1>20, <1>21, FoundEnds

(* A process that is not getting a buffer holds one at most. *)
LEMMA OneHeld ==
    ASSUME NEW p, MayRun(p), proc[p].pc \in {"biowait", "own", "bawrite", "bflush", "blkflush", "bdwait", "ahead"}
    PROVE  /\ proc[p].savebp = NULL /\ proc[p].chan = NULL /\ proc[p].ret = NULL
           /\ At(proc[p]) = proc[p].pc /\ Shape(proc[p]) /\ HoldsOK(State, proc[p]) /\ proc[p] \in ProcSet
           /\ proc[p].bp # NULL => proc[p].bp \in Buf /\ Hold(proc[p]) = {proc[p].bp}
           /\ proc[p].bp = NULL => Hold(proc[p]) = {}
<1>1. ProcOK(State, proc[p]) /\ proc[p] \in ProcSet BY Ready
<1>2. At(proc[p]) = proc[p].pc BY DEF At
<1>3. Shape(proc[p]) /\ HoldsOK(State, proc[p]) BY <1>1 DEF ProcOK
<1>4. proc[p].savebp = NULL /\ proc[p].chan = NULL /\ proc[p].ret = NULL BY <1>2, <1>3 DEF Shape
<1>5. proc[p].bp \in Buf \cup {NULL} BY <1>1 DEF ProcSet
<1> QED BY <1>1, <1>2, <1>3, <1>4, <1>5 DEF Hold

(* biowait(). *)
LEMMA BiowaitInv ==
    ASSUME NEW p \in Proc, Inv(State, cpu, disk), Biowait(p), disk' = disk
    PROVE  Inv(State', cpu', disk')
<1> DEFINE x == proc[p]
           b == x.bp
<1>0. NULL \notin Buf /\ NULL \notin Block BY ConstantsAssumption
<1>1. MayRun(p) /\ x.pc = "biowait" BY DEF Biowait, Runs, MayRun
<1>2. /\ x.savebp = NULL /\ x.chan = NULL /\ x.ret = NULL /\ At(x) = "biowait" /\ Shape(x) /\ HoldsOK(State, x)
      /\ x \in ProcSet
  BY <1>1, OneHeld
<1>3. b # NULL /\ x.then \in {NULL, "brelse", "blkflush"} /\ (x.then = "blkflush" => x.blk \in Block)
  BY <1>2 DEF Shape
<1>4. b \in Buf /\ Hold(x) = {b} BY <1>1, <1>3, OneHeld
<1>5. Uncounted(x) = 0 BY <1>1 DEF Uncounted
<1>6. Base(State, p, {b}, 0, 0, disk', NULL)
  <2>1. Base(State, p, Hold(x), Uncounted(x), 0, disk, NULL) BY <1>1, Ready
  <2> QED BY <1>4, <1>5, <2>1
<1>7. Wakes(State, State) BY DEF Wakes
<1>8. State.buf = buf BY StateFields
<1>9. /\ "B_BUSY" \in buf[b].flags /\ "B_ASYNC" \notin buf[b].flags /\ "B_STALE" \notin buf[b].flags
      /\ "B_DONE" \notin buf[b].flags => b \in Io(State)
  BY <1>1, <1>2, <1>3, <1>8 DEF HoldsOK
<1>10. BufOK(State, {b}, b) BY <1>4, <1>6 DEF Base, Struct
<1> HIDE DEF b
<1>11. CASE "B_DONE" \notin buf[b].flags /\ Sleep(Set(State, b, {"B_WANTED"}), p, b, "biowait")
  <2> DEFINE t == Set(State, b, {"B_WANTED"})
             r == Asleep(x, b, "biowait")
  <2>1. b \in Io(State) /\ State.buf[b].blk # NULL BY <1>9, <1>10, <1>11 DEF BufOK
  <2>2. /\ Base(t, p, {b}, 0, 0, disk', NULL) /\ t.proc = State.proc /\ t.ioq = State.ioq
        /\ OnlyFlags(t, State, b, State.buf[b].flags \cup {"B_WANTED"})
    BY <1>4, <1>6, <1>8, <1>9, <2>1, BaseMark
  <2>3. cpu' = NULL /\ Become(With(t, p, r)) BY <1>11 DEF Sleep, Asleep
  <2>4. IsAsleep(r, x, b, "biowait") BY <1>2, <1>4, AsleepIs
  <2> HIDE DEF t, r
  <2>5. /\ r \in ProcSet /\ r.pc = "asleep" /\ r.chan = b /\ r.ret = "biowait" /\ r.bp = b /\ r.savebp = NULL
        /\ r.blk = x.blk /\ r.then = x.then /\ Hold(r) = {b} /\ Uncounted(r) = 0
        /\ At(r) = "biowait" /\ ~OnCpu(r)
    BY <1>2, <1>4, <2>4 DEF IsAsleep, b
  <2>6. Wakes(t, State) /\ Io(t) = Io(State) BY <2>2, KeptWakes DEF Io
  <2>7. t.buf[b].flags = buf[b].flags \cup {"B_WANTED"} BY <1>8, <2>2 DEF OnlyFlags
  <2>8. HoldsOK(t, r) BY <1>9, <2>1, <2>5, <2>6, <2>7 DEF HoldsOK
  <2>9. Shape(r) BY <1>0, <1>3, <1>4, <2>5 DEF Shape
  <2>10. SleepOK(t, r) BY <1>4, <1>9, <2>1, <2>5, <2>6, <2>7, ConstantsAssumption DEF SleepOK
  <2>11. ProcOK(t, r) BY <2>5, <2>8, <2>9, <2>10 DEF ProcOK, KeepsOK
  <2>12. Stops(t, p, r, NULL) BY <1>4, <2>5, <2>11, ConstantsAssumption DEF Stops, Searches
  <2>13. Base(t, p, Hold(r), Uncounted(r), 0, disk', NULL) BY <2>2, <2>5
  <2> QED BY <1>1, <2>3, <2>5, <2>6, <2>12, <2>13, Stepped
<1>12. CASE "B_DONE" \in buf[b].flags
  <2>1. b \notin Io(State) BY <1>8, <1>10, <1>12 DEF BufOK
  <2>2. CASE Own(State, p, b) BY <1>1, <1>4, <1>6, <1>7, <1>8, <1>9, <2>1, <2>2, Owns
  <2> DEFINE t == Brelse(State, b)
  <2>3. b \in {b} OBVIOUS
  <2>4. Base(t, p, {b} \ {b}, 0, 0, disk', NULL) /\ Wakes(t, State) BY <1>6, <2>1, <2>3, BaseBrelse
  <2>5. Base(t, p, {}, 0, 0, disk', NULL)
    <3>1. {b} \ {b} = {} OBVIOUS
    <3> QED BY <2>4, <3>1
  <2>6. CASE Return(t, p)
    <3> HIDE DEF t
    <3> QED BY <1>1, <2>4, <2>5, <2>6, Returns
  <2>7. CASE x.then = "blkflush" /\ Continue(t, p, [x EXCEPT !.pc = "blkflush", !.bp = NULL])
    <3> DEFINE r == [x EXCEPT !.pc = "blkflush", !.bp = NULL]
    <3>1. cpu' = p /\ Become(With(t, p, r)) BY <2>7 DEF Continue
    <3>2. /\ r \in ProcSet /\ r.pc = "blkflush" /\ r.bp = NULL /\ r.savebp = NULL /\ r.blk = x.blk
          /\ r.chan = NULL /\ r.ret = NULL /\ r.blk \in Block
      BY <1>2, <1>3, <2>7 DEF ProcSet
    <3> HIDE DEF t, r
    <3>3. Hold(r) = {} /\ Uncounted(r) = 0 /\ At(r) = "blkflush" /\ ~OnCpu(r) BY <3>2 DEF Hold, Uncounted, At, OnCpu
    <3>4. Shape(r) BY <3>2, <3>3 DEF Shape
    <3>5. ProcOK(t, r) BY <3>2, <3>4 DEF ProcOK, HoldsOK, KeepsOK, SleepOK
    <3>6. Stops(t, p, r, p) BY <3>2, <3>3, <3>5 DEF Stops, Searches
    <3>7. Base(t, p, Hold(r), Uncounted(r), 0, disk', NULL) BY <2>5, <3>3
    <3> QED BY <1>1, <2>4, <3>1, <3>2, <3>6, <3>7, Stepped
  <2>8. \/ Own(State, p, b) \/ Return(t, p)
        \/ x.then = "blkflush" /\ Continue(t, p, [x EXCEPT !.pc = "blkflush", !.bp = NULL])
    BY <1>12 DEF Biowait, b
  <2> QED BY <2>2, <2>6, <2>7, <2>8
<1> QED BY <1>11, <1>12 DEF Biowait, b

(* bawrite() counts its write. *)
LEMMA BawriteCountInv ==
    ASSUME NEW p \in Proc, Inv(State, cpu, disk), BawriteCount(p), disk' = disk
    PROVE  Inv(State', cpu', disk')
<1> DEFINE x == proc[p]
           t == CountUp(State, 1)
<1>1. MayRun(p) /\ x.pc = "bawrite" BY DEF BawriteCount, Runs, MayRun
<1>2. At(x) = "bawrite" /\ Shape(x) BY <1>1, OneHeld
<1>3. x.bp = NULL BY <1>2 DEF Shape
<1>4. Hold(x) = {} BY <1>1, <1>3, OneHeld
<1>5. Uncounted(x) = 1 BY <1>1 DEF Uncounted
<1>6. Base(State, p, Hold(x), Uncounted(x), 0, disk, NULL) BY <1>1, Ready
<1>7. PICK k : k = 1 OBVIOUS
<1>8. k \in Int /\ Base(State, p, {}, k, 0, disk', NULL) BY <1>4, <1>5, <1>6, <1>7
<1>9. Base(t, p, {}, k - 1, 0, disk', NULL) /\ t.proc = State.proc BY <1>8, BaseCount
<1>10. Return(t, p) BY DEF BawriteCount, CountUp
<1> HIDE DEF t
<1>11. k - 1 = 0 BY <1>7
<1>12. Base(t, p, {}, 0, 0, disk', NULL) BY <1>9, <1>11
<1>13. Wakes(t, State) BY <1>9, KeptWakes
<1> QED BY <1>1, <1>10, <1>12, <1>13, Returns

(* breada() starts the read ahead. *)
LEMMA BreadaAheadInv ==
    ASSUME NEW p \in Proc, Inv(State, cpu, disk), BreadaAhead(p), disk' = disk
    PROVE  Inv(State', cpu', disk')
<1> DEFINE x == proc[p]
<1>0. NULL \notin Buf /\ NULL \notin Block BY ConstantsAssumption
<1>1. MayRun(p) /\ x.pc = "ahead" BY DEF BreadaAhead, Runs, MayRun
<1>2. /\ x.savebp = NULL /\ x.chan = NULL /\ x.ret = NULL /\ At(x) = "ahead" /\ Shape(x) /\ HoldsOK(State, x)
      /\ x \in ProcSet
  BY <1>1, OneHeld
<1>3. x.then = "first" /\ x.blk \in Block /\ x.ra \in Block BY <1>2 DEF Shape
<1>4. Uncounted(x) = 0 BY <1>1 DEF Uncounted
<1>5. Base(State, p, Hold(x), 0, 0, disk', NULL)
  <2>1. Base(State, p, Hold(x), Uncounted(x), 0, disk, NULL) BY <1>1, Ready
  <2> QED BY <1>4, <2>1
<1>6. Wakes(State, State) BY DEF Wakes
<1>7. CASE Ahead(State, p, x) BY <1>1, <1>2, <1>3, <1>5, <1>6, <1>7, AheadEnds
<1>8. CASE Continue(State, p, [x EXCEPT !.pc = "getblk", !.then = "ahead"])
  <2> DEFINE r == [x EXCEPT !.pc = "getblk", !.then = "ahead"]
  <2>1. cpu' = p /\ Become(With(State, p, r)) BY <1>8 DEF Continue
  <2>2. /\ r \in ProcSet /\ r.pc = "getblk" /\ r.then = "ahead" /\ r.bp = x.bp /\ r.savebp = NULL /\ r.blk = x.blk
        /\ r.ra = x.ra /\ r.chan = NULL /\ r.ret = NULL
    BY <1>2 DEF ProcSet
  <2> HIDE DEF r
  <2>3. Hold(r) = Hold(x) /\ Uncounted(r) = 0 /\ At(r) = "getblk" /\ ~OnCpu(r) /\ Target(r) = x.ra
    BY <1>2, <2>2 DEF Hold, Uncounted, At, OnCpu, Target
  <2>4. Getting(r) BY <1>0, <1>3, <2>2, <2>3 DEF Getting
  <2>5. Shape(r) BY <1>0, <1>3, <2>2, <2>3, <2>4 DEF Shape
  <2>6. HoldsOK(State, r) BY <1>1, <1>2, <2>2 DEF HoldsOK
  <2>7. ProcOK(State, r) BY <2>2, <2>5, <2>6 DEF ProcOK, KeepsOK, SleepOK
  <2>8. Stops(State, p, r, p) BY <2>2, <2>3, <2>7 DEF Stops, Searches
  <2>9. Base(State, p, Hold(r), Uncounted(r), 0, disk', NULL) BY <1>5, <2>3
  <2> QED BY <1>1, <1>6, <2>1, <2>2, <2>8, <2>9, Stepped
<1> QED BY <1>7, <1>8 DEF BreadaAhead

(* bdwait(). *)
LEMMA BdwaitInv ==
    ASSUME NEW p \in Proc, Inv(State, cpu, disk), Bdwait(p), disk' = disk
    PROVE  Inv(State', cpu', disk')
<1> DEFINE x == proc[p]
<1>0. NULL \notin Buf /\ NULL \notin Block BY ConstantsAssumption
<1>1. MayRun(p) /\ x.pc = "bdwait" BY DEF Bdwait, Runs, MayRun
<1>2. /\ x.savebp = NULL /\ x.chan = NULL /\ x.ret = NULL /\ At(x) = "bdwait" /\ Shape(x) /\ HoldsOK(State, x)
      /\ x \in ProcSet
  BY <1>1, OneHeld
<1>3. x.bp = NULL BY <1>2 DEF Shape
<1>4. Hold(x) = {} BY <1>1, <1>3, OneHeld
<1>5. Uncounted(x) = 0 BY <1>1 DEF Uncounted
<1>6. Base(State, p, {}, 0, 0, disk', NULL)
  <2>1. Base(State, p, Hold(x), Uncounted(x), 0, disk, NULL) BY <1>1, Ready
  <2> QED BY <1>4, <1>5, <2>1
<1>7. Wakes(State, State) BY DEF Wakes
<1>8. CASE Return(State, p) BY <1>1, <1>6, <1>7, <1>8, Returns
<1>9. CASE basyncnt # 0 /\ Sleep([State EXCEPT !.basynwait = TRUE], p, "basyncnt", "bdwait")
  <2> DEFINE t == SyncWait(State)
             r == Asleep(x, "basyncnt", "bdwait")
  <2>1. cpu' = NULL /\ Become(With(t, p, r)) BY <1>9 DEF Sleep, Asleep, SyncWait
  <2>2. /\ Base(t, p, {}, 0, 0, disk', NULL) /\ t.proc = State.proc /\ t.basynwait /\ t.basyncnt = State.basyncnt
    BY <1>6, BaseSync
  <2>3. IsAsleep(r, x, "basyncnt", "bdwait") BY <1>2, AsleepIs
  <2> HIDE DEF t, r
  <2>4. /\ r \in ProcSet /\ r.pc = "asleep" /\ r.chan = "basyncnt" /\ r.ret = "bdwait" /\ r.bp = NULL /\ r.savebp = NULL
        /\ Hold(r) = {} /\ Uncounted(r) = 0 /\ At(r) = "bdwait" /\ ~OnCpu(r)
    BY <1>2, <1>3, <1>4, <2>3 DEF IsAsleep
  <2>5. Counts(State, 0) /\ State \in StateSet BY <1>6 DEF Base, Struct
  <2>6. State.basyncnt \in Nat
    <3>1. State.basyncnt + 0 = Cardinality(Behind(State)) BY <2>5 DEF Counts
    <3>2. Cardinality(Behind(State)) \in Nat BY BehindFinite
    <3>3. State.basyncnt \in Int BY <2>5, StateTyped
    <3> QED BY <3>1, <3>2, <3>3
  <2>7. t.basyncnt > 0 BY <1>9, <2>2, <2>6, StateFields
  <2>8. "basyncnt" \notin Buf BY ConstantsAssumption
  <2>9. Shape(r) BY <2>4 DEF Shape
  <2>10. ProcOK(t, r) BY <2>4, <2>8, <2>9 DEF ProcOK, HoldsOK, KeepsOK, SleepOK
  <2>11. Searches(t, r) BY <2>4 DEF Searches
  <2>12. Stops(t, p, r, NULL) BY <2>2, <2>4, <2>7, <2>10, <2>11 DEF Stops
  <2>13. Base(t, p, Hold(r), Uncounted(r), 0, disk', NULL) BY <2>2, <2>4
  <2>14. Wakes(t, State) BY <2>2, KeptWakes
  <2> QED BY <1>1, <2>1, <2>4, <2>12, <2>13, <2>14, Stepped
<1> QED BY <1>8, <1>9 DEF Bdwait

(* bwrite() waits for the write. *)
LEMMA WaitEnds ==
    ASSUME NEW p, MayRun(p), NEW s, NEW b \in Buf, NEW D, NEW then \in {"brelse", "blkflush"}, Wakes(s, State),
           Base(s, p, {b}, 0, 0, disk', D), b \notin Io(s), s.buf[b].blk # NULL,
           "B_BUSY" \in s.buf[b].flags, "B_STALE" \notin s.buf[b].flags, "B_ASYNC" \notin s.buf[b].flags,
           Sure => Due(s, b, D), WriteWait(s, p, b, then), proc[p].savebp = NULL, proc[p].chan = NULL,
           proc[p].ret = NULL, then = "blkflush" => proc[p].blk \in Block
    PROVE  Inv(State', cpu', disk')
<1> DEFINE x == proc[p]
           t == StartWrite(s, b)
           r == [x EXCEPT !.pc = "biowait", !.bp = b, !.then = then]
           fl == s.buf[b].flags \ {"B_READ", "B_DONE", "B_ERROR", "B_DELWRI"}
<1>0. NULL \notin Buf /\ p \in Proc BY ConstantsAssumption DEF MayRun
<1>1. x \in ProcSet BY Ready
<1>2. cpu' = p /\ Become(With(t, p, r)) BY DEF WriteWait, Continue
<1>3. PICK k : k = 0 OBVIOUS
<1>4. k \in Int /\ Base(s, p, {b}, k, 0, disk', D) /\ {b} \in SUBSET Buf /\ b \in {b} BY <1>3
<1>5. Base(t, p, {b}, k, 0, disk', NULL) /\ t.proc = s.proc /\ Starts(t, s, b, fl) BY <1>4, BaseWrite
<1>6. /\ r \in ProcSet /\ r.pc = "biowait" /\ r.bp = b /\ r.savebp = NULL /\ r.then = then /\ r.blk = x.blk
      /\ r.chan = NULL /\ r.ret = NULL
  BY <1>1 DEF ProcSet
<1> HIDE DEF t, r
<1>7. Wakes(t, State) BY <1>5 DEF Wakes
<1>8. s \in StateSet /\ Lonely(s) BY DEF Base, Struct
<1>9. Io(t) = Io(s) \cup {b} BY <1>5, <1>8, StartsF
<1>10. t.buf[b].flags = fl BY <1>5 DEF Starts, OnlyFlags
<1>11. Hold(r) = {b} /\ Uncounted(r) = 0 /\ At(r) = "biowait" /\ ~OnCpu(r)
  BY <1>0, <1>6 DEF Hold, Uncounted, At, OnCpu
<1>12. Shape(r) BY <1>0, <1>6, <1>11 DEF Shape
<1>13. HoldsOK(t, r) BY <1>6, <1>9, <1>10 DEF HoldsOK
<1>14. ProcOK(t, r) BY <1>6, <1>12, <1>13 DEF ProcOK, KeepsOK, SleepOK
<1>15. Stops(t, p, r, p) BY <1>6, <1>11, <1>14 DEF Stops, Searches
<1>16. Base(t, p, Hold(r), Uncounted(r), 0, disk', NULL) BY <1>3, <1>5, <1>11
<1> QED BY <1>2, <1>6, <1>7, <1>15, <1>16, Stepped

(* blkflush(). *)
LEMMA BlkflushInv ==
    ASSUME NEW p \in Proc, Inv(State, cpu, disk), Blkflush(p), disk' = disk
    PROVE  Inv(State', cpu', disk')
<1> DEFINE x == proc[p]
           n == x.blk
           b == Lookup(State, n)
<1>0. NULL \notin Buf /\ NULL \notin Block BY ConstantsAssumption
<1>1. MayRun(p) /\ x.pc = "blkflush" BY DEF Blkflush, Runs, MayRun
<1>2. /\ x.savebp = NULL /\ x.chan = NULL /\ x.ret = NULL /\ At(x) = "blkflush" /\ Shape(x) /\ HoldsOK(State, x)
      /\ x \in ProcSet
  BY <1>1, OneHeld
<1>3. x.bp = NULL /\ n \in Block BY <1>2 DEF Shape
<1>4. Hold(x) = {} BY <1>1, <1>3, OneHeld
<1>5. Uncounted(x) = 0 BY <1>1 DEF Uncounted
<1>6. Base(State, p, {}, 0, 0, disk', NULL)
  <2>1. Base(State, p, Hold(x), Uncounted(x), 0, disk, NULL) BY <1>1, Ready
  <2> QED BY <1>4, <1>5, <2>1
<1>7. Wakes(State, State) BY DEF Wakes
<1>8. State.buf = buf BY StateFields
<1>9. b # NULL => b \in Buf /\ buf[b].blk = n /\ "B_STALE" \notin buf[b].flags BY <1>8, LookupIs
<1>10. CASE Return(State, p) BY <1>1, <1>6, <1>7, <1>10, Returns
<1>11. CASE b # NULL /\ "B_BUSY" \in buf[b].flags /\ Sleep(Set(State, b, {"B_WANTED"}), p, b, "blkflush")
  <2> DEFINE t == Set(State, b, {"B_WANTED"})
             r == Asleep(x, b, "blkflush")
  <2>1. b \in Buf /\ buf[b].blk # NULL BY <1>0, <1>3, <1>9, <1>11
  <2> HIDE DEF b
  <2>2. /\ Base(t, p, {}, 0, 0, disk', NULL) /\ t.proc = State.proc /\ t.ioq = State.ioq
        /\ OnlyFlags(t, State, b, State.buf[b].flags \cup {"B_WANTED"})
    BY <1>6, <1>8, <1>11, <2>1, BaseMark
  <2>3. cpu' = NULL /\ Become(With(t, p, r)) BY <1>11 DEF Sleep, Asleep
  <2>4. IsAsleep(r, x, b, "blkflush") BY <1>2, <2>1, AsleepIs
  <2> HIDE DEF t, r
  <2>5. /\ r \in ProcSet /\ r.pc = "asleep" /\ r.chan = b /\ r.ret = "blkflush" /\ r.bp = NULL /\ r.savebp = NULL
        /\ r.blk = n /\ Hold(r) = {} /\ Uncounted(r) = 0 /\ At(r) = "blkflush" /\ ~OnCpu(r)
    BY <1>2, <1>3, <1>4, <2>4 DEF IsAsleep
  <2>6. Wakes(t, State) BY <2>2, KeptWakes
  <2>7. t.buf[b].flags = buf[b].flags \cup {"B_WANTED"} BY <1>8, <2>2 DEF OnlyFlags
  <2>8. Shape(r) BY <1>3, <2>1, <2>5 DEF Shape
  <2>9. SleepOK(t, r) BY <1>11, <2>1, <2>5, <2>7, ConstantsAssumption DEF SleepOK
  <2>10. ProcOK(t, r) BY <2>5, <2>8, <2>9 DEF ProcOK, HoldsOK, KeepsOK
  <2>11. Stops(t, p, r, NULL) BY <2>1, <2>5, <2>10, ConstantsAssumption DEF Stops, Searches
  <2>12. Base(t, p, Hold(r), Uncounted(r), 0, disk', NULL) BY <2>2, <2>5
  <2> QED BY <1>1, <2>3, <2>5, <2>6, <2>11, <2>12, Stepped
<1>12. CASE /\ b # NULL /\ "B_BUSY" \notin buf[b].flags /\ Dirty(b)
            /\ WriteWait(Notavail(State, b), p, b, "blkflush")
  <2> DEFINE s == Notavail(State, b)
  <2>1. b \in Buf /\ buf[b].blk # NULL /\ "B_STALE" \notin buf[b].flags BY <1>0, <1>3, <1>9, <1>12
  <2>2. "B_DELWRI" \in buf[b].flags BY <1>12 DEF Dirty
  <2> HIDE DEF b
  <2>3. b \in Free(State) BY <1>1, <1>2, <1>12, <2>1, Available
  <2>4. /\ Base(s, p, {} \cup {b}, 0, 0, disk', NULL) /\ s.proc = State.proc /\ s.ioq = State.ioq /\ b \notin Io(State)
        /\ OnlyFlags(s, State, b, State.buf[b].flags \cup {"B_BUSY"}) /\ "B_ASYNC" \notin State.buf[b].flags
    BY <1>6, <2>3, BaseNotavail
  <2>5. WriteWait(s, p, b, "blkflush") BY <1>12
  <2> HIDE DEF s
  <2>6. {} \cup {b} = {b} OBVIOUS
  <2>7. Base(s, p, {b}, 0, 0, disk', NULL) BY <2>4, <2>6
  <2>8. Wakes(s, State) /\ b \notin Io(s) BY <2>4, KeptWakes DEF Io
  <2>9. s.buf[b].flags = buf[b].flags \cup {"B_BUSY"} /\ s.buf[b].blk = buf[b].blk BY <1>8, <2>4 DEF OnlyFlags
  <2>10. /\ "B_BUSY" \in s.buf[b].flags /\ "B_STALE" \notin s.buf[b].flags /\ "B_ASYNC" \notin s.buf[b].flags
         /\ s.buf[b].blk # NULL
    BY <1>8, <2>1, <2>4, <2>9
  <2>11. Due(s, b, NULL) BY <2>2, <2>9 DEF Due
  <2>12. x.blk \in Block BY <1>3
  <2> QED BY <1>1, <1>2, <2>1, <2>5, <2>7, <2>8, <2>10, <2>11, <2>12, WaitEnds
<1> QED BY <1>10, <1>11, <1>12 DEF Blkflush

(* The holder of a buffer. *)
LEMMA Holder ==
    ASSUME NEW p \in Proc, Inv(State, cpu, disk), Holds(p)
    PROVE  /\ MayRun(p) /\ proc[p].pc = "own" /\ proc[p].bp \in Buf /\ proc[p] \in ProcSet
           /\ proc[p].savebp = NULL /\ proc[p].chan = NULL /\ proc[p].ret = NULL
           /\ Base(State, p, {proc[p].bp}, 0, 0, disk, NULL) /\ proc[p].bp \notin Io(State)
           /\ "B_BUSY" \in buf[proc[p].bp].flags /\ "B_STALE" \notin buf[proc[p].bp].flags
           /\ "B_ASYNC" \notin buf[proc[p].bp].flags
<1> DEFINE x == proc[p]
<1>1. MayRun(p) /\ x.pc = "own" BY DEF Holds, MayRun
<1>2. /\ x.savebp = NULL /\ x.chan = NULL /\ x.ret = NULL /\ At(x) = "own" /\ Shape(x) /\ HoldsOK(State, x)
      /\ x \in ProcSet
  BY <1>1, OneHeld
<1>3. x.bp # NULL BY <1>2 DEF Shape
<1>4. x.bp \in Buf /\ Hold(x) = {x.bp} BY <1>1, <1>3, OneHeld
<1>5. Uncounted(x) = 0 BY <1>1 DEF Uncounted
<1>6. Base(State, p, Hold(x), Uncounted(x), 0, disk, NULL) BY <1>1, Ready
<1>7. Base(State, p, {x.bp}, 0, 0, disk, NULL) BY <1>4, <1>5, <1>6
<1>8. /\ x.bp \notin Io(State) /\ "B_BUSY" \in buf[x.bp].flags /\ "B_STALE" \notin buf[x.bp].flags
      /\ "B_ASYNC" \notin buf[x.bp].flags
  BY <1>1, <1>2, <1>3, StateFields DEF HoldsOK
<1> QED BY <1>1, <1>2, <1>4, <1>7, <1>8

(* brelse() by the holder. *)
LEMMA ReleaseInv ==
    ASSUME NEW p \in Proc, Inv(State, cpu, disk), Release(p)
    PROVE  Inv(State', cpu', disk')
<1> DEFINE b == proc[p].bp
           t == Brelse(State, b)
<1>1. Holds(p) /\ Return(t, p) /\ disk' = disk BY DEF Release
<1>2. MayRun(p) /\ Base(State, p, {b}, 0, 0, disk', NULL) /\ b \notin Io(State) BY <1>1, Holder
<1> HIDE DEF b
<1>3. b \in {b} OBVIOUS
<1>4. Base(t, p, {b} \ {b}, 0, 0, disk', NULL) /\ Wakes(t, State) BY <1>2, <1>3, BaseBrelse
<1> HIDE DEF t
<1>5. {b} \ {b} = {} OBVIOUS
<1>6. Base(t, p, {}, 0, 0, disk', NULL) BY <1>4, <1>5
<1> QED BY <1>1, <1>2, <1>4, <1>6, Returns

(* It has changed the contents. *)
Modified(s, p, b) ==
    /\ MayRun(p) /\ b \in Buf /\ Wakes(s, State) /\ Base(s, p, {b}, 0, 0, disk', b) /\ b \notin Io(s)
    /\ s.buf[b].blk # NULL /\ "B_BUSY" \in s.buf[b].flags /\ "B_STALE" \notin s.buf[b].flags
    /\ "B_ASYNC" \notin s.buf[b].flags /\ "B_ERROR" \notin s.buf[b].flags /\ (Sure => s.buf[b].cur)
    /\ proc[p].savebp = NULL /\ proc[p].chan = NULL /\ proc[p].ret = NULL /\ proc[p] \in ProcSet

(* Modify() leaves that state. *)
LEMMA ChangesIs ==
    ASSUME NEW p \in Proc, Inv(State, cpu, disk), Changes(p)
    PROVE  Modified(Modify(State, proc[p].bp), p, proc[p].bp)
<1> DEFINE b == proc[p].bp
           s == Modify(State, b)
<1>1. Holds(p) /\ buf[b].blk # NULL /\ "B_ERROR" \notin buf[b].flags /\ disk' = Outdated(b) BY DEF Changes
<1>2. /\ MayRun(p) /\ b \in Buf /\ proc[p] \in ProcSet
      /\ proc[p].savebp = NULL /\ proc[p].chan = NULL /\ proc[p].ret = NULL
      /\ Base(State, p, {b}, 0, 0, disk, NULL) /\ b \notin Io(State)
      /\ "B_BUSY" \in buf[b].flags /\ "B_STALE" \notin buf[b].flags /\ "B_ASYNC" \notin buf[b].flags
  BY <1>1, Holder
<1>3. State.buf = buf BY StateFields
<1>4. \A n \in Block : disk'[n] <=> disk[n] /\ n # State.buf[b].blk BY <1>1, <1>3, Zenon DEF Outdated
<1> HIDE DEF b
<1>5. b \in {b} OBVIOUS
<1>6. State.buf[b].blk # NULL /\ "B_STALE" \notin State.buf[b].flags BY <1>1, <1>2, <1>3
<1>7. /\ Base(s, p, {b}, 0, 0, disk', b) /\ s.proc = State.proc
      /\ s.buf[b].flags = State.buf[b].flags /\ s.buf[b].blk = State.buf[b].blk
      /\ s.ioq = State.ioq /\ (Sure => s.buf[b].cur)
  BY <1>2, <1>4, <1>5, <1>6, BaseModify
<1> HIDE DEF s
<1>8. Wakes(s, State) /\ b \notin Io(s) BY <1>2, <1>7, KeptWakes DEF Io
<1>9. Modified(s, p, b) BY <1>1, <1>2, <1>3, <1>7, <1>8 DEF Modified
<1> QED BY <1>9 DEF s, b

(* It writes them and waits. *)
LEMMA BwriteEnds ==
    ASSUME NEW p, NEW s, NEW b, Modified(s, p, b), WriteWait(s, p, b, "brelse")
    PROVE  Inv(State', cpu', disk')
<1>1. Sure => Due(s, b, b) BY DEF Modified, Due
<1> QED BY <1>1, WaitEnds DEF Modified

(* bwrite(). *)
LEMMA BwriteInv ==
    ASSUME NEW p \in Proc, Inv(State, cpu, disk), Bwrite(p)
    PROVE  Inv(State', cpu', disk')
BY ChangesIs, BwriteEnds DEF Bwrite

(* bdwrite(). *)
LEMMA BdwriteInv ==
    ASSUME NEW p \in Proc, Inv(State, cpu, disk), Bdwrite(p)
    PROVE  Inv(State', cpu', disk')
<1> DEFINE b == proc[p].bp
           s == Modify(State, b)
           u == Delayed(s, b)
           t == Brelse(u, b)
<1>1. Modified(s, p, b) BY ChangesIs DEF Bdwrite
<1>2. Return(t, p) BY DEF Bdwrite, Delayed
<1> HIDE DEF s, b
<1>3. /\ MayRun(p) /\ b \in Buf /\ Wakes(s, State) /\ Base(s, p, {b}, 0, 0, disk', b) /\ b \notin Io(s)
      /\ s.buf[b].blk # NULL /\ "B_BUSY" \in s.buf[b].flags /\ "B_STALE" \notin s.buf[b].flags
      /\ "B_ERROR" \notin s.buf[b].flags /\ (Sure => s.buf[b].cur)
  BY <1>1 DEF Modified
<1>4. b \in {b} OBVIOUS
<1>5. Base(u, p, {b}, 0, 0, disk', NULL) /\ u.proc = s.proc /\ u.ioq = s.ioq BY <1>3, <1>4, BaseDelay
<1> HIDE DEF u
<1>6. b \notin Io(u) BY <1>3, <1>5 DEF Io
<1>7. Base(t, p, {b} \ {b}, 0, 0, disk', NULL) /\ Wakes(t, u) BY <1>4, <1>5, <1>6, BaseBrelse
<1> HIDE DEF t
<1>8. {b} \ {b} = {} OBVIOUS
<1>9. Base(t, p, {}, 0, 0, disk', NULL) BY <1>7, <1>8
<1>10. Wakes(t, s) BY <1>5, <1>7 DEF Wakes
<1>11. s.proc = State.proc
  <2>1. State \in StateSet /\ b \in Buf BY <1>3, Ready DEF Base, Struct
  <2> QED BY <2>1, ModifyF DEF s, Kept
<1>12. Wakes(t, State) BY <1>10, <1>11 DEF Wakes
<1> QED BY <1>2, <1>3, <1>9, <1>12, Returns

(* bawrite(). *)
LEMMA BawriteInv ==
    ASSUME NEW p \in Proc, Inv(State, cpu, disk), Bawrite(p)
    PROVE  Inv(State', cpu', disk')
<1> DEFINE b == proc[p].bp
           x == proc[p]
           s == Modify(State, b)
           t == StartBehind(s, b)
           r == [x EXCEPT !.pc = "bawrite", !.bp = NULL]
<1>1. Modified(s, p, b) BY ChangesIs DEF Bawrite
<1>2. \/ WriteWait(s, p, b, "brelse")
      \/ cpu' = p /\ Become(With(t, p, r))
  BY DEF Bawrite, Continue, StartBehind
<1> HIDE DEF s, b
<1>3. CASE WriteWait(s, p, b, "brelse") BY <1>1, <1>3, BwriteEnds
<1>4. CASE cpu' = p /\ Become(With(t, p, r))
  <2>1. /\ MayRun(p) /\ b \in Buf /\ Wakes(s, State) /\ Base(s, p, {b}, 0, 0, disk', b) /\ b \notin Io(s)
        /\ s.buf[b].blk # NULL /\ "B_BUSY" \in s.buf[b].flags /\ "B_STALE" \notin s.buf[b].flags
        /\ x.savebp = NULL /\ x.chan = NULL /\ x.ret = NULL /\ x \in ProcSet
        /\ (Sure => Due(s, b, b))
    BY <1>1 DEF Modified, Due
  <2>2. PICK k : k = 0 OBVIOUS
  <2>3. k \in Int /\ Base(s, p, {b}, k, 0, disk', b) /\ {b} \in SUBSET Buf /\ b \in {b} BY <2>1, <2>2
  <2>4. Base(t, p, {b} \ {b}, k + 1, 0, disk', NULL) /\ t.proc = s.proc BY <2>1, <2>3, BaseStartBehind
  <2> HIDE DEF t
  <2>5. {b} \ {b} = {} /\ k + 1 = 1 BY <2>2
  <2>6. Base(t, p, {}, 1, 0, disk', NULL) /\ Wakes(t, State) BY <2>1, <2>4, <2>5 DEF Wakes
  <2>7. /\ r \in ProcSet /\ r.pc = "bawrite" /\ r.bp = NULL /\ r.savebp = NULL /\ r.chan = NULL /\ r.ret = NULL
    BY <2>1 DEF ProcSet
  <2> HIDE DEF r
  <2>8. Hold(r) = {} /\ Uncounted(r) = 1 /\ At(r) = "bawrite" BY <2>7 DEF Hold, Uncounted, At
  <2>9. Shape(r) BY <2>7, <2>8 DEF Shape
  <2>10. ProcOK(t, r) BY <2>7, <2>9 DEF ProcOK, HoldsOK, KeepsOK, SleepOK
  <2>11. Stops(t, p, r, p) BY <2>7, <2>8, <2>10 DEF Stops, Searches
  <2>12. Base(t, p, Hold(r), Uncounted(r), 0, disk', NULL) BY <2>6, <2>8
  <2> QED BY <1>4, <2>1, <2>6, <2>7, <2>11, <2>12, Stepped
<1> QED BY <1>2, <1>3, <1>4

(* The first of the free buffers, if any, that is marked to be written. *)
LEMMA FirstDirty ==
    ASSUME bfreelist \in Seq(Buf)
    PROVE  LET i == SelectInSeq(bfreelist, Dirty)
           IN  /\ i # 0 => bfreelist[i] \in Free(State) /\ "B_DELWRI" \in buf[bfreelist[i]].flags
               /\ i = 0 => \A b \in Free(State) : "B_DELWRI" \notin buf[b].flags
<1> DEFINE I == {j \in 1 .. Len(bfreelist) : Dirty(bfreelist[j])}
           i == SelectInSeq(bfreelist, Dirty)
<1>1. i = IF I # {} THEN Min(I) ELSE 0 BY DEF SelectInSeq
<1>2. Len(bfreelist) \in Nat /\ I \in SUBSET Nat OBVIOUS
<1>3. I # {} => Min(I) \in I
  <2> SUFFICES ASSUME I # {} PROVE Min(I) \in I OBVIOUS
  <2>1. PICK j : j \in I OBVIOUS
  <2> HIDE DEF I
  <2> QED BY <1>2, <2>1, LeastMember
<1>4. Free(State) = ToSet(bfreelist) BY StateFields DEF Free
<1>5. \A b : b \in Free(State) <=> \E j \in 1 .. Len(bfreelist) : bfreelist[j] = b BY <1>4, MemberIff
<1>6. CASE I # {}
  <2>1. i \in I BY <1>1, <1>3, <1>6
  <2>2. i \in 1 .. Len(bfreelist) /\ Dirty(bfreelist[i]) BY <2>1
  <2> HIDE DEF i
  <2> QED BY <1>2, <1>5, <2>2 DEF Dirty, i
<1>7. CASE I = {}
  <2>1. i = 0 BY <1>1, <1>7
  <2>2. \A j \in 1 .. Len(bfreelist) : ~Dirty(bfreelist[j]) BY <1>7
  <2> HIDE DEF i
  <2> QED BY <1>5, <2>1, <2>2 DEF Dirty, i
<1> QED BY <1>6, <1>7

(* A free buffer that is marked is written behind. *)
LEMMA FlushOne ==
    ASSUME NEW s, NEW p, NEW d, Base(s, p, {}, 0, 0, d, NULL), NEW b \in Free(s), "B_DELWRI" \in s.buf[b].flags
    PROVE  Base(WriteBehind(Notavail(s, b), b), p, {}, 0, 0, d, NULL) /\ WriteBehind(Notavail(s, b), b).proc = s.proc
           /\ (\A c \in Buf : WriteBehind(Notavail(s, b), b).buf[c].blk = s.buf[c].blk)
           /\ (\A c \in Buf \ {b} : WriteBehind(Notavail(s, b), b).buf[c] = s.buf[c])
           /\ "B_STALE" \notin s.buf[b].flags
<1> DEFINE u == Notavail(s, b)
           t == WriteBehind(u, b)
<1>1. /\ Base(u, p, {} \cup {b}, 0, 0, d, NULL) /\ u.proc = s.proc /\ b \in Buf /\ u.ioq = s.ioq /\ b \notin Io(s)
      /\ OnlyFlags(u, s, b, s.buf[b].flags \cup {"B_BUSY"})
  BY BaseNotavail
<1>2. BufOK(s, {}, b) BY <1>1 DEF Base, Struct
<1>3. s.buf[b].blk # NULL /\ "B_STALE" \notin s.buf[b].flags BY <1>2 DEF BufOK
<1>4. {} \cup {b} = {b} OBVIOUS
<1>5. PICK k : k = 0 OBVIOUS
<1>6. k \in Int /\ Base(u, p, {b}, k, 0, d, NULL) /\ {b} \in SUBSET Buf /\ b \in {b} BY <1>1, <1>4, <1>5
<1> HIDE DEF u
<1>7. u.buf[b].flags = s.buf[b].flags \cup {"B_BUSY"} /\ u.buf[b].blk = s.buf[b].blk /\ b \notin Io(u)
  BY <1>1 DEF OnlyFlags, Io
<1>8. \A c \in Buf \ {b} : u.buf[c] = s.buf[c] BY <1>1 DEF OnlyFlags
<1>9. Due(u, b, NULL) BY <1>7 DEF Due
<1>10. "B_BUSY" \in u.buf[b].flags /\ "B_STALE" \notin u.buf[b].flags /\ u.buf[b].blk # NULL BY <1>3, <1>7
<1>11. Base(t, p, {b} \ {b}, k, 0, d, NULL) /\ Written(t, u, b) BY <1>6, <1>7, <1>9, <1>10, BaseBehind
<1> HIDE DEF t
<1>12. {b} \ {b} = {} OBVIOUS
<1>13. Base(t, p, {}, 0, 0, d, NULL) BY <1>5, <1>11, <1>12
<1>14. t.proc = s.proc BY <1>1, <1>11 DEF Written
<1>15. \A c \in Buf \ {b} : t.buf[c] = s.buf[c] BY <1>8, <1>11 DEF Written, Elsewhere
<1>16. t.buf[b].blk = s.buf[b].blk BY <1>7, <1>11 DEF Written
<1>17. \A c \in Buf : t.buf[c].blk = s.buf[c].blk BY <1>15, <1>16
<1> QED BY <1>3, <1>13, <1>14, <1>15, <1>17 DEF t, u

(* On the last close of the device nobody holds a buffer and no write is   *)
(* delayed.                                                                *)
LEMMA CloseClean ==
    ASSUME NEW p \in Proc, Struct(State, p, {}), \A q \in Proc \ {p} : proc[q].pc = "idle",
           \A b \in Free(State) : "B_DELWRI" \notin buf[b].flags
    PROVE  /\ \A b \in Buf : NotHeld(State, p, b)
           /\ \A b \in Buf : "B_DELWRI" \notin State.buf[b].flags
<1>1. State.buf = buf /\ State.proc = proc BY StateFields
<1>2. \A q \in Proc \ {p} : ProcOK(State, proc[q]) BY <1>1 DEF Struct
<1>3. \A q \in Proc \ {p} : proc[q] = Idle BY <1>2 DEF ProcOK, Shape
<1>4. Hold(Idle) = {} BY IdleIs DEF Hold
<1>5. \A b \in Buf : NotHeld(State, p, b) BY <1>1, <1>3, <1>4 DEF NotHeld
<1>6. ASSUME NEW b \in Buf PROVE "B_DELWRI" \notin State.buf[b].flags
  <2>1. BufOK(State, {}, b) BY DEF Struct
  <2>2. b \in Free(State) \/ b \in Hdr(State) \/ Async(State, b) BY <1>1, <1>3, <1>4 DEF Struct, Somewhere
  <2>3. b \in Hdr(State) => State.buf[b].flags = {} BY <2>1, NewBufSet DEF BufOK
  <2>4. Async(State, b) => b \in Io(State) BY DEF Async
  <2> QED BY <1>1, <2>1, <2>2, <2>3, <2>4 DEF BufOK
<1> QED BY <1>5, <1>6

(* bflush(), and binval() after it on the last close. *)
LEMMA BflushInv ==
    ASSUME NEW p \in Proc, Inv(State, cpu, disk), Bflush(p), disk' = disk
    PROVE  Inv(State', cpu', disk')
<1> DEFINE x == proc[p]
           i == SelectInSeq(bfreelist, Dirty)
           b == bfreelist[i]
<1>0. NULL \notin Buf BY ConstantsAssumption
<1>1. MayRun(p) /\ x.pc = "bflush" BY DEF Bflush, Runs, MayRun
<1>2. /\ x.savebp = NULL /\ x.chan = NULL /\ x.ret = NULL /\ At(x) = "bflush" /\ Shape(x) /\ x \in ProcSet
  BY <1>1, OneHeld
<1>3. x.bp = NULL /\ x.then \in {NULL, "close"} BY <1>2 DEF Shape
<1>4. Hold(x) = {} BY <1>1, <1>3, OneHeld
<1>5. Uncounted(x) = 0 BY <1>1 DEF Uncounted
<1>6. Base(State, p, {}, 0, 0, disk', NULL)
  <2>1. Base(State, p, Hold(x), Uncounted(x), 0, disk, NULL) BY <1>1, Ready
  <2> QED BY <1>4, <1>5, <2>1
<1>7. State.buf = buf /\ State.proc = proc /\ State.bfreelist = bfreelist BY StateFields
<1>8. Struct(State, p, {}) BY <1>6 DEF Base
<1>9. bfreelist \in Seq(Buf) BY <1>7, <1>8, StateTyped DEF Struct
<1>10. /\ i # 0 => b \in Free(State) /\ "B_DELWRI" \in buf[b].flags
       /\ i = 0 => \A c \in Free(State) : "B_DELWRI" \notin buf[c].flags
  BY <1>9, FirstDirty
<1>11. x.then = "close" => \A q \in Proc \ {p} : proc[q].pc = "idle" BY <1>1, <1>7 DEF Inv, CpuOK
<1>12. CASE i # 0 /\ Goto(WriteBehind(Notavail(State, b), b), p, "bflush")
  <2> DEFINE t == WriteBehind(Notavail(State, b), b)
             r == [x EXCEPT !.pc = "bflush"]
  <2>1. b \in Free(State) /\ "B_DELWRI" \in State.buf[b].flags BY <1>7, <1>10, <1>12
  <2>2. cpu' = p /\ Become(With(t, p, r)) BY <1>12 DEF Goto, Continue
  <2> HIDE DEF b, i
  <2>3. Base(t, p, {}, 0, 0, disk', NULL) /\ t.proc = State.proc BY <1>6, <2>1, FlushOne
  <2>4. /\ r \in ProcSet /\ r.pc = "bflush" /\ r.bp = NULL /\ r.savebp = NULL /\ r.chan = NULL /\ r.ret = NULL
        /\ r.then = x.then
    BY <1>2, <1>3 DEF ProcSet
  <2> HIDE DEF t, r
  <2>5. Hold(r) = {} /\ Uncounted(r) = 0 /\ At(r) = "bflush" BY <2>4 DEF Hold, Uncounted, At
  <2>6. Shape(r) BY <1>3, <2>4, <2>5 DEF Shape
  <2>7. ProcOK(t, r) BY <2>4, <2>6 DEF ProcOK, HoldsOK, KeepsOK, SleepOK
  <2>8. r.then = "close" => \A q \in Proc \ {p} : t.proc[q].pc = "idle" BY <1>7, <1>11, <2>3, <2>4
  <2>9. Stops(t, p, r, p) BY <2>4, <2>5, <2>7, <2>8 DEF Stops, Searches
  <2>10. Base(t, p, Hold(r), Uncounted(r), 0, disk', NULL) BY <2>3, <2>5
  <2>11. Wakes(t, State) BY <2>3, KeptWakes
  <2> QED BY <1>1, <2>2, <2>4, <2>9, <2>10, <2>11, Stepped
<1>13. CASE i = 0 /\ Return(IF x.then = "close" THEN Binval(State) ELSE State, p)
  <2>1. CASE x.then = "close"
    <3> DEFINE t == Binval(State)
    <3>1. Return(t, p) BY <1>13, <2>1
    <3>2. /\ \A c \in Buf : NotHeld(State, p, c)
          /\ \A c \in Buf : "B_DELWRI" \notin State.buf[c].flags
      BY <1>8, <1>10, <1>11, <1>13, <2>1, CloseClean
    <3>3. Base(t, p, {}, 0, 0, disk', NULL) /\ t.proc = State.proc BY <1>6, <3>2, BaseBinval
    <3> HIDE DEF t
    <3>4. Wakes(t, State) BY <3>3, KeptWakes
    <3> QED BY <1>1, <3>1, <3>3, <3>4, Returns
  <2>2. CASE x.then # "close"
    <3>1. Return(State, p) BY <1>13, <2>2
    <3>2. Wakes(State, State) BY DEF Wakes
    <3> QED BY <1>1, <1>6, <3>1, <3>2, Returns
  <2> QED BY <2>1, <2>2
<1> QED BY <1>12, <1>13 DEF Bflush

(* A process that is not in a routine calls one, with the entry r. *)
LEMMA CallEnds ==
    ASSUME NEW p \in Proc, Inv(State, cpu, disk), Call(p), disk' = disk, NEW r \in ProcSet, cpu' = p,
           Become(With(State, p, r)), r.bp = NULL, r.savebp = NULL, r.chan = NULL, r.ret = NULL,
           \/ r.pc = "getblk" /\ Getting(r) /\ Target(r) # NULL
           \/ r.pc = "getfreeblk" /\ Getting(r) /\ Target(r) = NULL
           \/ r.pc = "ahead" /\ r.then = "first" /\ r.blk \in Block /\ r.ra \in Block
           \/ r.pc = "blkflush" /\ r.blk \in Block
           \/ r.pc = "bflush" /\ r.then = NULL
           \/ r.pc = "bflush" /\ r.then = "close" /\ \A q \in Proc : proc[q].pc = "idle"
           \/ r.pc = "bdwait"
    PROVE  Inv(State', cpu', disk')
<1> DEFINE x == proc[p]
<1>0. NULL \notin Buf /\ NULL \notin {"close"} BY SMTT(30), ConstantsAssumption
<1>1. MayRun(p) /\ x.pc = "idle" BY Zenon DEF Call, Runs, MayRun
<1>2. ProcOK(State, x) BY <1>1, Ready
<1>3. x = Idle BY <1>1, <1>2 DEF ProcOK, Shape
<1>4. Hold(x) = {} /\ Uncounted(x) = 0 BY <1>3, IdleIs DEF Hold, Uncounted
<1>5. Base(State, p, {}, 0, 0, disk', NULL)
  <2>1. Base(State, p, Hold(x), Uncounted(x), 0, disk, NULL) BY <1>1, Ready
  <2> QED BY <1>4, <2>1
<1>6. Hold(r) = {} /\ Uncounted(r) = 0 /\ At(r) = r.pc BY DEF Hold, Uncounted, At
<1>7. Shape(r) BY <1>6 DEF Shape
<1>8. ProcOK(State, r) BY <1>7 DEF ProcOK, HoldsOK, KeepsOK, SleepOK
<1>9. Searches(State, r) BY <1>6 DEF Searches
<1>10. r.pc = "bflush" /\ r.then = "close" => \A q \in Proc \ {p} : State.proc[q].pc = "idle"
  BY <1>0, StateFields
<1>11. Stops(State, p, r, p) BY <1>8, <1>9, <1>10 DEF Stops
<1>12. Base(State, p, Hold(r), Uncounted(r), 0, disk', NULL) BY <1>5, <1>6
<1>13. Wakes(State, State) BY Zenon DEF Wakes
<1> QED BY <1>1, <1>11, <1>12, <1>13, Stepped

(* A process calls one of the routines. *)
LEMMA CallInv ==
    ASSUME NEW p \in Proc, Inv(State, cpu, disk), Call(p), disk' = disk
    PROVE  Inv(State', cpu', disk')
<1> USE IdleIs
<1>0. NULL \notin Block BY ConstantsAssumption
<1>1. MayRun(p) /\ proc[p].pc = "idle" BY Zenon DEF Call, Runs, MayRun
<1>2. proc[p] = Idle
  <2>1. ProcOK(State, proc[p]) BY <1>1, Ready
  <2> QED BY <1>1, <2>1 DEF ProcOK, Shape
<1>3. ASSUME NEW n \in Block, NEW then \in {"read", "own"},
             Continue(State, p, [Idle EXCEPT !.pc = "getblk", !.blk = n, !.then = then])
      PROVE  Inv(State', cpu', disk')
  <2> DEFINE r == [Idle EXCEPT !.pc = "getblk", !.blk = n, !.then = then]
  <2>1. cpu' = p /\ Become(With(State, p, r)) BY <1>3 DEF Continue
  <2>2. /\ r \in ProcSet /\ r.pc = "getblk" /\ r.blk = n /\ r.then = then /\ r.bp = NULL /\ r.savebp = NULL
        /\ r.chan = NULL /\ r.ret = NULL
    BY DEF ProcSet
  <2> HIDE DEF r
  <2>3. Target(r) = n /\ Target(r) # NULL BY <1>0, <2>2 DEF Target
  <2>4. Getting(r) BY <2>2, <2>3 DEF Getting
  <2> QED BY <2>1, <2>2, <2>3, <2>4, CallEnds
<1>4. ASSUME NEW n \in Block, NEW m \in Block,
             Continue(State, p, [Idle EXCEPT !.pc = IF Lookup(State, n) = NULL THEN "getblk" ELSE "ahead",
                                                !.blk = n, !.ra = m, !.then = "first"])
      PROVE  Inv(State', cpu', disk')
  <2> DEFINE c == IF Lookup(State, n) = NULL THEN "getblk" ELSE "ahead"
             r == [Idle EXCEPT !.pc = c, !.blk = n, !.ra = m, !.then = "first"]
  <2>1. cpu' = p /\ Become(With(State, p, r)) BY <1>4 DEF Continue
  <2>2. c \in {"getblk", "ahead"} OBVIOUS
  <2> HIDE DEF c
  <2>3. /\ r \in ProcSet /\ r.pc \in {"getblk", "ahead"} /\ r.blk = n /\ r.ra = m /\ r.then = "first" /\ r.bp = NULL
        /\ r.savebp = NULL /\ r.chan = NULL /\ r.ret = NULL
    BY <2>2 DEF ProcSet
  <2> HIDE DEF r
  <2>4. Target(r) = n /\ Target(r) # NULL BY <1>0, <2>3 DEF Target
  <2>5. Getting(r) BY <2>3, <2>4 DEF Getting
  <2> QED BY <2>1, <2>3, <2>4, <2>5, CallEnds
<1>5. ASSUME Continue(State, p, [Idle EXCEPT !.pc = "getfreeblk", !.then = "own"])
      PROVE  Inv(State', cpu', disk')
  <2> DEFINE r == [Idle EXCEPT !.pc = "getfreeblk", !.then = "own"]
  <2>1. cpu' = p /\ Become(With(State, p, r)) BY <1>5 DEF Continue
  <2>2. /\ r \in ProcSet /\ r.pc = "getfreeblk" /\ r.blk = NULL /\ r.then = "own" /\ r.bp = NULL /\ r.savebp = NULL
        /\ r.chan = NULL /\ r.ret = NULL
    BY DEF ProcSet
  <2> HIDE DEF r
  <2>3. Target(r) = NULL BY <2>2 DEF Target
  <2>4. Getting(r) BY <2>2, <2>3 DEF Getting
  <2> QED BY <2>1, <2>2, <2>3, <2>4, CallEnds
<1>6. ASSUME NEW n \in Block, Continue(State, p, [Idle EXCEPT !.pc = "blkflush", !.blk = n])
      PROVE  Inv(State', cpu', disk')
  <2> DEFINE r == [Idle EXCEPT !.pc = "blkflush", !.blk = n]
  <2>1. cpu' = p /\ Become(With(State, p, r)) BY <1>6 DEF Continue
  <2>2. /\ r \in ProcSet /\ r.pc = "blkflush" /\ r.blk = n /\ r.bp = NULL /\ r.savebp = NULL
        /\ r.chan = NULL /\ r.ret = NULL
    BY DEF ProcSet
  <2> HIDE DEF r
  <2> QED BY <2>1, <2>2, CallEnds
<1>7. ASSUME NEW c \in {"bflush", "bdwait"}, Goto(State, p, c)
      PROVE  Inv(State', cpu', disk')
  <2> DEFINE r == [Idle EXCEPT !.pc = c]
  <2>1. cpu' = p /\ Become(With(State, p, r)) BY <1>2, <1>7 DEF Goto, Continue
  <2>2. /\ r \in ProcSet /\ r.pc = c /\ r.then = NULL /\ r.bp = NULL /\ r.savebp = NULL
        /\ r.chan = NULL /\ r.ret = NULL
    BY DEF ProcSet
  <2> HIDE DEF r
  <2> QED BY <2>1, <2>2, CallEnds
<1>8. ASSUME \A q \in Proc : proc[q].pc = "idle", Continue(State, p, [Idle EXCEPT !.pc = "bflush", !.then = "close"])
      PROVE  Inv(State', cpu', disk')
  <2> DEFINE r == [Idle EXCEPT !.pc = "bflush", !.then = "close"]
  <2>1. cpu' = p /\ Become(With(State, p, r)) BY <1>8 DEF Continue
  <2>2. /\ r \in ProcSet /\ r.pc = "bflush" /\ r.then = "close" /\ r.bp = NULL /\ r.savebp = NULL
        /\ r.chan = NULL /\ r.ret = NULL
    BY DEF ProcSet
  <2> HIDE DEF r
  <2> QED BY <1>8, <2>1, <2>2, CallEnds
<1> QED BY <1>3, <1>4, <1>5, <1>6, <1>7, <1>8, ZenonT(60) DEF Call

(* No buffer gets a block, or becomes valid again. *)
NoNew(t, s) ==
    \A b \in Buf : t.buf[b].blk # NULL /\ "B_STALE" \notin t.buf[b].flags
                   => s.buf[b].blk = t.buf[b].blk /\ "B_STALE" \notin s.buf[b].flags

(* Then who looks for a free buffer still looks for good reason. *)
LEMMA SearchesKept ==
    ASSUME NEW s, NEW t, NEW q \in Proc, Struct(s, NULL, {}), Wakes(t, s), NoNew(t, s), Searches(s, s.proc[q])
    PROVE  Searches(t, t.proc[q])
<1>0. NULL \notin Proc /\ NULL \notin Buf BY ConstantsAssumption
<1>1. CASE t.proc[q] = s.proc[q] BY <1>1 DEF Searches, NoNew
<1>2. CASE s.proc[q].pc = "asleep" /\ t.proc[q] = Woken(s.proc[q], s.proc[q].chan)
  <2> DEFINE x == s.proc[q]
             y == Woken(x, x.chan)
  <2>1. ProcOK(s, x) /\ x \in ProcSet BY <1>0, ProcTyped DEF Struct
  <2>2. Shape(x) BY <2>1 DEF ProcOK
  <2>3. x.ret # NULL BY <1>2, <2>1, <2>2, SleeperRet
  <2>4. y.pc = x.ret BY <1>2, <2>1, <2>3, WokenSet
  <2>5. s.buf = s.buf /\ SameLists(s, s) BY DEF SameLists
  <2>6. At(y) = At(x) /\ Target(y) = Target(x) BY <1>2, <2>1, <2>5, WokenOK
  <2>7. x.ret = "getfreeblk" => Target(x) = NULL BY <1>0, <1>2, <2>2 DEF Shape, Again
  <2>8. x.ret # "alloc" BY <2>1, <2>3 DEF ProcSet
  <2> QED BY <1>2, <2>4, <2>6, <2>7, <2>8 DEF Searches
<1> QED BY <1>1, <1>2 DEF Wakes

(* An interrupt, or a step of the flush daemon. *)
LEMMA Interrupted ==
    ASSUME Inv(State, cpu, disk), cpu \in Proc \cup {NULL}, NEW t, Wakes(t, State),
           Base(t, NULL, {}, InBawrite(State, cpu), 0, disk', NULL), Become(t), cpu' = cpu, NoNew(t, State)
    PROVE  Inv(State', cpu', disk')
<1>1. Struct(t, NULL, {}) /\ Counts(t, InBawrite(State, cpu)) /\ Charged(t, 0) /\ (Sure => Data(t, disk', NULL))
  BY DEF Base
<1>2. Struct(State, NULL, {}) /\ CpuOK(State, cpu) BY DEF Inv
<1>3. State' = t BY <1>1, Becomes DEF Struct
<1>4. CpuOK(t, cpu) BY <1>2, CpuKept
<1>5. InBawrite(t, cpu) = InBawrite(State, cpu)
  <2>1. CASE cpu = NULL BY <2>1 DEF InBawrite
  <2>2. CASE cpu \in Proc /\ cpu # NULL
    <3>1. CASE t.proc[cpu] = State.proc[cpu] BY <3>1 DEF InBawrite
    <3>2. CASE State.proc[cpu].pc = "asleep" /\ t.proc[cpu] = Woken(State.proc[cpu], State.proc[cpu].chan)
      <4>1. ProcOK(State, State.proc[cpu]) /\ State.proc[cpu] \in ProcSet BY <1>2, <2>2, ProcTyped DEF Struct
      <4>2. t.proc[cpu].pc # "bawrite" BY <3>2, <4>1, WokenOff
      <4> QED BY <3>2, <4>2 DEF InBawrite
    <3> QED BY <2>2, <3>1, <3>2 DEF Wakes
  <2> QED BY <2>1, <2>2
<1>6. Sure => \A q \in Proc : Searches(t, t.proc[q])
  <2> SUFFICES ASSUME Sure, NEW q \in Proc PROVE Searches(t, t.proc[q]) OBVIOUS
  <2>1. Searches(State, State.proc[q]) BY DEF Inv
  <2> QED BY <1>2, <2>1, SearchesKept
<1>7. Inv(t, cpu, disk') BY <1>1, <1>4, <1>5, <1>6 DEF Inv
<1> QED BY <1>3, <1>7

(* What an interrupt may count on. *)
LEMMA Interrupting ==
    ASSUME Inv(State, cpu, disk)
    PROVE  Base(State, NULL, {}, InBawrite(State, cpu), 0, disk, NULL) /\ Wakes(State, State) /\ State \in StateSet
BY DEF Inv, Base, Wakes, Struct

(* kmem_free() wakes a process. *)
LEMMA KmemWakeupInv ==
    ASSUME NEW p \in Proc, Inv(State, cpu, disk), cpu \in Proc \cup {NULL}, KmemWakeup(p)
    PROVE  Inv(State', cpu', disk')
<1> DEFINE x == proc[p]
           r == Woken(x, "kmem")
           t == With(State, p, r)
           k == InBawrite(State, cpu)
<1>1. x.pc = "asleep" /\ x.chan = "kmem" /\ cpu' = cpu /\ disk' = disk /\ Become(t) BY DEF KmemWakeup
<1>2. Base(State, NULL, {}, k, 0, disk', NULL) /\ State \in StateSet BY <1>1, Interrupting
<1>3. Struct(State, NULL, {}) /\ State.proc = proc /\ State.buf = buf BY <1>2, StateFields DEF Base
<1>4. ProcOK(State, x) /\ x \in ProcSet BY <1>2, <1>3, ProcTyped, ConstantsAssumption DEF Struct
<1>5. x.ret # NULL BY <1>1, <1>4, SleeperRet DEF ProcOK
<1>6. r \in ProcSet /\ r.pc # "asleep"
  <2>1. r \in ProcSet /\ r.pc = x.ret /\ x.ret \in {"getblk", "getfreeblk", "zalloc", "biowait", "blkflush", "bdwait"}
    BY <1>1, <1>4, <1>5, WokenSet
  <2> QED BY <2>1
<1> HIDE DEF r, k
<1>7. /\ t \in StateSet /\ t.buf = State.buf /\ SameLists(t, State) /\ SameCounts(t, State) /\ t.proc[p] = r
      /\ \A q \in Proc \ {p} : t.proc[q] = State.proc[q]
  BY <1>2, <1>6, WithF
<1> HIDE DEF t
<1>8. Wakes(t, State) BY <1>1, <1>3, <1>7 DEF Wakes, r
<1>9. \A q \in Proc \ {NULL} : t.proc[q].pc = "asleep" /\ t.proc[q].chan \in {"bfreelist", "bhdrlist"}
                              => t.proc[q].chan \in t.wanted
  <2> SUFFICES ASSUME NEW q \in Proc, t.proc[q].pc = "asleep", t.proc[q].chan \in {"bfreelist", "bhdrlist"}, q # NULL
               PROVE  t.proc[q].chan \in t.wanted
    OBVIOUS
  <2>1. q # p /\ t.proc[q] = State.proc[q] BY <1>6, <1>7
  <2>2. SleepOK(State, State.proc[q]) BY <1>3 DEF Struct, ProcOK
  <2>3. t.wanted = State.wanted BY <1>7 DEF SameCounts
  <2> QED BY <2>1, <2>2, <2>3 DEF SleepOK
<1>10. Struct(t, NULL, {}) BY <1>3, <1>7, <1>8, <1>9, WakesStruct
<1>11. Quiet(t, State) BY <1>7 DEF Quiet, SameLists, SameCounts
<1>12. \A c \in Buf : Blind(t, State, c) BY <1>7 DEF Blind, SameData
<1>13. Base(t, NULL, {}, k, 0, disk', NULL) BY <1>2, <1>8, <1>10, <1>11, <1>12, BaseKept
<1>14. NoNew(t, State) BY <1>7 DEF NoNew
<1> QED BY <1>1, <1>8, <1>13, <1>14, Interrupted DEF k

(* The flush daemon writes a buffer. *)
LEMMA FsflushInv ==
    ASSUME Inv(State, cpu, disk), cpu \in Proc \cup {NULL}, Fsflush
    PROVE  Inv(State', cpu', disk')
<1>1. cpu = NULL /\ cpu' = cpu /\ disk' = disk BY DEF Fsflush
<1>2. PICK b \in ToSet(bfreelist) : Dirty(b) /\ Become(WriteBehind(Notavail(State, b), b)) BY DEF Fsflush
<1> DEFINE t == WriteBehind(Notavail(State, b), b)
<1>3. InBawrite(State, cpu) = 0 BY <1>1 DEF InBawrite
<1>4. Base(State, NULL, {}, 0, 0, disk', NULL) BY <1>1, <1>3, Interrupting
<1>5. b \in Free(State) /\ "B_DELWRI" \in State.buf[b].flags BY <1>2, StateFields DEF Free, Dirty
<1>6. /\ Base(t, NULL, {}, 0, 0, disk', NULL) /\ t.proc = State.proc
      /\ (\A c \in Buf : t.buf[c].blk = State.buf[c].blk)
      /\ (\A c \in Buf \ {b} : t.buf[c] = State.buf[c]) /\ "B_STALE" \notin State.buf[b].flags
  BY <1>4, <1>5, FlushOne
<1>7. Become(t) BY <1>2
<1> HIDE DEF t
<1>8. Wakes(t, State) BY <1>6, KeptWakes
<1>9. NoNew(t, State) BY <1>6 DEF NoNew
<1>10. Base(t, NULL, {}, InBawrite(State, cpu), 0, disk', NULL) BY <1>3, <1>6
<1> QED BY <1>1, <1>7, <1>8, <1>9, <1>10, Interrupted

(* The first clean one. *)
LEMMA FirstClean ==
    ASSUME bfreelist \in Seq(Buf)
    PROVE  LET i == SelectInSeq(bfreelist, LAMBDA b : ~Dirty(b))
           IN  i # 0 => bfreelist[i] \in Free(State) /\ "B_DELWRI" \notin buf[bfreelist[i]].flags
<1> DEFINE I == {j \in 1 .. Len(bfreelist) : ~Dirty(bfreelist[j])}
           i == SelectInSeq(bfreelist, LAMBDA b : ~Dirty(b))
<1>1. i = IF I # {} THEN Min(I) ELSE 0 BY DEF SelectInSeq
<1>2. Len(bfreelist) \in Nat /\ I \in SUBSET Nat OBVIOUS
<1>3. I # {} => Min(I) \in I
  <2> SUFFICES ASSUME I # {} PROVE Min(I) \in I OBVIOUS
  <2>1. PICK j : j \in I OBVIOUS
  <2> HIDE DEF I
  <2> QED BY <1>2, <2>1, LeastMember
<1>4. Free(State) = ToSet(bfreelist) BY StateFields DEF Free
<1>5. \A b : b \in Free(State) <=> \E j \in 1 .. Len(bfreelist) : bfreelist[j] = b BY <1>4, MemberIff
<1>6. CASE I # {}
  <2>1. i \in I BY <1>1, <1>3, <1>6
  <2>2. i \in 1 .. Len(bfreelist) /\ ~Dirty(bfreelist[i]) BY <2>1
  <2> HIDE DEF i
  <2> QED BY <1>2, <1>5, <2>2 DEF Dirty, i
<1>7. CASE I = {} BY <1>1, <1>7
<1> QED BY <1>6, <1>7

(* The flush daemon frees a header. *)
LEMMA FsflushHeaderInv ==
    ASSUME Inv(State, cpu, disk), cpu \in Proc \cup {NULL}, FsflushHeader
    PROVE  Inv(State', cpu', disk')
<1> DEFINE i == SelectInSeq(bfreelist, LAMBDA b : ~Dirty(b))
           b == bfreelist[i]
           u == Notavail(State, b)
           t == FreeHeader(u, b)
<1>1. cpu = NULL /\ cpu' = cpu /\ disk' = disk BY DEF FsflushHeader
<1>2. i # 0 /\ Become(t) BY DEF FsflushHeader
<1>3. InBawrite(State, cpu) = 0 BY <1>1 DEF InBawrite
<1>4. PICK m : m = 0 OBVIOUS
<1>5. m \in Int /\ Base(State, NULL, {}, 0, m, disk', NULL) BY <1>1, <1>3, <1>4, Interrupting
<1>6. State.bfreelist = bfreelist /\ State.buf = buf /\ bfreelist \in Seq(Buf)
  <2>1. State \in StateSet BY Interrupting
  <2> QED BY <2>1, StateTyped, StateFields
<1>7. b \in Free(State) /\ "B_DELWRI" \notin State.buf[b].flags BY <1>2, <1>6, FirstClean
<1> HIDE DEF b, i
<1>8. /\ Base(u, NULL, {} \cup {b}, 0, m, disk', NULL) /\ u.proc = State.proc /\ b \in Buf /\ u.ioq = State.ioq
      /\ OnlyFlags(u, State, b, State.buf[b].flags \cup {"B_BUSY"}) /\ b \notin Io(State)
      /\ "B_WANTED" \notin State.buf[b].flags
  BY <1>5, <1>7, BaseNotavail
<1> HIDE DEF u
<1>9. u.buf[b].flags = State.buf[b].flags \cup {"B_BUSY"} /\ \A c \in Buf \ {b} : u.buf[c] = State.buf[c]
  BY <1>8 DEF OnlyFlags
<1>10. "B_WANTED" \notin u.buf[b].flags /\ "B_DELWRI" \notin u.buf[b].flags /\ b \notin Io(u) BY <1>7, <1>8, <1>9 DEF Io
<1>11. {} \cup {b} = {b} /\ b \in {b} OBVIOUS
<1>12. Base(u, NULL, {b}, 0, m, disk', NULL) BY <1>8, <1>11
<1>13. /\ Base(t, NULL, {b} \ {b}, 0, m, disk', NULL) /\ Wakes(t, u) /\ Elsewhere(t, u, b) /\ t.buf[b] = NewBuf
  BY <1>5, <1>10, <1>11, <1>12, BaseFree
<1> HIDE DEF t
<1>14. {b} \ {b} = {} OBVIOUS
<1>15. Base(t, NULL, {}, InBawrite(State, cpu), 0, disk', NULL) BY <1>3, <1>4, <1>13, <1>14
<1>16. Wakes(t, State) BY <1>8, <1>13 DEF Wakes
<1>17. NoNew(t, State)
  <2>1. \A c \in Buf \ {b} : t.buf[c] = State.buf[c] BY <1>9, <1>13 DEF Elsewhere
  <2>2. t.buf[b].blk = NULL BY <1>13, NewBufSet
  <2> QED BY <2>1, <2>2 DEF NoNew
<1> QED BY <1>1, <1>2, <1>15, <1>16, <1>17, Interrupted

(* The end of a transfer: the contents. *)
LEMMA EndedData ==
    ASSUME NEW b \in Buf, NEW error \in BOOLEAN, Inv(State, cpu, disk), disk \in [Block -> BOOLEAN], Biodone(b, error)
    PROVE  /\ b \in Io(State) /\ buf[b].blk \in Block
           /\ Completes(Ended(b, error), State, b, DoneFlags(buf[b].flags, error))
           /\ (Sure => Data(Ended(b, error), disk', NULL)) /\ disk' \in [Block -> BOOLEAN]
<1> DEFINE e == Ended(b, error)
           n == buf[b].blk
<1>0. NULL \notin Block BY ConstantsAssumption
<1>1. State.buf = buf /\ State.ioq = ioq BY StateFields
<1>2. Struct(State, NULL, {}) /\ State \in StateSet /\ (Sure => Data(State, disk, NULL)) BY DEF Inv, Struct
<1>3. ioq \in Seq(Buf) BY <1>1, <1>2, StateTyped
<1>4. PICK i \in DOMAIN ioq : ioq[i] = b /\ \A j \in 1 .. i - 1 : buf[ioq[j]].blk # buf[b].blk
  BY DEF Biodone, First
<1>5. i \in 1 .. Len(ioq) BY <1>3, <1>4
<1>6. b \in Io(State) BY <1>1, <1>3, <1>4, <1>5, MemberIff DEF Io
<1>7. FirstIn(State, b) BY <1>1, <1>4, <1>5 DEF FirstIn
<1>8. BufOK(State, {}, b) BY <1>2 DEF Struct
<1>9. n # NULL BY <1>1, <1>6, <1>8 DEF BufOK
<1>10. n \in Block /\ buf[b].cur \in BOOLEAN BY <1>1, <1>2, <1>9, BufTyped
<1>11. /\ Completes(e, State, b, DoneFlags(buf[b].flags, error))
       /\ e.buf[b].cur = IF "B_READ" \in buf[b].flags THEN disk[n] /\ ~error ELSE buf[b].cur
  BY <1>2, <1>10, EndedF
<1>12. Completes(e, State, b, DoneFlags(State.buf[b].flags, error)) BY <1>1, <1>11
<1> HIDE DEF e
<1>13. CASE "B_READ" \in buf[b].flags
  <2>1. disk' = disk BY <1>13 DEF Biodone
  <2>2. e.buf[b].cur <=> disk[State.buf[b].blk] /\ ~error BY <1>1, <1>11, <1>13
  <2>3. Sure => Data(e, disk, NULL) BY <1>1, <1>2, <1>6, <1>7, <1>12, <1>13, <2>2, DoneRead
  <2> QED BY <1>6, <1>10, <1>11, <2>1, <2>3 DEF e
<1>14. CASE "B_READ" \notin buf[b].flags
  <2>1. disk' = [disk EXCEPT ![n] = buf[b].cur \/ (error /\ @)] BY <1>14 DEF Biodone
  <2>2. disk' \in [Block -> BOOLEAN] BY <1>10, <2>1
  <2>3. \A v \in Block : v # State.buf[b].blk => (disk'[v] <=> disk[v]) BY <1>1, <2>1
  <2>4. disk'[State.buf[b].blk] <=> State.buf[b].cur \/ (error /\ disk[State.buf[b].blk]) BY <1>1, <1>10, <2>1
  <2>5. e.buf[b].cur = State.buf[b].cur BY <1>1, <1>11, <1>14
  <2>6. "B_READ" \notin State.buf[b].flags BY <1>1, <1>14
  <2>7. Sure => Data(e, disk', NULL)
    BY <1>2, <1>6, <1>7, <1>12, <2>3, <2>4, <2>5, <2>6, DoneWrite
  <2> QED BY <1>6, <1>10, <1>11, <2>2, <2>7 DEF e
<1> QED BY <1>13, <1>14

(* The contents are the same if the requests and the headers are. *)
LEMMA DataSame ==
    ASSUME NEW s \in StateSet, NEW t, NEW d, Data(s, d, NULL), t.ioq = s.ioq, t.buf = s.buf
    PROVE  Data(t, d, NULL)
<1>1. \A c \in Buf : SameData(t, s, c) BY DEF SameData
<1>2. \A c \in Io(s) : "B_STALE" \in t.buf[c].flags <=> "B_STALE" \in s.buf[c].flags OBVIOUS
<1> QED BY <1>1, <1>2, DataKept

(* A write behind is counted off. *)
LEMMA CountOffCounted ==
    ASSUME NEW s, NEW e, NEW b \in Buf, NEW fl, NEW k \in Int, Struct(s, NULL, {}), Counted(s, k), Async(s, b),
           Completes(e, s, b, fl), "B_READ" \in fl <=> "B_READ" \in s.buf[b].flags, Struct(e, NULL, {b})
    PROVE  /\ Counted(CountOff(e, b), k) /\ CountOff(e, b).basyncnt \in {s.basyncnt, s.basyncnt - 1}
           /\ Struct(CountOff(e, b), NULL, {b}) /\ CountOff(e, b).buf = e.buf /\ SameLists(CountOff(e, b), e)
           /\ CountOff(e, b).proc = s.proc /\ CountOff(e, b).bufsize = s.bufsize
           /\ CountOff(e, b).basynwait = s.basynwait
<1>1. s \in StateSet /\ e \in StateSet /\ Lonely(s) BY DEF Struct
<1>2. /\ e.buf[b].flags = fl /\ \A c \in Buf \ {b} : e.buf[c] = s.buf[c]
  BY DEF Completes
<1>3. /\ e.proc = s.proc /\ e.bufsize = s.bufsize /\ e.basynwait = s.basynwait /\ e.basyncnt = s.basyncnt
  BY DEF Completes, Kept, SameCounts
<1>4. Io(e) = Io(s) \ {b} BY <1>1, CompletesF
<1>5. s.basyncnt \in Int /\ e.basyncnt \in Int BY <1>1, StateTyped
<1>6. CASE "B_READ" \in fl
  <2>1. CountOff(e, b) = e BY <1>2, <1>6 DEF CountOff
  <2>2. Behind(e) = Behind(s) BY <1>2, <1>4, <1>6 DEF Behind
  <2>3. Counted(e, k) BY <1>3, <2>2 DEF Counted
  <2> QED BY <1>3, <1>5, <2>1, <2>3 DEF SameLists
<1>7. CASE "B_READ" \notin fl
  <2> DEFINE d == -1
             u == CountUp(e, d)
  <2>1. CountOff(e, b) = [e EXCEPT !.basyncnt = @ - 1] BY <1>2, <1>7 DEF CountOff
  <2>2. e.basyncnt - 1 = e.basyncnt + d BY <1>5
  <2>3. CountOff(e, b) = u BY <2>1, <2>2 DEF CountUp
  <2>4. b \in Behind(s) BY <1>7 DEF Behind, Async
  <2>5. Counted(e, k - 1) BY <1>1, <2>4, CountedEnded
  <2>6. d \in Int OBVIOUS
  <2>7. PICK z \in Int : z = d BY <2>6
  <2>8. /\ Struct(CountUp(e, z), NULL, {b}) /\ CountUp(e, z).buf = e.buf /\ SameLists(CountUp(e, z), e)
        /\ CountUp(e, z).proc = e.proc /\ CountUp(e, z).bufsize = e.bufsize /\ CountUp(e, z).basynwait = e.basynwait
        /\ CountUp(e, z).basyncnt = e.basyncnt + z
    BY CountUpStruct
  <2>9. CountUp(e, z) = CountOff(e, b) BY <2>3, <2>7
  <2> HIDE DEF u, d
  <2>10. Behind(CountOff(e, b)) = Behind(e) BY <2>8, <2>9, BehindIs
  <2>11. CountOff(e, b).basyncnt = e.basyncnt - 1 BY <1>5, <2>7, <2>8, <2>9 DEF d
  <2>12. Counted(CountOff(e, b), k) BY <1>5, <2>5, <2>10, <2>11 DEF Counted
  <2> QED BY <1>3, <2>8, <2>9, <2>11, <2>12
<1> QED BY <1>6, <1>7

(* biodone(), for a process that waits or for nobody. *)
LEMMA BiodoneInv ==
    ASSUME NEW b \in Buf, NEW error \in BOOLEAN, Inv(State, cpu, disk), disk \in [Block -> BOOLEAN],
           cpu \in Proc \cup {NULL}, Biodone(b, error)
    PROVE  Inv(State', cpu', disk')
<1> DEFINE e == Ended(b, error)
           fl == DoneFlags(buf[b].flags, error)
           k == InBawrite(State, cpu)
<1>0. k \in Int BY DEF InBawrite
<1>1. /\ b \in Io(State) /\ buf[b].blk \in Block /\ Completes(e, State, b, fl) /\ (Sure => Data(e, disk', NULL))
  BY EndedData
<1>2. cpu' = cpu /\ Become(Finish(e, b)) BY DEF Biodone
<1>3. /\ Struct(State, NULL, {}) /\ State \in StateSet /\ Counts(State, k) /\ Charged(State, 0) /\ Lonely(State)
  BY DEF Inv, Struct
<1>4. State.buf = buf BY StateFields
<1>5. /\ "B_DONE" \in fl /\ fl \ {"B_DONE", "B_ERROR"} = State.buf[b].flags \ {"B_DONE", "B_ERROR"}
      /\ \A f \in {"B_READ", "B_ASYNC", "B_STALE"} : f \in fl <=> f \in buf[b].flags
  BY <1>4 DEF DoneFlags
<1>6. /\ e \in StateSet /\ e.buf[b].flags = fl /\ e.buf[b].blk = State.buf[b].blk /\ e.buf[b].size = State.buf[b].size
      /\ \A c \in Buf \ {b} : e.buf[c] = State.buf[c]
      /\ Kept(e, State)
  BY <1>1 DEF Completes
<1>7. Io(e) = Io(State) \ {b} BY <1>1, <1>3, CompletesF
<1>8. e.proc = State.proc /\ e.bufsize = State.bufsize BY <1>6 DEF Kept, SameCounts
<1> HIDE DEF e, fl, k
<1>9. CASE "B_ASYNC" \in buf[b].flags
  <2> DEFINE u == CountOff(e, b)
             w == WakeSync(u)
             t == Brelse(w, b)
  <2>1. Become(t) BY <1>2, <1>5, <1>6, <1>9 DEF Finish
  <2>2. Async(State, b) BY <1>1, <1>4, <1>9 DEF Async
  <2>3. Struct(e, NULL, {b}) BY <1>1, <1>3, <1>5, <2>2, CompletesAsync
  <2>4. Counted(State, k) /\ Waits(State) BY <1>3, CountsIs
  <2>5. "B_READ" \in fl <=> "B_READ" \in State.buf[b].flags BY <1>4, <1>5
  <2>6. /\ Counted(u, k) /\ u.basyncnt \in {State.basyncnt, State.basyncnt - 1}
        /\ Struct(u, NULL, {b}) /\ u.buf = e.buf /\ SameLists(u, e)
        /\ u.proc = State.proc /\ u.bufsize = State.bufsize /\ u.basynwait = State.basynwait
    BY <1>0, <1>1, <1>3, <2>2, <2>3, <2>4, <2>5, CountOffCounted
  <2> HIDE DEF u
  <2>7. Counts(w, k) BY <1>3, <2>4, <2>6, WakeSyncCounts
  <2>8. /\ Struct(w, NULL, {b}) /\ w.buf = u.buf /\ SameLists(w, u) /\ w.bufsize = u.bufsize /\ Wakes(w, u)
    BY <2>6, WakeSyncStruct
  <2> HIDE DEF w
  <2>9. w.buf = e.buf /\ w.ioq = e.ioq /\ w.bufsize = State.bufsize BY <2>6, <2>8 DEF SameLists
  <2>10. \A c \in Buf : w.buf[c].size = State.buf[c].size BY <1>6, <2>9
  <2>11. Charged(w, 0)
    <3>1. PICK m : m = 0 OBVIOUS
    <3>2. Charged(State, m) BY <1>3, <3>1
    <3>3. Charged(w, m) BY <2>9, <2>10, <3>2, ChargedSame
    <3> QED BY <3>1, <3>3
  <2>12. Sure => Data(w, disk', NULL) BY <1>1, <1>6, <2>9, DataSame
  <2>13. Base(w, NULL, {b}, k, 0, disk', NULL) BY <2>7, <2>8, <2>11, <2>12 DEF Base
  <2>14. b \in {b} /\ b \notin Io(w) BY <1>7, <2>9 DEF Io
  <2>15. /\ Base(t, NULL, {b} \ {b}, k, 0, disk', NULL) /\ Wakes(t, w)
         /\ OnlyFlags(t, w, b, Released(w.buf[b].flags))
    BY <2>13, <2>14, BaseBrelse
  <2> HIDE DEF t
  <2>16. {b} \ {b} = {} OBVIOUS
  <2>17. Base(t, NULL, {}, k, 0, disk', NULL) BY <2>15, <2>16
  <2>18. Wakes(w, State) BY <2>6, <2>8 DEF Wakes
  <2>19. Wakes(t, State) BY <1>3, <2>15, <2>18, WakesTwice
  <2>20. NoNew(t, State)
    <3>1. \A c \in Buf \ {b} : t.buf[c] = State.buf[c] BY <1>6, <2>9, <2>15 DEF OnlyFlags
    <3>2. t.buf[b].blk = State.buf[b].blk /\ t.buf[b].flags = Released(fl) BY <1>6, <2>9, <2>15 DEF OnlyFlags
    <3>3. "B_STALE" \in State.buf[b].flags => "B_STALE" \in t.buf[b].flags BY <1>4, <1>5, <3>2 DEF Released
    <3> QED BY <3>1, <3>2, <3>3 DEF NoNew
  <2> QED BY <1>2, <2>1, <2>17, <2>19, <2>20, Interrupted DEF k
<1>10. CASE "B_ASYNC" \notin buf[b].flags
  <2> DEFINE c == Clear(e, b, {"B_WANTED"})
             t == Wakeup(c, b)
  <2>1. Become(t) BY <1>2, <1>5, <1>6, <1>10 DEF Finish
  <2>2. ~Async(State, b) BY <1>4, <1>10 DEF Async
  <2>3. /\ Struct(t, NULL, {}) /\ Completes(c, State, b, fl \ {"B_WANTED"}) /\ c.buf[b].cur = e.buf[b].cur
        /\ t.buf = c.buf /\ SameLists(t, c) /\ SameCounts(t, c) /\ Wakes(t, State)
    <3>1. PICK s : s = State OBVIOUS
    <3>2. /\ Struct(s, NULL, {}) /\ b \in Io(s) /\ ~Async(s, b) /\ Completes(e, s, b, fl) /\ "B_DONE" \in fl
          /\ fl \ {"B_DONE", "B_ERROR"} = s.buf[b].flags \ {"B_DONE", "B_ERROR"}
      BY <1>1, <1>3, <1>5, <2>2, <3>1
    <3>3. /\ Struct(t, NULL, {}) /\ Completes(c, s, b, fl \ {"B_WANTED"}) /\ c.buf[b].cur = e.buf[b].cur
          /\ t.buf = c.buf /\ SameLists(t, c) /\ SameCounts(t, c) /\ Wakes(t, s)
      BY <3>2, CompletesHeld
    <3> HIDE DEF t, c
    <3> QED BY <3>1, <3>3
  <2> HIDE DEF t, c
  <2>4. /\ t.buf[b].flags = fl \ {"B_WANTED"} /\ t.buf[b].blk = State.buf[b].blk /\ t.buf[b].size = State.buf[b].size
        /\ (\A v \in Buf \ {b} : t.buf[v] = State.buf[v]) /\ t.buf[b].cur = e.buf[b].cur
    BY <2>3 DEF Completes
  <2>5. /\ t.ioq = RemoveFirst(State.ioq, b) /\ t.basyncnt = State.basyncnt /\ t.basynwait = State.basynwait
        /\ t.bufsize = State.bufsize
    BY <2>3 DEF Completes, SameLists, SameCounts, Kept
  <2>6. t.ioq = e.ioq BY <1>1, <2>5 DEF Completes
  <2>7. Io(t) = Io(State) \ {b} BY <1>7, <2>6 DEF Io
  <2>8. \A v \in Buf : (v \in Io(t) /\ "B_ASYNC" \in t.buf[v].flags /\ "B_READ" \notin t.buf[v].flags)
                 <=> (v \in Io(State) /\ "B_ASYNC" \in State.buf[v].flags /\ "B_READ" \notin State.buf[v].flags)
    BY <1>4, <1>10, <2>4, <2>7
  <2>9. Counts(t, k) BY <1>3, <2>3, <2>5, <2>8, CountsSame
  <2>10. Charged(t, 0)
    <3>1. PICK m : m = 0 OBVIOUS
    <3>2. Charged(State, m) BY <1>3, <3>1
    <3>3. \A v \in Buf : t.buf[v].size = State.buf[v].size BY <2>4
    <3>4. Charged(t, m) BY <2>5, <3>2, <3>3, ChargedSame
    <3> QED BY <3>1, <3>4
  <2>11. Sure => Data(t, disk', NULL)
    <3>1. \A v \in Buf : SameData(t, e, v)
      <4>1. \A v \in Buf \ {b} : SameData(t, e, v) BY <1>6, <2>4 DEF SameData
      <4>2. SameData(t, e, b) BY <1>6, <2>4 DEF SameData
      <4> QED BY <4>1, <4>2
    <3>2. \A v \in Io(e) : "B_STALE" \in t.buf[v].flags <=> "B_STALE" \in e.buf[v].flags
      <4>1. Io(e) \subseteq Buf BY <1>6, IoMember
      <4>2. \A v \in Buf \ {b} : t.buf[v] = e.buf[v] BY <1>6, <2>4
      <4>3. "B_STALE" \in t.buf[b].flags <=> "B_STALE" \in e.buf[b].flags BY <1>6, <2>4
      <4> QED BY <4>1, <4>2, <4>3
    <3> QED BY <1>1, <1>6, <2>6, <3>1, <3>2, DataKept
  <2>12. Base(t, NULL, {}, k, 0, disk', NULL) BY <2>3, <2>9, <2>10, <2>11 DEF Base
  <2>13. NoNew(t, State) BY <1>4, <1>5, <2>4 DEF NoNew
  <2> QED BY <1>2, <2>1, <2>3, <2>12, <2>13, Interrupted DEF k
<1> QED BY <1>9, <1>10

(* The inductive invariant. *)
IInv == Inv(State, cpu, disk) /\ disk \in [Block -> BOOLEAN] /\ cpu \in Proc \cup {NULL}

(* binit() leaves a state of the invariant. *)
LEMMA InitInv == Init => IInv
<1> SUFFICES ASSUME Init PROVE IInv OBVIOUS
<1>0. NULL \notin Buf /\ NULL \notin Block /\ NULL \notin Proc /\ BUFHWM \in Nat BY ConstantsAssumption
<1>1. /\ State.buf = buf /\ State.bfreelist = bfreelist /\ State.bhdrlist = bhdrlist /\ State.bufsize = bufsize
      /\ State.wanted = wanted /\ State.basyncnt = basyncnt /\ State.basynwait = basynwait /\ State.ioq = ioq
      /\ State.proc = proc
  BY StateFields
<1>2. /\ (\A b \in Buf : buf[b] = NewBuf) /\ bfreelist = << >> /\ bhdrlist = hdrList /\ bufsize = BUFHWM /\ wanted = {}
      /\ basyncnt = 0 /\ basynwait = FALSE /\ ioq = << >> /\ (\A p \in Proc : proc[p] = Idle) /\ cpu = NULL
      /\ (\A n \in Block : disk[n] = TRUE) /\ disk \in [Block -> BOOLEAN]
  BY DEF Init, hdrList
<1>3. State \in StateSet
  <2>1. buf \in [Buf -> BufSet] BY NewBufSet DEF Init
  <2>2. proc \in [Proc -> ProcSet] BY IdleIs DEF Init
  <2>3. bfreelist \in Seq(Buf) /\ ioq \in Seq(Buf) /\ bhdrlist \in Seq(Buf) BY <1>2, HeaderSeq
  <2>4. bufsize \in Int /\ basyncnt \in Int /\ wanted \in SUBSET {"bfreelist", "bhdrlist"} BY <1>0, <1>2
  <2>5. basynwait \in BOOLEAN BY <1>2, Zenon
  <2> QED BY <2>1, <2>2, <2>3, <2>4, <2>5, StateMade DEF State
<1>4. Free(State) = {} /\ Io(State) = {} /\ Hdr(State) = Buf
  <2>1. ToSet(<< >>) = {} BY DEF ToSet
  <2> QED BY <1>1, <1>2, <2>1, HeaderSeq DEF Free, Io, Hdr
<1>5. Hold(Idle) = {} /\ At(Idle) = "idle" /\ ~OnCpu(Idle) BY IdleIs DEF Hold, At, OnCpu
<1>6. \A b \in Buf : State.buf[b] = NewBuf /\ State.buf[b].flags = {} /\ State.buf[b].blk = NULL /\ State.buf[b].size = 0
  BY <1>1, <1>2, NewBufSet
<1>7. \A p \in Proc : State.proc[p] = Idle BY <1>1, <1>2
<1>8. Struct(State, NULL, {})
  <2>1. \A b \in Buf : BufOK(State, {}, b) BY <1>4, <1>6 DEF BufOK
  <2>2. ProcOK(State, Idle) BY <1>5, IdleIs DEF ProcOK, Shape, HoldsOK, KeepsOK, SleepOK
  <2>3. Lonely(State)
    <3>1. IsInjective(<< >>) BY DEF IsInjective
    <3> QED BY <1>1, <1>2, <3>1, HeaderSeq DEF Lonely
  <2>4. Apart(State, NULL, {}) BY <1>4, <1>5, <1>7 DEF Apart
  <2>5. Somewhere(State, NULL, {}) BY <1>4 DEF Somewhere
  <2> QED BY <1>0, <1>3, <1>7, <2>1, <2>2, <2>3, <2>4, <2>5 DEF Struct
<1>9. CpuOK(State, cpu) BY <1>5, <1>7, IdleIs DEF CpuOK
<1>10. Counts(State, InBawrite(State, cpu))
  <2>1. InBawrite(State, cpu) = 0 BY <1>2 DEF InBawrite
  <2>2. Behind(State) = {} BY <1>4 DEF Behind
  <2>3. Cardinality(Behind(State)) = 0 BY <2>2, FS_EmptySet
  <2>4. State.basyncnt + InBawrite(State, cpu) = 0 BY <1>1, <1>2, <2>1
  <2> QED BY <1>7, <2>3, <2>4, IdleIs DEF Counts
<1>11. Charged(State, 0)
  <2>1. \A b \in Buf : Sizes(State)[b] = 0 BY <1>6 DEF Sizes
  <2>2. InUse(Sizes(State)) = 0 BY <2>1, InUseZero
  <2> QED BY <1>0, <1>1, <1>2, <2>2 DEF Charged
<1>12. Data(State, disk, NULL)
  <2>1. Unique(State) /\ Unwritten(State, disk, NULL) /\ Alone(State, NULL) /\ Valid(State)
    BY <1>6 DEF Unique, Unwritten, Alone, Valid
  <2>2. Somebody(State, disk, NULL) BY <1>2 DEF Somebody
  <2>3. Writing(State) BY <1>4 DEF Writing
  <2>4. Len(State.ioq) = 0 BY <1>1, <1>2
  <2>5. StaleFirst(State) /\ LastWrite(State) BY <2>4 DEF StaleFirst, LastWrite
  <2> QED BY <2>1, <2>2, <2>3, <2>5 DEF Data
<1>13. \A q \in Proc : Searches(State, State.proc[q]) BY <1>5, <1>7, IdleIs DEF Searches
<1>14. Inv(State, cpu, disk) BY <1>8, <1>9, <1>10, <1>11, <1>12, <1>13 DEF Inv
<1> QED BY <1>2, <1>14 DEF IInv

(* The routines leave the processor to the process or to nobody. *)
LEMMA CpuNext ==
    ASSUME NEW p \in Proc, Routine(p) \/ Call(p)
    PROVE  cpu' \in Proc \cup {NULL}
<1>1. ASSUME NEW s, NEW r, NEW b, Got(s, p, r, b) PROVE cpu' \in Proc \cup {NULL}
  BY <1>1 DEF Got, Own, Ahead, Continue
<1>2. CASE Getblk(p) BY <1>1, <1>2 DEF Getblk, Goto, Continue, Sleep
<1>3. CASE Getfreeblk(p) BY <1>3 DEF Getfreeblk, Goto, Continue
<1>4. CASE Alloc(p) BY <1>1, <1>4 DEF Alloc, Found, Sleep
<1>5. CASE Zalloc(p) BY <1>1, <1>5 DEF Zalloc, Found
<1>6. CASE Biowait(p) BY <1>6 DEF Biowait, Sleep, Own, Return, Continue
<1>7. CASE BawriteCount(p) BY <1>7 DEF BawriteCount, Return
<1>8. CASE BreadaAhead(p) BY <1>8 DEF BreadaAhead, Ahead, Continue
<1>9. CASE Bflush(p) BY <1>9 DEF Bflush, Goto, Continue, Return
<1>10. CASE Blkflush(p) BY <1>10 DEF Blkflush, Sleep, Return, WriteWait, Continue
<1>11. CASE Bdwait(p) BY <1>11 DEF Bdwait, Sleep, Return
<1>12. CASE Release(p) \/ Bwrite(p) \/ Bdwrite(p) \/ Bawrite(p)
  BY <1>12, Zenon DEF Release, Bwrite, Bdwrite, Bawrite, Return, WriteWait, Continue
<1>13. CASE Call(p) BY <1>13, Zenon DEF Call, Goto, Continue
<1> QED BY <1>2, <1>3, <1>4, <1>5, <1>6, <1>7, <1>8, <1>9, <1>10, <1>11, <1>12, <1>13 DEF Routine

(* Every step keeps it. *)
LEMMA NextInv == IInv /\ [Next]_vars => IInv'
<1> SUFFICES ASSUME IInv, [Next]_vars PROVE IInv' OBVIOUS
<1>0. Inv(State, cpu, disk) /\ disk \in [Block -> BOOLEAN] /\ cpu \in Proc \cup {NULL} BY DEF IInv
<1>1. ASSUME NEW p \in Proc, Routine(p) PROVE IInv'
  <2>1. cpu' \in Proc \cup {NULL} BY <1>1, CpuNext
  <2>2. CASE /\ \/ Getblk(p) \/ Getfreeblk(p) \/ Alloc(p) \/ Zalloc(p) \/ Biowait(p) \/ BawriteCount(p)
                \/ BreadaAhead(p) \/ Bflush(p) \/ Blkflush(p) \/ Bdwait(p)
             /\ UNCHANGED disk
    <3>1. Inv(State', cpu', disk')
      BY <1>0, <2>2, GetblkInv, GetfreeblkInv, AllocInv, ZallocInv, BiowaitInv, BawriteCountInv, BreadaAheadInv,
         BflushInv, BlkflushInv, BdwaitInv
    <3> QED BY <1>0, <2>1, <2>2, <3>1 DEF IInv
  <2>3. CASE Release(p)
    <3>1. disk' = disk BY <2>3 DEF Release
    <3> QED BY <1>0, <2>1, <2>3, <3>1, ReleaseInv DEF IInv
  <2>4. CASE Bwrite(p) \/ Bdwrite(p) \/ Bawrite(p)
    <3>1. disk' = Outdated(proc[p].bp) BY <2>4 DEF Bwrite, Bdwrite, Bawrite, Changes
    <3>2. disk' \in [Block -> BOOLEAN] BY <3>1 DEF Outdated
    <3>3. Inv(State', cpu', disk') BY <1>0, <2>4, BwriteInv, BdwriteInv, BawriteInv
    <3> QED BY <2>1, <3>2, <3>3 DEF IInv
  <2> QED BY <1>1, <2>2, <2>3, <2>4 DEF Routine
<1>2. ASSUME NEW p \in Proc, Call(p), UNCHANGED disk PROVE IInv'
  <2>1. cpu' \in Proc \cup {NULL} BY <1>2, CpuNext
  <2> QED BY <1>0, <1>2, <2>1, CallInv DEF IInv
<1>3. ASSUME NEW p \in Proc, KmemWakeup(p) PROVE IInv'
  <2>1. cpu' = cpu /\ disk' = disk BY <1>3 DEF KmemWakeup
  <2> QED BY <1>0, <1>3, <2>1, KmemWakeupInv DEF IInv
<1>4. ASSUME NEW b \in Buf, NEW error \in BOOLEAN, Biodone(b, error) PROVE IInv'
  <2>1. cpu' = cpu BY <1>4 DEF Biodone
  <2>2. disk' \in [Block -> BOOLEAN] BY <1>0, <1>4, EndedData
  <2>3. Inv(State', cpu', disk') BY <1>0, <1>4, BiodoneInv
  <2> QED BY <1>0, <2>1, <2>2, <2>3 DEF IInv
<1>5. CASE Fsflush
  <2>1. cpu' = cpu /\ disk' = disk BY <1>5 DEF Fsflush
  <2> QED BY <1>0, <1>5, <2>1, FsflushInv DEF IInv
<1>6. CASE FsflushHeader
  <2>1. cpu' = cpu /\ disk' = disk BY <1>6 DEF FsflushHeader
  <2> QED BY <1>0, <1>6, <2>1, FsflushHeaderInv DEF IInv
<1>7. CASE UNCHANGED vars
  <2>1. State' = State /\ cpu' = cpu /\ disk' = disk BY <1>7 DEF vars, State
  <2> QED BY <1>0, <2>1 DEF IInv
<1> QED BY <1>1, <1>2, <1>3, <1>4, <1>5, <1>6, <1>7 DEF Next

(* The inductive invariant of the buffer cache holds throughout: where     *)
(* each header is, who holds what and may sleep, what the counters count,  *)
(* and where the current contents of each block are.                       *)
THEOREM Inductive == Spec => []IInv
BY InitInv, NextInv, PTL DEF Spec

(* Its parts, of the variables. *)
LEMMA IInvStruct ==
    ASSUME IInv
    PROVE  /\ Struct(State, NULL, {}) /\ State \in StateSet /\ CpuOK(State, cpu) /\ Counts(State, InBawrite(State, cpu))
           /\ Charged(State, 0) /\ (Sure => Data(State, disk, NULL)) /\ cpu \in Proc \cup {NULL}
           /\ \A p \in Proc : ProcOK(State, proc[p]) /\ proc[p] \in ProcSet
           /\ \A b \in Buf : BufOK(State, {}, b)
           /\ buf \in [Buf -> BufSet] /\ bfreelist \in Seq(Buf) /\ bhdrlist \in Seq(Buf) /\ ioq \in Seq(Buf)
<1>0. NULL \notin Proc BY ConstantsAssumption
<1>1. Inv(State, cpu, disk) /\ cpu \in Proc \cup {NULL} BY DEF IInv
<1>2. Struct(State, NULL, {}) BY <1>1 DEF Inv
<1>3. State \in StateSet BY <1>2 DEF Struct
<1>4. \A p \in Proc : ProcOK(State, proc[p]) BY <1>0, <1>2, StateFields DEF Struct
<1>5. \A p \in Proc : proc[p] \in ProcSet BY <1>3, ProcTyped, StateFields
<1>6. \A b \in Buf : BufOK(State, {}, b) BY <1>2 DEF Struct
<1>7. buf \in [Buf -> BufSet] /\ bfreelist \in Seq(Buf) /\ bhdrlist \in Seq(Buf) /\ ioq \in Seq(Buf)
  BY <1>3, StateTyped, StateFields
<1> QED BY <1>1, <1>2, <1>3, <1>4, <1>5, <1>6, <1>7 DEF Inv

(* It has the types. *)
LEMMA Typed == IInv => TypeOK
<1> SUFFICES ASSUME IInv PROVE TypeOK OBVIOUS
<1>1. State \in StateSet /\ Counts(State, InBawrite(State, cpu)) /\ cpu \in Proc \cup {NULL} BY IInvStruct
<1>2. basyncnt \in -1 .. Cardinality(Buf)
  <2>1. State.basyncnt + InBawrite(State, cpu) = Cardinality(Behind(State)) BY <1>1 DEF Counts
  <2>2. InBawrite(State, cpu) \in {0, 1} BY DEF InBawrite
  <2>3. Cardinality(Behind(State)) \in Nat /\ Cardinality(Behind(State)) <= Cardinality(Buf) BY BehindFinite
  <2>4. State.basyncnt \in Int /\ State.basyncnt = basyncnt BY <1>1, StateTyped, StateFields
  <2>5. Cardinality(Buf) \in Nat BY FS_CardinalityType, ConstantsAssumption
  <2> QED BY <2>1, <2>2, <2>3, <2>4, <2>5
<1>3. /\ buf \in [Buf -> BufSet] /\ bfreelist \in Seq(Buf) /\ bhdrlist \in Seq(Buf) /\ bufsize \in Int
      /\ wanted \in SUBSET {"bfreelist", "bhdrlist"} /\ basynwait \in BOOLEAN /\ ioq \in Seq(Buf)
      /\ proc \in [Proc -> ProcSet]
  BY <1>1, StateTyped, StateFields
<1>4. disk \in [Block -> BOOLEAN] BY DEF IInv
<1>5. proc \in [Proc -> ProcSet] /\ buf \in [Buf -> BufSet] BY <1>3
<1> QED BY <1>1, <1>2, <1>3, <1>4, Zenon DEF TypeOK, BufSet, ProcSet

(* Each header is in one place. *)
LEMMA Owned == IInv => BufferOwned
<1> SUFFICES ASSUME IInv, NEW b \in Buf
             PROVE  LET holders == {p \in Proc : b \in {proc[p].bp, proc[p].savebp}}
                        places  == Cardinality(holders)
                                   + Cardinality({i \in DOMAIN bfreelist : bfreelist[i] = b})
                                   + Cardinality({i \in DOMAIN bhdrlist : bhdrlist[i] = b})
                                   + Cardinality({i \in DOMAIN ioq : ioq[i] = b /\ "B_ASYNC" \in buf[b].flags})
                    IN  /\ places = 1
                        /\ b \in ToSet(bfreelist) => "B_BUSY" \notin buf[b].flags
  BY DEF BufferOwned
<1> DEFINE holders == {p \in Proc : b \in {proc[p].bp, proc[p].savebp}}
           A == Cardinality(holders)
           F == Cardinality({i \in DOMAIN bfreelist : bfreelist[i] = b})
           E == Cardinality({i \in DOMAIN bhdrlist : bhdrlist[i] = b})
           Q == Cardinality({i \in DOMAIN ioq : ioq[i] = b /\ "B_ASYNC" \in buf[b].flags})
<1>0. NULL \notin Proc /\ NULL \notin Buf BY ConstantsAssumption
<1>1. /\ Struct(State, NULL, {}) /\ BufOK(State, {}, b) /\ bfreelist \in Seq(Buf) /\ bhdrlist \in Seq(Buf)
      /\ ioq \in Seq(Buf)
  BY IInvStruct
<1>2. IsInjective(bfreelist) /\ IsInjective(bhdrlist) /\ IsInjective(ioq)
  BY <1>1, StateFields DEF Struct, Lonely
<1>3. Free(State) = ToSet(bfreelist) /\ Hdr(State) = ToSet(bhdrlist) /\ Io(State) = ToSet(ioq)
  BY StateFields DEF Free, Hdr, Io
<1>4. F = IF b \in Free(State) THEN 1 ELSE 0 BY <1>1, <1>2, <1>3, Occurrences
<1>5. E = IF b \in Hdr(State) THEN 1 ELSE 0 BY <1>1, <1>2, <1>3, Occurrences
<1>6. Q = IF Async(State, b) THEN 1 ELSE 0
  <2>1. CASE "B_ASYNC" \in buf[b].flags
    <3>1. {i \in DOMAIN ioq : ioq[i] = b /\ "B_ASYNC" \in buf[b].flags} = {i \in DOMAIN ioq : ioq[i] = b} BY <2>1
    <3>2. Cardinality({i \in DOMAIN ioq : ioq[i] = b}) = IF b \in Io(State) THEN 1 ELSE 0
      BY <1>1, <1>2, <1>3, Occurrences
    <3> QED BY <2>1, <3>1, <3>2, StateFields DEF Async
  <2>2. CASE "B_ASYNC" \notin buf[b].flags
    <3>1. {i \in DOMAIN ioq : ioq[i] = b /\ "B_ASYNC" \in buf[b].flags} = {} BY <2>2
    <3> QED BY <2>2, <3>1, FS_EmptySet, StateFields DEF Async
  <2> QED BY <2>1, <2>2
<1>7. holders = {p \in Proc : b \in Hold(proc[p])} BY <1>0 DEF Hold
<1>8. /\ b \in Free(State) => b \notin Hdr(State)
      /\ \A p \in Proc : b \in Hold(proc[p]) => b \notin Free(State) /\ b \notin Hdr(State)
      /\ \A p, q \in Proc : b \in Hold(proc[p]) /\ b \in Hold(proc[q]) => p = q
  BY <1>0, <1>1, StateFields DEF Struct, Apart
<1>9. b \in Free(State) \/ b \in Hdr(State) \/ Async(State, b) \/ \E p \in Proc : b \in Hold(proc[p])
  BY <1>0, <1>1, StateFields DEF Struct, Somewhere
<1>10. Async(State, b) => b \notin Free(State) /\ b \notin Hdr(State)
  <2>1. b \in Hdr(State) => "B_ASYNC" \notin State.buf[b].flags BY <1>1, NewBufSet DEF BufOK
  <2> QED BY <1>1, <2>1 DEF BufOK, Async
<1>11. \A p \in Proc : b \in Hold(proc[p]) => ~Async(State, b)
  <2> SUFFICES ASSUME NEW p \in Proc, b \in Hold(proc[p]) PROVE ~Async(State, b) OBVIOUS
  <2>1. HoldsOK(State, proc[p]) /\ KeepsOK(State, proc[p]) BY IInvStruct DEF ProcOK
  <2>2. b \in {proc[p].bp, proc[p].savebp} /\ b # NULL BY DEF Hold
  <2> QED BY <2>1, <2>2 DEF HoldsOK, KeepsOK, Async
<1>12. CASE \E p \in Proc : b \in Hold(proc[p])
  <2>1. PICK p \in Proc : b \in Hold(proc[p]) BY <1>12
  <2>2. holders = {p} BY <1>7, <1>8, <2>1
  <2>3. A = 1 BY <2>2, FS_Singleton
  <2>4. F = 0 /\ E = 0 /\ Q = 0 BY <1>4, <1>5, <1>6, <1>8, <1>11, <2>1
  <2>5. b \notin ToSet(bfreelist) BY <1>3, <1>8, <2>1
  <2> HIDE DEF A, F, E, Q
  <2>6. A + F + E + Q = 1 BY <2>3, <2>4
  <2> QED BY <2>5, <2>6 DEF A, F, E, Q
<1>13. CASE ~\E p \in Proc : b \in Hold(proc[p])
  <2>1. holders = {} BY <1>7, <1>13
  <2>2. A = 0 BY <2>1, FS_EmptySet
  <2>3. b \in ToSet(bfreelist) => "B_BUSY" \notin buf[b].flags BY <1>1, <1>3, StateFields DEF BufOK
  <2> HIDE DEF A, F, E, Q
  <2>4. A + F + E + Q = 1 BY <1>4, <1>5, <1>6, <1>8, <1>9, <1>10, <1>13, <2>2
  <2> QED BY <2>3, <2>4 DEF A, F, E, Q
<1> QED BY <1>12, <1>13

(* basyncnt is right. *)
LEMMA CountedAll == IInv => AsyncCounted
<1> SUFFICES ASSUME IInv PROVE AsyncCounted OBVIOUS
<1> DEFINE S == {p \in Proc : proc[p].pc = "bawrite"}
           B == {b \in ToSet(ioq) : "B_ASYNC" \in buf[b].flags /\ "B_READ" \notin buf[b].flags}
<1>0. NULL \notin Proc BY ConstantsAssumption
<1>1. /\ State \in StateSet /\ CpuOK(State, cpu) /\ Counts(State, InBawrite(State, cpu)) /\ cpu \in Proc \cup {NULL}
  BY IInvStruct
<1>2. State.proc = proc /\ State.buf = buf /\ State.ioq = ioq /\ State.basyncnt = basyncnt BY StateFields
<1>3. Io(State) \subseteq Buf BY <1>1, IoMember
<1>4. B = Behind(State) BY <1>2, <1>3 DEF Behind, Io
<1>5. \A p \in Proc : proc[p].pc = "bawrite" => cpu = p BY <1>1, <1>2 DEF CpuOK, OnCpu
<1>6. Cardinality(S) = InBawrite(State, cpu)
  <2>1. CASE cpu # NULL /\ proc[cpu].pc = "bawrite"
    <3>1. S = {cpu} BY <1>1, <1>5, <2>1
    <3>2. Cardinality(S) = 1 BY <3>1, FS_Singleton
    <3> QED BY <1>2, <2>1, <3>2 DEF InBawrite
  <2>2. CASE ~(cpu # NULL /\ proc[cpu].pc = "bawrite")
    <3>1. S = {} BY <1>0, <1>5, <2>2
    <3>2. Cardinality(S) = 0 BY <3>1, FS_EmptySet
    <3> QED BY <1>2, <2>2, <3>2 DEF InBawrite
  <2> QED BY <2>1, <2>2
<1>7. State.basyncnt + InBawrite(State, cpu) = Cardinality(Behind(State)) BY <1>1 DEF Counts
<1> QED BY <1>2, <1>4, <1>6, <1>7 DEF AsyncCounted

(* The memory adds up. *)
LEMMA MemoryAll == IInv => MemoryBounded
<1> SUFFICES ASSUME IInv PROVE MemoryBounded OBVIOUS
<1>1. Charged(State, 0) /\ State \in StateSet BY IInvStruct
<1>2. Sizes(State) = [b \in Buf |-> buf[b].size] BY StateFields DEF Sizes
<1>3. State.bufsize + InUse(Sizes(State)) + 0 = BUFHWM BY <1>1 DEF Charged
<1>4. State.bufsize \in Int /\ State.bufsize = bufsize BY <1>1, StateTyped, StateFields
<1>5. PICK e : e = Sizes(State) OBVIOUS
<1>6. InUse(e) \in Int
  <2>1. e \in [Buf -> Int] BY <1>1, <1>5, SizesType
  <2>2. CASE Buf = {}
    <3>1. \A b \in Buf : e[b] = 0 BY <2>2
    <3> QED BY <3>1, InUseZero
  <2>3. CASE Buf # {}
    <3>1. PICK b \in Buf : TRUE BY <2>3
    <3>2. PICK d : d = 0 OBVIOUS
    <3>3. d \in Int /\ e[b] = e[b] + d /\ \A v \in Buf \ {b} : e[v] = e[v] BY <2>1, <3>2
    <3> QED BY <2>1, <3>1, <3>3, InUseShift
  <2> QED BY <2>2, <2>3
<1>7. InUse(Sizes(State)) \in Int BY <1>5, <1>6
<1>8. bufsize + InUse(Sizes(State)) = BUFHWM BY <1>3, <1>4, <1>7
<1> QED BY <1>2, <1>8 DEF MemoryBounded

(* Every header is in one place, basyncnt counts the asynchronous writes   *)
(* with the driver and the memory of the buffers adds up, whatever the     *)
(* processes, the disk and the flush daemon do.                            *)
THEOREM CacheAccounted == Spec => []Accounted
<1>1. IInv => Accounted BY Typed, Owned, CountedAll, MemoryAll DEF Accounted
<1> QED BY <1>1, Inductive, PTL

(* Nobody sleeps for ever. *)
LEMMA Awoken == IInv => NoLostWakeup
<1> SUFFICES ASSUME IInv, NEW p \in Proc, proc[p].pc = "asleep"
             PROVE  LET c == proc[p].chan
                    IN  CASE c \in Buf ->
                                /\ {"B_BUSY", "B_WANTED"} \subseteq buf[c].flags
                                /\ proc[p].ret = "biowait" => c \in ToSet(ioq) /\ "B_DONE" \notin buf[c].flags
                          [] c \in {"bfreelist", "bhdrlist"} -> c \in wanted
                          [] c = "basyncnt" -> basynwait /\ basyncnt > 0
                          [] OTHER -> TRUE
  BY DEF NoLostWakeup
<1> DEFINE c == proc[p].chan
<1>0. {"bfreelist", "bhdrlist", "basyncnt", "kmem"} \cap Buf = {} BY ConstantsAssumption
<1>1. ProcOK(State, proc[p]) /\ (\A b \in Buf : BufOK(State, {}, b)) /\ Counts(State, InBawrite(State, cpu)) BY IInvStruct
<1>2. SleepOK(State, proc[p]) BY <1>1 DEF ProcOK
<1>3. /\ State.proc = proc /\ State.buf = buf /\ State.ioq = ioq /\ State.basyncnt = basyncnt
      /\ State.basynwait = basynwait /\ State.wanted = wanted
  BY StateFields
<1>4. c \in Buf => /\ "B_BUSY" \in buf[c].flags /\ "B_WANTED" \in buf[c].flags
                   /\ proc[p].ret = "biowait" => c \in ToSet(ioq) /\ "B_DONE" \notin buf[c].flags
  BY <1>1, <1>2, <1>3 DEF SleepOK, BufOK, Io
<1>5. c \in {"bfreelist", "bhdrlist"} => c \in wanted BY <1>2, <1>3 DEF SleepOK
<1>6. c = "basyncnt" => basynwait /\ basyncnt > 0 BY <1>1, <1>3 DEF Counts
<1> HIDE DEF c
<1>7. CASE c \in Buf BY <1>0, <1>4, <1>7 DEF c
<1>8. CASE c \in {"bfreelist", "bhdrlist"} BY <1>0, <1>5, <1>8 DEF c
<1>9. CASE c = "basyncnt" BY <1>0, <1>6, <1>9 DEF c
<1>10. CASE c \notin Buf /\ c \notin {"bfreelist", "bhdrlist"} /\ c # "basyncnt" BY <1>10 DEF c
<1> QED BY <1>7, <1>8, <1>9, <1>10

(* Who sleeps on a buffer, on a list or on the asynchronous writes has     *)
(* left the mark that makes brelse(), biodone() or the flush daemon wake   *)
(* it, and has not missed the wakeup.                                      *)
THEOREM WakeupsKept == Spec => []NoLostWakeup
<1> QED BY Awoken, Inductive, PTL

(* If getblk() does not sleep in kmem_zalloc(), a valid block is in the    *)
(* cache once.                                                             *)
THEOREM BlocksUnique ==
    ASSUME "getblk" \notin KMEMSLEEP
    PROVE  Spec => []OneBufPerBlock
<1>1. Sure BY DEF Sure
<1>2. IInv => OneBufPerBlock
  <2> SUFFICES ASSUME IInv PROVE OneBufPerBlock OBVIOUS
  <2>1. Unique(State) BY <1>1, IInvStruct DEF Data
  <2> QED BY <2>1, StateFields DEF Unique, OneBufPerBlock
<1> QED BY <1>2, Inductive, PTL

(* Then the holder of a buffer finds in it what was last written to the    *)
(* block.                                                                  *)
THEOREM ReadsCurrent ==
    ASSUME "getblk" \notin KMEMSLEEP
    PROVE  Spec => []Coherent
<1>1. Sure BY DEF Sure
<1>2. IInv => Coherent
  <2> SUFFICES ASSUME IInv, NEW p \in Proc, proc[p].pc = "own"
               PROVE  LET r == buf[proc[p].bp]
                      IN  (r.blk # NULL /\ "B_DONE" \in r.flags /\ "B_ERROR" \notin r.flags) => r.cur
    BY DEF Coherent
  <2>1. Valid(State) BY <1>1, IInvStruct DEF Data
  <2>2. ProcOK(State, proc[p]) /\ proc[p] \in ProcSet BY IInvStruct
  <2>3. HoldsOK(State, proc[p]) /\ proc[p].bp # NULL BY <2>2 DEF ProcOK, Shape, At
  <2>4. proc[p].bp \in Buf BY <2>2, <2>3 DEF ProcSet
  <2>5. "B_STALE" \notin buf[proc[p].bp].flags BY <2>3, StateFields DEF HoldsOK
  <2> QED BY <2>1, <2>4, <2>5, StateFields DEF Valid
<1> QED BY <1>2, Inductive, PTL

(* And what is not on the disk is with the driver or marked to be written. *)
THEOREM DataSafe ==
    ASSUME "getblk" \notin KMEMSLEEP
    PROVE  Spec => []NoLostData
<1>1. Sure BY DEF Sure
<1>2. IInv => NoLostData
  <2> SUFFICES ASSUME IInv PROVE NoLostData OBVIOUS
  <2>0. NULL \notin Buf BY ConstantsAssumption
  <2>1. Somebody(State, disk, NULL) BY <1>1, IInvStruct DEF Data
  <2>2. \A b \in Buf : Pend(State, NULL, b) => "B_DELWRI" \in buf[b].flags \/ b \in ToSet(ioq)
    BY <2>0, StateFields DEF Pend, Io
  <2>3. State.buf = buf BY StateFields
  <2> QED BY <2>1, <2>2, <2>3 DEF Somebody, NoLostData
<1> QED BY <1>2, Inductive, PTL
=============================================================================
