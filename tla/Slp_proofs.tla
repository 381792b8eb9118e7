------------------------------ MODULE Slp_proofs ------------------------------
(***************************************************************************)
(* Sleep and wakeup, signals and /proc (Slp): for any number of processes, *)
(* channels and buckets, the tables agree, stops are sound, no signal is   *)
(* slept through and sleeps end as their priority says.                    *)
(*                                                                         *)
(* The argument.  Good(p) says of one process what its entry and its place *)
(* (CPU, dispatcher queue, sleep queue) have to do with each other.  Every *)
(* action but wakeup() is about one process, so Good is shown action by    *)
(* action (the lemmas named after the actions, ending in Good); the lemmas *)
(* ending in Moves show that the rest of the tables stays, that the sleep  *)
(* queues follow p_wchan, and what a step may do to a sleep.               *)
(***************************************************************************)
EXTENDS Integers, Slp, TLAPS, NaturalsInduction, WellFoundedInduction, FiniteSetTheorems

(***************************************************************************)
(* Facts about the linked lists of the kernel, which the model keeps as    *)
(* sequences without repetition.                                           *)
(***************************************************************************)
(* A set of naturals that has a member has a least one, its Min. *)
LEMMA LeastMember ==
    ASSUME NEW S \in SUBSET Nat, NEW x \in S
    PROVE  Min(S) \in S /\ \A z \in S : Min(S) <= z
<1>1. IsWellFoundedOn(OpToRel(<, Nat), Nat)
  BY NatLessThanWellFounded, Zenon
<1>2. PICK y \in S : \A z \in S : ~(<<z, y>> \in OpToRel(<, Nat))
  BY <1>1, WFMin
<1>3. ASSUME NEW z \in S PROVE y <= z
  <2>1. ~(z < y)
    BY <1>2, <1>3 DEF OpToRel
  <2> QED BY <2>1
<1>4. \E m \in S : \A z \in S : m <= z
  BY <1>3
<1> QED BY <1>4 DEF Min

(* The members of a sequence, by position. *)
LEMMA MemberIff ==
    ASSUME NEW A, NEW q \in Seq(A), NEW e
    PROVE  e \in ToSet(q) <=> \E i \in 1..Len(q) : q[i] = e
BY DEF ToSet

(* RemoveAt closes the gap at position k. *)
LEMMA RemoveAtFacts ==
    ASSUME NEW A, NEW q \in Seq(A), NEW k \in 1..Len(q)
    PROVE  /\ RemoveAt(q, k) \in Seq(A)
           /\ Len(RemoveAt(q, k)) = Len(q) - 1
           /\ \A i \in 1..Len(q) - 1 : RemoveAt(q, k)[i] = IF i < k THEN q[i] ELSE q[i + 1]
<1> DEFINE a == SubSeq(q, 1, k - 1)
           b == SubSeq(q, k + 1, Len(q))
<1>1. Len(q) \in Nat /\ \A i \in 1..Len(q) : q[i] \in A
  OBVIOUS
<1>2. a \in Seq(A) /\ Len(a) = k - 1 /\ \A i \in 1..k - 1 : a[i] = q[i]
  BY <1>1
<1>3. b \in Seq(A) /\ Len(b) = Len(q) - k /\ \A i \in 1..Len(q) - k : b[i] = q[k + i]
  BY <1>1
<1>4. RemoveAt(q, k) = a \o b
  BY DEF RemoveAt
<1> HIDE DEF a, b
<1>5. /\ a \o b \in Seq(A) /\ Len(a \o b) = Len(a) + Len(b)
      /\ \A i \in 1..Len(a) + Len(b) : (a \o b)[i] = IF i <= Len(a) THEN a[i] ELSE b[i - Len(a)]
  BY <1>2, <1>3, SMTT(30)
<1>6. ASSUME NEW i \in 1..Len(q) - 1, i < k PROVE (a \o b)[i] = q[i]
  BY <1>1, <1>2, <1>3, <1>5, <1>6
<1>7. ASSUME NEW i \in 1..Len(q) - 1, ~(i < k) PROVE (a \o b)[i] = q[i + 1]
  <2>1. (a \o b)[i] = b[i - (k - 1)] /\ i - (k - 1) \in 1..Len(q) - k /\ k + (i - (k - 1)) = i + 1
    BY <1>1, <1>2, <1>3, <1>5, <1>7
  <2> QED BY <1>3, <2>1
<1> QED BY <1>1, <1>2, <1>3, <1>4, <1>5, <1>6, <1>7

(* RemoveFirst takes e out, if it is there, and nothing else; a sequence   *)
(* without repetition stays one.                                           *)
LEMMA RemoveFirstFacts ==
    ASSUME NEW A, NEW q \in Seq(A), NEW e
    PROVE  /\ RemoveFirst(q, e) \in Seq(A)
           /\ IsInjective(q) => /\ IsInjective(RemoveFirst(q, e))
                                /\ ToSet(RemoveFirst(q, e)) = ToSet(q) \ {e}
<1>1. CASE ~ \E i \in 1..Len(q) : q[i] = e
  <2>1. RemoveFirst(q, e) = q
    BY <1>1 DEF RemoveFirst
  <2>2. e \notin ToSet(q)
    BY <1>1, MemberIff
  <2> QED BY <2>1, <2>2
<1>2. CASE \E i \in 1..Len(q) : q[i] = e
  <2> DEFINE I == {i \in 1..Len(q) : q[i] = e}
             k == Min(I)
             r == RemoveAt(q, k)
  <2>1. k \in I
    <3>1. I \in SUBSET Nat /\ \E i \in I : TRUE
      BY <1>2
    <3> HIDE DEF I
    <3> QED BY <3>1, LeastMember
  <2>2. RemoveFirst(q, e) = r
    BY <1>2, <2>1 DEF RemoveFirst, SelectInSeq
  <2>3. k \in 1..Len(q) /\ q[k] = e
    BY <2>1
  <2> HIDE DEF k
  <2>4. /\ r \in Seq(A) /\ Len(r) = Len(q) - 1
        /\ \A i \in 1..Len(q) - 1 : r[i] = IF i < k THEN q[i] ELSE q[i + 1]
    BY <2>3, RemoveAtFacts
  <2> HIDE DEF r
  <2>5. ASSUME IsInjective(q)
        PROVE  IsInjective(r)
    <3> SUFFICES ASSUME NEW i \in 1..Len(r), NEW j \in 1..Len(r), r[i] = r[j]
                 PROVE  i = j
      BY <2>4 DEF IsInjective
    <3>1. \A a, b \in 1..Len(q) : q[a] = q[b] => a = b
      BY <2>5 DEF IsInjective
    <3> QED BY <2>3, <2>4, <3>1
  <2>6. ASSUME IsInjective(q)
        PROVE  ToSet(r) = ToSet(q) \ {e}
    <3>1. \A a, b \in 1..Len(q) : q[a] = q[b] => a = b
      BY <2>6 DEF IsInjective
    <3>2. ASSUME NEW x \in ToSet(r) PROVE x \in ToSet(q) \ {e}
      <4>1. PICK i \in 1..Len(r) : r[i] = x
        BY <2>4, <3>2, MemberIff
      <4>2. PICK j \in 1..Len(q) : q[j] = x /\ j # k
        BY <2>3, <2>4, <4>1
      <4> QED BY <2>3, <3>1, <4>2, MemberIff
    <3>3. ASSUME NEW x \in ToSet(q), x # e PROVE x \in ToSet(r)
      <4>1. PICK j \in 1..Len(q) : q[j] = x
        BY <3>3, MemberIff
      <4>2. j < k \/ k < j
        BY <2>3, <3>3, <4>1
      <4>3. CASE j < k
        <5>1. j \in 1..Len(r) /\ r[j] = x
          BY <2>3, <2>4, <4>1, <4>3
        <5> QED BY <2>4, <5>1, MemberIff
      <4>4. CASE k < j
        <5>1. j - 1 \in 1..Len(r) /\ r[j - 1] = x
          BY <2>3, <2>4, <4>1, <4>4
        <5> QED BY <2>4, <5>1, MemberIff
      <4> QED BY <4>2, <4>3, <4>4
    <3> QED BY <3>2, <3>3
  <2> QED BY <2>2, <2>4, <2>5, <2>6
<1> QED BY <1>1, <1>2

(* Appending a new member. *)
LEMMA AppendFacts ==
    ASSUME NEW A, NEW q \in Seq(A), NEW e \in A, e \notin ToSet(q), IsInjective(q)
    PROVE  /\ Append(q, e) \in Seq(A) /\ IsInjective(Append(q, e))
           /\ ToSet(Append(q, e)) = ToSet(q) \cup {e}
<1> DEFINE r == Append(q, e)
<1>1. /\ r \in Seq(A) /\ Len(r) = Len(q) + 1 /\ r[Len(q) + 1] = e
      /\ \A i \in 1..Len(q) : r[i] = q[i]
  OBVIOUS
<1> HIDE DEF r
<1>2. IsInjective(r)
  <2> SUFFICES ASSUME NEW i \in 1..Len(r), NEW j \in 1..Len(r), r[i] = r[j]
               PROVE  i = j
    BY <1>1 DEF IsInjective
  <2>1. \A a, b \in 1..Len(q) : q[a] = q[b] => a = b
    BY DEF IsInjective
  <2>2. \A a \in 1..Len(q) : q[a] # e
    BY MemberIff
  <2> QED BY <1>1, <2>1, <2>2
<1>3. ToSet(r) = ToSet(q) \cup {e}
  <2>1. \A x : x \in ToSet(r) <=> \E i \in 1..Len(r) : r[i] = x
    BY <1>1, MemberIff
  <2>2. \A x : x \in ToSet(q) <=> \E i \in 1..Len(q) : q[i] = x
    BY MemberIff
  <2>3. ASSUME NEW x \in ToSet(r) PROVE x \in ToSet(q) \cup {e}
    BY <1>1, <2>1, <2>2, <2>3
  <2>4. ASSUME NEW x \in ToSet(q) PROVE x \in ToSet(r)
    <3>1. PICK i \in 1..Len(q) : q[i] = x
      BY <2>2, <2>4
    <3>2. i \in 1..Len(r) /\ r[i] = x
      BY <1>1, <3>1
    <3> QED BY <2>1, <3>2
  <2>5. e \in ToSet(r)
    <3>1. Len(q) + 1 \in 1..Len(r)
      BY <1>1
    <3> QED BY <1>1, <2>1, <3>1
  <2> QED BY <2>3, <2>4, <2>5
<1> QED BY <1>1, <1>2, <1>3 DEF r

(* A sequence without repetition has as many members as positions. *)
LEMMA InjectiveCardinality ==
    ASSUME NEW A, NEW q \in Seq(A), IsInjective(q)
    PROVE  IsFiniteSet(ToSet(q)) /\ Cardinality(ToSet(q)) = Len(q)
<1>1. Len(q) \in Nat /\ q \in [1..Len(q) -> ToSet(q)]
  BY DEF ToSet
<1>2. \A t \in ToSet(q) : \E s \in 1..Len(q) : q[s] = t
  BY MemberIff
<1>3. \A a, b \in 1..Len(q) : q[a] = q[b] => a = b
  BY DEF IsInjective
<1>4. ExistsBijection(1..Len(q), ToSet(q))
  BY <1>1, <1>2, <1>3 DEF ExistsBijection, Bijection, Injection, Surjection, IsInjective
<1>5. IsFiniteSet(1..Len(q))
  BY <1>1, FS_Interval
<1>6. IsFiniteSet(ToSet(q))
  BY <1>4, <1>5, FS_Bijection
<1> QED BY <1>1, <1>4, <1>6, FS_CountingElements

(***************************************************************************)
(* The inductive invariant.                                                *)
(***************************************************************************)

(* What one entry of the process table tells about itself: where pc, site, *)
(* disp, the flags and p_wchan go together.                                *)
Local(r) ==
    /\ "SRUNLCL" \notin r.flag => r.sigmask = {}
    /\ r.pc \in {"user", "kernel", "psig", "dead"} => r.site = "user"
    /\ r.site = "user" <=> r.disp = NULL
    /\ "SNWAKE" \in r.flag => (r.pc = "asleep" /\ r.disp = "high") \/ r.pc = "kmem"
    /\ "SNOSTOP" \in r.flag => r.disp = "nostop"
    /\ r.disp = "high" => r.pc = "asleep"
    /\ r.pc = "asleep" => r.site = "sleep2"
    /\ r.pc = "dead" <=> r.stat = "SZOMB"
    /\ r.stat = "SSLEEP" => r.wchan # NULL
    /\ r.wchan # NULL => r.stat \in {"SSLEEP", "SSTOP"}
    /\ ~KMEMSHORT /\ r.pc = "kmem" => r.kret = "loop"

(* SignalNoticed for one process, strengthened: nothing at all that it may *)
(* take is pending.                                                        *)
Noticed(r) ==
    (r.pc = "asleep" /\ r.stat = "SSLEEP" /\ r.disp # "high") =>
        /\ r.cursig = NULL /\ r.sig \subseteq r.hold
        /\ r.disp = "catch" => "SPRSTOP" \notin r.flag

(* StopsSound for one process. *)
Stopped(r) ==
    /\ r.stat = "SSTOP" =>
        /\ r.whystop # NULL
        /\ IF r.whystop = "PR_JOBCONTROL" THEN "SXSTART" \notin r.flag /\ "SPSTART" \in r.flag
           ELSE "SXSTART" \in r.flag /\ "SPSTART" \notin r.flag
        /\ SIGKILL \notin r.sig /\ r.cursig # SIGKILL
    /\ "SRUNLCL" \notin r.flag =>
        /\ r.stat = "SSTOP" => r.whystop = "PR_JOBCONTROL"
        /\ "SPRSTOP" \notin r.flag

(* Where a process is: on the CPU, on a dispatcher queue, or on neither,   *)
(* and what the entry says then.                                           *)
Placed(p) ==
    /\ cpu = p => /\ proc[p].pc \in {"user", "kernel", "issig", "psig"}
                  /\ proc[p].stat \in {"SONPROC", "SSLEEP"}
                  /\ proc[p].site = "user" => proc[p].stat = "SONPROC"
    /\ cpu # p => /\ proc[p].pc \in {"user", "stopped", "jobstop", "kmem", "asleep", "dead"}
                  /\ proc[p].stat # "SONPROC"
    /\ p \in dispq => proc[p].stat = "SRUN"
    /\ ~KMEMSHORT /\ proc[p].stat = "SRUN" => p \in dispq
    /\ proc[p].pc \in {"user", "kernel", "psig"} => proc[p].stat \in {"SONPROC", "SRUN"}

(* All that is claimed of one process. *)
Good(p) ==
    /\ proc[p] \in ProcType /\ Local(proc[p]) /\ Noticed(proc[p])
    /\ Stopped(proc[p]) /\ Placed(p)

(* The part of the inductive invariant about the process table. *)
IInv == TypeOK /\ \A p \in Proc : Good(p)

(* A step that is about p alone. *)
Only(p) ==
    /\ \A q \in Proc \ {p} :
          proc'[q] = proc[q] /\ (q \in dispq' <=> q \in dispq) /\ (cpu' = q <=> cpu = q)
    /\ TypeOK'

(***************************************************************************)
(* What the operations on one entry of the process table do.               *)
(***************************************************************************)

(* A step about p alone keeps the invariant when it keeps it for p. *)
LEMMA Frame == ASSUME IInv, NEW p \in Proc, Only(p), Good(p)' PROVE IInv'
<1>1. ASSUME NEW q \in Proc, q # p PROVE Good(q)'
  BY <1>1 DEF IInv, Only, Good, Placed, TypeOK
<1> QED BY <1>1 DEF IInv, Only

(* Assigning to a field of struct proc a value of its type. *)
LEMMA RecordType ==
  ASSUME NEW r \in ProcType
  PROVE  /\ \A e \in {"SRUN", "SONPROC", "SSLEEP", "SSTOP",
                     "SZOMB"} : [r EXCEPT !.stat = e] \in ProcType
         /\ \A e \in Chan \cup {NULL} : [r EXCEPT !.wchan = e] \in ProcType
         /\ \A e \in Why \cup {NULL} : [r EXCEPT !.whystop = e] \in ProcType
         /\ \A e \in SUBSET Flag : [r EXCEPT !.flag = e] \in ProcType
         /\ \A e \in SUBSET Sig : [r EXCEPT !.sig = e] \in ProcType
         /\ \A e \in Sig \cup {NULL} : [r EXCEPT !.cursig = e] \in ProcType
         /\ \A e \in SUBSET Caught : [r EXCEPT !.hold = e] \in ProcType
         /\ \A e \in SUBSET Sig : [r EXCEPT !.sigmask = e] \in ProcType
         /\ \A e \in BOOLEAN : [r EXCEPT !.sysabort = e] \in ProcType
         /\ \A e \in {"user", "kernel", "issig", "psig", "stopped", "jobstop", "kmem", "asleep",
            "dead"} :
               [r EXCEPT !.pc = e] \in ProcType
         /\ \A e \in {"user", "sleep1", "sleep2"} : [r EXCEPT !.site = e] \in ProcType
         /\ \A e \in Disp \cup {NULL} : [r EXCEPT !.disp = e] \in ProcType
         /\ \A e \in {"loop", "swtch", NULL} : [r EXCEPT !.kret = e] \in ProcType
<1>1. \A e \in {"SRUN", "SONPROC", "SSLEEP", "SSTOP", "SZOMB"} : [r EXCEPT !.stat = e] \in ProcType
  BY DEF ProcType
<1>2. \A e \in Chan \cup {NULL} : [r EXCEPT !.wchan = e] \in ProcType
  BY DEF ProcType
<1>3. \A e \in Why \cup {NULL} : [r EXCEPT !.whystop = e] \in ProcType
  BY DEF ProcType
<1>4. \A e \in SUBSET Flag : [r EXCEPT !.flag = e] \in ProcType
  BY DEF ProcType
<1>5. \A e \in SUBSET Sig : [r EXCEPT !.sig = e] \in ProcType
  BY DEF ProcType
<1>6. \A e \in Sig \cup {NULL} : [r EXCEPT !.cursig = e] \in ProcType
  BY DEF ProcType
<1>7. \A e \in SUBSET Caught : [r EXCEPT !.hold = e] \in ProcType
  BY DEF ProcType
<1>8. \A e \in SUBSET Sig : [r EXCEPT !.sigmask = e] \in ProcType
  BY DEF ProcType
<1>9. \A e \in BOOLEAN : [r EXCEPT !.sysabort = e] \in ProcType
  BY DEF ProcType
<1>10. \A e \in {"user", "kernel", "issig", "psig", "stopped", "jobstop", "kmem", "asleep",
   "dead"} :
               [r EXCEPT !.pc = e] \in ProcType
  BY DEF ProcType
<1>11. \A e \in {"user", "sleep1", "sleep2"} : [r EXCEPT !.site = e] \in ProcType
  BY DEF ProcType
<1>12. \A e \in Disp \cup {NULL} : [r EXCEPT !.disp = e] \in ProcType
  BY DEF ProcType
<1>13. \A e \in {"loop", "swtch", NULL} : [r EXCEPT !.kret = e] \in ProcType
  BY DEF ProcType
<1> QED BY <1>1, <1>2, <1>3, <1>4, <1>5, <1>6, <1>7, <1>8, <1>9, <1>10, <1>11, <1>12, <1>13

(* Goto sets pc and site and nothing else. *)
LEMMA GotoFields ==
  ASSUME NEW r \in ProcType, NEW site \in {"user", "sleep1", "sleep2"},
         NEW pc \in {"user", "kernel", "issig", "psig", "stopped", "jobstop", "kmem", "asleep",
            "dead"}
  PROVE  /\ Goto(r, pc, site) \in ProcType
         /\ Goto(r, pc, site).pc = pc /\ Goto(r, pc, site).site = site
         /\ Goto(r, pc, site).flag = r.flag /\ Goto(r, pc, site).disp = r.disp
         /\ Goto(r, pc, site).stat = r.stat /\ Goto(r, pc, site).wchan = r.wchan
         /\ Goto(r, pc, site).whystop = r.whystop /\ Goto(r, pc, site).sig = r.sig
         /\ Goto(r, pc, site).cursig = r.cursig /\ Goto(r, pc, site).sigmask = r.sigmask
         /\ Goto(r, pc, site).hold = r.hold
<1> DEFINE a == [r EXCEPT !.pc = pc]
<1>1. a \in ProcType
  BY RecordType
<1>2. Goto(r, pc, site) \in ProcType
  <2> HIDE DEF a
  <2>1. [a EXCEPT !.site = site] \in ProcType
    BY <1>1, RecordType
  <2> QED BY <2>1 DEF Goto, a
<1> QED BY <1>2 DEF Goto, ProcType

(* The out: label of sleep(): flags, pc, site and disp change. *)
LEMMA OutFields ==
  ASSUME NEW r \in ProcType
  PROVE  /\ Out(r) \in ProcType
         /\ Out(r).flag = r.flag \ {"SNWAKE", "SNOSTOP", "SASLEEP"}
         /\ Out(r).pc = "kernel" /\ Out(r).site = "user" /\ Out(r).disp = NULL
         /\ Out(r).stat = r.stat /\ Out(r).wchan = r.wchan /\ Out(r).whystop = r.whystop
         /\ Out(r).sig = r.sig /\ Out(r).cursig = r.cursig /\ Out(r).sigmask = r.sigmask
BY DEF ProcType, Out, Goto, Drop

(* The psig: label of sleep(): flags, pc, site, disp and u_sysabort        *)
(* change.                                                                 *)
LEMMA InterruptedFields ==
  ASSUME NEW r \in ProcType
  PROVE  /\ Interrupted(r) \in ProcType
         /\ Interrupted(r).flag = r.flag \ {"SNOSTOP", "SASLEEP"}
         /\ Interrupted(r).pc = "issig" /\ Interrupted(r).site = "user"
         /\ Interrupted(r).disp = NULL
         /\ Interrupted(r).stat = r.stat /\ Interrupted(r).wchan = r.wchan
         /\ Interrupted(r).whystop = r.whystop /\ Interrupted(r).sig = r.sig
         /\ Interrupted(r).cursig = r.cursig /\ Interrupted(r).sigmask = r.sigmask
<1> DEFINE r1 == Drop(r, {"SNOSTOP", "SASLEEP"})
           r2 == [r1 EXCEPT !.sysabort = FALSE]
           r3 == [r2 EXCEPT !.disp = NULL]
<1>1. r1 \in ProcType /\ r1 = [r EXCEPT !.flag = @ \ {"SNOSTOP", "SASLEEP"}]
  BY DEF ProcType, Drop
<1> HIDE DEF r1
<1>2. r2 \in ProcType
  BY <1>1 DEF ProcType
<1>3. r2.flag = r1.flag /\ r2.stat = r1.stat /\ r2.wchan = r1.wchan /\ r2.whystop = r1.whystop
      /\ r2.sig = r1.sig
      /\ r2.cursig = r1.cursig /\ r2.sigmask = r1.sigmask
  BY <1>1 DEF ProcType
<1> HIDE DEF r2
<1>4. r3 \in ProcType
  BY <1>2 DEF ProcType
<1>5. /\ r3.flag = r2.flag /\ r3.stat = r2.stat /\ r3.wchan = r2.wchan /\ r3.whystop = r2.whystop
      /\ r3.sig = r2.sig
      /\ r3.cursig = r2.cursig /\ r3.sigmask = r2.sigmask /\ r3.disp = NULL
  BY <1>2 DEF ProcType
<1>6. Interrupted(r) = Goto(r3, "issig", "user")
  BY DEF Interrupted, r2, r1
<1> HIDE DEF r3
<1>7. Goto(r3, "issig", "user") \in ProcType
  BY <1>4, GotoFields
<1>9. r1.flag = r.flag \ {"SNOSTOP", "SASLEEP"} /\ r1.stat = r.stat /\ r1.wchan = r.wchan
      /\ r1.whystop = r.whystop /\ r1.sig = r.sig /\ r1.cursig = r.cursig /\ r1.sigmask = r.sigmask
  BY <1>1 DEF ProcType
<1> QED BY <1>3, <1>4, <1>5, <1>6, <1>7, <1>9, GotoFields

(* NULL is none of the values it stands beside. *)
LEMMA NullFacts ==
  /\ NULL # "high" /\ NULL # "catch" /\ NULL # "nostop" /\ NULL \notin Why
  /\ NULL \notin Sig /\ NULL \notin Proc /\ NULL \notin Chan
BY ConstantsAssumption DEF Disp

(***************************************************************************)
(* Every action keeps what is claimed of its process.                      *)
(***************************************************************************)

(* setrun() of a process that it does not refuse. *)
LEMMA SetrunGood ==
  ASSUME IInv, NEW p \in Proc, NEW r \in ProcType, Setrun(p, r), cpu' = cpu, cpu # p,
         Local(r), ~Refused(r), r.stat \in {"SSLEEP", "SSTOP"},
         r.pc = proc[p].pc, r.stat = proc[p].stat,
         "SRUNLCL" \notin r.flag => "SPRSTOP" \notin r.flag
  PROVE  Good(p)'
<1> DEFINE n == [[r EXCEPT !.wchan = NULL] EXCEPT !.stat = "SRUN", !.whystop = NULL]
<1>1. proc' = [proc EXCEPT ![p] = n] /\ dispq' = dispq \cup {p}
  BY DEF Setrun, Put
<1>2. /\ n.stat = "SRUN" /\ n.wchan = NULL /\ n.pc = r.pc /\ n.kret = r.kret /\ n.site = r.site
      /\ n.disp = r.disp /\ n.flag = r.flag
      /\ n.sigmask = r.sigmask
  BY DEF ProcType
<1>3. n \in ProcType
  <2>1. [r EXCEPT !.wchan = NULL] \in ProcType
    BY RecordType
  <2>2. [[r EXCEPT !.wchan = NULL] EXCEPT !.stat = "SRUN"] \in ProcType
    BY <2>1, RecordType
  <2> QED BY <2>2, RecordType
<1> HIDE DEF n
<1>4. Good(p) /\ proc'[p] = n
  BY <1>1 DEF IInv, TypeOK
<1> QED BY <1>1, <1>2, <1>3, <1>4 DEF Good, Local, Noticed, Stopped, Placed

(* prsetrun() leaves a well formed entry. *)
LEMMA PiocrunRecord ==
  ASSUME NEW p, proc[p] \in ProcType, NEW opts
  PROVE  [proc[p] EXCEPT
          !.cursig = IF "PRCSIG" \in opts /\ @ # SIGKILL THEN NULL ELSE @,
          !.sysabort = @ \/ "PRSABORT" \in opts,
          !.flag = @ \cup {"SPSTART"} \cup (IF "PRSTOP" \in opts THEN {"SPRSTOP"} ELSE {})]
          \in ProcType
<1> DEFINE r == [proc[p] EXCEPT
          !.cursig = IF "PRCSIG" \in opts /\ @ # SIGKILL THEN NULL ELSE @,
          !.sysabort = @ \/ "PRSABORT" \in opts,
          !.flag = @ \cup {"SPSTART"} \cup (IF "PRSTOP" \in opts THEN {"SPRSTOP"} ELSE {})]
           a == [proc[p] EXCEPT !.cursig = IF "PRCSIG" \in opts /\ @ # SIGKILL THEN NULL ELSE @]
           b == [a EXCEPT !.sysabort = @ \/ "PRSABORT" \in opts]
           f == b.flag \cup {"SPSTART"} \cup (IF "PRSTOP" \in opts THEN {"SPRSTOP"} ELSE {})
<1>1. a \in ProcType
  BY DEF ProcType
<1> HIDE DEF a
<1>2. (a.sysabort \/ "PRSABORT" \in opts) \in BOOLEAN
  OBVIOUS
<1>3. b \in ProcType
  <2> DEFINE v == a.sysabort \/ "PRSABORT" \in opts
  <2>1. b = [a EXCEPT !.sysabort = v] /\ v \in BOOLEAN
    BY <1>2
  <2> HIDE DEF v, b
  <2> QED BY <1>1, <2>1, RecordType
<1>4. r = [b EXCEPT !.flag = f]
  BY DEF a
<1> HIDE DEF b
<1>5. f \in SUBSET Flag
  BY <1>3 DEF ProcType, Flag
<1>6. [b EXCEPT !.flag = f] \in ProcType
  <2> HIDE DEF f
  <2> QED BY <1>3, <1>5, RecordType
<1> QED BY <1>4, <1>6

(* PIOCRUN keeps what is claimed of its process. *)
LEMMA PiocrunGood ==
  ASSUME IInv, NEW p \in Proc, NEW opts \in RunOptions, Piocrun(p, opts)
  PROVE  Good(p)'
<1> DEFINE r == [proc[p] EXCEPT
          !.cursig = IF "PRCSIG" \in opts /\ @ # SIGKILL THEN NULL ELSE @,
          !.sysabort = @ \/ "PRSABORT" \in opts,
          !.flag = @ \cup {"SPSTART"} \cup (IF "PRSTOP" \in opts THEN {"SPRSTOP"} ELSE {})]
<1>1. proc[p] \in ProcType /\ Good(p) /\ cpu = NULL /\ cpu' = cpu /\ ByProc(proc[p])
      /\ "SRUNLCL" \in proc[p].flag
  BY DEF IInv, TypeOK, Piocrun, Prlock, Attached
<1>2. r \in ProcType
  BY <1>1, PiocrunRecord
<1>3. /\ r.stat = proc[p].stat /\ r.pc = proc[p].pc /\ r.kret = proc[p].kret
      /\ r.site = proc[p].site /\ r.disp = proc[p].disp
      /\ r.sigmask = proc[p].sigmask /\ r.wchan = proc[p].wchan
      /\ proc[p].flag \cup {"SPSTART"} \subseteq r.flag
      /\ r.flag \subseteq proc[p].flag \cup {"SPSTART", "SPRSTOP"}
  BY <1>1 DEF ProcType
<1>4. Setrun(p, r)
  BY DEF Piocrun
<1> HIDE DEF r
<1>5. Local(r) /\ ~Refused(r) /\ r.stat = "SSTOP"
  BY <1>1, <1>3 DEF Good, Local, Stopped, ByProc, Refused
<1> QED BY <1>1, <1>2, <1>3, <1>4, <1>5, SetrunGood, NullFacts

(* PIOCSSIG keeps what is claimed of its process: a sleeper is set         *)
(* running.                                                                *)
LEMMA PiocssigGood ==
  ASSUME IInv, NEW p \in Proc, NEW sig \in Sig \cup {NULL}, Piocssig(p, sig)
  PROVE  Good(p)'
<1> DEFINE r == [proc[p] EXCEPT !.cursig = sig]
           t == Raise(r, {"SXSTART", "SPSTART"})
<1>1. proc[p] \in ProcType /\ Good(p) /\ cpu = NULL /\ cpu' = cpu /\ "SRUNLCL" \in proc[p].flag
      /\ proc[p].flag \cap {"SNWAKE", "SNOSTOP"} = {}
  BY DEF IInv, TypeOK, Piocssig, Prlock, Attached
<1>2. r \in ProcType
  BY <1>1 DEF ProcType
<1>3. /\ r.stat = proc[p].stat /\ r.pc = proc[p].pc /\ r.kret = proc[p].kret
      /\ r.site = proc[p].site /\ r.disp = proc[p].disp
      /\ r.sigmask = proc[p].sigmask /\ r.wchan = proc[p].wchan /\ r.flag = proc[p].flag
      /\ r.whystop = proc[p].whystop
      /\ r.sig = proc[p].sig /\ r.hold = proc[p].hold /\ r.cursig = sig
  BY <1>1 DEF ProcType
<1>4. t \in ProcType
  BY <1>2 DEF ProcType, Raise, Flag
<1>5. /\ t.stat = r.stat /\ t.pc = r.pc /\ t.kret = r.kret /\ t.site = r.site /\ t.disp = r.disp
      /\ t.sigmask = r.sigmask /\ t.wchan = r.wchan /\ t.flag = r.flag \cup {"SXSTART", "SPSTART"}
  BY <1>2 DEF ProcType, Raise
<1> USE <1>1, <1>2, <1>3, <1>4, <1>5, NullFacts
<1>6. CASE sig # NULL /\ r.stat = "SSLEEP"
  <2>1. Setrun(p, r) BY <1>6 DEF Piocssig
  <2> HIDE DEF r
  <2>2. Local(r) /\ ~Refused(r)
    BY <1>6 DEF Good, Local, Refused
  <2> QED BY <2>1, <2>2, <1>6, SetrunGood
<1>7. CASE r.stat = "SSTOP" /\ sig = SIGKILL
  <2>1. Setrun(p, t) BY <1>7 DEF Piocssig
  <2> HIDE DEF t, r
  <2>2. Local(t) /\ ~Refused(t)
    BY <1>7 DEF Good, Local, Refused
  <2> QED BY <2>1, <2>2, <1>7, SetrunGood
<1>8. CASE ~(sig # NULL /\ r.stat = "SSLEEP") /\ ~(r.stat = "SSTOP" /\ sig = SIGKILL)
  <2>1. proc' = [proc EXCEPT ![p] = r] /\ dispq' = dispq BY <1>8 DEF Piocssig, Put
  <2>2. proc'[p] = r BY <2>1 DEF IInv, TypeOK
  <2> HIDE DEF t, r
  <2> QED BY <2>1, <2>2, <1>8 DEF Good, Local, Noticed, Stopped, Placed
<1> QED BY <1>6, <1>7, <1>8

(* The sleep inside kmem_alloc(): the process is on the sleep queue of     *)
(* KmChan and deaf to signals.                                             *)
LEMMA SigcldGood ==
  ASSUME IInv, NEW p \in Proc, NEW r \in ProcType, NEW kret \in {"loop", "swtch"}, NEW Continue,
     Sigcld(p, r, kret, Continue), ~Continue,
         p \notin dispq', Local(r), Stopped(r), r.pc # "asleep"
  PROVE  Good(p)'
<1> DEFINE e == [Enqueued(r, KmChan) EXCEPT !.kret = kret, !.pc = "kmem"]
           n == Raise(e, {"SNWAKE"})
<1>1. /\ n.stat = "SSLEEP" /\ n.pc = "kmem" /\ n.kret = kret /\ n.wchan = KmChan
      /\ n.site = r.site /\ n.disp = r.disp /\ n.sigmask = r.sigmask
      /\ n.flag = r.flag \cup {"SNWAKE"}
  BY DEF ProcType, Raise, Enqueued
<1>2. Swtch(p, n) /\ (KMEMSHORT \/ kret = "loop")
  BY DEF Sigcld
<1>4. n \in ProcType
  <2>1. Enqueued(r, KmChan) \in ProcType
    BY ConstantsAssumption DEF Enqueued, ProcType
  <2>2. [Enqueued(r, KmChan) EXCEPT !.kret = kret] \in ProcType
    BY <2>1, RecordType
  <2>3. e \in ProcType
    BY <2>2, RecordType
  <2> HIDE DEF e
  <2> QED BY <2>3 DEF ProcType, Raise, Flag
<1> HIDE DEF n, e
<1>3. cpu' = NULL /\ proc'[p] = [n EXCEPT !.stat = IF @ = "SONPROC" THEN "SRUN" ELSE @]
  BY <1>2 DEF Swtch, Put, IInv, TypeOK
<1>5. proc'[p] = n
  BY <1>1, <1>3, <1>4 DEF ProcType
<1> QED BY <1>1, <1>2, <1>3, <1>4, <1>5, NullFacts, ConstantsAssumption DEF Good, Local, Noticed,
   Stopped, Placed

(* pswtch() keeps what is claimed of the process it picks, wherever it     *)
(* gave up the CPU.                                                        *)
LEMMA DispatchGood ==
  ASSUME IInv, NEW p \in Proc, Dispatch(p)
  PROVE  Good(p)'
<1> DEFINE r == [proc[p] EXCEPT !.stat = "SONPROC"]
           t == [Drop(r, {"SNWAKE", "SNOSTOP", "SASLEEP"}) EXCEPT !.kret = NULL]
<1> USE NullFacts DEF Put, Run, Loop, Good, Local, Noticed, Stopped, Placed
<1>0. /\ proc \in [Proc -> ProcType] /\ proc[p] \in ProcType /\ Good(p) /\ proc[p].stat = "SRUN"
      /\ dispq' = dispq \ {p}
      /\ p \notin dispq' /\ p # NULL
  BY DEF IInv, TypeOK, Dispatch
<1>00. r \in ProcType /\ r.flag = proc[p].flag /\ r.disp = proc[p].disp
       /\ r.sigmask = proc[p].sigmask /\ r.stat = "SONPROC" /\ r.pc = proc[p].pc
       /\ r.kret = proc[p].kret /\ r.site = proc[p].site
      /\ r.wchan = proc[p].wchan
  BY <1>0 DEF ProcType
<1>1. CASE r.pc = "user" /\ Run(p, r)
  BY <1>0, <1>1 DEF ProcType
<1>2. CASE r.pc = "stopped" /\ Loop(p, r)
  BY <1>0, <1>2, ZenonT(60) DEF ProcType
<1>3. CASE r.pc = "jobstop" /\ Sigcld(p, r, "loop", Loop(p, r))
  <2>1. CASE Loop(p, r)
    BY <1>0, <1>3, <2>1, ZenonT(60) DEF ProcType
  <2>2. CASE ~Loop(p, r)
    <3> HIDE DEF r
    <3>1. Local(r) /\ Stopped(r)
      BY <1>0, <1>00, <1>3
    <3> QED BY <1>0, <1>00, <1>3, <2>2, <3>1, SigcldGood DEF Sigcld
  <2> QED BY <2>1, <2>2
<1>4. CASE r.pc = "kmem" /\ IF r.kret = "loop" THEN Loop(p, t) ELSE Swtch(p,
   [t EXCEPT !.pc = "jobstop"])
  <2>1. /\ t \in ProcType /\ t.flag = r.flag \ {"SNWAKE", "SNOSTOP", "SASLEEP"}
        /\ t.stat = r.stat /\ t.pc = r.pc /\ t.site = r.site /\ t.disp = r.disp
        /\ t.sigmask = r.sigmask
        /\ t.wchan = r.wchan
    BY <1>00 DEF ProcType, Drop
  <2> HIDE DEF t, r
  <2>2. CASE Loop(p, t)
    BY <1>0, <1>00, <1>4, <2>1, <2>2 DEF ProcType
  <2>3. CASE r.kret # "loop" /\ Swtch(p, [t EXCEPT !.pc = "jobstop"])
    <3> DEFINE n == [t EXCEPT !.pc = "jobstop"]
               m == [n EXCEPT !.stat = IF @ = "SONPROC" THEN "SRUN" ELSE @]
    <3>1. /\ n \in ProcType /\ n.flag = t.flag /\ n.stat = t.stat /\ n.pc = "jobstop"
          /\ n.site = t.site
          /\ n.disp = t.disp /\ n.sigmask = t.sigmask /\ n.wchan = t.wchan
      BY <2>1 DEF ProcType
    <3>2. cpu' = NULL /\ proc'[p] = m
      BY <1>0, <2>3 DEF Swtch
    <3> HIDE DEF n
    <3>3. /\ m \in ProcType /\ m.flag = n.flag /\ m.stat = "SRUN" /\ m.pc = n.pc /\ m.site = n.site
          /\ m.disp = n.disp /\ m.sigmask = n.sigmask /\ m.wchan = n.wchan
      BY <1>00, <2>1, <3>1 DEF ProcType
    <3> HIDE DEF m
    <3>4. KMEMSHORT
      BY <1>0, <1>00, <1>4, <2>3
    <3> QED BY <1>0, <1>00, <1>4, <2>1, <3>1, <3>2, <3>3, <3>4
  <2> QED BY <1>4, <2>2, <2>3
<1>5. CASE r.pc = "asleep" /\ r.disp = "high" /\ Run(p, Out(r))
  BY <1>0, <1>5, <1>00, OutFields, ZenonT(60)
<1>6. CASE r.pc = "asleep" /\ r.disp # "high" /\ r.sysabort /\ Run(p, Interrupted(r))
  <2> HIDE DEF r
  <2>1. cpu' = p /\ proc'[p] = Interrupted(r)
    BY <1>0, <1>6
  <2> QED BY <1>0, <1>6, <1>00, <2>1, InterruptedFields
<1>7. CASE r.pc = "asleep" /\ r.disp # "high" /\ ~r.sysabort /\ Loop(p, Raise(r, {"SASLEEP"}))
  <2> DEFINE n == Raise(r, {"SASLEEP"})
             m == [n EXCEPT !.pc = "issig"]
  <2>1. /\ n \in ProcType /\ n.flag = r.flag \cup {"SASLEEP"} /\ n.stat = r.stat /\ n.site = r.site
        /\ n.disp = r.disp /\ n.sigmask = r.sigmask /\ n.wchan = r.wchan
    BY <1>00 DEF ProcType, Raise, Flag
  <2> HIDE DEF n
  <2>2. /\ m \in ProcType /\ m.flag = n.flag /\ m.stat = n.stat /\ m.site = n.site /\ m.pc = "issig"
        /\ m.disp = n.disp /\ m.sigmask = n.sigmask /\ m.wchan = n.wchan
    BY <2>1 DEF ProcType
  <2>3. cpu' = p /\ proc'[p] = m
    BY <1>0, <1>7 DEF n
  <2> HIDE DEF m, r
  <2>4. "SNWAKE" \notin r.flag /\ r.site = "sleep2" /\ r.wchan = NULL /\ r.disp # NULL
    BY <1>0, <1>00, <1>7
  <2>5. Local(m)
    BY <1>0, <1>00, <1>7, <2>1, <2>2, <2>4
  <2>6. Noticed(m) /\ Stopped(m)
    BY <1>0, <1>00, <2>1, <2>2
  <2>7. Placed(p)'
    BY <1>0, <1>00, <2>1, <2>2, <2>3, <2>4
  <2> QED BY <2>2, <2>3, <2>5, <2>6, <2>7
<1> QED BY <1>1, <1>2, <1>3, <1>4, <1>5, <1>6, <1>7 DEF Dispatch

(* The last close of /proc keeps what is claimed of the process. *)
LEMMA PrcloseGood ==
  ASSUME IInv, NEW p \in Proc, Prclose(p)
  PROVE  Good(p)'
<1> DEFINE r == [Drop(proc[p], {"SPRSTOP", "SRUNLCL"}) EXCEPT !.sigmask = {}]
           t == Raise(r, {"SPSTART"})
<1>1. proc[p] \in ProcType /\ Good(p) /\ cpu = NULL /\ cpu' = cpu /\ "SRUNLCL" \in proc[p].flag
  BY DEF IInv, TypeOK, Prclose, Attached
<1>2. /\ r \in ProcType
      /\ r.stat = proc[p].stat /\ r.pc = proc[p].pc /\ r.kret = proc[p].kret
      /\ r.site = proc[p].site /\ r.disp = proc[p].disp
      /\ r.sigmask = {} /\ r.wchan = proc[p].wchan /\ r.flag = proc[p].flag \ {"SPRSTOP", "SRUNLCL"}
      /\ r.whystop = proc[p].whystop /\ r.sig = proc[p].sig /\ r.hold = proc[p].hold
      /\ r.cursig = proc[p].cursig
  BY <1>1 DEF ProcType, Drop
<1> HIDE DEF r
<1>3. /\ t \in ProcType
      /\ t.stat = r.stat /\ t.pc = r.pc /\ t.kret = r.kret /\ t.site = r.site /\ t.disp = r.disp
      /\ t.sigmask = r.sigmask /\ t.wchan = r.wchan /\ t.flag = r.flag \cup {"SPSTART"}
  BY <1>2 DEF ProcType, Raise, Flag
<1> HIDE DEF t
<1> USE <1>1, <1>2, <1>3, NullFacts
<1>4. CASE ByProc(proc[p])
  <2>1. Setrun(p, t) BY <1>4 DEF Prclose, t, r
  <2>2. Local(t) /\ ~Refused(t) /\ t.stat = "SSTOP"
    BY <1>4 DEF Good, Local, Stopped, Refused, ByProc
  <2> QED BY <2>1, <2>2, SetrunGood
<1>5. CASE ~ByProc(proc[p])
  <2>1. proc' = [proc EXCEPT ![p] = r] /\ dispq' = dispq BY <1>5 DEF Prclose, Put, r
  <2>2. proc'[p] = r BY <2>1 DEF IInv, TypeOK
  <2> QED BY <2>1, <2>2, <1>5 DEF Good, Local, Noticed, Stopped, Placed, ByProc
<1> QED BY <1>4, <1>5

(* stop() sets p_stat, p_whystop and the two start flags. *)
LEMMA StopFields ==
  ASSUME NEW r \in ProcType, NEW why \in Why
  PROVE  /\ Stop(r, why) \in ProcType
         /\ Stop(r, why).stat = "SSTOP" /\ Stop(r, why).whystop = why
         /\ Stop(r,
            why).flag = IF why = "PR_JOBCONTROL" THEN (r.flag \ {"SXSTART"}) \cup {"SPSTART"}
                                ELSE (r.flag \ {"SPSTART", "SPRSTOP"}) \cup {"SXSTART"}
         /\ Stop(r, why).sig = r.sig /\ Stop(r, why).cursig = r.cursig /\ Stop(r, why).hold = r.hold
         /\ Stop(r, why).pc = r.pc /\ Stop(r, why).site = r.site /\ Stop(r, why).disp = r.disp
         /\ Stop(r, why).sigmask = r.sigmask /\ Stop(r, why).wchan = r.wchan
         /\ Stop(r, why).kret = r.kret
<1>1. Stop(r, why) \in ProcType
  BY DEF ProcType, Stop, Flag
<1>2. Stop(r, why).flag = IF why = "PR_JOBCONTROL" THEN (r.flag \ {"SXSTART"}) \cup {"SPSTART"}
                                ELSE (r.flag \ {"SPSTART", "SPRSTOP"}) \cup {"SXSTART"}
  BY DEF ProcType, Stop
<1> QED BY <1>1, <1>2 DEF ProcType, Stop

(* PIOCSTOP keeps what is claimed of the process: a sleeper is stopped     *)
(* where it is, another is asked.                                          *)
LEMMA PiocstopGood ==
  ASSUME IInv, NEW p \in Proc, Piocstop(p)
  PROVE  Good(p)'
<1> DEFINE r == Stop(proc[p], "PR_REQUESTED")
           s == Raise(r, {"SASLEEP"})
           t == Raise(proc[p], {"SPRSTOP"})
<1>1. proc[p] \in ProcType /\ Good(p) /\ cpu = NULL /\ cpu' = cpu /\ "SRUNLCL" \in proc[p].flag
  BY DEF IInv, TypeOK, Piocstop, Attached
<1>2. CASE Stoppable(proc[p]) /\ Put(p, s) /\ dispq' = dispq \ {p}
  <2>1. s \in ProcType /\ s.flag = r.flag \cup {"SASLEEP"} /\ s.kret = r.kret /\ s.stat = r.stat
        /\ s.whystop = r.whystop /\ s.sig = r.sig /\ s.cursig = r.cursig
        /\ s.pc = r.pc /\ s.site = r.site /\ s.disp = r.disp /\ s.sigmask = r.sigmask
        /\ s.wchan = r.wchan
    <3>1. r \in ProcType
      BY <1>1, StopFields DEF Why
    <3> HIDE DEF r
    <3> QED BY <3>1 DEF ProcType, Raise, Flag
  <2>2. proc'[p] = s
    BY <1>2 DEF Put, IInv, TypeOK
  <2> HIDE DEF r, s
  <2>3. r.flag = (proc[p].flag \ {"SPSTART", "SPRSTOP"}) \cup {"SXSTART"} /\ r.stat = "SSTOP"
        /\ r.whystop = "PR_REQUESTED"
        /\ r.pc = proc[p].pc /\ r.kret = proc[p].kret /\ r.site = proc[p].site
        /\ r.disp = proc[p].disp /\ r.sigmask = proc[p].sigmask
        /\ r.sig = proc[p].sig /\ r.cursig = proc[p].cursig /\ r.wchan = proc[p].wchan
    BY <1>1, StopFields DEF r, Why
  <2> QED BY <1>1, <1>2, <2>1, <2>2, <2>3, NullFacts DEF Good, Local, Noticed, Stopped, Placed,
     Stoppable, CanStop, Why
<1>3. CASE ~Stoppable(proc[p]) /\ (proc[p].stat # "SSTOP" \/ "SPSTART" \in proc[p].flag)
           /\ Put(p, t) /\ dispq' = dispq
  <2>1. t \in ProcType /\ t.flag = proc[p].flag \cup {"SPRSTOP"} /\ t.stat = proc[p].stat
        /\ t.whystop = proc[p].whystop
        /\ t.sig = proc[p].sig /\ t.cursig = proc[p].cursig /\ t.hold = proc[p].hold
        /\ t.pc = proc[p].pc /\ t.kret = proc[p].kret /\ t.site = proc[p].site
        /\ t.disp = proc[p].disp /\ t.sigmask = proc[p].sigmask /\ t.wchan = proc[p].wchan
    BY <1>1 DEF ProcType, Raise, Flag
  <2>2. proc'[p] = t
    BY <1>3 DEF Put, IInv, TypeOK
  <2>3. ~(proc[p].pc = "asleep" /\ proc[p].stat = "SSLEEP" /\ proc[p].disp = "catch")
    BY <1>1, <1>3, ConstantsAssumption, NullFacts DEF Good, Local, Noticed, Stoppable, CanStop,
       ProcType, Sig
  <2> HIDE DEF t
  <2>4. Local(t) /\ Stopped(t)
    BY <1>1, <2>1 DEF Good, Local, Stopped
  <2>5. Noticed(t)
    BY <1>1, <2>1, <2>3 DEF Good, Noticed
  <2> QED BY <1>1, <1>3, <2>1, <2>2, <2>4, <2>5 DEF Good, Placed
<1> QED BY <1>2, <1>3 DEF Piocstop

(* PIOCSTRACE keeps what is claimed of the process. *)
LEMMA PiocstraceGood ==
  ASSUME IInv, NEW p \in Proc, NEW mask \in SUBSET Sig, Piocstrace(p, mask)
  PROVE  Good(p)'
<1>1. proc[p] \in ProcType /\ Good(p) /\ proc'[p] = [proc[p] EXCEPT !.sigmask = mask]
  BY DEF Piocstrace, Put, IInv, TypeOK
<1>2. proc'[p] \in ProcType
  BY <1>1 DEF ProcType
<1> QED BY <1>1, <1>2 DEF Piocstrace, Prlock, Attached, ProcType, Good, Local, Noticed, Stopped,
   Placed

(* The end of a system call keeps what is claimed of the process. *)
LEMMA ToUserGood ==
  ASSUME IInv, NEW p \in Proc, ToUser(p)
  PROVE  Good(p)'
<1>1. /\ proc[p] \in ProcType /\ Good(p) /\ proc'[p] = Goto(proc[p], "issig", "user")
      /\ proc[p].pc \in {"user", "kernel"} /\ cpu = p /\ cpu' = p /\ dispq' = dispq
  BY DEF ToUser, Running, Run, Put, IInv, TypeOK
<1> QED BY <1>1, GotoFields DEF Good, Local, Noticed, Stopped, Placed

(* The return from a handler keeps what is claimed of the process. *)
LEMMA HandlerReturnGood ==
  ASSUME IInv, NEW p \in Proc, HandlerReturn(p)
  PROVE  Good(p)'
<1> DEFINE h == [proc[p] EXCEPT !.hold = {}]
<1>1. /\ proc[p] \in ProcType /\ Good(p) /\ proc'[p] = Goto(h, "issig", "user")
      /\ proc[p].pc = "user" /\ cpu = p /\ cpu' = p /\ dispq' = dispq
  BY DEF HandlerReturn, Running, Run, Put, IInv, TypeOK
<1>2. /\ h \in ProcType /\ h.flag = proc[p].flag /\ h.stat = proc[p].stat /\ h.site = proc[p].site
      /\ h.disp = proc[p].disp /\ h.sigmask = proc[p].sigmask /\ h.wchan = proc[p].wchan
  BY <1>1 DEF ProcType
<1> HIDE DEF h
<1> QED BY <1>1, <1>2, GotoFields DEF Good, Local, Noticed, Stopped, Placed

(* preempt() keeps what is claimed of the process: it is SRUN and on a     *)
(* queue.                                                                  *)
LEMMA PreemptGood ==
  ASSUME IInv, NEW p \in Proc, Preempt(p)
  PROVE  Good(p)'
<1> DEFINE n == [proc[p] EXCEPT !.stat = IF @ = "SONPROC" THEN "SRUN" ELSE @]
<1>1. /\ proc[p] \in ProcType /\ Good(p) /\ proc'[p] = n
      /\ proc[p].pc = "user" /\ cpu = p /\ cpu' = NULL /\ dispq' = dispq \cup {p}
  BY DEF Preempt, Running, Swtch, Put, IInv, TypeOK
<1>2. /\ n \in ProcType /\ n.flag = proc[p].flag /\ n.stat = "SRUN" /\ n.site = proc[p].site
      /\ n.pc = "user"
      /\ n.disp = proc[p].disp /\ n.sigmask = proc[p].sigmask /\ n.wchan = proc[p].wchan
  BY <1>1 DEF ProcType, Good, Placed
<1> HIDE DEF n
<1> QED BY <1>1, <1>2, NullFacts DEF Good, Local, Noticed, Stopped, Placed

(* psig() keeps what is claimed of the process, which runs a handler or    *)
(* dies.                                                                   *)
LEMMA PsigGood ==
  ASSUME IInv, NEW p \in Proc, Psig(p)
  PROVE  Good(p)'
<1> DEFINE r == [proc[p] EXCEPT !.cursig = NULL]
           u == Goto(r, "user", "user")
           d == Goto(r, "dead", "user")
           sig == IF SIGKILL \in proc[p].sig THEN SIGKILL ELSE proc[p].cursig
<1>1. proc[p] \in ProcType /\ Good(p) /\ cpu = p /\ proc[p].pc = "psig" /\ dispq' = dispq
      /\ p # NULL
  BY NullFacts DEF IInv, TypeOK, Psig, Running
<1>2. /\ r \in ProcType /\ r.stat = proc[p].stat /\ r.disp = proc[p].disp /\ r.flag = proc[p].flag
      /\ r.sigmask = proc[p].sigmask /\ r.wchan = proc[p].wchan
  BY <1>1 DEF ProcType
<1>3. CASE sig \in Caught /\ Run(p, [u EXCEPT !.hold = @ \cup {sig}])
  <2> HIDE DEF r
  <2>1. u \in ProcType /\ u.stat = r.stat /\ u.disp = r.disp /\ u.flag = r.flag
        /\ u.sigmask = r.sigmask
        /\ u.wchan = r.wchan /\ u.pc = "user" /\ u.site = "user"
    BY <1>2, GotoFields
  <2> HIDE DEF u
  <2>2. cpu' = p /\ proc'[p] = [u EXCEPT !.hold = @ \cup {sig}]
    BY <1>3 DEF Run, Put, IInv, TypeOK
  <2> HIDE DEF sig
  <2>3. [u EXCEPT !.hold = @ \cup {sig}] \in ProcType
    BY <1>3, <2>1 DEF ProcType
  <2>4. /\ proc'[p].flag = u.flag /\ proc'[p].stat = u.stat /\ proc'[p].site = u.site
        /\ proc'[p].pc = u.pc
        /\ proc'[p].disp = u.disp /\ proc'[p].sigmask = u.sigmask /\ proc'[p].wchan = u.wchan
    BY <2>1, <2>2 DEF ProcType
  <2> QED BY <1>1, <1>2, <2>1, <2>2, <2>3, <2>4 DEF Good, Local, Noticed, Stopped, Placed
<1>4. CASE Swtch(p, [d EXCEPT !.stat = "SZOMB", !.sig = {}])
  <2> HIDE DEF r
  <2>1. d \in ProcType /\ d.disp = r.disp /\ d.flag = r.flag /\ d.sigmask = r.sigmask
        /\ d.wchan = r.wchan /\ d.pc = "dead" /\ d.site = "user"
    BY <1>2, GotoFields
  <2> HIDE DEF d
  <2>2. cpu' = NULL /\ proc'[p] = [[d EXCEPT !.stat = "SZOMB",
     !.sig = {}] EXCEPT !.stat = IF @ = "SONPROC" THEN "SRUN" ELSE @]
    BY <1>4 DEF Swtch, Put, IInv, TypeOK
  <2>3. [d EXCEPT !.stat = "SZOMB", !.sig = {}] \in ProcType
    BY <2>1 DEF ProcType
  <2>4. /\ proc'[p] = [d EXCEPT !.stat = "SZOMB", !.sig = {}]
        /\ proc'[p].stat = "SZOMB" /\ proc'[p].flag = d.flag /\ proc'[p].site = d.site
        /\ proc'[p].pc = d.pc
        /\ proc'[p].disp = d.disp /\ proc'[p].sigmask = d.sigmask /\ proc'[p].wchan = d.wchan
    BY <2>1, <2>2 DEF ProcType
  <2> QED BY <1>1, <1>2, <2>1, <2>2, <2>3, <2>4 DEF Good, Local, Noticed, Stopped, Placed
<1> QED BY <1>3, <1>4 DEF Psig

(* The head of sleep() keeps what is claimed of the process, at any        *)
(* priority.                                                               *)
LEMMA SleepGood ==
  ASSUME IInv, NEW p \in Proc, NEW chan \in Chan, NEW disp \in Disp, Sleep(p, chan, disp)
  PROVE  Good(p)'
<1> DEFINE r == [Enqueued(proc[p], chan) EXCEPT !.disp = disp]
           t == [Drop(r, {"SNWAKE", "SNOSTOP"}) EXCEPT !.sysabort = FALSE]
           nostop == IF disp = "nostop" THEN {"SNOSTOP"} ELSE {}
           h == Raise(r, {"SNWAKE"})
           l == Raise(t, {"SASLEEP"} \cup nostop)
<1>1. /\ proc[p] \in ProcType /\ Good(p) /\ cpu = p /\ proc[p].pc \in {"user", "kernel"}
      /\ dispq' = dispq /\ p # NULL
      /\ chan # NULL /\ NULL \notin Disp
  BY NullFacts, ConstantsAssumption DEF IInv, TypeOK, Sleep, Running
<1>2. /\ r \in ProcType /\ r.stat = "SSLEEP" /\ r.disp = disp /\ r.flag = proc[p].flag
      /\ r.sigmask = proc[p].sigmask /\ r.wchan = chan
  <2>1. Enqueued(proc[p], chan) \in ProcType
    BY <1>1 DEF Enqueued, ProcType
  <2>2. r \in ProcType
    BY <2>1, RecordType
  <2> QED BY <1>1, <2>2 DEF ProcType, Enqueued
<1> HIDE DEF r
<1>3. CASE disp = "high" /\ Swtch(p, Goto(h, "asleep", "sleep2"))
  <2>1. h \in ProcType /\ h.stat = r.stat /\ h.disp = r.disp /\ h.flag = r.flag \cup {"SNWAKE"}
        /\ h.sigmask = r.sigmask /\ h.wchan = r.wchan
    BY <1>2 DEF ProcType, Raise, Flag
  <2> DEFINE n == Goto(h, "asleep", "sleep2")
  <2> HIDE DEF h
  <2>2. n \in ProcType /\ n.stat = h.stat /\ n.disp = h.disp /\ n.flag = h.flag
        /\ n.sigmask = h.sigmask
        /\ n.wchan = h.wchan /\ n.pc = "asleep" /\ n.site = "sleep2"
    BY <2>1, GotoFields
  <2> HIDE DEF n
  <2>3. cpu' = NULL /\ proc'[p] = [n EXCEPT !.stat = IF @ = "SONPROC" THEN "SRUN" ELSE @]
    BY <1>3 DEF Swtch, Put, IInv, TypeOK, n
  <2>4. proc'[p] = n
    BY <1>2, <2>1, <2>2, <2>3 DEF ProcType
  <2>5. Good(p) /\ "SNOSTOP" \notin proc[p].flag
    BY <1>1, NullFacts DEF Good, Local
  <2>6. Local(n)
    BY <1>1, <1>2, <1>3, <2>1, <2>2, <2>5, NullFacts DEF Good, Local
  <2>7. Stopped(n) /\ Noticed(n)
    BY <1>1, <1>2, <1>3, <2>1, <2>2, NullFacts DEF Good, Stopped, Noticed
  <2>8. Placed(p)'
    BY <1>1, <1>2, <2>1, <2>2, <2>3, <2>4 DEF Good, Placed
  <2> QED BY <2>2, <2>4, <2>6, <2>7, <2>8 DEF Good
<1>4. CASE disp # "high" /\ Run(p, Goto(l, "issig", "sleep1"))
  <2>1. t \in ProcType /\ t.stat = r.stat /\ t.disp = r.disp
        /\ t.flag = r.flag \ {"SNWAKE", "SNOSTOP"}
        /\ t.sigmask = r.sigmask /\ t.wchan = r.wchan
    BY <1>2 DEF ProcType, Drop
  <2> HIDE DEF t
  <2>2. l \in ProcType /\ l.stat = t.stat /\ l.disp = t.disp
        /\ l.flag = t.flag \cup {"SASLEEP"} \cup nostop
        /\ l.sigmask = t.sigmask /\ l.wchan = t.wchan
    BY <2>1 DEF ProcType, Raise, Flag
  <2> DEFINE n == Goto(l, "issig", "sleep1")
  <2> HIDE DEF l
  <2>3. n \in ProcType /\ n.stat = l.stat /\ n.disp = l.disp /\ n.flag = l.flag
        /\ n.sigmask = l.sigmask
        /\ n.wchan = l.wchan /\ n.pc = "issig" /\ n.site = "sleep1"
    BY <2>2, GotoFields
  <2>4. cpu' = p /\ proc'[p] = n
    BY <1>4 DEF Run, Put, IInv, TypeOK
  <2> HIDE DEF n
  <2>5. Good(p)
    BY <1>1
  <2>6. Local(n)
    BY <1>1, <1>2, <1>4, <2>1, <2>2, <2>3, NullFacts DEF Good, Local
  <2>7. Stopped(n) /\ Noticed(n)
    BY <1>1, <1>2, <1>4, <2>1, <2>2, <2>3, NullFacts DEF Good, Stopped, Noticed
  <2>8. Placed(p)'
    BY <1>1, <1>2, <2>1, <2>2, <2>3, <2>4 DEF Good, Placed
  <2> QED BY <2>3, <2>4, <2>6, <2>7, <2>8 DEF Good
<1> QED BY <1>3, <1>4 DEF Sleep, r

(* fsig() returns NULL when all pending signals are held, else one that is *)
(* not.                                                                    *)
LEMMA FsigFound ==
  ASSUME NEW r \in ProcType
  PROVE  /\ r.sig \subseteq r.hold => Fsig(r) = NULL
         /\ ~(r.sig \subseteq r.hold) => Fsig(r) \in r.sig \ r.hold
<1> SUFFICES ASSUME ~(r.sig \subseteq r.hold)
             PROVE  Fsig(r) \in r.sig \ r.hold
  BY DEF Fsig
<1> DEFINE I == {i \in 1..Len(SigOrder) : SigOrder[i] \in r.sig \ r.hold}
<1>1. /\ SigOrder[1] = SIGKILL /\ SigOrder[2] = SIGUSR /\ SigOrder[3] = SIGTSTP
      /\ SigOrder[4] = SIGCONT
      /\ Len(SigOrder) = 4
  BY DEF SigOrder
<1>2. PICK g \in Sig : g \in r.sig \ r.hold
  BY DEF ProcType
<1>3. \E i \in 1..4 : SigOrder[i] = g
  BY <1>1, <1>2 DEF Sig
<1>4. I # {} /\ I \in SUBSET Nat
  BY <1>1, <1>2, <1>3
<1> HIDE DEF I
<1>5. Min(I) \in I
  BY <1>4, LeastMember
<1>6. Fsig(r) = SigOrder[Min(I)]
  BY <1>4 DEF Fsig, SelectInSeq, I
<1> QED BY <1>5, <1>6 DEF I

(* A signal found by issig() keeps what is claimed of the process. *)
LEMMA SigFoundGood ==
  ASSUME IInv, NEW p \in Proc, Running(p, "issig"), SigFound(p), dispq' = dispq
  PROVE  Good(p)'
<1> DEFINE r == proc[p]
           w == [r EXCEPT !.wchan = NULL, !.stat = "SONPROC"]
           psig == Goto(r, "psig", "user")
<1>1. r \in ProcType /\ Good(p) /\ cpu = p /\ r.pc = "issig" /\ p # NULL
  BY NullFacts DEF IInv, TypeOK, Running
<1>2. CASE r.site = "user" /\ Run(p, psig)
  <2>1. psig \in ProcType /\ psig.stat = r.stat /\ psig.disp = r.disp /\ psig.flag = r.flag
        /\ psig.sigmask = r.sigmask
        /\ psig.wchan = r.wchan /\ psig.pc = "psig" /\ psig.site = "user"
    BY <1>1, GotoFields
  <2> HIDE DEF psig
  <2>2. cpu' = p /\ proc'[p] = psig
    BY <1>2 DEF Run, Put, IInv, TypeOK
  <2> QED BY <1>1, <1>2, <2>1, <2>2 DEF Good, Local, Noticed, Stopped, Placed
<1>3. CASE Run(p, Interrupted(w))
  <2>1. w \in ProcType /\ w.stat = "SONPROC" /\ w.wchan = NULL /\ w.flag = r.flag
        /\ w.sigmask = r.sigmask
    BY <1>1 DEF ProcType
  <2> HIDE DEF w
  <2>2. cpu' = p /\ proc'[p] = Interrupted(w)
    BY <1>3 DEF Run, Put, IInv, TypeOK
  <2> QED BY <1>1, <2>1, <2>2, InterruptedFields, NullFacts DEF Good, Local, Noticed, Stopped,
     Placed
<1>4. CASE r.site # "user" /\ r.stat # "SSLEEP" /\ Run(p, Interrupted(r))
  <2>2. cpu' = p /\ proc'[p] = Interrupted(r)
    BY <1>4 DEF Run, Put, IInv, TypeOK
  <2> QED BY <1>1, <1>4, <2>2, InterruptedFields, NullFacts DEF Good, Local, Noticed, Stopped,
     Placed
<1> QED BY <1>2, <1>3, <1>4 DEF SigFound

(* issig() returning 0 keeps what is claimed: a sleeper that gives up the  *)
(* CPU has nothing to attend to.                                           *)
LEMMA NoSigGood ==
  ASSUME IInv, NEW p \in Proc, Running(p, "issig"), NoSig(p), dispq' = dispq,
         proc[p].cursig = NULL, proc[p].sig \subseteq proc[p].hold, ~HonorStop(proc[p])
  PROVE  Good(p)'
<1> DEFINE r == proc[p]
           a == Drop(r, {"SASLEEP"})
           n == Goto(a, "asleep", "sleep2")
           m == [n EXCEPT !.stat = IF @ = "SONPROC" THEN "SRUN" ELSE @]
           u == Goto(r, "user", "user")
<1>1. r \in ProcType /\ Good(p) /\ cpu = p /\ r.pc = "issig" /\ p # NULL
  BY NullFacts DEF IInv, TypeOK, Running
<1>2. CASE r.site = "user" /\ Run(p, u)
  <2>1. u \in ProcType /\ u.stat = r.stat /\ u.disp = r.disp /\ u.flag = r.flag
        /\ u.sigmask = r.sigmask
        /\ u.wchan = r.wchan /\ u.pc = "user" /\ u.site = "user"
    BY <1>1, GotoFields
  <2> HIDE DEF u
  <2>2. cpu' = p /\ proc'[p] = u
    BY <1>2 DEF Run, Put, IInv, TypeOK
  <2> QED BY <1>1, <1>2, <2>1, <2>2 DEF Good, Local, Noticed, Stopped, Placed
<1>3. CASE SigFound(p)
  BY <1>3, SigFoundGood
<1>4. CASE r.wchan = NULL /\ Run(p, Out(r))
  <2>1. cpu' = p /\ proc'[p] = Out(r)
    BY <1>4 DEF Run, Put, IInv, TypeOK
  <2> QED BY <1>1, <1>4, <2>1, OutFields, NullFacts DEF Good, Local, Noticed, Stopped, Placed
<1>5. CASE r.site # "user" /\ r.wchan # NULL /\ Swtch(p, n)
  <2>1. /\ a \in ProcType /\ a.stat = r.stat /\ a.disp = r.disp /\ a.flag = r.flag \ {"SASLEEP"}
        /\ a.sigmask = r.sigmask /\ a.wchan = r.wchan /\ a.sig = r.sig /\ a.cursig = r.cursig
        /\ a.hold = r.hold
    BY <1>1 DEF ProcType, Drop
  <2> HIDE DEF a
  <2>2. /\ n \in ProcType /\ n.stat = a.stat /\ n.disp = a.disp /\ n.flag = a.flag
        /\ n.sigmask = a.sigmask
        /\ n.wchan = a.wchan /\ n.sig = a.sig /\ n.cursig = a.cursig /\ n.hold = a.hold
        /\ n.pc = "asleep" /\ n.site = "sleep2"
    BY <2>1, GotoFields
  <2>3. cpu' = NULL /\ proc'[p] = m
    BY <1>5 DEF Swtch, Put, IInv, TypeOK
  <2> HIDE DEF n
  <2>4. m = n
    BY <1>1, <1>5, <2>1, <2>2 DEF Good, Local, ProcType
  <2> HIDE DEF m
  <2>5. r.disp = "catch" => "SPRSTOP" \notin r.flag
    BY <1>1, ConstantsAssumption, NullFacts DEF HonorStop, JustLooking, CanStop, ProcType, Sig
  <2>6. r.disp # NULL
    BY <1>1, <1>5 DEF Good, Local
  <2> QED BY <1>1, <1>5, <2>1, <2>2, <2>3, <2>4, <2>5, NullFacts DEF Good, Local, Noticed,
     Stopped, Placed
<1> QED BY <1>2, <1>3, <1>4, <1>5 DEF NoSig

(* A stop in issig() keeps what is claimed of the process. *)
LEMMA StopGood ==
  ASSUME IInv, NEW p \in Proc, NEW r \in ProcType, NEW why \in Why,
         NEW pc \in {"stopped", "jobstop"},
         Swtch(p, [Stop(r, why) EXCEPT !.pc = pc]), dispq' = dispq \ {p},
         Local(r), Stopped(r), CanStop(r), r.pc = "issig",
         "SRUNLCL" \notin r.flag => why = "PR_JOBCONTROL"
  PROVE  Good(p)'
<1> DEFINE s == Stop(r, why)
           n == [s EXCEPT !.pc = pc]
<1>1. /\ s \in ProcType /\ s.stat = "SSTOP" /\ s.whystop = why
      /\ s.flag = IF why = "PR_JOBCONTROL" THEN (r.flag \ {"SXSTART"}) \cup {"SPSTART"}
                  ELSE (r.flag \ {"SPSTART", "SPRSTOP"}) \cup {"SXSTART"}
      /\ s.sig = r.sig /\ s.cursig = r.cursig /\ s.site = r.site /\ s.disp = r.disp
      /\ s.sigmask = r.sigmask /\ s.wchan = r.wchan
  BY StopFields, ZenonT(60)
<1> HIDE DEF s
<1>2. /\ n \in ProcType /\ n.stat = "SSTOP" /\ n.whystop = why /\ n.flag = s.flag
      /\ n.sig = s.sig /\ n.cursig = s.cursig /\ n.pc = pc /\ n.site = s.site /\ n.disp = s.disp
      /\ n.sigmask = s.sigmask /\ n.wchan = s.wchan
  BY <1>1 DEF ProcType
<1>3. cpu' = NULL /\ proc'[p] = [n EXCEPT !.stat = IF @ = "SONPROC" THEN "SRUN" ELSE @]
  BY DEF Swtch, Put, IInv, TypeOK, s
<1> HIDE DEF n
<1>4. proc'[p] = n
  BY <1>2, <1>3 DEF ProcType
<1>5. Local(n)
  BY <1>1, <1>2 DEF Local
<1>6. Stopped(n) /\ Noticed(n)
  BY <1>1, <1>2, NullFacts DEF Local, Stopped, CanStop, Noticed, Why
<1> QED BY <1>2, <1>3, <1>4, <1>5, <1>6, NullFacts DEF Good, Placed

(* Another turn of the loop of issig(). *)
LEMMA LoopGood ==
  ASSUME IInv, NEW p \in Proc, NEW r \in ProcType, Loop(p, r), dispq' = dispq, cpu = p,
         Local(r), Stopped(r), r.stat = proc[p].stat, r.site = proc[p].site, r.pc = "issig"
  PROVE  Good(p)'
<1>1. cpu' = p /\ proc'[p] = [r EXCEPT !.pc = "issig"] /\ Good(p)
  BY DEF Loop, Run, Put, IInv, TypeOK
<1>2. proc'[p] = r
  BY <1>1 DEF ProcType
<1> QED BY <1>1, <1>2 DEF Good, Placed, Noticed

(* isjobstop() keeps what is claimed of the process, whether it stops, is  *)
(* orphaned, is killed or sleeps for memory.                               *)
LEMMA IsjobstopGood ==
  ASSUME IInv, NEW p \in Proc, Running(p, "issig"), Isjobstop(p)
  PROVE  Good(p)'
<1> DEFINE r == [proc[p] EXCEPT !.cursig = NULL]
           c == [r EXCEPT !.sig = @ \ {SIGCONT}]
           s == Stop(r, "PR_JOBCONTROL")
           t == [s EXCEPT !.pc = "jobstop"]
<1>1. proc[p] \in ProcType /\ Good(p) /\ cpu = p /\ proc[p].pc = "issig" /\ p # NULL
  BY NullFacts DEF IInv, TypeOK, Running
<1>2. /\ r \in ProcType /\ r.pc = "issig" /\ r.stat = proc[p].stat /\ r.site = proc[p].site
      /\ r.flag = proc[p].flag /\ r.disp = proc[p].disp /\ r.sigmask = proc[p].sigmask
      /\ r.wchan = proc[p].wchan /\ r.sig = proc[p].sig /\ r.cursig = NULL
      /\ r.whystop = proc[p].whystop
  BY <1>1 DEF ProcType
<1> HIDE DEF r
<1>4. Local(r) /\ Stopped(r) /\ p \notin dispq /\ r.stat # "SSTOP"
  BY <1>1, <1>2, NullFacts DEF Good, Local, Stopped, Placed, Sig
<1>5. CASE Loop(p, c) /\ dispq' = dispq
  <2>1. /\ c \in ProcType /\ c.pc = "issig" /\ c.stat = r.stat /\ c.site = r.site
        /\ c.flag = r.flag /\ c.disp = r.disp /\ c.sigmask = r.sigmask
        /\ c.wchan = r.wchan /\ c.sig = r.sig \ {SIGCONT} /\ c.cursig = NULL
        /\ c.whystop = r.whystop
    BY <1>2 DEF ProcType
  <2> HIDE DEF c
  <2>2. Local(c) /\ Stopped(c)
    BY <1>2, <1>4, <2>1 DEF Local, Stopped
  <2> QED BY <1>1, <1>2, <1>5, <2>1, <2>2, LoopGood
<1>6. CASE Loop(p, r) /\ dispq' = dispq
  BY <1>1, <1>2, <1>4, <1>6, LoopGood
<1>7. CASE Sigcld(p, r, "loop", Loop(p, r)) /\ dispq' = dispq
  <2>1. CASE ~Loop(p, r)
    BY <1>2, <1>4, <1>7, <2>1, SigcldGood
  <2> QED BY <1>6, <1>7, <2>1
<1>8. CASE CanStop(r) /\ Sigcld(p, t, "swtch", Swtch(p, t)) /\ dispq' = dispq \ {p}
  <2>1. CASE Swtch(p, t)
    BY <1>2, <1>4, <1>8, <2>1, StopGood DEF Why
  <2>2. CASE ~Swtch(p, t)
    <3>1. /\ s \in ProcType /\ s.stat = "SSTOP" /\ s.whystop = "PR_JOBCONTROL"
          /\ s.flag = (r.flag \ {"SXSTART"}) \cup {"SPSTART"}
          /\ s.sig = r.sig /\ s.cursig = r.cursig /\ s.site = r.site /\ s.disp = r.disp
          /\ s.sigmask = r.sigmask /\ s.wchan = r.wchan
      BY <1>2, StopFields DEF Why
    <3> HIDE DEF s
    <3>2. /\ t \in ProcType /\ t.stat = "SSTOP" /\ t.whystop = "PR_JOBCONTROL" /\ t.flag = s.flag
          /\ t.sig = s.sig /\ t.cursig = s.cursig /\ t.pc = "jobstop" /\ t.site = s.site
          /\ t.disp = s.disp
          /\ t.sigmask = s.sigmask /\ t.wchan = s.wchan
      BY <3>1 DEF ProcType
    <3> HIDE DEF t
    <3>3. Local(t) /\ Stopped(t)
      BY <1>2, <1>4, <1>8, <3>1, <3>2, NullFacts DEF Local, Stopped, CanStop, Why
    <3> QED BY <1>8, <2>2, <3>2, <3>3, SigcldGood
  <2> QED BY <2>1, <2>2
<1> QED BY <1>5, <1>6, <1>7, <1>8 DEF Isjobstop, r

(* Every way through the loop of issig() keeps what is claimed of the      *)
(* process.                                                                *)
LEMMA IssigGood ==
  ASSUME IInv, NEW p \in Proc, Issig(p)
  PROVE  Good(p)'
<1> DEFINE r == proc[p]
           sig == Fsig(r)
           t == [r EXCEPT !.sig = @ \ {sig}, !.cursig = sig]
           c == [r EXCEPT !.cursig = NULL]
           g == [r EXCEPT !.sig = @ \ {sig}]
<1>1. r \in ProcType /\ Good(p) /\ Running(p, "issig") /\ cpu = p /\ r.pc = "issig"
  BY DEF IInv, TypeOK, Issig, IssigRequested, IssigCurrent, IssigPending, Running
<1>2. Local(r) /\ Stopped(r) /\ r.stat # "SSTOP"
  BY <1>1 DEF Good, Placed
<1>3. CASE IssigRequested(p)
  BY <1>1, <1>2, <1>3, StopGood DEF IssigRequested, HonorStop, Why, Stopped
<1>4. CASE IssigCurrent(p)
  <2>1. CASE SigFound(p) /\ dispq' = dispq
    BY <1>1, <2>1, SigFoundGood
  <2>2. CASE Loop(p, c) /\ dispq' = dispq
    <3>1. /\ c \in ProcType /\ c.pc = "issig" /\ c.stat = r.stat /\ c.site = r.site
          /\ c.flag = r.flag /\ c.disp = r.disp /\ c.sigmask = r.sigmask
          /\ c.wchan = r.wchan /\ c.sig = r.sig /\ c.whystop = r.whystop
      BY <1>1 DEF ProcType
    <3> HIDE DEF c
    <3>2. Local(c) /\ Stopped(c)
      BY <1>1, <1>2, <3>1 DEF Local, Stopped
    <3> QED BY <1>1, <2>2, <3>1, <3>2, LoopGood
  <2>3. CASE Isjobstop(p)
    BY <1>1, <2>3, IsjobstopGood
  <2> QED BY <1>4, <2>1, <2>2, <2>3 DEF IssigCurrent
<1>5. CASE IssigPending(p)
  <2>0. ~HonorStop(r) /\ r.cursig = NULL
    BY <1>5 DEF IssigPending
  <2>1. CASE sig = NULL /\ NoSig(p) /\ dispq' = dispq
    <3>1. r.sig \subseteq r.hold
      BY <1>1, <2>1, FsigFound, NullFacts DEF ProcType
    <3> QED BY <1>1, <2>0, <2>1, <3>1, NoSigGood
  <2>2. CASE SigFound(p) /\ dispq' = dispq
    BY <1>1, <2>2, SigFoundGood
  <2>3. CASE sig # NULL /\ Loop(p, g) /\ dispq' = dispq
    <3> HIDE DEF sig
    <3>1. /\ g \in ProcType /\ g.pc = "issig" /\ g.stat = r.stat /\ g.site = r.site
          /\ g.flag = r.flag /\ g.disp = r.disp /\ g.sigmask = r.sigmask
          /\ g.wchan = r.wchan /\ g.sig \subseteq r.sig /\ g.whystop = r.whystop
      BY <1>1 DEF ProcType
    <3> HIDE DEF g
    <3>2. Local(g) /\ Stopped(g)
      BY <1>1, <1>2, <3>1 DEF Local, Stopped
    <3> QED BY <1>1, <2>3, <3>1, <3>2, LoopGood
  <2>4. ASSUME sig # NULL
        PROVE  /\ t \in ProcType /\ t.pc = "issig" /\ t.stat = r.stat /\ t.site = r.site
               /\ t.flag = r.flag /\ t.disp = r.disp /\ t.sigmask = r.sigmask
               /\ t.wchan = r.wchan /\ t.whystop = r.whystop
               /\ Local(t) /\ Stopped(t)
    <3>1. sig \in Sig
      BY <1>1, <2>4, FsigFound DEF ProcType
    <3> HIDE DEF sig
    <3>2. /\ t \in ProcType /\ t.pc = "issig" /\ t.stat = r.stat /\ t.site = r.site
          /\ t.flag = r.flag /\ t.disp = r.disp /\ t.sigmask = r.sigmask
          /\ t.wchan = r.wchan /\ t.whystop = r.whystop
      BY <1>1, <3>1 DEF ProcType
    <3> HIDE DEF t
    <3> QED BY <1>1, <1>2, <3>2 DEF Local, Stopped
  <2>5. CASE sig # NULL /\ Tracing(r, sig) /\ CanStop(t) /\ dispq' = dispq \ {p}
                /\ Swtch(p, [Stop(t, "PR_SIGNALLED") EXCEPT !.pc = "stopped"])
    <3>1. "SRUNLCL" \in t.flag
      BY <1>2, <2>4, <2>5 DEF Local, Tracing
    <3> HIDE DEF t, sig
    <3> QED BY <2>4, <2>5, <3>1, StopGood DEF Why
  <2>6. CASE sig # NULL /\ Loop(p, t) /\ dispq' = dispq
    <3> HIDE DEF t, sig
    <3> QED BY <1>1, <2>4, <2>6, LoopGood
  <2> QED BY <1>5, <2>1, <2>2, <2>3, <2>5, <2>6 DEF IssigPending
<1> QED BY <1>3, <1>4, <1>5 DEF Issig

(* A signal keeps what is claimed of the process it is posted to, in any   *)
(* state of it.                                                            *)
LEMMA PsignalGood ==
  ASSUME IInv, NEW p \in Proc, NEW sig \in Sig, Psignal(p, sig)
  PROVE  Good(p)'
<1> DEFINE posted == Tracing(proc[p], sig) \/ sig \notin Ignored
           S == (proc[p].sig \ CancelStops(sig)) \cup (IF posted THEN {sig} ELSE {})
           r == [proc[p] EXCEPT !.sig = S]
           jobs == sig = SIGCONT /\ r.stat = "SSTOP" /\ r.whystop = "PR_JOBCONTROL"
           x == Raise(r, {"SXSTART"})
           b == Raise(r, {"SXSTART", "SPSTART"})
           u == [r EXCEPT !.wchan = NULL]
<1>1. proc[p] \in ProcType /\ Good(p) /\ cpu' = cpu /\ proc[p].pc # "dead" /\ Interruptible
  BY DEF IInv, TypeOK, Psignal
<1>2. S \in SUBSET Sig /\ S \subseteq proc[p].sig \cup {sig} /\ (~posted => S \subseteq proc[p].sig)
  BY <1>1 DEF ProcType
<1> HIDE DEF S
<1>3. /\ r \in ProcType /\ r.pc = proc[p].pc /\ r.kret = proc[p].kret /\ r.stat = proc[p].stat
      /\ r.site = proc[p].site
      /\ r.flag = proc[p].flag /\ r.disp = proc[p].disp /\ r.sigmask = proc[p].sigmask
      /\ r.wchan = proc[p].wchan /\ r.sig = S /\ r.cursig = proc[p].cursig
      /\ r.whystop = proc[p].whystop
      /\ r.hold = proc[p].hold
  BY <1>1, <1>2 DEF ProcType
<1>4. Sigtoproc(p, sig)
  BY DEF Psignal
<1> DEFINE sleeper == r.stat = "SSLEEP" /\ "SNWAKE" \notin r.flag /\ sig \notin r.hold
           killed == r.stat = "SSTOP" /\ sig = SIGKILL
           stopped == r.stat = "SSTOP" /\ sig # SIGKILL /\ r.wchan # NULL /\ "SNWAKE" \notin r.flag
<1>5. /\ jobs => Setrun(p, x)
      /\ ~jobs /\ posted => WakeOnSignal(p, r, sig)
      /\ ~jobs /\ ~posted => Put(p, r) /\ dispq' = dispq
  BY <1>4 DEF Sigtoproc, S
<1>6. \/ jobs /\ Setrun(p, x)
      \/ posted /\ sleeper /\ Setrun(p, r)
      \/ killed /\ Setrun(p, b)
      \/ stopped /\ Put(p, u) /\ dispq' = dispq
      \/ (posted => ~sleeper /\ ~killed) /\ Put(p, r) /\ dispq' = dispq
  <2> HIDE DEF r, jobs, posted
  <2> QED BY <1>5 DEF WakeOnSignal, Unsleep
<1>7. cpu = p => r.stat # "SSTOP" /\ r.stat # "SSLEEP"
  BY <1>1, <1>3, NullFacts DEF Good, Placed, Interruptible
<1>8. "SRUNLCL" \notin r.flag => "SPRSTOP" \notin r.flag
  BY <1>1, <1>3 DEF Good, Stopped
<1> HIDE DEF r, posted
<1>9. Local(r)
  BY <1>1, <1>3 DEF Good, Local
<1>10. CASE jobs /\ Setrun(p, x)
  <2>1. /\ x \in ProcType /\ x.pc = r.pc /\ x.kret = r.kret /\ x.stat = r.stat /\ x.site = r.site
        /\ x.flag = r.flag \cup {"SXSTART"}
        /\ x.disp = r.disp /\ x.sigmask = r.sigmask /\ x.wchan = r.wchan
    BY <1>3 DEF ProcType, Raise, Flag
  <2> HIDE DEF x
  <2>2. Local(x) /\ ~Refused(x)
    BY <1>1, <1>3, <1>9, <1>10, <2>1 DEF Good, Local, Stopped, Refused
  <2> QED BY <1>1, <1>3, <1>7, <1>8, <1>10, <2>1, <2>2, SetrunGood
<1>11. CASE sleeper /\ Setrun(p, r)
  <2>1. ~Refused(r)
    BY <1>11 DEF Refused
  <2> QED BY <1>1, <1>3, <1>7, <1>8, <1>9, <1>11, <2>1, SetrunGood
<1>12. CASE killed /\ Setrun(p, b)
  <2>1. /\ b \in ProcType /\ b.pc = r.pc /\ b.kret = r.kret /\ b.stat = r.stat /\ b.site = r.site
        /\ b.flag = r.flag \cup {"SXSTART", "SPSTART"}
        /\ b.disp = r.disp /\ b.sigmask = r.sigmask /\ b.wchan = r.wchan
    BY <1>3 DEF ProcType, Raise, Flag
  <2> HIDE DEF b
  <2>2. Local(b) /\ ~Refused(b)
    BY <1>9, <1>12, <2>1 DEF Local, Refused
  <2> QED BY <1>1, <1>3, <1>7, <1>8, <1>12, <2>1, <2>2, SetrunGood
<1>13. CASE stopped /\ Put(p, u) /\ dispq' = dispq
  <2>1. /\ u \in ProcType /\ u.pc = r.pc /\ u.kret = r.kret /\ u.stat = r.stat /\ u.site = r.site
        /\ u.flag = r.flag
        /\ u.disp = r.disp /\ u.sigmask = r.sigmask /\ u.wchan = NULL /\ u.sig = r.sig
        /\ u.cursig = r.cursig /\ u.whystop = r.whystop
    BY <1>3 DEF ProcType
  <2> HIDE DEF u
  <2>2. proc'[p] = u
    BY <1>13 DEF Put, IInv, TypeOK
  <2>3. SIGKILL \notin u.sig
    BY <1>1, <1>2, <1>3, <1>13, <2>1 DEF Good, Stopped
  <2> QED BY <1>1, <1>3, <1>9, <1>13, <2>1, <2>2, <2>3 DEF Good, Local, Noticed, Stopped, Placed
<1>14. CASE (posted => ~sleeper /\ ~killed) /\ Put(p, r) /\ dispq' = dispq
  <2>1. proc'[p] = r
    BY <1>14 DEF Put, IInv, TypeOK
  <2>2. Noticed(r)
    BY <1>1, <1>2, <1>3, <1>14 DEF Good, Local, Noticed
  <2>3. Stopped(r)
    BY <1>1, <1>2, <1>3, <1>14 DEF Good, Stopped
  <2> QED BY <1>1, <1>3, <1>9, <1>14, <2>1, <2>2, <2>3 DEF Good, Placed
<1> QED BY <1>6, <1>10, <1>11, <1>12, <1>13, <1>14

(* wakeup() keeps what is claimed of every process. *)
LEMMA WakeupGood ==
  ASSUME IInv, NEW chan \in Chan, Wakeup(chan), NEW p \in Proc
  PROVE  Good(p)'
<1> DEFINE run == {q \in Woken(chan) : proc[q].stat = "SSLEEP"}
           r == proc[p]
           n == [r EXCEPT !.wchan = NULL, !.stat = IF p \in run THEN "SRUN" ELSE @]
<1>1. r \in ProcType /\ Good(p) /\ cpu' = cpu /\ dispq' = dispq \cup run /\ Interruptible
  BY DEF IInv, TypeOK, Wakeup, Wakeprocs
<1>2. proc'[p] = IF p \notin Woken(chan) THEN r ELSE n
  BY DEF Wakeup, Wakeprocs
<1>3. CASE p \notin Woken(chan)
  BY <1>1, <1>2, <1>3 DEF Good, Placed
<1>4. CASE p \in Woken(chan)
  <2>1. /\ n \in ProcType /\ n.pc = r.pc /\ n.kret = r.kret /\ n.site = r.site /\ n.flag = r.flag
        /\ n.disp = r.disp /\ n.sigmask = r.sigmask /\ n.wchan = NULL /\ n.sig = r.sig
        /\ n.cursig = r.cursig /\ n.whystop = r.whystop
        /\ n.stat = IF p \in run THEN "SRUN" ELSE r.stat
    BY <1>1 DEF ProcType
  <2>2. (p \in run) <=> r.stat = "SSLEEP"
    BY <1>4
  <2>3. r.stat = "SSLEEP" => cpu # p
    BY <1>1, NullFacts DEF Good, Placed, Interruptible
  <2> HIDE DEF n, run
  <2> QED BY <1>1, <1>2, <1>4, <2>1, <2>2, <2>3 DEF Good, Local, Noticed, Stopped, Placed
<1> QED BY <1>3, <1>4
(***************************************************************************)
(* The walk of wakeprocs().                                                *)
(***************************************************************************)

(* One turn of the walk of wakeprocs() over the queue q that unlinks the   *)
(* members of S.                                                           *)
Turn(k, q, S, i) == IF i = 0 THEN << >> ELSE IF q[i] \in S THEN k[i - 1] ELSE Append(k[i - 1], q[i])

(* There is a walk over the first n members. *)
Walked(A, q, S, n) == \E k \in [0..n -> Seq(A)] : \A i \in 0..n : k[i] = Turn(k, q, S, i)

(* There is a walk over the whole queue. *)
LEMMA WalkExists ==
    ASSUME NEW A, NEW q \in Seq(A), NEW S
    PROVE  Walked(A, q, S, Len(q))
<1> DEFINE Ok(n) == \E k \in [0..n -> Seq(A)] : \A i \in 0..n : k[i] = Turn(k, q, S, i)
           Bad == {n \in 0..Len(q) : ~Ok(n)}
           m == Min(Bad)
<1>0. Len(q) \in Nat /\ \A i \in 1..Len(q) : q[i] \in A
  OBVIOUS
<1>1. SUFFICES ASSUME Bad # {} PROVE FALSE
  <2>1. Bad = {} => Ok(Len(q))
    <3> HIDE DEF Ok
    <3> QED BY <1>0
  <2> QED BY <2>1 DEF Walked
<1>2. m \in Bad /\ \A z \in Bad : m <= z
  <2>1. Bad \in SUBSET Nat
    OBVIOUS
  <2> HIDE DEF Bad
  <2> QED BY <1>1, <2>1, LeastMember
<1> HIDE DEF m
<1>3. m \in 0..Len(q) /\ ~Ok(m)
  BY <1>2
<1>4. CASE m = 0
  <2> DEFINE z == [i \in 0..0 |-> << >>]
  <2>1. z \in [0..0 -> Seq(A)]
    OBVIOUS
  <2>2. \A i \in 0..0 : z[i] = Turn(z, q, S, i)
    BY DEF Turn
  <2> HIDE DEF z
  <2> QED BY <1>3, <1>4, <2>1, <2>2
<1>5. CASE m # 0
  <2>1. Ok(m - 1)
    <3>1. m - 1 \in 0..Len(q) /\ ~(m <= m - 1)
      BY <1>0, <1>3, <1>5
    <3> HIDE DEF Ok
    <3> QED BY <1>2, <3>1
  <2>2. PICK k \in [0..m - 1 -> Seq(A)] : \A i \in 0..m - 1 : k[i] = Turn(k, q, S, i)
    BY <2>1
  <2> DEFINE e == Turn(k, q, S, m)
             n == [i \in 0..m |-> IF i = m THEN e ELSE k[i]]
  <2>3. e \in Seq(A)
    <3>1. k[m - 1] \in Seq(A) /\ q[m] \in A
      BY <1>0, <1>3, <1>5, <2>2
    <3> QED BY <1>5, <3>1 DEF Turn
  <2>4. n[m] = Turn(n, q, S, m) /\ n[m] = e
    <3>1. n[m] = e /\ n[m - 1] = k[m - 1]
      BY <1>0, <1>3, <1>5
    <3> HIDE DEF n
    <3> QED BY <1>5, <3>1 DEF Turn
  <2>5. ASSUME NEW i \in 0..m - 1 PROVE n[i] = Turn(n, q, S, i)
    <3>1. n[i] = k[i] /\ (i # 0 => n[i - 1] = k[i - 1]) /\ k[i] = Turn(k, q, S, i)
      BY <1>0, <1>3, <1>5, <2>2, <2>5
    <3> HIDE DEF n
    <3> QED BY <3>1 DEF Turn
  <2> HIDE DEF e
  <2>6. n \in [0..m -> Seq(A)]
    BY <1>0, <1>3, <2>2, <2>3
  <2> HIDE DEF n
  <2>7. ASSUME NEW i \in 0..m PROVE n[i] = Turn(n, q, S, i)
    <3>1. i = m \/ i \in 0..m - 1
      BY <1>0, <1>3, <2>7
    <3> QED BY <2>4, <2>5, <3>1
  <2> QED BY <1>3, <2>6, <2>7
<1> QED BY <1>4, <1>5

(* Without(q, S) is what the walk leaves. *)
LEMMA WithoutWalk ==
    ASSUME NEW A, NEW q \in Seq(A), NEW S
    PROVE  \E k \in [0..Len(q) -> Seq(A)] :
              /\ \A i \in 0..Len(q) : k[i] = Turn(k, q, S, i)
              /\ Without(q, S) = k[Len(q)]
<1>k. Walked(A, q, S, Len(q))
  BY WalkExists
<1>2. PICK k \in [0..Len(q) -> Seq(A)] : \A i \in 0..Len(q) : k[i] = Turn(k, q, S, i)
  BY <1>k DEF Walked
<1> DEFINE P(f) == f = [i \in 0..Len(q) |->
                          IF i = 0 THEN << >>
                          ELSE IF q[i] \in S THEN f[i - 1] ELSE Append(f[i - 1], q[i])]
           R == CHOOSE f : P(f)
<1>0. Len(q) \in Nat
  OBVIOUS
<1>1. Without(q, S) = R[Len(q)]
  BY DEF Without
<1>3. P(k)
  BY <1>2 DEF Turn
<1>4. P(R)
  <2> HIDE DEF P
  <2> QED BY <1>3
<1> HIDE DEF R
<1>5. \A i \in 0..Len(q) : R[i] = Turn(R, q, S, i)
  BY <1>4 DEF Turn
<1>5a. R = [i \in 0..Len(q) |-> R[i]]
  BY <1>4
<1>6. \A i \in 0..Len(q) : R[i] = k[i]
  <2> DEFINE Bad == {i \in 0..Len(q) : R[i] # k[i]}
             m == Min(Bad)
  <2>1. SUFFICES ASSUME Bad # {} PROVE FALSE
    OBVIOUS
  <2>2. m \in Bad /\ \A z \in Bad : m <= z
    <3>1. Bad \in SUBSET Nat
      OBVIOUS
    <3> HIDE DEF Bad
    <3> QED BY <2>1, <3>1, LeastMember
  <2> HIDE DEF m
  <2>3. m = 0 \/ R[m - 1] = k[m - 1]
    BY <1>0, <2>2
  <2>4. m \in 0..Len(q) /\ R[m] # k[m]
    BY <2>2
  <2> HIDE DEF Bad
  <2> QED BY <1>2, <1>5, <2>3, <2>4 DEF Turn
<1>7. R \in [0..Len(q) -> Seq(A)]
  BY <1>0, <1>2, <1>5a, <1>6
<1> QED BY <1>0, <1>1, <1>5, <1>7

(* Without(q, S) takes the members of S out of q and nothing else; a queue *)
(* without repetition stays one.                                           *)
LEMMA WithoutFacts ==
    ASSUME NEW A, NEW q \in Seq(A), NEW S
    PROVE  /\ Without(q, S) \in Seq(A)
           /\ IsInjective(q) => /\ IsInjective(Without(q, S))
                                /\ ToSet(Without(q, S)) = ToSet(q) \ S
<1>0. Len(q) \in Nat /\ \A i \in 1..Len(q) : q[i] \in A
  OBVIOUS
<1>1. PICK k \in [0..Len(q) -> Seq(A)] :
              /\ \A i \in 0..Len(q) : k[i] = Turn(k, q, S, i)
              /\ Without(q, S) = k[Len(q)]
  BY WithoutWalk, ZenonT(60)
<1>2. Without(q, S) \in Seq(A)
  BY <1>0, <1>1
<1>3. ASSUME IsInjective(q)
      PROVE  IsInjective(k[Len(q)]) /\ ToSet(k[Len(q)]) = ToSet(q) \ S
  <2> DEFINE Upto(i) == {q[j] : j \in 1..i} \ S
             Ok(i) == IsInjective(k[i]) /\ ToSet(k[i]) = Upto(i)
             Bad == {i \in 0..Len(q) : ~Ok(i)}
             m == Min(Bad)
  <2>0. \A a, b \in 1..Len(q) : q[a] = q[b] => a = b
    BY <1>3 DEF IsInjective
  <2>1. Upto(Len(q)) = ToSet(q) \ S
    BY DEF ToSet
  <2>2. SUFFICES ASSUME Bad # {} PROVE FALSE
    <3> HIDE DEF Upto
    <3> QED BY <1>0, <2>1
  <2>3. m \in Bad /\ \A z \in Bad : m <= z
    <3>1. Bad \in SUBSET Nat
      OBVIOUS
    <3> HIDE DEF Bad
    <3> QED BY <2>2, <3>1, LeastMember
  <2> HIDE DEF m
  <2>4. m \in 0..Len(q) /\ ~Ok(m)
    BY <2>3
  <2>5. m # 0
    <3>1. k[0] = << >>
      BY <1>0, <1>1 DEF Turn
    <3>2. IsInjective(<< >>) /\ ToSet(<< >>) = {} /\ Upto(0) = {}
      BY DEF IsInjective, ToSet
    <3> QED BY <2>4, <3>1, <3>2
  <2>6. Ok(m - 1)
    <3>1. m - 1 \in 0..Len(q) /\ ~(m <= m - 1)
      BY <1>0, <2>4, <2>5
    <3> HIDE DEF Ok
    <3> QED BY <2>3, <3>1
  <2>7. k[m] = IF q[m] \in S THEN k[m - 1] ELSE Append(k[m - 1], q[m])
    BY <1>1, <2>4, <2>5 DEF Turn
  <2>8. m \in 1..Len(q) /\ q[m] \in A /\ k[m - 1] \in Seq(A)
    BY <1>0, <1>1, <2>4, <2>5, SMTT(30)
  <2>9. 1..m = (1..m - 1) \cup {m}
    BY <2>8
  <2>10. Upto(m) = Upto(m - 1) \cup ({q[m]} \ S)
    BY <2>9
  <2>11. q[m] \notin Upto(m - 1)
    BY <1>0, <2>0, <2>8
  <2> HIDE DEF Upto
  <2>12. CASE q[m] \in S
    BY <2>4, <2>6, <2>7, <2>10, <2>12
  <2>13. CASE q[m] \notin S
    BY <2>4, <2>6, <2>7, <2>8, <2>10, <2>11, <2>13, AppendFacts
  <2> QED BY <2>12, <2>13
<1> QED BY <1>1, <1>2, <1>3

(***************************************************************************)
(* What every action does to the queues.                                   *)
(***************************************************************************)

(* What a step of, or about, process p does to the tables: its entry alone *)
(* changes; it enters or leaves a dispatcher queue or the CPU; and the     *)
(* sleep queues follow its p_wchan. It goes to sleep while it is on a      *)
(* queue only when kmem_alloc() may sleep in stop().                       *)
Moves(p) ==
    /\ proc' = [proc EXCEPT ![p] = proc'[p]]
    /\ dispq' \subseteq dispq \cup {p} /\ dispq \subseteq dispq' \cup {p}
    /\ cpu' = cpu \/ {cpu, cpu'} \subseteq {p, NULL}
    /\ \/ sleepq' = sleepq /\ proc'[p].wchan = proc[p].wchan
       \/ sleepq' = Unlinked(p) /\ proc'[p].wchan = NULL
       \/ \E c \in Chan : /\ sleepq' = Linked(p, c) /\ proc'[p].wchan = c
                          /\ KMEMSHORT \/ proc[p].wchan = NULL

(* SleepEnds for process p, when the step is not a wakeup. *)
Ends(p) ==
    /\ proc[p].stat = "SSLEEP" /\ "SNWAKE" \in proc[p].flag => proc'[p].stat = "SSLEEP"
    /\ proc[p].site # "user" /\ proc[p].disp # "high" /\ proc'[p].pc = "kernel" => ~proc[p].sysabort

(* Put changes one entry. *)
LEMMA RunMoves ==
  ASSUME IInv, NEW p \in Proc, NEW r, Put(p, r)
  PROVE  proc' = [proc EXCEPT ![p] = proc'[p]] /\ proc'[p] = r
BY DEF Put, IInv, TypeOK

(* setrun() moves one process. *)
LEMMA SetrunMoves ==
  ASSUME IInv, NEW p \in Proc, NEW r \in ProcType, Setrun(p, r), cpu' = cpu,
         r.wchan = proc[p].wchan, r.stat = proc[p].stat, r.pc = proc[p].pc, proc[p].pc # "kernel",
         proc[p].stat = "SSLEEP" => "SNWAKE" \notin proc[p].flag
  PROVE  Moves(p) /\ Ends(p)
<1> DEFINE t == [r EXCEPT !.wchan = NULL]
           u == [t EXCEPT !.stat = "SRUN", !.whystop = NULL]
           v == [r EXCEPT !.stat = "SRUN", !.whystop = NULL]
<1>1. t.wchan = NULL /\ u.wchan = NULL /\ v.wchan = r.wchan /\ t.pc = r.pc /\ u.pc = r.pc
      /\ v.pc = r.pc
  BY DEF ProcType
<1>2. /\ sleepq' = (IF r.stat \in {"SSLEEP", "SSTOP"} THEN Unlinked(p) ELSE sleepq)
      /\ \/ dispq' = dispq \/ dispq' = dispq \cup {p}
      /\ \/ r.stat \in {"SSLEEP", "SSTOP"} /\ (Put(p, t) \/ Put(p, u))
         \/ r.stat \notin {"SSLEEP", "SSTOP"} /\ (Put(p, r) \/ Put(p, v))
  BY DEF Setrun
<1> HIDE DEF t, u, v
<1> QED BY <1>1, <1>2, RunMoves DEF Moves, Ends

(* A request of the debugger moves one process, and leaves alone a sleep   *)
(* at high priority.                                                       *)
LEMMA DebuggerMoves ==
  ASSUME IInv, NEW p \in Proc, Debugger(p)
  PROVE  Moves(p) /\ Ends(p)
<1>1. /\ proc[p] \in ProcType /\ Good(p) /\ cpu' = cpu /\ cpu # p /\ proc[p].pc # "kernel"
  BY NullFacts DEF IInv, TypeOK, Debugger, Piocstop, Piocrun, Piocstrace, Piocssig, Prclose,
     Prlock, Attached, Good, Placed
<1>2. CASE Piocstop(p)
  <2>1. PICK r \in ProcType : /\ Put(p, r) /\ r.wchan = proc[p].wchan /\ r.pc = proc[p].pc
                              /\ "SNWAKE" \in proc[p].flag => r.stat = proc[p].stat
    <3> DEFINE s == Stop(proc[p], "PR_REQUESTED")
               t == Raise(s, {"SASLEEP"})
               a == Raise(proc[p], {"SPRSTOP"})
    <3>1. s \in ProcType /\ s.wchan = proc[p].wchan /\ s.pc = proc[p].pc
      BY <1>1, StopFields DEF Why
    <3> HIDE DEF s
    <3>2. t \in ProcType /\ t.wchan = s.wchan /\ t.pc = s.pc
      BY <3>1 DEF Raise, ProcType, Flag
    <3>3. a \in ProcType /\ a.wchan = proc[p].wchan /\ a.pc = proc[p].pc /\ a.stat = proc[p].stat
      BY <1>1 DEF Raise, ProcType, Flag
    <3>4. (Put(p, t) /\ Stoppable(proc[p])) \/ Put(p, a)
      BY <1>2 DEF Piocstop, s
    <3> HIDE DEF t, a
    <3> QED BY <3>1, <3>2, <3>3, <3>4 DEF Stoppable
  <2>2. sleepq' = sleepq /\ dispq' \in {dispq, dispq \ {p}}
    BY <1>2 DEF Piocstop
  <2> QED BY <1>1, <2>1, <2>2, RunMoves DEF Moves, Ends
<1>3. ASSUME NEW opts \in RunOptions, Piocrun(p, opts) PROVE Moves(p) /\ Ends(p)
  <2> DEFINE r == [proc[p] EXCEPT
          !.cursig = IF "PRCSIG" \in opts /\ @ # SIGKILL THEN NULL ELSE @,
          !.sysabort = @ \/ "PRSABORT" \in opts,
          !.flag = @ \cup {"SPSTART"} \cup (IF "PRSTOP" \in opts THEN {"SPRSTOP"} ELSE {})]
  <2>1. r \in ProcType
    BY <1>1, PiocrunRecord
  <2>2. r.stat = proc[p].stat /\ r.pc = proc[p].pc /\ r.wchan = proc[p].wchan
    BY <1>1 DEF ProcType
  <2>3. Setrun(p, r) /\ proc[p].stat # "SSLEEP"
    BY <1>3 DEF Piocrun, ByProc
  <2> HIDE DEF r
  <2> QED BY <1>1, <2>1, <2>2, <2>3, SetrunMoves
<1>4. ASSUME NEW mask, Piocstrace(p, mask) PROVE Moves(p) /\ Ends(p)
  <2> DEFINE r == [proc[p] EXCEPT !.sigmask = mask]
  <2>1. Put(p, r) /\ sleepq' = sleepq /\ dispq' = dispq
    BY <1>4 DEF Piocstrace
  <2>2. r.stat = proc[p].stat /\ r.pc = proc[p].pc /\ r.wchan = proc[p].wchan
    BY <1>1 DEF ProcType
  <2> HIDE DEF r
  <2> QED BY <1>1, <2>1, <2>2, RunMoves DEF Moves, Ends
<1>5. ASSUME NEW sig \in Sig \cup {NULL}, Piocssig(p, sig) PROVE Moves(p) /\ Ends(p)
  <2> DEFINE r == [proc[p] EXCEPT !.cursig = sig]
             t == Raise(r, {"SXSTART", "SPSTART"})
  <2>1. r \in ProcType /\ r.stat = proc[p].stat /\ r.pc = proc[p].pc /\ r.wchan = proc[p].wchan
    BY <1>1, <1>5 DEF ProcType
  <2>2. "SNWAKE" \notin proc[p].flag
    BY <1>5 DEF Piocssig, Prlock
  <2>3. Setrun(p, r) \/ Setrun(p, t) \/ (Put(p, r) /\ sleepq' = sleepq /\ dispq' = dispq)
    BY <1>5 DEF Piocssig
  <2> HIDE DEF r
  <2>4. t \in ProcType /\ t.stat = r.stat /\ t.pc = r.pc /\ t.wchan = r.wchan
    BY <2>1 DEF ProcType, Raise, Flag
  <2> HIDE DEF t
  <2>5. CASE Put(p, r) /\ sleepq' = sleepq /\ dispq' = dispq
    BY <1>1, <2>1, <2>2, <2>5, RunMoves DEF Moves, Ends
  <2> QED BY <1>1, <2>1, <2>2, <2>3, <2>4, <2>5, SetrunMoves
<1>6. CASE Prclose(p)
  <2> DEFINE r == [Drop(proc[p], {"SPRSTOP", "SRUNLCL"}) EXCEPT !.sigmask = {}]
             t == Raise(r, {"SPSTART"})
  <2>1. r \in ProcType /\ r.stat = proc[p].stat /\ r.pc = proc[p].pc /\ r.wchan = proc[p].wchan
    BY <1>1 DEF ProcType, Drop
  <2>2. \/ proc[p].stat # "SSLEEP" /\ Setrun(p, t)
        \/ Put(p, r) /\ sleepq' = sleepq /\ dispq' = dispq
    BY <1>6 DEF Prclose, ByProc
  <2> HIDE DEF r
  <2>3. t \in ProcType /\ t.stat = r.stat /\ t.pc = r.pc /\ t.wchan = r.wchan
    BY <2>1 DEF ProcType, Raise, Flag
  <2> HIDE DEF t
  <2>4. CASE Put(p, r) /\ sleepq' = sleepq /\ dispq' = dispq
    BY <1>1, <2>1, <2>4, RunMoves DEF Moves, Ends
  <2> QED BY <1>1, <2>1, <2>2, <2>3, <2>4, SetrunMoves
<1>7. Sent[p] \subseteq Sig
  BY ConstantsAssumption
<1> QED BY <1>2, <1>3, <1>4, <1>5, <1>6, <1>7 DEF Debugger

(* A signal moves one process, and leaves alone a sleep at high priority. *)
LEMMA PsignalMoves ==
  ASSUME IInv, NEW p \in Proc, NEW sig \in Sig, Psignal(p, sig)
  PROVE  Moves(p) /\ Ends(p)
<1> DEFINE posted == Tracing(proc[p], sig) \/ sig \notin Ignored
           S == (proc[p].sig \ CancelStops(sig)) \cup (IF posted THEN {sig} ELSE {})
           r == [proc[p] EXCEPT !.sig = S]
           x == Raise(r, {"SXSTART"})
           b == Raise(r, {"SXSTART", "SPSTART"})
           u == [r EXCEPT !.wchan = NULL]
<1>1. proc[p] \in ProcType /\ Good(p) /\ cpu' = cpu /\ Sigtoproc(p, sig)
  BY DEF IInv, TypeOK, Psignal
<1>2. S \in SUBSET Sig
  BY <1>1 DEF ProcType
<1>3. Sigtoproc(p, sig) =>
      \/ r.stat = "SSTOP" /\ Setrun(p, x)
      \/ WakeOnSignal(p, r, sig)
      \/ Put(p, r) /\ sleepq' = sleepq /\ dispq' = dispq
  BY DEF Sigtoproc
<1> HIDE DEF S
<1>4. /\ r \in ProcType /\ r.stat = proc[p].stat /\ r.pc = proc[p].pc /\ r.wchan = proc[p].wchan
      /\ r.flag = proc[p].flag
  BY <1>1, <1>2 DEF ProcType
<1> HIDE DEF r
<1>5. /\ x \in ProcType /\ x.stat = r.stat /\ x.pc = r.pc /\ x.wchan = r.wchan
      /\ b \in ProcType /\ b.stat = r.stat /\ b.pc = r.pc /\ b.wchan = r.wchan
      /\ u \in ProcType /\ u.stat = r.stat /\ u.pc = r.pc /\ u.wchan = NULL
  BY <1>4 DEF ProcType, Raise, Flag
<1>6. \/ r.stat = "SSTOP" /\ (Setrun(p, x) \/ Setrun(p, b))
      \/ r.stat = "SSLEEP" /\ "SNWAKE" \notin r.flag /\ Setrun(p, r)
      \/ r.stat = "SSTOP" /\ Put(p, u) /\ sleepq' = Unlinked(p) /\ dispq' = dispq
      \/ Put(p, r) /\ sleepq' = sleepq /\ dispq' = dispq
  BY <1>1, <1>3 DEF WakeOnSignal, Unsleep
<1> HIDE DEF x, b, u
<1>7. proc[p].stat \in {"SSTOP", "SSLEEP"} => proc[p].pc # "kernel"
  BY <1>1 DEF Good, Placed
<1>8. proc[p].site # "user" => proc[p].pc # "kernel"
  BY <1>1 DEF Good, Local
<1>9. CASE r.stat = "SSTOP" /\ (Setrun(p, x) \/ Setrun(p, b))
  BY <1>1, <1>4, <1>5, <1>7, <1>9, SetrunMoves
<1>10. CASE r.stat = "SSLEEP" /\ "SNWAKE" \notin r.flag /\ Setrun(p, r)
  BY <1>1, <1>4, <1>7, <1>10, SetrunMoves
<1>11. CASE r.stat = "SSTOP" /\ Put(p, u) /\ sleepq' = Unlinked(p) /\ dispq' = dispq
  BY <1>1, <1>4, <1>5, <1>7, <1>11, RunMoves DEF Moves, Ends
<1>12. CASE Put(p, r) /\ sleepq' = sleepq /\ dispq' = dispq
  BY <1>1, <1>4, <1>8, <1>12, RunMoves DEF Moves, Ends
<1> QED BY <1>6, <1>9, <1>10, <1>11, <1>12

(* A step of the process that has the CPU, or gets it: it is in no sleep   *)
(* that only a wakeup may end.                                             *)
LEMMA StepMoves ==
  ASSUME IInv, NEW p \in Proc, NEW r, Put(p, r), cpu \in {p, NULL}, cpu' \in {p, NULL},
         dispq' \in {dispq, dispq \ {p}, dispq \cup {p}},
         \/ sleepq' = sleepq /\ r.wchan = proc[p].wchan
         \/ sleepq' = Unlinked(p) /\ r.wchan = NULL
         \/ \E c \in Chan : /\ sleepq' = Linked(p, c) /\ r.wchan = c
                            /\ KMEMSHORT \/ proc[p].wchan = NULL,
         cpu = p \/ proc[p].stat = "SRUN",
         r.pc = "kernel" => ~proc[p].sysabort \/ proc[p].disp = "high"
  PROVE  Moves(p) /\ Ends(p)
<1>1. Good(p)
  BY DEF IInv
<1>2. ~(proc[p].stat = "SSLEEP" /\ "SNWAKE" \in proc[p].flag)
  BY <1>1 DEF Good, Local, Placed
<1> QED BY <1>2, RunMoves DEF Moves, Ends

(* swtch() changes p_stat alone. *)
LEMMA SwtchRecord ==
  ASSUME NEW p, NEW r \in ProcType, Swtch(p, r)
  PROVE  \E m \in ProcType : /\ Put(p, m) /\ m.wchan = r.wchan /\ m.pc = r.pc
                             /\ m.stat = IF r.stat = "SONPROC" THEN "SRUN" ELSE r.stat
<1> DEFINE m == [r EXCEPT !.stat = IF @ = "SONPROC" THEN "SRUN" ELSE @]
<1>1. /\ m \in ProcType /\ m.wchan = r.wchan /\ m.pc = r.pc
      /\ m.stat = IF r.stat = "SONPROC" THEN "SRUN" ELSE r.stat
  BY DEF ProcType
<1>2. Put(p, m)
  BY DEF Swtch
<1> HIDE DEF m
<1> QED BY <1>1, <1>2

(* Giving up the CPU moves one process. *)
LEMMA SwtchMoves ==
  ASSUME IInv, NEW p \in Proc, NEW r \in ProcType, Swtch(p, r), cpu \in {p, NULL},
         dispq' \in {dispq, dispq \ {p}, dispq \cup {p}},
         \/ sleepq' = sleepq /\ r.wchan = proc[p].wchan
         \/ \E c \in Chan : /\ sleepq' = Linked(p, c) /\ r.wchan = c
                            /\ KMEMSHORT \/ proc[p].wchan = NULL,
         cpu = p \/ proc[p].stat = "SRUN", r.pc # "kernel"
  PROVE  Moves(p) /\ Ends(p)
<1>1. PICK m \in ProcType : Put(p, m) /\ m.wchan = r.wchan /\ m.pc = r.pc
  BY SwtchRecord
<1>2. cpu' = NULL
  BY DEF Swtch
<1> QED BY <1>1, <1>2, StepMoves

(* Another turn of the loop of issig() moves one process. *)
LEMMA LoopMoves ==
  ASSUME IInv, NEW p \in Proc, NEW r \in ProcType, Loop(p, r), cpu \in {p, NULL},
         dispq' \in {dispq, dispq \ {p}}, sleepq' = sleepq, r.wchan = proc[p].wchan,
         cpu = p \/ proc[p].stat = "SRUN"
  PROVE  Moves(p) /\ Ends(p)
<1> DEFINE m == [r EXCEPT !.pc = "issig"]
<1>1. m.wchan = r.wchan /\ m.pc = "issig" /\ Put(p, m) /\ cpu' = p
  BY DEF ProcType, Loop, Run
<1> HIDE DEF m
<1> QED BY <1>1, StepMoves

(* The sleep inside kmem_alloc() moves one process. *)
LEMMA SigcldMoves ==
  ASSUME IInv, NEW p \in Proc, NEW r \in ProcType, NEW kret \in {"loop", "swtch"}, NEW Continue,
         Sigcld(p, r, kret, Continue), ~(Continue /\ sleepq' = sleepq), cpu \in {p, NULL},
         dispq' \in {dispq, dispq \ {p}}, r.wchan = proc[p].wchan,
         cpu = p \/ proc[p].stat = "SRUN"
  PROVE  Moves(p) /\ Ends(p)
<1> DEFINE e == [Enqueued(r, KmChan) EXCEPT !.kret = kret, !.pc = "kmem"]
           n == Raise(e, {"SNWAKE"})
<1>1. n.pc = "kmem" /\ n.wchan = KmChan
  BY DEF ProcType, Raise, Enqueued
<1>2. /\ Swtch(p, n) /\ (KMEMSHORT \/ proc[p].wchan = NULL) /\ sleepq' = Linked(p, KmChan)
      /\ KmChan \in Chan
  BY ConstantsAssumption DEF Sigcld
<1>3. n \in ProcType
  <2>1. Enqueued(r, KmChan) \in ProcType
    BY ConstantsAssumption DEF Enqueued, ProcType
  <2>2. [Enqueued(r, KmChan) EXCEPT !.kret = kret] \in ProcType
    BY <2>1, RecordType
  <2>3. e \in ProcType
    BY <2>2, RecordType
  <2> HIDE DEF e
  <2> QED BY <2>3 DEF ProcType, Raise, Flag
<1> HIDE DEF n, e
<1> QED BY <1>1, <1>2, <1>3, SwtchMoves

(* A signal found by issig() moves one process: it leaves its sleep queue. *)
LEMMA SigFoundMoves ==
  ASSUME IInv, NEW p \in Proc, Running(p, "issig"), SigFound(p), dispq' = dispq
  PROVE  Moves(p) /\ Ends(p)
<1> DEFINE r == proc[p]
           w == [r EXCEPT !.wchan = NULL, !.stat = "SONPROC"]
<1>1. r \in ProcType /\ cpu = p
  BY DEF IInv, TypeOK, Running
<1>2. CASE Run(p, Goto(r, "psig", "user")) /\ sleepq' = sleepq
  BY <1>1, <1>2, GotoFields, StepMoves DEF Run
<1>3. CASE Run(p, Interrupted(w)) /\ sleepq' = Unlinked(p)
  <2>1. w \in ProcType /\ w.wchan = NULL
    BY <1>1 DEF ProcType
  <2> HIDE DEF w
  <2> QED BY <1>1, <1>3, <2>1, InterruptedFields, StepMoves DEF Run
<1>4. CASE Run(p, Interrupted(r)) /\ sleepq' = sleepq
  BY <1>1, <1>4, InterruptedFields, StepMoves DEF Run
<1> QED BY <1>2, <1>3, <1>4 DEF SigFound

(* issig() returning 0 moves one process, and out: is reached only when no *)
(* abort was asked for.                                                    *)
LEMMA NoSigMoves ==
  ASSUME IInv, NEW p \in Proc, Running(p, "issig"), NoSig(p), dispq' = dispq
  PROVE  Moves(p) /\ Ends(p)
<1> DEFINE r == proc[p]
           a == Drop(r, {"SASLEEP"})
<1>1. r \in ProcType /\ cpu = p
  BY DEF IInv, TypeOK, Running
<1>2. CASE Run(p, Goto(r, "user", "user")) /\ sleepq' = sleepq
  BY <1>1, <1>2, GotoFields, StepMoves DEF Run
<1>3. CASE SigFound(p)
  BY <1>3, SigFoundMoves
<1>4. CASE ~r.sysabort /\ Run(p, Out(r)) /\ sleepq' = sleepq
  BY <1>1, <1>4, OutFields, StepMoves DEF Run
<1>5. CASE Swtch(p, Goto(a, "asleep", "sleep2")) /\ sleepq' = sleepq
  <2>1. a \in ProcType /\ a.wchan = r.wchan
    BY <1>1 DEF ProcType, Drop
  <2> HIDE DEF a
  <2>2. /\ Goto(a, "asleep", "sleep2") \in ProcType /\ Goto(a, "asleep", "sleep2").wchan = a.wchan
        /\ Goto(a, "asleep", "sleep2").pc = "asleep"
    BY <2>1, GotoFields
  <2> QED BY <1>1, <1>5, <2>1, <2>2, SwtchMoves
<1> QED BY <1>2, <1>3, <1>4, <1>5 DEF NoSig

(* A stop in issig() moves one process, which stays on its sleep queue. *)
LEMMA StopMoves ==
  ASSUME IInv, NEW p \in Proc, NEW r \in ProcType, NEW why \in Why,
         NEW pc \in {"stopped", "jobstop"}, cpu = p,
         Swtch(p, [Stop(r, why) EXCEPT !.pc = pc]), dispq' = dispq \ {p}, sleepq' = sleepq,
         r.wchan = proc[p].wchan
  PROVE  Moves(p) /\ Ends(p)
<1> DEFINE s == Stop(r, why)
           n == [s EXCEPT !.pc = pc]
<1>1. s \in ProcType /\ s.wchan = r.wchan
  BY StopFields
<1> HIDE DEF s
<1>2. n \in ProcType /\ n.wchan = s.wchan /\ n.pc = pc
  BY <1>1 DEF ProcType
<1>3. Swtch(p, n)
  BY DEF s
<1> HIDE DEF n
<1> QED BY <1>1, <1>2, <1>3, SwtchMoves

(* isjobstop() moves one process. *)
LEMMA IsjobstopMoves ==
  ASSUME IInv, NEW p \in Proc, Running(p, "issig"), Isjobstop(p)
  PROVE  Moves(p) /\ Ends(p)
<1> DEFINE r == [proc[p] EXCEPT !.cursig = NULL]
           c == [r EXCEPT !.sig = @ \ {SIGCONT}]
           s == Stop(r, "PR_JOBCONTROL")
           t == [s EXCEPT !.pc = "jobstop"]
<1>1. proc[p] \in ProcType /\ cpu = p
  BY DEF IInv, TypeOK, Running
<1>2. r \in ProcType /\ r.wchan = proc[p].wchan
  BY <1>1 DEF ProcType
<1> HIDE DEF r
<1>3. CASE Loop(p, c) /\ dispq' = dispq /\ sleepq' = sleepq
  <2>1. c \in ProcType /\ c.wchan = r.wchan
    BY <1>2 DEF ProcType
  <2> HIDE DEF c
  <2> QED BY <1>1, <1>2, <1>3, <2>1, LoopMoves
<1>4. CASE Loop(p, r) /\ dispq' = dispq /\ sleepq' = sleepq
  BY <1>1, <1>2, <1>4, LoopMoves
<1>5. CASE Sigcld(p, r, "loop", Loop(p, r)) /\ dispq' = dispq
  <2>1. CASE ~(Loop(p, r) /\ sleepq' = sleepq)
    BY <1>1, <1>2, <1>5, <2>1, SigcldMoves
  <2> QED BY <1>4, <1>5, <2>1
<1>6. CASE Sigcld(p, t, "swtch", Swtch(p, t)) /\ dispq' = dispq \ {p}
  <2>1. CASE Swtch(p, t) /\ sleepq' = sleepq
    BY <1>1, <1>2, <1>6, <2>1, StopMoves DEF Why
  <2>2. CASE ~(Swtch(p, t) /\ sleepq' = sleepq)
    <3>1. s \in ProcType /\ s.wchan = r.wchan
      BY <1>2, StopFields DEF Why
    <3> HIDE DEF s
    <3>2. t \in ProcType /\ t.wchan = s.wchan
      BY <3>1 DEF ProcType
    <3> HIDE DEF t
    <3> QED BY <1>1, <1>2, <1>6, <2>2, <3>1, <3>2, SigcldMoves
  <2> QED BY <2>1, <2>2
<1> QED BY <1>3, <1>4, <1>5, <1>6 DEF Isjobstop, r

(* Every way through the loop of issig() moves one process. *)
LEMMA IssigMoves ==
  ASSUME IInv, NEW p \in Proc, Issig(p)
  PROVE  Moves(p) /\ Ends(p)
<1> DEFINE r == proc[p]
           sig == Fsig(r)
           t == [r EXCEPT !.sig = @ \ {sig}, !.cursig = sig]
           c == [r EXCEPT !.cursig = NULL]
           g == [r EXCEPT !.sig = @ \ {sig}]
<1>1. r \in ProcType /\ Running(p, "issig") /\ cpu = p
  BY DEF IInv, TypeOK, Issig, IssigRequested, IssigCurrent, IssigPending, Running
<1>2. c \in ProcType /\ c.wchan = r.wchan
  BY <1>1 DEF ProcType
<1>3. g \in ProcType /\ g.wchan = r.wchan
  BY <1>1 DEF ProcType
<1>4. ASSUME sig # NULL PROVE t \in ProcType /\ t.wchan = r.wchan
  <2>1. sig \in Sig
    BY <1>1, <1>4, FsigFound DEF ProcType
  <2> HIDE DEF sig
  <2> QED BY <1>1, <2>1 DEF ProcType
<1>5. CASE IssigRequested(p)
  BY <1>1, <1>5, StopMoves DEF IssigRequested, Why
<1>6. CASE IssigCurrent(p)
  <2>1. CASE Loop(p, c) /\ dispq' = dispq /\ sleepq' = sleepq
    <3> HIDE DEF c
    <3> QED BY <1>1, <1>2, <2>1, LoopMoves
  <2> QED BY <1>1, <1>6, <2>1, SigFoundMoves, IsjobstopMoves DEF IssigCurrent
<1>7. CASE IssigPending(p)
  <2>1. CASE NoSig(p) /\ dispq' = dispq
    BY <1>1, <2>1, NoSigMoves
  <2>2. CASE SigFound(p) /\ dispq' = dispq
    BY <1>1, <2>2, SigFoundMoves
  <2>3. CASE Loop(p, g) /\ dispq' = dispq /\ sleepq' = sleepq
    <3> HIDE DEF g
    <3> QED BY <1>1, <1>3, <2>3, LoopMoves
  <2>4. CASE /\ sig # NULL /\ dispq' = dispq \ {p} /\ sleepq' = sleepq
             /\ Swtch(p, [Stop(t, "PR_SIGNALLED") EXCEPT !.pc = "stopped"])
    <3> HIDE DEF t, sig
    <3> QED BY <1>1, <1>4, <2>4, StopMoves DEF Why
  <2>5. CASE sig # NULL /\ Loop(p, t) /\ dispq' = dispq /\ sleepq' = sleepq
    <3> HIDE DEF t, sig
    <3> QED BY <1>1, <1>4, <2>5, LoopMoves
  <2> QED BY <1>7, <2>1, <2>2, <2>3, <2>4, <2>5 DEF IssigPending
<1> QED BY <1>5, <1>6, <1>7 DEF Issig

(* psig() moves one process. *)
LEMMA PsigMoves ==
  ASSUME IInv, NEW p \in Proc, Psig(p)
  PROVE  Moves(p) /\ Ends(p)
<1> DEFINE r == [proc[p] EXCEPT !.cursig = NULL]
           u == Goto(r, "user", "user")
           d == Goto(r, "dead", "user")
           sig == IF SIGKILL \in proc[p].sig THEN SIGKILL ELSE proc[p].cursig
           h == [u EXCEPT !.hold = @ \cup {sig}]
           z == [d EXCEPT !.stat = "SZOMB", !.sig = {}]
<1>1. proc[p] \in ProcType /\ cpu = p /\ sleepq' = sleepq /\ dispq' = dispq
  BY DEF IInv, TypeOK, Psig, Running
<1>2. r \in ProcType /\ r.wchan = proc[p].wchan
  BY <1>1 DEF ProcType
<1>3. Run(p, h) \/ Swtch(p, z)
  BY DEF Psig
<1> HIDE DEF r
<1>4. /\ u \in ProcType /\ u.wchan = r.wchan /\ u.pc = "user"
      /\ d \in ProcType /\ d.wchan = r.wchan /\ d.pc = "dead"
  BY <1>2, GotoFields
<1> HIDE DEF u, d, sig
<1>5. /\ h.wchan = u.wchan /\ h.pc = u.pc
      /\ z \in ProcType /\ z.wchan = d.wchan /\ z.pc = d.pc
  BY <1>4, ZenonT(60) DEF ProcType
<1> HIDE DEF h, z
<1> QED BY <1>1, <1>2, <1>3, <1>4, <1>5, StepMoves, SwtchMoves DEF Run

(* pswtch() moves one process; out: is reached from a sleep at high        *)
(* priority.                                                               *)
LEMMA DispatchMoves ==
  ASSUME IInv, NEW p \in Proc, Dispatch(p)
  PROVE  Moves(p) /\ Ends(p)
<1> DEFINE r == [proc[p] EXCEPT !.stat = "SONPROC"]
           t == [Drop(r, {"SNWAKE", "SNOSTOP", "SASLEEP"}) EXCEPT !.kret = NULL]
           j == [t EXCEPT !.pc = "jobstop"]
           a == Raise(r, {"SASLEEP"})
<1>1. proc[p] \in ProcType /\ Good(p) /\ proc[p].stat = "SRUN" /\ dispq' = dispq \ {p} /\ cpu = NULL
  BY DEF IInv, TypeOK, Dispatch, Good, Placed
<1>2. r \in ProcType /\ r.wchan = proc[p].wchan /\ r.pc = proc[p].pc /\ r.disp = proc[p].disp
  BY <1>1 DEF ProcType
<1>3. \/ r.pc = "user" /\ Run(p, r) /\ sleepq' = sleepq
      \/ Loop(p, r) /\ sleepq' = sleepq
      \/ Sigcld(p, r, "loop", Loop(p, r))
      \/ sleepq' = sleepq /\ (Loop(p, t) \/ Swtch(p, j))
      \/ r.disp = "high" /\ Run(p, Out(r)) /\ sleepq' = sleepq
      \/ Run(p, Interrupted(r)) /\ sleepq' = sleepq
      \/ Loop(p, a) /\ sleepq' = sleepq
  BY DEF Dispatch
<1> HIDE DEF r
<1>4. t \in ProcType /\ t.wchan = r.wchan
  BY <1>2 DEF ProcType, Drop
<1> HIDE DEF t
<1>5. /\ j \in ProcType /\ j.wchan = t.wchan /\ j.pc = "jobstop"
      /\ a \in ProcType /\ a.wchan = r.wchan
  BY <1>2, <1>4 DEF ProcType, Raise, Flag
<1> HIDE DEF j, a
<1>6. CASE r.pc = "user" /\ Run(p, r) /\ sleepq' = sleepq
  BY <1>1, <1>2, <1>6, StepMoves DEF Run
<1>7. CASE sleepq' = sleepq /\ (Loop(p, r) \/ Loop(p, t) \/ Loop(p, a))
  BY <1>1, <1>2, <1>4, <1>5, <1>7, LoopMoves
<1>8. CASE Sigcld(p, r, "loop", Loop(p, r)) /\ ~(Loop(p, r) /\ sleepq' = sleepq)
  BY <1>1, <1>2, <1>8, SigcldMoves
<1>9. CASE Swtch(p, j) /\ sleepq' = sleepq
  BY <1>1, <1>2, <1>4, <1>5, <1>9, SwtchMoves
<1>10. CASE r.disp = "high" /\ Run(p, Out(r)) /\ sleepq' = sleepq
  BY <1>1, <1>2, <1>10, OutFields, StepMoves DEF Run
<1>11. CASE Run(p, Interrupted(r)) /\ sleepq' = sleepq
  BY <1>1, <1>2, <1>11, InterruptedFields, StepMoves DEF Run
<1> QED BY <1>3, <1>6, <1>7, <1>8, <1>9, <1>10, <1>11

(* sleep() moves one process, which was on no sleep queue. *)
LEMMA SleepMoves ==
  ASSUME IInv, NEW p \in Proc, NEW chan \in Chan, NEW disp \in Disp, Sleep(p, chan, disp)
  PROVE  Moves(p) /\ Ends(p)
<1> DEFINE r == [Enqueued(proc[p], chan) EXCEPT !.disp = disp]
           t == [Drop(r, {"SNWAKE", "SNOSTOP"}) EXCEPT !.sysabort = FALSE]
           nostop == IF disp = "nostop" THEN {"SNOSTOP"} ELSE {}
           h == Raise(r, {"SNWAKE"})
           l == Raise(t, {"SASLEEP"} \cup nostop)
<1>1. /\ proc[p] \in ProcType /\ Good(p) /\ cpu = p /\ proc[p].pc \in {"user", "kernel"}
      /\ dispq' = dispq /\ sleepq' = Linked(p, chan)
  BY DEF IInv, TypeOK, Sleep, Running
<1>2. proc[p].wchan = NULL
  BY <1>1 DEF Good, Local, Placed
<1>3. r \in ProcType /\ r.wchan = chan
  <2>1. Enqueued(proc[p], chan) \in ProcType
    BY <1>1 DEF Enqueued, ProcType
  <2>2. r \in ProcType
    BY <2>1, RecordType
  <2> QED BY <1>1, <2>2 DEF ProcType, Enqueued
<1>4. Swtch(p, Goto(h, "asleep", "sleep2")) \/ Run(p, Goto(l, "issig", "sleep1"))
  BY DEF Sleep
<1> HIDE DEF r
<1>5. h \in ProcType /\ h.wchan = chan /\ t \in ProcType /\ t.wchan = chan
  BY <1>3 DEF ProcType, Raise, Drop, Flag
<1> HIDE DEF t
<1>6. l \in ProcType /\ l.wchan = chan
  BY <1>5 DEF ProcType, Raise, Flag
<1> DEFINE m == Goto(h, "asleep", "sleep2")
           n == Goto(l, "issig", "sleep1")
<1> HIDE DEF h, l
<1>7. m \in ProcType /\ m.wchan = chan /\ m.pc = "asleep" /\ n.wchan = chan /\ n.pc = "issig"
  BY <1>5, <1>6, GotoFields
<1> HIDE DEF m, n
<1>8. CASE Swtch(p, m)
  BY <1>1, <1>2, <1>7, <1>8, SwtchMoves
<1>9. CASE Run(p, n)
  BY <1>1, <1>2, <1>7, <1>9, StepMoves DEF Run
<1> QED BY <1>4, <1>8, <1>9 DEF m, n

(* A step of a process moves that process alone. *)
LEMMA ProcessMoves ==
  ASSUME IInv, NEW p \in Proc, Process(p)
  PROVE  Moves(p) /\ Ends(p)
<1>1. proc[p] \in ProcType
  BY DEF IInv, TypeOK
<1>2. CASE Preempt(p)
  <2>1. cpu = p /\ proc[p].pc # "kernel" /\ dispq' = dispq \cup {p} /\ sleepq' = sleepq
        /\ Swtch(p, proc[p])
    BY <1>2 DEF Preempt, Running
  <2> QED BY <1>1, <2>1, SwtchMoves
<1>3. CASE ToUser(p)
  BY <1>1, <1>3, GotoFields, StepMoves DEF ToUser, Running, Run
<1>4. CASE HandlerReturn(p)
  <2> DEFINE h == [proc[p] EXCEPT !.hold = {}]
  <2>1. h \in ProcType /\ h.wchan = proc[p].wchan
    BY <1>1 DEF ProcType
  <2>2. Run(p, Goto(h, "issig", "user")) /\ cpu = p /\ sleepq' = sleepq /\ dispq' = dispq
    BY <1>4 DEF HandlerReturn, Running
  <2> HIDE DEF h
  <2> QED BY <2>1, <2>2, GotoFields, StepMoves DEF Run
<1>5. ASSUME NEW c \in Sleeps[p], Sleep(p, c[1], c[2]) PROVE Moves(p) /\ Ends(p)
  <2>1. c[1] \in Chan /\ c[2] \in Disp
    BY ConstantsAssumption
  <2> QED BY <1>5, <2>1, SleepMoves
<1> QED BY <1>2, <1>3, <1>4, <1>5, DispatchMoves, IssigMoves, PsigMoves DEF Process

(***************************************************************************)
(* The queues and p_wchan.                                                 *)
(***************************************************************************)

(* Cutting a queue leaves a queue. *)
LEMMA CutType ==
  ASSUME NEW q \in Seq(Proc), NEW p
  PROVE  Cut(q, p) \in Seq(Proc)
<1>1. CASE p \in ToSet(q)
  <2> DEFINE i == CHOOSE i \in DOMAIN q : q[i] = p
  <2>1. \E j \in 1..Len(q) : q[j] = p
    BY <1>1, MemberIff
  <2>2. i \in 1..Len(q)
    BY <2>1
  <2> HIDE DEF i
  <2>3. SubSeq(q, 1, i) \in Seq(Proc)
    BY <2>2
  <2> QED BY <1>1, <2>3 DEF Cut, i
<1> QED BY <1>1 DEF Cut

(* Linking and unlinking leave queues of processes. *)
LEMMA QueueTypes ==
  ASSUME TypeOK, NEW p \in Proc
  PROVE  /\ Unlinked(p) \in [Bucket -> Seq(Proc)]
         /\ \A c \in Chan : Linked(p, c) \in [Bucket -> Seq(Proc)]
<1>1. Unlinked(p) \in [Bucket -> Seq(Proc)]
  <2> DEFINE chan == proc[p].wchan
  <2>1. CASE chan = NULL
    BY <2>1 DEF Unlinked, TypeOK
  <2>2. CASE chan # NULL
    <3>1. Hash[chan] \in Bucket
      BY <2>2 DEF TypeOK, ProcType, Bucket
    <3>2. RemoveFirst(sleepq[Hash[chan]], p) \in Seq(Proc)
      BY <3>1, RemoveFirstFacts DEF TypeOK
    <3> QED BY <2>2, <3>1, <3>2 DEF Unlinked, TypeOK
  <2> QED BY <2>1, <2>2
<1>2. ASSUME NEW c \in Chan PROVE Linked(p, c) \in [Bucket -> Seq(Proc)]
  <2>1. ASSUME NEW b \in Bucket
        PROVE  /\ Cut(sleepq[b], p) \in Seq(Proc)
               /\ Append(Cut(sleepq[b], p), p) \in Seq(Proc)
    <3>1. Cut(sleepq[b], p) \in Seq(Proc)
      BY CutType DEF TypeOK
    <3> QED BY <3>1
  <2> QED BY <2>1 DEF Linked
<1> QED BY <1>1, <1>2

(* A step that moves p is about p alone, and keeps the types. *)
LEMMA MovesOnly ==
  ASSUME IInv, NEW p \in Proc, Moves(p), Good(p)'
  PROVE  Only(p)
<1>1. proc' \in [Proc -> ProcType] /\ \A q \in Proc \ {p} : proc'[q] = proc[q]
  BY DEF IInv, TypeOK, Moves, Good
<1>2. sleepq' \in [Bucket -> Seq(Proc)]
  BY QueueTypes DEF IInv, Moves, TypeOK
<1>3. \A q \in Proc \ {p} : (q \in dispq' <=> q \in dispq) /\ (cpu' = q <=> cpu = q)
  BY NullFacts DEF Moves
<1>4. dispq' \subseteq Proc /\ cpu' \in Proc \cup {NULL}
  BY DEF IInv, TypeOK, Moves
<1> QED BY <1>1, <1>2, <1>3, <1>4 DEF Only, TypeOK

(* The processes whose p_wchan hashes to bucket b. *)
Waiting(b) == {p \in Proc : proc[p].wchan # NULL /\ Hash[proc[p].wchan] = b}

(* The part of the inductive invariant about the sleep queues. It fails    *)
(* when kmem_alloc() sleeps in stop(): the second sleep() cuts the queue   *)
(* the process is on.                                                      *)
QInv == ~KMEMSHORT => \A b \in Bucket : IsInjective(sleepq[b]) /\ ToSet(sleepq[b]) = Waiting(b)

(* A step that moves one process keeps the queues and p_wchan together. *)
LEMMA MovesQueues ==
  ASSUME IInv, QInv, NEW p \in Proc, Moves(p)
  PROVE  QInv'
<1> SUFFICES ASSUME ~KMEMSHORT, NEW b \in Bucket
             PROVE  IsInjective(sleepq'[b]) /\ ToSet(sleepq'[b]) = Waiting(b)'
  BY DEF QInv
<1>1. /\ sleepq[b] \in Seq(Proc) /\ IsInjective(sleepq[b]) /\ ToSet(sleepq[b]) = Waiting(b)
      /\ proc[p].wchan \in Chan \cup {NULL} /\ sleepq \in [Bucket -> Seq(Proc)]
  BY DEF QInv, IInv, TypeOK, ProcType
<1>2. \A q \in Proc \ {p} : proc'[q] = proc[q]
  BY DEF Moves, IInv, TypeOK
<1>3. CASE sleepq' = sleepq /\ proc'[p].wchan = proc[p].wchan
  <2>1. Waiting(b)' = Waiting(b)
    BY <1>2, <1>3 DEF Waiting
  <2> QED BY <1>1, <1>3, <2>1
<1>4. CASE sleepq' = Unlinked(p) /\ proc'[p].wchan = NULL
  <2>1. Waiting(b)' = Waiting(b) \ {p}
    BY <1>2, <1>4 DEF Waiting
  <2>2. CASE proc[p].wchan = NULL \/ Hash[proc[p].wchan] # b
    <3>1. sleepq'[b] = sleepq[b]
      BY <1>1, <1>4, <2>2 DEF Unlinked
    <3>2. p \notin Waiting(b)
      BY <2>2 DEF Waiting
    <3> QED BY <1>1, <2>1, <3>1, <3>2
  <2>3. CASE proc[p].wchan # NULL /\ Hash[proc[p].wchan] = b
    <3>1. sleepq'[b] = RemoveFirst(sleepq[b], p)
      BY <1>1, <1>4, <2>3 DEF Unlinked
    <3> QED BY <1>1, <2>1, <3>1, RemoveFirstFacts
  <2> QED BY <2>2, <2>3
<1>5. ASSUME NEW c \in Chan, sleepq' = Linked(p, c), proc'[p].wchan = c, proc[p].wchan = NULL
      PROVE  IsInjective(sleepq'[b]) /\ ToSet(sleepq'[b]) = Waiting(b)'
  <2>1. p \notin ToSet(sleepq[b])
    BY <1>1, <1>5 DEF Waiting
  <2>2. Cut(sleepq[b], p) = sleepq[b]
    BY <2>1 DEF Cut
  <2>3. sleepq'[b] = IF b = Hash[c] THEN Append(sleepq[b], p) ELSE sleepq[b]
    BY <1>5, <2>1, <2>2 DEF Linked
  <2>4. Waiting(b)' = Waiting(b) \cup (IF b = Hash[c] THEN {p} ELSE {})
    BY <1>2, <1>5, NullFacts DEF Waiting
  <2>5. CASE b = Hash[c]
    BY <1>1, <2>1, <2>3, <2>4, <2>5, AppendFacts
  <2>6. CASE b # Hash[c]
    BY <1>1, <2>3, <2>4, <2>6
  <2> QED BY <2>5, <2>6
<1> QED BY <1>3, <1>4, <1>5 DEF Moves

(* wakeup() finds processes. *)
LEMMA WokenProcs ==
  ASSUME TypeOK, NEW chan \in Chan
  PROVE  Hash[chan] \in Bucket /\ sleepq[Hash[chan]] \in Seq(Proc) /\ Woken(chan) \subseteq Proc
<1>1. Hash[chan] \in Bucket /\ sleepq[Hash[chan]] \in Seq(Proc)
  BY DEF TypeOK, Bucket
<1> QED BY <1>1, MemberIff DEF Woken

(* wakeup() keeps the queues and p_wchan together, when channels share a   *)
(* bucket too.                                                             *)
LEMMA WakeupQueues ==
  ASSUME IInv, QInv, NEW chan \in Chan, Wakeup(chan)
  PROVE  QInv'
<1> SUFFICES ASSUME ~KMEMSHORT, NEW b \in Bucket
             PROVE  IsInjective(sleepq'[b]) /\ ToSet(sleepq'[b]) = Waiting(b)'
  BY DEF QInv
<1> DEFINE W == Woken(chan)
<1>1. /\ sleepq[b] \in Seq(Proc) /\ IsInjective(sleepq[b]) /\ ToSet(sleepq[b]) = Waiting(b)
      /\ sleepq \in [Bucket -> Seq(Proc)]
  BY DEF QInv, IInv, TypeOK
<1>2. sleepq'[b] = IF b = Hash[chan] THEN Without(sleepq[b], W) ELSE sleepq[b]
  BY <1>1 DEF Wakeup, Wakeprocs
<1>3. ASSUME NEW q \in Proc
      PROVE  proc'[q].wchan = IF q \in W THEN NULL ELSE proc[q].wchan
  BY DEF Wakeup, Wakeprocs, IInv, TypeOK, ProcType
<1>4. Waiting(b)' = Waiting(b) \ W
  BY <1>3 DEF Waiting
<1>5. CASE b = Hash[chan]
  BY <1>1, <1>2, <1>4, <1>5, WithoutFacts
<1>6. CASE b # Hash[chan]
  <2>1. Waiting(b) \cap W = {}
    BY <1>6 DEF Waiting, Woken
  <2> QED BY <1>1, <1>2, <1>4, <1>6, <2>1
<1> QED BY <1>5, <1>6

(* wakeup() keeps the part of the invariant about the process table. *)
LEMMA WakeupIInv ==
  ASSUME IInv, NEW chan \in Chan, Wakeup(chan)
  PROVE  IInv'
<1>1. \A p \in Proc : Good(p)'
  BY WakeupGood
<1>2. proc' \in [Proc -> ProcType]
  <2>1. proc' = [p \in Proc |-> proc'[p]]
    BY DEF Wakeup, Wakeprocs
  <2> QED BY <1>1, <2>1 DEF Good
<1>3. sleepq' \in [Bucket -> Seq(Proc)] /\ dispq' \subseteq Proc /\ cpu' \in Proc \cup {NULL}
  <2>1. TypeOK BY DEF IInv
  <2>2. Without(sleepq[Hash[chan]], Woken(chan)) \in Seq(Proc)
    BY <2>1, WokenProcs, WithoutFacts
  <2> QED BY <2>1, <2>2, WokenProcs DEF TypeOK, Wakeup, Wakeprocs
<1> QED BY <1>1, <1>2, <1>3 DEF IInv, TypeOK

(* wakeup() ends the sleeps on its own channel only, and returns from      *)
(* none.                                                                   *)
LEMMA WakeupEnds ==
  ASSUME IInv, NEW chan \in Chan, Wakeup(chan), NEW p \in Proc
  PROVE  /\ proc[p].stat = "SSLEEP" /\ proc'[p].stat # "SSLEEP" => chan = proc[p].wchan
         /\ proc[p].site # "user" => proc'[p].pc # "kernel"
<1>1. proc[p] \in ProcType /\ Good(p)
  BY DEF IInv, TypeOK
<1>2. proc'[p].pc = proc[p].pc /\ (p \notin Woken(chan) => proc'[p] = proc[p])
  BY <1>1 DEF Wakeup, Wakeprocs, ProcType
<1>3. p \in Woken(chan) => proc[p].wchan = chan
  BY DEF Woken
<1> QED BY <1>1, <1>2, <1>3 DEF Good, Local

(* A step of a process keeps what is claimed of it. *)
LEMMA ProcessGood ==
  ASSUME IInv, NEW p \in Proc, Process(p)
  PROVE  Good(p)'
<1>1. ASSUME NEW c \in Sleeps[p], Sleep(p, c[1], c[2]) PROVE Good(p)'
  <2>1. c[1] \in Chan /\ c[2] \in Disp
    BY ConstantsAssumption
  <2> QED BY <1>1, <2>1, SleepGood
<1> QED BY <1>1, DispatchGood, IssigGood, PsigGood, PreemptGood, ToUserGood,
   HandlerReturnGood DEF Process

(* A request of the debugger keeps what is claimed of the process. *)
LEMMA DebuggerGood ==
  ASSUME IInv, NEW p \in Proc, Debugger(p)
  PROVE  Good(p)'
<1>1. Sent[p] \subseteq Sig /\ Traced[p] \subseteq Sig
  BY ConstantsAssumption
<1> QED BY <1>1, PiocstopGood, PiocrunGood, PiocstraceGood, PiocssigGood, PrcloseGood DEF Debugger

(***************************************************************************)
(* The theorems.                                                           *)
(***************************************************************************)

(* The inductive invariant. *)
Inv == IInv /\ QInv

(* Every step moves one process or is a wakeup. *)
LEMMA NextCases ==
  ASSUME IInv, Next
  PROVE  \/ \E p \in Proc : Moves(p) /\ Ends(p) /\ Good(p)'
         \/ \E chan \in Chan : Wakeup(chan)
<1>1. ASSUME NEW p \in Proc, Process(p) PROVE Moves(p) /\ Ends(p) /\ Good(p)'
  BY <1>1, ProcessMoves, ProcessGood
<1>2. ASSUME NEW p \in Proc, Debugger(p) PROVE Moves(p) /\ Ends(p) /\ Good(p)'
  BY <1>2, DebuggerMoves, DebuggerGood
<1>3. ASSUME NEW p \in Proc, NEW sig \in Sent[p], Psignal(p, sig)
      PROVE  Moves(p) /\ Ends(p) /\ Good(p)'
  <2>1. sig \in Sig
    BY ConstantsAssumption
  <2> QED BY <1>3, <2>1, PsignalMoves, PsignalGood
<1> QED BY <1>1, <1>2, <1>3 DEF Next

(* The invariant holds when the processes have been created. *)
LEMMA InitInv == Init => Inv
<1> SUFFICES ASSUME Init PROVE Inv
  OBVIOUS
<1>1. ASSUME NEW p \in Proc PROVE NewProc(p) \in ProcType
  BY ConstantsAssumption DEF NewProc, ProcType, Flag
<1>2. proc \in [Proc -> ProcType] /\ \A p \in Proc : proc[p] = NewProc(p)
  BY <1>1 DEF Init
<1>3. TypeOK
  BY <1>2 DEF Init, TypeOK
<1>4. ASSUME NEW p \in Proc PROVE Good(p)
  BY <1>2, NullFacts, ConstantsAssumption DEF Init, NewProc, Good, Local, Noticed, Stopped, Placed
<1>5. ASSUME NEW b \in Bucket PROVE IsInjective(sleepq[b]) /\ ToSet(sleepq[b]) = Waiting(b)
  <2>1. sleepq[b] = << >>
    BY DEF Init
  <2>2. IsInjective(<< >>) /\ ToSet(<< >>) = {}
    BY DEF IsInjective, ToSet
  <2>3. Waiting(b) = {}
    BY <1>2 DEF Waiting, NewProc
  <2> QED BY <2>1, <2>2, <2>3
<1> QED BY <1>3, <1>4, <1>5 DEF Inv, IInv, QInv

(* Every step keeps the invariant. *)
LEMMA NextInv == Inv /\ [Next]_vars => Inv'
<1> SUFFICES ASSUME Inv, [Next]_vars PROVE Inv'
  OBVIOUS
<1>1. CASE UNCHANGED vars
  BY <1>1 DEF Inv, IInv, QInv, TypeOK, Good, Placed, Waiting, vars
<1>2. CASE Next
  <2>1. ASSUME NEW p \in Proc, Moves(p), Good(p)' PROVE Inv'
    BY <2>1, MovesOnly, MovesQueues, Frame DEF Inv
  <2>2. ASSUME NEW chan \in Chan, Wakeup(chan) PROVE Inv'
    BY <2>2, WakeupIInv, WakeupQueues DEF Inv
  <2> QED BY <1>2, <2>1, <2>2, NextCases DEF Inv
<1> QED BY <1>1, <1>2

(* The inductive invariant holds in every state, for every set of          *)
(* processes, channels, buckets and signals, and whether or not            *)
(* kmem_alloc() may sleep in stop().                                       *)
THEOREM SlpInvariant == Spec => []Inv
BY InitInv, NextInv, PTL DEF Spec

(* In every state a stopped process waits for the one master that stopped  *)
(* it (stop() of sig.c), never for a debugger that has closed it, and      *)
(* never when SIGKILL is pending or current.                               *)
THEOREM StopsAreSound == Spec => []StopsSound
<1>1. Inv => StopsSound
  <2> SUFFICES ASSUME Inv, NEW p \in Proc
               PROVE  /\ proc[p].stat = "SSTOP" =>
                           /\ proc[p].whystop # NULL
                           /\ IF proc[p].whystop = "PR_JOBCONTROL"
                              THEN proc[p].flag \cap {"SXSTART", "SPSTART"} = {"SPSTART"}
                              ELSE proc[p].flag \cap {"SXSTART", "SPSTART"} = {"SXSTART"}
                           /\ SIGKILL \notin proc[p].sig /\ proc[p].cursig # SIGKILL
                      /\ "SRUNLCL" \notin proc[p].flag =>
                           /\ proc[p].stat = "SSTOP" => proc[p].whystop = "PR_JOBCONTROL"
                           /\ "SPRSTOP" \notin proc[p].flag
    BY DEF StopsSound, StopOwned, ClosedRuns, KillRuns
  <2>1. Stopped(proc[p])
    BY DEF Inv, IInv, Good
  <2> QED BY <2>1 DEF Stopped
<1> QED BY <1>1, SlpInvariant, PTL

(* In every state a process that gave up the CPU in an interruptible       *)
(* sleep() has no signal and no stop request to attend to: whatever        *)
(* arrived after its last issig() woke it.                                 *)
THEOREM SignalsAreNoticed == Spec => []SignalNoticed
<1>1. Inv => SignalNoticed
  BY DEF Inv, IInv, Good, Noticed, SignalNoticed
<1> QED BY <1>1, SlpInvariant, PTL

(* In every state p_wchan, the sleep queues and the dispatcher queues      *)
(* agree, so that wakeup() finds every sleeper and every SRUN process is   *)
(* on a queue. The hypothesis is needed: when kmem_alloc() sleeps inside   *)
(* stop() a process is lost (MCSlpLost.cfg).                               *)
THEOREM TablesAreSound == ASSUME KMEMSHORT = FALSE PROVE Spec => []TablesSound
<1>1. Inv => TablesSound
  <2> SUFFICES ASSUME Inv PROVE TablesSound
    OBVIOUS
  <2>1. TypeOK
    BY DEF Inv, IInv
  <2>2. ASSUME NEW b \in Bucket
        PROVE  /\ Cardinality(ToSet(sleepq[b])) = Len(sleepq[b])
               /\ ToSet(sleepq[b]) = {p \in Proc : proc[p].wchan # NULL /\ Hash[proc[p].wchan] = b}
    <3>1. sleepq[b] \in Seq(Proc) /\ IsInjective(sleepq[b]) /\ ToSet(sleepq[b]) = Waiting(b)
      BY <2>1 DEF TypeOK, Inv, QInv
    <3> QED BY <3>1, InjectiveCardinality DEF Waiting
  <2>3. ASSUME NEW p \in Proc
        PROVE  /\ proc[p].wchan # NULL => proc[p].stat \in {"SSLEEP", "SSTOP"}
               /\ proc[p].stat = "SSLEEP" => proc[p].wchan # NULL
               /\ proc[p].stat = "SRUN" <=> p \in dispq
    BY DEF Inv, IInv, Good, Local, Placed
  <2> QED BY <2>1, <2>2, <2>3 DEF TablesSound, QueueIntegrity, RunnableQueued
<1> QED BY <1>1, SlpInvariant, PTL

(* Every step keeps to SleepEnds: only the wakeup() of its channel ends a  *)
(* sleep at high priority, and sleep() does not return 0 after PRSABORT.   *)
THEOREM SleepsEnd == Spec => SleepEnds
<1> DEFINE Step1 == \A p \in Proc :
         (proc[p].stat = "SSLEEP" /\ "SNWAKE" \in proc[p].flag /\ proc'[p].stat # "SSLEEP")
            => Wakeup(proc[p].wchan)
           Step2 == \A p \in Proc :
         (proc[p].site # "user" /\ proc[p].disp # "high" /\ proc'[p].pc = "kernel")
            => ~proc[p].sysabort
<1>1. Inv /\ Next => Step1 /\ Step2
  <2> SUFFICES ASSUME Inv, Next PROVE Step1 /\ Step2
    OBVIOUS
  <2>1. IInv BY DEF Inv
  <2>2. ASSUME NEW p \in Proc, Moves(p), Ends(p) PROVE Step1 /\ Step2
    <3>1. \A q \in Proc \ {p} : proc'[q] = proc[q]
      BY <2>1, <2>2 DEF Moves, IInv, TypeOK
    <3>2. \A q \in Proc : proc[q].site # "user" => proc[q].pc # "kernel"
      BY <2>1 DEF IInv, Good, Local
    <3> QED BY <2>2, <3>1, <3>2 DEF Ends
  <2>3. ASSUME NEW chan \in Chan, Wakeup(chan) PROVE Step1 /\ Step2
    BY <2>1, <2>3, WakeupEnds
  <2> QED BY <2>1, <2>2, <2>3, NextCases
<1>2. Inv /\ [Next]_vars => [Step1]_vars /\ [Step2]_vars
  BY <1>1
<1> HIDE DEF Step1, Step2
<1>3. Spec => [][Step1]_vars /\ [][Step2]_vars
  BY <1>2, SlpInvariant, PTL DEF Spec
<1> QED BY <1>3 DEF SleepEnds, Undisturbed, AbortHeard, Step1, Step2

=============================================================================
