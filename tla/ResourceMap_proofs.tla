------------------------- MODULE ResourceMap_proofs -------------------------
(***************************************************************************)
(* Facts about the operators of ResourceMap, for maps of every size.       *)
(***************************************************************************)
EXTENDS ResourceMap, TLAPS, NaturalsInduction, WellFoundedInduction

(* A set of naturals that has a member has a least one. *)
LEMMA Least ==
    ASSUME NEW S \in SUBSET Nat, NEW x \in S
    PROVE  \E y \in S : \A z \in S : y <= z
<1>1. IsWellFoundedOn(OpToRel(<, Nat), Nat)
  BY NatLessThanWellFounded, Zenon
<1>2. PICK y \in S : \A z \in S : ~(<<z, y>> \in OpToRel(<, Nat))
  BY <1>1, WFMin
<1>3. ASSUME NEW z \in S PROVE y <= z
  <2>1. ~(z < y)
    BY <1>2, <1>3 DEF OpToRel
  <2> QED BY <2>1
<1> QED BY <1>3

(* The scans see just the entries in use. *)
LEMMA LiveIff ==
    ASSUME NEW m, Shape(m), NEW i \in Slot
    PROVE  Live(m, i) <=> i <= Used(m)
<1> USE MapSlotsAssumption
<1>1. ASSUME i <= Used(m), NEW j \in 1 .. i PROVE m.ent[j].m_size # 0
  BY <1>1 DEF Shape, Slot, Used, MapType
<1>2. ASSUME ~(i <= Used(m)) PROVE m.ent[i].m_size = 0 /\ i \in 1 .. i
  BY <1>2 DEF Shape, Slot, EndEntry
<1> QED BY <1>1, <1>2 DEF Live

(* The scan of rmalloc stops at the first entry that is large enough.      *)
LEMMA AllocSlotExists ==
    ASSUME NEW m, Shape(m), NEW size \in Nat, CanAlloc(m, size)
    PROVE  /\ AllocSlot(m, size) \in 1 .. Used(m)
           /\ FirstFit(m, size, AllocSlot(m, size))
<1> USE MapSlotsAssumption
<1> DEFINE S == {i \in Slot : Fit(m, size, i)}
<1>1. S \in SUBSET Nat BY DEF Slot
<1>2. PICK k \in S : TRUE BY DEF CanAlloc
<1>3. PICK y \in S : \A z \in S : y <= z BY <1>1, <1>2, Least
<1>4. FirstFit(m, size, y)
  <2>1. ASSUME NEW j \in 1 .. y - 1 PROVE ~Fit(m, size, j)
    <3>1. j \in Slot /\ ~(y <= j) BY <2>1, <1>3 DEF Slot
    <3> QED BY <3>1, <1>3
  <2> QED BY <2>1, <1>3 DEF FirstFit
<1>5. AllocSlot(m, size) \in Slot /\ FirstFit(m, size, AllocSlot(m, size))
  BY <1>4, <1>3 DEF AllocSlot
<1> QED BY <1>5, LiveIff DEF FirstFit, Fit, Slot, Used, Shape, MapType

(* The scan of rmfree stops within the array. *)
LEMMA FreeSlotExists ==
    ASSUME NEW m, Shape(m), NEW a \in Nat
    PROVE  /\ FreeSlot(m, a) \in 1 .. Used(m) + 1
           /\ ~Before(m, a, FreeSlot(m, a))
           /\ \A j \in 1 .. FreeSlot(m, a) - 1 : Before(m, a, j)
<1> USE MapSlotsAssumption
<1> DEFINE S == {i \in Slot : ~Before(m, a, i)}
           l == Used(m) + 1
<1>1. S \in SUBSET Nat BY DEF Slot
<1>2. l \in Slot BY DEF Slot, Used, Shape, MapType
<1>3. l \in S BY <1>2, LiveIff DEF Before, Used, Shape, MapType
<1>4. PICK y \in S : \A z \in S : y <= z BY <1>1, <1>3, Least
<1>5. \A j \in 1 .. y - 1 : Before(m, a, j)
  <2>1. ASSUME NEW j \in 1 .. y - 1 PROVE Before(m, a, j)
    <3>1. j \in Slot /\ ~(y <= j) BY <2>1, <1>4 DEF Slot
    <3> QED BY <3>1, <1>4
  <2> QED BY <2>1
<1> DEFINE f == FreeSlot(m, a)
<1>6. f \in Slot /\ ~Before(m, a, f) /\ \A j \in 1 .. f - 1 : Before(m, a, j)
  BY <1>5, <1>4 DEF FreeSlot
<1>7. f <= l
  <2>1. SUFFICES ASSUME f > l PROVE FALSE BY <1>2, <1>6 DEF Slot
  <2>2. l \in 1 .. f - 1 BY <2>1, <1>2, <1>6 DEF Slot
  <2>3. Before(m, a, l) BY <2>2, <1>6
  <2> QED BY <2>3, <1>3
<1> QED BY <1>6, <1>7 DEF Slot

(* The parts rmalloc builds a map from have their types. *)
LEMMA PartsType ==
    ASSUME NEW m \in MapType, NEW bp \in Slot, NEW e \in Entry
    PROVE  /\ Squeeze(m.ent, bp) \in [Slot -> Entry]
           /\ Spread(m.ent, bp, e) \in [Slot -> Entry]
           /\ \A i \in Slot : m.ent[i] \in Entry /\ m.ent[i].m_addr \in Nat
                                                 /\ m.ent[i].m_size \in Nat
BY MapSlotsAssumption DEF Squeeze, Spread, MapType, Slot, Entry

(***************************************************************************)
(* rmfree: what each of its four ways out of the scan makes of the map.    *)
(***************************************************************************)
(* Where the scan stops, and what the comparisons there imply. *)
LEMMA RmfreeScan ==
    ASSUME NEW m, Shape(m), NEW size \in Nat \ {0}, NEW a \in Nat,
           NEW bp, bp = FreeSlot(m, a)
    PROVE  /\ bp \in Slot /\ bp \in 1 .. Used(m) + 1
           /\ m.ent[bp] \in Entry
           /\ bp > 1 => bp - 1 \in Slot /\ m.ent[bp - 1] \in Entry /\ bp - 1 <= Used(m)
                        /\ m.ent[bp - 1].m_addr <= a /\ m.ent[bp - 1].m_size # 0
           /\ bp <= Used(m) => m.ent[bp].m_addr > a
           /\ JoinsHigh(m, size, a, bp) => bp <= Used(m) /\ m.ent[bp].m_size # 0
<1> USE MapSlotsAssumption
<1>1. /\ bp \in 1 .. Used(m) + 1 /\ ~Before(m, a, bp)
      /\ \A j \in 1 .. bp - 1 : Before(m, a, j)
  BY FreeSlotExists
<1>2. bp \in Slot /\ Used(m) \in Nat /\ m \in MapType
  BY <1>1 DEF Slot, Used, Shape, MapType
<1>3. m.ent[bp] \in Entry /\ m.ent[bp].m_addr \in Nat /\ m.ent[bp].m_size \in Nat
  BY <1>2 DEF MapType, Entry
<1>4. ASSUME bp > 1
      PROVE bp - 1 \in Slot /\ m.ent[bp - 1] \in Entry /\ bp - 1 <= Used(m)
            /\ m.ent[bp - 1].m_addr <= a /\ m.ent[bp - 1].m_size # 0
  <2>1. bp - 1 \in Slot /\ Before(m, a, bp - 1) /\ bp - 1 \in 1 .. bp - 1
    BY <1>1, <1>2, <1>4 DEF Slot
  <2>2. m.ent[bp - 1] \in Entry
    BY <2>1, <1>2 DEF MapType
  <2> QED BY <2>1, <2>2, <1>1, <1>2 DEF Before, Live
<1>5. ASSUME bp <= Used(m) PROVE m.ent[bp].m_addr > a
  <2>1. Live(m, bp) BY <1>5, <1>2, LiveIff
  <2> QED BY <2>1, <1>1, <1>3 DEF Before
<1>6. ASSUME JoinsHigh(m, size, a, bp) PROVE bp <= Used(m) /\ m.ent[bp].m_size # 0
  <2>1. m.ent[bp] # EndEntry
    BY <1>6 DEF JoinsHigh, EndEntry
  <2> QED BY <2>1, <1>2, <1>1 DEF Shape, Slot
<1> QED BY <1>1, <1>2, <1>3, <1>4, <1>5, <1>6

(* The extent closes the gap between two entries. *)
LEMMA RmfreeBoth ==
    ASSUME NEW m, Shape(m), NEW size \in Nat \ {0}, NEW a \in Nat,
           NEW bp, bp = FreeSlot(m, a),
           JoinsLow(m, a, bp), JoinsHigh(m, size, a, bp)
    PROVE  LET r == Rmfree(m, size, a)
           IN  /\ Shape(r) /\ r.size = m.size + 1 /\ ~r.want
               /\ \A k \in Slot : k < bp - 1 => r.ent[k] = m.ent[k]
               /\ r.ent[bp - 1] = [m_addr |-> m.ent[bp - 1].m_addr,
                                   m_size |-> m.ent[bp - 1].m_size + size + m.ent[bp].m_size]
               /\ \A k \in Slot : bp <= k /\ k < MapSlots + 1 => r.ent[k] = m.ent[k + 1]
<1> USE MapSlotsAssumption
<1> DEFINE r == Rmfree(m, size, a)
           f == [m_addr |-> m.ent[bp - 1].m_addr,
                 m_size |-> m.ent[bp - 1].m_size + (size + m.ent[bp].m_size)]
           grown == [m.ent EXCEPT ![bp - 1] = f]
<1>1. /\ bp \in Slot /\ bp - 1 \in Slot /\ bp <= Used(m) /\ m \in MapType
      /\ m.ent[bp] \in Entry /\ m.ent[bp - 1] \in Entry /\ m.ent[bp - 1].m_size # 0
      /\ Used(m) = MapSlots - m.size /\ m.size \in Nat
  BY RmfreeScan DEF JoinsLow, Shape, Used, MapType
<1>2. ~Overflows(m, size, a)
  BY DEF Overflows
<1>3. r = [ent |-> Squeeze(grown, bp), size |-> m.size + 1, want |-> FALSE]
  BY <1>2 DEF Rmfree
<1>4. f \in Entry /\ f.m_size # 0
      /\ f = [m_addr |-> m.ent[bp - 1].m_addr,
              m_size |-> m.ent[bp - 1].m_size + size + m.ent[bp].m_size]
  BY <1>1 DEF Entry
<1>5. grown \in [Slot -> Entry]
  BY <1>1, <1>4 DEF MapType
<1> HIDE DEF f
<1>6. r.size = m.size + 1 /\ r.ent = Squeeze(grown, bp) /\ ~r.want
  BY <1>3
<1>7. r.ent \in [Slot -> Entry]
  BY <1>1, <1>5, <1>6 DEF Squeeze, Slot
<1>8. r \in MapType
  BY <1>1, <1>3, <1>6, <1>7 DEF MapType
<1>9. /\ \A k \in Slot : k < bp - 1 => r.ent[k] = m.ent[k]
      /\ r.ent[bp - 1] = f
      /\ \A k \in Slot : bp <= k /\ k < MapSlots + 1 => r.ent[k] = m.ent[k + 1]
      /\ r.ent[MapSlots + 1] = m.ent[MapSlots + 1]
  BY <1>1, <1>6, SMTT(30) DEF Squeeze, Slot, MapType
<1>10. Shape(r)
  <2>1. r.size <= MapSlots
    BY <1>1, <1>6 DEF Slot
  <2>2. ASSUME NEW k \in Slot
        PROVE  IF k <= Used(r) THEN r.ent[k].m_size # 0 ELSE r.ent[k] = EndEntry
    <3>1. Used(r) = Used(m) - 1 BY <1>6, <1>1 DEF Used
    <3>2. CASE k < bp - 1 BY <3>1, <3>2, <1>9, <1>1 DEF Shape, Slot
    <3>3. CASE k = bp - 1 BY <3>1, <3>3, <1>9, <1>1, <1>4 DEF Slot
    <3>4. CASE k >= bp /\ k < MapSlots + 1
      BY <3>1, <3>4, <1>9, <1>1 DEF Shape, Slot
    <3>5. CASE k = MapSlots + 1
      BY <3>1, <3>5, <1>9, <1>1 DEF Shape, Slot
    <3> QED BY <3>2, <3>3, <3>4, <3>5, <1>1 DEF Slot
  <2> QED BY <2>1, <2>2, <1>8 DEF Shape
<1> QED BY <1>6, <1>9, <1>10, <1>4

(* The extent extends the entry in front of it. *)
LEMMA RmfreeLow ==
    ASSUME NEW m, Shape(m), NEW size \in Nat \ {0}, NEW a \in Nat,
           NEW bp, bp = FreeSlot(m, a),
           JoinsLow(m, a, bp), ~JoinsHigh(m, size, a, bp)
    PROVE  LET r == Rmfree(m, size, a)
           IN  /\ Shape(r) /\ r.size = m.size /\ ~r.want
               /\ r.ent = [m.ent EXCEPT ![bp - 1] =
                             [m_addr |-> m.ent[bp - 1].m_addr,
                              m_size |-> m.ent[bp - 1].m_size + size]]
<1> USE MapSlotsAssumption
<1> DEFINE r == Rmfree(m, size, a)
           f == [m_addr |-> m.ent[bp - 1].m_addr, m_size |-> m.ent[bp - 1].m_size + size]
<1>1. /\ bp - 1 \in Slot /\ bp - 1 <= Used(m) /\ m \in MapType
      /\ m.ent[bp - 1] \in Entry /\ m.ent[bp - 1].m_size # 0
  BY RmfreeScan DEF JoinsLow, Shape
<1>2. ~Overflows(m, size, a)
  BY DEF Overflows
<1>3. r = [ent |-> [m.ent EXCEPT ![bp - 1] = f], size |-> m.size, want |-> FALSE]
  BY <1>2 DEF Rmfree
<1>4. f \in Entry /\ f.m_size # 0
  BY <1>1 DEF Entry
<1> HIDE DEF f
<1>5. r \in MapType /\ r.size = m.size /\ r.ent = [m.ent EXCEPT ![bp - 1] = f] /\ ~r.want
  BY <1>1, <1>3, <1>4 DEF MapType
<1>6. Shape(r)
  BY <1>5, <1>4, <1>1 DEF Shape, Used, Slot, MapType
<1> QED BY <1>5, <1>6 DEF f

(* The extent extends the entry behind it. *)
LEMMA RmfreeHigh ==
    ASSUME NEW m, Shape(m), NEW size \in Nat \ {0}, NEW a \in Nat,
           NEW bp, bp = FreeSlot(m, a),
           ~JoinsLow(m, a, bp), JoinsHigh(m, size, a, bp)
    PROVE  LET r == Rmfree(m, size, a)
           IN  /\ Shape(r) /\ r.size = m.size /\ ~r.want
               /\ r.ent = [m.ent EXCEPT ![bp] =
                             [m_addr |-> a, m_size |-> m.ent[bp].m_size + size]]
<1> USE MapSlotsAssumption
<1> DEFINE r == Rmfree(m, size, a)
           f == [m_addr |-> m.ent[bp].m_addr - size, m_size |-> m.ent[bp].m_size + size]
<1>1. /\ bp \in Slot /\ bp <= Used(m) /\ m \in MapType
      /\ m.ent[bp] \in Entry /\ m.ent[bp].m_size # 0
  BY RmfreeScan DEF Shape
<1>2. ~Overflows(m, size, a)
  BY DEF Overflows
<1>3. r = [ent |-> [m.ent EXCEPT ![bp] = f], size |-> m.size, want |-> FALSE]
  BY <1>2 DEF Rmfree
<1>4. f \in Entry /\ f.m_size # 0
      /\ f = [m_addr |-> a, m_size |-> m.ent[bp].m_size + size]
  BY <1>1 DEF Entry, JoinsHigh
<1> HIDE DEF f
<1>5. r \in MapType /\ r.size = m.size /\ r.ent = [m.ent EXCEPT ![bp] = f] /\ ~r.want
  BY <1>1, <1>3, <1>4 DEF MapType
<1>6. Shape(r)
  BY <1>5, <1>4, <1>1 DEF Shape, Used, Slot, MapType
<1> QED BY <1>5, <1>6, <1>4

(* The extent touches nothing and takes an entry of its own. *)
LEMMA RmfreeInsert ==
    ASSUME NEW m, Shape(m), NEW size \in Nat \ {0}, NEW a \in Nat,
           NEW bp, bp = FreeSlot(m, a),
           ~JoinsLow(m, a, bp), ~JoinsHigh(m, size, a, bp), ~Overflows(m, size, a)
    PROVE  LET r == Rmfree(m, size, a)
           IN  /\ Shape(r) /\ r.size = m.size - 1 /\ m.size # 0 /\ ~r.want
               /\ r.ent = Spread(m.ent, bp, [m_addr |-> a, m_size |-> size])
<1> USE MapSlotsAssumption
<1> DEFINE r == Rmfree(m, size, a)
           f == [m_addr |-> a, m_size |-> size]
<1>1. /\ bp \in Slot /\ bp <= Used(m) + 1 /\ m \in MapType /\ m.size \in Nat
      /\ m.size # 0
  BY RmfreeScan DEF Shape, Overflows, MapType
<1>2. r = [ent |-> Spread(m.ent, bp, f), size |-> m.size - 1, want |-> FALSE]
  BY DEF Rmfree
<1>3. f \in Entry /\ f.m_size # 0
  BY DEF Entry
<1> HIDE DEF f
<1>4. Spread(m.ent, bp, f) \in [Slot -> Entry]
  BY <1>1, <1>3, PartsType
<1>5. /\ r \in MapType /\ r.size = m.size - 1 /\ ~r.want
      /\ r.ent = Spread(m.ent, bp, f)
  BY <1>1, <1>2, <1>4 DEF MapType
<1>6. Shape(r)
  <2>1. Used(r) = Used(m) + 1 /\ r.size <= MapSlots
    BY <1>5, <1>1 DEF Used, Shape
  <2>2. ASSUME NEW k \in Slot
        PROVE  IF k <= Used(r) THEN r.ent[k].m_size # 0 ELSE r.ent[k] = EndEntry
    <3>1. CASE k < bp BY <2>1, <3>1, <1>5, <1>1 DEF Shape, Slot, Spread, Used
    <3>2. CASE k = bp BY <2>1, <3>2, <1>5, <1>3, <1>1 DEF Slot, Spread, Used
    <3>3. CASE k > bp
      <4>1. k - 1 \in Slot /\ r.ent[k] = m.ent[k - 1]
        BY <3>3, <1>5, <1>1 DEF Slot, Spread
      <4> QED BY <4>1, <2>1, <3>3, <1>1 DEF Shape, Slot, Used
    <3> QED BY <3>1, <3>2, <3>3, <1>1 DEF Slot
  <2> QED BY <2>1, <2>2, <1>5 DEF Shape
<1> QED BY <1>1, <1>5, <1>6 DEF f

(* rmfree keeps the map in shape, whatever is freed. *)
LEMMA RmfreeShape ==
    ASSUME NEW m, Shape(m), NEW size \in Nat, NEW a \in Nat
    PROVE  Shape(Rmfree(m, size, a))
<1>1. CASE size = 0 \/ Overflows(m, size, a)
  BY <1>1 DEF Rmfree
<1>2. CASE size # 0 /\ ~Overflows(m, size, a)
  BY <1>2, RmfreeBoth, RmfreeLow, RmfreeHigh, RmfreeInsert
<1> QED BY <1>1, <1>2

(***************************************************************************)
(* Well-formed maps: rmalloc takes exactly the units it returns off the    *)
(* map, rmfree puts exactly the units it is given on it.                   *)
(***************************************************************************)
Span(a, size) == a .. a + size - 1

(* A unit is free just when it lies in the extent of an entry in use. *)
LEMMA InFreeUnits ==
    ASSUME NEW m, Shape(m), NEW x
    PROVE  x \in FreeUnits(m) <=> \E i \in 1 .. Used(m) : x \in Extent(m.ent[i])
<1> USE MapSlotsAssumption
<1>1. \A i : i \in {j \in Slot : Live(m, j)} <=> i \in 1 .. Used(m)
  <2>1. ASSUME NEW i PROVE i \in {j \in Slot : Live(m, j)} <=> i \in 1 .. Used(m)
    <3>1. CASE i \in Slot BY <3>1, LiveIff DEF Slot, Shape, MapType, Used
    <3>2. CASE i \notin Slot BY <3>2 DEF Slot, Shape, MapType, Used
    <3> QED BY <3>1, <3>2
  <2> QED BY <2>1
<1> QED BY <1>1 DEF FreeUnits

(* The entries of a map in shape are records of naturals. *)
LEMMA EntryFacts ==
    ASSUME NEW m, Shape(m), NEW i \in 1 .. Used(m)
    PROVE  /\ i \in Slot /\ m.ent[i] \in Entry
           /\ m.ent[i].m_addr \in Nat /\ m.ent[i].m_size \in Nat \ {0}
BY MapSlotsAssumption DEF Shape, MapType, Slot, Used, Entry

(* An entry that is used up goes, and its units with it. *)
LEMMA DropUnits ==
    ASSUME NEW m, Shape(m), NEW i \in 1 .. Used(m)
    PROVE  LET r == Drop(m, i)
           IN  /\ Shape(r)
               /\ Ordered(m) => /\ Ordered(r)
                                /\ FreeUnits(r) = FreeUnits(m) \ Extent(m.ent[i])
<1> USE MapSlotsAssumption
<1>a. PICK r : r = Drop(m, i) OBVIOUS
<1>1. /\ r.ent = Squeeze(m.ent, i) /\ r.size = m.size + 1
      /\ m \in MapType /\ m.size \in Nat /\ i \in Slot /\ m.size < MapSlots
      /\ Used(m) \in Nat
  BY <1>a DEF Drop, Shape, MapType, Slot, Used
<1>2. Used(r) = Used(m) - 1 /\ r \in MapType
  <2>1. Squeeze(m.ent, i) \in [Slot -> Entry] BY <1>1, PartsType, EntryFacts
  <2> QED BY <2>1, <1>1, <1>a DEF Drop, MapType, Used
<1>3. ASSUME NEW k \in Slot
      PROVE  r.ent[k] = IF k < i \/ k = MapSlots + 1 THEN m.ent[k] ELSE m.ent[k + 1]
  BY <1>1, <1>3 DEF Squeeze
<1>4. Shape(r)
  <2>1. ASSUME NEW k \in Slot
        PROVE  IF k <= Used(r) THEN r.ent[k].m_size # 0 ELSE r.ent[k] = EndEntry
    <3>1. CASE k < i BY <3>1, <1>1, <1>2, <1>3 DEF Shape, Slot
    <3>2. CASE k >= i /\ k # MapSlots + 1
      <4>1. k + 1 \in Slot /\ r.ent[k] = m.ent[k + 1] /\ (k <= Used(r) <=> k + 1 <= Used(m))
        BY <3>2, <1>1, <1>2, <1>3 DEF Slot
      <4> QED BY <4>1 DEF Shape
    <3>3. CASE k = MapSlots + 1
      BY <3>3, <1>1, <1>2, <1>3 DEF Shape, Slot, Used
    <3> QED BY <3>1, <3>2, <3>3, <1>1 DEF Slot
  <2> QED BY <1>1, <1>2, <2>1 DEF Shape
<1>5. /\ \A k \in 1 .. Used(r) : k < i => r.ent[k] = m.ent[k]
      /\ \A k \in 1 .. Used(r) : k >= i => r.ent[k] = m.ent[k + 1]
  BY <1>1, <1>2, <1>3 DEF Slot, Used
<1>6. ASSUME Ordered(m) PROVE Ordered(r)
  <2>1. ASSUME NEW k \in 1 .. Used(r) PROVE r.ent[k].m_addr > 0
    BY <1>5, <1>1, <1>2, <1>6 DEF Ordered
  <2>2. ASSUME NEW k \in 1 .. Used(r), NEW l \in 1 .. Used(r), k < l
        PROVE  r.ent[k].m_addr + r.ent[k].m_size < r.ent[l].m_addr
    <3>1. CASE l < i BY <3>1, <2>2, <1>5, <1>2, <1>1, <1>6 DEF Ordered
    <3>2. CASE k < i /\ l >= i
      <4>1. r.ent[k] = m.ent[k] /\ r.ent[l] = m.ent[l + 1]
        BY <3>2, <1>5
      <4>2. k \in 1 .. Used(m) /\ l + 1 \in 1 .. Used(m) /\ k < l + 1
        BY <2>2, <1>2, <1>1
      <4> QED BY <4>1, <4>2, <1>6 DEF Ordered
    <3>3. CASE k >= i
      <4>1. r.ent[k] = m.ent[k + 1] /\ r.ent[l] = m.ent[l + 1]
        BY <3>3, <2>2, <1>5, <1>1
      <4>2. k + 1 \in 1 .. Used(m) /\ l + 1 \in 1 .. Used(m) /\ k + 1 < l + 1
        BY <2>2, <1>2, <1>1
      <4> QED BY <4>1, <4>2, <1>6 DEF Ordered
    <3> QED BY <3>1, <3>2, <3>3, <2>2, <1>1
  <2> QED BY <2>1, <2>2 DEF Ordered
<1>7. ASSUME Ordered(m), NEW x
      PROVE  x \in FreeUnits(r) <=> x \in FreeUnits(m) \ Extent(m.ent[i])
  <2>1. ASSUME NEW k \in 1 .. Used(r), x \in Extent(r.ent[k])
        PROVE  x \in FreeUnits(m) \ Extent(m.ent[i])
    <3>1. PICK j \in 1 .. Used(m) : j # i /\ r.ent[k] = m.ent[j]
      <4>1. CASE k < i BY <4>1, <2>1, <1>5, <1>2, <1>1
      <4>2. CASE k >= i
        <5>1. k + 1 \in 1 .. Used(m) /\ k + 1 # i BY <4>2, <2>1, <1>2, <1>1
        <5> QED BY <5>1, <4>2, <1>5
      <4> QED BY <4>1, <4>2, <1>1
    <3>2. x \in FreeUnits(m) BY <3>1, <2>1, InFreeUnits
    <3>3. x \notin Extent(m.ent[i])
      BY <3>1, <2>1, <1>1, <1>7, EntryFacts DEF Ordered, Extent
    <3> QED BY <3>2, <3>3
  <2>2. ASSUME x \in FreeUnits(m) \ Extent(m.ent[i])
        PROVE  \E k \in 1 .. Used(r) : x \in Extent(r.ent[k])
    <3>1. PICK j \in 1 .. Used(m) : x \in Extent(m.ent[j]) BY <2>2, InFreeUnits
    <3>2. j # i BY <3>1, <2>2
    <3>3. CASE j < i BY <3>3, <3>1, <1>5, <1>2, <1>1
    <3>4. CASE j > i
      <4>1. j - 1 \in 1 .. Used(r) /\ j - 1 >= i /\ j - 1 + 1 = j
        BY <3>4, <1>2, <1>1
      <4>2. r.ent[j - 1] = m.ent[j] BY <4>1, <1>5
      <4> QED BY <4>1, <4>2, <3>1
    <3> QED BY <3>2, <3>3, <3>4, <1>1
  <2> QED BY <2>1, <2>2, <1>4, InFreeUnits
<1> QED BY <1>4, <1>6, <1>7, <1>a

(* An entry that shrinks keeps the units of the smaller entry. *)
LEMMA ReplaceUnits ==
    ASSUME NEW m, Shape(m), NEW i \in 1 .. Used(m),
           NEW f \in Entry, f.m_size # 0, m.ent[i].m_addr <= f.m_addr,
           f.m_addr + f.m_size <= m.ent[i].m_addr + m.ent[i].m_size
    PROVE  LET r == Replace(m, i, f)
           IN  /\ Shape(r)
               /\ Ordered(m) => /\ Ordered(r)
                                /\ FreeUnits(r) = FreeUnits(m) \ (Extent(m.ent[i]) \ Extent(f))
<1> USE MapSlotsAssumption
<1>a. PICK r : r = Replace(m, i, f) OBVIOUS
<1>1. /\ r.ent = [m.ent EXCEPT ![i] = f] /\ r.size = m.size
      /\ m \in MapType /\ i \in Slot /\ r \in MapType
      /\ Used(m) \in Nat /\ f.m_addr \in Nat /\ f.m_size \in Nat
  BY <1>a, EntryFacts DEF Replace, Shape, MapType, Used, Entry
<1>2. /\ Used(r) = Used(m) /\ r.ent[i] = f
      /\ \A k \in Slot : k # i => r.ent[k] = m.ent[k]
      /\ \A k \in 1 .. Used(m) : k \in Slot
  BY <1>1, EntryFacts DEF Used, MapType
<1>3. Shape(r)
  BY <1>1, <1>2 DEF Shape, Slot
<1>4. ASSUME Ordered(m) PROVE Ordered(r)
  BY <1>1, <1>2, <1>4, EntryFacts DEF Ordered
<1>5. ASSUME Ordered(m)
      PROVE  FreeUnits(r) = FreeUnits(m) \ (Extent(m.ent[i]) \ Extent(f))
  <2>1. Extent(f) \subseteq Extent(m.ent[i])
    BY <1>1, EntryFacts DEF Extent
  <2>2. ASSUME NEW j \in 1 .. Used(m), j # i
        PROVE  Extent(m.ent[j]) \cap Extent(m.ent[i]) = {}
    BY <2>2, <1>1, <1>5, EntryFacts DEF Ordered, Extent
  <2> QED BY <2>1, <2>2, <1>2, <1>3, InFreeUnits
<1> QED BY <1>3, <1>4, <1>5, <1>a

(* rmalloc of a size the map has. *)
LEMMA RmallocUnits ==
    ASSUME NEW m, Shape(m), NEW size \in Nat, CanAlloc(m, size)
    PROVE  LET a == RmallocAddr(m, size)
               r == Rmalloc(m, size)
           IN  /\ Shape(r) /\ r.want = m.want /\ a \in Nat
               /\ Ordered(m) => /\ Ordered(r)
                                /\ a # 0
                                /\ Span(a, size) \subseteq FreeUnits(m)
                                /\ FreeUnits(r) = FreeUnits(m) \ Span(a, size)
<1> USE MapSlotsAssumption
<1>a. PICK i : i = AllocSlot(m, size) OBVIOUS
<1>b. PICK r : r = Rmalloc(m, size) OBVIOUS
<1>c. PICK a : a = RmallocAddr(m, size) OBVIOUS
<1> DEFINE e == m.ent[i]
           f == [m_addr |-> e.m_addr + size, m_size |-> e.m_size - size]
<1>1. i \in 1 .. Used(m) /\ Fit(m, size, i)
  BY <1>a, AllocSlotExists DEF FirstFit
<1>2. /\ e \in Entry /\ e.m_addr \in Nat /\ e.m_size \in Nat
      /\ e.m_size >= size /\ size # 0 /\ a = e.m_addr
      /\ Ordered(m) => a # 0
  BY <1>1, <1>a, <1>c, EntryFacts DEF Fit, CanAlloc, RmallocAddr, Ordered
<1>3. Span(a, size) \subseteq FreeUnits(m)
  <2>1. Span(a, size) \subseteq Extent(e) BY <1>2 DEF Span, Extent
  <2> QED BY <2>1, <1>1, InFreeUnits
<1>4. r.want = m.want
  BY <1>b DEF Rmalloc, Drop, Replace
<1>5. CASE e.m_size = size
  <2>1. r = Drop(m, i) BY <1>5, <1>a, <1>b DEF Rmalloc
  <2>2. Extent(e) = Span(a, size) BY <1>2, <1>5 DEF Extent, Span
  <2> QED BY <2>1, <2>2, <1>1, <1>2, <1>3, <1>4, <1>b, <1>c, DropUnits, ZenonT(60)
<1>6. CASE e.m_size # size
  <2>1. r = Replace(m, i, f) BY <1>6, <1>a, <1>b DEF Rmalloc
  <2>2. f \in Entry /\ f.m_size # 0 /\ e.m_addr <= f.m_addr
        /\ f.m_addr + f.m_size <= e.m_addr + e.m_size
    BY <1>2, <1>6 DEF Entry
  <2>3. Extent(e) \ Extent(f) = Span(a, size)
    BY <1>2, <1>6 DEF Extent, Span
  <2> HIDE DEF f
  <2>4. /\ Shape(r)
        /\ Ordered(m) => /\ Ordered(r)
                         /\ FreeUnits(r) = FreeUnits(m) \ (Extent(e) \ Extent(f))
    BY <2>1, <2>2, <1>1, ReplaceUnits
  <2> QED BY <2>3, <2>4, <1>2, <1>3, <1>4, <1>b, <1>c
<1> QED BY <1>5, <1>6

(* rmalloc keeps the map in shape. *)
LEMMA RmallocShape ==
    ASSUME NEW m, Shape(m), NEW size \in Nat
    PROVE  Shape(Rmalloc(m, size)) /\ Rmalloc(m, size).want = m.want
<1>1. CASE CanAlloc(m, size) BY <1>1, RmallocUnits
<1>2. CASE ~CanAlloc(m, size) BY <1>2 DEF Rmalloc
<1> QED BY <1>1, <1>2

(* An extent that is not free fits between the entries around bp. *)
LEMMA RmfreeNeighbours ==
    ASSUME NEW m, Shape(m), Ordered(m), NEW size \in Nat \ {0}, NEW a \in Nat,
           Span(a, size) \cap FreeUnits(m) = {}, NEW bp, bp = FreeSlot(m, a)
    PROVE  /\ \A k \in 1 .. Used(m) : k < bp => m.ent[k].m_addr + m.ent[k].m_size <= a
           /\ \A k \in 1 .. Used(m) : k >= bp => a + size <= m.ent[k].m_addr
<1> USE MapSlotsAssumption
<1>1. /\ bp \in 1 .. Used(m) + 1 /\ ~Before(m, a, bp)
      /\ \A j \in 1 .. bp - 1 : Before(m, a, j)
      /\ Used(m) \in Nat
  BY FreeSlotExists DEF Shape, MapType, Used
<1>2. ASSUME NEW k \in 1 .. Used(m), k < bp
      PROVE  m.ent[k].m_addr + m.ent[k].m_size <= a
  <2>1. m.ent[k].m_addr <= a BY <1>1, <1>2 DEF Before
  <2>2. a \notin Extent(m.ent[k])
    <3>1. a \in Span(a, size) BY DEF Span
    <3> QED BY <3>1, InFreeUnits
  <2> QED BY <2>1, <2>2, EntryFacts DEF Extent
<1>3. ASSUME NEW k \in 1 .. Used(m), k >= bp
      PROVE  a + size <= m.ent[k].m_addr
  <2>1. bp <= Used(m) /\ bp \in 1 .. Used(m) BY <1>1, <1>3
  <2>2. m.ent[bp].m_addr > a
    BY <2>1, RmfreeScan
  <2>3. m.ent[k].m_addr > a
    BY <2>1, <2>2, <1>3, <1>1, EntryFacts DEF Ordered
  <2>4. m.ent[k].m_addr \notin Span(a, size)
    <3>1. m.ent[k].m_addr \in Extent(m.ent[k]) BY EntryFacts DEF Extent
    <3> QED BY <3>1, InFreeUnits
  <2> QED BY <2>3, <2>4, EntryFacts DEF Span
<1> QED BY <1>2, <1>3

(* rmfree of an extent that is not free. *)
LEMMA RmfreeUnits ==
    ASSUME NEW m, Shape(m), Ordered(m), NEW size \in Nat \ {0}, NEW a \in Nat \ {0},
           Span(a, size) \cap FreeUnits(m) = {}, ~Overflows(m, size, a)
    PROVE  LET r == Rmfree(m, size, a)
           IN  /\ FreeUnits(r) = FreeUnits(m) \cup Span(a, size)
               /\ Ordered(r) /\ ~r.want
<1> USE MapSlotsAssumption
<1>a. PICK bp : bp = FreeSlot(m, a) OBVIOUS
<1>b. PICK r : r = Rmfree(m, size, a) OBVIOUS
<1>1. /\ bp \in Slot /\ bp \in 1 .. Used(m) + 1 /\ Used(m) \in Nat /\ Shape(r)
      /\ m.size \in Nat
      /\ JoinsHigh(m, size, a, bp) => bp <= Used(m)
  <2>1. Shape(r) BY <1>b, RmfreeShape
  <2>2. Used(m) \in Nat /\ m.size \in Nat BY DEF Shape, MapType, Used
  <2>3. /\ bp \in Slot /\ bp \in 1 .. Used(m) + 1
        /\ JoinsHigh(m, size, a, bp) => bp <= Used(m)
    BY <1>a, RmfreeScan
  <2> QED BY <2>1, <2>2, <2>3
<1>2. /\ \A k \in 1 .. Used(m) : k < bp => m.ent[k].m_addr + m.ent[k].m_size <= a
      /\ \A k \in 1 .. Used(m) : k >= bp => a + size <= m.ent[k].m_addr
  BY <1>a, RmfreeNeighbours
<1>3. \A k \in 1 .. Used(m) : k \in Slot /\ m.ent[k].m_addr \in Nat
                              /\ m.ent[k].m_size \in Nat \ {0}
  BY EntryFacts
<1>4. ASSUME ~JoinsLow(m, a, bp)
      PROVE  \A k \in 1 .. Used(m) : k < bp => m.ent[k].m_addr + m.ent[k].m_size < a
  <2>1. SUFFICES ASSUME NEW k \in 1 .. Used(m), k < bp
                 PROVE  m.ent[k].m_addr + m.ent[k].m_size < a
    OBVIOUS
  <2>2. bp > 1 /\ bp - 1 \in 1 .. Used(m) /\ bp - 1 < bp
    BY <2>1, <1>1
  <2>3. m.ent[bp - 1].m_addr + m.ent[bp - 1].m_size < a
    BY <2>2, <1>2, <1>3, <1>4 DEF JoinsLow
  <2> QED BY <2>1, <2>2, <2>3, <1>3, <1>1 DEF Ordered
<1>5. ASSUME ~JoinsHigh(m, size, a, bp)
      PROVE  \A k \in 1 .. Used(m) : k >= bp => a + size < m.ent[k].m_addr
  <2>1. SUFFICES ASSUME NEW k \in 1 .. Used(m), k >= bp
                 PROVE  a + size < m.ent[k].m_addr
    OBVIOUS
  <2>2. bp \in 1 .. Used(m)
    BY <2>1, <1>1
  <2>3. a + size < m.ent[bp].m_addr
    BY <2>2, <1>2, <1>3, <1>5 DEF JoinsHigh
  <2> QED BY <2>1, <2>2, <2>3, <1>3, <1>1 DEF Ordered
<1>6. CASE JoinsLow(m, a, bp) /\ JoinsHigh(m, size, a, bp)
  <2>1. /\ ~r.want /\ Used(r) = Used(m) - 1
        /\ \A k \in Slot : k < bp - 1 => r.ent[k] = m.ent[k]
        /\ r.ent[bp - 1].m_addr = m.ent[bp - 1].m_addr
        /\ r.ent[bp - 1].m_size = m.ent[bp - 1].m_size + size + m.ent[bp].m_size
        /\ \A k \in Slot : bp <= k /\ k < MapSlots + 1 => r.ent[k] = m.ent[k + 1]
    <3>1. /\ ~r.want /\ r.size = m.size + 1
          /\ \A k \in Slot : k < bp - 1 => r.ent[k] = m.ent[k]
          /\ r.ent[bp - 1] = [m_addr |-> m.ent[bp - 1].m_addr,
                              m_size |-> m.ent[bp - 1].m_size + size + m.ent[bp].m_size]
          /\ \A k \in Slot : bp <= k /\ k < MapSlots + 1 => r.ent[k] = m.ent[k + 1]
      BY <1>6, <1>a, <1>b, RmfreeBoth
    <3> QED BY <3>1, <1>1 DEF Used
  <2>2. /\ bp > 1 /\ bp - 1 \in 1 .. Used(m) /\ bp \in 1 .. Used(m)
        /\ m.ent[bp - 1].m_addr + m.ent[bp - 1].m_size = a
        /\ a + size = m.ent[bp].m_addr
    BY <1>6, <1>1 DEF JoinsLow, JoinsHigh
  <2>3. \A k \in 1 .. Used(r) : k >= bp => r.ent[k] = m.ent[k + 1] /\ k + 1 \in 1 .. Used(m)
    BY <2>1, <1>1 DEF Slot, Used
  <2>4. \A k \in 1 .. Used(r) : k < bp - 1 => r.ent[k] = m.ent[k] /\ k \in 1 .. Used(m)
    BY <2>1, <1>1 DEF Slot, Used
  <2>5. Ordered(r)
    <3>1. ASSUME NEW k \in 1 .. Used(r) PROVE r.ent[k].m_addr > 0
      BY <2>1, <2>2, <2>3, <2>4, <1>1 DEF Ordered
    <3>2. ASSUME NEW k \in 1 .. Used(r), NEW l \in 1 .. Used(r), k < l
          PROVE  r.ent[k].m_addr + r.ent[k].m_size < r.ent[l].m_addr
      <4>1. CASE l < bp - 1 BY <4>1, <3>2, <2>4, <1>1 DEF Ordered
      <4>2. CASE l = bp - 1 BY <4>2, <3>2, <2>1, <2>2, <2>4, <1>1 DEF Ordered
      <4>3. CASE l >= bp /\ k < bp - 1
        BY <4>3, <3>2, <2>3, <2>4, <1>1 DEF Ordered
      <4>4. CASE l >= bp /\ k = bp - 1
        <5>1. l + 1 \in 1 .. Used(m) /\ bp < l + 1 /\ r.ent[l] = m.ent[l + 1]
          BY <4>4, <2>3, <1>1
        <5>2. m.ent[bp].m_addr + m.ent[bp].m_size < m.ent[l + 1].m_addr
          BY <5>1, <2>2 DEF Ordered
        <5>3. r.ent[k].m_addr + r.ent[k].m_size = m.ent[bp].m_addr + m.ent[bp].m_size
          BY <4>4, <2>1, <2>2, <1>3
        <5> QED BY <5>1, <5>2, <5>3
      <4>5. CASE l >= bp /\ k >= bp
        <5>1. /\ r.ent[k] = m.ent[k + 1] /\ r.ent[l] = m.ent[l + 1] /\ k + 1 < l + 1
              /\ k + 1 \in 1 .. Used(m) /\ l + 1 \in 1 .. Used(m)
          BY <4>5, <3>2, <2>3
        <5> QED BY <5>1 DEF Ordered
      <4> QED BY <4>1, <4>2, <4>3, <4>4, <4>5, <1>1
    <3> QED BY <3>1, <3>2 DEF Ordered
  <2>6. Extent(r.ent[bp - 1]) = Extent(m.ent[bp - 1]) \cup Span(a, size) \cup Extent(m.ent[bp])
    BY <2>1, <2>2, <1>3 DEF Extent, Span
  <2>7. ASSUME NEW x PROVE x \in FreeUnits(r) <=> x \in FreeUnits(m) \cup Span(a, size)
    <3>1. ASSUME NEW k \in 1 .. Used(r), x \in Extent(r.ent[k])
          PROVE  x \in FreeUnits(m) \cup Span(a, size)
      <4>1. CASE k < bp - 1 BY <4>1, <3>1, <2>4, InFreeUnits
      <4>2. CASE k = bp - 1 BY <4>2, <3>1, <2>6, <2>2, InFreeUnits
      <4>3. CASE k >= bp BY <4>3, <3>1, <2>3, InFreeUnits
      <4> QED BY <4>1, <4>2, <4>3, <1>1
    <3>2. ASSUME x \in FreeUnits(m) \cup Span(a, size)
          PROVE  \E k \in 1 .. Used(r) : x \in Extent(r.ent[k])
      <4>1. bp - 1 \in 1 .. Used(r) BY <2>1, <2>2, <1>1
      <4>2. CASE x \in Span(a, size) BY <4>1, <4>2, <2>6
      <4>3. CASE x \in FreeUnits(m)
        <5>1. PICK j \in 1 .. Used(m) : x \in Extent(m.ent[j]) BY <4>3, InFreeUnits
        <5>2. CASE j \in {bp - 1, bp} BY <5>1, <5>2, <4>1, <2>6
        <5>3. CASE j < bp - 1
          <6>1. j \in 1 .. Used(r) BY <5>3, <4>1, <2>1, <1>1
          <6> QED BY <6>1, <5>1, <5>3, <2>4
        <5>4. CASE j > bp
          <6>1. j - 1 \in 1 .. Used(r) /\ j - 1 >= bp /\ j - 1 + 1 = j
            BY <5>4, <2>1, <1>1
          <6> QED BY <6>1, <5>1, <2>3
        <5> QED BY <5>2, <5>3, <5>4, <1>1
      <4> QED BY <3>2, <4>2, <4>3
    <3> QED BY <3>1, <3>2, <1>1, InFreeUnits
  <2> QED BY <2>1, <2>5, <2>7, <1>b
<1>7. CASE JoinsLow(m, a, bp) /\ ~JoinsHigh(m, size, a, bp)
  <2>0. /\ ~r.want /\ r.size = m.size
        /\ r.ent = [m.ent EXCEPT ![bp - 1] = [m_addr |-> m.ent[bp - 1].m_addr,
                                              m_size |-> m.ent[bp - 1].m_size + size]]
    BY <1>7, <1>a, <1>b, RmfreeLow
  <2>1. /\ Used(r) = Used(m) /\ bp - 1 \in 1 .. Used(m)
        /\ m.ent[bp - 1].m_addr + m.ent[bp - 1].m_size = a
    BY <1>7, <1>1, <2>0 DEF Used, JoinsLow
  <2>2. /\ \A k \in 1 .. Used(m) : k # bp - 1 => r.ent[k] = m.ent[k]
        /\ r.ent[bp - 1].m_addr = m.ent[bp - 1].m_addr
        /\ r.ent[bp - 1].m_size = m.ent[bp - 1].m_size + size
    BY <2>0, <2>1, <1>3 DEF Shape, MapType
  <2>3. Ordered(r)
    BY <1>7, <1>3, <1>5, <2>1, <2>2, <1>1 DEF Ordered
  <2>4. Extent(r.ent[bp - 1]) = Extent(m.ent[bp - 1]) \cup Span(a, size)
    BY <2>1, <2>2, <1>3 DEF Extent, Span
  <2>5. \A x : x \in FreeUnits(r) <=> x \in FreeUnits(m) \cup Span(a, size)
    BY <2>4, <2>1, <2>2, <1>1, InFreeUnits
  <2> QED BY <2>0, <2>3, <2>5, <1>b
<1>8. CASE ~JoinsLow(m, a, bp) /\ JoinsHigh(m, size, a, bp)
  <2>0. /\ ~r.want /\ r.size = m.size
        /\ r.ent = [m.ent EXCEPT ![bp] = [m_addr |-> a, m_size |-> m.ent[bp].m_size + size]]
    BY <1>8, <1>a, <1>b, RmfreeHigh
  <2>1. /\ Used(r) = Used(m) /\ bp \in 1 .. Used(m)
        /\ m.ent[bp].m_addr = a + size
    BY <1>8, <1>1, <2>0 DEF Used, JoinsHigh
  <2>2. /\ \A k \in 1 .. Used(m) : k # bp => r.ent[k] = m.ent[k]
        /\ r.ent[bp].m_addr = a /\ r.ent[bp].m_size = m.ent[bp].m_size + size
    BY <2>0, <2>1, <1>3 DEF Shape, MapType
  <2>3. Ordered(r)
    BY <1>8, <1>3, <1>4, <2>1, <2>2, <1>1 DEF Ordered
  <2>4. Extent(r.ent[bp]) = Extent(m.ent[bp]) \cup Span(a, size)
    BY <2>1, <2>2, <1>3 DEF Extent, Span
  <2>5. \A x : x \in FreeUnits(r) <=> x \in FreeUnits(m) \cup Span(a, size)
    BY <2>4, <2>1, <2>2, <1>1, InFreeUnits
  <2> QED BY <2>0, <2>3, <2>5, <1>b
<1>9. CASE ~JoinsLow(m, a, bp) /\ ~JoinsHigh(m, size, a, bp)
  <2>0. /\ ~r.want /\ r.size = m.size - 1 /\ m.size # 0
        /\ r.ent = Spread(m.ent, bp, [m_addr |-> a, m_size |-> size])
    BY <1>9, <1>a, <1>b, RmfreeInsert
  <2>1. Used(r) = Used(m) + 1 /\ Used(r) <= MapSlots
    BY <2>0, <1>1 DEF Used
  <2>2. /\ \A k \in 1 .. Used(r) : k < bp => r.ent[k] = m.ent[k] /\ k \in 1 .. Used(m)
        /\ \A k \in 1 .. Used(r) : k > bp => r.ent[k] = m.ent[k - 1] /\ k - 1 \in 1 .. Used(m)
        /\ r.ent[bp].m_addr = a /\ r.ent[bp].m_size = size
    <3>1. ASSUME NEW k \in 1 .. Used(r)
          PROVE  r.ent[k] = IF k < bp THEN m.ent[k]
                            ELSE IF k = bp THEN [m_addr |-> a, m_size |-> size]
                            ELSE m.ent[k - 1]
      <4>1. k \in Slot BY <2>1, <1>1 DEF Slot
      <4> QED BY <2>0, <4>1 DEF Spread
    <3>2. bp \in 1 .. Used(r) BY <2>1, <1>1
    <3> QED BY <3>1, <3>2, <2>1, <1>1
  <2>3. Ordered(r)
    <3>1. ASSUME NEW k \in 1 .. Used(r) PROVE r.ent[k].m_addr > 0
      BY <2>2, <1>1 DEF Ordered
    <3>2. ASSUME NEW k \in 1 .. Used(r), NEW l \in 1 .. Used(r), k < l
          PROVE  r.ent[k].m_addr + r.ent[k].m_size < r.ent[l].m_addr
      <4>1. CASE l < bp BY <4>1, <3>2, <2>2, <1>1 DEF Ordered
      <4>2. CASE l = bp
        <5>1. k < bp /\ k \in 1 .. Used(m) /\ r.ent[k] = m.ent[k]
          BY <4>2, <3>2, <2>2, <1>1
        <5> QED BY <5>1, <4>2, <2>2, <1>4, <1>9
      <4>3. CASE l > bp /\ k < bp
        <5>1. /\ k \in 1 .. Used(m) /\ l - 1 \in 1 .. Used(m) /\ k < l - 1
              /\ r.ent[k] = m.ent[k] /\ r.ent[l] = m.ent[l - 1]
          BY <4>3, <3>2, <2>2, <1>1
        <5> QED BY <5>1 DEF Ordered
      <4>4. CASE l > bp /\ k = bp
        <5>1. l - 1 \in 1 .. Used(m) /\ l - 1 >= bp /\ r.ent[l] = m.ent[l - 1]
          BY <4>4, <2>2, <1>1
        <5> QED BY <5>1, <4>4, <2>2, <1>5, <1>9
      <4>5. CASE k > bp
        <5>1. /\ k - 1 \in 1 .. Used(m) /\ l - 1 \in 1 .. Used(m) /\ k - 1 < l - 1
              /\ r.ent[k] = m.ent[k - 1] /\ r.ent[l] = m.ent[l - 1]
          BY <4>5, <3>2, <2>2, <1>1
        <5> QED BY <5>1 DEF Ordered
      <4> QED BY <4>1, <4>2, <4>3, <4>4, <4>5, <1>1
    <3> QED BY <3>1, <3>2 DEF Ordered
  <2>4. Extent(r.ent[bp]) = Span(a, size) /\ bp \in 1 .. Used(r)
    BY <2>1, <2>2, <1>1 DEF Extent, Span
  <2>5. ASSUME NEW x PROVE x \in FreeUnits(r) <=> x \in FreeUnits(m) \cup Span(a, size)
    <3>1. ASSUME NEW k \in 1 .. Used(r), x \in Extent(r.ent[k])
          PROVE  x \in FreeUnits(m) \cup Span(a, size)
      <4>1. CASE k = bp BY <4>1, <3>1, <2>4
      <4>2. CASE k # bp BY <4>2, <3>1, <2>2, <1>1, InFreeUnits
      <4> QED BY <4>1, <4>2
    <3>2. ASSUME x \in FreeUnits(m) PROVE \E k \in 1 .. Used(r) : x \in Extent(r.ent[k])
      <4>1. PICK j \in 1 .. Used(m) : x \in Extent(m.ent[j]) BY <3>2, InFreeUnits
      <4>2. CASE j < bp BY <4>1, <4>2, <2>1, <2>2, <1>1
      <4>3. CASE j >= bp
        <5>1. j + 1 \in 1 .. Used(r) /\ j + 1 > bp /\ j + 1 - 1 = j
          BY <4>3, <2>1, <1>1
        <5> QED BY <5>1, <4>1, <2>2
      <4> QED BY <4>2, <4>3, <1>1
    <3> QED BY <3>1, <3>2, <2>4, <1>1, InFreeUnits
  <2> QED BY <2>0, <2>3, <2>5, <1>b
<1> QED BY <1>6, <1>7, <1>8, <1>9

(* First fit is complete: the map has an entry of the size exactly when it *)
(* has that many consecutive units, because no two entries touch.          *)
LEMMA CanAllocRun ==
    ASSUME NEW m, Shape(m), Ordered(m), NEW size \in Nat \ {0}
    PROVE  CanAlloc(m, size) <=> \E a \in Nat : Span(a, size) \subseteq FreeUnits(m)
<1> USE MapSlotsAssumption
<1>1. ASSUME CanAlloc(m, size)
      PROVE  \E a \in Nat : Span(a, size) \subseteq FreeUnits(m)
  BY <1>1, RmallocUnits
<1>2. ASSUME NEW a \in Nat, Span(a, size) \subseteq FreeUnits(m)
      PROVE  CanAlloc(m, size)
  <2>1. a \in Span(a, size) BY DEF Span
  <2>2. PICK i \in 1 .. Used(m) : a \in Extent(m.ent[i])
    BY <2>1, <1>2, InFreeUnits
  <2> DEFINE end == m.ent[i].m_addr + m.ent[i].m_size
  <2>3. /\ i \in Slot /\ m.ent[i].m_addr \in Nat /\ m.ent[i].m_size \in Nat \ {0}
        /\ m.ent[i].m_addr <= a /\ a < end /\ end \in Nat /\ Used(m) \in Nat
    BY <2>2, EntryFacts DEF Extent, Shape, MapType, Used
  <2>4. end \notin FreeUnits(m)
    <3>1. SUFFICES ASSUME NEW j \in 1 .. Used(m), end \in Extent(m.ent[j]) PROVE FALSE
      BY InFreeUnits
    <3>2. m.ent[j].m_addr \in Nat /\ m.ent[j].m_size \in Nat
      BY EntryFacts
    <3>3. m.ent[j].m_addr <= end /\ end < m.ent[j].m_addr + m.ent[j].m_size
      BY <3>1, <3>2, <2>3 DEF Extent
    <3>4. j # i BY <3>3, <3>2
    <3> QED BY <3>2, <3>3, <3>4, <2>3 DEF Ordered
  <2>5. a + size <= end
    BY <2>3, <2>4, <1>2 DEF Span
  <2>6. Live(m, i) /\ m.ent[i].m_size >= size
    BY <2>3, <2>5, LiveIff
  <2> QED BY <2>6, <2>3 DEF CanAlloc, Fit
<1> QED BY <1>1, <1>2

(* A map with fewer units grants no more. *)
COROLLARY CanAllocMonotone ==
    ASSUME NEW m, Shape(m), Ordered(m), NEW r, Shape(r), Ordered(r),
           FreeUnits(r) \subseteq FreeUnits(m), NEW size \in Nat, CanAlloc(r, size)
    PROVE  CanAlloc(m, size)
<1>1. size \in Nat \ {0} BY DEF CanAlloc
<1>2. PICK a \in Nat : Span(a, size) \subseteq FreeUnits(r) BY <1>1, CanAllocRun
<1> QED BY <1>1, <1>2, CanAllocRun

(* The ASSERTs of rmfree hold for an extent that is not free. *)
LEMMA RmfreeAssertsHold ==
    ASSUME NEW m, Shape(m), Ordered(m), NEW size \in Nat \ {0}, NEW a \in Nat \ {0},
           Span(a, size) \cap FreeUnits(m) = {}
    PROVE  RmfreeAsserts(m, size, a)
<1> USE MapSlotsAssumption
<1>a. PICK bp : bp = FreeSlot(m, a) OBVIOUS
<1>1. /\ bp \in Slot /\ bp \in 1 .. Used(m) + 1 /\ Used(m) \in Nat
      /\ m.ent[bp] \in Entry /\ m.ent[bp].m_addr \in Nat
  BY <1>a, RmfreeScan, SMTT(30) DEF Shape, MapType, Used, Entry
<1>2. /\ \A k \in 1 .. Used(m) : k < bp => m.ent[k].m_addr + m.ent[k].m_size <= a
      /\ \A k \in 1 .. Used(m) : k >= bp => a + size <= m.ent[k].m_addr
  BY <1>a, RmfreeNeighbours
<1>3. CASE bp <= Used(m)
  <2>1. bp \in 1 .. Used(m) BY <1>1, <1>3
  <2>2. a + size <= m.ent[bp].m_addr /\ m.ent[bp].m_size # 0
    BY <2>1, <1>2, <1>1, EntryFacts
  <2>3. ASSUME bp > 1
        PROVE  /\ m.ent[bp - 1].m_addr + m.ent[bp - 1].m_size <= a
               /\ m.ent[bp - 1].m_addr \in Nat /\ m.ent[bp - 1].m_size \in Nat
    BY <2>1, <2>3, <1>2, <1>1, EntryFacts
  <2> QED BY <2>1, <2>2, <2>3, <1>1, <1>a DEF RmfreeAsserts, JoinsLow, JoinsHigh
<1>4. CASE bp = Used(m) + 1
  <2>1. m.ent[bp] = EndEntry BY <1>1, <1>4 DEF Shape
  <2>2. m.ent[bp].m_addr = 0 /\ m.ent[bp].m_size = 0 BY <2>1 DEF EndEntry
  <2>3. ASSUME bp > 1
        PROVE  /\ m.ent[bp - 1].m_addr + m.ent[bp - 1].m_size <= a
               /\ m.ent[bp - 1].m_addr \in Nat /\ m.ent[bp - 1].m_size \in Nat
    BY <1>4, <2>3, <1>2, <1>1, EntryFacts
  <2> QED BY <2>2, <2>3, <1>1, <1>a DEF RmfreeAsserts, JoinsLow, JoinsHigh
<1> QED BY <1>1, <1>3, <1>4

(* mapwant does not matter to the scans. *)
LEMMA WantUnits ==
    ASSUME NEW m, Shape(m)
    PROVE  /\ Shape(Want(m)) /\ FreeUnits(Want(m)) = FreeUnits(m)
           /\ Ordered(m) => Ordered(Want(m))
           /\ \A size : CanAlloc(Want(m), size) <=> CanAlloc(m, size)
           /\ Want(m).want
<1>1. Want(m).ent = m.ent /\ Want(m).size = m.size /\ Want(m).want
  BY DEF Want
<1>2. Want(m) \in MapType
  BY DEF Want, Shape, MapType
<1> QED BY <1>1, <1>2 DEF Shape, Used, Ordered, FreeUnits, CanAlloc, Fit, Live

(* rmalloc leaves nothing that was not there, in a map of any order. *)
LEMMA RmallocMonotone ==
    ASSUME NEW m, Shape(m), NEW size \in Nat, NEW n \in Nat,
           CanAlloc(Rmalloc(m, size), n)
    PROVE  CanAlloc(m, n)
<1> USE MapSlotsAssumption
<1>1. CASE ~CanAlloc(m, size) BY <1>1 DEF Rmalloc
<1>2. CASE CanAlloc(m, size)
  <2>a. PICK i : i = AllocSlot(m, size) OBVIOUS
  <2>b. PICK r : r = Rmalloc(m, size) OBVIOUS
  <2>1. i \in 1 .. Used(m) /\ Fit(m, size, i)
    BY <1>2, <2>a, AllocSlotExists DEF FirstFit
  <2>2. Shape(r) /\ Used(m) \in Nat
    BY <1>2, <2>b, RmallocUnits DEF Shape, MapType, Used
  <2>3. PICK k \in Slot : Live(r, k) /\ r.ent[k].m_size >= n
    BY <2>b DEF CanAlloc, Fit
  <2>4. k \in 1 .. Used(r)
    <3>1. k <= Used(r) BY <2>2, <2>3, LiveIff
    <3> QED BY <3>1, <2>2 DEF Slot, Shape, MapType, Used
  <2>5. \A j \in 1 .. Used(m) : m.ent[j].m_size \in Nat /\ j \in Slot /\ Live(m, j)
    BY EntryFacts, LiveIff
  <2>6. \E j \in 1 .. Used(m) : m.ent[j].m_size >= n
    <3>1. CASE m.ent[i].m_size = size
      <4>1. r = Drop(m, i) BY <1>2, <2>a, <2>b, <3>1 DEF Rmalloc
      <4>2. r.ent = Squeeze(m.ent, i) /\ Used(r) = Used(m) - 1 /\ m.size \in Nat
        BY <4>1 DEF Drop, Used, Shape, MapType
      <4>3. k # MapSlots + 1 BY <4>2, <2>4 DEF Used
      <4>4. r.ent[k] = IF k < i THEN m.ent[k] ELSE m.ent[k + 1]
        BY <4>2, <4>3 DEF Squeeze
      <4>5. k \in 1 .. Used(m) /\ k + 1 \in 1 .. Used(m) BY <4>2, <2>4, <2>2
      <4> QED BY <4>4, <4>5, <2>3
    <3>2. CASE m.ent[i].m_size # size
      <4> DEFINE f == [m_addr |-> m.ent[i].m_addr + size, m_size |-> m.ent[i].m_size - size]
      <4>1. r = Replace(m, i, f) BY <1>2, <2>a, <2>b, <3>2 DEF Rmalloc
      <4>2. r.ent = [m.ent EXCEPT ![i] = f] /\ Used(r) = Used(m)
        BY <4>1 DEF Replace, Used
      <4>3. r.ent[k].m_size <= m.ent[k].m_size
        BY <4>2, <2>1, <2>4, <2>5 DEF Shape, MapType
      <4>4. r.ent[k].m_size \in Nat BY <2>2, <2>4, EntryFacts
      <4> QED BY <4>2, <4>3, <4>4, <2>3, <2>4, <2>5
    <3> QED BY <3>1, <3>2
  <2> QED BY <2>5, <2>6 DEF CanAlloc, Fit
<1> QED BY <1>1, <1>2
=============================================================================
