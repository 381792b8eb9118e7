-------------------------- MODULE MapClients_proofs --------------------------
(***************************************************************************)
(* The clients of a map never hold a unit twice, for every number of       *)
(* clients, units and map slots.                                           *)
(***************************************************************************)
EXTENDS MapClients, ResourceMap_proofs

(* A client holds nothing, or a nonempty extent of units. *)
HeldType == \A c \in Client : held[c] # EndEntry => held[c].m_addr > 0 /\ held[c].m_size > 0

(* A client that waits holds nothing, and is asleep or woken. *)
WaitsEmpty == \A c \in Client : /\ asleep[c] # 0 \/ retry[c] # 0 => held[c] = EndEntry
                                /\ asleep[c] = 0 \/ retry[c] = 0

IInv == TypeOK /\ MapWellFormed /\ Conservation /\ HeldType /\ WaitsEmpty /\ NoLostWakeup

USE MapSlotsAssumption, ClientsAssumption

(* The entry that ends a map covers nothing. *)
LEMMA EmptyExtent == Extent(EndEntry) = {}
BY DEF Extent, EndEntry

(* The units an entry covers, as the run that starts at m_addr. *)
LEMMA ExtentSpan ==
    ASSUME NEW e \in Entry PROVE Extent(e) = Span(e.m_addr, e.m_size)
BY DEF Extent, Span

(* The map before its first rmfree. *)
LEMMA InitMap ==
    /\ Shape(MapInit) /\ Ordered(MapInit) /\ FreeUnits(MapInit) = {}
    /\ ~Overflows(MapInit, Units, 1)
<1>1. MapInit \in MapType
  BY DEF MapInit, MapType, EndEntry, Entry
<1>2. MapInit.size = MapSlots /\ MapInit.ent = [i \in Slot |-> EndEntry]
  BY DEF MapInit
<1>3. Shape(MapInit) /\ Used(MapInit) = 0
  BY <1>1, <1>2 DEF Shape, Used, Slot
<1>4. Ordered(MapInit)
  BY <1>3 DEF Ordered
<1>5. FreeUnits(MapInit) = {}
  BY <1>3, InFreeUnits
<1> QED BY <1>2, <1>3, <1>4, <1>5 DEF Overflows

(* The map as sptinit leaves it satisfies the inductive invariant. *)
LEMMA InitIInv == Init => IInv
<1> SUFFICES ASSUME Init PROVE IInv OBVIOUS
<1>1. map = Rmfree(MapInit, Units, 1) /\ held = [c \in Client |-> EndEntry]
      /\ asleep = [c \in Client |-> 0] /\ retry = [c \in Client |-> 0] /\ lost = {}
  BY DEF Init
<1>2. Shape(map) /\ Ordered(map) /\ FreeUnits(map) = Span(1, Units)
  <2>1. Span(1, Units) \cap FreeUnits(MapInit) = {} BY InitMap
  <2>2. Units \in Nat \ {0} /\ Units \in Nat /\ 1 \in Nat \ {0} /\ 1 \in Nat OBVIOUS
  <2>3. Shape(Rmfree(MapInit, Units, 1)) BY <2>2, InitMap, RmfreeShape
  <2>4. /\ FreeUnits(Rmfree(MapInit, Units, 1)) = FreeUnits(MapInit) \cup Span(1, Units)
        /\ Ordered(Rmfree(MapInit, Units, 1))
    BY <2>1, <2>2, InitMap, RmfreeUnits
  <2> QED BY <2>3, <2>4, <1>1, InitMap
<1>3. TypeOK
  BY <1>1, <1>2 DEF TypeOK, Shape, Entry, EndEntry, AllUnits
<1>4. Span(1, Units) = AllUnits
  BY DEF Span, AllUnits
<1>5. Conservation
  BY <1>1, <1>2, <1>4, EmptyExtent DEF Conservation
<1> QED BY <1>1, <1>2, <1>3, <1>5 DEF IInv, MapWellFormed, HeldType, WaitsEmpty, NoLostWakeup

(***************************************************************************)
(* Units move between the map, one client and lost: nothing else changes.  *)
(***************************************************************************)
LEMMA Moves ==
    ASSUME Conservation, NEW c \in Client, NEW h \in Entry,
           held \in [Client -> Entry], held' = [held EXCEPT ![c] = h],
           FreeUnits(map)' \cup Extent(h) \cup lost' = FreeUnits(map) \cup Extent(held[c]) \cup lost,
           FreeUnits(map)' \cap Extent(h) = {}, FreeUnits(map)' \cap lost' = {},
           Extent(h) \cap lost' = {}
    PROVE  Conservation'
<1> DEFINE old == FreeUnits(map) \cup Extent(held[c]) \cup lost
<1>1. \A d \in Client : d # c => held'[d] = held[d] /\ Extent(held[d]) \cap old = {}
  BY DEF Conservation
<1>2. held'[c] = h
  OBVIOUS
<1>3. (FreeUnits(map) \cup lost \cup UNION {Extent(held[d]) : d \in Client} = AllUnits)'
  <2>1. UNION {Extent(held[d]) : d \in Client}
          = Extent(held[c]) \cup UNION {Extent(held[d]) : d \in Client \ {c}}
    OBVIOUS
  <2>2. UNION {Extent(held'[d]) : d \in Client}
          = Extent(h) \cup UNION {Extent(held[d]) : d \in Client \ {c}}
    BY <1>1, <1>2
  <2>3. FreeUnits(map)' \cup lost' \cup UNION {Extent(held'[d]) : d \in Client}
          = FreeUnits(map) \cup lost \cup UNION {Extent(held[d]) : d \in Client}
    BY <2>1, <2>2
  <2> QED BY <2>3 DEF Conservation, AllUnits, Extent
<1>4. (FreeUnits(map) \cap lost = {})'
  OBVIOUS
<1>5. ASSUME NEW d \in Client
      PROVE  (Extent(held[d]) \cap (FreeUnits(map) \cup lost) = {})'
  <2>1. CASE d = c BY <2>1, <1>2 DEF Extent
  <2>2. CASE d # c BY <2>2, <1>1 DEF Extent
  <2> QED BY <2>1, <2>2
<1>6. ASSUME NEW d \in Client, NEW e \in Client, d # e
      PROVE  (Extent(held[d]) \cap Extent(held[e]) = {})'
  <2>1. CASE d = c BY <2>1, <1>1, <1>2, <1>6 DEF Extent
  <2>2. CASE e = c BY <2>2, <1>1, <1>2, <1>6 DEF Extent
  <2>3. CASE d # c /\ e # c BY <2>3, <1>1, <1>6 DEF Conservation, Extent
  <2> QED BY <2>1, <2>2, <2>3
<1> QED BY <1>3, <1>4, <1>5, <1>6 DEF Conservation

(* What one step does to the map and to the sleepers' hopes. *)
LEMMA SleepersStay ==
    ASSUME IInv, MapWellFormed', FreeUnits(map)' \subseteq FreeUnits(map),
           map'.want = map.want, UNCHANGED asleep
    PROVE  NoLostWakeup'
<1>1. ASSUME NEW c \in Client, asleep[c] # 0
      PROVE  map'.want /\ ~CanAlloc(map', asleep[c])
  <2>1. asleep[c] \in Nat /\ map.want /\ ~CanAlloc(map, asleep[c])
    BY <1>1 DEF IInv, TypeOK, NoLostWakeup
  <2>2. /\ Shape(map) /\ Ordered(map) /\ Shape(map') /\ Ordered(map')
        /\ FreeUnits(map') \subseteq FreeUnits(map)
    BY DEF IInv, MapWellFormed, Shape, Ordered, Used, FreeUnits, Extent, Live, MapType, Entry, EndEntry, Slot
  <2> QED BY <2>1, <2>2, CanAllocMonotone
<1> QED BY <1>1 DEF NoLostWakeup, CanAlloc, Fit, Live

(* A grant of rmalloc: what bp_mapin, sptalloc and kseg share. *)
LEMMA GrantStep ==
    ASSUME IInv, NEW c \in Client, NEW size \in 1 .. MaxSize,
           held[c] = EndEntry, asleep[c] = 0, CanAlloc(map, size), Grant(c, size)
    PROVE  IInv'
<1>a. PICK a : a = RmallocAddr(map, size) OBVIOUS
<1> DEFINE h == [m_addr |-> a, m_size |-> size]
<1>1. /\ held' = [held EXCEPT ![c] = h] /\ map' = Rmalloc(map, size)
      /\ retry' = [retry EXCEPT ![c] = 0] /\ asleep' = asleep /\ lost' = lost
  BY <1>a DEF Grant
<1>2. Shape(map) /\ Ordered(map) /\ size \in Nat /\ TypeOK /\ size # 0
  BY DEF IInv, MapWellFormed
<1>3. /\ Shape(map') /\ Ordered(map') /\ map'.want = map.want
      /\ a \in Nat /\ a # 0 /\ Span(a, size) \subseteq FreeUnits(map)
      /\ FreeUnits(map') = FreeUnits(map) \ Span(a, size)
  BY <1>1, <1>2, <1>a, RmallocUnits
<1>4. h \in Entry /\ h.m_size = size /\ h.m_addr = a
  BY <1>3, <1>2 DEF Entry
<1>5. Extent(h) = Span(a, size) BY <1>4, ExtentSpan
<1> HIDE DEF h
<1>6. TypeOK'
  BY <1>1, <1>2, <1>3, <1>4 DEF TypeOK, Shape, MapType
<1>7. MapWellFormed'
  BY <1>3 DEF MapWellFormed, Shape, Ordered, Used
<1>8. Conservation'
  <2>1. Extent(held[c]) = {} BY EmptyExtent
  <2>2. FreeUnits(map)' = FreeUnits(map') BY DEF FreeUnits, Live, Extent
  <2>3. FreeUnits(map) \cap lost = {} /\ Conservation BY DEF IInv, Conservation
  <2>4. held \in [Client -> Entry] BY <1>2 DEF TypeOK
  <2>5. FreeUnits(map)' \cup Extent(h) \cup lost'
          = FreeUnits(map) \cup Extent(held[c]) \cup lost
    BY <2>1, <2>2, <1>1, <1>3, <1>5
  <2>6. FreeUnits(map)' \cap Extent(h) = {} /\ FreeUnits(map)' \cap lost' = {}
        /\ Extent(h) \cap lost' = {}
    BY <2>2, <2>3, <1>1, <1>3, <1>5
  <2> QED BY <2>3, <2>4, <2>5, <2>6, <1>1, <1>4, Moves
<1>9. HeldType' /\ WaitsEmpty'
  BY <1>1, <1>2, <1>3, <1>4 DEF IInv, HeldType, WaitsEmpty, TypeOK
<1>10. NoLostWakeup'
  BY <1>1, <1>3, <1>7, SleepersStay DEF FreeUnits, Live, Extent
<1> QED BY <1>6, <1>7, <1>8, <1>9, <1>10 DEF IInv

(* bp_mapin that finds no space sets mapwant and sleeps. *)
LEMMA SleepStep ==
    ASSUME IInv, NEW c \in Client, NEW size \in 1 .. MaxSize,
           held[c] = EndEntry, ~CanAlloc(map, size), map' = Want(map),
           asleep' = [asleep EXCEPT ![c] = size], retry' = [retry EXCEPT ![c] = 0],
           UNCHANGED <<held, lost>>
    PROVE  IInv'
<1>1. Shape(map) /\ Ordered(map) /\ TypeOK
  BY DEF IInv, MapWellFormed
<1>2. /\ Shape(map') /\ Ordered(map') /\ map'.want
      /\ FreeUnits(map') = FreeUnits(map)
      /\ \A n : CanAlloc(map', n) <=> CanAlloc(map, n)
  BY <1>1, WantUnits
<1>3. TypeOK'
  BY <1>1, <1>2 DEF TypeOK, Shape
<1>4. MapWellFormed'
  BY <1>2 DEF MapWellFormed
<1>5. Conservation'
  BY <1>2 DEF IInv, Conservation, AllUnits
<1>6. HeldType' /\ WaitsEmpty'
  BY <1>1 DEF IInv, HeldType, WaitsEmpty, TypeOK
<1>7. NoLostWakeup'
  BY <1>1, <1>2 DEF IInv, NoLostWakeup, TypeOK
<1> QED BY <1>3, <1>4, <1>5, <1>6, <1>7 DEF IInv

(* The wakeup at the end of an rmfree that was not cut short: if mapwant   *)
(* was set nobody sleeps any more, otherwise nobody did.                   *)
LEMMA Awake ==
    ASSUME IInv,
           \/ map.want /\ WakeSleepers
           \/ ~map.want /\ UNCHANGED <<asleep, retry>>
    PROVE  /\ asleep' \in [Client -> 0 .. MaxSize] /\ retry' \in [Client -> 0 .. MaxSize]
           /\ \A c \in Client : asleep'[c] = 0
           /\ \A c \in Client : retry'[c] # 0 => asleep[c] # 0 \/ retry[c] # 0
BY DEF IInv, TypeOK, NoLostWakeup, WakeSleepers

(* rmfree by a client, with the wakeup of everyone who sleeps. *)
LEMMA FreeStep ==
    ASSUME IInv, NEW c \in Client, Free(c)
    PROVE  IInv'
<1>a. PICK a, size : a = held[c].m_addr /\ size = held[c].m_size OBVIOUS
<1>1. /\ held[c] # EndEntry /\ held' = [held EXCEPT ![c] = EndEntry]
      /\ map' = Rmfree(map, size, a)
      /\ lost' = IF Overflows(map, size, a) THEN lost \cup Extent(held[c]) ELSE lost
      /\ IF WakesMap(map, size, a) THEN WakeSleepers ELSE UNCHANGED <<asleep, retry>>
  BY <1>a DEF Free
<1>2. Shape(map) /\ Ordered(map) /\ TypeOK /\ Conservation
  BY DEF IInv, MapWellFormed
<1>3. /\ held[c] \in Entry /\ a \in Nat /\ size \in Nat /\ a # 0 /\ size # 0
      /\ held \in [Client -> Entry] /\ EndEntry \in Entry
  BY <1>1, <1>2, <1>a DEF IInv, TypeOK, HeldType, Entry, EndEntry
<1>4. /\ Extent(held[c]) = Span(a, size) /\ Span(a, size) \cap FreeUnits(map) = {}
      /\ Span(a, size) \cap lost = {} /\ FreeUnits(map) \cap lost = {}
      /\ Span(a, size) \subseteq AllUnits
  BY <1>2, <1>3, <1>a, ExtentSpan DEF Conservation
<1>5. HeldType'
  BY <1>1, <1>2, <1>3 DEF IInv, HeldType
<1>6. CASE Overflows(map, size, a)
  <2>1. map' = map /\ lost' = lost \cup Span(a, size) /\ UNCHANGED <<asleep, retry>>
    BY <1>1, <1>4, <1>6 DEF Rmfree, WakesMap
  <2>2. Conservation'
    <3>1. FreeUnits(map)' = FreeUnits(map) /\ Extent(EndEntry) = {} BY <2>1, EmptyExtent
    <3>2. FreeUnits(map)' \cup Extent(EndEntry) \cup lost'
            = FreeUnits(map) \cup Extent(held[c]) \cup lost
      BY <3>1, <2>1, <1>4
    <3>3. FreeUnits(map)' \cap Extent(EndEntry) = {} /\ FreeUnits(map)' \cap lost' = {}
          /\ Extent(EndEntry) \cap lost' = {}
      BY <3>1, <2>1, <1>4
    <3> QED BY <3>2, <3>3, <1>1, <1>2, <1>3, Moves
  <2>3. TypeOK'
    BY <2>1, <1>1, <1>2, <1>3, <1>4 DEF TypeOK, AllUnits
  <2>4. MapWellFormed' /\ WaitsEmpty' /\ NoLostWakeup'
    BY <2>1, <1>1, <1>2, <1>3 DEF IInv, MapWellFormed, WaitsEmpty, NoLostWakeup
  <2> QED BY <2>2, <2>3, <2>4, <1>5 DEF IInv
<1>7. CASE ~Overflows(map, size, a)
  <2>1. /\ lost' = lost /\ Shape(map') /\ Ordered(map')
        /\ FreeUnits(map') = FreeUnits(map) \cup Span(a, size)
    BY <1>1, <1>2, <1>3, <1>4, <1>7, RmfreeShape, RmfreeUnits
  <2>2. Conservation'
    <3>1. FreeUnits(map)' = FreeUnits(map') /\ Extent(EndEntry) = {}
      BY EmptyExtent DEF FreeUnits, Live, Extent
    <3>2. FreeUnits(map)' \cup Extent(EndEntry) \cup lost'
            = FreeUnits(map) \cup Extent(held[c]) \cup lost
      BY <3>1, <2>1, <1>4
    <3>3. FreeUnits(map)' \cap Extent(EndEntry) = {} /\ FreeUnits(map)' \cap lost' = {}
          /\ Extent(EndEntry) \cap lost' = {}
      BY <3>1, <2>1, <1>4
    <3> QED BY <3>2, <3>3, <1>1, <1>2, <1>3, Moves
  <2>3. \/ map.want /\ WakeSleepers
        \/ ~map.want /\ UNCHANGED <<asleep, retry>>
    BY <1>1, <1>3, <1>7 DEF WakesMap
  <2>4. TypeOK'
    BY <2>1, <2>3, <1>1, <1>2, <1>3, Awake DEF TypeOK, Shape
  <2>5. MapWellFormed'
    BY <2>1 DEF MapWellFormed
  <2>6. WaitsEmpty' /\ NoLostWakeup'
    BY <2>3, <1>1, <1>2, <1>3, Awake DEF IInv, WaitsEmpty, NoLostWakeup
  <2> QED BY <2>2, <2>4, <2>5, <2>6, <1>5 DEF IInv
<1> QED BY <1>6, <1>7

(* Rounding up to the alignment does not go down. *)
LEMMA AlignUpType ==
    ASSUME NEW a \in Nat PROVE AlignUp(a) \in Nat /\ AlignUp(a) >= a
<1> DEFINE x == a + Align - 1
           d == x \div Align
<1>1. x \in Nat /\ Align \in Nat \ {0} OBVIOUS
<1>2. d \in Nat /\ x % Align \in 0 .. Align - 1 /\ x = Align * d + (x % Align)
  BY <1>1
<1> HIDE DEF d
<1>3. Align * d = d * Align /\ d * Align \in Nat BY <1>2
<1>4. d * Align >= a BY <1>1, <1>2, <1>3
<1> QED BY <1>3, <1>4 DEF AlignUp, d

(* The aligned allocation, which takes more and gives the ends back. *)
LEMMA PtmallocStep ==
    ASSUME IInv, NEW c \in Client, NEW size \in 1 .. MaxSize, Ptmalloc(c, size)
    PROVE  IInv'
<1>1. PICK i \in Slot : /\ PtSlot(i, size)
                        /\ LET e    == map.ent[i]
                               gap  == Gap(e)
                               tail == e.m_size - size - gap
                               cut  == Replace(map, i, [m_addr |-> e.m_addr, m_size |-> gap])
                               end  == e.m_addr + gap + size
                           IN  /\ held' = [held EXCEPT ![c] =
                                              [m_addr |-> AlignUp(e.m_addr), m_size |-> size]]
                               /\ \/ /\ gap = 0 /\ tail # 0
                                     /\ map' = Replace(map, i, [m_addr |-> end, m_size |-> tail])
                                     /\ UNCHANGED <<asleep, retry, lost>>
                                  \/ /\ gap = 0 /\ tail = 0
                                     /\ map' = Drop(map, i)
                                     /\ UNCHANGED <<asleep, retry, lost>>
                                  \/ /\ gap # 0
                                     /\ map' = Rmfree(cut, tail, end)
                                     /\ lost' = IF Overflows(cut, tail, end)
                                                THEN lost \cup (end .. end + tail - 1) ELSE lost
                                     /\ IF WakesMap(cut, tail, end)
                                        THEN WakeSleepers ELSE UNCHANGED <<asleep, retry>>
  BY DEF Ptmalloc
<1>a. PICK e, gap, tail, end :
        /\ e = map.ent[i] /\ gap = Gap(e) /\ tail = e.m_size - size - gap
        /\ end = e.m_addr + gap + size
  OBVIOUS
<1>b. PICK cut : cut = Replace(map, i, [m_addr |-> e.m_addr, m_size |-> gap]) OBVIOUS
<1>2. Shape(map) /\ Ordered(map) /\ TypeOK /\ Conservation /\ Idle(c) /\ size \in Nat \ {0}
  BY DEF IInv, MapWellFormed, Ptmalloc
<1>3. i \in 1 .. Used(map)
  <2>1. Live(map, i) BY <1>1 DEF PtSlot, PtFit
  <2>2. i <= Used(map) BY <2>1, <1>2, LiveIff
  <2> QED BY <2>2, <1>2 DEF Slot, Shape, MapType, Used
<1>4. e \in Entry /\ e.m_addr \in Nat \ {0} /\ e.m_size \in Nat \ {0}
  BY <1>2, <1>3, <1>a, EntryFacts DEF Ordered
<1>5. /\ gap \in Nat /\ AlignUp(e.m_addr) = e.m_addr + gap
      /\ tail \in Nat /\ end \in Nat \ {0}
  BY <1>1, <1>4, <1>a, <1>2, AlignUpType DEF Gap, PtSlot, PtFit
<1> DEFINE h == [m_addr |-> e.m_addr + gap, m_size |-> size]
<1>6. /\ held' = [held EXCEPT ![c] = h]
      /\ h \in Entry /\ h.m_addr = e.m_addr + gap /\ h.m_size = size
      /\ held \in [Client -> Entry]
  BY <1>1, <1>a, <1>5, <1>4, <1>2 DEF Entry, TypeOK
<1>7. /\ Extent(h) = Span(e.m_addr + gap, size)
      /\ Extent(h) \subseteq Extent(e)
  <2>1. Extent(h) = Span(e.m_addr + gap, size) BY <1>6, ExtentSpan
  <2> QED BY <2>1, <1>4, <1>5, <1>a, <1>2 DEF Span, Extent
<1> HIDE DEF h
<1>d. /\ Extent(e) = Span(e.m_addr, gap) \cup Extent(h) \cup Span(end, tail)
      /\ Span(e.m_addr, gap) \cap (Extent(h) \cup Span(end, tail)) = {}
      /\ Extent(h) \cap Span(end, tail) = {}
  <2>a. PICK k, s : k = size + tail /\ s = e.m_addr + gap OBVIOUS
  <2>1. size \in Nat /\ e.m_size = gap + k /\ k \in Nat /\ s \in Nat /\ end = s + size
    BY <2>a, <1>2, <1>4, <1>5, <1>a
  <2>2. Extent(e) = Span(e.m_addr, e.m_size) BY <1>4, ExtentSpan
  <2>b. PICK x : x = e.m_addr OBVIOUS
  <2>c. x \in Nat /\ s = x + gap /\ gap \in Nat /\ tail \in Nat
    BY <2>a, <2>b, <1>4, <1>5
  <2>3. Span(x, gap + k) = Span(x, gap) \cup Span(s, k) /\ Span(x, gap) \cap Span(s, k) = {}
    BY <2>1, <2>c DEF Span
  <2>4. Span(s, k) = Span(s, size) \cup Span(end, tail) /\ Span(s, size) \cap Span(end, tail) = {}
    BY <2>1, <2>a, <2>c DEF Span
  <2>5. Extent(e) = Span(x, gap + k) /\ Extent(h) = Span(s, size)
    BY <2>1, <2>2, <2>a, <2>b, <1>7
  <2> QED BY <2>3, <2>4, <2>5, <2>b
<1>e. Span(e.m_addr, 0) = {} /\ Span(end, 0) = {} BY <1>4, <1>5 DEF Span
<1>8. /\ Extent(e) \subseteq FreeUnits(map) /\ FreeUnits(map) \cap lost = {}
      /\ FreeUnits(map) \subseteq AllUnits
      /\ FreeUnits(map)' = FreeUnits(map') /\ Extent(held[c]) = {}
  <2>1. Extent(e) \subseteq FreeUnits(map) BY <1>2, <1>3, <1>a, InFreeUnits
  <2>2. Extent(held[c]) = {} BY <1>2, EmptyExtent DEF Idle
  <2>3. FreeUnits(map)' = FreeUnits(map') BY DEF FreeUnits, Live, Extent
  <2> QED BY <2>1, <2>2, <2>3, <1>2 DEF Conservation
<1>9. HeldType'
  BY <1>6, <1>5, <1>4, <1>2 DEF IInv, HeldType
<1>10. ASSUME Shape(map'), Ordered(map'), map'.want = map.want,
              FreeUnits(map') = FreeUnits(map) \ Extent(h), UNCHANGED <<asleep, retry, lost>>
       PROVE  IInv'
  <2>1. Conservation'
    <3>1. FreeUnits(map)' \cup Extent(h) \cup lost'
            = FreeUnits(map) \cup Extent(held[c]) \cup lost
      BY <1>7, <1>8, <1>10
    <3>2. FreeUnits(map)' \cap Extent(h) = {} /\ FreeUnits(map)' \cap lost' = {}
          /\ Extent(h) \cap lost' = {}
      BY <1>7, <1>8, <1>10
    <3> QED BY <3>1, <3>2, <1>2, <1>6, Moves
  <2>2. TypeOK'
    BY <1>2, <1>6, <1>10 DEF TypeOK, Shape
  <2>3. MapWellFormed'
    BY <1>10 DEF MapWellFormed
  <2>4. WaitsEmpty'
    BY <1>2, <1>6, <1>10 DEF IInv, WaitsEmpty, Idle
  <2>5. NoLostWakeup'
    BY <2>3, <1>8, <1>10, SleepersStay
  <2> QED BY <2>1, <2>2, <2>3, <2>4, <2>5, <1>9 DEF IInv
<1>11. CASE gap = 0 /\ tail # 0
  <2> DEFINE f == [m_addr |-> end, m_size |-> tail]
  <2>1. map' = Replace(map, i, f) /\ UNCHANGED <<asleep, retry, lost>>
    BY <1>1, <1>a, <1>11
  <2>2. /\ f \in Entry /\ f.m_size # 0 /\ e.m_addr <= f.m_addr
        /\ f.m_addr + f.m_size <= e.m_addr + e.m_size
    BY <1>4, <1>5, <1>a, <1>2, <1>11 DEF Entry
  <2>3. Extent(e) \ Extent(f) = Extent(h)
    <3>1. Extent(f) = Span(end, tail) BY <2>2, ExtentSpan
    <3> QED BY <3>1, <1>11, <1>d, <1>e
  <2> HIDE DEF f
  <2>4. /\ Shape(map') /\ Ordered(map')
        /\ FreeUnits(map') = FreeUnits(map) \ (Extent(e) \ Extent(f))
    BY <2>1, <2>2, <1>2, <1>3, <1>a, ReplaceUnits
  <2>5. map'.want = map.want BY <2>1 DEF Replace
  <2> QED BY <2>1, <2>3, <2>4, <2>5, <1>10
<1>12. CASE gap = 0 /\ tail = 0
  <2>1. map' = Drop(map, i) /\ UNCHANGED <<asleep, retry, lost>>
    BY <1>1, <1>a, <1>12
  <2>2. Extent(e) = Extent(h)
    BY <1>12, <1>d, <1>e
  <2>3. /\ Shape(map') /\ Ordered(map')
        /\ FreeUnits(map') = FreeUnits(map) \ Extent(e)
    BY <2>1, <1>2, <1>3, <1>a, DropUnits
  <2>4. map'.want = map.want BY <2>1 DEF Drop
  <2> QED BY <2>1, <2>2, <2>3, <2>4, <1>10
<1>13. CASE gap # 0
  <2> DEFINE f == [m_addr |-> e.m_addr, m_size |-> gap]
  <2>1. /\ map' = Rmfree(cut, tail, end) /\ cut = Replace(map, i, f)
        /\ lost' = IF Overflows(cut, tail, end) THEN lost \cup Span(end, tail) ELSE lost
        /\ IF WakesMap(cut, tail, end) THEN WakeSleepers ELSE UNCHANGED <<asleep, retry>>
    BY <1>1, <1>a, <1>b, <1>13 DEF Span
  <2>2. /\ f \in Entry /\ f.m_size # 0 /\ e.m_addr <= f.m_addr
        /\ f.m_addr + f.m_size <= e.m_addr + e.m_size
    BY <1>4, <1>5, <1>a, <1>2, <1>13 DEF Entry
  <2>3. /\ Extent(e) \ Extent(f) = Extent(h) \cup Span(end, tail)
        /\ Extent(h) \cap Span(end, tail) = {}
    <3>1. Extent(f) = Span(e.m_addr, gap) BY <2>2, ExtentSpan
    <3> QED BY <3>1, <1>d
  <2> HIDE DEF f
  <2>4. /\ Shape(cut) /\ Ordered(cut)
        /\ FreeUnits(cut) = FreeUnits(map) \ (Extent(h) \cup Span(end, tail))
    BY <2>1, <2>2, <2>3, <1>2, <1>3, <1>a, ReplaceUnits
  <2>5. cut.want = map.want BY <2>1 DEF Replace
  <2>6. Span(end, tail) \subseteq FreeUnits(map)
    BY <2>3, <1>8
  <2>7. CASE tail = 0
    <3>1. map' = cut /\ lost' = lost /\ UNCHANGED <<asleep, retry>>
      BY <2>1, <2>7 DEF Rmfree, Overflows, WakesMap
    <3>2. Span(end, tail) = {} BY <2>7, <1>5 DEF Span
    <3> QED BY <3>1, <3>2, <2>4, <2>5, <1>10
  <2>8. CASE tail # 0 /\ Overflows(cut, tail, end)
    <3>1. map' = cut /\ lost' = lost \cup Span(end, tail) /\ UNCHANGED <<asleep, retry>>
      BY <2>1, <2>8 DEF Rmfree, WakesMap
    <3>2. Conservation'
      <4>1. FreeUnits(map)' \cup Extent(h) \cup lost'
              = FreeUnits(map) \cup Extent(held[c]) \cup lost
        BY <3>1, <2>4, <2>6, <1>7, <1>8
      <4>2. FreeUnits(map)' \cap Extent(h) = {} /\ FreeUnits(map)' \cap lost' = {}
            /\ Extent(h) \cap lost' = {}
        BY <3>1, <2>3, <2>4, <2>6, <1>7, <1>8
      <4> QED BY <4>1, <4>2, <1>2, <1>6, Moves
    <3>3. TypeOK'
      BY <3>1, <2>4, <2>6, <1>8, <1>2, <1>6 DEF TypeOK, Shape, AllUnits
    <3>4. MapWellFormed'
      BY <3>1, <2>4 DEF MapWellFormed
    <3>5. WaitsEmpty'
      BY <3>1, <1>2, <1>6 DEF IInv, WaitsEmpty, Idle
    <3>6. NoLostWakeup'
      <4>1. FreeUnits(map)' \subseteq FreeUnits(map) /\ map'.want = map.want
        BY <3>1, <2>4, <2>5, <1>8
      <4> QED BY <4>1, <3>1, <3>4, SleepersStay
    <3> QED BY <3>2, <3>3, <3>4, <3>5, <3>6, <1>9 DEF IInv
  <2>9. CASE tail # 0 /\ ~Overflows(cut, tail, end)
    <3>1. Span(end, tail) \cap FreeUnits(cut) = {} BY <2>4
    <3>2. /\ Shape(map') /\ Ordered(map')
          /\ FreeUnits(map') = FreeUnits(cut) \cup Span(end, tail)
      BY <3>1, <2>1, <2>4, <2>9, <1>5, RmfreeShape, RmfreeUnits
    <3>3. FreeUnits(map') = FreeUnits(map) \ Extent(h) /\ lost' = lost
      BY <3>2, <2>1, <2>3, <2>4, <2>6, <2>9
    <3>4. \/ map.want /\ WakeSleepers
          \/ ~map.want /\ UNCHANGED <<asleep, retry>>
      BY <2>1, <2>5, <2>9 DEF WakesMap
    <3>5. Conservation'
      <4>1. FreeUnits(map)' \cup Extent(h) \cup lost'
              = FreeUnits(map) \cup Extent(held[c]) \cup lost
        BY <3>3, <1>7, <1>8
      <4>2. FreeUnits(map)' \cap Extent(h) = {} /\ FreeUnits(map)' \cap lost' = {}
            /\ Extent(h) \cap lost' = {}
        BY <3>3, <1>7, <1>8
      <4> QED BY <4>1, <4>2, <1>2, <1>6, Moves
    <3>6. TypeOK'
      BY <3>2, <3>3, <3>4, <1>2, <1>6, Awake DEF TypeOK, Shape
    <3>7. MapWellFormed'
      BY <3>2 DEF MapWellFormed
    <3>8. WaitsEmpty' /\ NoLostWakeup'
      BY <3>4, <1>2, <1>6, Awake DEF IInv, WaitsEmpty, NoLostWakeup, Idle
    <3> QED BY <3>5, <3>6, <3>7, <3>8, <1>9 DEF IInv
  <2> QED BY <2>7, <2>8, <2>9
<1> QED BY <1>11, <1>12, <1>13, <1>5

-----------------------------------------------------------------------------
(* Every step of every client preserves the inductive invariant. *)
LEMMA NextIInv == IInv /\ [Next]_vars => IInv'
<1> SUFFICES ASSUME IInv, [Next]_vars PROVE IInv' OBVIOUS
<1>1. ASSUME NEW c \in Client, NEW size \in 1 .. MaxSize, Mapin(c, size) PROVE IInv'
  <2>1. held[c] = EndEntry /\ size # 0
    BY <1>1 DEF Mapin, Idle, IInv, WaitsEmpty
  <2>2. CASE CanAlloc(map, size) /\ Grant(c, size)
    <3>1. asleep[c] \in 0 .. MaxSize BY DEF IInv, TypeOK
    <3>2. CASE asleep[c] = 0 BY <3>2, <2>1, <2>2, GrantStep
    <3>3. CASE asleep[c] # 0
      BY <3>3, <1>1, <2>2 DEF Mapin, Idle, IInv, WaitsEmpty
    <3> QED BY <3>2, <3>3
  <2>3. CASE ~CanAlloc(map, size)
    BY <2>1, <2>3, <1>1, SleepStep DEF Mapin
  <2> QED BY <2>2, <2>3, <1>1 DEF Mapin
<1>2. ASSUME NEW c \in Client, NEW size \in 1 .. MaxSize, Sptalloc(c, size) PROVE IInv'
  BY <1>2, GrantStep DEF Sptalloc, Idle
<1>3. ASSUME NEW c \in Client, NEW size \in 1 .. MaxSize, Ptmalloc(c, size) PROVE IInv'
  BY <1>3, PtmallocStep
<1>4. ASSUME NEW c \in Client, Free(c) PROVE IInv'
  BY <1>4, FreeStep
<1>5. CASE UNCHANGED vars
  BY <1>5 DEF vars, IInv, TypeOK, MapWellFormed, Conservation, HeldType, WaitsEmpty,
              NoLostWakeup
<1> QED BY <1>1, <1>2, <1>3, <1>4, <1>5 DEF Next

(* The inductive invariant gives what the runs check. *)
LEMMA Consequences ==
    IInv => FreeAssertsHold /\ FirstFitComplete
<1> SUFFICES ASSUME IInv PROVE FreeAssertsHold /\ FirstFitComplete OBVIOUS
<1>1. Shape(map) /\ Ordered(map) /\ TypeOK /\ Conservation /\ HeldType
  BY DEF IInv, MapWellFormed
<1>2. FreeAssertsHold
  <2>1. SUFFICES ASSUME NEW c \in Client, held[c] # EndEntry
                 PROVE  RmfreeAsserts(map, held[c].m_size, held[c].m_addr)
    BY DEF FreeAssertsHold
  <2>2. held[c] \in Entry /\ held[c].m_addr \in Nat \ {0} /\ held[c].m_size \in Nat \ {0}
    BY <2>1, <1>1 DEF TypeOK, HeldType, Entry
  <2>3. Span(held[c].m_addr, held[c].m_size) \cap FreeUnits(map) = {}
    BY <2>2, <1>1, ExtentSpan DEF Conservation
  <2> QED BY <2>2, <2>3, <1>1, RmfreeAssertsHold
<1>3. FirstFitComplete
  <2>1. SUFFICES ASSUME NEW size \in 1 .. MaxSize
                 PROVE  CanAlloc(map, size) <=>
                          \E a \in AllUnits : Span(a, size) \subseteq FreeUnits(map)
    BY DEF FirstFitComplete, Span
  <2>2. FreeUnits(map) \subseteq AllUnits /\ AllUnits \subseteq Nat
    BY <1>1 DEF Conservation, AllUnits
  <2>3. \A a \in Nat : a \in Span(a, size) BY DEF Span
  <2>4. size \in Nat \ {0} OBVIOUS
  <2> QED BY <2>2, <2>3, <2>4, <1>1, CanAllocRun
<1> QED BY <1>2, <1>3

(* The inductive invariant holds of every reachable state of the clients. *)
THEOREM Inductive == Spec => []IInv
<1>1. Init => IInv BY InitIInv
<1>2. IInv /\ [Next]_vars => IInv' BY NextIInv
<1> QED BY <1>1, <1>2, PTL DEF Spec

(* The variables keep their types: no rmfree writes behind the end of the  *)
(* map array and mapsize never wraps.                                      *)
THEOREM TypeCorrect == Spec => []TypeOK
<1>1. IInv => TypeOK BY DEF IInv
<1> QED BY <1>1, Inductive, PTL

(* The array of malloc.c stays sorted, joined and terminated, whatever the *)
(* order of bp_mapin, sptalloc, kseg and their frees.                      *)
THEOREM WellFormedAlways == Spec => []MapWellFormed
<1>1. IInv => MapWellFormed BY DEF IInv
<1> QED BY <1>1, Inductive, PTL

(* No unit of sptmap is handed out twice, and none disappears except the   *)
(* ones an overflowing rmfree reports as lost.                             *)
THEOREM UnitsConserved == Spec => []Conservation
<1>1. IInv => Conservation BY DEF IInv
<1> QED BY <1>1, Inductive, PTL

(* No bp_mapin sleeps for space that is there, and mapwant is set for it.  *)
THEOREM SleepersNoticed == Spec => []NoLostWakeup
<1>1. IInv => NoLostWakeup BY DEF IInv
<1> QED BY <1>1, Inductive, PTL

(* The ASSERTs of rmfree hold for every extent a client can give back.     *)
THEOREM AssertsHold == Spec => []FreeAssertsHold
<1>1. IInv => FreeAssertsHold BY Consequences
<1> QED BY <1>1, Inductive, PTL

(* rmalloc fails only when no run of free units is long enough.            *)
THEOREM FirstFitFindsAll == Spec => []FirstFitComplete
<1>1. IInv => FirstFitComplete BY Consequences
<1> QED BY <1>1, Inductive, PTL
=============================================================================
