----------------------------- MODULE ResourceMap -----------------------------
(***************************************************************************)
(* The resource map of os/malloc.c: an array of free extents kept sorted   *)
(* by address and ended by an entry of size 0.  rmalloc is first fit;      *)
(* rmfree puts an extent back, joining it to the neighbours it touches.    *)
(*                                                                         *)
(* A map is a record:                                                      *)
(*   ent   the entries mapstart(mp)[0..], each [m_addr, m_size]; the last  *)
(*         slot of the array exists to hold the terminating entry          *)
(*   size  mapsize(mp), the number of entries that may still be added      *)
(*   want  mapwant(mp) # 0, somebody sleeps for space in the map           *)
(*                                                                         *)
(* The operators are pure: MapClients drives them as a state machine, and  *)
(* Msg uses them for the message segments.                                 *)
(***************************************************************************)
EXTENDS Naturals

CONSTANT MapSlots   \* entries the array can hold, the terminator excluded:
                    \* mapinit(X, Y) leaves Y - 2 of them

ASSUME MapSlotsAssumption == MapSlots \in Nat

Slot == 1 .. MapSlots + 1

(* A zero entry: what mapdata and the bss leave in every unused slot. *)
EndEntry == [m_addr |-> 0, m_size |-> 0]

Entry == [m_addr : Nat, m_size : Nat]

MapType == [ent : [Slot -> Entry], size : Nat, want : BOOLEAN]

(* mapinit: no entry in use. *)
MapInit == [ent |-> [i \in Slot |-> EndEntry], size |-> MapSlots, want |-> FALSE]

(***************************************************************************)
(* The scans stop at the first entry of size 0, wherever it is.            *)
(***************************************************************************)
Live(m, i) == \A j \in 1 .. i : m.ent[j].m_size # 0

(* The entries behind bp move down over it, terminator included. *)
Squeeze(ent, bp) ==
    [i \in Slot |-> IF i < bp \/ i = MapSlots + 1 THEN ent[i] ELSE ent[i + 1]]

(* The entries from bp on move up one slot to make room for e. *)
Spread(ent, bp, e) ==
    [i \in Slot |-> IF i < bp THEN ent[i] ELSE IF i = bp THEN e ELSE ent[i - 1]]

(* Mutant: the freed slot is not counted when an entry is used up. *)
DropKeepsMapsize(m, i) == [ent |-> Squeeze(m.ent, i), size |-> m.size, want |-> m.want]

(* The map with the entry i used up, and with f in its place. *)
Drop(m, i) == [ent |-> Squeeze(m.ent, i), size |-> m.size + 1, want |-> m.want]

Replace(m, i, f) == [ent |-> [m.ent EXCEPT ![i] = f], size |-> m.size, want |-> m.want]

(* mapwant(mp)++: somebody is about to sleep on the map. *)
Want(m) == [ent |-> m.ent, size |-> m.size, want |-> TRUE]

(***************************************************************************)
(* rmalloc: the first entry that is large enough gives its low end.        *)
(***************************************************************************)
Fit(m, size, i) == Live(m, i) /\ m.ent[i].m_size >= size

FirstFit(m, size, i) == Fit(m, size, i) /\ \A j \in 1 .. i - 1 : ~Fit(m, size, j)

CanAlloc(m, size) == size # 0 /\ \E i \in Slot : Fit(m, size, i)

AllocSlot(m, size) == CHOOSE i \in Slot : FirstFit(m, size, i)

RmallocAddr(m, size) ==
    IF CanAlloc(m, size) THEN m.ent[AllocSlot(m, size)].m_addr ELSE 0

(* Mutant: the entry shrinks but keeps its address. *)
RmallocKeepsAddr(m, size) ==
    LET i == AllocSlot(m, size)
        e == m.ent[i]
    IN  IF ~CanAlloc(m, size) THEN m
        ELSE IF e.m_size = size THEN Drop(m, i)
        ELSE Replace(m, i, [m_addr |-> e.m_addr, m_size |-> e.m_size - size])

Rmalloc(m, size) ==
    LET i == AllocSlot(m, size)
        e == m.ent[i]
    IN  IF ~CanAlloc(m, size) THEN m
        ELSE IF e.m_size = size THEN Drop(m, i)
        ELSE Replace(m, i, [m_addr |-> e.m_addr + size, m_size |-> e.m_size - size])

(***************************************************************************)
(* rmfree: bp is the first entry beyond a, or the terminator.              *)
(***************************************************************************)
Before(m, a, i) == Live(m, i) /\ m.ent[i].m_addr <= a

FreeSlot(m, a) ==
    CHOOSE i \in Slot : ~Before(m, a, i) /\ \A j \in 1 .. i - 1 : Before(m, a, j)

JoinsLow(m, a, bp) ==
    bp > 1 /\ m.ent[bp - 1].m_addr + m.ent[bp - 1].m_size = a

(* Mutant: the entry behind the freed extent is never joined to it. *)
JoinsHighNever(m, size, a, bp) == FALSE

(* Behind a low neighbour the code asks for m_addr # 0, else for m_size # 0. *)
JoinsHigh(m, size, a, bp) ==
    /\ a + size = m.ent[bp].m_addr
    /\ IF JoinsLow(m, a, bp) THEN m.ent[bp].m_addr # 0 ELSE m.ent[bp].m_size # 0

(* "rmfree map overflow": no entry is left for an extent that touches none. *)
Overflows(m, size, a) ==
    LET bp == FreeSlot(m, a)
    IN  size # 0 /\ ~JoinsLow(m, a, bp) /\ ~JoinsHigh(m, size, a, bp) /\ m.size = 0

Rmfree(m, size, a) ==
    LET bp   == FreeSlot(m, a)
        low  == JoinsLow(m, a, bp)
        high == JoinsHigh(m, size, a, bp)
        e    == m.ent[bp]
        more == IF high THEN size + e.m_size ELSE size
        grown == [m.ent EXCEPT ![bp - 1] = [m_addr |-> m.ent[bp - 1].m_addr,
                                            m_size |-> m.ent[bp - 1].m_size + more]]
        ent  == IF low THEN IF high THEN Squeeze(grown, bp) ELSE grown
                ELSE IF high THEN [m.ent EXCEPT ![bp] = [m_addr |-> e.m_addr - size,
                                                        m_size |-> e.m_size + size]]
                ELSE Spread(m.ent, bp, [m_addr |-> a, m_size |-> size])
        left == IF low /\ high THEN m.size + 1
                ELSE IF low \/ high THEN m.size ELSE m.size - 1
    IN  IF size = 0 \/ Overflows(m, size, a) THEN m
        ELSE [ent |-> ent, size |-> left, want |-> FALSE]

(* Mutant: only an rmfree that adds an entry wakes the sleepers. *)
WakesMapOnInsert(m, size, a) ==
    size # 0 /\ m.want /\ ~Overflows(m, size, a) /\ ~JoinsLow(m, a, FreeSlot(m, a))

(* rmfree wakes the sleepers of the map (and clears mapwant) only past the *)
(* overflow return.                                                        *)
WakesMap(m, size, a) == size # 0 /\ m.want /\ ~Overflows(m, size, a)

(* The ASSERTs of rmfree: what it takes for granted about a freed extent. *)
RmfreeAsserts(m, size, a) ==
    LET bp == FreeSlot(m, a)
    IN  IF JoinsLow(m, a, bp)
        THEN m.ent[bp].m_addr # 0 => a + size <= m.ent[bp].m_addr
        ELSE /\ bp = 1 \/ m.ent[bp - 1].m_addr + m.ent[bp - 1].m_size < a
             /\ JoinsHigh(m, size, a, bp) \/ m.ent[bp].m_size = 0
                                          \/ a + size < m.ent[bp].m_addr

(***************************************************************************)
(* What the code takes for granted about a map: the entries in use come    *)
(* first, behind them every slot is the zero entry the scans stop at, and  *)
(* mapsize counts the slots left; the entries increase and do not touch.   *)
(***************************************************************************)
Used(m) == MapSlots - m.size

Shape(m) ==
    /\ m \in MapType
    /\ m.size <= MapSlots
    /\ \A i \in Slot : IF i <= Used(m) THEN m.ent[i].m_size # 0 ELSE m.ent[i] = EndEntry

Ordered(m) ==
    /\ \A i \in 1 .. Used(m) : m.ent[i].m_addr > 0
    /\ \A i, j \in 1 .. Used(m) :
          i < j => m.ent[i].m_addr + m.ent[i].m_size < m.ent[j].m_addr

(***************************************************************************)
(* The units a map holds free.                                             *)
(***************************************************************************)
Extent(e) == e.m_addr .. e.m_addr + e.m_size - 1

FreeUnits(m) == UNION {Extent(m.ent[i]) : i \in {j \in Slot : Live(m, j)}}
=============================================================================
