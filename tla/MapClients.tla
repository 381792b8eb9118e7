----------------------------- MODULE MapClients ------------------------------
(***************************************************************************)
(* The users of the kernel's system virtual space map sptmap:              *)
(*   bp_mapin    (os/mapin.c) sleeps until rmalloc gives it its pages      *)
(*   sptalloc    (vm/seg_kmem.c) gives up instead                          *)
(*   kseg        (vm/seg_kmem.c) wants an aligned extent, from ptmalloc    *)
(*   bp_mapout, sptfree, unkseg put the extent back with rmfree            *)
(* The kernel is not preempted: each of them is one step between sleeps.   *)
(***************************************************************************)
EXTENDS ResourceMap

CONSTANTS Client,      \* kernel activities that hold at most one extent each
          Units,       \* number of units put in the map at boot, from unit 1
          MaxSize,     \* bound on the size of a request
          Align        \* alignment kseg asks ptmalloc for: mask + 1

ASSUME ClientsAssumption ==
    /\ Units \in Nat \ {0} /\ MaxSize \in Nat \ {0} /\ Align \in Nat \ {0}
    /\ MapSlots \in Nat \ {0}

VARIABLES map,     \* sptmap
          held,    \* held[c]: the extent c owns, EndEntry when it owns none
          asleep,  \* asleep[c]: the size c sleeps on sptmap for, 0 if awake
          retry,   \* retry[c]: the size a woken c asks for again, 0 if none
          lost     \* units that overflowing rmfrees gave up (history)

vars == <<map, held, asleep, retry, lost>>

AllUnits == 1 .. Units

Init ==
    /\ map = Rmfree(MapInit, Units, 1)
    /\ held = [c \in Client |-> EndEntry]
    /\ asleep = [c \in Client |-> 0]
    /\ retry = [c \in Client |-> 0]
    /\ lost = {}

Idle(c) == held[c] = EndEntry /\ asleep[c] = 0 /\ retry[c] = 0

(* wakeup(mp): every sleeper of the map runs its loop again. *)
WakeSleepers ==
    /\ asleep' = [c \in Client |-> 0]
    /\ retry' = [c \in Client |-> IF asleep[c] # 0 THEN asleep[c] ELSE retry[c]]

Grant(c, size) ==
    /\ held' = [held EXCEPT ![c] = [m_addr |-> RmallocAddr(map, size), m_size |-> size]]
    /\ map' = Rmalloc(map, size)
    /\ retry' = [retry EXCEPT ![c] = 0]
    /\ UNCHANGED <<asleep, lost>>

(* The loop of bp_mapin, entered the first time or after a wakeup. *)
Mapin(c, size) ==
    /\ Idle(c) \/ retry[c] = size
    /\ \/ /\ CanAlloc(map, size)
          /\ Grant(c, size)
       \/ /\ ~CanAlloc(map, size)
          /\ map' = Want(map)
          /\ asleep' = [asleep EXCEPT ![c] = size]
          /\ retry' = [retry EXCEPT ![c] = 0]
          /\ UNCHANGED <<held, lost>>

(* A failing sptalloc changes nothing, so only its success is a step. *)
Sptalloc(c, size) ==
    /\ Idle(c)
    /\ CanAlloc(map, size)
    /\ Grant(c, size)

(***************************************************************************)
(* ptmalloc: first entry that holds an aligned extent of the size.  With a *)
(* gap in front the entry keeps the gap and the tail goes back by mfree.   *)
(***************************************************************************)
AlignUp(a) == ((a + Align - 1) \div Align) * Align

Gap(e) == AlignUp(e.m_addr) - e.m_addr

PtFit(i, size) == Live(map, i) /\ map.ent[i].m_size >= Gap(map.ent[i]) + size

PtSlot(i, size) == PtFit(i, size) /\ \A j \in 1 .. i - 1 : ~PtFit(j, size)

Ptmalloc(c, size) ==
    /\ Idle(c)
    /\ \E i \in Slot :
        /\ PtSlot(i, size)
        /\ LET e    == map.ent[i]
               gap  == Gap(e)
               tail == e.m_size - size - gap
               cut  == Replace(map, i, [m_addr |-> e.m_addr, m_size |-> gap])
               end  == e.m_addr + gap + size
           IN  /\ held' = [held EXCEPT ![c] =
                              [m_addr |-> AlignUp(e.m_addr), m_size |-> size]]
               /\ \/ /\ gap = 0 /\ tail # 0
                     /\ map' = Replace(map, i, [m_addr |-> end, m_size |-> tail])
                     /\ UNCHANGED <<asleep, retry, lost>>
                  \/ /\ gap = 0 /\ tail = 0
                     /\ map' = Drop(map, i)
                     /\ UNCHANGED <<asleep, retry, lost>>
                  \/ /\ gap # 0
                     /\ map' = Rmfree(cut, tail, end)
                     /\ lost' = IF Overflows(cut, tail, end)
                                THEN lost \cup (end .. end + tail - 1) ELSE lost
                     /\ IF WakesMap(cut, tail, end)
                        THEN WakeSleepers ELSE UNCHANGED <<asleep, retry>>

(* bp_mapout, sptfree, unkseg. *)
Free(c) ==
    LET a == held[c].m_addr
        size == held[c].m_size
    IN  /\ held[c] # EndEntry
        /\ held' = [held EXCEPT ![c] = EndEntry]
        /\ map' = Rmfree(map, size, a)
        /\ lost' = IF Overflows(map, size, a) THEN lost \cup Extent(held[c]) ELSE lost
        /\ IF WakesMap(map, size, a) THEN WakeSleepers ELSE UNCHANGED <<asleep, retry>>

Next ==
    \E c \in Client :
        \/ \E size \in 1 .. MaxSize :
              Mapin(c, size) \/ Sptalloc(c, size) \/ Ptmalloc(c, size)
        \/ Free(c)

Spec == Init /\ [][Next]_vars

-----------------------------------------------------------------------------

(* Types of the map, its users and the units given up. *)
TypeOK ==
    /\ map \in MapType
    /\ held \in [Client -> Entry]
    /\ asleep \in [Client -> 0 .. MaxSize]
    /\ retry \in [Client -> 0 .. MaxSize]
    /\ lost \subseteq AllUnits

(* The map array stays well formed whatever the order of allocations and   *)
(* frees: the entries in use come first, in increasing and non-touching    *)
(* order, everything behind them is the zero entry the scans stop at, and  *)
(* mapsize counts the slots left, so that the terminator is never lost     *)
(* (malloc.c trusts this without a bound check on bp).                     *)
MapWellFormed == Shape(map) /\ Ordered(map)

(* No unit is ever in two places or nowhere: every unit is free, in one    *)
(* client's extent, or among those reported lost on a map overflow.        *)
Conservation ==
    /\ FreeUnits(map) \cup lost \cup UNION {Extent(held[c]) : c \in Client} = AllUnits
    /\ FreeUnits(map) \cap lost = {}
    /\ \A c \in Client : Extent(held[c]) \cap (FreeUnits(map) \cup lost) = {}
    /\ \A c, d \in Client : c # d => Extent(held[c]) \cap Extent(held[d]) = {}

(* The ASSERTs in rmfree (malloc.c:97, 114, 118, 120) hold for every       *)
(* extent a client may give back now.                                      *)
FreeAssertsHold ==
    \A c \in Client :
        held[c] # EndEntry => RmfreeAsserts(map, held[c].m_size, held[c].m_addr)

(* First fit is complete: rmalloc of n fails only when no n consecutive    *)
(* units are free, because rmfree always joins neighbours.                 *)
FirstFitComplete ==
    \A size \in 1 .. MaxSize :
        CanAlloc(map, size) <=>
            \E a \in AllUnits : a .. a + size - 1 \subseteq FreeUnits(map)

(* No lost wakeup: a client asleep on the map is flagged in mapwant, and   *)
(* it sleeps only while the map cannot satisfy it.                         *)
NoLostWakeup ==
    \A c \in Client : asleep[c] # 0 => map.want /\ ~CanAlloc(map, asleep[c])

=============================================================================
