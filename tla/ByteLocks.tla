------------------------------ MODULE ByteLocks ------------------------------
(* What record locking promises: every owner holds every byte of a file    *)
(* unlocked, for reading or for writing, and a request changes a range of  *)
(* bytes at once, or nothing.  The ends of ranges, records and lists are   *)
(* no part of it.                                                          *)
EXTENDS Integers

CONSTANTS Proc, Vnode, MAXEND, Remote

VARIABLE held       \* held[v][p][b]: "F_UNLCK", "F_RDLCK" or "F_WRLCK"

ByteNo == 0 .. MAXEND
Free   == [p \in Proc |-> [b \in ByteNo |-> "F_UNLCK"]]

Init == held = [v \in Vnode |-> Free]

(* No other owner holds a byte of B in conflict with type t. *)
Compatible(v, p, B, t) ==
    \A q \in Proc \ {p}, b \in B :
        \/ t = "F_UNLCK" \/ held[v][q][b] = "F_UNLCK"
        \/ t = "F_RDLCK" /\ held[v][q][b] = "F_RDLCK"

Range(a, z) == a .. z

(* Only bytes of p in B change, and to one of the types T(old type). *)
Changes(v, p, B, T(_)) ==
    \A w \in Vnode, q \in Proc, b \in ByteNo :
        IF w = v /\ q = p /\ b \in B THEN held'[w][q][b] \in T(held[w][q][b])
                                     ELSE held'[w][q][b] = held[w][q][b]

(* F_SETLK and F_SETLKW. *)
SetRange(v, p, a, z, t) ==
    /\ Changes(v, p, Range(a, z), LAMBDA old : {t})
    /\ Compatible(v, p, Range(a, z), t)

(* The bytes of type t that run up to the range, or on from it. *)
Adjoining(v, p, a, z, t) ==
    {b \in ByteNo : \/ b < a /\ \A c \in b .. a - 1 : held[v][p][c] = t
                    \/ b > z /\ \A c \in z + 1 .. b : held[v][p][c] = t}

(* ENOLCK halfway: some bytes of the owner are no longer locked, none are  *)
(* newly locked.                                                           *)
LoseSome(v, p, a, z, t) ==
    Changes(v, p, Range(a, z) \cup Adjoining(v, p, a, z, t), LAMBDA old : {old, "F_UNLCK"})

(* Close, or the loss of the other machine. *)
Release(v, P) ==
    \A w \in Vnode, q \in Proc, b \in ByteNo :
        held'[w][q][b] = IF w = v /\ q \in P THEN "F_UNLCK" ELSE held[w][q][b]

Next ==
    \E v \in Vnode :
        \/ \E p \in Proc, a, z \in ByteNo, t \in {"F_UNLCK", "F_RDLCK", "F_WRLCK"} :
              a <= z /\ (SetRange(v, p, a, z, t) \/ LoseSome(v, p, a, z, t))
        \/ \E p \in Proc : Release(v, {p})
        \/ Release(v, Remote)

Spec == Init /\ [][Next]_held
=============================================================================
