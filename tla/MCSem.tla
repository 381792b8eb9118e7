-------------------------------- MODULE MCSem --------------------------------
(* Instances of Sem for TLC. *)
EXTENDS Sem, TLC

V(n, k)  == [num |-> n, op |-> k, undo |-> FALSE, nowait |-> FALSE]
U(n, k)  == [num |-> n, op |-> k, undo |-> TRUE, nowait |-> FALSE]
NW(n, k) == [num |-> n, op |-> k, undo |-> FALSE, nowait |-> TRUE]

(* Lists over two semaphores, with and without SEM_UNDO and IPC_NOWAIT. *)
MCOps == {<<U(0, -1), V(1, -1)>>, <<V(0, 1), U(1, 1)>>, <<U(0, 2)>>,
          <<V(1, 0), NW(0, -1)>>}

(* P, double P, V and wait for zero on one semaphore. *)
WakeOps == {<<V(0, -1)>>, <<V(0, -2)>>, <<V(0, 1)>>, <<V(0, 0)>>}

(* As WakeOps, with SEM_UNDO where it makes a difference. *)
FaultOps == {<<U(0, -1)>>, <<U(0, 1)>>, <<V(0, 0)>>}

(* Two lists of different callers. *)
TornOps == {<<V(0, 1), V(1, 1)>>, <<V(0, 0), V(1, 0)>>}

(* A list that names a semaphore twice: take one, then wait for zero. *)
RepeatOps == {<<V(0, -1)>>, <<V(0, 2)>>, <<V(0, -1), V(0, 0)>>}

Symm == Permutations(Proc) \cup Permutations(Undo)
=============================================================================
