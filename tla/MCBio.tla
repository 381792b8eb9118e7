-------------------------------- MODULE MCBio --------------------------------
(* Instances of Bio for TLC. *)
EXTENDS Bio

CONSTANTS n1, n2

TwoSizes == (n1 :> 1) @@ (n2 :> 2)

Symm == Permutations(Proc)
=============================================================================
