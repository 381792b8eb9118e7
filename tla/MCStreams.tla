------------------------------ MODULE MCStreams ------------------------------
(* Instances of Streams for TLC. *)
EXTENDS Streams, TLC

Set(delim, cread, sizes) == [strdelim |-> delim, cread |-> cread, sizes |-> sizes]

(* Held writes on a port that only sends, and a port that also receives.   *)
Apart == {Set(FALSE, FALSE, {1, 2}), Set(TRUE, TRUE, {1})}

(* Held writes on a port that only sends. *)
Sends == {Set(FALSE, FALSE, {1, 2})}

(* Held writes on a port that also receives. *)
Both == {Set(FALSE, TRUE, {1, 2})}

Symm == Permutations(Proc)
=============================================================================
