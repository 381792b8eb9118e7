---------------------------- MODULE MCMapClients -----------------------------
(* Model values for MapClients, and its mutants: what a plausible slip in  *)
(* malloc.c would do.                                                      *)
EXTENDS MapClients, TLC

Clients == Permutations(Client)
=============================================================================
