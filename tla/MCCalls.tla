------------------------------ MODULE MCCalls ------------------------------
(* Calls with two batches of a few lines each.                             *)
EXTENDS Calls, TLC

Symmetry == Permutations(Clients)
=============================================================================
