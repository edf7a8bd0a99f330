---------------------------- MODULE MCDiscovery ----------------------------
(* Discovery on small instances: model values for processes and ports.     *)
EXTENDS Discovery, TLC

Symmetry == Permutations(Daemons) \cup Permutations(Clients) \cup Permutations(Ports)
=============================================================================
