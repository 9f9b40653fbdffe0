-------------------------- MODULE MCQueryResources --------------------------
(* QueryResources for TLC.                                                 *)
EXTENDS QueryResources, TLC

Symmetry == Permutations(Procs)
==============================================================================
