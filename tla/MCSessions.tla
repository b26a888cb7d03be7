------------------------------ MODULE MCSessions ------------------------------
(* Sessions with interchangeable requests, for TLC. *)
EXTENDS Sessions, TLC

Symmetry == Permutations(Reqs)
==============================================================================
