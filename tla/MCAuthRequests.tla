---------------------------- MODULE MCAuthRequests ----------------------------
(* AuthRequests with interchangeable personas and requests, for TLC. *)
EXTENDS AuthRequests, TLC

Symmetry == Permutations(Subs) \cup Permutations(Reqs)
==============================================================================
