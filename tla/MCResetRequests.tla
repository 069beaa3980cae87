---------------------------- MODULE MCResetRequests ----------------------------
(* Small instances of ResetRequests. *)
EXTENDS ResetRequests, TLC

Symmetry == Permutations(Users) \cup Permutations(Tenants) \cup Permutations(Requests)
=============================================================================
