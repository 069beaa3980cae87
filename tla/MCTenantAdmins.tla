---------------------------- MODULE MCTenantAdmins ----------------------------
(* Small instances of TenantAdmins. *)
EXTENDS SerialAdmins, TLC

Symmetry == Permutations(Users) \cup Permutations(Tenants) \cup Permutations(Requests)
=============================================================================
