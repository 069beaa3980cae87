--------------------------- MODULE MCPasswordHistory ---------------------------
(* Small instances of PasswordHistory. *)
EXTENDS PasswordHistory, TLC

Symmetry == Permutations(Passwords) \cup Permutations(Requests)
=============================================================================
