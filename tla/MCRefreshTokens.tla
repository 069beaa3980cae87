--------------------------- MODULE MCRefreshTokens ---------------------------
(* Small instances of RefreshTokens. *)
EXTENDS RefreshTokens, TLC

Symmetry == Permutations(Tokens) \cup Permutations(Requests)
=============================================================================
