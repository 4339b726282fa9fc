--------------------------- MODULE MCRefreshTokens ---------------------------
(* RefreshTokens on small sets. *)
EXTENDS RefreshTokens, TLC

Symmetric == Permutations(Requests) \cup Permutations(Users) \cup Permutations(Tokens)
==============================================================================
