--------------------------- MODULE MCRefreshTokens ---------------------------
(* Instances of RefreshTokens for TLC. *)
EXTENDS RefreshTokens, TLC

All == Permutations(Req) \cup Permutations(Token) \cup Permutations(User)
===============================================================================
