--------------------------- MODULE MCRefreshTokens ---------------------------
(* Model-checking instances of RefreshTokens.  Requests are interchangeable,  *)
(* and so are accounts; the liveness run does not use the symmetry.           *)
EXTENDS RefreshTokens, TLC

Symmetry == Permutations(Requests) \cup Permutations(Users)
=============================================================================
