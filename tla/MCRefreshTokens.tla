--------------------------- MODULE MCRefreshTokens --------------------------
(* The registry on a small instance: enough tokens for a family of three    *)
(* or for two users, and two requests in flight.                           *)
EXTENDS RefreshTokens, TLC

Symmetry == Permutations(Conns) \cup Permutations(Tokens) \cup Permutations(Users)

=============================================================================
