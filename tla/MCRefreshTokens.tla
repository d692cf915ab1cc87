---------------------------- MODULE MCRefreshTokens ----------------------------
(***************************************************************************)
(* RefreshTokens for TLC.                                                  *)
(***************************************************************************)
EXTENDS RefreshTokens, TLC

\* Which row holds which token makes no difference, nor which thread serves it.
TokenSymmetry == Permutations(Tokens) \cup Permutations(Workers)

===============================================================================
