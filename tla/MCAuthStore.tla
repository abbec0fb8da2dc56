----------------------------- MODULE MCAuthStore -----------------------------
(***************************************************************************)
(* AuthStore on a small instance.                                          *)
(***************************************************************************)
EXTENDS AuthStore, TLC

AuthSymmetry == Permutations(Attempt) \cup Permutations(Token) \cup Permutations(Password)
=============================================================================
