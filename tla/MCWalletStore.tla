--------------------------- MODULE MCWalletStore ---------------------------
(***************************************************************************)
(* Instances of WalletStore for TLC.                                       *)
(***************************************************************************)
EXTENDS WalletStore, TLC

CONSTANTS p1, p2, a, b, pw1, pw2

MCSymmetry == Permutations(Name) \cup Permutations(Pw) \cup Permutations(Writer)
=============================================================================
