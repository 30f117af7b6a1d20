---------------------------- MODULE MCWalletDoc ----------------------------
(* Names, keys and salts are interchangeable in WalletDoc. *)
EXTENDS WalletDoc, TLC

Perms == Permutations(Name) \cup Permutations(Key) \cup Permutations(Salt)
=============================================================================
