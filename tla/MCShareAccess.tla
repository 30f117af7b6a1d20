--------------------------- MODULE MCShareAccess ---------------------------
(***************************************************************************)
(* An instance of ShareAccess for TLC.  k1 holds an Ed25519 key whose      *)
(* wraps go to the same point as those of its X25519 form; r3 belongs to   *)
(* another backend than r1 and r2; s2 also signs with ML-DSA.              *)
(***************************************************************************)
EXTENDS ShareAccess, TLC

CONSTANTS k1, k2, ed1, x1, x2, p1, p2, r1, r2, r3, b1, b2,
          s1, s2

MCPublicOf == k1 :> ed1 @@ k2 :> x2
MCHolderOf == ed1 :> k1 @@ x1 :> k1 @@ x2 :> k2
MCEnc == ed1 :> p1 @@ x1 :> p1 @@ x2 :> p2
MCBackendOf == r1 :> b1 @@ r2 :> b1 @@ r3 :> b2
=============================================================================
