--------------------------- MODULE MCPQStateChain ---------------------------
(* A small universe of records for PQStateChain. *)
EXTENDS PQStateChain, TLC

CONSTANTS k1, k2, k3, x1, x2, x3, xc,      \* keys and identities
          dG, dH, dA, dB, dC, dX, dS, dZ,  \* digests of the rotation universe
          dM, dN, dR, dQ, dI               \* digests of the migration universe

R(xid, seq, prev, control) ==
    [xid |-> xid, seq |-> seq, prev |-> prev, control |-> control,
     decodes |-> TRUE]

MCXidFor == k1 :> x1 @@ k2 :> x2 @@ k3 :> x3

\* Rotation, with k1 dishonest: dG and dH are two inceptions of x1; dA and dB
\* are siblings; dC extends dA at the last sequence number; dX changes the
\* identity, dS skips a sequence number, dZ is a first record that carries a
\* predecessor.
RotationRec ==
    dG :> R(x1, 1, NoDigest, k1) @@ dH :> R(x1, 1, NoDigest, k1) @@
    dA :> R(x1, 2, dG, k2)        @@ dB :> R(x1, 2, dG, k1) @@
    dC :> R(x1, 3, dA, k2)        @@ dX :> R(x2, 2, dG, k1) @@
    dS :> R(x1, 3, dG, k1)        @@ dZ :> R(x1, 1, dG, k1)

\* Migration, among honest keys: dM and dN migrate the classical identity xc to
\* different control keys, dR and dQ rotate dM and dN, dI is an inception of x3.
MigrationRec ==
    dM :> R(xc, 1, NoDigest, k3) @@ dN :> R(xc, 1, NoDigest, k2) @@
    dR :> R(xc, 2, dM, k2)        @@ dQ :> R(xc, 2, dN, k2) @@
    dI :> R(x3, 1, NoDigest, k3)

MCRec == RotationRec @@ MigrationRec

\* What is signed in one behaviour belongs to one of the two universes; without
\* an Elect signature in the first.
OneUniverse ==
    LET over == {s[2] : s \in pqSigned \cup elSigned \cup forged} IN
    \/ over \subseteq DOMAIN RotationRec /\ elSigned = {} /\ ~broken
    \/ over \subseteq DOMAIN MigrationRec

Perms == Permutations(Verifier)
=============================================================================
