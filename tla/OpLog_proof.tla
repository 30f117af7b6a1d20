---------------------------- MODULE OpLog_proof ----------------------------
(***************************************************************************)
(* Proofs about OpLog, for every set of authors, values, salts, ops and    *)
(* foreign envelopes, and any number of signatures.                        *)
(*                                                                         *)
(* TypeOK needs one companion: the signatures of the envelope, whoever put *)
(* them there, are among the ones that were made (Unforged).  What an      *)
(* accepted op says then follows from the tree that one of its visible     *)
(* signatures was made over.                                               *)
(***************************************************************************)
EXTENDS OpLog, FiniteSetTheorems, TLAPS

Unforged == env.signed \subseteq issued /\ IsFiniteSet(issued)

IInv == TypeOK /\ Unforged

-----------------------------------------------------------------------------
(***************************************************************************)
(* The sets of the model are finite, so that counting what is elided tells *)
(* whether anything is.                                                    *)
(***************************************************************************)

\* There are finitely many assertions.
LEMMA AssertionFinite == IsFiniteSet(Assertion)
<1> DEFINE P == Predicate \cup {"other"}
           V == Salt \cup {NoSalt}
           X == P \X (Value \X V)
           f == [x \in X |-> [pred |-> x[1], val |-> x[2][1], salt |-> x[2][2]]]
<1>1. IsFiniteSet(P)
  <2>1. IsFiniteSet({"deps"})
    BY FS_Singleton
  <2>2. IsFiniteSet({"deps"} \cup {"nacks"})
    BY <2>1, FS_AddElement
  <2>3. IsFiniteSet(({"deps"} \cup {"nacks"}) \cup {"target-fp"})
    BY <2>2, FS_AddElement
  <2>4. IsFiniteSet((({"deps"} \cup {"nacks"}) \cup {"target-fp"}) \cup {"timestamp"})
    BY <2>3, FS_AddElement
  <2>5. Predicate = (({"deps"} \cup {"nacks"}) \cup {"target-fp"}) \cup {"timestamp"}
    BY DEF Predicate
  <2>. QED BY <2>4, <2>5, FS_AddElement
<1>2. IsFiniteSet(V)
  BY FS_AddElement, ConstantsAssumption
<1>3. IsFiniteSet(X)
  BY <1>1, <1>2, ConstantsAssumption, FS_Product
<1>4. f \in Surjection(X, Assertion)
  <2>1. f \in [X -> Assertion]
    BY DEF Assertion
  <2>2. ASSUME NEW y \in Assertion PROVE \E x \in X : f[x] = y
    <3> DEFINE x == <<y.pred, <<y.val, y.salt>>>>
    <3>1. x \in X
      BY <2>2 DEF Assertion
    <3>2. f[x] = y
      BY <3>1, <2>2 DEF Assertion
    <3>. QED BY <3>1, <3>2
  <2>. QED BY <2>1, <2>2 DEF Surjection
<1>. QED BY <1>3, <1>4, FS_Surjection

\* A sorted list of assertions lists the values that they have.
LEMMA ListingRange ==
    ASSUME NEW A, IsFiniteSet(A), NEW q \in Listings(A)
    PROVE  Range(q) = {x.val : x \in A}
<1> DEFINE W == {x.val : x \in A}
<1>1. q \in [1 .. Cardinality(A) -> W]
  BY DEF Listings
<1>2. Range(q) \subseteq W
  BY <1>1 DEF Range
<1>3. ASSUME NEW v \in W PROVE v \in Range(q)
  <2>1. PICK x \in A : x.val = v
    OBVIOUS
  <2>2. Cardinality({y \in A : y.val = v}) # 0
    <3>1. IsFiniteSet({y \in A : y.val = v})
      BY FS_Subset
    <3>. QED BY <2>1, <3>1, FS_EmptySet
  <2>3. Cardinality({i \in DOMAIN q : q[i] = v}) # 0
    BY <2>2 DEF Listings
  <2>4. {i \in DOMAIN q : q[i] = v} # {}
    BY <2>3, FS_EmptySet
  <2>. QED BY <2>4 DEF Range
<1>. QED BY <1>2, <1>3

-----------------------------------------------------------------------------
(***************************************************************************)
(* Encoding and decoding.                                                  *)
(***************************************************************************)

\* The fields to_envelope reads are of their types.
Sane(op) ==
    /\ op.kind \in Kind /\ op.body \in Body /\ op.actor \in Author /\ op.rest \in Rest
    /\ Range(op.deps) \subseteq Value /\ Range(op.nacks) \subseteq Value
    /\ op.target_fp \in Value \cup {None} /\ op.timestamp \in Value \cup {None}

\* to_envelope builds a tree.
LEMMA TreeOf ==
    ASSUME NEW op, Sane(op)
    PROVE  to_envelope(op) \in Tree
<1>1. ASSUME NEW p \in Predicate, NEW v \in Value
      PROVE  [pred |-> p, val |-> v, salt |-> NoSalt] \in Assertion
  BY DEF Assertion
<1>2. \A p \in Predicate : \A v \in Value \cup {None} : Optional(p, v) \subseteq Assertion
  BY <1>1 DEF Optional
<1>3. \A p \in Predicate : \A vs : Range(vs) \subseteq Value => Repeated(p, vs) \subseteq Assertion
  BY <1>1 DEF Repeated
<1>4. to_envelope(op).asserts \subseteq Assertion
  BY <1>2, <1>3 DEF to_envelope, Sane, Predicate
<1>5. to_envelope(op).core \in Core
  BY DEF to_envelope, Sane, Core
<1>. QED BY <1>4, <1>5 DEF to_envelope, Tree

\* An op a program drafts is sane.
LEMMA DraftSane ==
    ASSUME NEW op \in Draft
    PROVE  Sane(op)
<1>1. op \in Op
  BY ConstantsAssumption
<1>2. \A q \in Seq(Value) : Range(q) \subseteq Value
  BY DEF Range
<1>. QED BY <1>1, <1>2 DEF Op, Sane

\* What the fields of a decoded op are.
LEMMA Decoded ==
    ASSUME NEW e, NEW d \in from_envelope(e)
    PROVE  /\ WellFormed(e)
           /\ d.op.kind = e.core.kind /\ d.op.body = e.core.body
           /\ d.op.actor = e.core.actor /\ d.op.rest = e.core.rest
           /\ d.op.deps \in Listings(VisibleOf(e, "deps"))
           /\ d.op.nacks \in Listings(VisibleOf(e, "nacks"))
           /\ d.op.target_fp \in LastOf(VisibleOf(e, "target-fp"))
           /\ d.op.timestamp \in LastOf(VisibleOf(e, "timestamp"))
           /\ d.signatures = VisibleSigned(e)
           /\ d.elided = Cardinality(e.hidden) + Cardinality(e.hiddenSigned)
           /\ d = [op |-> d.op, signatures |-> d.signatures, elided |-> d.elided]
BY DEF from_envelope

\* The assertions that are visible, by predicate, are finitely many.
LEMMA VisibleFinite ==
    ASSUME NEW e \in Envelope, NEW p
    PROVE  IsFiniteSet(VisibleOf(e, p)) /\ VisibleOf(e, p) \subseteq Assertion
<1>1. VisibleOf(e, p) \in SUBSET Assertion
  BY DEF Envelope, VisibleOf, Visible
<1>. QED BY <1>1, AssertionFinite, FS_Subset

\* A decoded op is sane.
LEMMA DecodedSane ==
    ASSUME NEW e \in Envelope, NEW d \in from_envelope(e)
    PROVE  Sane(d.op)
<1>1. \A p : {x.val : x \in VisibleOf(e, p)} \subseteq Value
  BY VisibleFinite DEF Assertion
<1>2. Range(d.op.deps) \subseteq Value /\ Range(d.op.nacks) \subseteq Value
  BY <1>1, Decoded, VisibleFinite, ListingRange
<1>3. \A p : LastOf(VisibleOf(e, p)) \subseteq Value \cup {None}
  BY <1>1 DEF LastOf
<1>4. e.core \in Core
  BY DEF Envelope
<1>. QED BY <1>2, <1>3, <1>4, Decoded DEF Sane, Core
-----------------------------------------------------------------------------
(***************************************************************************)
(* The invariant.                                                          *)
(***************************************************************************)

\* The part of IInv that speaks of the envelope.
Fits(e, S) ==
    /\ e \in Envelope
    /\ e.hidden \subseteq e.asserts /\ e.hiddenSigned \subseteq e.signed
    /\ e.signed # {} => e.wrapped
    /\ e.signed \subseteq S

\* A tree with signatures on its wrapper fits.
LEMMA SignedFits ==
    ASSUME NEW t \in Tree, NEW S \in SUBSET Signature, NEW R, S \subseteq R
    PROVE  Fits(Signed(t, S), R)
BY DEF Fits, Signed, Tree, Envelope

\* The digest of a tree, or of an envelope, is that tree.
LEMMA DigestTree ==
    /\ \A t \in Tree : Digest(t) \in Tree
    /\ \A e \in Envelope : Digest(e) \in Tree
BY DEF Digest, Tree, Envelope

\* A signature is one, whatever was signed.
LEMMA RawSign ==
    ASSUME NEW a \in Author, NEW scheme \in Scheme, NEW t, Digest(t) \in Tree
    PROVE  raw_sign(a, scheme, t) \in Signature
BY DEF raw_sign, Signature

\* Salting gives a tree.
LEMMA SaltedTree ==
    ASSUME NEW t \in Tree, NEW salt \in Salt
    PROVE  salt_assertions(t, salt) \in Tree
<1>1. \A x \in Assertion : [x EXCEPT !.salt = salt] \in Assertion
  BY DEF Assertion
<1>2. {[x EXCEPT !.salt = salt] : x \in t.asserts} \subseteq Assertion
  BY <1>1 DEF Tree
<1>. QED BY <1>2 DEF salt_assertions, Tree

\* The set of signatures grows by one signature.
LEMMA IssueKeeps ==
    ASSUME IInv, NEW s \in Signature, Issue(s)
    PROVE  issued' \in SUBSET Signature /\ IsFiniteSet(issued') /\ s \in issued'
           /\ issued \subseteq issued'
BY FS_AddElement DEF IInv, TypeOK, Unforged, Issue

\* IInv is the invariant of the envelope and of what was issued.
LEMMA IInvParts ==
    /\ IInv <=> Fits(env, issued) /\ issued \in SUBSET Signature /\ IsFiniteSet(issued)
    /\ IInv' <=> Fits(env', issued') /\ issued' \in SUBSET Signature /\ IsFiniteSet(issued')
BY DEF IInv, TypeOK, Unforged, Fits

\* The first envelope carries no signature.
LEMMA InitIInv == Init => IInv
<1> SUFFICES ASSUME Init PROVE IInv
  OBVIOUS
<1>1. PICK op \in Draft : env = Signed(to_envelope(op), {})
  BY DEF Init
<1>2. to_envelope(op) \in Tree
  BY DraftSane, TreeOf
<1>3. Fits(env, issued)
  BY <1>1, <1>2, SignedFits
<1>. QED BY <1>3, IInvParts, FS_EmptySet DEF Init

\* Every step keeps the invariant.
LEMMA NextIInv == IInv /\ [Next]_vars => IInv'
<1> SUFFICES ASSUME IInv, [Next]_vars PROVE IInv'
  OBVIOUS
<1>0. Fits(env, issued) /\ issued \in SUBSET Signature /\ IsFiniteSet(issued)
  BY IInvParts
<1>1. ASSUME NEW a \in Author, NEW op \in Draft, Sign(a, op) PROVE IInv'
  <2> DEFINE s == raw_sign(a, "ed25519", to_envelope(op))
  <2>1. to_envelope(op) \in Tree
    BY DraftSane, TreeOf
  <2>2. s \in Signature
    BY <2>1, DigestTree, RawSign DEF Scheme
  <2>3. Issue(s) /\ env' = Signed(to_envelope(op), {s})
    BY <1>1 DEF Sign, to_signed_envelope
  <2>4. Fits(env', issued')
    BY <2>1, <2>2, <2>3, IssueKeeps, SignedFits
  <2>. QED BY <2>2, <2>3, <2>4, IssueKeeps, IInvParts
<1>2. ASSUME NEW a \in Author, NEW op \in Draft, NEW salt \in Salt, SignSalted(a, op, salt)
      PROVE  IInv'
  <2> DEFINE t == salt_assertions(to_envelope(op), salt)
             s == raw_sign(a, "ed25519", t)
  <2>1. t \in Tree
    BY DraftSane, TreeOf, SaltedTree
  <2>2. s \in Signature
    BY <2>1, DigestTree, RawSign DEF Scheme
  <2>3. Issue(s) /\ env' = Signed(t, {s})
    BY <1>2 DEF SignSalted
  <2>4. Fits(env', issued')
    BY <2>1, <2>2, <2>3, IssueKeeps, SignedFits
  <2>. QED BY <2>2, <2>3, <2>4, IssueKeeps, IInvParts
<1>3. ASSUME NEW a \in Author, NEW t \in Foreign, SignForeign(a, t) PROVE IInv'
  <2> DEFINE s == raw_sign(a, "ed25519", t)
  <2>1. t \in Tree
    BY ConstantsAssumption
  <2>2. s \in Signature
    BY <2>1, DigestTree, RawSign DEF Scheme
  <2>3. Issue(s) /\ env' = Signed(t, {s})
    BY <1>3 DEF SignForeign
  <2>4. Fits(env', issued')
    BY <2>1, <2>2, <2>3, IssueKeeps, SignedFits
  <2>. QED BY <2>2, <2>3, <2>4, IssueKeeps, IInvParts
<1>4. ASSUME NEW a \in PqAuthor, NEW scheme \in Scheme, SignPq(a, scheme) PROVE IInv'
  <2> DEFINE s == raw_sign(a, scheme, env)
  <2>1. s \in Signature
    BY <1>0, DigestTree, RawSign, ConstantsAssumption DEF Fits
  <2>2. Issue(s) /\ env.wrapped /\ env' = [env EXCEPT !.signed = @ \cup {s}]
    BY <1>4 DEF SignPq
  <2>3. Fits(env', issued')
    BY <1>0, <2>1, <2>2, IssueKeeps DEF Fits, Envelope
  <2>. QED BY <2>1, <2>2, <2>3, IssueKeeps, IInvParts
<1>5. ASSUME NEW a \in Author, CounterSign(a) PROVE IInv'
  <2>1. PICK d \in from_envelope(env) :
          /\ Issue(raw_sign(a, "ed25519", to_envelope(d.op)))
          /\ env' = to_signed_envelope([d EXCEPT !.signatures =
                        @ \cup {raw_sign(a, "ed25519", to_envelope(d.op))}])
    BY <1>5 DEF CounterSign
  <2> DEFINE s == raw_sign(a, "ed25519", to_envelope(d.op))
  <2>2. to_envelope(d.op) \in Tree
    BY <1>0, DecodedSane, TreeOf DEF Fits
  <2>3. s \in Signature
    BY <2>2, DigestTree, RawSign DEF Scheme
  <2>4. env' = Signed(to_envelope(d.op), VisibleSigned(env) \cup {s})
    <3>1. d = [op |-> d.op, signatures |-> d.signatures, elided |-> d.elided]
          /\ d.signatures = VisibleSigned(env)
      BY Decoded
    <3> DEFINE c == [d EXCEPT !.signatures = @ \cup {s}]
    <3>2. c.op = d.op /\ c.signatures = VisibleSigned(env) \cup {s}
      BY <3>1
    <3>. QED BY <2>1, <3>2 DEF to_signed_envelope
  <2>5. VisibleSigned(env) \subseteq issued
    BY <1>0 DEF Fits, VisibleSigned
  <2>6. Fits(env', issued')
    <3>1. s \in issued' /\ issued \subseteq issued' /\ issued' \in SUBSET Signature
      BY <2>1, <2>3, IssueKeeps
    <3>. QED BY <2>2, <2>3, <2>4, <2>5, <3>1, <1>0, SignedFits
  <2>. QED BY <2>1, <2>3, <2>6, IssueKeeps, IInvParts
<1>6. CASE ReEncode
  <2>1. PICK d \in from_envelope(env) : env' = to_signed_envelope(d)
    BY <1>6 DEF ReEncode
  <2>2. to_envelope(d.op) \in Tree
    BY <1>0, DecodedSane, TreeOf DEF Fits
  <2>3. d.signatures \subseteq issued
    BY <1>0, Decoded DEF Fits, VisibleSigned
  <2>4. Fits(env', issued')
    BY <1>0, <1>6, <2>1, <2>2, <2>3, SignedFits DEF ReEncode, to_signed_envelope
  <2>. QED BY <1>0, <1>6, <2>4, IInvParts DEF ReEncode
<1>7. ASSUME NEW x \in env.asserts, Elide(x) PROVE IInv'
  <2>1. Fits(env', issued')
    BY <1>0, <1>7 DEF Elide, Fits, Envelope, Visible
  <2>. QED BY <1>0, <1>7, <2>1, IInvParts DEF Elide
<1>8. ASSUME NEW s \in env.signed, ElideSignature(s) PROVE IInv'
  <2>1. Fits(env', issued')
    BY <1>0, <1>8 DEF ElideSignature, Fits, Envelope, VisibleSigned
  <2>. QED BY <1>0, <1>8, <2>1, IInvParts DEF ElideSignature
<1>9. CASE Spoil
  <2>1. Fits(env', issued')
    BY <1>0, <1>9 DEF Spoil, Fits, Envelope
  <2>. QED BY <1>0, <1>9, <2>1, IInvParts DEF Spoil
<1>10. ASSUME NEW t \in Known, NEW S \in SUBSET issued, Assemble(t, S) PROVE IInv'
  <2>1. t \in Tree
    <3>1. \A d \in Draft : to_envelope(d) \in Tree
      BY DraftSane, TreeOf
    <3>2. \A s \in issued : s.over \in Tree
      BY <1>0 DEF Signature
    <3>. QED BY <3>1, <3>2, ConstantsAssumption DEF Known
  <2>2. Fits(env', issued')
    BY <1>0, <1>10, <2>1, SignedFits DEF Assemble
  <2>. QED BY <1>0, <1>10, <2>2, IInvParts DEF Assemble
<1>11. CASE UNCHANGED vars
  BY <1>0, <1>11, IInvParts DEF vars
<1>. QED
  BY <1>1, <1>2, <1>3, <1>4, <1>5, <1>6, <1>7, <1>8, <1>9, <1>10, <1>11 DEF Next

\* The invariant holds throughout.
THEOREM InductiveInvariant == Spec => []IInv
BY InitIInv, NextIInv, PTL DEF Spec

\* An envelope in hand is well typed, signed only on a wrapper, and elided
\* only in what it has.
THEOREM TypeCorrect == Spec => []TypeOK
<1>1. IInv => TypeOK
  BY DEF IInv
<1>. QED BY <1>1, InductiveInvariant, PTL

-----------------------------------------------------------------------------
(***************************************************************************)
(* What is accepted was signed by its actor.                               *)
(***************************************************************************)

\* A visible signature of an accepted envelope is the actor's, and over the
\* whole tree.
LEMMA AcceptedSigner ==
    ASSUME IInv, NEW pq \in KeyFor(env.core.actor), NEW d \in Accepted(env, pq)
    PROVE  \E s \in issued : s.by = d.op.actor /\ s.over = Digest(env)
<1>1. d \in from_envelope(env) /\ verify_envelope_with_pq_key(env, d.op.actor, pq)
  BY DEF Accepted
<1>2. PICK s \in VisibleSigned(env) :
        /\ s.over = Digest(env)
        /\ IF s.scheme = "ed25519" THEN s.by = d.op.actor
           ELSE pq \in PqAuthor /\ s.scheme = "mldsa87" /\ s.by = pq
  BY <1>1 DEF verify_envelope_with_pq_key, verify_signatures
<1>3. s \in issued
  BY <1>2 DEF VisibleSigned, IInv, Unforged
<1>4. pq \in PqAuthor => pq = env.core.actor
  BY ConstantsAssumption DEF KeyFor
<1>5. d.op.actor = env.core.actor
  BY <1>1, Decoded
<1>. QED BY <1>2, <1>3, <1>4, <1>5

\* What a decoded op shows is in the tree it was decoded from.
LEMMA ShownClaimed ==
    ASSUME NEW e \in Envelope, NEW d \in from_envelope(e)
    PROVE  to_envelope(d.op).asserts \subseteq Claims(Digest(e))
<1> DEFINE says(p, v) == [pred |-> p, val |-> v, salt |-> NoSalt]
<1>1. ASSUME NEW p, NEW x \in VisibleOf(e, p)
      PROVE  says(p, x.val) \in Claims(Digest(e))
  <2>1. x \in e.asserts /\ x.pred = p /\ x \in Assertion
    BY DEF VisibleOf, Visible, Envelope
  <2>2. [x EXCEPT !.salt = NoSalt] = says(p, x.val)
    BY <2>1 DEF Assertion
  <2>. QED BY <2>1, <2>2 DEF Claims, Digest
<1>2. ASSUME NEW p, NEW vs \in Listings(VisibleOf(e, p))
      PROVE  Repeated(p, vs) \subseteq Claims(Digest(e))
  <2>1. Range(vs) = {x.val : x \in VisibleOf(e, p)}
    BY VisibleFinite, ListingRange
  <2>. QED BY <1>1, <2>1 DEF Repeated
<1>3. ASSUME NEW p, NEW v \in LastOf(VisibleOf(e, p))
      PROVE  Optional(p, v) \subseteq Claims(Digest(e))
  BY <1>1 DEF LastOf, Optional
<1>4. /\ Repeated("deps", d.op.deps) \subseteq Claims(Digest(e))
      /\ Repeated("nacks", d.op.nacks) \subseteq Claims(Digest(e))
  BY <1>2, Decoded
<1>5. /\ Optional("target-fp", d.op.target_fp) \subseteq Claims(Digest(e))
      /\ Optional("timestamp", d.op.timestamp) \subseteq Claims(Digest(e))
  BY <1>3, Decoded
<1>. QED BY <1>4, <1>5 DEF to_envelope

\* An op decoded with nothing elided shows whatever its tree says.
LEMMA ClaimedShown ==
    ASSUME NEW e \in Envelope, NEW d \in from_envelope(e), e.hidden = {},
           NEW x \in Claims(Digest(e))
    PROVE  \E y \in to_envelope(d.op).asserts :
               y.pred = x.pred /\ (x.pred \in {"deps", "nacks"} => y = x)
<1>1. PICK z \in e.asserts : x = [z EXCEPT !.salt = NoSalt]
  BY DEF Claims, Digest
<1>2. z \in Assertion
  BY DEF Envelope
<1>3. x = [pred |-> z.pred, val |-> z.val, salt |-> NoSalt]
  BY <1>1, <1>2 DEF Assertion
<1>4. z \in VisibleOf(e, z.pred) /\ z.pred \in Predicate
  BY Decoded DEF VisibleOf, Visible, WellFormed
<1>5. CASE z.pred = "deps"
  <2>1. z.val \in Range(d.op.deps)
    BY <1>4, <1>5, Decoded, VisibleFinite, ListingRange
  <2>. QED BY <1>3, <1>5, <2>1 DEF to_envelope, Repeated
<1>6. CASE z.pred = "nacks"
  <2>1. z.val \in Range(d.op.nacks)
    BY <1>4, <1>6, Decoded, VisibleFinite, ListingRange
  <2>. QED BY <1>3, <1>6, <2>1 DEF to_envelope, Repeated
<1>7. ASSUME NEW p, z.pred = p, NEW v \in LastOf(VisibleOf(e, p))
      PROVE  [pred |-> p, val |-> v, salt |-> NoSalt] \in Optional(p, v)
  <2>1. v \in {y.val : y \in VisibleOf(e, p)}
    BY <1>4, <1>7 DEF LastOf
  <2>2. v \in Value
    BY <2>1, VisibleFinite DEF Assertion
  <2>. QED BY <2>2, ConstantsAssumption DEF Optional
<1>8. CASE z.pred = "target-fp"
  <2>1. [pred |-> "target-fp", val |-> d.op.target_fp, salt |-> NoSalt]
          \in to_envelope(d.op).asserts
    BY <1>7, <1>8, Decoded DEF to_envelope
  <2>. QED BY <1>3, <1>8, <2>1
<1>9. CASE z.pred = "timestamp"
  <2>1. [pred |-> "timestamp", val |-> d.op.timestamp, salt |-> NoSalt]
          \in to_envelope(d.op).asserts
    BY <1>7, <1>9, Decoded DEF to_envelope
  <2>. QED BY <1>3, <1>9, <2>1
<1>. QED BY <1>4, <1>5, <1>6, <1>8, <1>9 DEF Predicate

\* An op reported as complete was decoded from an envelope that hides nothing.
LEMMA NothingHidden ==
    ASSUME IInv, NEW d \in from_envelope(env), d.elided = 0
    PROVE  env.hidden = {} /\ env.hiddenSigned = {}
<1>1. IsFiniteSet(env.hidden)
  <2>1. env.hidden \in SUBSET Assertion
    BY DEF IInv, TypeOK, Envelope
  <2>. QED BY <2>1, AssertionFinite, FS_Subset
<1>2. IsFiniteSet(env.hiddenSigned)
  <2>1. env.hiddenSigned \in SUBSET issued /\ IsFiniteSet(issued)
    BY DEF IInv, TypeOK, Unforged
  <2>. QED BY <2>1, FS_Subset
<1>3. Cardinality(env.hidden) \in Nat /\ Cardinality(env.hiddenSigned) \in Nat
  BY <1>1, <1>2, FS_CardinalityType
<1>4. Cardinality(env.hidden) + Cardinality(env.hiddenSigned) = 0
  BY Decoded
<1>5. Cardinality(env.hidden) = 0 /\ Cardinality(env.hiddenSigned) = 0
  BY <1>3, <1>4
<1>. QED BY <1>1, <1>2, <1>5, FS_EmptySet

\* The invariant gives soundness.
LEMMA SoundFromIInv == IInv => SignedByActor
<1> SUFFICES ASSUME IInv, NEW pq \in KeyFor(env.core.actor), NEW d \in Accepted(env, pq)
             PROVE  \E s \in issued :
                      /\ s.by = d.op.actor
                      /\ CoreOf(s.over.core, d.op)
                      /\ to_envelope(d.op).asserts \subseteq Claims(s.over)
                      /\ d.elided = 0 => \A x \in Claims(s.over) :
                           \E y \in to_envelope(d.op).asserts :
                               y.pred = x.pred /\ (x.pred \in {"deps", "nacks"} => y = x)
  BY DEF SignedByActor
<1>1. PICK s \in issued : s.by = d.op.actor /\ s.over = Digest(env)
  BY AcceptedSigner
<1>2. env \in Envelope /\ d \in from_envelope(env)
  BY DEF IInv, TypeOK, Accepted
<1>3. CoreOf(s.over.core, d.op)
  <2>1. s.over.core = env.core
    BY <1>1 DEF Digest
  <2>2. WellFormed(env)
    BY <1>2, Decoded
  <2>3. env.core.known /\ env.core.whole
    BY <2>2 DEF WellFormed
  <2>4. /\ env.core.kind = d.op.kind /\ env.core.body = d.op.body
        /\ env.core.actor = d.op.actor /\ env.core.rest = d.op.rest
    BY <1>2, Decoded
  <2>5. CoreOf(env.core, d.op)
    BY <2>3, <2>4, Zenon DEF CoreOf
  <2>. QED BY <2>1, <2>5, Zenon
<1>4. to_envelope(d.op).asserts \subseteq Claims(s.over)
  BY <1>1, <1>2, ShownClaimed
<1>5. ASSUME d.elided = 0 PROVE env.hidden = {}
  BY <1>2, <1>5, NothingHidden
<1>. QED BY <1>1, <1>2, <1>3, <1>4, <1>5, ClaimedShown

\* Whatever is elided, re-encoded, counter-signed or put together of parts
\* made for others, decode_and_verify accepts only what the op's actor signed,
\* and reports as complete only what says all that was signed.
THEOREM SignedByActorHolds == Spec => []SignedByActor
BY SoundFromIInv, InductiveInvariant, PTL

-----------------------------------------------------------------------------
(***************************************************************************)
(* Elision.                                                                *)
(***************************************************************************)

\* A redaction that can be read and has a signature left is accepted if the
\* envelope it is made of is.
LEMMA RedactionAccepted ==
    ASSUME NEW e, NEW f, NEW pq, Redaction(e, f), Accepted(e, pq) # {},
           from_envelope(f) # {}, VisibleSigned(f) # {}
    PROVE  Accepted(f, pq) # {}
<1>1. PICK d \in from_envelope(e) : verify_envelope_with_pq_key(e, d.op.actor, pq)
  BY DEF Accepted
<1>2. PICK g \in from_envelope(f) : TRUE
  OBVIOUS
<1>3. f.core = e.core
  BY DEF Redaction, Digest
<1>4. g.op.actor = d.op.actor
  BY <1>1, <1>2, <1>3, Decoded
<1>5. VisibleSigned(f) \subseteq VisibleSigned(e)
  BY DEF Redaction, VisibleSigned
<1>6. verify_envelope_with_pq_key(f, g.op.actor, pq)
  BY <1>1, <1>4, <1>5 DEF verify_envelope_with_pq_key, verify_signatures, Redaction
<1>. QED BY <1>2, <1>6 DEF Accepted

\* Elision never makes an op that verifies one that does not, while it can be
\* read and shows a signature.
THEOREM SurvivesElisionHolds == Spec => SurvivesElision
<1>1. Survives
  BY RedactionAccepted DEF Survives
<1>. QED BY <1>1, PTL DEF SurvivesElision, Spec
-----------------------------------------------------------------------------
(***************************************************************************)
(* Re-encoding.                                                            *)
(***************************************************************************)

\* deps and nacks without salt are encoded as they were read.
LEMMA RepeatedBack ==
    ASSUME NEW e \in Envelope, NEW p, NEW vs \in Listings(VisibleOf(e, p)),
           \A x \in Visible(e) : x.salt = NoSalt
    PROVE  Repeated(p, vs) = VisibleOf(e, p)
<1>1. Range(vs) = {x.val : x \in VisibleOf(e, p)}
  BY VisibleFinite, ListingRange
<1>2. \A x \in VisibleOf(e, p) : x = [pred |-> p, val |-> x.val, salt |-> NoSalt]
  <2>1. ASSUME NEW x \in VisibleOf(e, p)
        PROVE  x = [pred |-> p, val |-> x.val, salt |-> NoSalt]
    <3>1. x \in Assertion /\ x.pred = p /\ x.salt = NoSalt
      BY VisibleFinite DEF VisibleOf
    <3>. QED BY <3>1 DEF Assertion
  <2>. QED BY <2>1
<1>3. Repeated(p, vs) = {[pred |-> p, val |-> v, salt |-> NoSalt] : v \in Range(vs)}
  BY DEF Repeated
<1>. QED BY <1>1, <1>2, <1>3

\* So are target-fp and timestamp where they are not repeated.
LEMMA OptionalBack ==
    ASSUME NEW e \in Envelope, NEW p, NEW v \in LastOf(VisibleOf(e, p)),
           \A x \in Visible(e) : x.salt = NoSalt,
           Cardinality(VisibleOf(e, p)) <= 1
    PROVE  Optional(p, v) = VisibleOf(e, p)
<1> DEFINE A == VisibleOf(e, p)
<1>1. IsFiniteSet(A) /\ A \subseteq Assertion
  BY VisibleFinite
<1>2. \A x \in A : x = [pred |-> p, val |-> x.val, salt |-> NoSalt]
  <2>1. ASSUME NEW x \in A
        PROVE  x = [pred |-> p, val |-> x.val, salt |-> NoSalt]
    <3>1. x \in Assertion /\ x.pred = p /\ x.salt = NoSalt
      BY <1>1 DEF VisibleOf
    <3>. QED BY <3>1 DEF Assertion
  <2>. QED BY <2>1
<1> HIDE DEF A
<1>3. CASE A = {}
  BY <1>3 DEF LastOf, Optional, A
<1>4. CASE A # {}
  <2>1. PICK z \in A : TRUE
    BY <1>4
  <2>2. A = {z}
    <3>1. Cardinality({z}) = 1 /\ {z} \subseteq A
      BY FS_Singleton
    <3>2. Cardinality({z}) <= Cardinality(A) /\ Cardinality(A) \in Nat
      BY <1>1, <3>1, FS_Subset, FS_CardinalityType
    <3>3. Cardinality(A) = Cardinality({z})
      BY <3>1, <3>2 DEF A
    <3>. QED BY <1>1, <3>1, <3>3, FS_Subset
  <2>3. v = z.val
    BY <1>4, <2>2 DEF LastOf, A
  <2>4. v \in Value
    BY <1>1, <2>3 DEF Assertion
  <2>5. Optional(p, v) = {[pred |-> p, val |-> v, salt |-> NoSalt]}
    BY <2>4, ConstantsAssumption DEF Optional
  <2>6. Optional(p, v) = {z}
    BY <1>2, <2>3, <2>5
  <2>. QED BY <2>2, <2>6 DEF A
<1>. QED BY <1>3, <1>4

\* to_envelope of a decoded op is the tree it was decoded from, where the
\* envelope hides nothing and is one this crate writes.
LEMMA SameTree ==
    ASSUME NEW e \in Envelope, NEW d \in from_envelope(e), Profiled(e), e.hidden = {}
    PROVE  to_envelope(d.op) = Digest(e)
<1>1. WellFormed(e) /\ Visible(e) = e.asserts
  BY Decoded DEF Visible
<1>2. to_envelope(d.op).core = e.core
  <2>1. e.core \in Core
    BY DEF Envelope
  <2>2. e.core.known = TRUE /\ e.core.whole = TRUE /\ e.core.extra = FALSE
    BY <1>1, <2>1 DEF WellFormed, Profiled, Core
  <2>3. to_envelope(d.op).core =
          [known |-> e.core.known, whole |-> e.core.whole, extra |-> e.core.extra,
           kind |-> e.core.kind, body |-> e.core.body, actor |-> e.core.actor,
           rest |-> e.core.rest]
    BY <2>2, Decoded DEF to_envelope
  <2>. QED BY <2>1, <2>3 DEF Core
<1>3. \A x \in Visible(e) : x.salt = NoSalt
  BY DEF Profiled
<1>4. /\ Repeated("deps", d.op.deps) = VisibleOf(e, "deps")
      /\ Repeated("nacks", d.op.nacks) = VisibleOf(e, "nacks")
  BY <1>3, Decoded, RepeatedBack
<1>5. /\ Cardinality(VisibleOf(e, "target-fp")) <= 1
      /\ Cardinality(VisibleOf(e, "timestamp")) <= 1
  BY DEF Profiled
<1>6. /\ Optional("target-fp", d.op.target_fp) = VisibleOf(e, "target-fp")
      /\ Optional("timestamp", d.op.timestamp) = VisibleOf(e, "timestamp")
  BY <1>3, <1>5, Decoded, OptionalBack
<1>7. e.asserts = VisibleOf(e, "deps") \cup VisibleOf(e, "nacks")
                    \cup VisibleOf(e, "target-fp") \cup VisibleOf(e, "timestamp")
  BY <1>1 DEF WellFormed, VisibleOf, Predicate
<1>8. to_envelope(d.op).asserts = e.asserts
  BY <1>4, <1>6, <1>7 DEF to_envelope
<1>9. to_envelope(d.op) = [core |-> to_envelope(d.op).core,
                           asserts |-> to_envelope(d.op).asserts]
  BY DEF to_envelope
<1>. QED BY <1>2, <1>8, <1>9 DEF Digest

\* The invariant gives stability.
LEMMA StableFromIInv == IInv => ByteStable
<1> SUFFICES ASSUME IInv, NEW d \in from_envelope(env), Profiled(env), d.elided = 0
             PROVE  /\ to_signed_envelope(d) = env
                    /\ \A pq \in KeyFor(d.op.actor) :
                         verify_with_pq_key(d, pq)
                           <=> verify_envelope_with_pq_key(env, d.op.actor, pq)
  BY DEF ByteStable
<1>1. env \in Envelope /\ (env.signed # {} => env.wrapped)
  BY DEF IInv, TypeOK
<1>2. env.hidden = {} /\ env.hiddenSigned = {}
  BY NothingHidden
<1>3. to_envelope(d.op) = Digest(env)
  BY <1>1, <1>2, SameTree
<1>4. d.signatures = env.signed /\ VisibleSigned(env) = env.signed /\ WellFormed(env)
  BY <1>2, Decoded DEF VisibleSigned
<1>5. to_signed_envelope(d) = env
  <2>1. env.wrapped = (env.signed # {}) /\ env.spoiled = FALSE
    <3>1. env.wrapped \in BOOLEAN /\ env.spoiled \in BOOLEAN
      BY <1>1 DEF Envelope
    <3>2. env.wrapped <=> env.signed # {}
      BY <1>1 DEF Profiled
    <3>3. ~ env.spoiled
      BY <1>4 DEF WellFormed
    <3>. QED BY <3>1, <3>2, <3>3
  <2>2. to_signed_envelope(d) =
          [core |-> env.core, asserts |-> env.asserts, hidden |-> env.hidden,
           wrapped |-> env.wrapped, signed |-> env.signed,
           hiddenSigned |-> env.hiddenSigned, spoiled |-> env.spoiled]
    <3>1. Digest(env).core = env.core /\ Digest(env).asserts = env.asserts
      BY DEF Digest
    <3>2. to_signed_envelope(d) =
            [core |-> env.core, asserts |-> env.asserts, hidden |-> {},
             wrapped |-> env.signed # {}, signed |-> env.signed,
             hiddenSigned |-> {}, spoiled |-> FALSE]
      BY <1>3, <1>4, <3>1, Zenon DEF to_signed_envelope, Signed
    <3>. QED BY <1>2, <2>1, <3>2, Zenon
  <2>. QED BY <1>1, <2>2 DEF Envelope
<1>6. ASSUME NEW pq
      PROVE  verify_with_pq_key(d, pq)
               <=> verify_envelope_with_pq_key(env, d.op.actor, pq)
  <2>1. Digest(Digest(env)) = Digest(env)
    BY DEF Digest
  <2>2. Encodable(d.op)
    BY <1>4, Decoded DEF WellFormed, Encodable
  <2>3. from_envelope(env) # {}
    OBVIOUS
  <2>. QED BY <1>3, <1>4, <2>1, <2>2, <2>3
          DEF verify_with_pq_key, verify_envelope_with_pq_key
<1>. QED BY <1>5, <1>6

\* Whatever hands an envelope has been through, if it is one this crate writes
\* and nothing of it is elided, encode_signed reproduces it exactly, and
\* SignedOp::verify and verify_envelope give the same verdict.
THEOREM ByteStableHolds == Spec => []ByteStable
BY StableFromIInv, InductiveInvariant, PTL
=============================================================================
