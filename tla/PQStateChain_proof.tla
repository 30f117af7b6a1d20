------------------------- MODULE PQStateChain_proof -------------------------
(***************************************************************************)
(* Proofs about PQStateChain for every set of verifiers, keys, records and *)
(* signers.  The inductive invariant is the conjunction of TypeOK,         *)
(* HeadAuthorised, MemoryConsistent and Accountability: a verifier only    *)
(* keeps its head and the parent's key, so what it knows of the chain has  *)
(* to be carried by the signatures that exist.                             *)
(***************************************************************************)
EXTENDS PQStateChain, TLAPS

\* What observe (state.rs) can do to a trust value, one disjunct per way out.
Accepts1(t, u, d, sigs, elect, sound) ==
    /\ t.head = NoDigest /\ Rec[d].seq = 1
    /\ Rec[d].control \in sigs.pq
    /\ u.head = d /\ u.parent = t.parent /\ u.forked = FALSE
    /\ \/ u.anchor = t.anchor /\ t.anchor = d
       \/ u.anchor = t.anchor /\ Rec[d].xid = XidFor[Rec[d].control]
       \/ u.anchor = d /\ sound /\ elect # NoElect /\ sigs.classical = elect
          /\ t.anchor = NoDigest

Rotates(t, u, d, sigs) ==
    /\ t.head # NoDigest /\ ExtendsHead(t, d)
    /\ d # t.head
    /\ check_rotation(d, Rec[t.head].xid, Rec[t.head].control, sigs)
    /\ u = Advance(t, d)

Forks(t, u, d, sigs) ==
    /\ t.head # NoDigest /\ SiblingOfHead(t, d)
    /\ d # t.head
    /\ check_rotation(d, Rec[t.head].xid, t.parent.control, sigs)
    /\ u = [t EXCEPT !.forked = TRUE]

\* Every result of observe (state.rs) is the old trust or one of the three.
LEMMA ObserveOutcome ==
    ASSUME NEW t \in TrustRec, NEW d \in Digest, NEW sigs \in Signatures,
           NEW elect \in Elect \cup {NoElect}, NEW sound \in BOOLEAN,
           NEW u, u = observe(t, d, sigs, elect, sound)
    PROVE  \/ u = t
           \/ ~t.forked /\ Accepts1(t, u, d, sigs, elect, sound)
           \/ ~t.forked /\ Rotates(t, u, d, sigs)
           \/ ~t.forked /\ Forks(t, u, d, sigs)
  <1>1. CASE t.forked \/ ~WellFormed(d)
    BY <1>1 DEF observe
  <1>2. CASE ~t.forked /\ WellFormed(d) /\ t.head # NoDigest
    <2>1. u = IF d = t.head \/ Rec[d].seq = 1 THEN t ELSE successor(t, d, sigs)
      BY <1>2 DEF observe
    <2>2. CASE d = t.head \/ Rec[d].seq = 1
      BY <2>1, <2>2
    <2>3. CASE ~(d = t.head \/ Rec[d].seq = 1)
      <3>1. u = successor(t, d, sigs)
        BY <2>1, <2>3
      <3>2. CASE ExtendsHead(t, d)
        BY <3>1, <3>2, <1>2, <2>3 DEF successor, Rotates
      <3>3. CASE ~ExtendsHead(t, d) /\ SiblingOfHead(t, d)
        BY <3>1, <3>3, <1>2, <2>3 DEF successor, Forks
      <3>4. CASE ~ExtendsHead(t, d) /\ ~SiblingOfHead(t, d)
        BY <3>1, <3>4 DEF successor
      <3> QED BY <3>2, <3>3, <3>4
    <2> QED BY <2>2, <2>3
  <1>3. CASE ~t.forked /\ WellFormed(d) /\ t.head = NoDigest
    <2>1. u = IF Rec[d].seq # 1 THEN t
              ELSE first_record(t, d, sigs, elect, sound)
      BY <1>3 DEF observe
    <2>2. CASE Rec[d].seq # 1
      BY <2>1, <2>2
    <2>3. CASE Rec[d].seq = 1
      <3>1. u = first_record(t, d, sigs, elect, sound)
        BY <2>1, <2>3
      <3>2. CASE t.anchor # NoDigest
        BY <3>1, <3>2, <1>3, <2>3
           DEF first_record, Accepts1, check_migration_sigs, pq_signed, TrustRec
      <3>3. CASE t.anchor = NoDigest /\ Rec[d].xid = XidFor[Rec[d].control]
        BY <3>1, <3>3, <1>3, <2>3
           DEF first_record, Accepts1, pq_signed, TrustRec
      <3>4. CASE t.anchor = NoDigest /\ Rec[d].xid # XidFor[Rec[d].control]
        BY <3>1, <3>4, <1>3, <2>3
           DEF first_record, Accepts1, check_migration_sigs, pq_signed, TrustRec
      <3> QED BY <3>2, <3>3, <3>4
    <2> QED BY <2>2, <2>3
  <1> QED BY <1>1, <1>2, <1>3

\* observe (state.rs) maps trust values to trust values.
LEMMA ObserveType ==
    ASSUME NEW t \in TrustRec, NEW d \in Digest, NEW sigs \in Signatures,
           NEW elect \in Elect \cup {NoElect}, NEW sound \in BOOLEAN
    PROVE  observe(t, d, sigs, elect, sound) \in TrustRec
  <1> DEFINE u == observe(t, d, sigs, elect, sound)
  <1>1. t.head # NoDigest => Advance(t, d) \in TrustRec
    BY RecAssumption DEF Advance, TrustRec, ParentRec
  <1>2. [t EXCEPT !.forked = TRUE] \in TrustRec
    BY DEF TrustRec
  <1>3. successor(t, d, sigs) \in TrustRec \/ t.head = NoDigest
    BY <1>1, <1>2 DEF successor
  <1>4. [t EXCEPT !.head = d] \in TrustRec /\ [t EXCEPT !.head = d, !.anchor = d] \in TrustRec
    BY DEF TrustRec
  <1>5. first_record(t, d, sigs, elect, sound) \in TrustRec
    BY <1>4 DEF first_record
  <1>6. CASE t.forked \/ ~WellFormed(d)
    BY <1>6 DEF observe
  <1>7. CASE ~t.forked /\ WellFormed(d) /\ t.head # NoDigest
    BY <1>7, <1>3 DEF observe
  <1>8. CASE ~t.forked /\ WellFormed(d) /\ t.head = NoDigest
    BY <1>8, <1>5 DEF observe
  <1> QED BY <1>6, <1>7, <1>8

-----------------------------------------------------------------------------
(* Signatures are never withdrawn, so what they authorise stays authorised. *)

\* No step removes a signature (they are public once made).
LEMMA SignaturesGrow ==
    [Next]_vars => pqSigned \subseteq pqSigned' /\ elSigned \subseteq elSigned'
  BY DEF Next, vars, SignPq, SignElect, ForgeElect, BreakClassical,
         RetainAnchor, Observe

\* Links, rooted first records and splits survive every step.
LEMMA AuthorityGrows ==
    ASSUME [Next]_vars
    PROVE  /\ \A d \in Digest : Rooted(d) => Rooted(d)'
           /\ \A p, d : Linked(p, d) => Linked(p, d)'
           /\ \A x : SplitAt(x) => SplitAt(x)'
  <1>1. pqSigned \subseteq pqSigned' /\ elSigned \subseteq elSigned'
    BY SignaturesGrow
  <1>2. \A d \in Digest : Rooted(d) => Rooted(d)'
    BY <1>1 DEF Rooted, Signed
  <1>3. \A p, d : Linked(p, d) => Linked(p, d)'
    BY <1>1 DEF Linked, Signed
  <1>4. \A x : SplitAt(x) => SplitAt(x)'
    BY <1>2, <1>3 DEF SplitAt
  <1> QED BY <1>2, <1>3, <1>4

-----------------------------------------------------------------------------
(* Type correctness. *)

\* Every reachable state of the verifiers and the signatures is well typed.
THEOREM TypeCorrect == Spec => []TypeOK
  <1>1. Init => TypeOK
    <2>1. NewTrust \in TrustRec
      BY DEF NewTrust, with_anchor, TrustRec
    <2>2. <<>> \in Seq(Digest)
      OBVIOUS
    <2> QED BY <2>1, <2>2 DEF Init, TypeOK
  <1>2. TypeOK /\ [Next]_vars => TypeOK'
    <2> SUFFICES ASSUME TypeOK, [Next]_vars PROVE TypeOK'
      OBVIOUS
    <2>1. ASSUME NEW k \in Key, NEW d \in Digest, SignPq(k, d) PROVE TypeOK'
      BY <2>1 DEF TypeOK, SignPq
    <2>2. ASSUME NEW el \in Elect, NEW d \in Digest, SignElect(el, d) PROVE TypeOK'
      BY <2>2 DEF TypeOK, SignElect
    <2>3. ASSUME NEW el \in Elect, NEW d \in Digest, ForgeElect(el, d) PROVE TypeOK'
      BY <2>3 DEF TypeOK, ForgeElect
    <2>4. CASE BreakClassical
      BY <2>4 DEF TypeOK, BreakClassical
    <2>5. ASSUME NEW v \in Verifier, NEW w \in Verifier, RetainAnchor(v, w)
          PROVE TypeOK'
      <3>1. with_anchor(trust[w].anchor) \in TrustRec
        BY DEF TypeOK, with_anchor, TrustRec
      <3> QED BY <2>5, <3>1 DEF TypeOK, RetainAnchor
    <2>6. ASSUME NEW v \in Verifier, NEW d \in Digest, NEW sigs \in Signatures,
                 NEW elect \in Elect \cup {NoElect}, NEW sound \in BOOLEAN,
                 Observe(v, d, sigs, elect, sound)
          PROVE TypeOK'
      <3>1. observe(trust[v], d, sigs, elect, sound) \in TrustRec
        BY ObserveType DEF TypeOK
      <3>2. Append(chain[v], d) \in Seq(Digest)
        BY DEF TypeOK
      <3> QED BY <2>6, <3>1, <3>2 DEF TypeOK, Observe
    <2>7. CASE UNCHANGED vars
      BY <2>7 DEF TypeOK, vars
    <2> QED BY <2>1, <2>2, <2>3, <2>4, <2>5, <2>6, <2>7 DEF Next
  <1> QED BY <1>1, <1>2, PTL DEF Spec

-----------------------------------------------------------------------------
(* The head is authorised, and the verifier's memory is consistent with it. *)

\* Nobody forges a classical signature while they are sound.
ForgeryLate == ~broken => forged = {}

ChainInv == TypeOK /\ HeadAuthorised /\ MemoryConsistent /\ ForgeryLate

\* The two parts of the invariant for one verifier.
HeadOK(v) ==
    LET c == chain[v] IN
    IF c = <<>> THEN trust[v].head = NoDigest
    ELSE /\ trust[v].head = c[Len(c)]
         /\ Rooted(c[1])
         /\ \A i \in 2 .. Len(c) :
                Linked(c[i - 1], c[i]) /\ Rec[c[i]].xid = Rec[c[1]].xid

MemoryOK(v) ==
    LET t == trust[v] IN
    /\ t.parent # NoParent =>
           /\ t.head # NoDigest
           /\ Linked(t.parent.prev, t.head)
           /\ t.parent.control = Rec[t.parent.prev].control
           /\ t.parent.seq = Rec[t.head].seq
    /\ t.anchor # NoDigest =>
           \E el \in Elect : <<el, t.anchor>> \in elSigned
    /\ t.forked => t.head # NoDigest

\* A verifier whose trust and chain a step leaves alone keeps both parts.
LEMMA Untouched ==
    ASSUME TypeOK, [Next]_vars, NEW w \in Verifier, HeadOK(w), MemoryOK(w),
           trust'[w] = trust[w], chain'[w] = chain[w]
    PROVE  HeadOK(w)' /\ MemoryOK(w)'
  <1>1. HeadOK(w)'
    BY AuthorityGrows DEF HeadOK, TypeOK
  <1>2. MemoryOK(w)'
    BY AuthorityGrows, SignaturesGrow DEF MemoryOK
  <1> QED BY <1>1, <1>2

\* A verifier that observes a record keeps both parts, whatever observe
\* (state.rs) answers.
LEMMA Observer ==
    ASSUME TypeOK, ForgeryLate, [Next]_vars,
           NEW v \in Verifier, HeadOK(v), MemoryOK(v),
           NEW d \in Digest, NEW sigs \in Signatures,
           NEW elect \in Elect \cup {NoElect}, NEW sound \in BOOLEAN,
           Observe(v, d, sigs, elect, sound)
    PROVE  HeadOK(v)' /\ MemoryOK(v)'
  <1> DEFINE t == trust[v]
             u == observe(t, d, sigs, elect, sound)
             c == chain[v]
  <1>1. t \in TrustRec /\ c \in Seq(Digest)
    BY DEF TypeOK
  <1>2. trust'[v] = u /\ (u.head = t.head => chain'[v] = c)
        /\ (u.head # t.head => chain'[v] = Append(c, d))
    BY DEF Observe, TypeOK
  <1>3. \A k \in sigs.pq : <<k, d>> \in pqSigned
    BY DEF Observe
  <1>4. pqSigned' = pqSigned /\ elSigned' = elSigned
    BY DEF Observe
  <1>5. CASE u = t
    BY <1>5, <1>2, Untouched
  <1>6. CASE Accepts1(t, u, d, sigs, elect, sound)
    <2>1. c = <<>>
      BY <1>6, <1>1, NoneAssumption DEF Accepts1, HeadOK
    <2>2. chain'[v] = <<d>> /\ u.head = d
      BY <1>6, <1>2, <2>1, NoneAssumption DEF Accepts1
    <2>3. u.anchor # NoDigest => \E el \in Elect : <<el, u.anchor>> \in elSigned
      <3>1. CASE u.anchor = t.anchor
        BY <3>1 DEF MemoryOK
      <3>2. CASE u.anchor = d /\ sound /\ elect # NoElect /\ sigs.classical = elect
        BY <3>2 DEF Observe, ForgeryLate
      <3> QED BY <1>6, <3>1, <3>2 DEF Accepts1
    <2>4. Rooted(d)
      BY <1>6, <1>3, <2>3, NoneAssumption DEF Accepts1, Rooted, Signed
    <2>5. HeadOK(v)'
      BY <2>2, <2>4, <1>2, AuthorityGrows DEF HeadOK
    <2>6. t.parent = NoParent
      BY <1>6 DEF Accepts1, MemoryOK
    <2>7. MemoryOK(v)'
      BY <2>2, <2>3, <2>6, <1>2, <1>4, <1>6, NoneAssumption DEF Accepts1, MemoryOK
    <2> QED BY <2>5, <2>7
  <1>7. CASE Rotates(t, u, d, sigs)
    <2>1. c # <<>> /\ t.head = c[Len(c)] /\ t.head \in Digest
      BY <1>7, <1>1 DEF Rotates, HeadOK, TrustRec
    <2>2. Linked(t.head, d)
      BY <1>7, <1>3, <2>1 DEF Rotates, ExtendsHead, check_rotation, pq_signed,
                              Linked, Signed
    <2>3. u.head = d /\ u.anchor = t.anchor /\ u.forked = FALSE
          /\ u.parent = [control |-> Rec[t.head].control, prev |-> t.head,
                         seq |-> Rec[d].seq]
      BY <1>7 DEF Rotates, Advance
    <2>4. chain'[v] = Append(c, d)
      BY <1>2, <1>7, <2>3 DEF Rotates
    <2>5. HeadOK(v)'
      <3>1. Len(c) \in Nat \ {0}
        BY <1>1, <2>1
      <3>2. /\ Len(Append(c, d)) = Len(c) + 1
            /\ Append(c, d)[Len(c) + 1] = d
            /\ \A i \in 1 .. Len(c) : Append(c, d)[i] = c[i]
            /\ Append(c, d) # <<>>
        BY <1>1
      <3>3. Rooted(c[1]) /\ \A i \in 2 .. Len(c) :
                Linked(c[i - 1], c[i]) /\ Rec[c[i]].xid = Rec[c[1]].xid
        BY <2>1 DEF HeadOK
      <3>4. \A i \in 2 .. Len(c) + 1 :
                /\ Linked(Append(c, d)[i - 1], Append(c, d)[i])
                /\ Rec[Append(c, d)[i]].xid = Rec[c[1]].xid
        <4> TAKE i \in 2 .. Len(c) + 1
        <4>1. CASE i = Len(c) + 1
          <5>1. Rec[c[Len(c)]].xid = Rec[c[1]].xid
            BY <3>1, <3>3
          <5> QED BY <5>1, <4>1, <3>1, <3>2, <2>1, <2>2 DEF Linked
        <4>2. CASE i \in 2 .. Len(c)
          <5>1. i \in 1 .. Len(c) /\ i - 1 \in 1 .. Len(c)
            BY <4>2, <3>1
          <5> QED BY <5>1, <4>2, <3>2, <3>3
        <4> QED BY <4>1, <4>2, <3>1
      <3>5. Append(c, d)[1] = c[1] /\ c[1] \in Digest
        BY <1>1, <3>1, <3>2
      <3>6. trust'[v].head = chain'[v][Len(chain'[v])] /\ chain'[v] # <<>>
        BY <1>2, <2>3, <2>4, <3>2
      <3>7. Rooted(chain[v][1])'
        BY <2>4, <3>3, <3>5, AuthorityGrows
      <3>8. (\A i \in 2 .. Len(chain[v]) :
                 /\ Linked(chain[v][i - 1], chain[v][i])
                 /\ Rec[chain[v][i]].xid = Rec[chain[v][1]].xid)'
        BY <2>4, <3>2, <3>4, <3>5, AuthorityGrows
      <3> QED BY <3>6, <3>7, <3>8 DEF HeadOK
    <2>6. MemoryOK(v)'
      BY <1>2, <1>4, <2>1, <2>2, <2>3, AuthorityGrows, NoneAssumption DEF MemoryOK
    <2> QED BY <2>5, <2>6
  <1>8. CASE Forks(t, u, d, sigs)
    <2>1. u.head = t.head /\ u.anchor = t.anchor /\ u.parent = t.parent
          /\ t.head # NoDigest
      BY <1>8, <1>1 DEF Forks, TrustRec
    <2>2. HeadOK(v)'
      BY <2>1, <1>1, <1>2, AuthorityGrows DEF HeadOK
    <2>3. MemoryOK(v)'
      BY <2>1, <1>2, <1>4, AuthorityGrows DEF MemoryOK
    <2> QED BY <2>2, <2>3
  <1> QED BY <1>1, <1>5, <1>6, <1>7, <1>8, ObserveOutcome

\* The invariant of one verifier's head and memory is inductive.
LEMMA ChainInductive == Spec => []ChainInv
  <1>1. Init => ChainInv
    <2> SUFFICES ASSUME Init PROVE ChainInv
      OBVIOUS
    <2>1. TypeOK
      <3>1. NewTrust \in TrustRec
        BY DEF NewTrust, with_anchor, TrustRec
      <3>2. <<>> \in Seq(Digest)
        OBVIOUS
      <3> QED BY <3>1, <3>2 DEF Init, TypeOK
    <2>2. HeadAuthorised
      BY DEF Init, HeadAuthorised, NewTrust, with_anchor
    <2>3. MemoryConsistent /\ ForgeryLate
      BY DEF Init, MemoryConsistent, NewTrust, with_anchor, ForgeryLate
    <2> QED BY <2>1, <2>2, <2>3 DEF ChainInv
  <1>2. ChainInv /\ TypeOK' /\ [Next]_vars => ChainInv'
    <2> SUFFICES ASSUME ChainInv, TypeOK', [Next]_vars PROVE ChainInv'
      OBVIOUS
    <2>1. TypeOK /\ ForgeryLate /\ \A w \in Verifier : HeadOK(w) /\ MemoryOK(w)
      BY DEF ChainInv, HeadAuthorised, MemoryConsistent, HeadOK, MemoryOK
    <2>2. ForgeryLate'
      <3>1. \/ UNCHANGED <<broken, forged>> \/ broken'
        <4>1. ASSUME NEW el \in Elect, NEW d \in Digest, ForgeElect(el, d)
              PROVE  broken'
          <5>1. broken' = broken
            BY <4>1 DEF ForgeElect
          <5>2. broken
            BY <4>1 DEF ForgeElect
          <5> QED BY <5>1, <5>2, Zenon
        <4>2. BreakClassical => broken'
          BY Zenon DEF BreakClassical
        <4>3. \/ \E el \in Elect, d \in Digest : ForgeElect(el, d)
              \/ BreakClassical
              \/ UNCHANGED <<broken, forged>>
          BY DEF Next, vars, SignPq, SignElect, RetainAnchor, Observe
        <4> QED BY <4>1, <4>2, <4>3
      <3> QED BY <3>1, <2>1 DEF ForgeryLate
    <2>3. \A w \in Verifier : HeadOK(w)' /\ MemoryOK(w)'
      <3>1. CASE trust' = trust /\ chain' = chain
        BY <3>1, <2>1, Untouched
      <3>2. ASSUME NEW v \in Verifier, NEW x \in Verifier, RetainAnchor(v, x)
            PROVE  \A w \in Verifier : HeadOK(w)' /\ MemoryOK(w)'
        <4> TAKE w \in Verifier
        <4>1. CASE w # v
          BY <4>1, <3>2, <2>1, Untouched DEF RetainAnchor, TypeOK
        <4>2. CASE w = v
          <5>1. trust'[v] = with_anchor(trust[x].anchor) /\ trust[v] = NewTrust
                /\ chain' = chain /\ elSigned' = elSigned
            BY <3>2, <2>1 DEF RetainAnchor, TypeOK
          <5>2. trust[v].head = NoDigest
            BY <5>1 DEF NewTrust, with_anchor
          <5>3. chain[v] = <<>>
            <6>1. HeadOK(v) /\ chain[v] \in Seq(Digest)
              BY <2>1 DEF TypeOK
            <6>2. chain[v] # <<>> => chain[v][Len(chain[v])] \in Digest
              BY <6>1
            <6> QED BY <5>2, <6>1, <6>2, NoneAssumption DEF HeadOK
          <5>4. HeadOK(v)'
            BY <5>1, <5>3 DEF HeadOK, with_anchor
          <5>5. MemoryOK(v)'
            BY <5>1, <2>1 DEF MemoryOK, with_anchor
          <5> QED BY <4>2, <5>4, <5>5
        <4> QED BY <4>1, <4>2
      <3>3. ASSUME NEW v \in Verifier, NEW d \in Digest, NEW sigs \in Signatures,
                   NEW elect \in Elect \cup {NoElect}, NEW sound \in BOOLEAN,
                   Observe(v, d, sigs, elect, sound)
            PROVE  \A w \in Verifier : HeadOK(w)' /\ MemoryOK(w)'
        <4> TAKE w \in Verifier
        <4>1. CASE w # v
          <5>1. trust'[w] = trust[w] /\ chain'[w] = chain[w]
            BY <4>1, <3>3, <2>1 DEF Observe, TypeOK
          <5> QED BY <5>1, <2>1, Untouched
        <4>2. CASE w = v
          BY <4>2, <3>3, <2>1, Observer
        <4> QED BY <4>1, <4>2
      <3> QED
        BY <3>1, <3>2, <3>3 DEF Next, vars, SignPq, SignElect, ForgeElect,
                                BreakClassical
    <2> QED
      BY <2>2, <2>3 DEF ChainInv, HeadAuthorised, MemoryConsistent, HeadOK, MemoryOK
  <1> QED BY <1>1, <1>2, TypeCorrect, PTL DEF Spec

\* The head of every verifier is authorised back to a genuine first record.
THEOREM HeadAuthorisedAlways == Spec => [](HeadAuthorised /\ MemoryConsistent)
  <1>1. ChainInv => HeadAuthorised /\ MemoryConsistent
    BY DEF ChainInv
  <1> QED BY <1>1, ChainInductive, PTL

-----------------------------------------------------------------------------
(* Accountability: by induction on steps, one extension at a time. *)

\* Appending keeps two chains in agreement unless they differ just there.
LEMMA AgreeExtend ==
    ASSUME NEW c \in Seq(Digest), NEW e \in Seq(Digest), NEW d \in Digest,
           Agree(c, e), Len(e) > Len(c) => e[Len(c) + 1] = d
    PROVE  Agree(Append(c, d), e) /\ Agree(e, Append(c, d))
  BY DEF Agree

\* Agreement does not depend on the order of the two chains.
LEMMA AgreeSymmetric ==
    ASSUME NEW c \in Seq(Digest), NEW e \in Seq(Digest), Agree(c, e)
    PROVE  Agree(e, c)
  BY DEF Agree

AccountablePair(v, w) ==
    /\ chain[v] # <<>> /\ chain[w] # <<>>
    /\ Rec[chain[v][1]].xid = Rec[chain[w][1]].xid
    => \/ Agree(chain[v], chain[w])
       \/ SplitAt(Rec[chain[v][1]].xid)

\* Chain c of v grows by d, which v has accepted; chain e of w stands still.
LEMMA PairExtend ==
    ASSUME [Next]_vars, NEW v \in Verifier, NEW w \in Verifier, NEW d \in Digest,
           NEW c \in Seq(Digest), NEW e \in Seq(Digest), NEW x \in Xid,
           e # <<>>, Rec[e[1]].xid = x, Rec[Append(c, d)[1]].xid = x,
           chain'[v] = Append(c, d), chain'[w] = e, HeadOK(v)', HeadOK(w)',
           c # <<>> => Agree(c, e) \/ SplitAt(x)
    PROVE  \/ Agree(Append(c, d), e) /\ Agree(e, Append(c, d))
           \/ SplitAt(x)'
  <1>2. /\ Len(Append(c, d)) = Len(c) + 1
        /\ Append(c, d)[Len(c) + 1] = d
        /\ \A i \in 1 .. Len(c) : Append(c, d)[i] = c[i]
        /\ Append(c, d) # <<>> /\ Len(c) \in Nat
    OBVIOUS
  <1>3. /\ Rooted(Append(c, d)[1])'
        /\ \A i \in 2 .. Len(c) + 1 :
               /\ Linked(Append(c, d)[i - 1], Append(c, d)[i])'
               /\ Rec[Append(c, d)[i]].xid = x
    BY <1>2 DEF HeadOK
  <1>4. /\ Rooted(e[1])'
        /\ \A i \in 2 .. Len(e) : Linked(e[i - 1], e[i])' /\ Rec[e[i]].xid = x
    BY DEF HeadOK
  <1>5. CASE c = <<>>
    <2>1. Append(c, d)[1] = d /\ Len(c) = 0
      BY <1>5, <1>2
    <2>2. e[1] \in Digest
      OBVIOUS
    <2>3. CASE e[1] = d
      <3>1. Agree(c, e)
        BY <2>1 DEF Agree
      <3>2. e[Len(c) + 1] = d
        BY <2>1, <2>3
      <3> QED BY <3>1, <3>2, AgreeExtend
    <2>4. CASE e[1] # d
      <3>1. Rooted(d)' /\ Rooted(e[1])' /\ Rec[d].xid = x
        BY <2>1, <1>3, <1>4
      <3>2. PICK y \in Digest : y = e[1]
        BY <2>2
      <3>3. Rooted(y)' /\ d # y /\ Rec[y].xid = x
        BY <3>1, <3>2, <2>4
      <3> QED BY <3>1, <3>3 DEF SplitAt
    <2> QED BY <2>3, <2>4
  <1>6. CASE c # <<>>
    <2>1. Len(c) \in Nat \ {0}
      BY <1>6
    <2>2. CASE SplitAt(x)
      BY <2>2, AuthorityGrows
    <2>3. CASE Agree(c, e) /\ (Len(e) > Len(c) => e[Len(c) + 1] = d)
      BY <2>3, AgreeExtend
    <2>4. CASE Agree(c, e) /\ Len(e) > Len(c) /\ e[Len(c) + 1] # d
      <3> DEFINE n == Len(c)
      <3>1. c[n] = e[n] /\ n \in 1 .. n /\ n + 1 \in 2 .. Len(e)
            /\ e[n + 1] \in Digest /\ c[n] \in Digest
        BY <2>1, <2>4 DEF Agree
      <3>2. Linked(e[n], e[n + 1])' /\ Rec[e[n + 1]].xid = x
        <4>1. (n + 1) - 1 = n
          BY <1>2
        <4> QED BY <3>1, <1>4, <4>1
      <3>3. Linked(c[n], d)' /\ Rec[d].xid = x
        <4>1. (n + 1) - 1 = n /\ n + 1 \in 2 .. n + 1
          BY <2>1
        <4>2. Append(c, d)[n] = c[n] /\ Append(c, d)[n + 1] = d
          BY <1>2, <3>1
        <4> QED BY <4>1, <4>2, <1>3
      <3>4. Linked(c[n], e[n + 1])'
        BY <3>1, <3>2
      <3> QED BY <3>1, <3>2, <3>3, <3>4, <2>4 DEF SplitAt
    <2> QED BY <2>2, <2>3, <2>4, <1>6
  <1> QED BY <1>5, <1>6

\* Two verifiers on different branches implicate a signer: Accountability holds
\* in every reachable state.
THEOREM AccountabilityAlways == Spec => []Accountability
  <1>1. Init => Accountability
    BY DEF Init, Accountability
  <1>2. ChainInv /\ ChainInv' /\ Accountability /\ [Next]_vars => Accountability'
    <2> SUFFICES ASSUME ChainInv, ChainInv', Accountability, [Next]_vars,
                        NEW v \in Verifier, NEW w \in Verifier
                 PROVE  AccountablePair(v, w)'
      BY DEF Accountability, AccountablePair
    <2>1. /\ TypeOK /\ TypeOK' /\ HeadOK(v)' /\ HeadOK(w)'
          /\ AccountablePair(v, w) /\ AccountablePair(w, v)
      BY DEF ChainInv, HeadAuthorised, HeadOK, Accountability, AccountablePair
    <2>2. PICK c \in Seq(Digest) : c = chain[v]
      BY <2>1 DEF TypeOK
    <2>3. PICK e \in Seq(Digest) : e = chain[w]
      BY <2>1 DEF TypeOK
    <2>4. CASE chain'[v] = c /\ chain'[w] = e
      <3>1. c # <<>> => Rec[c[1]].xid \in Xid
        BY RecAssumption
      <3> QED BY <2>1, <2>2, <2>3, <2>4, <3>1, AuthorityGrows DEF AccountablePair
    <2>5. CASE v = w
      BY <2>5 DEF AccountablePair, Agree
    <2>6. ASSUME NEW d \in Digest, chain'[v] = Append(c, d), chain'[w] = e, v # w
          PROVE  AccountablePair(v, w)'
      <3> SUFFICES ASSUME e # <<>>, Rec[Append(c, d)[1]].xid = Rec[e[1]].xid
                   PROVE  \/ Agree(chain[v], chain[w])'
                          \/ SplitAt(Rec[chain[v][1]].xid)'
        BY <2>6 DEF AccountablePair
      <3>1. PICK x \in Xid : x = Rec[e[1]].xid
        BY RecAssumption
      <3>2. c # <<>> => Append(c, d)[1] = c[1]
        OBVIOUS
      <3>3. c # <<>> => Agree(c, e) \/ SplitAt(x)
        BY <2>1, <2>2, <2>3, <3>1, <3>2 DEF AccountablePair
      <3>4. Agree(Append(c, d), e) \/ SplitAt(x)'
        BY <2>1, <2>6, <3>1, <3>3, PairExtend
      <3> QED BY <3>1, <3>4, <2>6
    <2>7. ASSUME NEW d \in Digest, chain'[w] = Append(e, d), chain'[v] = c, v # w
          PROVE  AccountablePair(v, w)'
      <3> SUFFICES ASSUME c # <<>>, Rec[Append(e, d)[1]].xid = Rec[c[1]].xid
                   PROVE  \/ Agree(chain[v], chain[w])'
                          \/ SplitAt(Rec[chain[v][1]].xid)'
        BY <2>7 DEF AccountablePair
      <3>1. PICK x \in Xid : x = Rec[c[1]].xid
        BY RecAssumption
      <3>2. e # <<>> => Append(e, d)[1] = e[1]
        OBVIOUS
      <3>3. e # <<>> => Agree(e, c) \/ SplitAt(x)
        BY <2>1, <2>2, <2>3, <3>1, <3>2 DEF AccountablePair
      <3>4. Agree(c, Append(e, d)) \/ SplitAt(x)'
        BY <2>1, <2>7, <3>1, <3>3, PairExtend
      <3> QED BY <3>1, <3>4, <2>7
    <2>8. \/ chain' = chain
          \/ \E u \in Verifier, d \in Digest :
                chain' = [chain EXCEPT ![u] = Append(@, d)]
      BY DEF Next, vars, SignPq, SignElect, ForgeElect, BreakClassical,
             RetainAnchor, Observe
    <2>9. ASSUME NEW u \in Verifier, NEW d \in Digest,
                 chain' = [chain EXCEPT ![u] = Append(@, d)]
          PROVE  AccountablePair(v, w)'
      <3>1. \A y \in Verifier :
                chain'[y] = IF y = u THEN Append(chain[y], d) ELSE chain[y]
        BY <2>1, <2>9 DEF TypeOK
      <3> QED BY <3>1, <2>2, <2>3, <2>4, <2>5, <2>6, <2>7
    <2> QED BY <2>2, <2>3, <2>4, <2>8, <2>9
  <1> QED BY <1>1, <1>2, ChainInductive, PTL DEF Spec

-----------------------------------------------------------------------------
(* Forks, rewinds and agreement. *)

\* A raised fork flag is backed by two signed successors of one record.
THEOREM NoFalseForkAlways == Spec => []NoFalseFork
  <1> DEFINE Backed(v) ==
        trust[v].forked =>
          \E d \in Digest, p \in Digest :
            d # trust[v].head /\ Linked(p, d) /\ Linked(p, trust[v].head)
  <1>1. Init => NoFalseFork
    BY DEF Init, NoFalseFork, NewTrust, with_anchor
  <1>2. ChainInv /\ NoFalseFork /\ [Next]_vars => NoFalseFork'
    <2> SUFFICES ASSUME ChainInv, NoFalseFork, [Next]_vars, NEW w \in Verifier
                 PROVE  Backed(w)'
      BY DEF NoFalseFork
    <2>1. TypeOK /\ Backed(w) /\ MemoryOK(w) /\ trust[w] \in TrustRec
      BY DEF ChainInv, TypeOK, MemoryConsistent, MemoryOK, NoFalseFork
    <2>2. CASE trust'[w] = trust[w]
      BY <2>1, <2>2, AuthorityGrows
    <2>3. CASE ~trust'[w].forked
      BY <2>3
    <2>4. ASSUME NEW d \in Digest, NEW sigs \in Signatures,
                 NEW elect \in Elect \cup {NoElect}, NEW sound \in BOOLEAN,
                 Observe(w, d, sigs, elect, sound)
          PROVE  Backed(w)'
      <3>1. trust'[w] = observe(trust[w], d, sigs, elect, sound)
        BY <2>1, <2>4 DEF Observe, TypeOK
      <3>2. CASE Forks(trust[w], trust'[w], d, sigs)
        <4>1. PICK h \in Digest : h = trust[w].head
          BY <3>2, <2>1 DEF Forks, TrustRec
        <4>2. PICK p \in Digest : p = trust[w].parent.prev
          BY <3>2, <2>1 DEF Forks, SiblingOfHead, TrustRec, ParentRec
        <4>3. Linked(p, h) /\ trust[w].parent.control = Rec[p].control
              /\ trust[w].parent.seq = Rec[h].seq
          BY <3>2, <2>1, <4>1, <4>2 DEF Forks, SiblingOfHead, MemoryOK
        <4>4. Linked(p, d)
          BY <3>2, <2>4, <4>1, <4>2, <4>3
             DEF Forks, SiblingOfHead, check_rotation, pq_signed, Linked,
                 Signed, Observe
        <4>5. trust'[w].head = h /\ d # h
          BY <3>2, <2>1, <4>1 DEF Forks, TrustRec
        <4> QED BY <4>3, <4>4, <4>5, AuthorityGrows
      <3>3. CASE Accepts1(trust[w], trust'[w], d, sigs, elect, sound)
        BY <3>3, <2>3 DEF Accepts1
      <3>4. CASE Rotates(trust[w], trust'[w], d, sigs)
        BY <3>4, <2>3 DEF Rotates, Advance
      <3> QED BY <3>1, <3>2, <3>3, <3>4, <2>1, <2>2, ObserveOutcome
    <2>5. ASSUME NEW v \in Verifier, NEW y \in Verifier, RetainAnchor(v, y)
          PROVE  Backed(w)'
      <3>1. trust'[w] = trust[w] \/ ~trust'[w].forked
        BY <2>1, <2>5 DEF RetainAnchor, TypeOK, with_anchor
      <3> QED BY <3>1, <2>2, <2>3
    <2>6. ASSUME NEW v \in Verifier, NEW d \in Digest, NEW sigs \in Signatures,
                 NEW elect \in Elect \cup {NoElect}, NEW sound \in BOOLEAN,
                 Observe(v, d, sigs, elect, sound), v # w
          PROVE  Backed(w)'
      BY <2>6, <2>2, <2>1 DEF Observe, TypeOK
    <2>7. trust' = trust => Backed(w)'
      BY <2>2
    <2> QED
      BY <2>4, <2>5, <2>6, <2>7 DEF Next, vars, SignPq, SignElect, ForgeElect,
                                    BreakClassical
  <1> QED BY <1>1, <1>2, ChainInductive, PTL DEF Spec

\* Heads never rewind, anchors are never replaced and a fork is final.
THEOREM NoRewindAlways == Spec => NoRewind
  <1>1. ChainInv /\ [Next]_vars => \A v \in Verifier : MovesForward(v)
    <2> SUFFICES ASSUME ChainInv, [Next]_vars, NEW w \in Verifier
                 PROVE  MovesForward(w)
      OBVIOUS
    <2>1. TypeOK /\ trust[w] \in TrustRec
      BY DEF ChainInv, TypeOK
    <2>2. CASE trust'[w] = trust[w]
      BY <2>2 DEF MovesForward
    <2>3. ASSUME NEW v \in Verifier, NEW y \in Verifier, RetainAnchor(v, y)
          PROVE  MovesForward(w)
      <3>1. CASE v # w
        BY <3>1, <2>1, <2>2, <2>3 DEF RetainAnchor, TypeOK
      <3>2. CASE v = w
        BY <3>2, <2>3 DEF MovesForward, RetainAnchor, NewTrust, with_anchor
      <3> QED BY <3>1, <3>2
    <2>4. ASSUME NEW v \in Verifier, NEW d \in Digest, NEW sigs \in Signatures,
                 NEW elect \in Elect \cup {NoElect}, NEW sound \in BOOLEAN,
                 Observe(v, d, sigs, elect, sound)
          PROVE  MovesForward(w)
      <3>1. CASE v # w
        BY <3>1, <2>1, <2>2, <2>4 DEF Observe, TypeOK
      <3>2. CASE v = w
        <4>1. trust'[w] = observe(trust[w], d, sigs, elect, sound)
          BY <3>2, <2>1, <2>4 DEF Observe, TypeOK
        <4>2. CASE ~trust[w].forked /\ Accepts1(trust[w], trust'[w], d, sigs, elect, sound)
          BY <4>2, <2>1 DEF MovesForward, Accepts1, authority, TrustRec
        <4>3. CASE ~trust[w].forked /\ Rotates(trust[w], trust'[w], d, sigs)
          BY <4>3, <2>1 DEF MovesForward, Rotates, Advance, ExtendsHead, authority, TrustRec
        <4>4. CASE ~trust[w].forked /\ Forks(trust[w], trust'[w], d, sigs)
          BY <4>4, <2>1 DEF MovesForward, Forks, authority, TrustRec
        <4> QED BY <4>1, <4>2, <4>3, <4>4, <2>1, <2>2, ObserveOutcome
      <3> QED BY <3>1, <3>2
    <2> QED
      BY <2>2, <2>3, <2>4 DEF Next, vars, SignPq, SignElect, ForgeElect,
                              BreakClassical
  <1> QED BY <1>1, ChainInductive, PTL DEF Spec, NoRewind

\* Honest signers leave no rivals behind: what SignPq and SignElect guard is
\* still true of everything signed so far.
HonestSigning ==
    /\ \A k \in HonestKey, d, e \in Digest :
           Rivals(k, d, e) /\ Signed(k, d) => ~Signed(k, e)
    /\ HonestElect = Elect =>
           \A el, o \in Elect, d, e \in Digest :
               <<el, d>> \in elSigned =>
                   /\ \A k \in Key : Rec[d].xid # XidFor[k]
                   /\ <<o, e>> \in elSigned /\ Rec[e].xid = Rec[d].xid => e = d

\* HonestSigning is an invariant of the signers.
LEMMA HonestSigningAlways == Spec => []HonestSigning
  <1>1. Init => HonestSigning
    BY DEF Init, HonestSigning, Signed
  <1>2. HonestSigning /\ [Next]_vars => HonestSigning'
    <2> SUFFICES ASSUME HonestSigning, [Next]_vars PROVE HonestSigning'
      OBVIOUS
    <2>1. ASSUME NEW j \in Key, NEW c \in Digest, SignPq(j, c)
          PROVE  HonestSigning'
      <3>1. \A k, d, e : Rivals(k, d, e) => Rivals(k, e, d) /\ d # e
        BY DEF Rivals
      <3>2. \A k \in HonestKey, d, e \in Digest :
                Rivals(k, d, e) /\ Signed(k, d)' => ~Signed(k, e)'
        BY <2>1, <3>1 DEF HonestSigning, SignPq, Signed
      <3> QED BY <2>1, <3>2 DEF HonestSigning, SignPq
    <2>2. ASSUME NEW el \in Elect, NEW d \in Digest, SignElect(el, d)
          PROVE  HonestSigning'
      BY <2>2 DEF HonestSigning, SignElect, Signed
    <2>3. CASE UNCHANGED <<pqSigned, elSigned>>
      BY <2>3 DEF HonestSigning, Signed
    <2> QED
      BY <2>1, <2>2, <2>3 DEF Next, vars, ForgeElect, BreakClassical,
                              RetainAnchor, Observe
  <1> QED BY <1>1, <1>2, PTL DEF Spec

\* An identity whose signers are honest is never split.
LEMMA HonestNoSplit ==
    ASSUME HonestSigning, NEW x, HonestIdentity(x)
    PROVE  ~SplitAt(x)
  <1> SUFFICES ASSUME NEW d \in Digest, NEW e \in Digest, d # e,
                      Rec[d].xid = x, Rec[e].xid = x,
                      \/ Rooted(d) /\ Rooted(e)
                      \/ \E p \in Digest : Linked(p, d) /\ Linked(p, e)
               PROVE  FALSE
    BY DEF SplitAt
  <1> USE DEF HonestIdentity
  <1>1. ASSUME NEW p \in Digest, Linked(p, d), Linked(p, e) PROVE FALSE
    <2>1. Rec[p].control \in HonestKey
      BY <1>1 DEF Linked
    <2>2. Rivals(Rec[p].control, d, e)
      BY <1>1, NoneAssumption DEF Linked, Rivals
    <2> QED BY <1>1, <2>1, <2>2 DEF Linked, HonestSigning
  <1>2. CASE Rooted(d) /\ Rooted(e)
    <2>1. CASE /\ Rec[d].xid = XidFor[Rec[d].control]
               /\ Rec[e].xid = XidFor[Rec[e].control]
      <3>1. Rec[d].control = Rec[e].control /\ Rec[d].control \in HonestKey
        BY <2>1, RecAssumption
      <3>2. Rivals(Rec[d].control, d, e)
        BY <3>1, <1>2 DEF Rooted, Rivals
      <3> QED BY <3>1, <3>2, <1>2 DEF Rooted, HonestSigning
    <2>2. CASE /\ \E el \in Elect : <<el, d>> \in elSigned
               /\ \E el \in Elect : <<el, e>> \in elSigned
      BY <2>2 DEF HonestSigning
    <2>3. CASE /\ \E el \in Elect : <<el, d>> \in elSigned
               /\ Rec[e].xid = XidFor[Rec[e].control]
      BY <2>3, RecAssumption DEF HonestSigning
    <2>4. CASE /\ \E el \in Elect : <<el, e>> \in elSigned
               /\ Rec[d].xid = XidFor[Rec[d].control]
      BY <2>4, RecAssumption DEF HonestSigning
    <2> QED BY <1>2, <2>1, <2>2, <2>3, <2>4 DEF Rooted
  <1> QED BY <1>1, <1>2

\* Honest signers give all verifiers of their identity one chain, for ever,
\* also after the classical signatures have become forgeable and whatever the
\* signers of other identities do.
THEOREM AgreementAlways == Spec => []Agreement
  <1>1. ASSUME ChainInv, HeadAuthorised, Accountability, NoFalseFork, HonestSigning
        PROVE  Agreement
    <2> SUFFICES ASSUME NEW v \in Verifier, NEW w \in Verifier,
                        chain[v] # <<>>, HonestIdentity(Rec[chain[v][1]].xid)
                 PROVE  /\ ~trust[v].forked
                        /\ chain[w] # <<>> /\ Rec[chain[v][1]].xid = Rec[chain[w][1]].xid
                           => Agree(chain[v], chain[w])
      BY DEF Agreement
    <2>1. ~SplitAt(Rec[chain[v][1]].xid)
      BY <1>1, HonestNoSplit
    <2>2. ASSUME trust[v].forked PROVE FALSE
      <3>1. PICK d \in Digest, p \in Digest :
                d # trust[v].head /\ Linked(p, d) /\ Linked(p, trust[v].head)
        BY <1>1, <2>2 DEF NoFalseFork
      <3>2. trust[v].head \in Digest
        BY <1>1, <2>2 DEF ChainInv, MemoryConsistent, TypeOK, TrustRec
      <3>3. Rec[trust[v].head].xid = Rec[chain[v][1]].xid
        <4>1. chain[v] \in Seq(Digest) /\ Len(chain[v]) \in Nat \ {0}
          BY <1>1 DEF ChainInv, TypeOK
        <4>2. trust[v].head = chain[v][Len(chain[v])]
          BY <1>1 DEF HeadAuthorised
        <4>3. \A i \in 2 .. Len(chain[v]) :
                 Rec[chain[v][i]].xid = Rec[chain[v][1]].xid
          BY <1>1 DEF HeadAuthorised
        <4>4. CASE Len(chain[v]) = 1
          BY <4>4, <4>2
        <4>5. CASE Len(chain[v]) # 1
          <5>1. \A n \in Nat \ {0} : n # 1 => n \in 2 .. n
            OBVIOUS
          <5>2. Len(chain[v]) \in 2 .. Len(chain[v])
            BY <5>1, <4>1, <4>5, Zenon
          <5> QED BY <5>2, <4>2, <4>3
        <4> QED BY <4>4, <4>5
      <3>4. SplitAt(Rec[trust[v].head].xid)
        BY <3>1, <3>2 DEF SplitAt, Linked
      <3> QED BY <2>1, <3>3, <3>4
    <2>3. ASSUME chain[w] # <<>>, Rec[chain[v][1]].xid = Rec[chain[w][1]].xid
          PROVE  Agree(chain[v], chain[w])
      BY <1>1, <2>1, <2>3 DEF Accountability
    <2> QED BY <2>2, <2>3
  <1> QED
    BY <1>1, ChainInductive, HeadAuthorisedAlways, AccountabilityAlways,
       NoFalseForkAlways, HonestSigningAlways, PTL

-----------------------------------------------------------------------------
(* Duplicity is reported whichever record comes first. *)

\* The signatures on d that anybody can ask for.
Published(d) == [pq |-> {k \in Key : Signed(k, d)}, classical |-> NoElect]

\* A fully signed successor of the head is accepted, and what is remembered is
\* what a sibling needs (successor, state.rs).
LEMMA SeesFirst ==
    ASSUME NEW t \in TrustRec, ~t.forked, t.head # NoDigest,
           NEW a \in Digest, WellFormed(a), Linked(t.head, a),
           Rec[t.head].seq < MaxSeq
    PROVE  observe(t, a, Published(a), NoElect, FALSE) = Advance(t, a)
  <1>1. t.head \in Digest /\ Rec[t.head].seq \in Nat
    BY RecAssumption DEF TrustRec
  <1>2. a # t.head /\ Rec[a].seq # 1
    BY <1>1 DEF Linked, WellFormed
  <1>3. Rec[t.head].control \in Key /\ Rec[a].control \in Key
    BY <1>1, RecAssumption
  <1>4. check_rotation(a, Rec[t.head].xid, Rec[t.head].control, Published(a))
    BY <1>3 DEF check_rotation, pq_signed, Published, Linked
  <1>5. ExtendsHead(t, a)
    BY DEF ExtendsHead, Linked
  <1>6. successor(t, a, Published(a)) = Advance(t, a)
    BY <1>4, <1>5 DEF successor
  <1> QED BY <1>2, <1>6 DEF observe

\* The second of two such successors raises the fork flag (successor, state.rs).
LEMMA SeesSecond ==
    ASSUME NEW t \in TrustRec, ~t.forked, t.head # NoDigest,
           NEW a \in Digest, NEW b \in Digest, a # b,
           WellFormed(a), WellFormed(b), Linked(t.head, a), Linked(t.head, b)
    PROVE  LET u == observe(Advance(t, a), b, Published(b), NoElect, FALSE)
           IN  u.forked /\ authority(u) = NoDigest
  <1> DEFINE s == Advance(t, a)
  <1>1. /\ t.head \in Digest /\ Rec[t.head].seq \in 0 .. MaxSeq
        /\ Rec[t.head].control \in Key /\ Rec[b].control \in Key
        /\ Rec[a].seq \in 0 .. MaxSeq
    BY RecAssumption DEF TrustRec
  <1>2. /\ s.head = a /\ ~s.forked
        /\ s.parent = [control |-> Rec[t.head].control, prev |-> t.head,
                       seq |-> Rec[a].seq]
    BY DEF Advance
  <1>3. s.parent \in ParentRec
    BY <1>1, <1>2 DEF ParentRec
  <1>4. ~ExtendsHead(s, b)
    <2>1. Rec[b].prev = t.head /\ t.head # a
      BY <1>1 DEF Linked
    <2> QED BY <1>2, <2>1 DEF ExtendsHead
  <1>5. SiblingOfHead(s, b)
    BY <1>2, <1>3, NoneAssumption DEF SiblingOfHead, Linked
  <1>6. check_rotation(b, Rec[s.head].xid, s.parent.control, Published(b))
    BY <1>1, <1>2 DEF check_rotation, pq_signed, Published, Linked
  <1>7. a # NoDigest /\ Rec[b].seq # 1
    BY <1>1, NoneAssumption DEF WellFormed, Linked
  <1> HIDE DEF s
  <1>8. successor(s, b, Published(b)) = [s EXCEPT !.forked = TRUE]
    BY <1>4, <1>5, <1>6 DEF successor
  <1>9. observe(s, b, Published(b), NoElect, FALSE) = [s EXCEPT !.forked = TRUE]
    BY <1>2, <1>7, <1>8 DEF observe
  <1>10. [s EXCEPT !.forked = TRUE].forked
    BY DEF s, Advance
  <1> QED BY <1>9, <1>10 DEF s, authority

\* Two successors of the present head, both fully signed, end a verifier's
\* authority in whichever order they arrive (observe, state.rs), for any
\* records, keys and history of deliveries.
THEOREM EitherOrderAlways == Spec => []EitherOrder
  <1>1. TypeOK => EitherOrder
    <2> SUFFICES ASSUME TypeOK, NEW v \in Verifier, NEW a \in Digest, NEW b \in Digest,
                        ~trust[v].forked, trust[v].head # NoDigest, a # b,
                        WellFormed(a), WellFormed(b),
                        Rec[trust[v].head].seq < MaxSeq,
                        Linked(trust[v].head, a), Linked(trust[v].head, b)
                 PROVE  LET t == trust[v]
                            see(u, d) == observe(u, d, Published(d), NoElect, FALSE)
                        IN  /\ see(see(t, a), b).forked
                            /\ authority(see(see(t, b), a)) = NoDigest
      BY DEF EitherOrder, Published
    <2>1. PICK t \in TrustRec : t = trust[v]
      BY DEF TypeOK
    <2>2. /\ observe(t, a, Published(a), NoElect, FALSE) = Advance(t, a)
          /\ observe(t, b, Published(b), NoElect, FALSE) = Advance(t, b)
      BY <2>1, SeesFirst
    <2>3. observe(Advance(t, a), b, Published(b), NoElect, FALSE).forked
      BY <2>1, SeesSecond
    <2>4. authority(observe(Advance(t, b), a, Published(a), NoElect, FALSE)) = NoDigest
      BY <2>1, SeesSecond
    <2> QED BY <2>1, <2>2, <2>3, <2>4
  <1> QED BY <1>1, TypeCorrect, PTL
=============================================================================
