---------------------------- MODULE PQStateChain ----------------------------
(***************************************************************************)
(* The post-quantum state chain of identikey-auth (state.rs).              *)
(*                                                                         *)
(* A XID's authority is a chain of records, each signed by the control key *)
(* of the record before it.  Every verifier keeps a Trust value for the    *)
(* XID and feeds it the records it happens to receive: any record, any     *)
(* number of times, in any order, with any part of its signatures.         *)
(* Control keys may sign two successors of one record, and the classical   *)
(* (Elect) signatures that vouch for a migrated identity may one day       *)
(* become forgeable.                                                       *)
(*                                                                         *)
(* Records are named by their digest: Rec is the (injective up to the      *)
(* operational keys, which carry no authority) preimage map of SHA-256.    *)
(***************************************************************************)
EXTENDS Naturals, Sequences

CONSTANTS
    Verifier,     \* verifiers, each with its own Trust for the identity
    Key,          \* ML-DSA-65 control keys
    Elect,        \* classical keys holding Elect on a classical document
    Xid,          \* identities
    Digest,       \* digests of the records that may ever be written
    Rec,          \* digest -> decoded record
    XidFor,       \* control key -> the XID it is the inception key of
    MaxSeq,       \* largest u64: the sequence number that has no successor
    HonestKey,    \* control keys whose holder never signs two siblings
    HonestElect,  \* Elect holders that migrate an identity at most once
    NoDigest, NoParent, NoElect   \* Option::None, per type

ParentRec == [control : Key, prev : Digest, seq : 0 .. MaxSeq]

ASSUME RecAssumption ==
    /\ Rec \in [Digest -> [xid : Xid, seq : 0 .. MaxSeq, control : Key,
                           prev : Digest \cup {NoDigest}, decodes : BOOLEAN]]
    /\ XidFor \in [Key -> Xid]
    /\ \A j, k \in Key : XidFor[j] = XidFor[k] => j = k
    /\ MaxSeq \in Nat \ {0}
    /\ HonestKey \subseteq Key
    /\ HonestElect \subseteq Elect

ASSUME NoneAssumption ==
    /\ NoDigest \notin Digest
    /\ NoParent \notin ParentRec
    /\ NoElect \notin Elect

VARIABLES
    trust,      \* verifier -> Trust
    chain,      \* verifier -> digests accepted as head so far (history)
    pqSigned,   \* <<key, digest>>: ML-DSA signatures that exist
    elSigned,   \* <<elect, digest>>: signatures made by the Elect holder
    forged,     \* <<elect, digest>>: classical signatures made by others
    broken      \* classical signatures can be forged

vars == <<trust, chain, pqSigned, elSigned, forged, broken>>

TrustRec == [anchor : Digest \cup {NoDigest}, head : Digest \cup {NoDigest},
             parent : ParentRec \cup {NoParent}, forked : BOOLEAN]

Signatures == [pq : SUBSET Key, classical : Elect \cup {NoElect}]

TypeOK ==
    /\ trust \in [Verifier -> TrustRec]
    /\ chain \in [Verifier -> Seq(Digest)]
    /\ pqSigned \subseteq Key \X Digest
    /\ elSigned \subseteq Elect \X Digest
    /\ forged \subseteq Elect \X Digest
    /\ broken \in BOOLEAN

-----------------------------------------------------------------------------
(* Trust values. *)

with_anchor(a) ==
    [anchor |-> a, head |-> NoDigest, parent |-> NoParent, forked |-> FALSE]

NewTrust == with_anchor(NoDigest)

\* The current authority: none without a head or after a fork.
authority(t) == IF t.forked THEN NoDigest ELSE t.head

-----------------------------------------------------------------------------
(* Checking one record.  sigs.pq holds the control keys under which one of *)
(* the supplied signatures verifies for this record, sigs.classical the    *)
(* Elect key under which the classical signature verifies.                 *)

\* from_bytes: decodes stands for canonical encoding, version, known keys
\* and control profile; seq and prev are checked against each other.
WellFormed(d) ==
    /\ Rec[d].decodes
    /\ Rec[d].seq # 0
    /\ Rec[d].seq = 1 <=> Rec[d].prev = NoDigest

pq_signed(k, sigs) == k \in sigs.pq

\* Mutant: the new control key need not prove possession.
check_migration_sigs_ElectOnly(d, sigs, elect) ==
    elect # NoElect /\ sigs.classical = elect

check_migration_sigs(d, sigs, elect) ==
    /\ elect # NoElect
    /\ sigs.classical = elect
    /\ pq_signed(Rec[d].control, sigs)

\* Mutant: the record's own control key is enough.
check_rotation_SelfSigned(d, xid, prevControl, sigs) ==
    Rec[d].xid = xid /\ pq_signed(Rec[d].control, sigs)

check_rotation(d, xid, prevControl, sigs) ==
    /\ Rec[d].xid = xid
    /\ pq_signed(prevControl, sigs)
    /\ Rec[d].control # prevControl => pq_signed(Rec[d].control, sigs)

ExtendsHead(t, d) ==
    /\ Rec[d].prev = t.head
    /\ Rec[t.head].seq < MaxSeq
    /\ Rec[d].seq = Rec[t.head].seq + 1

SiblingOfHead(t, d) ==
    /\ t.parent # NoParent
    /\ Rec[d].prev = t.parent.prev
    /\ Rec[d].seq = t.parent.seq

\* Mutants: the parent's sequence number is off by one; the parent keeps the
\* successor's key; the parent is not remembered.
Advance_NextSeq(t, d) ==
    [anchor |-> t.anchor, head |-> d, forked |-> FALSE,
     parent |-> [control |-> Rec[t.head].control, prev |-> t.head,
                 seq |-> Rec[d].seq + 1]]

Advance_NewControl(t, d) ==
    [anchor |-> t.anchor, head |-> d, forked |-> FALSE,
     parent |-> [control |-> Rec[d].control, prev |-> t.head,
                 seq |-> Rec[d].seq]]

Advance_NoParent(t, d) ==
    [anchor |-> t.anchor, head |-> d, forked |-> FALSE, parent |-> t.parent]

\* Trust after a rotation from the present head to d.
Advance(t, d) ==
    [anchor |-> t.anchor, head |-> d, forked |-> FALSE,
     parent |-> [control |-> Rec[t.head].control, prev |-> t.head,
                 seq |-> Rec[d].seq]]

\* Mutant: any second record at the head's place counts as duplicity.
successor_UncheckedFork(t, d, sigs) ==
    CASE ExtendsHead(t, d) ->
             IF check_rotation(d, Rec[t.head].xid, Rec[t.head].control, sigs)
             THEN Advance(t, d) ELSE t
      [] ~ExtendsHead(t, d) /\ SiblingOfHead(t, d) ->
             [t EXCEPT !.forked = TRUE]
      [] OTHER -> t

successor(t, d, sigs) ==
    CASE ExtendsHead(t, d) ->
             IF check_rotation(d, Rec[t.head].xid, Rec[t.head].control, sigs)
             THEN Advance(t, d) ELSE t
      [] ~ExtendsHead(t, d) /\ SiblingOfHead(t, d) ->
             IF check_rotation(d, Rec[t.head].xid, t.parent.control, sigs)
             THEN [t EXCEPT !.forked = TRUE] ELSE t
      [] OTHER -> t

\* Mutant: a migration is accepted although classical signatures are unsound.
first_record_AnySound(t, d, sigs, elect, sound) ==
    CASE t.anchor # NoDigest ->
             IF t.anchor = d /\ check_migration_sigs(d, sigs, elect)
             THEN [t EXCEPT !.head = d] ELSE t
      [] t.anchor = NoDigest /\ Rec[d].xid = XidFor[Rec[d].control] ->
             IF pq_signed(Rec[d].control, sigs)
             THEN [t EXCEPT !.head = d] ELSE t
      [] OTHER ->
             IF check_migration_sigs(d, sigs, elect)
             THEN [t EXCEPT !.head = d, !.anchor = d] ELSE t

\* The first record: the stored anchor, an inception, or a migration.
first_record(t, d, sigs, elect, sound) ==
    CASE t.anchor # NoDigest ->
             IF t.anchor = d /\ check_migration_sigs(d, sigs, elect)
             THEN [t EXCEPT !.head = d] ELSE t
      [] t.anchor = NoDigest /\ Rec[d].xid = XidFor[Rec[d].control] ->
             IF pq_signed(Rec[d].control, sigs)
             THEN [t EXCEPT !.head = d] ELSE t
      [] OTHER ->
             IF check_migration_sigs(d, sigs, elect) /\ sound
             THEN [t EXCEPT !.head = d, !.anchor = d] ELSE t

\* Mutant: a first record is judged as if there were no head yet.
observe_FirstReplaces(t, d, sigs, elect, sound) ==
    CASE t.forked \/ ~WellFormed(d) -> t
      [] ~t.forked /\ WellFormed(d) /\ Rec[d].seq = 1 ->
             first_record(t, d, sigs, elect, sound)
      [] ~t.forked /\ WellFormed(d) /\ Rec[d].seq # 1 ->
             IF t.head = NoDigest \/ d = t.head THEN t
             ELSE successor(t, d, sigs)

\* The trust observe returns; a rejected record leaves the caller's trust
\* as it was.
observe(t, d, sigs, elect, sound) ==
    CASE t.forked \/ ~WellFormed(d) -> t
      [] ~t.forked /\ WellFormed(d) /\ t.head # NoDigest ->
             IF d = t.head \/ Rec[d].seq = 1 THEN t ELSE successor(t, d, sigs)
      [] ~t.forked /\ WellFormed(d) /\ t.head = NoDigest ->
             IF Rec[d].seq # 1 THEN t
             ELSE first_record(t, d, sigs, elect, sound)

-----------------------------------------------------------------------------
(* Actions. *)

Init ==
    /\ trust = [v \in Verifier |-> NewTrust]
    /\ chain = [v \in Verifier |-> <<>>]
    /\ pqSigned = {} /\ elSigned = {} /\ forged = {}
    /\ broken = FALSE

\* The keys whose signature on d any verifier can ask for.
Parties(d) ==
    {Rec[d].control} \cup
    (IF Rec[d].prev = NoDigest THEN {} ELSE {Rec[Rec[d].prev].control})

\* k is the key that decides between d and e: the inception key of both, or
\* the control key of their common predecessor.
Rivals(k, d, e) ==
    /\ d # e
    /\ Rec[d].xid = Rec[e].xid
    /\ \/ Rec[d].seq = 1 /\ Rec[e].seq = 1
          /\ Rec[d].control = k /\ Rec[e].control = k
       \/ /\ Rec[d].prev = Rec[e].prev /\ Rec[d].prev # NoDigest
          /\ Rec[Rec[d].prev].control = k

\* A control key signs a record's payload.  An honest holder never signs two
\* rivals; nothing in the code can stop a dishonest one.
SignPq(k, d) ==
    /\ k \in Parties(d)
    /\ k \in HonestKey =>
           \A e \in Digest : Rivals(k, d, e) => <<k, e>> \notin pqSigned
    /\ pqSigned' = pqSigned \cup {<<k, d>>}
    /\ UNCHANGED <<trust, chain, elSigned, forged, broken>>

\* An Elect holder signs the first record of a migrating identity.  Honest
\* ones migrate a classical XID (not the hash of a post-quantum key) once.
SignElect(el, d) ==
    /\ Rec[d].seq = 1
    /\ el \in HonestElect =>
           /\ \A k \in Key : Rec[d].xid # XidFor[k]
           /\ \A o \in Elect, e \in Digest :
                  <<o, e>> \in elSigned /\ Rec[e].xid = Rec[d].xid => e = d
    /\ elSigned' = elSigned \cup {<<el, d>>}
    /\ UNCHANGED <<trust, chain, pqSigned, forged, broken>>

\* Classical signatures stop being sound; from then on anyone can make one.
BreakClassical ==
    /\ ~broken
    /\ broken' = TRUE
    /\ UNCHANGED <<trust, chain, pqSigned, elSigned, forged>>

ForgeElect(el, d) ==
    /\ broken
    /\ Rec[d].seq = 1
    /\ forged' = forged \cup {<<el, d>>}
    /\ UNCHANGED <<trust, chain, pqSigned, elSigned, broken>>

\* A fresh verifier is set up with an anchor another one has retained.
RetainAnchor(v, w) ==
    /\ trust[v] = NewTrust
    /\ trust[w].anchor # NoDigest
    /\ trust' = [trust EXCEPT ![v] = with_anchor(trust[w].anchor)]
    /\ UNCHANGED <<chain, pqSigned, elSigned, forged, broken>>

\* Verifier v is handed record d.  The signatures that come with it are any
\* of those that exist, and v may only call classical signatures sound while
\* they are.
Observe(v, d, sigs, elect, sound) ==
    /\ \A k \in sigs.pq : <<k, d>> \in pqSigned
    /\ sigs.classical # NoElect =>
           <<sigs.classical, d>> \in elSigned \cup forged
    /\ sound => ~broken
    /\ LET t == observe(trust[v], d, sigs, elect, sound) IN
       /\ trust' = [trust EXCEPT ![v] = t]
       /\ chain' = IF t.head = trust[v].head THEN chain
                   ELSE [chain EXCEPT ![v] = Append(@, d)]
    /\ UNCHANGED <<pqSigned, elSigned, forged, broken>>

Next ==
    \/ \E k \in Key, d \in Digest : SignPq(k, d)
    \/ \E el \in Elect, d \in Digest : SignElect(el, d) \/ ForgeElect(el, d)
    \/ BreakClassical
    \/ \E v, w \in Verifier : RetainAnchor(v, w)
    \/ \E v \in Verifier, d \in Digest, sigs \in Signatures,
          elect \in Elect \cup {NoElect}, sound \in BOOLEAN :
          Observe(v, d, sigs, elect, sound)

Spec == Init /\ [][Next]_vars
-----------------------------------------------------------------------------
(* What the chain promises. *)

Signed(k, d) == <<k, d>> \in pqSigned

\* d is a first record that its control key signed and that is either an
\* inception or was signed by the Elect holder itself (not by a forger).
Rooted(d) ==
    /\ Rec[d].seq = 1
    /\ Signed(Rec[d].control, d)
    /\ \/ Rec[d].xid = XidFor[Rec[d].control]
       \/ \E el \in Elect : <<el, d>> \in elSigned

\* d is a successor of p that p's control key and d's own have signed.
Linked(p, d) ==
    /\ Rec[d].prev = p
    /\ Rec[d].seq = Rec[p].seq + 1
    /\ Rec[d].xid = Rec[p].xid
    /\ Signed(Rec[p].control, d)
    /\ Signed(Rec[d].control, d)

\* Whatever a verifier was shown, its head (state.rs, Trust.head) is the last
\* record of a chain that starts at a genuine first record and in which every
\* record was authorised by the control key of the one before: no order of
\* deliveries, stripped signature or forged Elect signature gets a record in.
HeadAuthorised ==
    \A v \in Verifier :
        LET c == chain[v] IN
        IF c = <<>> THEN trust[v].head = NoDigest
        ELSE /\ trust[v].head = c[Len(c)]
             /\ Rooted(c[1])
             /\ \A i \in 2 .. Len(c) :
                    Linked(c[i - 1], c[i]) /\ Rec[c[i]].xid = Rec[c[1]].xid

\* What a verifier remembers besides the head is consistent with it: the parent
\* (Parent, state.rs) is the record the head extends, and every stored anchor
\* was signed by the Elect holder itself.  This is what lets successor
\* recognise a sibling without keeping the chain.
MemoryConsistent ==
    \A v \in Verifier :
        LET t == trust[v] IN
        /\ t.parent # NoParent =>
               /\ t.head # NoDigest
               /\ Linked(t.parent.prev, t.head)
               /\ t.parent.control = Rec[t.parent.prev].control
               /\ t.parent.seq = Rec[t.head].seq
        /\ t.anchor # NoDigest =>
               \E el \in Elect : <<el, t.anchor>> \in elSigned
        /\ t.forked => t.head # NoDigest

\* The two chains agree wherever both reach: one extends the other.
Agree(c, e) == \A i \in 1 .. Len(c) : i <= Len(e) => c[i] = e[i]

\* The published signatures themselves convict somebody: a control key that
\* signed two successors of its record, or two rooted first records for xid.
SplitAt(xid) ==
    \E d, e \in Digest :
        /\ d # e /\ Rec[d].xid = xid /\ Rec[e].xid = xid
        /\ \/ Rooted(d) /\ Rooted(e)
           \/ \E p \in Digest : Linked(p, d) /\ Linked(p, e)

\* Accountability: two verifiers of one identity whose heads (observe,
\* state.rs) lie on different branches implicate a signer, even if each saw
\* only its own branch and neither could report a fork.
Accountability ==
    \A v, w \in Verifier :
        /\ chain[v] # <<>> /\ chain[w] # <<>>
        /\ Rec[chain[v][1]].xid = Rec[chain[w][1]].xid
        => \/ Agree(chain[v], chain[w])
           \/ SplitAt(Rec[chain[v][1]].xid)

\* The fork flag (successor, state.rs) is never raised by anything but a
\* second record that the parent's control key really signed: replays, bad
\* signatures and records of other identities are not duplicity.
NoFalseFork ==
    \A v \in Verifier : trust[v].forked =>
        \E d \in Digest, p \in Digest :
            d # trust[v].head /\ Linked(p, d) /\ Linked(p, trust[v].head)

\* Every control key a record of x names, and every Elect holder, is honest.
HonestIdentity(x) ==
    /\ HonestElect = Elect
    /\ \A d \in Digest : Rec[d].xid = x => Rec[d].control \in HonestKey

\* All verifiers of an identity with honest control keys and Elect holders are
\* on one chain and none reports a fork, whatever the keys of other identities
\* sign and also after classical signatures became forgeable (observe,
\* state.rs: classical_sound, stored anchors).
Agreement ==
    \A v, w \in Verifier :
        /\ chain[v] # <<>> /\ HonestIdentity(Rec[chain[v][1]].xid)
        => /\ ~trust[v].forked
           /\ chain[w] # <<>> /\ Rec[chain[v][1]].xid = Rec[chain[w][1]].xid
              => Agree(chain[v], chain[w])

MovesForward(v) ==
    LET t == trust[v] IN
    /\ t.head # NoDigest =>
           \/ trust'[v].head = t.head
           \/ ~t.forked /\ Rec[trust'[v].head].prev = t.head
    /\ t.anchor # NoDigest => trust'[v].anchor = t.anchor
    /\ t.head # NoDigest /\ authority(t) = NoDigest =>
           authority(trust'[v]) = NoDigest

\* A head only moves to a direct successor, the anchor is never replaced, and
\* an authority lost to a fork never comes back (observe, state.rs).
NoRewind == [][\A v \in Verifier : MovesForward(v)]_vars

\* Two successors of the present head, both fully signed, are reported as a
\* fork in whichever order they arrive (observe, state.rs), and the verifier
\* keeps no authority either way.
EitherOrder ==
    \A v \in Verifier, a, b \in Digest :
        LET t == trust[v]
            sigs(d) == [pq |-> {k \in Key : Signed(k, d)}, classical |-> NoElect]
            see(u, d) == observe(u, d, sigs(d), NoElect, FALSE)
        IN  /\ ~t.forked /\ t.head # NoDigest /\ a # b
            /\ WellFormed(a) /\ WellFormed(b)
            /\ Rec[t.head].seq < MaxSeq
            /\ Linked(t.head, a) /\ Linked(t.head, b)
            => /\ see(see(t, a), b).forked
               /\ authority(see(see(t, b), a)) = NoDigest
=============================================================================
