------------------------------- MODULE OpLog -------------------------------
(***************************************************************************)
(* The signed op of crates/identikey-log: op.rs, codec.rs and sign.rs.     *)
(*                                                                         *)
(* An op is encoded as a Gordian envelope: a core map as its subject and   *)
(* one assertion for each dependency, nack, target and timestamp.  Signing *)
(* wraps that envelope, signs the digest of the wrapper and attaches the   *)
(* signature as an assertion of the wrapper.  A digest is the root of a    *)
(* tree over subject and assertions, so that anyone may elide an assertion *)
(* (leave its digest in its place) and the digest above it stays as it is. *)
(*                                                                         *)
(* The model follows one envelope from hand to hand: authors sign and      *)
(* counter-sign it, holders elide parts of it, decode and re-encode it,    *)
(* and put envelopes together from whatever was signed before.  Digests    *)
(* are taken to be free of collisions, so that a digest stands for what it *)
(* was taken over, and nobody makes the signature of another.              *)
(***************************************************************************)
EXTENDS Integers, FiniteSets, Sequences, Functions

CONSTANTS
    Author,      \* key pairs; an op names its author's public key as `actor`
    PqAuthor,    \* the ones that also have an ML-DSA key
    Value,       \* 32-byte hashes and timestamps, a set of integers
    Rest,        \* the remaining contents of the core map: hlc, parent hashes
    Salt,        \* values of the random salt of an assertion
    Draft,       \* the ops a program asks an author to sign
    Foreign,     \* unsigned envelopes that other implementations write
    Pqcrypto,    \* the crate is built with the `pqcrypto` feature
    MaxIssued,   \* bound on the signatures made
    None,        \* an optional field that is absent
    NoSalt,      \* an assertion without salt
    NotMlDsa     \* a public key of another scheme than ML-DSA

Predicate == {"deps", "nacks", "target-fp", "timestamp"}

\* kind: empty or not; body: absent, canonical CBOR or any other bytes.
Kind == {"", "kind"}
Body == {"none", "canonical", "sloppy"}

(***************************************************************************)
(* The subject.  `known` is a format-version of 4 and the type ball.action,*)
(* `whole` that every required key is there with a value of its shape,     *)
(* `extra` that the map has a key the decoder does not look at.            *)
(***************************************************************************)
Core == [known : BOOLEAN, whole : BOOLEAN, extra : BOOLEAN, kind : Kind,
         body : Body, actor : Author, rest : Rest]

\* A predicate the profile does not have is "other".
Assertion == [pred : Predicate \cup {"other"}, val : Value, salt : Salt \cup {NoSalt}]

\* What a digest is taken over: the whole tree, whatever of it is elided.
Tree == [core : Core, asserts : SUBSET Assertion]

Op == [kind : Kind, body : Body, actor : Author, rest : Rest,
       deps : Seq(Value), nacks : Seq(Value),
       target_fp : Value \cup {None}, timestamp : Value \cup {None}]

\* Ed25519, and ML-DSA at the level the crate verifies and at another one.
Scheme == {"ed25519", "mldsa87", "mldsa65"}
Signature == [by : Author, scheme : Scheme, over : Tree]

(***************************************************************************)
(* An envelope.  `hidden` and `hiddenSigned` are the assertions elided as  *)
(* a whole.  `spoiled` is any change that leaves nothing to decode: the    *)
(* subject elided, the predicate or the object of an assertion elided      *)
(* alone, or an assertion on the wrapper that does not read as 'signed'    *)
(* with a signature for its object.                                        *)
(***************************************************************************)
Envelope == [core : Core, asserts : SUBSET Assertion, hidden : SUBSET Assertion,
             wrapped : BOOLEAN, signed : SUBSET Signature,
             hiddenSigned : SUBSET Signature, spoiled : BOOLEAN]

ASSUME ConstantsAssumption ==
    /\ Value \subseteq Int /\ IsFiniteSet(Value) /\ IsFiniteSet(Salt)
    /\ PqAuthor \subseteq Author
    /\ Draft \subseteq Op /\ Foreign \subseteq Tree
    /\ Pqcrypto \in BOOLEAN /\ MaxIssued \in Nat
    /\ None \notin Value \cup Author /\ NoSalt \notin Salt /\ NotMlDsa \notin Author

VARIABLES
    env,         \* the envelope in hand
    issued       \* every signature made so far

vars == <<env, issued>>

-----------------------------------------------------------------------------
(***************************************************************************)
(* Encoding.                                                               *)
(***************************************************************************)

\* Op::validate and assert_canonical: the two reasons to_envelope fails.
Encodable(op) == op.kind # "" /\ op.body # "sloppy"

\* An absent option adds no assertion; a repeated assertion is added once.
Optional(p, v) == {[pred |-> p, val |-> x, salt |-> NoSalt] : x \in {v} \ {None}}
Repeated(p, vs) == {[pred |-> p, val |-> x, salt |-> NoSalt] : x \in Range(vs)}

\* to_envelope, as the tree it builds.
to_envelope(op) ==
    [core |-> [known |-> TRUE, whole |-> TRUE, extra |-> FALSE, kind |-> op.kind,
               body |-> op.body, actor |-> op.actor, rest |-> op.rest],
     asserts |-> Repeated("deps", op.deps) \cup Repeated("nacks", op.nacks)
                   \cup Optional("target-fp", op.target_fp)
                   \cup Optional("timestamp", op.timestamp)]

\* Wrapping is for signatures: an envelope with none is the bare tree.
Signed(t, S) ==
    [core |-> t.core, asserts |-> t.asserts, hidden |-> {}, wrapped |-> S # {},
     signed |-> S, hiddenSigned |-> {}, spoiled |-> FALSE]

\* Mutant: the signatures go on the envelope without wrapping it.
to_signed_envelope_Bare(s) ==
    [Signed(to_envelope(s.op), s.signatures) EXCEPT !.wrapped = FALSE]

to_signed_envelope(s) == Signed(to_envelope(s.op), s.signatures)

\* salt_assertions: a salt goes under the digest of each assertion.
salt_assertions(t, salt) ==
    [t EXCEPT !.asserts = {[x EXCEPT !.salt = salt] : x \in t.asserts}]

-----------------------------------------------------------------------------
(***************************************************************************)
(* Decoding.                                                               *)
(***************************************************************************)

Visible(e) == e.asserts \ e.hidden
VisibleOf(e, p) == {x \in Visible(e) : x.pred = p}
VisibleSigned(e) == e.signed \ e.hiddenSigned

\* Mutant: a predicate nobody knows is passed over.
WellFormed_AnyPredicate(e) ==
    /\ ~ e.spoiled /\ e.core.known /\ e.core.whole
    /\ e.core.kind # "" /\ e.core.body # "sloppy"
    /\ Pqcrypto \/ \A s \in VisibleSigned(e) : s.scheme = "ed25519"

\* The conditions without which from_envelope fails.
WellFormed(e) ==
    /\ ~ e.spoiled /\ e.core.known /\ e.core.whole
    /\ e.core.kind # "" /\ e.core.body # "sloppy"
    /\ \A x \in Visible(e) : x.pred \in Predicate
    /\ Pqcrypto \/ \A s \in VisibleSigned(e) : s.scheme = "ed25519"

\* deps and nacks: pushed in the order of the digests, then sorted.
Listings(A) ==
    {q \in [1 .. Cardinality(A) -> {x.val : x \in A}] :
        /\ \A v \in {x.val : x \in A} :
              Cardinality({i \in DOMAIN q : q[i] = v}) = Cardinality({x \in A : x.val = v})
        /\ \A i, j \in DOMAIN q : i < j => q[i] <= q[j]}

\* target-fp and timestamp: the last one in the order of the digests, which
\* is some one of them.
LastOf(A) == IF A = {} THEN {None} ELSE {x.val : x \in A}

(***************************************************************************)
(* from_envelope, as the set of its results: none when it fails, one where *)
(* neither target-fp nor timestamp is repeated.                            *)
(***************************************************************************)
from_envelope(e) ==
    {d \in {[op |-> [kind |-> e.core.kind, body |-> e.core.body,
                     actor |-> e.core.actor, rest |-> e.core.rest,
                     deps |-> ds, nacks |-> ns, target_fp |-> fp, timestamp |-> ts],
             signatures |-> VisibleSigned(e),
             elided |-> Cardinality(e.hidden) + Cardinality(e.hiddenSigned)] :
               ds \in Listings(VisibleOf(e, "deps")),
               ns \in Listings(VisibleOf(e, "nacks")),
               fp \in LastOf(VisibleOf(e, "target-fp")),
               ts \in LastOf(VisibleOf(e, "timestamp"))} : WellFormed(e)}

-----------------------------------------------------------------------------
(***************************************************************************)
(* Verification.  A post-quantum key is given by the caller or not at all. *)
(***************************************************************************)

\* Mutant: signing without wrapping covers the subject alone.
Digest_SubjectOnly(t) == [core |-> t.core, asserts |-> {}]

Digest(t) == [core |-> t.core, asserts |-> t.asserts]

verify_signatures(S, digest, actor, pq) ==
    \A s \in S :
        /\ s.over = digest
        /\ IF s.scheme = "ed25519" THEN s.by = actor
           ELSE pq \in PqAuthor /\ s.scheme = "mldsa87" /\ s.by = pq

verify_with_pq_key(d, pq) ==
    /\ d.signatures # {}
    /\ Encodable(d.op)
    /\ verify_signatures(d.signatures, Digest(to_envelope(d.op)), d.op.actor, pq)

\* Mutant: the digest is taken of the bytes at hand.
verify_envelope_OfBytes(e, actor, pq) ==
    /\ from_envelope(e) # {}
    /\ VisibleSigned(e) # {}
    /\ verify_signatures(VisibleSigned(e), [core |-> e.core, asserts |-> Visible(e)],
                         actor, pq)

verify_envelope_with_pq_key(e, actor, pq) ==
    /\ from_envelope(e) # {}
    /\ VisibleSigned(e) # {}
    /\ verify_signatures(VisibleSigned(e), Digest(e), actor, pq)

\* What decode_and_verify returns when it accepts, pq being None there.
Accepted(e, pq) ==
    {d \in from_envelope(e) : verify_envelope_with_pq_key(e, d.op.actor, pq)}

-----------------------------------------------------------------------------
(***************************************************************************)
(* What the hands do.                                                      *)
(***************************************************************************)

Init ==
    /\ env \in {Signed(to_envelope(op), {}) : op \in {d \in Draft : Encodable(d)}}
    /\ issued = {}

\* raw_sign, and Envelope::sign: the signature is over the wrapper's digest.
raw_sign(a, scheme, t) == [by |-> a, scheme |-> scheme, over |-> Digest(t)]

Issue(s) ==
    /\ Cardinality(issued \cup {s}) <= MaxIssued
    /\ issued' = issued \cup {s}

\* Author::sign.  Whether the op's actor is the author is not looked at.
Sign(a, op) ==
    LET s == raw_sign(a, "ed25519", to_envelope(op)) IN
    /\ Encodable(op)
    /\ Issue(s)
    /\ env' = to_signed_envelope([op |-> op, signatures |-> {s}])

\* Author::sign_envelope over a salted op.
SignSalted(a, op, salt) ==
    LET t == salt_assertions(to_envelope(op), salt)
        s == raw_sign(a, "ed25519", t) IN
    /\ Encodable(op)
    /\ Issue(s)
    /\ env' = Signed(t, {s})

\* Author::sign_envelope over an envelope built elsewhere.
SignForeign(a, t) ==
    LET s == raw_sign(a, "ed25519", t) IN
    /\ Issue(s)
    /\ env' = Signed(t, {s})

\* A caller signs the wrapper with its ML-DSA key and attaches the signature.
SignPq(a, scheme) ==
    LET s == raw_sign(a, scheme, env) IN
    /\ env.wrapped
    /\ Issue(s)
    /\ env' = [env EXCEPT !.signed = @ \cup {s}]

\* decode, counter_sign and encode_signed.
CounterSign(a) ==
    \E d \in from_envelope(env) :
        LET s == raw_sign(a, "ed25519", to_envelope(d.op)) IN
        /\ Encodable(d.op)
        /\ Issue(s)
        /\ env' = to_signed_envelope([d EXCEPT !.signatures = @ \cup {s}])

\* decode and encode_signed.
ReEncode ==
    /\ \E d \in from_envelope(env) : env' = to_signed_envelope(d)
    /\ UNCHANGED issued

\* Envelope::elide of an assertion, which leaves its digest.  Compressing or
\* encrypting the assertion leaves the decoder as much.
Elide(x) ==
    /\ x \in Visible(env)
    /\ env' = [env EXCEPT !.hidden = @ \cup {x}]
    /\ UNCHANGED issued

ElideSignature(s) ==
    /\ s \in VisibleSigned(env)
    /\ env' = [env EXCEPT !.hiddenSigned = @ \cup {s}]
    /\ UNCHANGED issued

\* The other elisions, and assertions put on the wrapper.
Spoil ==
    /\ ~ env.spoiled
    /\ env' = [env EXCEPT !.spoiled = TRUE]
    /\ UNCHANGED issued

\* Contents that anyone can have, under signatures made for others.
Known == {to_envelope(d) : d \in {o \in Draft : Encodable(o)}} \cup Foreign
            \cup {s.over : s \in issued}

Assemble(t, S) ==
    /\ env' = Signed(t, S)
    /\ UNCHANGED issued

Next ==
    \/ \E a \in Author, op \in Draft :
         \/ Sign(a, op)
         \/ \E salt \in Salt : SignSalted(a, op, salt)
    \/ \E a \in Author, t \in Foreign : SignForeign(a, t)
    \/ \E a \in PqAuthor, scheme \in Scheme \ {"ed25519"} : SignPq(a, scheme)
    \/ \E a \in Author : CounterSign(a)
    \/ ReEncode
    \/ \E x \in env.asserts : Elide(x)
    \/ \E s \in env.signed : ElideSignature(s)
    \/ Spoil
    \/ \E t \in Known, S \in SUBSET issued : Assemble(t, S)

Spec == Init /\ [][Next]_vars

-----------------------------------------------------------------------------
(***************************************************************************)
(* Properties.                                                             *)
(***************************************************************************)

\* The envelope is one, its signatures are on a wrapper (codec.rs,
\* to_signed_envelope), and only what is there is elided.
TypeOK ==
    /\ env \in Envelope
    /\ env.hidden \subseteq env.asserts
    /\ env.hiddenSigned \subseteq env.signed
    /\ env.signed # {} => env.wrapped
    /\ issued \in SUBSET Signature

\* The post-quantum key a caller may pass for an actor: none, a key that is
\* not one, or the actor's if there is one.
KeyFor(a) == {None, NotMlDsa} \cup ({a} \cap PqAuthor)

\* c is the core map of op, up to keys the decoder does not look at.
CoreOf(c, op) ==
    /\ c.known /\ c.whole
    /\ c.kind = op.kind /\ c.body = op.body /\ c.actor = op.actor /\ c.rest = op.rest

\* What a tree says, salts aside.
Claims(t) == {[x EXCEPT !.salt = NoSalt] : x \in t.asserts}

(***************************************************************************)
(* What decode_and_verify lets through, its actor put a key to: there is a *)
(* signature of the actor over the same core map and over every dependency,*)
(* nack, target and timestamp that the decoded op shows.  If the op is     *)
(* reported as not redacted, what the actor signed says no more than it    *)
(* shows, a repeated target or timestamp apart.                            *)
(***************************************************************************)
SignedByActor ==
    \A pq \in KeyFor(env.core.actor) : \A d \in Accepted(env, pq) :
        \E s \in issued :
            LET shown == to_envelope(d.op) IN
            /\ s.by = d.op.actor
            /\ CoreOf(s.over.core, d.op)
            /\ shown.asserts \subseteq Claims(s.over)
            /\ d.elided = 0 => \A x \in Claims(s.over) :
                 \E y \in shown.asserts :
                     y.pred = x.pred /\ (x.pred \in {"deps", "nacks"} => y = x)

\* f is e with no less of it elided.
Redaction(e, f) ==
    /\ Digest(f) = Digest(e) /\ f.wrapped = e.wrapped /\ f.signed = e.signed
    /\ e.hidden \subseteq f.hidden /\ e.hiddenSigned \subseteq f.hiddenSigned

Survives ==
    \A pq \in KeyFor(env.core.actor) :
        /\ Redaction(env, env')
        /\ Accepted(env, pq) # {}
        /\ from_envelope(env') # {}
        /\ VisibleSigned(env') # {}
        => Accepted(env', pq) # {}

(***************************************************************************)
(* A holder who elides assertions or signatures of an op that verifies     *)
(* hands on an op that verifies, as long as it can be read and a signature *)
(* is left (sign.rs, verify_envelope).                                     *)
(***************************************************************************)
SurvivesElision == [][Survives]_vars

\* An envelope as this crate writes it.
Profiled(e) ==
    /\ ~ e.core.extra
    /\ \A x \in Visible(e) : x.salt = NoSalt
    /\ \A p \in {"target-fp", "timestamp"} : Cardinality(VisibleOf(e, p)) <= 1
    /\ e.wrapped => e.signed # {}

(***************************************************************************)
(* An envelope of the profile that decodes with nothing elided is          *)
(* reproduced byte for byte by encode_signed, and verify gives the decoded *)
(* op the verdict that verify_envelope gives the envelope.                 *)
(***************************************************************************)
ByteStable ==
    \A d \in from_envelope(env) :
        Profiled(env) /\ d.elided = 0 =>
            /\ to_signed_envelope(d) = env
            /\ \A pq \in KeyFor(d.op.actor) :
                 verify_with_pq_key(d, pq)
                   <=> verify_envelope_with_pq_key(env, d.op.actor, pq)
=============================================================================
