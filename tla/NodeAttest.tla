----------------------------- MODULE NodeAttest -----------------------------
(***************************************************************************)
(* Self-describing keys and signatures (key.rs, algorithm.rs), what they   *)
(* sign (challenge.rs, state.rs, attestation.rs), and node attestations    *)
(* (attestation.rs) as they travel.                                        *)
(*                                                                         *)
(* A signature is the number of its making, in its bytes; it verifies for  *)
(* the key and payload it was made with and for no other.  A fingerprint   *)
(* is the bytes it hashes.  Tags and field names are one to three bytes,   *)
(* in the order of the originals.                                          *)
(***************************************************************************)
EXTENDS Cbor

CONSTANTS
    Devices,     \* signers: [key |-> classical key, pq |-> pq key or NoPq]
    NodeIds,     \* byte strings, as node ids, challenges and state records
    MaxSigned,   \* bound on the payloads signed
    NoPq

tag == [ed25519 |-> <<101>>, p256 |-> <<112>>,
        mldsa44 |-> <<109, 4>>, mldsa65 |-> <<109, 6>>, mldsa87 |-> <<109, 8>>]
ClassicalAlg == {"ed25519", "p256"}
PqAlg == {"mldsa44", "mldsa65", "mldsa87"}

CONTEXT == <<1>>
PURPOSE_CHALLENGE == <<1, 1>>
PURPOSE_NODE == <<1, 2>>
STATE_DOMAIN == <<2>>

F_alg == <<97>>
F_key == <<107>>
F_sig == <<115>>
F_pub == <<112>>
F_node == <<110, 1>>
F_pqpub == <<113, 1, 1>>
F_pqsig == <<113, 1, 2>>

PqKeys == [alg : PqAlg, bytes : ByteString]

\* No two devices share a key; attestations nest three deep.
ASSUME NodeAttestAssumption ==
    /\ MaxDepth \in Nat /\ MaxDepth >= 3
    /\ NodeIds \subseteq ByteString
    /\ \A d \in Devices : /\ d.key \in [alg : ClassicalAlg, bytes : ByteString]
                          /\ d.pq \in {NoPq} \cup PqKeys
    /\ \A d, e \in Devices : d.key = e.key \/ (d.pq = e.pq /\ d.pq # NoPq) => d = e
    /\ NoPq \notin PqKeys
    /\ MaxSigned \in 0 .. Huge - 2

-----------------------------------------------------------------------------
(* Keys and signatures: [alg, bytes] under the field "key" or "sig". *)

to_value(k, field) == Map(<< <<F_alg, Text(tag[k.alg])>>, <<field, Bytes(k.bytes)>> >>)

\* from_value and from_tag, for the algorithms of its kind.
from_value(v, field, algs) ==
    LET a == get(v, F_alg)
        b == get(v, field)
        named == {alg \in algs : a.t = "text" /\ tag[alg] = a.b}
    IN  IF CborError \in {a, b} THEN CborError
        ELSE IF named = {} \/ b.t # "bytes" THEN CborError
        ELSE [alg |-> CHOOSE alg \in named : TRUE, bytes |-> b.b]

fingerprint(k) == to_bytes(to_value(k, F_key))

signing_payload(chal) ==
    to_bytes(Array(<<Text(CONTEXT), Text(PURPOSE_CHALLENGE), Bytes(chal)>>))

\* Mutant: the login's purpose, copied.
node_signing_payload_Login(node) ==
    to_bytes(Array(<<Text(CONTEXT), Text(PURPOSE_CHALLENGE), Bytes(node)>>))

node_signing_payload(node) ==
    to_bytes(Array(<<Text(CONTEXT), Text(PURPOSE_NODE), Bytes(node)>>))

state_signing_payload(unsigned) == to_bytes(Array(<<Text(STATE_DOMAIN), Bytes(unsigned)>>))

-----------------------------------------------------------------------------
VARIABLES
    signed,    \* sequence of [key, payload]: the signatures made so far
    attested   \* <<device, node>> of every attest_node_id (history)

attestVars == <<signed, attested>>

AttestInit == signed = <<>> /\ attested = {}

\* sign_classical and, with a post-quantum key, sign_pq over one payload.
SignBoth(d, payload) ==
    /\ Len(signed) < MaxSigned
    /\ signed' = signed \o <<[key |-> d.key, payload |-> payload]>>
                        \o (IF d.pq = NoPq THEN <<>> ELSE <<[key |-> d.pq, payload |-> payload]>>)

respond(d, chal) == SignBoth(d, signing_payload(chal)) /\ UNCHANGED attested

SignState(d, unsigned) == SignBoth(d, state_signing_payload(unsigned)) /\ UNCHANGED attested

attest_node_id(d, node) ==
    /\ SignBoth(d, node_signing_payload(node))
    /\ attested' = attested \cup {<<d, node>>}

AttestNext ==
    \/ \E d \in Devices, b \in NodeIds : respond(d, b)
    \/ \E d \in Devices, b \in NodeIds : SignState(d, b)
    \/ \E d \in Devices, b \in NodeIds : attest_node_id(d, b)

AttestSpec == AttestInit /\ [][AttestNext]_attestVars

-----------------------------------------------------------------------------
(* NodeAttestation as bytes, and its verification. *)

attestation_to_bytes(att) ==
    to_bytes(Map(<< <<F_node, Bytes(att.node)>>, <<F_pub, to_value(att.pub, F_key)>>,
                    <<F_sig, to_value(att.sig, F_sig)>> >>
                 \o (IF att.pqpub = NoPq THEN <<>> ELSE << <<F_pqpub, to_value(att.pqpub, F_key)>> >>)
                 \o (IF att.pqsig = NoPq THEN <<>> ELSE << <<F_pqsig, to_value(att.pqsig, F_sig)>> >>)))

\* The fields of a decoded attestation; one of the post-quantum fields without
\* the other is PqDangling.
attestation_fields(v) ==
    LET node == get(v, F_node)
        has(f) == get(v, f) # CborError
        pub == from_value(get(v, F_pub), F_key, ClassicalAlg)
        sig == from_value(get(v, F_sig), F_sig, ClassicalAlg)
        pqpub == from_value(get(v, F_pqpub), F_key, PqAlg)
        pqsig == from_value(get(v, F_pqsig), F_sig, PqAlg)
        both == has(F_pqpub)
    IN  IF v = CborError THEN CborError
        ELSE IF ~has(F_node) \/ ~has(F_pub) \/ ~has(F_sig) THEN CborError
        ELSE IF node.t # "bytes" \/ CborError \in {pub, sig} THEN CborError
        ELSE IF has(F_pqpub) # has(F_pqsig) THEN CborError
        ELSE IF both /\ CborError \in {pqpub, pqsig} THEN CborError
        ELSE [node |-> node.b, pub |-> pub, sig |-> sig,
              pqpub |-> IF both THEN pqpub ELSE NoPq, pqsig |-> IF both THEN pqsig ELSE NoPq]

attestation_from_bytes(data) == attestation_fields(from_bytes(data))

\* verify_classical and verify_pq.
Verifies(key, payload, sig) ==
    /\ key.alg = sig.alg
    /\ \E i \in 1 .. Len(signed) :
          sig.bytes = U64(i) /\ signed[i] = [key |-> key, payload |-> payload]

verify_node_attestation(att, required) ==
    LET payload == node_signing_payload(att.node)
    IN  /\ Verifies(att.pub, payload, att.sig)
        /\ IF att.pqpub # NoPq THEN Verifies(att.pqpub, payload, att.pqsig) ELSE ~required

\* Whatever signatures of any device and purpose are put together with any
\* keys, fields left out included: an attestation that decodes and verifies
\* comes from the device whose fingerprint is returned, which attested that
\* node and did not just log in or sign a state, and under PqRequired a
\* post-quantum key signed it too (attestation.rs).
AttestationSound ==
    \A d \in Devices, node \in NodeIds, i, j \in 1 .. Len(signed) :
    \A pqpub \in {NoPq} \cup {e.pq : e \in Devices} :
    \A pqsig \in {NoPq} \cup {[alg |-> k.alg, bytes |-> U64(j)] : k \in {e.pq : e \in Devices} \ {NoPq}} :
    LET wire == [node |-> node, pub |-> d.key, pqpub |-> pqpub, pqsig |-> pqsig,
                 sig |-> [alg |-> d.key.alg, bytes |-> U64(i)]] IN
    \A att \in {attestation_from_bytes(attestation_to_bytes(wire))} :
        IF att = CborError THEN (pqpub = NoPq) # (pqsig = NoPq) ELSE
        /\ att = wire
        /\ \A required \in BOOLEAN : verify_node_attestation(att, required) =>
             /\ \A e \in Devices : fingerprint(e.key) = fingerprint(att.pub)
                                     => <<e, node>> \in attested
             /\ required => \E e \in Devices : e.pq # NoPq /\ <<e, node>> \in attested
=============================================================================
