------------------------------ MODULE KeyWrap ------------------------------
(***************************************************************************)
(* Keyspace v1 wraps of a key (identikey-share/src/wrap.rs): wrap_key,     *)
(* unwrap_key and rewrap_key between holders of X25519, Ed25519 and P-256  *)
(* keys, with the fields of a wrap mixed up on its way.                    *)
(*                                                                         *)
(* A curve is the group of the integers modulo Order with base point 1.    *)
(* Montgomery's u forgets the sign of a point, an Edwards or SEC1 point    *)
(* keeps it.  0 stands for the small-order points.  An X25519 public key   *)
(* has a second, non-canonical encoding, which decodes to the same u.      *)
(* XChaCha20-Poly1305 and Blake3 are ideal: a ciphertext opens under the   *)
(* key and nonce it was made with only, and a hash is what it hashes.      *)
(***************************************************************************)
EXTENDS Naturals, FiniteSets

CONSTANTS
    Order,      \* order of the group, a prime
    Secrets,    \* [kind, s]: WrapSecret values
    Deks,       \* keys to wrap, 32 bytes each
    Short,      \* a plaintext of another length
    MaxWraps,   \* bound on the wraps made
    NoDek       \* Err

ASSUME WrapAssumption ==
    /\ Order \in Nat \ {0}
    /\ Secrets \subseteq [kind : {"x25519", "ed25519", "p256"}, s : 1 .. Order - 1]

ALG_X25519 == "x25519-xchacha20poly1305"
ALG_P256 == "p256-xchacha20poly1305"

U(n) == IF n <= Order - n THEN n ELSE Order - n   \* the coordinate of n and of -n

\* Encodings of a public key as a wrap has it.
XKey(u) == [u |-> u, form |-> "canonical"]
PKey(n) == [point |-> n]
IsX(k) == "u" \in DOMAIN k

\* The list has the canonical encodings, and not every other one.
SMALL_ORDER == {XKey(0)}
is_small_order(k) == k \in SMALL_ORDER

\* PublicKey::from_sec1_bytes.
on_curve(k) == ~IsX(k) /\ k.point \in 1 .. Order - 1

-----------------------------------------------------------------------------
(* Keys. *)

ed25519_to_x25519(n) == XKey(U(n))
ed25519_seed_to_x25519(secret) == secret.s

\* WrapSecret::public and encapsulation.
encapsulation(secret) ==
    CASE secret.kind = "x25519" -> [alg |-> ALG_X25519, recipient |-> XKey(U(secret.s))]
      [] secret.kind = "ed25519" -> [alg |-> ALG_X25519, recipient |-> ed25519_to_x25519(secret.s)]
      [] secret.kind = "p256" -> [alg |-> ALG_P256, recipient |-> PKey(secret.s)]

\* Diffie-Hellman: the coordinate of the product.
Dh(s, k) == U((s * (IF IsX(k) THEN k.u ELSE k.point)) % Order)

\* Mutant: the key depends on the shared secret and the recipient only.
wrap_kdf_NoEphemeral(dh, ephemeral, recipient) == <<dh, recipient>>

wrap_kdf(dh, ephemeral, recipient) == <<dh, ephemeral, recipient>>

\* The key of a wrap, or NoDek: was_contributory and the all-zero tests refuse
\* what the list of small orders has missed.
dh_kdf_x25519(s, peer, ephemeral, recipient) ==
    IF is_small_order(peer) \/ is_small_order(recipient) \/ Dh(s, peer) = 0 THEN NoDek
    ELSE wrap_kdf(Dh(s, peer), ephemeral, recipient)

dh_kdf_p256(s, peer, ephemeral, recipient) ==
    IF ~on_curve(peer) \/ Dh(s, peer) = 0 THEN NoDek
    ELSE wrap_kdf(Dh(s, peer), ephemeral, recipient)

-----------------------------------------------------------------------------
(* Sealing and opening. *)

\* seal_x25519 and seal_p256 with the ephemeral secret e; the key is NoDek when
\* they refuse the recipient.
seal(enc, plain, e, nonce, epoch) ==
    LET x == enc.alg = ALG_X25519
        ephemeral == IF x THEN XKey(U(e)) ELSE PKey(e)
        key == IF x THEN dh_kdf_x25519(e, enc.recipient, ephemeral, enc.recipient)
               ELSE dh_kdf_p256(e, enc.recipient, ephemeral, enc.recipient)
    IN  [alg |-> enc.alg, recipient |-> enc.recipient, ephemeral |-> ephemeral,
         nonce |-> nonce, epoch |-> epoch,
         ciphertext |-> [key |-> key, nonce |-> nonce, plain |-> plain]]

\* parse_wrap, once the map has its six fields.
parse_wrap(w) ==
    IF w.alg = ALG_X25519
    THEN /\ IsX(w.recipient) /\ IsX(w.ephemeral)
         /\ ~is_small_order(w.recipient) /\ ~is_small_order(w.ephemeral)
    ELSE on_curve(w.recipient) /\ on_curve(w.ephemeral)

open_with(secret, w) ==
    LET s == IF secret.kind = "ed25519" THEN ed25519_seed_to_x25519(secret) ELSE secret.s
        key == IF w.alg = ALG_X25519 THEN dh_kdf_x25519(s, w.ephemeral, w.ephemeral, w.recipient)
               ELSE dh_kdf_p256(s, w.ephemeral, w.ephemeral, w.recipient)
        c == w.ciphertext
    IN  IF /\ (secret.kind = "p256") = (w.alg = ALG_P256)
           /\ key # NoDek /\ key = c.key /\ w.nonce = c.nonce /\ c.plain # Short
        THEN c.plain ELSE NoDek

unwrap_key(secret, w) ==
    IF parse_wrap(w) /\ w.recipient = encapsulation(secret).recipient
    THEN open_with(secret, w) ELSE NoDek

-----------------------------------------------------------------------------
VARIABLE wraps   \* wraps made, numbered by their nonce, with what they hold

WrapInit == wraps = {}

\* Every encoding of a public key, and every WrapPublic as encapsulation has it.
XKeys == [u : 0 .. Order \div 2, form : {"canonical", "other"}]
PKeys == {PKey(n) : n \in 0 .. Order - 1}
Publics == [alg : {ALG_X25519}, recipient : XKeys] \cup [alg : {ALG_P256}, recipient : PKeys]

Seal(enc, plain, e, epoch) ==
    LET w == seal(enc, plain, e, Cardinality(wraps), epoch)
    IN  /\ Cardinality(wraps) < MaxWraps
        /\ w.ciphertext.key # NoDek
        /\ wraps' = wraps \cup {w}

wrap_key(to, dek, e) == Seal(to, dek, e, 0)

\* Another program seals a plaintext that is no key.
SealShort(to, e) == Seal(to, Short, e, 0)

rewrap_key(secret, w, to, e) ==
    /\ unwrap_key(secret, w) # NoDek
    /\ Seal(to, unwrap_key(secret, w), e, 1)

WrapNext ==
    \E to \in Publics, e \in 1 .. Order - 1 :
        \/ \E dek \in Deks : wrap_key(to, dek, e)
        \/ SealShort(to, e)
        \/ \E secret \in Secrets, w \in wraps : rewrap_key(secret, w, to, e)

WrapSpec == WrapInit /\ [][WrapNext]_wraps

-----------------------------------------------------------------------------
\* What can arrive: every mix of the fields of wraps, with any ephemeral key in
\* any encoding.
Arriving ==
    [alg : {ALG_X25519, ALG_P256}, recipient : {w.recipient : w \in wraps},
     ephemeral : XKeys \cup PKeys, nonce : {w.nonce : w \in wraps},
     epoch : {0, 1}, ciphertext : {w.ciphertext : w \in wraps}]

\* A wrap opens for its recipient, whichever kind of key that is, with the key
\* that was sealed; and whatever arrives opens only if it is a wrap that was
\* made for that recipient, in every field but its epoch (wrap_kdf binds both
\* public keys; parse_wrap, unwrap_key).
WrapSound ==
    /\ \A w \in wraps, secret \in Secrets :
          /\ encapsulation(secret) = [alg |-> w.alg, recipient |-> w.recipient]
          /\ w.ciphertext.plain # Short
          => unwrap_key(secret, w) = w.ciphertext.plain
    /\ \A a \in Arriving, secret \in Secrets :
          unwrap_key(secret, a) # NoDek =>
              \E w \in wraps : /\ [w EXCEPT !.epoch = a.epoch] = a
                               /\ encapsulation(secret).recipient = w.recipient
=============================================================================
