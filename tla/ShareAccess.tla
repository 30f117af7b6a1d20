---------------------------- MODULE ShareAccess ----------------------------
(***************************************************************************)
(* Sealed shares and access grants of identikey-share: share.rs, grant.rs, *)
(* wrap.rs and the capsules of recrypt.rs.                                 *)
(*                                                                         *)
(* A share is a value.  Every share ever made stays in somebody's hands,   *)
(* so that holders extend, rotate and transform old and new copies side by *)
(* side, and signers grant access to any of them.  The proxy re-encryption *)
(* backend (RecryptKem) is external.  Ciphers and hashes are ideal: a wrap *)
(* opens under its recipient's secret alone, a payload under its own DEK,  *)
(* and digests are equal for equal preimages only.                         *)
(***************************************************************************)
EXTENDS Naturals, Sequences, FiniteSets

CONSTANTS
    Secret,     \* WrapSecret values
    Target,     \* WrapPublic values
    Recipient,  \* the recipient bytes of wraps
    PublicOf,   \* secret -> the target WrapSecret::public computes from it
    HolderOf,   \* target -> the secret its key belongs to
    Enc,        \* target -> the recipient bytes of its encapsulation
    Pre,        \* RecryptPublic values
    BackendOf,  \* their backend
    Signer,     \* Ed25519 grant signers
    PqSigner,   \* those with an ML-DSA key
    Epoch,
    MaxLen,     \* bound on the recipients given to one call
    MaxShares, MaxGrants, MaxPayload,   \* bounds on what is made
    NoSig

Lists(S) == UNION {[1 .. n -> S] : n \in 0 .. MaxLen}

Payload == 1 .. MaxPayload  \* a payload and its DEK are drawn together
Mode == {"direct", "recrypt", "either"}

Wrap == [recipient : Recipient, dek : Payload, epoch : Epoch]

\* to is the recipient written on the capsule, for the one it is encrypted to.
Capsule == [to : Pre, for : Pre, dek : Payload]

Share == [epoch : Epoch, payload : Payload, wraps : Seq(Wrap),
          targets : Seq(Target), recrypt : Seq(Capsule)]

ASSUME ShareAssumption ==
    /\ PublicOf \in [Secret -> Target]
    /\ HolderOf \in [Target -> Secret]
    /\ Enc \in [Target -> Recipient]
    /\ \A k \in Secret : HolderOf[PublicOf[k]] = k
    /\ \A t, u \in Target : Enc[t] = Enc[u] => HolderOf[t] = HolderOf[u]
    /\ PqSigner \subseteq Signer
    /\ {MaxLen, MaxShares, MaxGrants, MaxPayload} \subseteq Nat

VARIABLES
    payloads,  \* payloads sealed so far
    shares,    \* every share made so far
    signed,    \* grant bodies signed with the signer's keys
    granted    \* what a signer had before it when it signed (history)

vars == <<payloads, shares, signed, granted>>

Elems(s) == {s[i] : i \in DOMAIN s}

-----------------------------------------------------------------------------
(* Wraps and capsules. *)

seal(t, dek, epoch) == [recipient |-> Enc[t], dek |-> dek, epoch |-> epoch]

WrapsFor(ts, dek, epoch) == [i \in 1 .. Len(ts) |-> seal(ts[i], dek, epoch)]

\* RecryptKem::encapsulate.
encapsulate(r, dek) == [to |-> r, for |-> r, dek |-> dek]

\* The wraps whose recipient bytes are those of the secret's own public key.
Matching(s, k) ==
    {i \in 1 .. Len(s.wraps) : s.wraps[i].recipient = Enc[PublicOf[k]]}

CanOpenDek(s, k) == Matching(s, k) # {}

\* open_dek: the first match decides.
open_dek(s, k) ==
    s.wraps[CHOOSE i \in Matching(s, k) : \A j \in Matching(s, k) : i <= j].dek

\* Share::open returns the plaintext; a wrong DEK fails authentication.
Opens(s, k) == CanOpenDek(s, k) /\ open_dek(s, k) = s.payload

\* Share::open_recrypt: the capsule is chosen by what is written on it, the
\* backend decapsulates it with the secret of the one it is encrypted to.
OpensRecrypt(s, to, r) ==
    \E i \in 1 .. Len(s.recrypt) :
        /\ s.recrypt[i].to = to
        /\ \A j \in 1 .. i - 1 : s.recrypt[j].to # to
        /\ s.recrypt[i].for = r
        /\ s.recrypt[i].dek = s.payload

reject_duplicate_direct(ts) ==
    \A i, j \in 1 .. Len(ts) : Enc[ts[i]] = Enc[ts[j]] => i = j

reject_duplicate_recrypt(rs) ==
    \A i, j \in 1 .. Len(rs) : rs[i] = rs[j] => i = j

-----------------------------------------------------------------------------
(* Shares made from recipients or from other shares. *)

CanSeal(ts, rs) ==
    /\ ts # <<>> \/ rs # <<>>
    /\ reject_duplicate_direct(ts)
    /\ reject_duplicate_recrypt(rs)

seal_mixed(ts, rs, epoch, payload) ==
    [epoch |-> epoch, payload |-> payload,
     wraps |-> WrapsFor(ts, payload, epoch), targets |-> ts,
     recrypt |-> [i \in 1 .. Len(rs) |-> encapsulate(rs[i], payload)]]

CanAdd(s, k, t) ==
    /\ t \notin Elems(s.targets)
    /\ \A i \in 1 .. Len(s.wraps) : s.wraps[i].recipient # Enc[t]
    /\ CanOpenDek(s, k)

\* Mutants: the new wrap is put in front; the key is wiped before it is used.
add_recipient_Front(s, k, t) ==
    [s EXCEPT !.wraps = <<seal(t, open_dek(s, k), s.epoch)>> \o @,
              !.targets = Append(@, t)]

add_recipient_Wiped(s, k, t) ==
    [s EXCEPT !.wraps = Append(@, seal(t, 0, s.epoch)),
              !.targets = Append(@, t)]

add_recipient(s, k, t) ==
    [epoch |-> s.epoch, payload |-> s.payload,
     wraps |-> Append(s.wraps, seal(t, open_dek(s, k), s.epoch)),
     targets |-> Append(s.targets, t), recrypt |-> s.recrypt]

CanRotate(s, k, ts) ==
    /\ s.recrypt = <<>>
    /\ ts # <<>>
    /\ reject_duplicate_direct(ts)
    /\ CanOpenDek(s, k)

\* Mutants: the old wraps are not removed; the epoch is counted up.
rotate_KeepsOld(s, k, ts, epoch) ==
    [epoch |-> epoch, payload |-> s.payload,
     wraps |-> s.wraps \o WrapsFor(ts, open_dek(s, k), epoch), targets |-> ts,
     recrypt |-> <<>>]

rotate_NextEpoch(s, k, ts, epoch) ==
    [epoch |-> epoch + 1, payload |-> s.payload,
     wraps |-> WrapsFor(ts, open_dek(s, k), epoch + 1), targets |-> ts,
     recrypt |-> <<>>]

rotate(s, k, ts, epoch) ==
    [epoch |-> epoch, payload |-> s.payload,
     wraps |-> WrapsFor(ts, open_dek(s, k), epoch), targets |-> ts,
     recrypt |-> <<>>]

\* The position of the capsule written to from.
At(s, from, i) == i \in 1 .. Len(s.recrypt) /\ s.recrypt[i].to = from

\* The backend transforms with the key that leads from one public key to
\* another, and fails on a capsule encrypted to anyone else.
CanTransform(s, from, to, key, i) ==
    /\ BackendOf[to] = BackendOf[from]
    /\ \A j \in 1 .. Len(s.recrypt) : s.recrypt[j].to # to
    /\ At(s, from, i) /\ \A j \in 1 .. i - 1 : ~At(s, from, j)
    /\ s.recrypt[i].for = key[1] /\ BackendOf[key[2]] = BackendOf[from]

transform_recrypt(s, to, key, i) ==
    [s EXCEPT !.recrypt =
        [@ EXCEPT ![i] = [to |-> to, for |-> key[2], dek |-> s.recrypt[i].dek]]]

\* from_cbor on the encoding of s: wraps and targets pair up, carry the
\* share's epoch, and there is somebody to read it.
from_cbor_accepts(s) ==
    /\ Len(s.wraps) = Len(s.targets)
    /\ \A i \in 1 .. Len(s.wraps) :
           /\ s.wraps[i].recipient = Enc[s.targets[i]]
           /\ s.wraps[i].epoch = s.epoch
    /\ s.wraps # <<>> \/ s.recrypt # <<>>

-----------------------------------------------------------------------------
(* Grants. *)

\* Sorting and hashing forget the order and nothing else.
Count(s) == [x \in Elems(s) |-> Cardinality({i \in DOMAIN s : s[i] = x})]

\* Mutant: capsules are committed to by their recipients alone.
access_commitment_Labels(s) ==
    [targets |-> Count(s.targets),
     recrypt |-> Count([i \in 1 .. Len(s.recrypt) |-> s.recrypt[i].to])]

access_commitment(s) ==
    [targets |-> Count(s.targets), recrypt |-> Count(s.recrypt)]

ModeFits(mode, s) ==
    CASE mode = "direct"  -> s.targets # <<>> /\ s.recrypt = <<>>
      [] mode = "recrypt" -> s.targets = <<>> /\ s.recrypt # <<>>
      [] mode = "either"  -> s.targets # <<>> /\ s.recrypt # <<>>

\* The ML-DSA algorithm and key of a signer that has one.
pq_alg(signer) == IF signer \in PqSigner THEN "ml-dsa" ELSE "none"

\* What both signatures cover.
Body(s, signer, mode) ==
    [content |-> s.payload, commitment |-> access_commitment(s),
     epoch |-> s.epoch, mode |-> mode, signer |-> signer,
     pq |-> pq_alg(signer)]

\* A grant as it arrives: a body and signatures, each made over some body.
verify_grant(g, s, required) ==
    /\ g.body.content = s.payload
    /\ g.body.commitment = access_commitment(s)
    /\ g.body.epoch = s.epoch
    /\ ModeFits(g.body.mode, s)
    /\ g.ed = g.body
    /\ IF g.body.pq = "ml-dsa" THEN g.ml = g.body ELSE g.ml = NoSig /\ ~required

\* Grants made of existing signatures, with a field of the body changed or the
\* ML-DSA part taken off.
Altered(b) ==
    {b, [b EXCEPT !.pq = "none"]} \cup {[b EXCEPT !.epoch = e] : e \in Epoch}
    \cup {[b EXCEPT !.signer = x] : x \in Signer}

Wire == {[body |-> b, ed |-> e, ml |-> m] :
            b \in UNION {Altered(x) : x \in signed}, e \in signed,
            m \in {x \in signed : x.pq = "ml-dsa"} \cup {NoSig}}

-----------------------------------------------------------------------------
Init ==
    /\ payloads = 0
    /\ shares = {}
    /\ signed = {} /\ granted = {}

Make(s) ==
    /\ Cardinality(shares) < MaxShares
    /\ shares' = shares \cup {s}

Seal(ts, rs, epoch) ==
    /\ payloads < MaxPayload
    /\ CanSeal(ts, rs)
    /\ payloads' = payloads + 1
    /\ Make(seal_mixed(ts, rs, epoch, payloads + 1))
    /\ UNCHANGED <<signed, granted>>

AddRecipient(s, k, t) ==
    /\ CanAdd(s, k, t)
    /\ Make(add_recipient(s, k, t))
    /\ UNCHANGED <<payloads, signed, granted>>

Rotate(s, k, ts, epoch) ==
    /\ CanRotate(s, k, ts)
    /\ Make(rotate(s, k, ts, epoch))
    /\ UNCHANGED <<payloads, signed, granted>>

TransformRecrypt(s, from, to, key, i) ==
    /\ CanTransform(s, from, to, key, i)
    /\ Make(transform_recrypt(s, to, key, i))
    /\ UNCHANGED <<payloads, signed, granted>>

GrantAccess(s, signer, mode) ==
    /\ ModeFits(mode, s)
    /\ Cardinality(granted) < MaxGrants
    /\ signed' = signed \cup {Body(s, signer, mode)}
    /\ granted' = granted \cup {[signer |-> signer, share |-> s]}
    /\ UNCHANGED <<payloads, shares>>

Next ==
    \/ \E ts \in Lists(Target), rs \in Lists(Pre), e \in Epoch : Seal(ts, rs, e)
    \/ \E s \in shares, k \in Secret, t \in Target : AddRecipient(s, k, t)
    \/ \E s \in shares, k \in Secret, ts \in Lists(Target), e \in Epoch :
          Rotate(s, k, ts, e)
    \/ \E s \in shares, from, to \in Pre, key \in Pre \X Pre :
          \E i \in 1 .. Len(s.recrypt) : TransformRecrypt(s, from, to, key, i)
    \/ \E s \in shares, x \in Signer, m \in Mode : GrantAccess(s, x, m)

Spec == Init /\ [][Next]_vars

-----------------------------------------------------------------------------
TypeOK ==
    /\ payloads \in 0 .. MaxPayload
    /\ shares \subseteq Share
    /\ \A b \in signed : /\ b.content \in Payload /\ b.epoch \in Epoch
                         /\ b.mode \in Mode /\ b.signer \in Signer
                         /\ b.pq \in {"none", "ml-dsa"}
    /\ \A h \in granted : h.signer \in Signer /\ h.share \in shares

\* Every share made by any sequence of seal_mixed, add_recipient, rotate and
\* transform_recrypt survives encoding: Share::from_cbor accepts it.
Decodable == \A s \in shares : from_cbor_accepts(s)

Holders(ts) == {HolderOf[t] : t \in Elems(ts)}

Openers(s) == {k \in Secret : Opens(s, k)}

\* "Every listed direct recipient can open" (identikey-share-v1.md, section 1),
\* and nobody else opens a wrap: through any history of additions and rotations
\* a share opens for exactly the holders of its targets (Share::open).
ListedOpen == \A s \in shares : Openers(s) = Holders(s.targets)

\* Whoever can decapsulate one of the capsules.
RecryptOpeners(s) == {r \in Pre : \E to \in Pre : OpensRecrypt(s, to, r)}

\* A grant that verifies for a share was signed by its signer for a share with
\* the same content and epoch that the same keys could open, directly and
\* through capsules, with an ML-DSA signature if the verifier requires one
\* (verify_grant, access_commitment): wraps are not signed, yet no history of
\* rewraps lends a grant to another access set.
GrantSound ==
    \A g \in Wire, s \in shares, required \in BOOLEAN :
        verify_grant(g, s, required) =>
            \E h \in granted :
                /\ h.signer = g.body.signer
                /\ h.share.payload = s.payload
                /\ h.share.epoch = s.epoch
                /\ Openers(h.share) = Openers(s)
                /\ RecryptOpeners(h.share) = RecryptOpeners(s)
                /\ required => h.signer \in PqSigner

\* Handing a share on takes access from nobody and gives it to the one named:
\* what add_recipient and transform_recrypt return for any share and opener
\* opens for the earlier readers and the new one, save the capsule's last.
HandingOn ==
    \A s \in shares :
        /\ \A k \in Secret, t \in Target : CanAdd(s, k, t) =>
               /\ Openers(add_recipient(s, k, t)) = Openers(s) \cup {HolderOf[t]}
               /\ RecryptOpeners(add_recipient(s, k, t)) = RecryptOpeners(s)
        /\ \A from, to \in Pre, i \in 1 .. Len(s.recrypt) :
               LET key == <<s.recrypt[i].for, to>>
                   new == transform_recrypt(s, to, key, i)
               IN  CanTransform(s, from, to, key, i) =>
                       /\ Openers(new) = Openers(s)
                       /\ to \in RecryptOpeners(new)
                       /\ RecryptOpeners(s) \ {s.recrypt[i].for}
                              \subseteq RecryptOpeners(new)
=============================================================================
