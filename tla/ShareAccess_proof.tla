------------------------- MODULE ShareAccess_proof -------------------------
(***************************************************************************)
(* Proofs about ShareAccess, for every set of keys, recipients, signers    *)
(* and epochs and any number of shares and grants.                         *)
(*                                                                         *)
(* What makes a share work is a relation between its lists that every      *)
(* operation must keep (Sound): wraps and targets pair up, all wraps and   *)
(* capsules hold the payload's own key, and no recipient occurs twice.     *)
(* Without the last part the first of two wraps would decide, and the      *)
(* commitment, which forgets order, would not determine who can open.      *)
(***************************************************************************)
EXTENDS ShareAccess, TLAPS

Paired(s) ==
    /\ Len(s.wraps) = Len(s.targets)
    /\ \A i \in 1 .. Len(s.wraps) :
           /\ s.wraps[i].recipient = Enc[s.targets[i]]
           /\ s.wraps[i].dek = s.payload
           /\ s.wraps[i].epoch = s.epoch

Distinct(s) ==
    /\ \A i, j \in 1 .. Len(s.wraps) :
           s.wraps[i].recipient = s.wraps[j].recipient => i = j
    /\ \A i, j \in 1 .. Len(s.recrypt) :
           s.recrypt[i].to = s.recrypt[j].to => i = j

Readable(s) ==
    /\ s.wraps # <<>> \/ s.recrypt # <<>>
    /\ \A i \in 1 .. Len(s.recrypt) : s.recrypt[i].dek = s.payload

Sound(s) == s \in Share /\ Paired(s) /\ Distinct(s) /\ Readable(s)

\* Every signed body states what the signer saw.
Recorded ==
    \A b \in signed : \E h \in granted :
        b = [content |-> h.share.payload, commitment |-> access_commitment(h.share),
             epoch |-> h.share.epoch, mode |-> b.mode, signer |-> h.signer,
             pq |-> pq_alg(h.signer)] /\ b.mode \in Mode

ShareInv ==
    /\ payloads \in 0 .. MaxPayload
    /\ \A s \in shares : Sound(s)
    /\ \A h \in granted : h.signer \in Signer /\ h.share \in shares
    /\ Recorded

-----------------------------------------------------------------------------
(* Lists, wraps and single shares. *)

\* Recipient lists, as callers pass them, are sequences.
LEMMA ListsAreSequences ==
    ASSUME NEW S, NEW l \in Lists(S)
    PROVE  l \in Seq(S)
  BY ShareAssumption DEF Lists

\* Share::open_dek of a sound share returns the payload's key.
LEMMA OpenDek ==
    ASSUME NEW s, Sound(s), NEW k \in Secret, CanOpenDek(s, k)
    PROVE  open_dek(s, k) = s.payload
  <1> DEFINE M == Matching(s, k)
  <1>1. PICK i \in M : TRUE
    BY DEF CanOpenDek
  <1>2. \A j \in M : j = i
    BY <1>1 DEF Matching, Sound, Distinct
  <1>3. i \in 1 .. Len(s.wraps) /\ Len(s.wraps) \in Nat
    BY <1>1 DEF Matching, Sound, Share
  <1>4. \A j \in M : i <= j
    BY <1>2, <1>3
  <1> DEFINE first == CHOOSE x \in M : \A j \in M : x <= j
  <1>5. first = i
    <2> HIDE DEF M
    <2>1. first \in M
      BY <1>1, <1>4, Zenon
    <2> QED BY <2>1, <1>2
  <1>6. s.wraps[i].dek = s.payload
    BY <1>3 DEF Sound, Paired
  <1> QED BY <1>5, <1>6 DEF open_dek

\* A sound share opens for the secrets whose recipient bytes a target has.
LEMMA OpenersOf ==
    ASSUME NEW s, Sound(s)
    PROVE  Openers(s) = {k \in Secret :
                             \E t \in Elems(s.targets) : Enc[t] = Enc[PublicOf[k]]}
  <1>1. s.targets \in Seq(Target) /\ s.wraps \in Seq(Wrap)
    BY DEF Sound, Share
  <1>2. ASSUME NEW k \in Secret
        PROVE  Opens(s, k) <=> \E t \in Elems(s.targets) : Enc[t] = Enc[PublicOf[k]]
    <2>1. Opens(s, k) <=> CanOpenDek(s, k)
      BY OpenDek DEF Opens
    <2>2. CanOpenDek(s, k) <=> \E i \in 1 .. Len(s.wraps) : s.wraps[i].recipient = Enc[PublicOf[k]]
      BY DEF CanOpenDek, Matching
    <2>3. \A i \in 1 .. Len(s.wraps) : s.wraps[i].recipient = Enc[s.targets[i]]
      BY DEF Sound, Paired
    <2>4. DOMAIN s.targets = 1 .. Len(s.wraps)
      BY <1>1 DEF Sound, Paired
    <2> QED BY <2>1, <2>2, <2>3, <2>4 DEF Elems
  <1> QED BY <1>2 DEF Openers

\* The readers of a sound share's capsules do not depend on their order.
LEMMA RecryptOpenersOf ==
    ASSUME NEW s, Sound(s)
    PROVE  RecryptOpeners(s) = {r \in Pre : \E c \in Elems(s.recrypt) : c.for = r}
  <1>1. s.recrypt \in Seq(Capsule)
    BY DEF Sound, Share
  <1>2. ASSUME NEW r \in Pre
        PROVE  (\E to \in Pre : OpensRecrypt(s, to, r))
               <=> \E c \in Elems(s.recrypt) : c.for = r
    <2>1. ASSUME NEW to \in Pre, OpensRecrypt(s, to, r)
          PROVE  \E c \in Elems(s.recrypt) : c.for = r
      BY <1>1, <2>1 DEF OpensRecrypt, Elems
    <2>2. ASSUME NEW i \in DOMAIN s.recrypt, s.recrypt[i].for = r
          PROVE  \E to \in Pre : OpensRecrypt(s, to, r)
      <3>1. i \in 1 .. Len(s.recrypt) /\ Len(s.recrypt) \in Nat
        BY <1>1, <2>2
      <3>2. s.recrypt[i].to \in Pre
        <4>1. s.recrypt[i] \in Capsule
          BY <1>1, <3>1
        <4> QED BY <4>1 DEF Capsule
      <3>4. s.recrypt[i].dek = s.payload
        BY <3>1 DEF Sound, Readable
      <3>3. \A j \in 1 .. i - 1 : s.recrypt[j].to # s.recrypt[i].to
        BY <3>1 DEF Sound, Distinct
      <3> QED BY <2>2, <3>1, <3>2, <3>3, <3>4 DEF OpensRecrypt
    <2> QED BY <2>1, <2>2 DEF Elems
  <1> QED BY <1>2 DEF RecryptOpeners

\* Equal commitments mean the same readers, directly and through capsules,
\* although the commitment covers neither the wraps nor any order.
LEMMA CommitmentDecides ==
    ASSUME NEW s, NEW u, Sound(s), Sound(u),
           access_commitment(s) = access_commitment(u)
    PROVE  Openers(s) = Openers(u) /\ RecryptOpeners(s) = RecryptOpeners(u)
  <1>1. Count(s.targets) = Count(u.targets) /\ Count(s.recrypt) = Count(u.recrypt)
    BY DEF access_commitment
  <1>2. \A q : DOMAIN Count(q) = Elems(q)
    BY DEF Count
  <1>3. Elems(s.targets) = Elems(u.targets) /\ Elems(s.recrypt) = Elems(u.recrypt)
    BY <1>1, <1>2
  <1>4. Openers(s) = Openers(u)
    BY <1>3, OpenersOf
  <1>5. RecryptOpeners(s) = RecryptOpeners(u)
    BY <1>3, RecryptOpenersOf
  <1> QED BY <1>4, <1>5
-----------------------------------------------------------------------------
(* Every operation makes a sound share of sound shares. *)

\* A list of targets without duplicates gives paired, distinct wraps.
LEMMA WrapsForSound ==
    ASSUME NEW ts \in Seq(Target), NEW dek \in Payload, NEW epoch \in Epoch,
           reject_duplicate_direct(ts)
    PROVE  LET w == WrapsFor(ts, dek, epoch)
           IN  /\ w \in Seq(Wrap) /\ Len(w) = Len(ts)
               /\ \A i \in 1 .. Len(w) : /\ w[i].recipient = Enc[ts[i]]
                                         /\ w[i].dek = dek /\ w[i].epoch = epoch
               /\ \A i, j \in 1 .. Len(w) : w[i].recipient = w[j].recipient => i = j
  <1> DEFINE w == WrapsFor(ts, dek, epoch)
  <1>0. Len(ts) \in Nat
    OBVIOUS
  <1>1. \A i \in 1 .. Len(ts) : ts[i] \in Target /\ Enc[ts[i]] \in Recipient
    BY ShareAssumption
  <1>2. \A i \in 1 .. Len(ts) : seal(ts[i], dek, epoch) \in Wrap
    BY <1>1 DEF seal, Wrap
  <1>3. w = [i \in 1 .. Len(ts) |-> seal(ts[i], dek, epoch)]
    BY DEF WrapsFor
  <1> HIDE DEF w
  <1>4. w \in Seq(Wrap) /\ Len(w) = Len(ts)
    BY <1>0, <1>2, <1>3
  <1>5. \A i \in 1 .. Len(w) : w[i] = seal(ts[i], dek, epoch)
    BY <1>3, <1>4
  <1>6. \A i \in 1 .. Len(w) : /\ w[i].recipient = Enc[ts[i]]
                               /\ w[i].dek = dek /\ w[i].epoch = epoch
    <2> SUFFICES ASSUME NEW i \in 1 .. Len(w)
                 PROVE  /\ w[i].recipient = Enc[ts[i]]
                        /\ w[i].dek = dek /\ w[i].epoch = epoch
      OBVIOUS
    <2>1. w[i] = [recipient |-> Enc[ts[i]], dek |-> dek, epoch |-> epoch]
      BY <1>5 DEF seal
    <2> QED BY <2>1
  <1>7. \A i, j \in 1 .. Len(w) : w[i].recipient = w[j].recipient => i = j
    BY <1>4, <1>6 DEF reject_duplicate_direct
  <1> QED BY <1>4, <1>6, <1>7 DEF w

\* seal_mixed.
LEMMA SealSound ==
    ASSUME NEW ts \in Seq(Target), NEW rs \in Seq(Pre), NEW epoch \in Epoch,
           NEW c \in Payload, CanSeal(ts, rs)
    PROVE  Sound(seal_mixed(ts, rs, epoch, c))
  <1> DEFINE s == seal_mixed(ts, rs, epoch, c)
             w == WrapsFor(ts, c, epoch)
             q == [i \in 1 .. Len(rs) |-> encapsulate(rs[i], c)]
  <1>1. /\ s.epoch = epoch /\ s.payload = c /\ s.wraps = w
        /\ s.targets = ts /\ s.recrypt = q
        /\ s = [epoch |-> epoch, payload |-> c, wraps |-> w, targets |-> ts,
                recrypt |-> q]
    BY DEF seal_mixed
  <1>2. /\ w \in Seq(Wrap) /\ Len(w) = Len(ts)
        /\ \A i \in 1 .. Len(w) : /\ w[i].recipient = Enc[ts[i]]
                                  /\ w[i].dek = c /\ w[i].epoch = epoch
        /\ \A i, j \in 1 .. Len(w) : w[i].recipient = w[j].recipient => i = j
    BY WrapsForSound DEF CanSeal
  <1>3. Len(rs) \in Nat /\ \A i \in 1 .. Len(rs) : encapsulate(rs[i], c) \in Capsule
    BY DEF encapsulate, Capsule
  <1>4. q \in Seq(Capsule) /\ Len(q) = Len(rs)
    BY <1>3
  <1>5. \A i \in 1 .. Len(q) : q[i].to = rs[i] /\ q[i].dek = c
    BY <1>4 DEF encapsulate
  <1> HIDE DEF s, w, q
  <1>6. \A i, j \in 1 .. Len(q) : q[i].to = q[j].to => i = j
    BY <1>4, <1>5 DEF CanSeal, reject_duplicate_recrypt
  <1>7. w # <<>> \/ q # <<>>
    BY <1>2, <1>4 DEF CanSeal
  <1>8. s \in Share
    BY <1>1, <1>2, <1>4 DEF Share
  <1>9. Sound(s)
    BY <1>1, <1>2, <1>5, <1>6, <1>7, <1>8 DEF Sound, Paired, Distinct, Readable
  <1> QED BY <1>9 DEF s

\* Share::rotate.
LEMMA RotateSound ==
    ASSUME NEW s, Sound(s), NEW k \in Secret, NEW ts \in Seq(Target),
           NEW epoch \in Epoch, CanRotate(s, k, ts)
    PROVE  Sound(rotate(s, k, ts, epoch))
  <1> DEFINE n == rotate(s, k, ts, epoch)
             w == WrapsFor(ts, s.payload, epoch)
  <1>1. n = [epoch |-> epoch, payload |-> s.payload, wraps |-> w, targets |-> ts,
             recrypt |-> <<>>]
    BY OpenDek DEF rotate, CanRotate
  <1>2. s.payload \in Payload
    BY DEF Sound, Share
  <1>3. /\ w \in Seq(Wrap) /\ Len(w) = Len(ts)
        /\ \A i \in 1 .. Len(w) : /\ w[i].recipient = Enc[ts[i]]
                                  /\ w[i].dek = s.payload /\ w[i].epoch = epoch
        /\ \A i, j \in 1 .. Len(w) : w[i].recipient = w[j].recipient => i = j
    BY <1>2, WrapsForSound DEF CanRotate
  <1>4. w # <<>>
    BY <1>3 DEF CanRotate
  <1> HIDE DEF n, w
  <1>5. /\ n.epoch = epoch /\ n.payload = s.payload /\ n.wraps = w
        /\ n.targets = ts /\ n.recrypt = <<>>
    BY <1>1
  <1>6. <<>> \in Seq(Capsule) /\ Len(<<>>) = 0
    OBVIOUS
  <1>7. n \in Share
    BY <1>1, <1>2, <1>3, <1>6 DEF Share
  <1>8. Sound(n)
    BY <1>3, <1>4, <1>5, <1>6, <1>7 DEF Sound, Paired, Distinct, Readable
  <1> QED BY <1>8 DEF n

\* Share::add_recipient.
LEMMA AddSound ==
    ASSUME NEW s, Sound(s), NEW k \in Secret, NEW t \in Target, CanAdd(s, k, t)
    PROVE  Sound(add_recipient(s, k, t))
  <1> DEFINE n == add_recipient(s, k, t)
             x == seal(t, s.payload, s.epoch)
  <1>1. n = [epoch |-> s.epoch, payload |-> s.payload, wraps |-> Append(s.wraps, x),
             targets |-> Append(s.targets, t), recrypt |-> s.recrypt]
    BY OpenDek DEF add_recipient, CanAdd
  <1>2. s \in Share
    BY DEF Sound
  <1>3. /\ s.epoch \in Epoch /\ s.payload \in Payload /\ s.wraps \in Seq(Wrap)
        /\ s.targets \in Seq(Target) /\ s.recrypt \in Seq(Capsule)
    BY <1>2 DEF Share
  <1>4. x \in Wrap /\ x.recipient = Enc[t] /\ x.dek = s.payload /\ x.epoch = s.epoch
    BY <1>3, ShareAssumption DEF seal, Wrap
  <1> HIDE DEF n, x
  <1>5. /\ n.epoch = s.epoch /\ n.payload = s.payload /\ n.recrypt = s.recrypt
        /\ n.wraps = Append(s.wraps, x) /\ n.targets = Append(s.targets, t)
    BY <1>1, <1>2 DEF Share
  <1>6. n \in Share
    BY <1>1, <1>2, <1>3, <1>4 DEF Share
  <1>7. /\ Len(n.wraps) = Len(s.wraps) + 1 /\ Len(n.targets) = Len(s.targets) + 1
        /\ Len(s.wraps) = Len(s.targets) /\ Len(s.wraps) \in Nat
        /\ \A i \in 1 .. Len(s.wraps) : n.wraps[i] = s.wraps[i] /\ n.targets[i] = s.targets[i]
        /\ n.wraps[Len(s.wraps) + 1] = x /\ n.targets[Len(s.wraps) + 1] = t
    BY <1>3, <1>4, <1>5 DEF Sound, Paired
  <1>8. Paired(n)
    <2>1. ASSUME NEW i \in 1 .. Len(n.wraps)
          PROVE  /\ n.wraps[i].recipient = Enc[n.targets[i]]
                 /\ n.wraps[i].dek = n.payload /\ n.wraps[i].epoch = n.epoch
      <3>1. CASE i \in 1 .. Len(s.wraps)
        BY <1>5, <1>7, <3>1 DEF Sound, Paired
      <3>2. CASE i = Len(s.wraps) + 1
        BY <1>4, <1>5, <1>7, <3>2
      <3> QED BY <1>7, <3>1, <3>2
    <2> QED BY <1>7, <2>1 DEF Paired
  <1>9. Distinct(n)
    <2>1. \A i \in 1 .. Len(s.wraps) : s.wraps[i].recipient # x.recipient
      BY <1>4 DEF CanAdd
    <2>2. ASSUME NEW i \in 1 .. Len(n.wraps), NEW j \in 1 .. Len(n.wraps),
                 n.wraps[i].recipient = n.wraps[j].recipient
          PROVE  i = j
      <3>1. CASE i \in 1 .. Len(s.wraps) /\ j \in 1 .. Len(s.wraps)
        BY <1>7, <2>2, <3>1 DEF Sound, Distinct
      <3>2. CASE i = Len(s.wraps) + 1 /\ j \in 1 .. Len(s.wraps)
        BY <1>7, <2>1, <2>2, <3>2
      <3>3. CASE j = Len(s.wraps) + 1 /\ i \in 1 .. Len(s.wraps)
        BY <1>7, <2>1, <2>2, <3>3
      <3> QED BY <1>7, <3>1, <3>2, <3>3
    <2> QED BY <1>5, <2>2 DEF Sound, Distinct
  <1>10. Readable(n)
    <2>1. n.wraps # <<>>
      BY <1>7
    <2> QED BY <1>5, <2>1 DEF Readable, Sound
  <1>11. Sound(n)
    BY <1>6, <1>8, <1>9, <1>10 DEF Sound
  <1> QED BY <1>11 DEF n

\* Share::transform_recrypt.
LEMMA TransformSound ==
    ASSUME NEW s, Sound(s), NEW from \in Pre, NEW to \in Pre,
           NEW key \in Pre \X Pre, NEW i \in 1 .. Len(s.recrypt),
           CanTransform(s, from, to, key, i)
    PROVE  Sound(transform_recrypt(s, to, key, i))
  <1> DEFINE n == transform_recrypt(s, to, key, i)
             c == [to |-> to, for |-> key[2], dek |-> s.recrypt[i].dek]
             q == [s.recrypt EXCEPT ![i] = c]
  <1>1. s \in Share /\ n = [s EXCEPT !.recrypt = q]
    BY DEF transform_recrypt, Sound
  <1>2. /\ s.epoch \in Epoch /\ s.payload \in Payload /\ s.wraps \in Seq(Wrap)
        /\ s.targets \in Seq(Target) /\ s.recrypt \in Seq(Capsule)
    BY <1>1 DEF Share
  <1>3. s.recrypt[i].dek = s.payload
    BY DEF Sound, Readable
  <1>4. c \in Capsule /\ c.to = to /\ c.dek = s.payload
    BY <1>2, <1>3 DEF Capsule
  <1> HIDE DEF c
  <1>5. /\ q \in Seq(Capsule) /\ Len(q) = Len(s.recrypt) /\ q[i] = c
        /\ \A j \in 1 .. Len(q) : j # i => q[j] = s.recrypt[j]
    BY <1>2, <1>4
  <1> HIDE DEF q, n
  <1>6. /\ n.epoch = s.epoch /\ n.payload = s.payload /\ n.wraps = s.wraps
        /\ n.targets = s.targets /\ n.recrypt = q
    BY <1>1 DEF Share
  <1>7. n \in Share
    BY <1>1, <1>5 DEF Share
  <1>8. Paired(n)
    BY <1>6 DEF Sound, Paired
  <1>9. Distinct(n)
    <2>1. ASSUME NEW j \in 1 .. Len(q), NEW l \in 1 .. Len(q), q[j].to = q[l].to
          PROVE  j = l
      <3>1. CASE j # i /\ l # i
        BY <1>5, <2>1, <3>1 DEF Sound, Distinct
      <3>2. CASE j = i /\ l # i
        BY <1>4, <1>5, <2>1, <3>2 DEF CanTransform
      <3>3. CASE j # i /\ l = i
        BY <1>4, <1>5, <2>1, <3>3 DEF CanTransform
      <3> QED BY <3>1, <3>2, <3>3
    <2> QED BY <1>6, <2>1 DEF Sound, Distinct
  <1>10. Readable(n)
    <2>1. ASSUME NEW j \in 1 .. Len(q)
          PROVE  q[j].dek = s.payload
      BY <1>4, <1>5 DEF Sound, Readable
    <2>2. q # <<>>
      BY <1>5
    <2> QED BY <1>6, <2>1, <2>2 DEF Readable
  <1>11. Sound(n)
    BY <1>7, <1>8, <1>9, <1>10 DEF Sound
  <1> QED BY <1>11 DEF n
-----------------------------------------------------------------------------
(* The specification. *)

LEMMA InitShareInv == Init => ShareInv
  BY ShareAssumption DEF Init, ShareInv, Recorded

\* Adding one sound share keeps the invariant.
LEMMA MakeKeeps ==
    ASSUME ShareInv, NEW n, Sound(n), Make(n),
           payloads' \in 0 .. MaxPayload, UNCHANGED <<signed, granted>>
    PROVE  ShareInv'
  <1>1. shares' = shares \cup {n} /\ signed' = signed /\ granted' = granted
    BY DEF Make
  <1>2. \A s \in shares' : Sound(s)
    BY <1>1 DEF ShareInv
  <1>3. \A h \in granted' : h.signer \in Signer /\ h.share \in shares'
    BY <1>1 DEF ShareInv
  <1>4. Recorded'
    BY <1>1 DEF ShareInv, Recorded
  <1> QED BY <1>2, <1>3, <1>4 DEF ShareInv

\* grant_access keeps the invariant.
LEMMA GrantKeeps ==
    ASSUME ShareInv, NEW s \in shares, NEW x \in Signer, NEW m \in Mode,
           GrantAccess(s, x, m)
    PROVE  ShareInv'
  <1> DEFINE h == [signer |-> x, share |-> s]
  <1>1. /\ signed' = signed \cup {Body(s, x, m)} /\ granted' = granted \cup {h}
        /\ shares' = shares /\ payloads' = payloads
    BY DEF GrantAccess
  <1>2. \A g \in granted' : g.signer \in Signer /\ g.share \in shares'
    BY <1>1 DEF ShareInv
  <1>3. Recorded'
    <2>1. ASSUME NEW b \in signed'
          PROVE  \E g \in granted' :
                    b = [content |-> g.share.payload,
                         commitment |-> access_commitment(g.share),
                         epoch |-> g.share.epoch, mode |-> b.mode,
                         signer |-> g.signer, pq |-> pq_alg(g.signer)]
                    /\ b.mode \in Mode
      <3>1. CASE b \in signed
        BY <1>1, <3>1 DEF ShareInv, Recorded
      <3>2. CASE b = Body(s, x, m)
        <4>1. h \in granted' /\ h.share = s /\ h.signer = x
          BY <1>1
        <4>2. b.mode = m
          BY <3>2 DEF Body
        <4> QED BY <3>2, <4>1, <4>2 DEF Body
      <3> QED BY <1>1, <3>1, <3>2
    <2> QED BY <2>1 DEF Recorded
  <1> QED BY <1>1, <1>2, <1>3 DEF ShareInv

LEMMA NextShareInv == ShareInv /\ [Next]_vars => ShareInv'
  <1> SUFFICES ASSUME ShareInv, [Next]_vars PROVE ShareInv'
    OBVIOUS
  <1>0. MaxPayload \in Nat /\ payloads \in 0 .. MaxPayload /\ \A s \in shares : Sound(s)
    BY ShareAssumption DEF ShareInv
  <1>1. ASSUME NEW ts \in Lists(Target), NEW rs \in Lists(Pre), NEW e \in Epoch,
               Seal(ts, rs, e)
        PROVE  ShareInv'
    <2>1. ts \in Seq(Target) /\ rs \in Seq(Pre)
      BY ListsAreSequences
    <2>2. payloads + 1 \in Payload /\ payloads' \in 0 .. MaxPayload
      BY <1>0, <1>1 DEF Seal, Payload
    <2>3. Sound(seal_mixed(ts, rs, e, payloads + 1))
      BY <1>1, <2>1, <2>2, SealSound DEF Seal
    <2> QED BY <1>1, <2>2, <2>3, MakeKeeps DEF Seal
  <1>2. ASSUME NEW s \in shares, NEW k \in Secret, NEW t \in Target,
               AddRecipient(s, k, t)
        PROVE  ShareInv'
    <2>1. Sound(add_recipient(s, k, t))
      BY <1>0, <1>2, AddSound DEF AddRecipient
    <2> QED BY <1>0, <1>2, <2>1, MakeKeeps DEF AddRecipient
  <1>3. ASSUME NEW s \in shares, NEW k \in Secret, NEW ts \in Lists(Target),
               NEW e \in Epoch, Rotate(s, k, ts, e)
        PROVE  ShareInv'
    <2>1. ts \in Seq(Target)
      BY ListsAreSequences
    <2>2. Sound(rotate(s, k, ts, e))
      BY <1>0, <1>3, <2>1, RotateSound DEF Rotate
    <2> QED BY <1>0, <1>3, <2>2, MakeKeeps DEF Rotate
  <1>4. ASSUME NEW s \in shares, NEW from \in Pre, NEW to \in Pre,
               NEW key \in Pre \X Pre, NEW i \in 1 .. Len(s.recrypt),
               TransformRecrypt(s, from, to, key, i)
        PROVE  ShareInv'
    <2>1. Sound(transform_recrypt(s, to, key, i))
      BY <1>0, <1>4, TransformSound DEF TransformRecrypt
    <2> QED BY <1>0, <1>4, <2>1, MakeKeeps DEF TransformRecrypt
  <1>5. ASSUME NEW s \in shares, NEW x \in Signer, NEW m \in Mode, GrantAccess(s, x, m)
        PROVE  ShareInv'
    BY <1>5, GrantKeeps
  <1>6. CASE UNCHANGED vars
    BY <1>6 DEF vars, ShareInv, Recorded
  <1> QED BY <1>1, <1>2, <1>3, <1>4, <1>5, <1>6 DEF Next

LEMMA ShareInvAlways == Spec => []ShareInv
  BY InitShareInv, NextShareInv, PTL DEF Spec

\* Every reachable state is well typed: what seal_mixed, add_recipient, rotate
\* and transform_recrypt return are shares, and only shares are granted.
THEOREM TypeCorrect == Spec => []TypeOK
  <1>1. ShareInv => TypeOK
    <2> SUFFICES ASSUME ShareInv PROVE TypeOK
      OBVIOUS
    <2>1. shares \subseteq Share
      BY DEF ShareInv, Sound
    <2>2. ASSUME NEW b \in signed
          PROVE  /\ b.content \in Payload /\ b.epoch \in Epoch
                 /\ b.mode \in Mode /\ b.signer \in Signer /\ b.pq \in {"none", "ml-dsa"}
      <3>1. PICK h \in granted :
                b = [content |-> h.share.payload,
                     commitment |-> access_commitment(h.share),
                     epoch |-> h.share.epoch, mode |-> b.mode,
                     signer |-> h.signer, pq |-> pq_alg(h.signer)]
                /\ b.mode \in Mode
        BY DEF ShareInv, Recorded
      <3>2. h.share \in Share /\ h.signer \in Signer
        BY <2>1 DEF ShareInv
      <3>3. h.share.payload \in Payload /\ h.share.epoch \in Epoch
        BY <3>2 DEF Share
      <3>4. b.pq = pq_alg(h.signer)
        BY <3>1
      <3>5. b.pq \in {"none", "ml-dsa"}
        BY <3>4 DEF pq_alg
      <3>6. /\ b.content = h.share.payload /\ b.epoch = h.share.epoch
            /\ b.signer = h.signer /\ b.mode \in Mode
        BY <3>1
      <3> QED BY <3>2, <3>3, <3>5, <3>6
    <2> QED BY <2>1, <2>2 DEF ShareInv, TypeOK
  <1> QED BY <1>1, ShareInvAlways, PTL

\* Whatever the operations produce, Share::from_cbor accepts.
THEOREM DecodableAlways == Spec => []Decodable
  <1>1. ShareInv => Decodable
    BY DEF ShareInv, Sound, Paired, Readable, Decodable, from_cbor_accepts
  <1> QED BY <1>1, ShareInvAlways, PTL

\* If every target is written in the one way WrapSecret::public writes it, or
\* goes to the same recipient bytes, a share opens for exactly the holders of
\* its targets (Share::open), whatever was added and rotated before.
THEOREM ListedOpenAlways ==
    (\A t \in Target : Enc[t] = Enc[PublicOf[HolderOf[t]]]) => (Spec => []ListedOpen)
  <1> SUFFICES ASSUME \A t \in Target : Enc[t] = Enc[PublicOf[HolderOf[t]]]
               PROVE  Spec => []ListedOpen
    OBVIOUS
  <1>1. ShareInv => ListedOpen
    <2> SUFFICES ASSUME ShareInv, NEW s \in shares
                 PROVE  Openers(s) = Holders(s.targets)
      BY DEF ListedOpen
    <2>1. Sound(s) /\ s.targets \in Seq(Target)
      BY DEF ShareInv, Sound, Share
    <2>2. Elems(s.targets) \subseteq Target
      BY <2>1 DEF Elems
    <2>3. Openers(s) = {k \in Secret :
                            \E t \in Elems(s.targets) : Enc[t] = Enc[PublicOf[k]]}
      BY <2>1, OpenersOf
    <2>4. ASSUME NEW k \in Secret, NEW t \in Elems(s.targets), Enc[t] = Enc[PublicOf[k]]
          PROVE  k = HolderOf[t]
      BY <2>2, <2>4, ShareAssumption
    <2>5. ASSUME NEW t \in Elems(s.targets)
          PROVE  HolderOf[t] \in Secret /\ Enc[t] = Enc[PublicOf[HolderOf[t]]]
      BY <2>2, ShareAssumption
    <2> QED BY <2>3, <2>4, <2>5 DEF Holders
  <1> QED BY <1>1, ShareInvAlways, PTL

\* A grant that verifies for a share was signed for the same content and epoch
\* and for a share that the same keys open (grant_access, verify_grant).
THEOREM GrantSoundAlways == Spec => []GrantSound
  <1>1. ShareInv => GrantSound
    <2> SUFFICES ASSUME ShareInv, NEW g \in Wire, NEW s \in shares,
                        NEW required \in BOOLEAN, verify_grant(g, s, required)
                 PROVE  \E h \in granted :
                            /\ h.signer = g.body.signer
                            /\ h.share.payload = s.payload
                            /\ h.share.epoch = s.epoch
                            /\ Openers(h.share) = Openers(s)
                            /\ RecryptOpeners(h.share) = RecryptOpeners(s)
                            /\ required => h.signer \in PqSigner
      BY DEF GrantSound
    <2>1. g.ed \in signed
      BY DEF Wire
    <2>2. /\ g.body \in signed /\ g.body.content = s.payload
          /\ g.body.commitment = access_commitment(s) /\ g.body.epoch = s.epoch
          /\ required => g.body.pq = "ml-dsa"
      BY <2>1 DEF verify_grant
    <2>3. PICK h \in granted :
              g.body = [content |-> h.share.payload,
                        commitment |-> access_commitment(h.share),
                        epoch |-> h.share.epoch, mode |-> g.body.mode,
                        signer |-> h.signer, pq |-> pq_alg(h.signer)]
      BY <2>2 DEF ShareInv, Recorded
    <2>4. /\ h.share.payload = s.payload /\ h.share.epoch = s.epoch
          /\ h.signer = g.body.signer
          /\ access_commitment(h.share) = access_commitment(s)
      BY <2>2, <2>3
    <2>5. required => h.signer \in PqSigner
      <3>1. g.body.pq = pq_alg(h.signer)
        BY <2>3
      <3> QED BY <2>2, <3>1 DEF pq_alg
    <2>6. Sound(s) /\ Sound(h.share)
      BY DEF ShareInv
    <2>7. Openers(h.share) = Openers(s) /\ RecryptOpeners(h.share) = RecryptOpeners(s)
      BY <2>4, <2>6, CommitmentDecides
    <2> QED BY <2>4, <2>5, <2>7
  <1> QED BY <1>1, ShareInvAlways, PTL
-----------------------------------------------------------------------------
(* What a share becomes when it is handed on. *)

\* add_recipient: its readers are the old ones and the secrets that have the
\* new target's recipient bytes, and its capsules keep theirs.
LEMMA AddReaders ==
    ASSUME NEW s, Sound(s), NEW k \in Secret, NEW t \in Target, CanAdd(s, k, t)
    PROVE  LET new == add_recipient(s, k, t)
           IN  /\ Openers(new) = Openers(s) \cup
                                 {x \in Secret : Enc[t] = Enc[PublicOf[x]]}
               /\ RecryptOpeners(new) = RecryptOpeners(s)
  <1> DEFINE new == add_recipient(s, k, t)
  <1>1. new.targets = Append(s.targets, t) /\ new.recrypt = s.recrypt
    BY DEF add_recipient
  <1>2. Sound(new)
    BY AddSound
  <1> HIDE DEF new
  <1>3. s.targets \in Seq(Target)
    BY DEF Sound, Share
  <1>4. Elems(new.targets) = Elems(s.targets) \cup {t}
    <2>1. DOMAIN new.targets = DOMAIN s.targets \cup {Len(s.targets) + 1}
      BY <1>1, <1>3
    <2>2. /\ new.targets[Len(s.targets) + 1] = t
          /\ \A i \in DOMAIN s.targets : new.targets[i] = s.targets[i]
      BY <1>1, <1>3
    <2> QED BY <2>1, <2>2 DEF Elems
  <1>5. Openers(new) = Openers(s) \cup {x \in Secret : Enc[t] = Enc[PublicOf[x]]}
    BY <1>2, <1>4, OpenersOf
  <1>6. RecryptOpeners(new) = RecryptOpeners(s)
    BY <1>1, <1>2, RecryptOpenersOf
  <1> QED BY <1>5, <1>6 DEF new

\* transform_recrypt with a key made for to: the direct readers stay, to reads
\* a capsule, and at most the one the capsule was encrypted to stops.
LEMMA TransformReaders ==
    ASSUME NEW s, Sound(s), NEW from \in Pre, NEW to \in Pre,
           NEW i \in 1 .. Len(s.recrypt),
           CanTransform(s, from, to, <<s.recrypt[i].for, to>>, i)
    PROVE  LET new == transform_recrypt(s, to, <<s.recrypt[i].for, to>>, i)
           IN  /\ Openers(new) = Openers(s)
               /\ to \in RecryptOpeners(new)
               /\ RecryptOpeners(s) \ {s.recrypt[i].for} \subseteq RecryptOpeners(new)
  <1> DEFINE key == <<s.recrypt[i].for, to>>
             new == transform_recrypt(s, to, key, i)
             c == [to |-> to, for |-> to, dek |-> s.recrypt[i].dek]
  <1>1. s \in Share /\ s.recrypt \in Seq(Capsule)
    BY DEF Sound, Share
  <1>2. s.recrypt[i].for \in Pre
    <2>1. s.recrypt[i] \in Capsule
      BY <1>1
    <2> QED BY <2>1 DEF Capsule
  <1>3. key \in Pre \X Pre
    BY <1>2
  <1>4. Sound(new)
    BY <1>3, TransformSound
  <1>5. new = [s EXCEPT !.recrypt = [s.recrypt EXCEPT ![i] = c]]
    BY DEF transform_recrypt
  <1> HIDE DEF new, key
  <1>6. new.targets = s.targets /\ new.recrypt = [s.recrypt EXCEPT ![i] = c]
    BY <1>1, <1>5 DEF Share
  <1>7. Openers(new) = Openers(s)
    <2>1. Elems(new.targets) = Elems(s.targets)
      BY <1>6
    <2>2. /\ Openers(new) = {k \in Secret :
                \E t \in Elems(new.targets) : Enc[t] = Enc[PublicOf[k]]}
          /\ Openers(s) = {k \in Secret :
                \E t \in Elems(s.targets) : Enc[t] = Enc[PublicOf[k]]}
      BY <1>4, OpenersOf
    <2> QED BY <2>1, <2>2
  <1>8. /\ DOMAIN new.recrypt = DOMAIN s.recrypt /\ i \in DOMAIN s.recrypt
        /\ new.recrypt[i] = c
        /\ \A j \in DOMAIN s.recrypt : j # i => new.recrypt[j] = s.recrypt[j]
    BY <1>1, <1>6
  <1>9. to \in RecryptOpeners(new)
    <2>1. c \in Elems(new.recrypt) /\ c.for = to
      BY <1>8 DEF Elems
    <2> QED BY <1>4, <2>1, RecryptOpenersOf
  <1>10. ASSUME NEW r \in RecryptOpeners(s), r # s.recrypt[i].for
         PROVE  r \in RecryptOpeners(new)
    <2>1. r \in Pre /\ \E x \in Elems(s.recrypt) : x.for = r
      BY RecryptOpenersOf
    <2>2. PICK j \in DOMAIN s.recrypt : s.recrypt[j].for = r
      BY <2>1 DEF Elems
    <2>3. new.recrypt[j] = s.recrypt[j] /\ new.recrypt[j] \in Elems(new.recrypt)
      BY <1>8, <1>10, <2>2 DEF Elems
    <2> QED BY <1>4, <2>1, <2>2, <2>3, RecryptOpenersOf
  <1> QED BY <1>7, <1>9, <1>10 DEF new, key

\* If every target goes to the recipient bytes of its holder's own public key,
\* handing any share of any history on (Share::add_recipient,
\* Share::transform_recrypt) takes access from nobody but the capsule's last
\* reader and gives it to the one named.
THEOREM HandingOnAlways ==
    (\A t \in Target : Enc[t] = Enc[PublicOf[HolderOf[t]]]) => (Spec => []HandingOn)
  <1> SUFFICES ASSUME \A t \in Target : Enc[t] = Enc[PublicOf[HolderOf[t]]]
               PROVE  Spec => []HandingOn
    OBVIOUS
  <1>1. \A t \in Target : {x \in Secret : Enc[t] = Enc[PublicOf[x]]} = {HolderOf[t]}
    BY ShareAssumption
  <1>2. ASSUME ShareInv, NEW s \in shares, NEW k \in Secret, NEW t \in Target,
               CanAdd(s, k, t)
        PROVE  /\ Openers(add_recipient(s, k, t)) = Openers(s) \cup {HolderOf[t]}
               /\ RecryptOpeners(add_recipient(s, k, t)) = RecryptOpeners(s)
    BY <1>1, <1>2, AddReaders DEF ShareInv
  <1>3. ASSUME ShareInv, NEW s \in shares, NEW from \in Pre, NEW to \in Pre,
               NEW i \in 1 .. Len(s.recrypt),
               CanTransform(s, from, to, <<s.recrypt[i].for, to>>, i)
        PROVE  LET new == transform_recrypt(s, to, <<s.recrypt[i].for, to>>, i)
               IN  /\ Openers(new) = Openers(s)
                   /\ to \in RecryptOpeners(new)
                   /\ RecryptOpeners(s) \ {s.recrypt[i].for}
                          \subseteq RecryptOpeners(new)
    BY <1>3, TransformReaders DEF ShareInv
  <1>4. ShareInv => HandingOn
    BY <1>2, <1>3 DEF HandingOn
  <1> QED BY <1>4, ShareInvAlways, PTL
=============================================================================
