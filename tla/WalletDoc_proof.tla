-------------------------- MODULE WalletDoc_proof --------------------------
(***************************************************************************)
(* Proofs about WalletDoc: the types, that every open wallet survives a    *)
(* save, that what the other program adds is kept, and that commitments    *)
(* stay good; for any sets of names, keys, secrets and extensions.         *)
(***************************************************************************)
EXTENDS WalletDoc, TLAPS

-----------------------------------------------------------------------------
(* Reading back what was written. *)

LEMMA TheOne == \A x : The({x}) = x
  BY DEF The

LEMMA OneOfOne == \A x, T : One({x}, T) <=> x \in T
  BY DEF One

LEMMA OneOfNone == \A T : ~One({}, T)
  BY DEF One

\* An object that is the only one, and of the right type, is the one read.
LEMMA OneType ==
    ASSUME NEW objs, NEW T, One(objs, T)
    PROVE  The(objs) \in T /\ objs = {The(objs)}
  BY DEF One, The

\* An identity that was encoded decodes to itself.
LEMMA IdRoundTrip ==
    ASSUME NEW n \in Name, NEW id \in Identity, id.fp = id.ed.public
    PROVE  /\ IdTo(n, id) \in IdDoc
           /\ IdDecodes(IdTo(n, id))
           /\ IdFrom(IdTo(n, id)) = id
  <1> DEFINE d == IdTo(n, id)
  <1>1. /\ d.head /\ d.fp = id.fp /\ d.name = {n} /\ d.ext = id.ext
        /\ d.ed_public = {id.ed.public} /\ d.ed_secret = {id.ed.secret}
    BY DEF IdTo
  <1>2. id.ed \in KeyPair /\ id.fp \in Key /\ id.ml \in KeyPair \cup {None} /\ id.ext \subseteq Ext
    BY DEF Identity
  <1>3. id.ed.public \in Key /\ id.ed.secret \in Key
    BY <1>2 DEF KeyPair
  <1>4. CASE id.ml = None
    <2>1. d.ml_public = {} /\ d.ml_secret = {}
      BY <1>4 DEF IdTo
    <2>2. d \in IdDoc
      BY <1>2, <1>3, <1>4 DEF IdTo, IdDoc, Obj
    <2>3. IdDecodes(d)
      BY <1>1, <1>3, <2>1, OneOfOne, OneOfNone DEF IdDecodes
    <2>4. IdFrom(d) = [fp |-> id.fp, ed |-> [public |-> id.ed.public, secret |-> id.ed.secret],
                       ml |-> id.ml, ext |-> id.ext]
      BY <1>1, <1>4, <2>1, TheOne, OneOfNone DEF IdFrom
    <2> QED BY <2>2, <2>3, <2>4, <1>2 DEF Identity, KeyPair
  <1>5. CASE id.ml # None
    <2>0. id.ml \in KeyPair /\ id.ml.public \in Key /\ id.ml.secret \in Key
      BY <1>2, <1>5 DEF KeyPair
    <2>1. d.ml_public = {id.ml.public} /\ d.ml_secret = {id.ml.secret}
      BY <1>5 DEF IdTo
    <2>2. d \in IdDoc
      BY <1>2, <1>3, <1>5, <2>0 DEF IdTo, IdDoc, Obj
    <2>3. IdDecodes(d)
      BY <1>1, <1>3, <2>0, <2>1, OneOfOne DEF IdDecodes
    <2>4. IdFrom(d) = [fp |-> id.fp, ed |-> [public |-> id.ed.public, secret |-> id.ed.secret],
                       ml |-> [public |-> id.ml.public, secret |-> id.ml.secret], ext |-> id.ext]
      <3>1. One(d.ml_public, Key)
        BY <2>0, <2>1, OneOfOne
      <3>2. /\ The(d.ed_public) = id.ed.public /\ The(d.ed_secret) = id.ed.secret
            /\ The(d.ml_public) = id.ml.public /\ The(d.ml_secret) = id.ml.secret
        BY <1>1, <2>1, TheOne
      <3> HIDE DEF d
      <3> QED BY <1>1, <3>1, <3>2 DEF IdFrom
    <2> QED BY <2>0, <2>2, <2>3, <2>4, <1>2 DEF Identity, KeyPair
  <1> QED BY <1>4, <1>5

\* So does a secret with an acceptable label and value.
LEMMA SecRoundTrip ==
    ASSUME NEW id \in SecretId, NEW s \in Secret,
           check_label(s.label), check_value(s.value)
    PROVE  /\ SecTo(id, s) \in SecDoc
           /\ SecDecodes(SecTo(id, s))
           /\ SecFrom(SecTo(id, s)) = s
  <1> DEFINE d == SecTo(id, s)
  <1>1. s.label \in Label /\ s.salt \in Salt /\ s.value \in Value /\ s.ext \subseteq Ext
    BY DEF Secret
  <1>2. /\ d.head /\ d.id = id /\ d.label = {s.label} /\ d.salt = {s.salt}
        /\ d.value = {s.value} /\ d.ext = s.ext
    BY DEF SecTo
  <1>3. d \in SecDoc
    BY <1>1 DEF SecTo, SecDoc, Obj
  <1>4. SecDecodes(d)
    <2>1. One(d.label, Label) /\ One(d.salt, Salt) /\ One(d.value, Value)
      BY <1>1, <1>2, OneOfOne
    <2>2. The(d.label) = s.label /\ The(d.value) = s.value
      BY <1>2, TheOne
    <2> HIDE DEF d
    <2> QED BY <1>2, <2>1, <2>2 DEF SecDecodes
  <1>5. SecFrom(d) = s
    BY <1>2, TheOne DEF SecFrom, Secret
  <1> QED BY <1>3, <1>4, <1>5

\* What makes a wallet in memory sound.
Sound(w) ==
    /\ w \in Wallet
    /\ \A n \in Name : w.ids[n] # None => w.ids[n].fp = w.ids[n].ed.public
    /\ \A id \in SecretId : w.secs[id] # None =>
           check_label(w.secs[id].label) /\ check_value(w.secs[id].value)

\* A sound wallet survives being written and read.
LEMMA WalletRoundTrip ==
    ASSUME NEW w, Sound(w)
    PROVE  /\ Encodes(w)
           /\ wallet_to_envelope(w) \in Doc
           /\ Opens(wallet_to_envelope(w))
           /\ wallet_from_envelope(wallet_to_envelope(w)) = w
  <1> DEFINE d == wallet_to_envelope(w)
  <1> USE WalletDocAssumption
  <1>1. /\ w.active \in Name \cup {None} /\ w.ext \subseteq Ext
        /\ w.ids \in [Name -> Identity \cup {None}]
        /\ w.secs \in [SecretId -> Secret \cup {None}]
    BY DEF Sound, Wallet
  <1>2. \A n \in Name : w.ids[n] # None =>
           /\ IdTo(n, w.ids[n]) \in IdDoc /\ IdDecodes(IdTo(n, w.ids[n]))
           /\ IdFrom(IdTo(n, w.ids[n])) = w.ids[n]
    BY <1>1, IdRoundTrip DEF Sound
  <1>3. \A id \in SecretId : w.secs[id] # None =>
           /\ SecTo(id, w.secs[id]) \in SecDoc /\ SecDecodes(SecTo(id, w.secs[id]))
           /\ SecFrom(SecTo(id, w.secs[id])) = w.secs[id]
    BY <1>1, SecRoundTrip DEF Sound
  <1>4. /\ d.head /\ d.ext = w.ext
        /\ d.active = IF w.active = None THEN {} ELSE {w.active}
        /\ d.ids = {IdTo(n, w.ids[n]) : n \in {m \in Name : w.ids[m] # None}}
        /\ d.secs = {SecTo(id, w.secs[id]) : id \in {i \in SecretId : w.secs[i] # None}}
    BY DEF wallet_to_envelope
  <1>5. Encodes(w)
    BY DEF Sound, Encodes
  <1>6. d.ids \subseteq IdDoc /\ d.secs \subseteq SecDoc
    BY <1>2, <1>3, <1>4
  <1>7. d \in Doc
    <2>1. d.active \in SUBSET Obj
      BY <1>1, <1>4 DEF Obj
    <2> QED BY <1>1, <1>6, <2>1 DEF wallet_to_envelope, Doc
  <1>8. \A n, m : IdTo(n, w.ids[n]).name = {n}
    BY DEF IdTo
  <1>9. \A id : SecTo(id, w.secs[id]).id = id
    BY DEF SecTo
  <1>10. Opens(d)
    <2>1. \A i \in d.ids : IdDecodes(i)
      BY <1>2, <1>4
    <2>2. \A s \in d.secs : SecDecodes(s)
      BY <1>3, <1>4
    <2>3. \A i, j \in d.ids : i.name = j.name => i = j
      <3>1. SUFFICES ASSUME NEW i \in d.ids, NEW j \in d.ids, i.name = j.name
                     PROVE  i = j
        OBVIOUS
      <3>2. PICK n \in Name : i = IdTo(n, w.ids[n])
        BY <1>4
      <3>3. PICK m \in Name : j = IdTo(m, w.ids[m])
        BY <1>4
      <3>4. {n} = {m}
        BY <1>8, <3>1, <3>2, <3>3
      <3> QED BY <3>2, <3>3, <3>4
    <2>4. \A s, t \in d.secs : s.id = t.id => s = t
      BY <1>4, <1>9
    <2> QED BY <1>4, <2>1, <2>2, <2>3, <2>4 DEF Opens
  <1>11. \A n \in Name : (\E i \in d.ids : i.name = {n}) <=> w.ids[n] # None
    <2> SUFFICES ASSUME NEW n \in Name
                 PROVE (\E i \in d.ids : i.name = {n}) <=> w.ids[n] # None
      OBVIOUS
    <2>1. ASSUME w.ids[n] # None PROVE \E i \in d.ids : i.name = {n}
      BY <2>1, <1>4, <1>8
    <2>2. ASSUME NEW i \in d.ids, i.name = {n} PROVE w.ids[n] # None
      <3>1. PICK m \in Name : w.ids[m] # None /\ i = IdTo(m, w.ids[m])
        BY <1>4
      <3>2. {m} = {n}
        BY <1>8, <2>2, <3>1
      <3> QED BY <3>1, <3>2
    <2> QED BY <2>1, <2>2
  <1>12. \A n \in Name : w.ids[n] # None => IdNamed(d, n) = IdTo(n, w.ids[n])
    <2> SUFFICES ASSUME NEW n \in Name, w.ids[n] # None
                 PROVE  IdNamed(d, n) = IdTo(n, w.ids[n])
      OBVIOUS
    <2>1. IdTo(n, w.ids[n]) \in d.ids /\ IdTo(n, w.ids[n]).name = {n}
      BY <1>4, <1>8
    <2>2. IdNamed(d, n) \in d.ids /\ IdNamed(d, n).name = {n}
      BY <2>1 DEF IdNamed
    <2> QED BY <2>1, <2>2, <1>10 DEF Opens
  <1>13. \A id \in SecretId : w.secs[id] # None =>
            /\ \E s \in d.secs : s.id = id
            /\ SecOf(d, id) = SecTo(id, w.secs[id])
    <2> SUFFICES ASSUME NEW id \in SecretId, w.secs[id] # None
                 PROVE  /\ \E s \in d.secs : s.id = id
                        /\ SecOf(d, id) = SecTo(id, w.secs[id])
      OBVIOUS
    <2>1. SecTo(id, w.secs[id]) \in d.secs /\ SecTo(id, w.secs[id]).id = id
      BY <1>4, <1>9
    <2>2. SecOf(d, id) \in d.secs /\ SecOf(d, id).id = id
      BY <2>1 DEF SecOf
    <2> QED BY <2>1, <2>2, <1>10 DEF Opens
  <1>14. \A id \in SecretId : w.secs[id] = None => ~\E s \in d.secs : s.id = id
    BY <1>4, <1>9
  <1> DEFINE r == wallet_from_envelope(d)
  <1>15. r.ids = w.ids
    <2>1. r.ids = [n \in Name |-> IF \E i \in d.ids : i.name = {n}
                                  THEN IdFrom(IdNamed(d, n)) ELSE None]
      BY DEF wallet_from_envelope
    <2> HIDE DEF r, d
    <2>2. ASSUME NEW n \in Name PROVE r.ids[n] = w.ids[n]
      <3>1. r.ids[n] = IF \E i \in d.ids : i.name = {n}
                       THEN IdFrom(IdNamed(d, n)) ELSE None
        BY <2>1
      <3>2. CASE w.ids[n] # None
        BY <3>1, <3>2, <1>2, <1>11, <1>12
      <3>3. CASE w.ids[n] = None
        BY <3>1, <3>3, <1>11
      <3> QED BY <3>2, <3>3
    <2>3. w.ids = [n \in Name |-> w.ids[n]]
      BY <1>1
    <2>4. r.ids = [n \in Name |-> r.ids[n]]
      BY <2>1
    <2> QED BY <2>2, <2>3, <2>4, Zenon
  <1>16. r.secs = w.secs
    <2>1. r.secs = [id \in SecretId |-> IF \E s \in d.secs : s.id = id
                                        THEN SecFrom(SecOf(d, id)) ELSE None]
      BY DEF wallet_from_envelope
    <2> HIDE DEF r, d
    <2>2. ASSUME NEW id \in SecretId PROVE r.secs[id] = w.secs[id]
      <3>1. r.secs[id] = IF \E s \in d.secs : s.id = id
                         THEN SecFrom(SecOf(d, id)) ELSE None
        BY <2>1
      <3>2. CASE w.secs[id] # None
        BY <3>1, <3>2, <1>3, <1>13
      <3>3. CASE w.secs[id] = None
        BY <3>1, <3>3, <1>14
      <3> QED BY <3>2, <3>3
    <2> QED BY <1>1, <2>1, <2>2
  <1>17. r.active = w.active /\ r.ext = w.ext
    <2>1. r.active = Opt(d.active, Name) /\ r.ext = d.ext
      BY DEF wallet_from_envelope
    <2> HIDE DEF r, d
    <2>2. CASE w.active = None
      <3>1. Opt(d.active, Name) = None
        BY <2>2, <1>4, OneOfNone DEF Opt
      <3> QED BY <2>1, <2>2, <3>1, <1>4
    <2>3. CASE w.active # None
      <3>1. One({w.active}, Name)
        BY <1>1, <2>3, OneOfOne
      <3>2. Opt({w.active}, Name) = w.active
        BY <3>1, TheOne DEF Opt
      <3> QED BY <2>1, <2>3, <3>2, <1>4
    <2> QED BY <2>2, <2>3
  <1>18. r = w
    <2>1. r = [active |-> r.active, ids |-> r.ids, secs |-> r.secs, ext |-> r.ext]
      BY DEF wallet_from_envelope
    <2>2. w = [active |-> w.active, ids |-> w.ids, secs |-> w.secs, ext |-> w.ext]
      BY DEF Sound, Wallet
    <2> HIDE DEF r
    <2> QED BY <1>15, <1>16, <1>17, <2>1, <2>2
  <1> QED BY <1>5, <1>7, <1>10, <1>18

-----------------------------------------------------------------------------
(* What a document that opens becomes. *)

\* An identity envelope that decodes gives an identity.
LEMMA IdFromType ==
    ASSUME NEW i \in IdDoc, IdDecodes(i)
    PROVE  IdFrom(i) \in Identity /\ IdFrom(i).fp = IdFrom(i).ed.public
  <1> USE WalletDocAssumption
  <1>2. i.fp \in Key /\ i.ext \subseteq Ext
    BY DEF IdDoc
  <1>3. The(i.ed_public) \in Key /\ The(i.ed_secret) \in Key /\ The(i.ed_public) = i.fp
    BY OneType, TheOne DEF IdDecodes
  <1>4. CASE One(i.ml_public, Key)
    <2>1. The(i.ml_public) \in Key /\ The(i.ml_secret) \in Key
      BY <1>4, OneType DEF IdDecodes
    <2> QED BY <1>2, <1>3, <1>4, <2>1 DEF IdFrom, Identity, KeyPair
  <1>5. CASE ~One(i.ml_public, Key)
    BY <1>2, <1>3, <1>5 DEF IdFrom, Identity, KeyPair
  <1> QED BY <1>4, <1>5

\* A secret envelope that decodes gives an acceptable secret.
LEMMA SecFromType ==
    ASSUME NEW s \in SecDoc, SecDecodes(s)
    PROVE  /\ SecFrom(s) \in Secret
           /\ check_label(SecFrom(s).label) /\ check_value(SecFrom(s).value)
  <1>2. The(s.label) \in Label /\ The(s.salt) \in Salt /\ The(s.value) \in Value
    BY OneType DEF SecDecodes
  <1>3. s.ext \subseteq Ext
    BY DEF SecDoc
  <1>4. check_label(The(s.label)) /\ check_value(The(s.value))
    BY DEF SecDecodes
  <1> QED BY <1>2, <1>3, <1>4 DEF SecFrom, Secret

\* A document that opens becomes a sound wallet.
LEMMA DecodeSound ==
    ASSUME NEW d \in Doc, Opens(d)
    PROVE  Sound(wallet_from_envelope(d))
  <1> DEFINE w == wallet_from_envelope(d)
  <1> USE WalletDocAssumption
  <1>0. d.ids \subseteq IdDoc /\ d.secs \subseteq SecDoc /\ d.ext \subseteq Ext
    BY DEF Doc
  <1>1. \A i \in d.ids : IdFrom(i) \in Identity /\ IdFrom(i).fp = IdFrom(i).ed.public
    BY <1>0, IdFromType DEF Opens
  <1>2. \A s \in d.secs : /\ SecFrom(s) \in Secret
                          /\ check_label(SecFrom(s).label) /\ check_value(SecFrom(s).value)
    BY <1>0, SecFromType DEF Opens
  <1>3. /\ w.active = Opt(d.active, Name) /\ w.ext = d.ext
        /\ w.ids = [n \in Name |-> IF \E i \in d.ids : i.name = {n}
                                   THEN IdFrom(IdNamed(d, n)) ELSE None]
        /\ w.secs = [id \in SecretId |-> IF \E s \in d.secs : s.id = id
                                         THEN SecFrom(SecOf(d, id)) ELSE None]
        /\ w = [active |-> w.active, ids |-> w.ids, secs |-> w.secs, ext |-> w.ext]
    BY DEF wallet_from_envelope
  <1> HIDE DEF w
  <1>4. w.active \in Name \cup {None}
    BY <1>3, OneType DEF Opt
  <1>5. \A n \in Name : (\E i \in d.ids : i.name = {n}) => IdNamed(d, n) \in d.ids
    BY DEF IdNamed
  <1>6. \A id \in SecretId : (\E s \in d.secs : s.id = id) => SecOf(d, id) \in d.secs
    BY DEF SecOf
  <1>7. \A n \in Name : /\ w.ids[n] \in Identity \cup {None}
                        /\ w.ids[n] # None => w.ids[n].fp = w.ids[n].ed.public
    <2> SUFFICES ASSUME NEW n \in Name
                 PROVE  /\ w.ids[n] \in Identity \cup {None}
                        /\ w.ids[n] # None => w.ids[n].fp = w.ids[n].ed.public
      OBVIOUS
    <2>1. w.ids[n] = IF \E i \in d.ids : i.name = {n} THEN IdFrom(IdNamed(d, n)) ELSE None
      BY <1>3
    <2>2. CASE \E i \in d.ids : i.name = {n}
      BY <2>1, <2>2, <1>1, <1>5
    <2>3. CASE ~\E i \in d.ids : i.name = {n}
      BY <2>1, <2>3
    <2> QED BY <2>2, <2>3
  <1>8. \A id \in SecretId :
           /\ w.secs[id] \in Secret \cup {None}
           /\ w.secs[id] # None => check_label(w.secs[id].label) /\ check_value(w.secs[id].value)
    BY <1>2, <1>3, <1>6
  <1>9. /\ w.ids \in [Name -> Identity \cup {None}]
        /\ w.secs \in [SecretId -> Secret \cup {None}]
    BY <1>3, <1>7, <1>8
  <1>10. w \in Wallet
    BY <1>0, <1>3, <1>4, <1>9 DEF Wallet
  <1>11. Sound(w)
    BY <1>7, <1>8, <1>10 DEF Sound
  <1> QED BY <1>11 DEF w

\* The unknown assertions of an owner in a wallet in memory.
ExtIn(w, o) ==
    CASE o = Root -> w.ext
      [] o \in Name -> IF w.ids[o] = None THEN {} ELSE w.ids[o].ext
      [] OTHER -> IF w.secs[o] = None THEN {} ELSE w.secs[o].ext

\* Opening a document loses no assertion of any owner.
LEMMA DecodeKeeps ==
    ASSUME NEW d \in Doc, Opens(d), NEW o \in Owner
    PROVE  ExtOf(d, o) \subseteq ExtIn(wallet_from_envelope(d), o)
  <1> DEFINE w == wallet_from_envelope(d)
  <1> USE WalletDocAssumption
  <1>1. CASE o = Root
    BY <1>1 DEF ExtOf, ExtIn, wallet_from_envelope
  <1>2. CASE o \in Name
    <2>1. SUFFICES ASSUME NEW i \in d.ids, i.name = {o}
                   PROVE  i.ext \subseteq ExtIn(w, o)
      BY <1>2 DEF ExtOf
    <2>2. IdNamed(d, o) = i
      <3>1. IdNamed(d, o) \in d.ids /\ IdNamed(d, o).name = {o}
        BY <2>1 DEF IdNamed
      <3> QED BY <3>1, <2>1 DEF Opens
    <2>3. w.ids[o] = IdFrom(i)
      BY <1>2, <2>1, <2>2 DEF wallet_from_envelope
    <2>4. IdFrom(i).ext = i.ext
      BY DEF IdFrom
    <2>5. w.ids[o] # None
      BY <2>1, <2>3, IdFromType DEF Opens, Doc
    <2> QED BY <1>2, <2>3, <2>4, <2>5 DEF ExtIn
  <1>3. CASE o \in SecretId
    <2>1. SUFFICES ASSUME NEW s \in d.secs, s.id = o
                   PROVE  s.ext \subseteq ExtIn(w, o)
      BY <1>3 DEF ExtOf
    <2>2. SecOf(d, o) = s
      <3>1. SecOf(d, o) \in d.secs /\ SecOf(d, o).id = o
        BY <2>1 DEF SecOf
      <3> QED BY <3>1, <2>1 DEF Opens
    <2>3. w.secs[o] = SecFrom(s)
      BY <1>3, <2>1, <2>2 DEF wallet_from_envelope
    <2>4. SecFrom(s).ext = s.ext
      BY DEF SecFrom
    <2>5. w.secs[o] # None
      BY <2>1, <2>3, SecFromType DEF Opens, Doc
    <2> QED BY <1>3, <2>3, <2>4, <2>5 DEF ExtIn
  <1> QED BY <1>1, <1>2, <1>3 DEF Owner

\* Nor does writing a wallet.
LEMMA EncodeKeeps ==
    ASSUME NEW w, NEW o \in Owner
    PROVE  ExtIn(w, o) \subseteq ExtOf(wallet_to_envelope(w), o)
  <1> DEFINE d == wallet_to_envelope(w)
  <1> USE WalletDocAssumption
  <1>1. CASE o = Root
    BY <1>1 DEF ExtOf, ExtIn, wallet_to_envelope
  <1>2. CASE o \in Name
    <2>1. CASE w.ids[o] = None
      BY <1>2, <2>1 DEF ExtIn
    <2>2. CASE w.ids[o] # None
      <3>1. IdTo(o, w.ids[o]) \in d.ids
        BY <1>2, <2>2 DEF wallet_to_envelope
      <3>2. IdTo(o, w.ids[o]).name = {o} /\ IdTo(o, w.ids[o]).ext = w.ids[o].ext
        BY DEF IdTo
      <3>3. ExtIn(w, o) = w.ids[o].ext
        BY <1>2, <2>2 DEF ExtIn
      <3>4. ExtOf(d, o) = UNION {i.ext : i \in {j \in d.ids : j.name = {o}}}
        BY <1>2 DEF ExtOf
      <3> QED BY <3>1, <3>2, <3>3, <3>4
    <2> QED BY <2>1, <2>2
  <1>3. CASE o \in SecretId
    <2>1. CASE w.secs[o] = None
      BY <1>3, <2>1 DEF ExtIn
    <2>2. CASE w.secs[o] # None
      <3>1. SecTo(o, w.secs[o]) \in d.secs
        BY <1>3, <2>2 DEF wallet_to_envelope
      <3>2. SecTo(o, w.secs[o]).id = o /\ SecTo(o, w.secs[o]).ext = w.secs[o].ext
        BY DEF SecTo
      <3>3. ExtIn(w, o) = w.secs[o].ext
        BY <1>3, <2>2 DEF ExtIn
      <3>4. ExtOf(d, o) = UNION {s.ext : s \in {t \in d.secs : t.id = o}}
        BY <1>3 DEF ExtOf
      <3> QED BY <3>1, <3>2, <3>3, <3>4
    <2> QED BY <2>1, <2>2
  <1> QED BY <1>1, <1>2, <1>3 DEF Owner

\* A document with at least the assertions of another has at least its
\* extensions.
LEMMA ExtMonotone ==
    ASSUME NEW d, NEW e, NEW o \in Owner,
           o = Root => d.ext \subseteq e.ext,
           \A i \in d.ids : \E j \in e.ids : j.name = i.name /\ i.ext \subseteq j.ext,
           \A s \in d.secs : \E t \in e.secs : t.id = s.id /\ s.ext \subseteq t.ext
    PROVE  ExtOf(d, o) \subseteq ExtOf(e, o)
  <1> USE WalletDocAssumption
  <1>1. CASE o = Root
    BY <1>1 DEF ExtOf
  <1>2. CASE o \in Name
    <2>1. \A f : ExtOf(f, o) = UNION {i.ext : i \in {j \in f.ids : j.name = {o}}}
      BY <1>2 DEF ExtOf
    <2> QED BY <2>1
  <1>3. CASE o \in SecretId
    <2>1. \A f : ExtOf(f, o) = UNION {s.ext : s \in {t \in f.secs : t.id = o}}
      BY <1>3 DEF ExtOf
    <2> QED BY <2>1
  <1> QED BY <1>1, <1>2, <1>3 DEF Owner

-----------------------------------------------------------------------------
(* The inductive invariant. *)

\* In memory the other program's assertions are there too, except those whose
\* owner was removed.
ExtOpen ==
    wallet # Closed =>
        \A a \in added : a[1] \notin gone => a[2] \in ExtIn(wallet, a[1])

DocInv ==
    /\ TypeOK
    /\ wallet # Closed => Sound(wallet)
    /\ ExtKept /\ ExtOpen
    /\ \A s \in doc.secs : s.id \in SecretId /\ published[s.id] # None
    /\ CommitmentKept

LEMMA DocInit == Init => DocInv
  <1> SUFFICES ASSUME Init PROVE DocInv
    OBVIOUS
  <1> USE WalletDocAssumption DEF Init
  <1>1. Sound(WalletData_new)
    BY DEF Sound, WalletData_new, Wallet
  <1>2. doc \in Doc
    BY <1>1, WalletRoundTrip
  <1>3. doc.secs = {}
    BY DEF wallet_to_envelope, WalletData_new
  <1>4. TypeOK
    BY <1>2 DEF TypeOK
  <1> QED BY <1>3, <1>4 DEF DocInv, ExtKept, ExtOpen, CommitmentKept

\* An edit of the other program that takes nothing away keeps the invariant.
LEMMA EditStep ==
    ASSUME DocInv, NEW d \in Doc, Edit(d),
           added' \subseteq Owner \X Ext,
           \A a \in added' : a[2] \in ExtOf(d, a[1]),
           \A s \in d.secs : \E t \in doc.secs :
               s.id = t.id /\ s.salt = t.salt /\ s.value = t.value
    PROVE  DocInv'
  <1>1. doc' = d /\ wallet' = Closed /\ wallet = Closed /\ UNCHANGED <<gone, published>>
    BY DEF Edit
  <1>2. edits' \in 0 .. MaxEdits
    BY WalletDocAssumption DEF Edit, DocInv, TypeOK
  <1>3. TypeOK'
    BY <1>1, <1>2 DEF DocInv, TypeOK
  <1>4. ExtKept' /\ ExtOpen'
    BY <1>1 DEF ExtKept, ExtOpen, ExtOf
  <1>5. CommitmentKept' /\ \A s \in doc'.secs : s.id \in SecretId /\ published'[s.id] # None
    BY <1>1 DEF DocInv, CommitmentKept, commitment
  <1> QED BY <1>1, <1>3, <1>4, <1>5 DEF DocInv

LEMMA ExtendStep ==
    ASSUME DocInv, NEW o \in Owner, NEW e \in Ext, Extend(o, e)
    PROVE  DocInv'
  <1> USE WalletDocAssumption
  <1>0. /\ doc \in Doc /\ added \subseteq Owner \X Ext
        /\ \A a \in added : a[2] \in ExtOf(doc, a[1])
        /\ doc.ids \subseteq IdDoc /\ doc.secs \subseteq SecDoc /\ doc.ext \subseteq Ext
    BY DEF DocInv, TypeOK, ExtKept, Doc
  <1>1. added' = added \cup {<<o, e>>} /\ added' \subseteq Owner \X Ext
    BY <1>0 DEF Extend
  <1>2. ASSUME o = Root, Edit([doc EXCEPT !.ext = @ \cup {e}]) PROVE DocInv'
    <2> DEFINE d == [doc EXCEPT !.ext = @ \cup {e}]
    <2>1. /\ d \in Doc /\ d.ext = doc.ext \cup {e}
          /\ d.ids = doc.ids /\ d.secs = doc.secs
      BY <1>0 DEF Doc
    <2> HIDE DEF d
    <2>2. \A q \in Owner : ExtOf(doc, q) \subseteq ExtOf(d, q)
      BY <2>1, ExtMonotone
    <2>3. e \in ExtOf(d, o)
      BY <1>2, <2>1 DEF ExtOf
    <2>4. \A a \in added' : a[2] \in ExtOf(d, a[1])
      BY <1>0, <1>1, <2>2, <2>3
    <2> QED BY <1>1, <1>2, <2>1, <2>4, EditStep DEF d
  <1>3. ASSUME o \in Name, NEW i \in doc.ids, i.name = {o},
               Edit([doc EXCEPT !.ids = (@ \ {i}) \cup {[i EXCEPT !.ext = @ \cup {e}]}])
        PROVE  DocInv'
    <2> DEFINE j == [i EXCEPT !.ext = @ \cup {e}]
               d == [doc EXCEPT !.ids = (@ \ {i}) \cup {j}]
    <2>1. j \in IdDoc /\ j.name = i.name /\ j.ext = i.ext \cup {e}
      BY <1>0 DEF IdDoc
    <2> HIDE DEF j
    <2>2. /\ d \in Doc /\ d.ext = doc.ext
          /\ d.ids = (doc.ids \ {i}) \cup {j} /\ d.secs = doc.secs
      BY <1>0, <2>1 DEF Doc
    <2> HIDE DEF d
    <2>3. \A q \in Owner : ExtOf(doc, q) \subseteq ExtOf(d, q)
      <3>1. \A k \in doc.ids : \E l \in d.ids : l.name = k.name /\ k.ext \subseteq l.ext
        BY <2>1, <2>2
      <3>2. \A s \in doc.secs : \E t \in d.secs : t.id = s.id /\ s.ext \subseteq t.ext
        BY <2>2
      <3> QED BY <2>2, <3>1, <3>2, ExtMonotone
    <2>4. o \in Name
      BY <1>3
    <2>5. e \in ExtOf(d, o)
      <3>1. ExtOf(d, o) = UNION {k.ext : k \in {l \in d.ids : l.name = {o}}}
        BY <2>4 DEF ExtOf
      <3>2. j \in d.ids /\ j.name = {o} /\ e \in j.ext
        BY <1>3, <2>1, <2>2
      <3> QED BY <3>1, <3>2
    <2>6. \A a \in added' : a[2] \in ExtOf(d, a[1])
      BY <1>0, <1>1, <2>3, <2>5
    <2> QED BY <1>1, <1>3, <2>2, <2>6, EditStep DEF d, j
  <1>4. ASSUME o \in SecretId, NEW s \in doc.secs, s.id = o,
               Edit([doc EXCEPT !.secs = (@ \ {s}) \cup {[s EXCEPT !.ext = @ \cup {e}]}])
        PROVE  DocInv'
    <2> DEFINE t == [s EXCEPT !.ext = @ \cup {e}]
               d == [doc EXCEPT !.secs = (@ \ {s}) \cup {t}]
    <2>1. /\ t \in SecDoc /\ t.id = s.id /\ t.ext = s.ext \cup {e}
          /\ t.salt = s.salt /\ t.value = s.value
      BY <1>0 DEF SecDoc
    <2> HIDE DEF t
    <2>2. /\ d \in Doc /\ d.ext = doc.ext
          /\ d.secs = (doc.secs \ {s}) \cup {t} /\ d.ids = doc.ids
      BY <1>0, <2>1 DEF Doc
    <2> HIDE DEF d
    <2>3. \A q \in Owner : ExtOf(doc, q) \subseteq ExtOf(d, q)
      <3>1. \A k \in doc.secs : \E l \in d.secs : l.id = k.id /\ k.ext \subseteq l.ext
        BY <2>1, <2>2
      <3>2. \A i \in doc.ids : \E k \in d.ids : k.name = i.name /\ i.ext \subseteq k.ext
        BY <2>2
      <3> QED BY <2>2, <3>1, <3>2, ExtMonotone
    <2>4. o \in SecretId
      BY <1>4
    <2>5. e \in ExtOf(d, o)
      <3>1. ExtOf(d, o) = UNION {k.ext : k \in {l \in d.secs : l.id = o}}
        BY <2>4 DEF ExtOf
      <3>2. t \in d.secs /\ t.id = o /\ e \in t.ext
        BY <1>4, <2>1, <2>2
      <3> QED BY <3>1, <3>2
    <2>6. \A a \in added' : a[2] \in ExtOf(d, a[1])
      BY <1>0, <1>1, <2>3, <2>5
    <2>7. \A x \in d.secs : \E y \in doc.secs :
             x.id = y.id /\ x.salt = y.salt /\ x.value = y.value
      BY <2>1, <2>2
    <2> QED BY <1>1, <1>4, <2>2, <2>6, <2>7, EditStep DEF d, t
  <1> QED BY <1>2, <1>3, <1>4 DEF Extend

LEMMA ElideStep ==
    ASSUME DocInv, NEW e \in Ext, Elide(e)
    PROVE  DocInv'
  <1> USE WalletDocAssumption
  <1> DEFINE d == [doc EXCEPT !.ext = @ \ {e}, !.elided = @ \cup {e}]
  <1>0. /\ doc \in Doc /\ added \subseteq Owner \X Ext
        /\ \A a \in added : a[2] \in ExtOf(doc, a[1])
    BY DEF DocInv, TypeOK, ExtKept
  <1>1. added' = added \ {<<Root, e>>} /\ Edit(d)
    BY DEF Elide
  <1>2. /\ d \in Doc /\ d.ext = doc.ext \ {e}
        /\ d.ids = doc.ids /\ d.secs = doc.secs
    BY <1>0 DEF Doc
  <1> HIDE DEF d
  <1>3. ASSUME NEW a \in added' PROVE a[2] \in ExtOf(d, a[1])
    <2>1. a \in added /\ a[2] \in ExtOf(doc, a[1]) /\ a[1] \in Owner /\ a = <<a[1], a[2]>>
      BY <1>0, <1>1
    <2>2. CASE a[1] = Root
      <3>1. ExtOf(doc, a[1]) = doc.ext /\ ExtOf(d, a[1]) = d.ext
        BY <2>2 DEF ExtOf
      <3>2. a[2] # e
        BY <1>1, <1>3, <2>1, <2>2
      <3> QED BY <1>2, <2>1, <3>1, <3>2
    <2>3. CASE a[1] # Root
      BY <1>2, <2>1, <2>3, ExtMonotone
    <2> QED BY <2>2, <2>3
  <1> QED BY <1>0, <1>1, <1>2, <1>3, EditStep

LEMMA ActivateStep ==
    ASSUME DocInv, NEW x \in Name \cup {Junk}, Activate(x)
    PROVE  DocInv'
  <1> DEFINE d == [doc EXCEPT !.active = @ \cup {x}]
  <1>0. /\ doc \in Doc /\ added \subseteq Owner \X Ext
        /\ \A a \in added : a[2] \in ExtOf(doc, a[1])
    BY DEF DocInv, TypeOK, ExtKept
  <1>1. UNCHANGED added /\ Edit(d)
    BY DEF Activate
  <1>2. /\ d \in Doc /\ d.ext = doc.ext /\ d.ids = doc.ids /\ d.secs = doc.secs
    BY <1>0 DEF Doc, Obj
  <1> HIDE DEF d
  <1>3. \A o \in Owner : ExtOf(doc, o) \subseteq ExtOf(d, o)
    BY <1>2, ExtMonotone
  <1>4. \A a \in added' : a[2] \in ExtOf(d, a[1])
    BY <1>0, <1>1, <1>3
  <1> QED BY <1>0, <1>1, <1>2, <1>4, EditStep

LEMMA AddMlDsaStep ==
    ASSUME DocInv, NEW i \in doc.ids, NEW pub \in SUBSET Key, NEW sec \in SUBSET Key,
           AddMlDsa(i, pub, sec)
    PROVE  DocInv'
  <1> DEFINE j == [i EXCEPT !.ml_public = @ \cup pub, !.ml_secret = @ \cup sec]
             d == [doc EXCEPT !.ids = (@ \ {i}) \cup {j}]
  <1>0. /\ doc \in Doc /\ added \subseteq Owner \X Ext
        /\ \A a \in added : a[2] \in ExtOf(doc, a[1])
        /\ doc.ids \subseteq IdDoc
    BY DEF DocInv, TypeOK, ExtKept, Doc
  <1>1. UNCHANGED added /\ Edit(d)
    BY DEF AddMlDsa
  <1>2. j \in IdDoc /\ j.name = i.name /\ j.ext = i.ext
    BY <1>0 DEF IdDoc, Obj
  <1> HIDE DEF j
  <1>3. /\ d \in Doc /\ d.ext = doc.ext
        /\ d.ids = (doc.ids \ {i}) \cup {j} /\ d.secs = doc.secs
    BY <1>0, <1>2 DEF Doc
  <1> HIDE DEF d
  <1>4. \A o \in Owner : ExtOf(doc, o) \subseteq ExtOf(d, o)
    <2>1. \A k \in doc.ids : \E l \in d.ids : l.name = k.name /\ k.ext \subseteq l.ext
      BY <1>2, <1>3
    <2>2. \A s \in doc.secs : \E t \in d.secs : t.id = s.id /\ s.ext \subseteq t.ext
      BY <1>3
    <2> QED BY <1>3, <2>1, <2>2, ExtMonotone
  <1>5. \A a \in added' : a[2] \in ExtOf(d, a[1])
    BY <1>0, <1>1, <1>4
  <1> QED BY <1>0, <1>1, <1>3, <1>5, EditStep

LEMMA LoadStep == DocInv /\ Load => DocInv'
  <1> SUFFICES ASSUME DocInv, Load PROVE DocInv'
    OBVIOUS
  <1> USE WalletDocAssumption
  <1>1. /\ wallet' = wallet_from_envelope(doc) /\ gone' = {} /\ Opens(doc)
        /\ UNCHANGED <<doc, added, published, edits>>
    BY DEF Load
  <1>2. /\ doc \in Doc /\ added \subseteq Owner \X Ext
        /\ \A a \in added : a[2] \in ExtOf(doc, a[1])
    BY DEF DocInv, TypeOK, ExtKept
  <1>3. Sound(wallet')
    BY <1>1, <1>2, DecodeSound
  <1>4. TypeOK'
    BY <1>1, <1>3 DEF DocInv, TypeOK, Sound
  <1>5. ExtOpen'
    <2>1. \A a \in added : a[1] \in Owner
      BY <1>2
    <2>2. \A o \in Owner : ExtOf(doc, o) \subseteq ExtIn(wallet', o)
      BY <1>1, <1>2, DecodeKeeps
    <2>3. \A a \in added : a[2] \in ExtIn(wallet', a[1])
      BY <1>2, <2>1, <2>2
    <2> HIDE DEF Load
    <2> QED BY <1>1, <2>3 DEF ExtOpen, ExtIn
  <1>6. ExtKept'
    BY <1>1 DEF DocInv, ExtKept, ExtOf
  <1>7. ASSUME NEW id \in SecretId, wallet'.secs[id] # None
        PROVE  published[id] = commitment(wallet'.secs[id].salt, wallet'.secs[id].value)
    <2>1. wallet'.secs[id] = SecFrom(SecOf(doc, id)) /\ \E s \in doc.secs : s.id = id
      BY <1>1, <1>7 DEF wallet_from_envelope
    <2>2. SecOf(doc, id) \in doc.secs /\ SecOf(doc, id).id = id
      BY <2>1 DEF SecOf
    <2> QED BY <2>1, <2>2 DEF DocInv, CommitmentKept, SecFrom
  <1>8. CommitmentKept'
    BY <1>1, <1>7 DEF DocInv, CommitmentKept, commitment
  <1> QED BY <1>1, <1>3, <1>4, <1>5, <1>6, <1>8 DEF DocInv

LEMMA SaveStep == DocInv /\ Save => DocInv'
  <1> SUFFICES ASSUME DocInv, Save PROVE DocInv'
    OBVIOUS
  <1> USE WalletDocAssumption
  <1>1. /\ wallet # Closed /\ doc' = wallet_to_envelope(wallet)
        /\ added' = {a \in added : a[1] \notin gone}
        /\ UNCHANGED <<wallet, gone, published, edits>>
    BY DEF Save
  <1>2. Sound(wallet) /\ added \subseteq Owner \X Ext
    BY <1>1 DEF DocInv, TypeOK
  <1>3. doc' \in Doc
    BY <1>1, <1>2, WalletRoundTrip
  <1>4. TypeOK'
    BY <1>1, <1>2, <1>3 DEF DocInv, TypeOK
  <1>5. ASSUME NEW a \in added' PROVE a[2] \in ExtOf(doc', a[1])
    <2>1. a \in added /\ a[1] \notin gone /\ a[1] \in Owner
      BY <1>1, <1>2
    <2>2. a[2] \in ExtIn(wallet, a[1])
      BY <1>1, <2>1 DEF DocInv, ExtOpen
    <2> QED BY <1>1, <2>1, <2>2, EncodeKeeps
  <1>6. ExtKept'
    BY <1>5 DEF ExtKept, ExtOf
  <1>7. ExtOpen'
    BY <1>1 DEF DocInv, ExtOpen, ExtIn
  <1>8. ASSUME NEW s \in doc'.secs
        PROVE  /\ s.id \in SecretId /\ published[s.id] # None
               /\ published[s.id] = commitment(The(s.salt), The(s.value))
    <2>1. PICK id \in SecretId : wallet.secs[id] # None /\ s = SecTo(id, wallet.secs[id])
      BY <1>1 DEF wallet_to_envelope
    <2>2. /\ s.id = id /\ s.salt = {wallet.secs[id].salt}
          /\ s.value = {wallet.secs[id].value}
      BY <2>1 DEF SecTo
    <2>3. published[id] = commitment(wallet.secs[id].salt, wallet.secs[id].value)
      BY <1>1, <2>1 DEF DocInv, CommitmentKept
    <2>4. The(s.salt) = wallet.secs[id].salt /\ The(s.value) = wallet.secs[id].value
      BY <2>2, TheOne
    <2>5. wallet.secs[id] \in Secret
      BY <1>2, <2>1 DEF Sound, Wallet
    <2>6. published[id] # None
      BY <2>3, <2>5 DEF commitment, Secret
    <2> QED BY <2>2, <2>3, <2>4, <2>6
  <1>9. CommitmentKept'
    BY <1>1, <1>8 DEF DocInv, CommitmentKept, commitment
  <1> QED BY <1>1, <1>2, <1>4, <1>6, <1>7, <1>8, <1>9 DEF DocInv

\* A step in memory that keeps the wallet sound, and drops the assertions of
\* removed owners only, keeps the invariant.
LEMMA MemoryStep ==
    ASSUME DocInv, Sound(wallet'), UNCHANGED <<doc, added, edits>>, wallet # Closed,
           gone \subseteq gone', gone' \subseteq Owner,
           \A o \in Owner : o \notin gone' => ExtIn(wallet, o) \subseteq ExtIn(wallet', o),
           published' \in [SecretId -> (Salt \X Value) \cup {None}],
           \A id \in SecretId : published[id] # None => published'[id] = published[id],
           \A id \in SecretId : wallet'.secs[id] # None =>
               published'[id] = commitment(wallet'.secs[id].salt, wallet'.secs[id].value)
    PROVE  DocInv'
  <1> USE WalletDocAssumption
  <1>1. TypeOK'
    BY DEF DocInv, TypeOK, Sound
  <1>2. ExtKept'
    BY DEF DocInv, ExtKept, ExtOf
  <1>3. ASSUME NEW a \in added, a[1] \notin gone' PROVE a[2] \in ExtIn(wallet', a[1])
    <2>1. a[1] \in Owner
      BY DEF DocInv, TypeOK
    <2>2. a[2] \in ExtIn(wallet, a[1])
      BY <1>3 DEF DocInv, ExtOpen
    <2> QED BY <1>3, <2>1, <2>2
  <1>4. ExtOpen'
    BY <1>3 DEF ExtOpen, ExtIn
  <1>5. ASSUME NEW s \in doc.secs
        PROVE  /\ s.id \in SecretId /\ published'[s.id] # None
               /\ published'[s.id] = commitment(The(s.salt), The(s.value))
    <2>1. s.id \in SecretId /\ published[s.id] = commitment(The(s.salt), The(s.value))
      BY DEF DocInv, CommitmentKept
    <2>2. published[s.id] # None
      BY DEF DocInv
    <2> QED BY <2>1, <2>2
  <1>6. CommitmentKept'
    BY <1>5 DEF CommitmentKept, commitment
  <1> QED BY <1>1, <1>2, <1>4, <1>5, <1>6 DEF DocInv

LEMMA NewIdentityStep ==
    ASSUME DocInv, NEW n \in Name, NEW k \in Key, NEW ml \in Key \cup {None},
           NewIdentity(n, k, ml)
    PROVE  DocInv'
  <1> USE WalletDocAssumption
  <1> DEFINE new == [fp |-> k, ed |-> [public |-> k, secret |-> k],
                     ml |-> IF ml = None THEN None ELSE [public |-> ml, secret |-> ml],
                     ext |-> {}]
  <1>1. /\ wallet # Closed /\ wallet.ids[n] = None /\ Sound(wallet)
        /\ UNCHANGED <<doc, gone, added, published, edits>>
    BY DEF NewIdentity, DocInv
  <1>2. new \in Identity /\ new.fp = new.ed.public
    BY DEF Identity, KeyPair
  <1>3. wallet' = [wallet EXCEPT !.ids[n] = new, !.active = IF @ = None THEN n ELSE @]
    BY DEF NewIdentity
  <1> HIDE DEF new
  <1>4. /\ wallet' \in Wallet
        /\ wallet'.ids = [wallet.ids EXCEPT ![n] = new]
        /\ wallet'.secs = wallet.secs /\ wallet'.ext = wallet.ext
    BY <1>1, <1>2, <1>3 DEF Sound, Wallet
  <1>5. /\ wallet.ids \in [Name -> Identity \cup {None}]
        /\ wallet.secs \in [SecretId -> Secret \cup {None}]
    BY <1>1 DEF Sound, Wallet
  <1>6. Sound(wallet')
    BY <1>1, <1>2, <1>4, <1>5 DEF Sound
  <1>7. ASSUME NEW o \in Owner PROVE ExtIn(wallet, o) \subseteq ExtIn(wallet', o)
    <2>1. CASE o = Root
      BY <1>4, <2>1 DEF ExtIn
    <2>2. CASE o \in Name
      BY <1>1, <1>4, <1>5, <2>2 DEF ExtIn
    <2>3. CASE o \in SecretId
      BY <1>4, <2>3 DEF ExtIn
    <2> QED BY <2>1, <2>2, <2>3 DEF Owner
  <1>8. /\ gone' \subseteq Owner
        /\ published' \in [SecretId -> (Salt \X Value) \cup {None}]
    BY <1>1 DEF DocInv, TypeOK
  <1>9. \A id \in SecretId : wallet'.secs[id] # None =>
            published'[id] = commitment(wallet'.secs[id].salt, wallet'.secs[id].value)
    BY <1>1, <1>4 DEF DocInv, CommitmentKept
  <1> QED BY <1>1, <1>6, <1>7, <1>8, <1>9, MemoryStep

LEMMA UseIdentityStep ==
    ASSUME DocInv, NEW n \in Name, UseIdentity(n)
    PROVE  DocInv'
  <1> USE WalletDocAssumption
  <1>1. /\ wallet # Closed /\ Sound(wallet) /\ wallet' = [wallet EXCEPT !.active = n]
        /\ UNCHANGED <<doc, gone, added, published, edits>>
    BY DEF UseIdentity, DocInv
  <1>2. /\ wallet' \in Wallet /\ wallet'.ids = wallet.ids
        /\ wallet'.secs = wallet.secs /\ wallet'.ext = wallet.ext
    BY <1>1 DEF Sound, Wallet
  <1>3. Sound(wallet')
    BY <1>1, <1>2 DEF Sound
  <1>4. \A o \in Owner : ExtIn(wallet, o) \subseteq ExtIn(wallet', o)
    BY <1>2 DEF ExtIn
  <1>5. /\ gone' \subseteq Owner
        /\ published' \in [SecretId -> (Salt \X Value) \cup {None}]
    BY <1>1 DEF DocInv, TypeOK
  <1>6. \A id \in SecretId : wallet'.secs[id] # None =>
            published'[id] = commitment(wallet'.secs[id].salt, wallet'.secs[id].value)
    BY <1>1, <1>2 DEF DocInv, CommitmentKept
  <1> QED BY <1>1, <1>3, <1>4, <1>5, <1>6, MemoryStep

LEMMA DeleteIdentityStep ==
    ASSUME DocInv, NEW n \in Name, DeleteIdentity(n)
    PROVE  DocInv'
  <1> USE WalletDocAssumption
  <1>1. /\ wallet # Closed /\ Sound(wallet) /\ gone' = gone \cup {n}
        /\ UNCHANGED <<doc, added, published, edits>>
    BY DEF DeleteIdentity, DocInv
  <1>2. wallet' = [wallet EXCEPT !.ids[n] = None, !.active = IF @ = n THEN None ELSE @]
    BY DEF DeleteIdentity
  <1>3. /\ wallet' \in Wallet
        /\ wallet'.ids = [wallet.ids EXCEPT ![n] = None]
        /\ wallet'.secs = wallet.secs /\ wallet'.ext = wallet.ext
    BY <1>1, <1>2 DEF Sound, Wallet
  <1>4. wallet.ids \in [Name -> Identity \cup {None}]
    BY <1>1 DEF Sound, Wallet
  <1>5. Sound(wallet')
    BY <1>1, <1>3, <1>4 DEF Sound
  <1>6. ASSUME NEW o \in Owner, o \notin gone'
        PROVE  ExtIn(wallet, o) \subseteq ExtIn(wallet', o)
    <2>1. CASE o = Root
      BY <1>3, <2>1 DEF ExtIn
    <2>2. CASE o \in Name
      BY <1>1, <1>3, <1>4, <1>6, <2>2 DEF ExtIn
    <2>3. CASE o \in SecretId
      BY <1>3, <2>3 DEF ExtIn
    <2> QED BY <2>1, <2>2, <2>3 DEF Owner
  <1>7. /\ gone' \subseteq Owner
        /\ published' \in [SecretId -> (Salt \X Value) \cup {None}]
    BY <1>1 DEF DocInv, TypeOK, Owner
  <1>8. \A id \in SecretId : wallet'.secs[id] # None =>
            published'[id] = commitment(wallet'.secs[id].salt, wallet'.secs[id].value)
    BY <1>1, <1>3 DEF DocInv, CommitmentKept
  <1> QED BY <1>1, <1>5, <1>6, <1>7, <1>8, MemoryStep

LEMMA InsertSecretStep ==
    ASSUME DocInv, NEW id \in SecretId, NEW l \in Label, NEW v \in Value, NEW t \in Salt,
           insert_secret(id, l, v, t)
    PROVE  DocInv'
  <1> USE WalletDocAssumption
  <1> DEFINE new == [label |-> l, salt |-> t, value |-> v, ext |-> {}]
  <1>1. /\ wallet # Closed /\ Sound(wallet) /\ published[id] = None
        /\ check_label(l) /\ check_value(v)
        /\ published' = [published EXCEPT ![id] = commitment(t, v)]
        /\ UNCHANGED <<doc, gone, added, edits>>
    BY DEF insert_secret, DocInv
  <1>2. new \in Secret /\ new.label = l /\ new.salt = t /\ new.value = v
    BY DEF Secret
  <1>3. wallet' = [wallet EXCEPT !.secs[id] = new]
    BY DEF insert_secret
  <1> HIDE DEF new
  <1>4. /\ wallet' \in Wallet /\ wallet'.ids = wallet.ids
        /\ wallet'.secs = [wallet.secs EXCEPT ![id] = new] /\ wallet'.ext = wallet.ext
    BY <1>1, <1>2, <1>3 DEF Sound, Wallet
  <1>5. wallet.secs \in [SecretId -> Secret \cup {None}]
    BY <1>1 DEF Sound, Wallet
  <1>6. Sound(wallet')
    BY <1>1, <1>2, <1>4, <1>5 DEF Sound
  <1>7. published \in [SecretId -> (Salt \X Value) \cup {None}] /\ gone' \subseteq Owner
    BY <1>1 DEF DocInv, TypeOK
  <1>8. wallet.secs[id] = None
    <2>1. SUFFICES ASSUME wallet.secs[id] # None PROVE FALSE
      OBVIOUS
    <2>2. published[id] = <<wallet.secs[id].salt, wallet.secs[id].value>>
      BY <1>1, <2>1 DEF DocInv, CommitmentKept, commitment
    <2>3. wallet.secs[id] \in Secret
      BY <1>5, <2>1
    <2> QED BY <1>1, <2>2, <2>3 DEF Secret
  <1>9. ASSUME NEW o \in Owner PROVE ExtIn(wallet, o) \subseteq ExtIn(wallet', o)
    <2>1. CASE o = Root \/ o \in Name
      BY <1>4, <2>1 DEF ExtIn
    <2>2. CASE o \in SecretId
      BY <1>4, <1>5, <1>8, <2>2 DEF ExtIn
    <2> QED BY <2>1, <2>2 DEF Owner
  <1>10. published' \in [SecretId -> (Salt \X Value) \cup {None}]
    BY <1>1, <1>7 DEF commitment
  <1>11. ASSUME NEW x \in SecretId, wallet'.secs[x] # None
         PROVE  published'[x] = commitment(wallet'.secs[x].salt, wallet'.secs[x].value)
    <2>1. CASE x = id
      BY <1>1, <1>2, <1>4, <1>5, <1>7, <2>1
    <2>2. CASE x # id
      <3>1. wallet'.secs[x] = wallet.secs[x] /\ published'[x] = published[x]
        BY <1>1, <1>4, <1>5, <1>7, <2>2
      <3> QED BY <1>1, <1>11, <3>1 DEF DocInv, CommitmentKept
    <2> QED BY <2>1, <2>2
  <1>12. \A x \in SecretId : published[x] # None => published'[x] = published[x]
    BY <1>1, <1>7
  <1> QED BY <1>1, <1>6, <1>7, <1>9, <1>10, <1>11, <1>12, MemoryStep

LEMMA RemoveSecretStep ==
    ASSUME DocInv, NEW id \in SecretId, remove_secret(id)
    PROVE  DocInv'
  <1> USE WalletDocAssumption
  <1>1. /\ wallet # Closed /\ Sound(wallet) /\ gone' = gone \cup {id}
        /\ wallet' = [wallet EXCEPT !.secs[id] = None]
        /\ UNCHANGED <<doc, added, published, edits>>
    BY DEF remove_secret, DocInv
  <1>2. /\ wallet' \in Wallet /\ wallet'.ids = wallet.ids
        /\ wallet'.secs = [wallet.secs EXCEPT ![id] = None] /\ wallet'.ext = wallet.ext
    BY <1>1 DEF Sound, Wallet
  <1>3. wallet.secs \in [SecretId -> Secret \cup {None}]
    BY <1>1 DEF Sound, Wallet
  <1>4. Sound(wallet')
    BY <1>1, <1>2, <1>3 DEF Sound
  <1>5. ASSUME NEW o \in Owner, o \notin gone'
        PROVE  ExtIn(wallet, o) \subseteq ExtIn(wallet', o)
    <2>1. CASE o = Root \/ o \in Name
      BY <1>2, <2>1 DEF ExtIn
    <2>2. CASE o \in SecretId
      BY <1>1, <1>2, <1>3, <1>5, <2>2 DEF ExtIn
    <2> QED BY <2>1, <2>2 DEF Owner
  <1>6. /\ gone' \subseteq Owner
        /\ published' \in [SecretId -> (Salt \X Value) \cup {None}]
    BY <1>1 DEF DocInv, TypeOK, Owner
  <1>7. ASSUME NEW x \in SecretId, wallet'.secs[x] # None
        PROVE  published'[x] = commitment(wallet'.secs[x].salt, wallet'.secs[x].value)
    <2>1. wallet'.secs[x] = wallet.secs[x]
      BY <1>2, <1>3, <1>7
    <2> QED BY <1>1, <1>7, <2>1 DEF DocInv, CommitmentKept
  <1> QED BY <1>1, <1>4, <1>5, <1>6, <1>7, MemoryStep

LEMMA CloseStep == DocInv /\ Close => DocInv'
  <1> SUFFICES ASSUME DocInv, Close PROVE DocInv'
    OBVIOUS
  <1>1. wallet' = Closed /\ UNCHANGED <<doc, gone, added, published, edits>>
    BY DEF Close
  <1>2. TypeOK' /\ ExtKept' /\ ExtOpen'
    BY <1>1 DEF DocInv, TypeOK, ExtKept, ExtOf, ExtOpen
  <1>3. CommitmentKept'
    BY <1>1 DEF DocInv, CommitmentKept, commitment
  <1> QED BY <1>1, <1>2, <1>3 DEF DocInv

LEMMA DocStep == DocInv /\ [Next]_vars => DocInv'
  <1> SUFFICES ASSUME DocInv, [Next]_vars PROVE DocInv'
    OBVIOUS
  <1>1. CASE UNCHANGED vars
    BY <1>1 DEF vars, DocInv, TypeOK, ExtKept, ExtOf, ExtOpen, ExtIn, CommitmentKept,
                commitment
  <1>2. CASE Load \/ Save \/ Close
    BY <1>2, LoadStep, SaveStep, CloseStep
  <1>3. CASE \E n \in Name, k \in Key, ml \in Key \cup {None} : NewIdentity(n, k, ml)
    BY <1>3, NewIdentityStep
  <1>4. CASE \E n \in Name : UseIdentity(n) \/ DeleteIdentity(n)
    BY <1>4, UseIdentityStep, DeleteIdentityStep
  <1>5. CASE \E id \in SecretId, l \in Label, v \in Value, t \in Salt :
                insert_secret(id, l, v, t)
    BY <1>5, InsertSecretStep
  <1>6. CASE \E id \in SecretId : remove_secret(id)
    BY <1>6, RemoveSecretStep
  <1>7. CASE \E o \in Owner, e \in Ext : Extend(o, e)
    BY <1>7, ExtendStep
  <1>8. CASE \E e \in Ext : Elide(e)
    BY <1>8, ElideStep
  <1>9. CASE \E x \in Name \cup {Junk} : Activate(x)
    BY <1>9, ActivateStep
  <1>10. CASE \E i \in doc.ids, pub, sec \in {{k} : k \in Key} \cup {{}} :
                 AddMlDsa(i, pub, sec)
    BY <1>10, AddMlDsaStep
  <1> QED
    BY <1>1, <1>2, <1>3, <1>4, <1>5, <1>6, <1>7, <1>8, <1>9, <1>10 DEF Next

LEMMA DocAlways == Spec => []DocInv
  BY DocInit, DocStep, PTL DEF Spec

-----------------------------------------------------------------------------
(* The theorems. *)

\* The document and the wallet in memory always have the shapes the codec
\* knows, whatever the other program asserted (Opt, wallet_from_envelope).
THEOREM WalletDocTypeCorrect == Spec => []TypeOK
  <1>1. DocInv => TypeOK
    BY DEF DocInv
  <1> QED BY <1>1, DocAlways, PTL

\* Every wallet in memory can be saved and opened again unchanged, for every
\* set of names, keys, labels, values and assertions (to_envelope and
\* from_envelope of wallet, identity and secret).
THEOREM ReopensAlways == Spec => []Reopens
  <1>1. DocInv => Reopens
    BY WalletRoundTrip DEF DocInv, Reopens
  <1> QED BY <1>1, DocAlways, PTL

\* No assertion of the other program is lost while its owner is there
\* (unknown_assertions of wallet, identity and secret).
THEOREM ExtKeptAlways == Spec => []ExtKept
  <1>1. DocInv => ExtKept
    BY DEF DocInv
  <1> QED BY <1>1, DocAlways, PTL

\* A published commitment keeps opening to the secret it was made for
\* (SealedSecret::commitment, insert_secret, and the codec).
THEOREM CommitmentKeptAlways == Spec => []CommitmentKept
  <1>1. DocInv => CommitmentKept
    BY DEF DocInv
  <1> QED BY <1>1, DocAlways, PTL
=============================================================================
