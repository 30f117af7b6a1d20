----------------------------- MODULE WalletDoc -----------------------------
(***************************************************************************)
(* The wallet document: the Gordian envelope inside the encrypted file and *)
(* the WalletData it becomes in memory (identikey-wallet/src/envelope.rs   *)
(* and basic.rs, identikey-secret/src/record.rs and store.rs).             *)
(*                                                                         *)
(* Two programs share the wallet.  This one opens it, edits identities and *)
(* secrets, and saves it; another, newer one edits the document while this *)
(* one does not have it open, and adds assertions this one does not know.  *)
(* (Encryption, locking and writing the file are WalletStore's.)           *)
(*                                                                         *)
(* An envelope is the set of objects asserted for each predicate.  `head'  *)
(* says that the subject map, and the `created' date, are well formed;     *)
(* `ext' are the assertions with other predicates, `elided' those of which *)
(* only the digest is left.                                                *)
(***************************************************************************)
EXTENDS Naturals

CONSTANTS
    Name,        \* identity names
    Key,         \* key pairs, as public or as secret bytes
    SecretId,    \* path-safe secret ids
    Label, BadLabel,   \* labels; those check_label refuses
    Value, BadValue,   \* secret values; those check_value refuses
    Salt,        \* commitment salts
    Ext,         \* assertions with predicates this program does not know
    Junk,        \* an object of another type
    Root,        \* the wallet as the owner of an assertion
    None, Closed,
    MaxEdits     \* bound on the other program's edits

Obj == Name \cup Key \cup Label \cup Value \cup Salt \cup {Junk}

IdDoc == [head : BOOLEAN, fp : Key, name : SUBSET Obj,
          ed_public : SUBSET Obj, ed_secret : SUBSET Obj,
          ml_public : SUBSET Obj, ml_secret : SUBSET Obj,
          ext : SUBSET Ext, elided : SUBSET Ext]

SecDoc == [head : BOOLEAN, id : SecretId \cup {Junk}, label : SUBSET Obj,
           salt : SUBSET Obj, value : SUBSET Obj,
           ext : SUBSET Ext, elided : SUBSET Ext]

Doc == [head : BOOLEAN, active : SUBSET Obj, ids : SUBSET IdDoc,
        secs : SUBSET SecDoc, ext : SUBSET Ext, elided : SUBSET Ext]

\* BasicIdentity, SealedSecret and WalletData.
KeyPair == [public : Key, secret : Key]

Identity == [fp : Key, ed : KeyPair, ml : KeyPair \cup {None}, ext : SUBSET Ext]

Secret == [label : Label, salt : Salt, value : Value, ext : SUBSET Ext]

Wallet == [active : Name \cup {None}, ids : [Name -> Identity \cup {None}],
           secs : [SecretId -> Secret \cup {None}], ext : SUBSET Ext]

Owner == {Root} \cup Name \cup SecretId

ASSUME WalletDocAssumption ==
    /\ BadLabel \subseteq Label /\ BadValue \subseteq Value
    /\ None \notin Identity \cup Secret \cup KeyPair \cup Name \cup Key
    /\ None \notin Salt \X Value
    /\ Closed \notin Wallet
    /\ Root \notin Name \cup SecretId /\ Name \cap SecretId = {}
    /\ Junk \notin Name \cup Key \cup Label \cup Value \cup Salt \cup SecretId
    /\ MaxEdits \in Nat

VARIABLES
    doc,        \* the envelope in the file
    wallet,     \* WalletData in memory, or Closed
    gone,       \* owners removed from memory since the wallet was opened
    added,      \* <<owner, ext>> the other program added (history)
    published,  \* secret id -> the commitment published for it (history)
    edits       \* edits by the other program so far

vars == <<doc, wallet, gone, added, published, edits>>

TypeOK ==
    /\ doc \in Doc
    /\ wallet \in Wallet \cup {Closed}
    /\ gone \subseteq Owner
    /\ added \subseteq Owner \X Ext
    /\ published \in [SecretId -> (Salt \X Value) \cup {None}]
    /\ edits \in 0 .. MaxEdits

-----------------------------------------------------------------------------
(* Reading an object: extract_object_for_predicate wants exactly one object *)
(* of the right type; the optional form with unwrap_or(None) makes nothing  *)
(* of any other number or type.                                             *)

One(objs, T) == \E x \in T : objs = {x}

The(objs) == CHOOSE x \in objs : TRUE

\* Mutant: any object is taken.
Opt_Any(objs, T) == IF objs # {} THEN The(objs) ELSE None

Opt(objs, T) == IF One(objs, T) THEN The(objs) ELSE None

\* BasicIdentity::from_envelope.
IdDecodes(d) ==
    /\ d.head
    /\ One(d.name, Name) /\ One(d.ed_public, Key) /\ One(d.ed_secret, Key)
    /\ One(d.ml_public, Key) <=> One(d.ml_secret, Key)
    /\ d.ed_public = {d.fp}

\* Mutant: assertions with unknown predicates are dropped.
IdFrom_Drops(d) ==
    [fp |-> d.fp,
     ed |-> [public |-> The(d.ed_public), secret |-> The(d.ed_secret)],
     ml |-> IF One(d.ml_public, Key)
            THEN [public |-> The(d.ml_public), secret |-> The(d.ml_secret)] ELSE None,
     ext |-> {}]

IdFrom(d) ==
    [fp |-> d.fp,
     ed |-> [public |-> The(d.ed_public), secret |-> The(d.ed_secret)],
     ml |-> IF One(d.ml_public, Key)
            THEN [public |-> The(d.ml_public), secret |-> The(d.ml_secret)] ELSE None,
     ext |-> d.ext]

\* SealedSecret::from_envelope.
check_label(l) == l \notin BadLabel
check_value(v) == v \notin BadValue

SecDecodes(d) ==
    /\ d.head /\ d.id \in SecretId
    /\ One(d.label, Label) /\ check_label(The(d.label))
    /\ One(d.salt, Salt)
    /\ One(d.value, Value) /\ check_value(The(d.value))

SecFrom(d) == [label |-> The(d.label), salt |-> The(d.salt),
               value |-> The(d.value), ext |-> d.ext]

\* The document opens: wallet_from_envelope returns no error.
Opens(d) ==
    /\ d.head
    /\ \A i \in d.ids : IdDecodes(i)
    /\ \A s \in d.secs : SecDecodes(s)
    /\ \A i, j \in d.ids : i.name = j.name => i = j
    /\ \A s, t \in d.secs : s.id = t.id => s = t

IdNamed(d, n) == CHOOSE i \in d.ids : i.name = {n}
SecOf(d, id)  == CHOOSE s \in d.secs : s.id = id

wallet_from_envelope(d) ==
    [active |-> Opt(d.active, Name),
     ids |-> [n \in Name |-> IF \E i \in d.ids : i.name = {n}
                             THEN IdFrom(IdNamed(d, n)) ELSE None],
     secs |-> [id \in SecretId |-> IF \E s \in d.secs : s.id = id
                                   THEN SecFrom(SecOf(d, id)) ELSE None],
     ext |-> d.ext]

-----------------------------------------------------------------------------
(* Writing. *)

\* Mutant: the public half of the post-quantum key is not written.
IdTo_HalfKey(n, id) ==
    [head |-> TRUE, fp |-> id.fp, name |-> {n},
     ed_public |-> {id.ed.public}, ed_secret |-> {id.ed.secret},
     ml_public |-> {},
     ml_secret |-> IF id.ml = None THEN {} ELSE {id.ml.secret},
     ext |-> id.ext, elided |-> {}]

\* BasicIdentity::to_envelope.
IdTo(n, id) ==
    [head |-> TRUE, fp |-> id.fp, name |-> {n},
     ed_public |-> {id.ed.public}, ed_secret |-> {id.ed.secret},
     ml_public |-> IF id.ml = None THEN {} ELSE {id.ml.public},
     ml_secret |-> IF id.ml = None THEN {} ELSE {id.ml.secret},
     ext |-> id.ext, elided |-> {}]

\* SealedSecret::to_envelope.
SecTo(id, s) ==
    [head |-> TRUE, id |-> id, label |-> {s.label}, salt |-> {s.salt},
     value |-> {s.value}, ext |-> s.ext, elided |-> {}]

Encodes(w) == \A n \in Name : w.ids[n] # None => w.ids[n].fp = w.ids[n].ed.public

wallet_to_envelope(w) ==
    [head |-> TRUE, active |-> IF w.active = None THEN {} ELSE {w.active},
     ids |-> {IdTo(n, w.ids[n]) : n \in {m \in Name : w.ids[m] # None}},
     secs |-> {SecTo(id, w.secs[id]) : id \in {i \in SecretId : w.secs[i] # None}},
     ext |-> w.ext, elided |-> {}]

commitment(salt, value) == <<salt, value>>

-----------------------------------------------------------------------------
(* This program. *)

WalletData_new ==
    [active |-> None, ids |-> [n \in Name |-> None],
     secs |-> [id \in SecretId |-> None], ext |-> {}]

Init ==
    /\ doc = wallet_to_envelope(WalletData_new)
    /\ wallet = Closed
    /\ gone = {} /\ added = {}
    /\ published = [id \in SecretId |-> None]
    /\ edits = 0

Load ==
    /\ wallet = Closed /\ Opens(doc)
    /\ wallet' = wallet_from_envelope(doc)
    /\ gone' = {}
    /\ UNCHANGED <<doc, added, published, edits>>

\* identity new: a fresh Ed25519 key, and an ML-DSA key unless --no-pq.
NewIdentity(n, k, ml) ==
    /\ wallet # Closed /\ wallet.ids[n] = None
    /\ wallet' = [wallet EXCEPT
          !.ids[n] = [fp |-> k, ed |-> [public |-> k, secret |-> k],
                      ml |-> IF ml = None THEN None ELSE [public |-> ml, secret |-> ml],
                      ext |-> {}],
          !.active = IF @ = None THEN n ELSE @]
    /\ UNCHANGED <<doc, gone, added, published, edits>>

UseIdentity(n) ==
    /\ wallet # Closed /\ wallet.ids[n] # None
    /\ wallet' = [wallet EXCEPT !.active = n]
    /\ UNCHANGED <<doc, gone, added, published, edits>>

DeleteIdentity(n) ==
    /\ wallet # Closed /\ wallet.ids[n] # None
    /\ wallet' = [wallet EXCEPT !.ids[n] = None,
                                !.active = IF @ = n THEN None ELSE @]
    /\ gone' = gone \cup {n}
    /\ UNCHANGED <<doc, added, published, edits>>

\* Mutants: neither the label nor the value is checked; the value is sealed
\* under a salt other than the one committed to.
insert_secret_Unchecked(id, label, value, salt) ==
    /\ wallet # Closed /\ published[id] = None
    /\ wallet' = [wallet EXCEPT !.secs[id] =
          [label |-> label, salt |-> salt, value |-> value, ext |-> {}]]
    /\ published' = [published EXCEPT ![id] = commitment(salt, value)]
    /\ UNCHANGED <<doc, gone, added, edits>>

insert_secret_OtherSalt(id, label, value, salt) ==
    /\ wallet # Closed /\ published[id] = None
    /\ check_label(label) /\ check_value(value)
    /\ \E t \in Salt : wallet' = [wallet EXCEPT !.secs[id] =
          [label |-> label, salt |-> t, value |-> value, ext |-> {}]]
    /\ published' = [published EXCEPT ![id] = commitment(salt, value)]
    /\ UNCHANGED <<doc, gone, added, edits>>

\* Wallet::insert_secret, SealedSecret::generate: a random id, never drawn
\* before, and a random salt.  The caller may publish the commitment.
insert_secret(id, label, value, salt) ==
    /\ wallet # Closed /\ published[id] = None
    /\ check_label(label) /\ check_value(value)
    /\ wallet' = [wallet EXCEPT !.secs[id] =
          [label |-> label, salt |-> salt, value |-> value, ext |-> {}]]
    /\ published' = [published EXCEPT ![id] = commitment(salt, value)]
    /\ UNCHANGED <<doc, gone, added, edits>>

remove_secret(id) ==
    /\ wallet # Closed /\ wallet.secs[id] # None
    /\ wallet' = [wallet EXCEPT !.secs[id] = None]
    /\ gone' = gone \cup {id}
    /\ UNCHANGED <<doc, added, published, edits>>

\* Wallet::save; the wallet stays open.
Save ==
    /\ wallet # Closed /\ Encodes(wallet)
    /\ doc' = wallet_to_envelope(wallet)
    /\ added' = {a \in added : a[1] \notin gone}
    /\ UNCHANGED <<wallet, gone, published, edits>>

\* The Wallet is dropped, with or without what was not saved.
Close ==
    /\ wallet # Closed
    /\ wallet' = Closed
    /\ UNCHANGED <<doc, gone, added, published, edits>>

-----------------------------------------------------------------------------
(* The other program. *)

Edit(d) ==
    /\ wallet = Closed /\ edits < MaxEdits
    /\ doc' = d
    /\ edits' = edits + 1
    /\ UNCHANGED <<wallet, gone, published>>

\* An assertion this program does not know, about the wallet, an identity or a
\* secret.
Extend(o, e) ==
    /\ added' = added \cup {<<o, e>>}
    /\ \/ /\ o = Root
          /\ Edit([doc EXCEPT !.ext = @ \cup {e}])
       \/ /\ o \in Name
          /\ \E i \in doc.ids :
             /\ i.name = {o}
             /\ Edit([doc EXCEPT !.ids = (@ \ {i}) \cup {[i EXCEPT !.ext = @ \cup {e}]}])
       \/ /\ o \in SecretId
          /\ \E s \in doc.secs :
             /\ s.id = o
             /\ Edit([doc EXCEPT !.secs = (@ \ {s}) \cup {[s EXCEPT !.ext = @ \cup {e}]}])

\* It elides an assertion of the wallet.
Elide(e) ==
    /\ e \in doc.ext
    /\ Edit([doc EXCEPT !.ext = @ \ {e}, !.elided = @ \cup {e}])
    /\ added' = added \ {<<Root, e>>}

\* It asserts another active identity next to the one there is, or one that is
\* not a name.
Activate(x) ==
    Edit([doc EXCEPT !.active = @ \cup {x}]) /\ UNCHANGED added

\* It gives an identity another post-quantum key, or only half of one.
AddMlDsa(i, pub, sec) ==
    /\ Edit([doc EXCEPT !.ids = (@ \ {i}) \cup
               {[i EXCEPT !.ml_public = @ \cup pub, !.ml_secret = @ \cup sec]}])
    /\ UNCHANGED added

Next ==
    \/ Load \/ Save \/ Close
    \/ \E n \in Name, k \in Key, ml \in Key \cup {None} : NewIdentity(n, k, ml)
    \/ \E n \in Name : UseIdentity(n) \/ DeleteIdentity(n)
    \/ \E id \in SecretId, l \in Label, v \in Value, t \in Salt :
          insert_secret(id, l, v, t)
    \/ \E id \in SecretId : remove_secret(id)
    \/ \E o \in Owner, e \in Ext : Extend(o, e)
    \/ \E e \in Ext : Elide(e)
    \/ \E x \in Name \cup {Junk} : Activate(x)
    \/ \E i \in doc.ids, pub, sec \in {{k} : k \in Key} \cup {{}} : AddMlDsa(i, pub, sec)

Spec == Init /\ [][Next]_vars

-----------------------------------------------------------------------------
(* What the document promises. *)

\* Any wallet that is open, whatever document it came from and however it was
\* edited, can be saved, and opening what was saved gives the same wallet
\* (to_envelope and from_envelope of wallet, identity and secret): no edit
\* makes a wallet that cannot be opened again.
Reopens ==
    wallet # Closed =>
        /\ Encodes(wallet)
        /\ Opens(wallet_to_envelope(wallet))
        /\ wallet_from_envelope(wallet_to_envelope(wallet)) = wallet

ExtOf(d, o) ==
    CASE o = Root -> d.ext
      [] o \in Name -> UNION {i.ext : i \in {j \in d.ids : j.name = {o}}}
      [] OTHER -> UNION {s.ext : s \in {t \in d.secs : t.id = o}}

\* What the other program asserted, and this one does not understand, is still
\* in the document after any number of loads, edits and saves, as long as the
\* wallet, identity or secret it is about was not removed ("preserved
\* verbatim in unknown_assertions and re-emitted on encode", basic.rs).
ExtKept == \A a \in added : a[2] \in ExtOf(doc, a[1])

\* The commitment published for a secret opens to what the wallet holds under
\* its id, in memory and in the document, for as long as it is there
\* (SealedSecret::commitment).
CommitmentKept ==
    /\ \A s \in doc.secs : published[s.id] = commitment(The(s.salt), The(s.value))
    /\ wallet # Closed => \A id \in SecretId : wallet.secs[id] # None =>
          published[id] = commitment(wallet.secs[id].salt, wallet.secs[id].value)
=============================================================================
