-------------------------- MODULE DeviceKeys_proof --------------------------
(***************************************************************************)
(* Proofs about three parts of identikey-auth that have to do with device  *)
(* keys, for every value of their constants.                               *)
(*                                                                         *)
(* EnclaveKeys, for any number of processes and faults: the types, that    *)
(* the identity is stable, that signers sign as themselves, that a written *)
(* seed stays, and that public keys have one encoding.                     *)
(*                                                                         *)
(* Cbor, for all inputs and values: whatever from_bytes accepts is what    *)
(* to_bytes writes for it, and what to_bytes writes is accepted and means  *)
(* the same.  The depth of nesting takes an induction, made here of the    *)
(* well-foundedness of the natural numbers, as do the loops over items and *)
(* entries.  A level is two invariants of the reader of the level below:   *)
(* what is read stands where it was read (Reads), and what is written is   *)
(* read wherever it stands (Rereads).  Heads and integers, strings, loops, *)
(* the order of keys and maps each have a section that leads there.        *)
(*                                                                         *)
(* NodeAttest, for any devices, nodes and number of signatures: payloads   *)
(* and fingerprints are injective because the codec is, an attestation     *)
(* arrives as it was sent, and every signature over a node's payload is by *)
(* a device that attested the node.                                        *)
(***************************************************************************)
EXTENDS EnclaveKeys, NodeAttest, SequenceTheorems, FiniteSetTheorems,
        WellFoundedInduction, TLAPS

-----------------------------------------------------------------------------
(* EnclaveKeys: the inductive invariant. *)

\* The hardware of the TPM kinds holds one key; keychain keys are numbered.
StoreOK ==
    /\ kind \notin Apple => \A a, b \in store : a = b
    /\ \A k \in store : kind \in Apple => k <= made

\* What was handed out or written to the file belongs to a key that is there.
NamesOK ==
    /\ handed \subseteq store
    /\ file \in Blobs => file.pub \in store

\* A call past its lookup or generation has a key that is there, on the path
\* of its kind; a call about to write is the only one with its key.
CallOK(p) ==
    /\ call[p].at \in {"open", "write", "read", "finish"} => call[p].key \in store
    /\ call[p].at \in {"open", "write", "read"} => kind = "sepEd"
    /\ call[p].at = "finish" => kind # "sepEd"
    /\ call[p].at = "persist" => kind \notin Apple
    /\ call[p].at \in {"open", "write"} => file \notin Blobs \/ file.pub # call[p].key

SignerOK(p) ==
    signer[p] # NoSigner =>
        /\ signer[p].key \in store /\ signer[p].pub \in store
        /\ kind # "sepEd" => signer[p].key = signer[p].pub /\ signer[p].whole

Writers ==
    \A p, q \in Proc :
        /\ call[p].at \in {"open", "write"} /\ call[q].at \in {"open", "write"}
        /\ p # q
        => call[p].key # call[q].key

EnclaveInv ==
    /\ TypeOK /\ StoreOK /\ NamesOK /\ Writers
    /\ \A p \in Proc : CallOK(p) /\ SignerOK(p)

\* Initially nothing was made.
LEMMA EnclaveInit == Init => EnclaveInv
  BY EnclaveAssumption DEF Init, EnclaveInv, TypeOK, StoreOK, NamesOK, Writers,
     CallOK, SignerOK, Idle, Calls, Steps, Kinds, Apple

\* A step of a call that only moves process p.
LEMMA GotoType ==
    ASSUME TypeOK, NEW p \in Proc, NEW at \in Steps, NEW key \in Nat,
           Goto(p, at, key)
    PROVE  /\ call' \in [Proc -> Calls]
           /\ call'[p] = [at |-> at, key |-> key]
           /\ \A q \in Proc : q # p => call'[q] = call[q]
  BY DEF TypeOK, Goto, Calls

\* The rest of the invariant is about p's call alone while the keys and the
\* file stay: what the other processes have is as good as before.
LEMMA OnlyCallMoves ==
    ASSUME EnclaveInv, NEW p \in Proc, NEW at \in Steps, NEW key \in Nat,
           Goto(p, at, key), at \notin {"open", "write"},
           UNCHANGED <<kind, store, file>>, made' \in Nat, made' >= made,
           handed' \in SUBSET store,
           faults' \in 0 .. MaxFaults,
           signer' \in [Proc -> Signers \cup {NoSigner}],
           \A q \in Proc : q # p => signer'[q] = signer[q],
           CallOK(p)', SignerOK(p)'
    PROVE  EnclaveInv'
  <1>1. TypeOK /\ (\A q \in Proc : CallOK(q) /\ SignerOK(q))
    BY DEF EnclaveInv
  <1>2. /\ call' \in [Proc -> Calls]
        /\ call'[p] = [at |-> at, key |-> key]
        /\ \A q \in Proc : q # p => call'[q] = call[q]
    BY <1>1, GotoType
  <1>3. TypeOK'
    BY <1>1, <1>2 DEF TypeOK
  <1>4. StoreOK' /\ NamesOK'
    BY <1>1 DEF EnclaveInv, StoreOK, NamesOK, TypeOK
  <1>5. Writers'
    BY <1>2 DEF EnclaveInv, Writers
  <1>6. \A q \in Proc : CallOK(q)' /\ SignerOK(q)'
    BY <1>1, <1>2 DEF CallOK, SignerOK
  <1> QED BY <1>3, <1>4, <1>5, <1>6 DEF EnclaveInv

\* Every step keeps the invariant.
LEMMA EnclaveStep == EnclaveInv /\ [Next]_vars => EnclaveInv'
  <1> SUFFICES ASSUME EnclaveInv, [Next]_vars PROVE EnclaveInv'
    OBVIOUS
  <1> USE EnclaveAssumption
  <1>0. /\ TypeOK /\ StoreOK /\ NamesOK /\ Writers
        /\ \A p \in Proc : CallOK(p) /\ SignerOK(p)
    BY DEF EnclaveInv
  <1>1. ASSUME NEW p \in Proc, Lookup(p) PROVE EnclaveInv'
    <2>1. PICK at \in {"read", "finish", "create"}, key \in Nat :
             /\ Goto(p, at, key)
             /\ at = "read" => kind = "sepEd" /\ key \in store
             /\ at = "finish" => kind # "sepEd" /\ key \in store
      BY <1>0, <1>1 DEF Lookup, AfterFound, TypeOK
    <2>2. at \in Steps /\ call'[p] = [at |-> at, key |-> key]
      BY <1>0, <2>1, GotoType DEF Steps
    <2>3. CallOK(p)' /\ SignerOK(p)'
      BY <1>0, <1>1, <2>1, <2>2 DEF Lookup, CallOK, SignerOK
    <2> QED
      BY <1>0, <1>1, <2>1, <2>2, <2>3, OnlyCallMoves DEF Lookup, TypeOK, NamesOK
  <1>2. ASSUME NEW p \in Proc, LookupError(p) PROVE EnclaveInv'
    <2>0. faults' \in 0 .. MaxFaults
      BY <1>0, <1>2 DEF LookupError, Fault, TypeOK
    <2>1. CASE kind = "cng"
      BY <1>0, <1>2, <2>0, <2>1 DEF LookupError, EnclaveInv, TypeOK, StoreOK,
         NamesOK, Writers, CallOK, SignerOK
    <2>2. CASE kind # "cng"
      <3>1. Goto(p, "create", 0) /\ "create" \in Steps
        BY <1>2, <2>2 DEF LookupError, Steps
      <3>a. call'[p] = [at |-> "create", key |-> 0]
        BY <1>0, <3>1, GotoType
      <3>2. CallOK(p)' /\ SignerOK(p)'
        BY <1>0, <1>2, <3>a DEF LookupError, CallOK, SignerOK
      <3> QED
        BY <1>0, <1>2, <2>0, <3>1, <3>2, OnlyCallMoves DEF LookupError, TypeOK, NamesOK
    <2> QED BY <2>1, <2>2
  <1>3. ASSUME NEW p \in Proc, GenerateSep(p) PROVE EnclaveInv'
    <2>1. PICK at \in {"open", "finish"} :
             /\ Goto(p, at, made + 1)
             /\ at = "open" => kind = "sepEd"
             /\ at = "finish" => kind # "sepEd"
      BY <1>3 DEF GenerateSep
    <2>2. made + 1 \in Nat /\ made + 1 \notin store /\ kind \in Apple
          /\ (file \notin Blobs \/ file.pub # made + 1)
      BY <1>0, <1>3 DEF GenerateSep, TypeOK, StoreOK, NamesOK
    <2>3. /\ call' \in [Proc -> Calls]
          /\ call'[p] = [at |-> at, key |-> made + 1]
          /\ \A q \in Proc : q # p => call'[q] = call[q]
      BY <1>0, <2>1, <2>2, GotoType DEF Steps
    <2>4. TypeOK'
      BY <1>0, <1>3, <2>2, <2>3 DEF TypeOK, GenerateSep
    <2>5. StoreOK' /\ NamesOK'
      BY <1>0, <1>3, <2>2 DEF StoreOK, NamesOK, GenerateSep, TypeOK
    <2>6. \A q \in Proc : CallOK(q)' /\ SignerOK(q)'
      BY <1>0, <1>3, <2>1, <2>2, <2>3 DEF CallOK, SignerOK, GenerateSep
    <2>7. Writers'
      BY <1>0, <2>2, <2>3 DEF Writers, CallOK
    <2> QED BY <2>4, <2>5, <2>6, <2>7 DEF EnclaveInv
  <1>4. ASSUME NEW p \in Proc, CreateKey(p) PROVE EnclaveInv'
    <2>1. made' \in Nat /\ "persist" \in Steps /\ kind \notin Apple
          /\ Goto(p, "persist", made') /\ faults' \in 0 .. MaxFaults
      BY <1>0, <1>4 DEF CreateKey, create_primary, create_key, TypeOK, Steps
    <2>2. call' \in [Proc -> Calls] /\ call'[p] = [at |-> "persist", key |-> made']
          /\ \A q \in Proc : q # p => call'[q] = call[q]
      BY <1>0, <2>1, GotoType
    <2>3. TypeOK' /\ StoreOK' /\ NamesOK'
      BY <1>0, <1>4, <2>1, <2>2 DEF CreateKey, create_primary, create_key, TypeOK, StoreOK, NamesOK
    <2>4. Writers' /\ \A q \in Proc : CallOK(q)' /\ SignerOK(q)'
      BY <1>0, <1>4, <2>1, <2>2 DEF CreateKey, create_primary, create_key, CallOK, SignerOK, Writers
    <2> QED BY <2>3, <2>4 DEF EnclaveInv
  <1>5. ASSUME NEW p \in Proc, Persist(p) PROVE EnclaveInv'
    <2>0. call[p].key \in Nat /\ "idle" \in Steps /\ "finish" \in Steps /\ kind \notin Apple
          /\ kind # "sepEd"
      BY <1>0, <1>5 DEF Persist, At, TypeOK, Calls, Steps, CallOK, Apple
    <2>1. CASE store # {}
      <3>1. Goto(p, "idle", 0) /\ store' = store
        BY <1>5, <2>1 DEF Persist
      <3>a. call'[p] = [at |-> "idle", key |-> 0]
        BY <1>0, <2>0, <3>1, GotoType
      <3>2. CallOK(p)' /\ SignerOK(p)'
        BY <1>0, <1>5, <3>1, <3>a DEF Persist, CallOK, SignerOK
      <3> QED
        BY <1>0, <1>5, <2>0, <3>1, <3>2, OnlyCallMoves DEF Persist, TypeOK, NamesOK
    <2>2. CASE store = {}
      <3>1. Goto(p, "finish", call[p].key) /\ store' = {call[p].key}
        BY <1>5, <2>2 DEF Persist
      <3>2. /\ call' \in [Proc -> Calls]
            /\ call'[p] = [at |-> "finish", key |-> call[p].key]
            /\ \A q \in Proc : q # p => call'[q] = call[q]
        BY <1>0, <2>0, <3>1, GotoType
      <3>3. TypeOK' /\ StoreOK' /\ NamesOK'
        BY <1>0, <1>5, <2>0, <2>2, <3>1, <3>2 DEF Persist, TypeOK, StoreOK, NamesOK
      <3>4. Writers' /\ \A q \in Proc : CallOK(q)' /\ SignerOK(q)'
        BY <1>0, <1>5, <2>0, <2>2, <3>1, <3>2 DEF Persist, CallOK, SignerOK, Writers
      <3> QED BY <3>3, <3>4 DEF EnclaveInv
    <2> QED BY <2>1, <2>2
  <1>6. ASSUME NEW p \in Proc, OpenFile(p) PROVE EnclaveInv'
    <2>0. call[p].key \in Nat /\ "write" \in Steps /\ Goto(p, "write", call[p].key)
      BY <1>0, <1>6 DEF OpenFile, TypeOK, Calls, Steps
    <2>1. /\ call' \in [Proc -> Calls]
          /\ call'[p] = [at |-> "write", key |-> call[p].key]
          /\ \A q \in Proc : q # p => call'[q] = call[q]
      BY <1>0, <2>0, GotoType
    <2>2. call[p].key \in store /\ kind = "sepEd" /\ Empty \notin Blobs
      BY <1>0, <1>6 DEF OpenFile, At, CallOK, TypeOK, Calls
    <2>3. TypeOK' /\ StoreOK' /\ NamesOK'
      BY <1>0, <1>6, <2>1 DEF OpenFile, TypeOK, StoreOK, NamesOK
    <2>4. Writers'
      BY <1>0, <1>6, <2>1 DEF OpenFile, At, Writers
    <2>5. \A q \in Proc : CallOK(q)' /\ SignerOK(q)'
      BY <1>0, <1>6, <2>1, <2>2 DEF OpenFile, CallOK, SignerOK
    <2> QED BY <2>3, <2>4, <2>5 DEF EnclaveInv
  <1>7. ASSUME NEW p \in Proc, WriteFile(p) PROVE EnclaveInv'
    <2>0. /\ call[p].key \in Nat /\ "idle" \in Steps /\ Goto(p, "idle", 0)
          /\ call[p].at = "write" /\ call[p].key \in store /\ kind = "sepEd"
      BY <1>0, <1>7 DEF WriteFile, Give, At, TypeOK, Calls, Steps, CallOK
    <2>1. /\ call' \in [Proc -> Calls]
          /\ call'[p] = [at |-> "idle", key |-> 0]
          /\ \A q \in Proc : q # p => call'[q] = call[q]
      BY <1>0, <2>0, GotoType
    <2>2. /\ signer' \in [Proc -> Signers \cup {NoSigner}]
          /\ signer'[p] = [key |-> call[p].key, pub |-> call[p].key, whole |-> TRUE]
          /\ \A q \in Proc : q # p => signer'[q] = signer[q]
      BY <1>0, <1>7, <2>0 DEF WriteFile, Give, TypeOK, Signers
    <2>a. file' = [pub |-> call[p].key, whole |-> TRUE] /\ file' \in Blobs
      BY <1>7, <2>0 DEF WriteFile, Blobs
    <2>3. TypeOK' /\ StoreOK' /\ NamesOK'
      BY <1>0, <1>7, <2>0, <2>1, <2>2, <2>a DEF WriteFile, Give, TypeOK, StoreOK, NamesOK
    <2>4. Writers'
      BY <1>0, <2>1 DEF Writers
    <2>5. \A q \in Proc : CallOK(q)'
      BY <1>0, <1>7, <2>0, <2>1, <2>a DEF WriteFile, CallOK, Writers
    <2>6. \A q \in Proc : SignerOK(q)'
      BY <1>0, <1>7, <2>0, <2>2 DEF WriteFile, SignerOK
    <2> QED BY <2>3, <2>4, <2>5, <2>6 DEF EnclaveInv
  <1>8. ASSUME NEW p \in Proc, ReadFile(p) PROVE EnclaveInv'
    <2>0. /\ Goto(p, "idle", 0) /\ "idle" \in Steps
          /\ call[p].key \in store /\ call[p].key \in Nat /\ kind = "sepEd"
      BY <1>0, <1>8 DEF ReadFile, Give, At, CallOK, Steps, TypeOK, Calls
    <2>1. call'[p] = [at |-> "idle", key |-> 0] /\ CallOK(p)'
      BY <1>0, <2>0, GotoType DEF CallOK
    <2>2. CASE file \notin Blobs
      <3>1. SignerOK(p)'
        BY <1>0, <1>8, <2>2 DEF ReadFile, SignerOK
      <3>2. UNCHANGED <<signer, handed>> /\ handed \subseteq store
        BY <1>0, <1>8, <2>2 DEF ReadFile, NamesOK
      <3> QED
        BY <1>0, <1>8, <2>0, <2>1, <3>1, <3>2, OnlyCallMoves DEF ReadFile, TypeOK
    <2>3. CASE file \in Blobs
      <3>1. file.pub \in store /\ file.pub \in Nat /\ file.whole \in BOOLEAN
        BY <1>0, <2>3 DEF NamesOK, Blobs
      <3>2. /\ signer' \in [Proc -> Signers \cup {NoSigner}]
            /\ signer'[p] = [key |-> call[p].key, pub |-> file.pub, whole |-> file.whole]
            /\ \A q \in Proc : q # p => signer'[q] = signer[q]
        BY <1>0, <1>8, <2>0, <2>3, <3>1 DEF ReadFile, Give, TypeOK, Signers
      <3>a. SignerOK(p)'
        BY <1>8, <2>0, <3>1, <3>2 DEF ReadFile, SignerOK
      <3>3. SignerOK(p)' /\ handed' \in SUBSET store
        BY <1>0, <1>8, <2>3, <3>1, <3>a DEF ReadFile, Give, NamesOK
      <3> QED
        BY <1>0, <1>8, <2>0, <2>1, <3>2, <3>3, OnlyCallMoves DEF ReadFile, TypeOK
    <2> QED BY <2>2, <2>3
  <1>9. ASSUME NEW p \in Proc, Finish(p) PROVE EnclaveInv'
    <2>0. /\ Goto(p, "idle", 0) /\ "idle" \in Steps
          /\ call[p].key \in store /\ call[p].key \in Nat /\ kind # "sepEd"
      BY <1>0, <1>9 DEF Finish, Give, At, CallOK, Steps, TypeOK, Calls
    <2>a. call'[p] = [at |-> "idle", key |-> 0]
      BY <1>0, <2>0, GotoType
    <2>1. CallOK(p)'
      BY <2>a DEF CallOK
    <2>2. /\ signer' \in [Proc -> Signers \cup {NoSigner}]
          /\ signer'[p] = [key |-> call[p].key, pub |-> call[p].key, whole |-> TRUE]
          /\ \A q \in Proc : q # p => signer'[q] = signer[q]
      BY <1>0, <1>9, <2>0 DEF Finish, Give, TypeOK, Signers
    <2>3. SignerOK(p)' /\ handed' \in SUBSET store
      BY <1>0, <1>9, <2>0, <2>2 DEF Finish, Give, SignerOK, NamesOK
    <2> QED
      BY <1>0, <1>9, <2>0, <2>1, <2>2, <2>3, OnlyCallMoves DEF Finish, TypeOK
  <1>10. ASSUME NEW p \in Proc, Fail(p) \/ Die(p) PROVE EnclaveInv'
    <2>0. /\ Goto(p, "idle", 0) /\ "idle" \in Steps
          /\ faults' \in 0 .. MaxFaults
      BY <1>0, <1>10 DEF Fail, Die, Fault, Steps, TypeOK
    <2>a. call'[p] = [at |-> "idle", key |-> 0]
      BY <1>0, <2>0, GotoType
    <2>1. CallOK(p)'
      BY <2>a DEF CallOK
    <2>2. /\ signer' \in [Proc -> Signers \cup {NoSigner}]
          /\ SignerOK(p)'
          /\ \A q \in Proc : q # p => signer'[q] = signer[q]
      BY <1>0, <1>10 DEF Fail, Die, TypeOK, SignerOK
    <2>3. UNCHANGED <<kind, store, file, made, handed>>
      BY <1>10 DEF Fail, Die
    <2>4. made' \in Nat /\ made' >= made
      BY <1>0, <2>3 DEF TypeOK
    <2>5. handed' \in SUBSET store
      BY <1>0, <2>3 DEF NamesOK
    <2> QED
      BY <2>0, <2>1, <2>2, <2>3, <2>4, <2>5, OnlyCallMoves
  <1>11. ASSUME NEW p \in Proc, DropSigner(p) PROVE EnclaveInv'
    BY <1>0, <1>11 DEF DropSigner, EnclaveInv, TypeOK, StoreOK, NamesOK, Writers,
       CallOK, SignerOK
  <1>12. ASSUME NEW p \in Proc, WriteCutOff(p) PROVE EnclaveInv'
    <2>0. /\ call[p].key \in Nat /\ "idle" \in Steps /\ Goto(p, "idle", 0)
          /\ call[p].at = "write" /\ call[p].key \in store /\ kind = "sepEd"
          /\ faults' \in 0 .. MaxFaults
      BY <1>0, <1>12 DEF WriteCutOff, Fault, At, TypeOK, Calls, Steps, CallOK
    <2>1. /\ call' \in [Proc -> Calls]
          /\ call'[p] = [at |-> "idle", key |-> 0]
          /\ \A q \in Proc : q # p => call'[q] = call[q]
      BY <1>0, <2>0, GotoType
    <2>2. file' = [pub |-> call[p].key, whole |-> FALSE] /\ file' \in Blobs
      BY <1>12, <2>0 DEF WriteCutOff, Blobs
    <2>3. TypeOK' /\ StoreOK' /\ NamesOK'
      BY <1>0, <1>12, <2>0, <2>1, <2>2 DEF WriteCutOff, TypeOK, StoreOK, NamesOK
    <2>4. Writers'
      BY <1>0, <2>1 DEF Writers
    <2>5. \A q \in Proc : CallOK(q)'
      BY <1>0, <1>12, <2>0, <2>1, <2>2 DEF WriteCutOff, CallOK, Writers
    <2>6. \A q \in Proc : SignerOK(q)'
      BY <1>0, <1>12 DEF WriteCutOff, SignerOK
    <2> QED BY <2>3, <2>4, <2>5, <2>6 DEF EnclaveInv
  <1>13. CASE UNCHANGED vars
    BY <1>0, <1>13 DEF vars, EnclaveInv, TypeOK, StoreOK, NamesOK, Writers,
       CallOK, SignerOK
  <1> QED
    BY <1>1, <1>2, <1>3, <1>4, <1>5, <1>6, <1>7, <1>8, <1>9, <1>10, <1>11, <1>12, <1>13
       DEF Next, load_or_create

\* The invariant always holds.
LEMMA EnclaveAlways == Spec => []EnclaveInv
  BY EnclaveInit, EnclaveStep, PTL DEF Spec

-----------------------------------------------------------------------------
\* Type correctness of the device-key model, for any number of processes.
THEOREM EnclaveTypeCorrect == Spec => []TypeOK
  BY EnclaveAlways, PTL DEF EnclaveInv

\* One machine, one identity: load_or_create of every platform gives all its
\* callers the same public key unless the keychain holds two keys.
THEOREM StableIdentityAlways == Spec => []StableIdentity
  <1>1. EnclaveInv => StableIdentity
    BY DEF EnclaveInv, StoreOK, NamesOK, StableIdentity, Doubled
  <1> QED BY <1>1, EnclaveAlways, PTL

\* No signer ever signs with a key other than the one it reports, and it can
\* sign unless the keychain holds two keys or the seed it was given was cut off.
THEOREM SignsAsItselfAlways == Spec => []SignsAsItself
  <1>1. EnclaveInv => SignsAsItself
    <2> SUFFICES ASSUME EnclaveInv, NEW p \in Proc, signer[p] # NoSigner
                 PROVE  \/ sign_classical(signer[p]) = signer[p].pub
                        \/ /\ sign_classical(signer[p]) = Error
                           /\ Doubled \/ ~signer[p].whole
      BY DEF SignsAsItself
    <2>1. /\ signer[p].key \in store /\ signer[p].pub \in store
          /\ kind # "sepEd" => signer[p].key = signer[p].pub
      BY DEF EnclaveInv, SignerOK
    <2>2. CASE kind = "tpm"
      <3>1. \A a, b \in store : a = b
        BY <2>2 DEF EnclaveInv, StoreOK, Apple
      <3>2. sign_classical(signer[p]) = CHOOSE k \in store : TRUE
        BY <2>1, <2>2 DEF sign_classical, SignTpm, SignWrapped
      <3>3. (CHOOSE k \in store : TRUE) \in store
        BY <2>1
      <3> QED BY <3>1, <3>2, <3>3, <2>1
    <2>3. CASE kind = "sepEd"
      BY <2>1, <2>3 DEF sign_classical, SignTpm, SignWrapped, Doubled, Apple
    <2>4. CASE kind \notin {"tpm", "sepEd"}
      BY <2>1, <2>4 DEF sign_classical, SignTpm, SignWrapped
    <2> QED BY <2>2, <2>3, <2>4
  <1> QED BY <1>1, EnclaveAlways, PTL

\* While the keychain holds one key, the wrapped seed in the file is neither
\* truncated nor replaced.
THEOREM SeedStaysAlways == Spec => SeedStays
  <1>1. EnclaveInv /\ [Next]_vars => [file' # file /\ file \in Blobs => Doubled]_vars
    <2> SUFFICES ASSUME EnclaveInv, [Next]_vars, file' # file, file \in Blobs
                 PROVE  Doubled
      OBVIOUS
    <2>1. PICK p \in Proc : OpenFile(p) \/ WriteFile(p) \/ WriteCutOff(p)
      BY DEF Next, vars, load_or_create, Lookup, GenerateSep, CreateKey, Persist,
         ReadFile, Finish, LookupError, Fail, Die, DropSigner
    <2>2. /\ kind = "sepEd" /\ call[p].key \in store /\ file.pub # call[p].key
      BY <2>1 DEF EnclaveInv, CallOK, OpenFile, WriteFile, WriteCutOff, At
    <2>3. file.pub \in store
      BY DEF EnclaveInv, NamesOK
    <2> QED BY <2>2, <2>3 DEF Doubled, Apple
  <1> QED BY <1>1, EnclaveAlways, PTL DEF Spec, SeedStays

-----------------------------------------------------------------------------
(* EnclaveKeys: public keys as bytes. *)

\* Padding puts back the zeros the TPM left out, however many they are.
LEMMA LeftPadRestores ==
    ASSUME NEW c \in Coord, NEW u \in Stripped(c)
    PROVE  left_pad32(u) = c
  <1>1. PICK n \in 0 .. COORD_LEN : /\ u = SubSeq(c, n + 1, COORD_LEN)
                                   /\ \A i \in 1 .. n : c[i] = 0
    BY DEF Stripped
  <1>2. COORD_LEN \in Nat \ {0} /\ c \in [1 .. COORD_LEN -> Nat]
    BY EnclaveAssumption DEF Coord
  <1>3. /\ Len(u) = COORD_LEN - n
        /\ \A i \in 1 .. COORD_LEN - n : u[i] = c[n + i]
    <2>1. c \in Seq(Nat) /\ Len(c) = COORD_LEN
      BY <1>2
    <2> QED BY <1>1, <1>2, <2>1
  <1>4. left_pad32(u) = [i \in 1 .. COORD_LEN |-> IF i <= n THEN 0 ELSE u[i - n]]
    BY <1>2, <1>3 DEF left_pad32
  <1>5. \A i \in 1 .. COORD_LEN : (IF i <= n THEN 0 ELSE u[i - n]) = c[i]
    BY <1>1, <1>2, <1>3
  <1> QED BY <1>2, <1>4, <1>5

\* A sequence is found again behind the one it was appended to.
LEMMA ConcatParts ==
    ASSUME NEW s \in Seq(Nat), NEW t \in Seq(Nat)
    PROVE  /\ s \o t \in Seq(Nat) /\ Len(s \o t) = Len(s) + Len(t)
           /\ \A i \in 1 .. Len(s) : (s \o t)[i] = s[i]
           /\ \A i \in 1 .. Len(t) : (s \o t)[Len(s) + i] = t[i]
  <1>1. /\ s \o t \in Seq(Nat) /\ Len(s \o t) = Len(s) + Len(t)
        /\ Len(s) \in Nat /\ Len(t) \in Nat
    OBVIOUS
  <1>2. \A i \in 1 .. Len(s) + Len(t) :
           (s \o t)[i] = IF i <= Len(s) THEN s[i] ELSE t[i - Len(s)]
    OBVIOUS
  <1> QED BY <1>1, <1>2

\* The blob of CNG is cut where its coordinates end.
LEMMA BlobCut ==
    ASSUME NEW x \in Coord, NEW y \in Coord
    PROVE  LET blob == [i \in 1 .. 8 |-> 0] \o x \o y IN
           /\ SubSeq(blob, 9, 8 + COORD_LEN) = x
           /\ SubSeq(blob, 9 + COORD_LEN, 8 + 2 * COORD_LEN) = y
  <1> DEFINE h == [i \in 1 .. 8 |-> 0]
             blob == h \o x \o y
  <1>1. COORD_LEN \in Nat \ {0} /\ x \in [1 .. COORD_LEN -> Nat]
        /\ y \in [1 .. COORD_LEN -> Nat]
    BY EnclaveAssumption DEF Coord
  <1>2. /\ h \in Seq(Nat) /\ Len(h) = 8
        /\ x \in Seq(Nat) /\ Len(x) = COORD_LEN
        /\ y \in Seq(Nat) /\ Len(y) = COORD_LEN
    BY <1>1
  <1> HIDE DEF h
  <1>3. /\ blob \in Seq(Nat) /\ Len(blob) = 8 + 2 * COORD_LEN
        /\ \A i \in 1 .. COORD_LEN : blob[8 + i] = x[i]
        /\ \A i \in 1 .. COORD_LEN : blob[8 + COORD_LEN + i] = y[i]
    <2>1. PICK g \in Seq(Nat) :
             /\ g = h \o x /\ Len(g) = Len(h) + Len(x)
             /\ \A i \in 1 .. Len(x) : g[Len(h) + i] = x[i]
      <3>1. h \in Seq(Nat) /\ x \in Seq(Nat)
        BY <1>2
      <3> QED BY <3>1, ConcatParts
    <2>2. Len(g) = 8 + COORD_LEN /\ \A i \in 1 .. COORD_LEN : g[8 + i] = x[i]
      BY <1>1, <1>2, <2>1
    <2>3. PICK e \in Seq(Nat) :
             /\ e = g \o y /\ Len(e) = Len(g) + Len(y)
             /\ \A i \in 1 .. Len(g) : e[i] = g[i]
             /\ \A i \in 1 .. Len(y) : e[Len(g) + i] = y[i]
      <3>1. y \in Seq(Nat)
        BY <1>2
      <3> QED BY <3>1, ConcatParts
    <2>4. Len(e) = 8 + 2 * COORD_LEN
          /\ \A i \in 1 .. COORD_LEN : e[8 + COORD_LEN + i] = y[i]
      <3>1. Len(g) = 8 + COORD_LEN /\ Len(y) = COORD_LEN
        BY <1>2, <2>2
      <3>2. \A i \in 1 .. COORD_LEN : e[8 + COORD_LEN + i] = y[i]
        BY <2>3, <3>1, Zenon
      <3>3. Len(e) = 8 + COORD_LEN + COORD_LEN
        BY <2>3, <3>1, Zenon
      <3> QED BY <1>1, <3>2, <3>3
    <2>5. \A i \in 1 .. COORD_LEN : e[8 + i] = x[i]
      <3> SUFFICES ASSUME NEW i \in 1 .. COORD_LEN PROVE e[8 + i] = x[i]
        OBVIOUS
      <3>1. 8 + i \in 1 .. Len(g) /\ g[8 + i] = x[i]
        BY <1>1, <2>2
      <3> QED BY <2>3, <3>1
    <2> QED BY <2>1, <2>3, <2>4, <2>5
  <1> HIDE DEF blob
  <1>4. SubSeq(blob, 9, 8 + COORD_LEN) = x
    <2>1. SubSeq(blob, 9, 8 + COORD_LEN)
             = [i \in 1 .. COORD_LEN |-> blob[9 + i - 1]]
      BY <1>1, <1>3
    <2>2. \A i \in 1 .. COORD_LEN : blob[9 + i - 1] = x[i]
      BY <1>1, <1>3
    <2> QED BY <1>1, <2>1, <2>2
  <1>5. SubSeq(blob, 9 + COORD_LEN, 8 + 2 * COORD_LEN) = y
    <2>1. SubSeq(blob, 9 + COORD_LEN, 8 + 2 * COORD_LEN)
             = [i \in 1 .. COORD_LEN |-> blob[9 + COORD_LEN + i - 1]]
      BY <1>1, <1>3
    <2>2. \A i \in 1 .. COORD_LEN : blob[9 + COORD_LEN + i - 1] = y[i]
      BY <1>1, <1>3
    <2> QED BY <1>1, <2>1, <2>2
  <1> QED BY <1>4, <1>5 DEF blob, h

\* One key, one SEC1 point: for every length of a coordinate, every pair of
\* coordinates and every number of zeros the TPM leaves out (left_pad32,
\* pubkey_from_public, export_pub).
THEOREM OneEncodingAlways == Spec => []OneEncoding
  <1>1. OneEncoding
    <2> SUFFICES ASSUME NEW x \in Coord, NEW y \in Coord
                 PROVE  /\ \A u \in Stripped(x), v \in Stripped(y) :
                              sec1_from_tpm(u, v) = <<4>> \o x \o y
                        /\ sec1_from_blob([i \in 1 .. 8 |-> 0] \o x \o y)
                              = <<4>> \o x \o y
      BY DEF OneEncoding
    <2> QED BY LeftPadRestores, BlobCut DEF sec1_from_tpm, sec1_from_blob
  <1> QED BY <1>1, PTL

-----------------------------------------------------------------------------
(* Cbor: induction on numbers, which the codec's recursion needs. *)

\* Every set of natural numbers has a least element.
LEMMA LeastNumber ==
    ASSUME NEW T \in SUBSET Nat, T # {}
    PROVE  \E m \in T : \A k \in T : m <= k
  <1> DEFINE R == OpToRel(<, Nat)
  <1>1. IsWellFoundedOn(R, Nat)
    BY NatLessThanWellFounded
  <1>2. PICK m \in T : \A k \in T : ~(<<k, m>> \in R)
    <2> HIDE DEF R
    <2> QED BY <1>1, WFMin
  <1>3. \A k \in T : k < m => <<k, m>> \in R
    BY DEF OpToRel
  <1>4. \A k \in T : ~(k < m)
    <2> HIDE DEF R
    <2> QED BY <1>2, <1>3, Zenon
  <1> QED BY <1>4

\* Induction on the numbers of a set.
LEMMA NumberInduction ==
    ASSUME NEW S, 0 \in S, \A n \in Nat : n \in S => n + 1 \in S
    PROVE  Nat \subseteq S
  <1> DEFINE T == Nat \ S
  <1> SUFFICES ASSUME T # {} PROVE FALSE
    OBVIOUS
  <1>1. PICK m \in T : \A k \in T : m <= k
    <2>1. T \in SUBSET Nat
      OBVIOUS
    <2> QED BY <2>1, LeastNumber
  <1>2. m # 0 /\ m - 1 \in Nat /\ m - 1 < m /\ (m - 1) + 1 = m
    BY <1>1
  <1>3. m - 1 \in S
    BY <1>1, <1>2
  <1> QED BY <1>1, <1>2, <1>3

-----------------------------------------------------------------------------
(* Cbor: integers. *)

\* The first byte that is not zero.
First(b) ==
    LET S == {i \in 1 .. Len(b) : b[i] # 0}
    IN  CHOOSE i \in S : \A j \in S : i <= j

\* Strip cuts at the first byte that is not zero.
LEMMA FirstNonzero ==
    ASSUME NEW b \in Seq(Byte), \E i \in 1 .. Len(b) : b[i] # 0
    PROVE  /\ First(b) \in 1 .. Len(b) /\ b[First(b)] # 0
           /\ \A i \in 1 .. First(b) - 1 : b[i] = 0
           /\ Strip(b) = SubSeq(b, First(b), Len(b))
  <1> DEFINE S == {i \in 1 .. Len(b) : b[i] # 0}
  <1>1. S \in SUBSET Nat /\ S # {}
    OBVIOUS
  <1>2. \E i \in S : \A j \in S : i <= j
    BY <1>1, LeastNumber
  <1>3. First(b) \in S /\ \A j \in S : First(b) <= j
    BY <1>2 DEF First
  <1>4. \A i \in 1 .. First(b) - 1 : b[i] = 0
    BY <1>3
  <1>5. Strip(b) = SubSeq(b, First(b), Len(b))
    BY <1>1 DEF First, Strip
  <1> QED BY <1>3, <1>4, <1>5

\* Bytes without their leading zeros are the shortest of the same number, and
\* the zeros can be put back.
LEMMA StripPad ==
    ASSUME NEW b \in Seq(Byte), Len(b) >= 1
    PROVE  /\ Strip(b) \in Seq(Byte) /\ Len(Strip(b)) > 0 /\ Len(Strip(b)) <= Len(b)
           /\ Strip(b)[1] = 0 => Len(Strip(b)) = 1
           /\ Pad(Strip(b), Len(b)) = b
  <1>0. Len(b) \in Nat /\ \A i \in 1 .. Len(b) : b[i] \in Byte
    OBVIOUS
  <1>1. CASE \A i \in 1 .. Len(b) : b[i] = 0
    <2>1. Strip(b) = <<0>>
      BY <1>1 DEF Strip
    <2>3. Pad(<<0>>, Len(b)) = [i \in 1 .. Len(b) |-> 0]
      BY <1>0 DEF Pad
    <2>4. Pad(<<0>>, Len(b)) = b
      BY <1>0, <1>1, <2>3
    <2>5. <<0>> \in Seq(Byte) /\ Len(<<0>>) = 1
      BY DEF Byte
    <2> QED BY <2>1, <2>4, <2>5
  <1>2. CASE \E i \in 1 .. Len(b) : b[i] # 0
    <2> DEFINE f == First(b)
    <2>1. /\ f \in 1 .. Len(b) /\ b[f] # 0 /\ \A i \in 1 .. f - 1 : b[i] = 0
          /\ Strip(b) = SubSeq(b, f, Len(b))
      BY <1>2, FirstNonzero
    <2> HIDE DEF f
    <2>3. /\ Strip(b) \in Seq(Byte) /\ Len(Strip(b)) = Len(b) - f + 1
          /\ \A i \in 1 .. Len(b) - f + 1 : Strip(b)[i] = b[f + i - 1]
      BY <1>0, <2>1
    <2>4. Strip(b)[1] # 0
      BY <2>1, <2>3
    <2>5. Pad(Strip(b), Len(b)) = [i \in 1 .. Len(b) |-> IF i <= f - 1 THEN 0 ELSE Strip(b)[i - (f - 1)]]
      BY <1>0, <2>1, <2>3 DEF Pad
    <2>6. \A i \in 1 .. Len(b) : (IF i <= f - 1 THEN 0 ELSE Strip(b)[i - (f - 1)]) = b[i]
      BY <1>0, <2>1, <2>3
    <2>7. Pad(Strip(b), Len(b)) = b
      BY <1>0, <2>5, <2>6
    <2> QED BY <1>0, <2>1, <2>3, <2>4, <2>7
  <1> QED BY <1>1, <1>2

\* A number with zeros before it is the number.
LEMMA PadStrip ==
    ASSUME NEW n \in U64s, NEW w \in Nat, Len(n) <= w
    PROVE  /\ Pad(n, w) \in Seq(Byte) /\ Len(Pad(n, w)) = w
           /\ Strip(Pad(n, w)) = n
  <1> DEFINE b == Pad(n, w)
             z == w - Len(n)
             f == First(b)
  <1>0. /\ n \in Seq(Byte) /\ Len(n) > 0 /\ Len(n) <= 8 /\ (n[1] = 0 => Len(n) = 1)
        /\ \A i \in 1 .. Len(n) : n[i] \in Byte
    BY DEF U64s
  <1>1. /\ z \in Nat /\ w = z + Len(n)
        /\ b = [i \in 1 .. w |-> IF i <= z THEN 0 ELSE n[i - z]]
    BY <1>0 DEF Pad
  <1> HIDE DEF b, z
  <1>2. \A i \in 1 .. w : (IF i <= z THEN 0 ELSE n[i - z]) \in Byte
    BY <1>0, <1>1 DEF Byte
  <1>3. b \in Seq(Byte) /\ Len(b) = w
    BY <1>1, <1>2
  <1>4. \A i \in 1 .. w : b[i] = IF i <= z THEN 0 ELSE n[i - z]
    BY <1>1
  <1>5. CASE n[1] # 0
    <2>1. z + 1 \in 1 .. w /\ b[z + 1] # 0
      BY <1>0, <1>1, <1>4, <1>5
    <2>2. /\ f \in 1 .. w /\ b[f] # 0 /\ \A i \in 1 .. f - 1 : b[i] = 0
          /\ Strip(b) = SubSeq(b, f, w)
      BY <1>3, <2>1, FirstNonzero
    <2> HIDE DEF f
    <2>3. f = z + 1
      <3>1. ~(f <= z)
        BY <1>1, <1>4, <2>2
      <3>2. ~(z + 1 < f)
        BY <1>1, <2>1, <2>2
      <3> QED BY <1>1, <2>2, <3>1, <3>2
    <2>5. /\ SubSeq(b, z + 1, w) \in Seq(Byte) /\ Len(SubSeq(b, z + 1, w)) = Len(n)
          /\ \A i \in 1 .. Len(n) : SubSeq(b, z + 1, w)[i] = n[i]
      BY <1>0, <1>1, <1>3, <1>4
    <2>6. SubSeq(b, z + 1, w) = n
      BY <1>0, <2>5, SeqEqual
    <2> QED BY <1>3, <2>2, <2>3, <2>6 DEF b
  <1>6. CASE n[1] = 0
    <2>0. Len(n) = 1
      BY <1>0, <1>6
    <2>1. n = <<0>>
      BY <1>0, <1>6, <2>0
    <2>2. \A i \in 1 .. w : b[i] = 0
      <3>1. \A i \in 1 .. w : i <= z \/ (i - z = 1 /\ ~(i <= z))
        BY <1>1, <2>0
      <3> QED BY <1>4, <1>6, <3>1
    <2>4. Strip(b) = <<0>>
      BY <1>3, <2>2 DEF Strip
    <2> QED BY <1>3, <2>1, <2>4 DEF b
  <1> QED BY <1>5, <1>6

\* Division with remainder.
LEMMA DivMod ==
    ASSUME NEW n \in Nat, NEW m \in Nat \ {0}
    PROVE  /\ n % m \in 0 .. m - 1
           /\ n \div m \in Nat
           /\ n = m * (n \div m) + (n % m)
  OBVIOUS

\* Sequences of one and of two elements.
LEMMA OneLong ==
    ASSUME NEW X, NEW s \in Seq(X), Len(s) > 0, Len(s) <= 1
    PROVE  s = <<s[1]>> /\ s[1] \in X
  <1> DEFINE l == Len(s)
             t == <<s[1]>>
             m == Len(t)
  <1>1. s[1] \in X /\ l \in Nat /\ l > 0 /\ l <= 1
    OBVIOUS
  <1>2. t \in Seq(X) /\ t[1] = s[1]
    BY <1>1
  <1>3. m = 1
    OBVIOUS
  <1> HIDE DEF l, m
  <1>4. l = m /\ \A i \in 1 .. l : i = 1
    BY <1>1, <1>3
  <1>5. \A i \in 1 .. l : s[i] = t[i]
    BY <1>2, <1>4
  <1> HIDE DEF t
  <1>6. s = t
    BY <1>2, <1>4, <1>5, SeqEqual DEF l, m
  <1> QED BY <1>1, <1>6 DEF t

\* A sequence of two.
LEMMA TwoLong ==
    ASSUME NEW X, NEW s \in Seq(X), Len(s) > 1, Len(s) <= 2
    PROVE  s = <<s[1], s[2]>> /\ s[1] \in X /\ s[2] \in X
  <1> DEFINE l == Len(s)
             t == <<s[1], s[2]>>
             m == Len(t)
  <1>1. s[1] \in X /\ s[2] \in X /\ l \in Nat /\ l > 1 /\ l <= 2
    OBVIOUS
  <1>2. t \in Seq(X) /\ t[1] = s[1] /\ t[2] = s[2]
    BY <1>1
  <1>3. m = 2
    OBVIOUS
  <1> HIDE DEF l, m
  <1>4. l = m /\ \A i \in 1 .. l : i = 1 \/ i = 2
    BY <1>1, <1>3
  <1>5. \A i \in 1 .. l : s[i] = t[i]
    BY <1>2, <1>4
  <1> HIDE DEF t
  <1>6. s = t
    BY <1>2, <1>4, <1>5, SeqEqual DEF l, m
  <1> QED BY <1>1, <1>6 DEF t

\* A number is one to eight bytes.
LEMMA NumberBytes ==
    ASSUME NEW n \in U64s
    PROVE  /\ n \in Seq(Byte) /\ Len(n) > 0 /\ Len(n) <= 8 /\ (n[1] = 0 => Len(n) = 1)
           /\ n[1] \in 0 .. 255 /\ (Len(n) > 1 => n[1] # 0)
  <1> DEFINE l == Len(n)
  <1>1. n \in Seq(Byte) /\ l > 0 /\ l <= 8 /\ (n[1] = 0 => l = 1)
    BY DEF U64s
  <1>4. l > 1 => n[1] # 0
    <2> HIDE DEF l
    <2> QED BY <1>1
  <1>2. n[1] \in Byte
    BY <1>1
  <1>3. n[1] \in 0 .. 255
    BY <1>2 DEF Byte
  <1> QED BY <1>1, <1>3, <1>4

\* What is below a square is a number below it.
LEMMA BelowSquare ==
    ASSUME NEW h, NEW b \in Nat, h = b * b, NEW k \in 0 .. h - 1
    PROVE  k \in Nat /\ k < b * b
  OBVIOUS

\* Lengths as bytes and back.
LEMMA SizeBytes ==
    ASSUME NEW k \in 0 .. Huge - 1
    PROVE  U64(k) \in U64s /\ Usize(U64(k)) = k
  <1>0. k \in Nat /\ k < 256 * 256
    <2>1. 256 \in Nat
      OBVIOUS
    <2> QED BY <2>1, BelowSquare, Zenon DEF Huge
  <1>1. CASE k < 256
    <2>1. U64(k) = <<k>>
      BY <1>1 DEF U64
    <2> QED BY <1>0, <1>1, <2>1 DEF Usize, U64s, Byte
  <1>2. CASE k >= 256
    <2> DEFINE q == k \div 256
               r == k % 256
    <2>1. r \in 0 .. 255 /\ q \in Nat /\ k = 256 * q + r
      BY <1>0, DivMod
    <2>2. U64(k) = <<q, r>>
      BY <1>0, <1>2 DEF U64
    <2> HIDE DEF q, r
    <2>3. q \in 1 .. 255
      BY <1>0, <1>2, <2>1
    <2>4. <<q, r>> \in Seq(Byte) /\ Len(<<q, r>>) > 1 /\ Len(<<q, r>>) <= 2 /\ <<q, r>>[1] # 0
      BY <2>1, <2>3 DEF Byte
    <2>5. U64(k) \in U64s
      BY <2>2, <2>4 DEF U64s
    <2>6. Usize(<<q, r>>) = 256 * q + r
      BY DEF Usize
    <2> QED BY <2>1, <2>2, <2>5, <2>6
  <1> QED BY <1>0, <1>1, <1>2

\* Only the bytes of a length are taken for that length.
LEMMA BytesSize ==
    ASSUME NEW n \in U64s
    PROVE  /\ Usize(n) \in Nat
           /\ Usize(n) < Huge => U64(Usize(n)) = n
  <1>0. n \in Seq(Byte) /\ Len(n) > 0 /\ n[1] \in 0 .. 255
    BY NumberBytes
  <1>1. CASE Len(n) <= 1
    <2>1. n = <<n[1]>>
      BY <1>0, <1>1, OneLong
    <2>2. Usize(n) = n[1]
      BY <1>0, <1>1 DEF Usize
    <2> DEFINE x == n[1]
    <2>3. x \in 0 .. 255
      BY <1>0
    <2> HIDE DEF x
    <2>4. x < 256 /\ x \in Nat
      BY <2>3
    <2>5. U64(x) = <<x>>
      BY <2>4 DEF U64
    <2> QED BY <2>1, <2>2, <2>4, <2>5 DEF x
  <1>2. CASE Len(n) > 1 /\ Len(n) <= 2
    <2> DEFINE q == n[1]
               r == n[2]
    <2>0. n = <<q, r>> /\ r \in Byte
      BY <1>0, <1>2, TwoLong
    <2>1. q \in 1 .. 255 /\ r \in 0 .. 255
      <3>1. q # 0
        BY <1>0, <1>2, NumberBytes
      <3>2. r \in 0 .. 255
        BY <2>0 DEF Byte
      <3>3. q \in 0 .. 255
        BY <1>0
      <3> HIDE DEF q, r
      <3> QED BY <3>1, <3>2, <3>3
    <2>2. Usize(n) = 256 * q + r
      BY <1>0, <1>2 DEF Usize
    <2> HIDE DEF q, r
    <2>3. (256 * q + r) \div 256 = q /\ (256 * q + r) % 256 = r
      BY <2>1
    <2>4. 256 * q + r \in Nat /\ ~(256 * q + r < 256)
      BY <2>1
    <2>5. U64(256 * q + r) = <<q, r>>
      BY <2>3, <2>4 DEF U64
    <2> QED BY <2>0, <2>1, <2>2, <2>4, <2>5 DEF q, r
  <1>3. CASE Len(n) > 2
    <2>1. Usize(n) = Huge
      BY <1>0, <1>3 DEF Usize
    <2> QED BY <2>1 DEF Huge
  <1>4. Len(n) <= 1 \/ (Len(n) > 1 /\ Len(n) <= 2) \/ Len(n) > 2
    BY <1>0
  <1> QED BY <1>1, <1>2, <1>3, <1>4

\* No number stands for more than Huge.
LEMMA UsizeBound ==
    ASSUME NEW n \in U64s
    PROVE  Usize(n) <= Huge
  <1>0. n \in Seq(Byte) /\ Len(n) > 0 /\ n[1] \in 0 .. 255
    BY NumberBytes
  <1>1. CASE Len(n) <= 1
    <2>1. Usize(n) = n[1]
      BY <1>0, <1>1 DEF Usize
    <2> DEFINE x == n[1]
    <2>2. x \in 0 .. 255
      BY <1>0
    <2> HIDE DEF x
    <2>3. x <= 256 * 256
      BY <2>2
    <2> QED BY <2>1, <2>3 DEF Huge, x
  <1>2. CASE Len(n) > 1 /\ Len(n) <= 2
    <2> DEFINE q == n[1]
               r == n[2]
    <2>1. Usize(n) = 256 * q + r
      BY <1>0, <1>2 DEF Usize
    <2>2. r \in Byte
      BY <1>0, <1>2, TwoLong
    <2>3. q \in 0 .. 255 /\ r \in 0 .. 255
      BY <1>0, <2>2 DEF Byte
    <2> HIDE DEF q, r
    <2> QED BY <2>1, <2>3 DEF Huge
  <1>3. CASE Len(n) > 2
    BY <1>0, <1>3 DEF Usize, Huge
  <1>4. Len(n) <= 1 \/ (Len(n) > 1 /\ Len(n) <= 2) \/ Len(n) > 2
    BY <1>0
  <1> QED BY <1>1, <1>2, <1>3, <1>4

-----------------------------------------------------------------------------
(* Cbor: where bytes stand in a string. *)

\* s stands at p.
Stands(data, p, s) ==
    /\ p \in 1 .. Len(data) + 1 /\ p + Len(s) <= Len(data) + 1
    /\ \A i \in 1 .. Len(s) : data[p + i - 1] = s[i]

\* Two strings stand one after the other.
LEMMA StandsConcat ==
    ASSUME NEW data \in Seq(Byte), NEW s \in Seq(Byte), NEW t \in Seq(Byte), NEW p \in Nat
    PROVE  Stands(data, p, s \o t) <=> Stands(data, p, s) /\ Stands(data, p + Len(s), t)
  <1>0. /\ Len(data) \in Nat /\ Len(s) \in Nat /\ Len(t) \in Nat
        /\ Len(s \o t) = Len(s) + Len(t)
        /\ \A i \in 1 .. Len(s) + Len(t) : (s \o t)[i] = IF i <= Len(s) THEN s[i] ELSE t[i - Len(s)]
    OBVIOUS
  <1> DEFINE ls == Len(s)
             lt == Len(t)
             st == s \o t
  <1>1. \A i \in 1 .. ls : i \in 1 .. ls + lt /\ st[i] = s[i]
    BY <1>0
  <1>2. \A i \in 1 .. lt : /\ i + ls \in 1 .. ls + lt /\ st[i + ls] = t[i]
                           /\ p + ls + i - 1 = p + (i + ls) - 1
    BY <1>0
  <1>3. \A i \in 1 .. ls + lt : i \in 1 .. ls \/ (i - ls \in 1 .. lt /\ i = (i - ls) + ls)
    BY <1>0
  <1>4. ls \in Nat /\ lt \in Nat /\ Len(data) \in Nat /\ Len(st) = ls + lt
    BY <1>0
  <1> HIDE DEF ls, lt, st
  <1>5. ASSUME Stands(data, p, st)
        PROVE  Stands(data, p, s) /\ Stands(data, p + ls, t)
    <2>1. /\ p \in 1 .. Len(data) + 1 /\ p + (ls + lt) <= Len(data) + 1
          /\ \A i \in 1 .. ls + lt : data[p + i - 1] = st[i]
      BY <1>4, <1>5 DEF Stands
    <2>2. \A i \in 1 .. ls : data[p + i - 1] = s[i]
      BY <1>1, <2>1
    <2>3. \A i \in 1 .. lt : data[p + ls + i - 1] = t[i]
      BY <1>2, <2>1
    <2>4. p + ls \in 1 .. Len(data) + 1 /\ p + ls <= Len(data) + 1 /\ (p + ls) + lt <= Len(data) + 1
      BY <1>4, <2>1
    <2> QED BY <2>1, <2>2, <2>3, <2>4 DEF Stands, ls, lt
  <1>6. ASSUME Stands(data, p, s), Stands(data, p + ls, t)
        PROVE  Stands(data, p, st)
    <2>1. /\ p \in 1 .. Len(data) + 1 /\ p + ls + lt <= Len(data) + 1
          /\ \A i \in 1 .. ls : data[p + i - 1] = s[i]
          /\ \A i \in 1 .. lt : data[p + ls + i - 1] = t[i]
      BY <1>6 DEF Stands, ls, lt
    <2>2. \A i \in 1 .. ls + lt : data[p + i - 1] = st[i]
      <3> SUFFICES ASSUME NEW i \in 1 .. ls + lt PROVE data[p + i - 1] = st[i]
        OBVIOUS
      <3>1. CASE i \in 1 .. ls
        BY <1>1, <2>1, <3>1
      <3>2. CASE i - ls \in 1 .. lt /\ i = (i - ls) + ls
        <4>1. data[p + ls + (i - ls) - 1] = t[i - ls] /\ st[(i - ls) + ls] = t[i - ls]
          BY <1>2, <2>1, <3>2
        <4>2. p + ls + (i - ls) - 1 = p + i - 1
          BY <1>4
        <4> QED BY <3>2, <4>1, <4>2
      <3> QED BY <1>3, <3>1, <3>2
    <2> QED BY <1>4, <2>1, <2>2 DEF Stands
  <1> QED BY <1>5, <1>6 DEF ls, st

\* What was cut out stands where it was cut.
LEMMA StandsCut ==
    ASSUME NEW data \in Seq(Byte), NEW p \in 1 .. Len(data) + 1, NEW k \in Nat,
           p + k <= Len(data) + 1
    PROVE  LET s == SubSeq(data, p, p + k - 1)
           IN  s \in Seq(Byte) /\ Len(s) = k /\ Stands(data, p, s)
  <1> DEFINE s == SubSeq(data, p, p + k - 1)
  <1>1. /\ s \in Seq(Byte) /\ Len(s) = k
        /\ \A i \in 1 .. k : s[i] = data[p + i - 1]
    OBVIOUS
  <1> QED BY <1>1 DEF Stands

\* What stands somewhere is cut out there.
LEMMA CutStands ==
    ASSUME NEW data \in Seq(Byte), NEW s \in Seq(Byte), NEW p \in Nat, Stands(data, p, s)
    PROVE  SubSeq(data, p, p + Len(s) - 1) = s
  <1>1. /\ p \in 1 .. Len(data) + 1 /\ p + Len(s) <= Len(data) + 1 /\ Len(s) \in Nat
        /\ \A i \in 1 .. Len(s) : data[p + i - 1] = s[i]
    BY DEF Stands
  <1> DEFINE c == SubSeq(data, p, p + Len(s) - 1)
  <1>2. /\ c \in Seq(Byte) /\ Len(c) = Len(s)
        /\ \A i \in 1 .. Len(s) : c[i] = data[p + i - 1]
    BY <1>1
  <1> HIDE DEF c
  <1>3. c = s
    BY <1>1, <1>2, SeqEqual
  <1> QED BY <1>3 DEF c

-----------------------------------------------------------------------------
(* Cbor: heads. *)

\* A number as wide as it is has no zeros before it.
LEMMA PadNone ==
    ASSUME NEW n \in Seq(Byte), NEW w \in Nat, Len(n) <= w, w <= Len(n)
    PROVE  Pad(n, w) = n
  <1>1. Len(n) \in Nat /\ w = Len(n)
    OBVIOUS
  <1>2. Pad(n, w) = [i \in 1 .. Len(n) |-> n[i]]
    BY <1>1 DEF Pad
  <1> QED BY <1>1, <1>2

\* The head of a number that does not fit the first byte: its width, then the
\* number as wide.
LEMMA WideHead ==
    ASSUME NEW n \in U64s, NEW info \in 24 .. 27, NEW major \in 0 .. 7,
           Len(n) <= Width(info), Minimal(info, n)
    PROVE  encode_head(major, n) = <<32 * major + info>> \o Pad(n, Width(info))
  <1>0. n \in Seq(Byte) /\ Len(n) > 0 /\ Len(n) <= 8 /\ n[1] \in 0 .. 255 /\ Len(n) \in Nat
    BY NumberBytes
  <1>1. CASE info = 24
    <2>1. Len(n) <= 1 /\ n[1] >= 24 /\ Width(info) = 1
      BY <1>1 DEF Width, Minimal
    <2>2. encode_head(major, n) = <<32 * major + 24>> \o n
      BY <1>0, <2>1 DEF encode_head
    <2>3. Pad(n, 1) = n
      BY <1>0, <2>1, PadNone
    <2> QED BY <1>1, <2>1, <2>2, <2>3
  <1>2. CASE info = 25
    <2>1. Len(n) > 1 /\ Len(n) <= 2 /\ Width(info) = 2
      BY <1>2 DEF Width, Minimal
    <2>2. encode_head(major, n) = <<32 * major + 25>> \o n
      BY <1>0, <2>1 DEF encode_head
    <2>3. Pad(n, 2) = n
      BY <1>0, <2>1, PadNone
    <2> QED BY <1>2, <2>1, <2>2, <2>3
  <1>3. CASE info = 26
    <2>1. Len(n) > 2 /\ Len(n) <= 4 /\ Width(info) = 4
      BY <1>3 DEF Width, Minimal
    <2>2. encode_head(major, n) = <<32 * major + 26>> \o Pad(n, 4)
      BY <1>0, <2>1 DEF encode_head
    <2> QED BY <1>3, <2>1, <2>2
  <1>4. CASE info = 27
    <2>1. Len(n) > 4 /\ Width(info) = 8
      BY <1>4 DEF Width, Minimal
    <2>2. encode_head(major, n) = <<32 * major + 27>> \o Pad(n, 8)
      BY <1>0, <2>1 DEF encode_head
    <2> QED BY <1>4, <2>1, <2>2
  <1> QED BY <1>1, <1>2, <1>3, <1>4

\* Every number has one head.
LEMMA HeadForms ==
    ASSUME NEW n \in U64s, NEW major \in 0 .. 7
    PROVE  \/ /\ n = <<n[1]>> /\ n[1] \in 0 .. 23
              /\ encode_head(major, n) = <<32 * major + n[1]>>
           \/ \E info \in 24 .. 27 : Len(n) <= Width(info) /\ Minimal(info, n)
  <1>0. n \in Seq(Byte) /\ Len(n) > 0 /\ Len(n) <= 8 /\ n[1] \in 0 .. 255 /\ Len(n) \in Nat
    BY NumberBytes
  <1>1. CASE Len(n) <= 1 /\ n[1] < 24
    <2>1. n = <<n[1]>> /\ n[1] \in 0 .. 23
      <3>1. n = <<n[1]>>
        BY <1>0, <1>1, OneLong
      <3> DEFINE x == n[1]
      <3>2. x \in 0 .. 255 /\ x < 24
        BY <1>0, <1>1
      <3> HIDE DEF x
      <3>3. x \in 0 .. 23
        BY <3>2
      <3> QED BY <3>1, <3>3 DEF x
    <2> DEFINE l == Len(n)
               x == n[1]
    <2>2. encode_head(major, n) = <<32 * major + x>>
      <3>0. x \in 0 .. 255 /\ x < 24
        BY <1>0, <1>1
      <3>1. l \in Nat /\ l <= 1
        BY <1>0, <1>1, Zenon
      <3> HIDE DEF l, x
      <3>2. ~(l > 4) /\ ~(l > 2) /\ ~(l > 1) /\ ~(x >= 24)
        BY <3>0, <3>1
      <3> QED BY <3>2 DEF encode_head, l, x
    <2> QED BY <2>1, <2>2
  <1>2. CASE Len(n) <= 1 /\ n[1] >= 24
    <2>1. Len(n) <= Width(24) /\ Minimal(24, n)
      BY <1>2 DEF Width, Minimal
    <2> QED BY <2>1
  <1>3. CASE Len(n) > 1 /\ Len(n) <= 2
    <2>1. Len(n) <= Width(25) /\ Minimal(25, n)
      BY <1>3 DEF Width, Minimal
    <2> QED BY <2>1
  <1>4. CASE Len(n) > 2 /\ Len(n) <= 4
    <2>1. Len(n) <= Width(26) /\ Minimal(26, n)
      BY <1>4 DEF Width, Minimal
    <2> QED BY <2>1
  <1>5. CASE Len(n) > 4
    <2>1. Len(n) <= Width(27) /\ Minimal(27, n)
      BY <1>0, <1>5 DEF Width, Minimal
    <2> QED BY <2>1
  <1>6. \/ Len(n) <= 1 \/ (Len(n) > 1 /\ Len(n) <= 2) \/ (Len(n) > 2 /\ Len(n) <= 4) \/ Len(n) > 4
    <2> DEFINE l == Len(n)
    <2>1. l \in Nat
      BY <1>0, Zenon
    <2> HIDE DEF l
    <2>2. l <= 1 \/ (l > 1 /\ l <= 2) \/ (l > 2 /\ l <= 4) \/ l > 4
      BY <2>1
    <2> QED BY <2>2 DEF l
  <1>7. n[1] < 24 \/ n[1] >= 24
    <2> DEFINE x == n[1]
    <2>1. x \in 0 .. 255
      BY <1>0
    <2> HIDE DEF x
    <2>2. x < 24 \/ x >= 24
      BY <2>1
    <2> QED BY <2>2 DEF x
  <1> QED BY <1>1, <1>2, <1>3, <1>4, <1>5, <1>6, <1>7

\* The first byte of a head.
LEMMA FirstByte ==
    ASSUME NEW major \in 0 .. 7, NEW info \in 0 .. 31
    PROVE  LET x == 32 * major + info
           IN  /\ x \in Byte /\ <<x>> \in Seq(Byte)
               /\ Len(<<x>>) = 1 /\ <<x>>[1] = x
               /\ x \div 32 = major /\ x % 32 = info
  <1> DEFINE x == 32 * major + info
  <1>1. x \div 32 = major /\ x % 32 = info /\ x \in Nat /\ x <= 255
    OBVIOUS
  <1> HIDE DEF x
  <1>2. x \in Byte
    BY <1>1 DEF Byte
  <1> QED BY <1>1, <1>2 DEF x

\* Heads are bytes.
LEMMA HeadBytes ==
    ASSUME NEW n \in U64s, NEW major \in 0 .. 7
    PROVE  encode_head(major, n) \in Seq(Byte) /\ Len(encode_head(major, n)) > 0
  <1>1. CASE n = <<n[1]>> /\ n[1] \in 0 .. 23 /\ encode_head(major, n) = <<32 * major + n[1]>>
    <2>1. n[1] \in 0 .. 31
      BY <1>1
    <2> QED BY <1>1, <2>1, FirstByte
  <1>2. ASSUME NEW info \in 24 .. 27, Len(n) <= Width(info), Minimal(info, n)
        PROVE  encode_head(major, n) \in Seq(Byte) /\ Len(encode_head(major, n)) > 0
    <2>1. <<32 * major + info>> \in Seq(Byte) /\ Len(<<32 * major + info>>) = 1
      BY FirstByte
    <2>2. Width(info) \in Nat
      BY DEF Width
    <2>3. Pad(n, Width(info)) \in Seq(Byte)
      BY <1>2, <2>2, PadStrip
    <2>4. encode_head(major, n) = <<32 * major + info>> \o Pad(n, Width(info))
      BY <1>2, WideHead
    <2> QED BY <2>1, <2>3, <2>4
  <1> QED BY <1>1, <1>2, HeadForms

\* What read_head accepts is what encode_head writes.
LEMMA HeadRead ==
    ASSUME NEW data \in Seq(Byte), NEW p \in 1 .. Len(data) + 1,
           NEW h, h = read_head(data, p), h # CborError
    PROVE  /\ h.major \in 0 .. 7 /\ h.arg \in U64s /\ h.pos \in p + 1 .. Len(data) + 1
           /\ Stands(data, p, encode_head(h.major, h.arg))
           /\ h.pos = p + Len(encode_head(h.major, h.arg))
  <1> DEFINE major == data[p] \div 32
             info == data[p] % 32
             w == Width(info)
             b == SubSeq(data, p + 1, p + w)
             n == Strip(b)
  <1>1. p \in 1 .. Len(data) /\ Len(data) \in Nat
    BY DEF read_head, Has
  <1>2. data[p] \in 0 .. 255
    <2>1. data[p] \in Byte
      BY <1>1
    <2> QED BY <2>1 DEF Byte
  <1>3. major \in 0 .. 7 /\ info \in 0 .. 31 /\ data[p] = 32 * major + info
    <2> DEFINE x == data[p]
    <2> HIDE DEF x
    <2>1. x \in 0 .. 255
      BY <1>2 DEF x
    <2>2. x \div 32 \in 0 .. 7 /\ x % 32 \in 0 .. 31 /\ x = 32 * (x \div 32) + (x % 32)
      BY <2>1, DivMod
    <2> QED BY <2>2 DEF x
  <1>4. \/ info < 24 /\ h = HeadOf(major, <<info>>, p + 1)
        \/ /\ info >= 24 /\ info <= 27 /\ Has(data, p + 1, w) /\ Minimal(info, n)
           /\ h = HeadOf(major, n, p + 1 + w)
    <2>0. Has(data, p, 1)
      BY DEF read_head
    <2>1. Has(data, p, 1) /\ info \in Nat
      <3>1. info \in 0 .. 31
        BY <1>3
      <3> HIDE DEF info
      <3> QED BY <2>0, <3>1
    <2>2. info < 24 => h = HeadOf(major, <<info>>, p + 1)
      BY <2>1 DEF read_head
    <2>3. info >= 24 => /\ info <= 27 /\ Has(data, p + 1, w) /\ Minimal(info, n)
                        /\ h = HeadOf(major, n, p + 1 + w)
      <3> HAVE info >= 24
      <3>1. ~(info < 24)
        BY <2>1
      <3>2. h = IF info <= 27 /\ Has(data, p + 1, w) /\ Minimal(info, n)
                THEN HeadOf(major, n, p + 1 + w) ELSE CborError
        BY <2>1, <3>1 DEF read_head
      <3> QED BY <3>2
    <2> QED BY <2>1, <2>2, <2>3
  <1> HIDE DEF major, info
  <1>5. CASE info < 24 /\ h = HeadOf(major, <<info>>, p + 1)
    <2>1. <<info>> \in U64s /\ Len(<<info>>) <= 1 /\ <<info>>[1] = info
      <3>1. info \in Byte
        BY <1>3 DEF Byte
      <3>2. <<info>> \in Seq(Byte) /\ Len(<<info>>) = 1 /\ <<info>>[1] = info
        BY <3>1
      <3> QED BY <3>2 DEF U64s
    <2>2. encode_head(major, <<info>>) = <<data[p]>>
      BY <1>3, <1>5, <2>1 DEF encode_head
    <2>3. Stands(data, p, <<data[p]>>)
      BY <1>1 DEF Stands
    <2>4. h.major = major /\ h.arg = <<info>> /\ h.pos = p + 1 /\ Len(<<data[p]>>) = 1
      BY <1>5 DEF HeadOf
    <2>5. p + 1 \in p + 1 .. Len(data) + 1
      BY <1>1
    <2> QED BY <1>3, <2>1, <2>2, <2>3, <2>4, <2>5
  <1>6. CASE /\ info >= 24 /\ info <= 27 /\ Has(data, p + 1, w) /\ Minimal(info, n)
             /\ h = HeadOf(major, n, p + 1 + w)
    <2>0. info \in 24 .. 27 /\ w \in Nat /\ w > 0
      BY <1>3, <1>6 DEF Width
    <2> HIDE DEF w, n
    <2>1. p + 1 + w <= Len(data) + 1
      BY <1>1, <1>6, <2>0 DEF Has
    <2>2. b \in Seq(Byte) /\ Len(b) = w /\ Stands(data, p + 1, b)
      <3>1. p + 1 \in 1 .. Len(data) + 1 /\ (p + 1) + w - 1 = p + w
        BY <1>1, <2>0
      <3>2. LET c == SubSeq(data, p + 1, (p + 1) + w - 1)
            IN  c \in Seq(Byte) /\ Len(c) = w /\ Stands(data, p + 1, c)
        BY <2>0, <2>1, <3>1, StandsCut
      <3> QED BY <3>1, <3>2
    <2> HIDE DEF b
    <2>3. n \in U64s /\ Len(n) <= w /\ Pad(n, w) = b
      <3>1. Len(b) >= 1 /\ Len(b) <= 8
        BY <1>3, <1>6, <2>0, <2>2 DEF w, Width
      <3>2. /\ n \in Seq(Byte) /\ Len(n) > 0 /\ Len(n) <= w /\ (n[1] = 0 => Len(n) = 1)
            /\ Pad(n, w) = b
        BY <2>2, <3>1, StripPad DEF n
      <3>3. Len(n) <= 8
        BY <2>0, <2>2, <3>1, <3>2
      <3> QED BY <3>2, <3>3 DEF U64s
    <2>4. encode_head(major, n) = <<data[p]>> \o b
      BY <1>3, <1>6, <2>0, <2>3, WideHead DEF w
    <2>5. <<data[p]>> \in Seq(Byte) /\ Len(<<data[p]>>) = 1
      BY <1>3, FirstByte
    <2>6. Stands(data, p, <<data[p]>>)
      BY <1>1 DEF Stands
    <2>7. Stands(data, p, <<data[p]>> \o b)
      <3>1. p \in Nat /\ Stands(data, p + Len(<<data[p]>>), b)
        BY <1>1, <2>2, <2>5
      <3> QED BY <2>2, <2>5, <2>6, <3>1, StandsConcat
    <2>8. Len(<<data[p]>> \o b) = 1 + w
      BY <2>2, <2>5
    <2>9. h.major = major /\ h.arg = n /\ h.pos = p + 1 + w
      BY <1>6 DEF HeadOf
    <2>10. p + 1 + w \in p + 1 .. Len(data) + 1 /\ p + 1 + w = p + (1 + w)
      BY <1>1, <2>0, <2>1
    <2> QED BY <1>3, <2>3, <2>4, <2>7, <2>8, <2>9, <2>10
  <1> QED BY <1>4, <1>5, <1>6

\* What encode_head writes is what read_head takes it for.
LEMMA HeadWritten ==
    ASSUME NEW data \in Seq(Byte), NEW p \in Nat, NEW n \in U64s, NEW major \in 0 .. 7,
           Stands(data, p, encode_head(major, n))
    PROVE  read_head(data, p) = HeadOf(major, n, p + Len(encode_head(major, n)))
  <1>0. p \in 1 .. Len(data) + 1 /\ Len(data) \in Nat
    BY DEF Stands
  <1>1. CASE /\ n = <<n[1]>> /\ n[1] \in 0 .. 23
             /\ encode_head(major, n) = <<32 * major + n[1]>>
    <2> DEFINE info == n[1]
               x == 32 * major + info
    <2>0. info \in 0 .. 23 /\ info \in 0 .. 31 /\ n = <<info>> /\ encode_head(major, n) = <<x>>
      BY <1>1
    <2> HIDE DEF info
    <2>1. Len(<<x>>) = 1 /\ <<x>>[1] = x /\ x \div 32 = major /\ x % 32 = info
      BY <2>0, FirstByte
    <2> HIDE DEF x
    <2>2. p <= Len(data) /\ data[p] = x
      <3> DEFINE s == <<x>>
      <3>0. Len(s) = 1 /\ s[1] = x /\ Stands(data, p, s)
        BY <2>0, <2>1
      <3> HIDE DEF s
      <3>1. p + 1 <= Len(data) + 1 /\ data[p + 1 - 1] = x
        BY <3>0 DEF Stands
      <3> QED BY <1>0, <3>1
    <2>3. Has(data, p, 1)
      BY <1>0, <2>2 DEF Has
    <2>4. read_head(data, p) = HeadOf(major, <<info>>, p + 1)
      BY <2>0, <2>1, <2>2, <2>3 DEF read_head
    <2> QED BY <2>0, <2>1, <2>4
  <1>2. ASSUME NEW info \in 24 .. 27, Len(n) <= Width(info), Minimal(info, n)
        PROVE  read_head(data, p) = HeadOf(major, n, p + Len(encode_head(major, n)))
    <2> DEFINE w == Width(info)
               b == Pad(n, w)
               x == 32 * major + info
    <2>0. w \in Nat /\ w > 0
      BY DEF Width
    <2>1. b \in Seq(Byte) /\ Len(b) = w /\ Strip(b) = n
      BY <1>2, <2>0, PadStrip
    <2>2. encode_head(major, n) = <<x>> \o b
      BY <1>2, WideHead
    <2>3. /\ <<x>> \in Seq(Byte) /\ Len(<<x>>) = 1 /\ <<x>>[1] = x
          /\ x \div 32 = major /\ x % 32 = info
      <3>1. info \in 0 .. 31
        OBVIOUS
      <3> QED BY <3>1, FirstByte
    <2> HIDE DEF b, w, x
    <2>4. Stands(data, p, <<x>>) /\ Stands(data, p + 1, b)
      <3>1. Stands(data, p, <<x>> \o b)
        BY <2>2
      <3>2. Stands(data, p, <<x>>) /\ Stands(data, p + Len(<<x>>), b)
        BY <2>1, <2>3, <3>1, StandsConcat
      <3> QED BY <2>3, <3>2
    <2>5. p <= Len(data) /\ data[p] = x
      <3> DEFINE s == <<x>>
      <3>0. Len(s) = 1 /\ s[1] = x /\ Stands(data, p, s)
        BY <2>3, <2>4
      <3> HIDE DEF s
      <3>1. p + 1 <= Len(data) + 1 /\ data[p + 1 - 1] = x
        BY <3>0 DEF Stands
      <3> QED BY <1>0, <3>1
    <2>7. SubSeq(data, p + 1, p + w) = b
      <3>1. (p + 1) + Len(b) - 1 = p + w /\ p + 1 \in Nat
        BY <2>0, <2>1
      <3>2. SubSeq(data, p + 1, (p + 1) + Len(b) - 1) = b
        BY <2>1, <2>4, <3>1, CutStands
      <3> QED BY <3>1, <3>2
    <2>8. Has(data, p, 1) /\ Has(data, p + 1, w)
      BY <1>0, <2>0, <2>1, <2>4, <2>5 DEF Stands, Has
    <2>9. read_head(data, p) = HeadOf(major, n, p + 1 + w)
      <3>1. ~(info < 24) /\ info <= 27 /\ Minimal(info, n)
        BY <1>2
      <3> QED BY <2>1, <2>3, <2>5, <2>7, <2>8, <3>1 DEF read_head, w
    <2>10. Len(encode_head(major, n)) = 1 + w
      BY <2>0, <2>1, <2>2, <2>3
    <2>11. p + 1 + w = p + (1 + w)
      BY <1>0, <2>0
    <2> QED BY <2>9, <2>10, <2>11
  <1> QED BY <1>1, <1>2, HeadForms

-----------------------------------------------------------------------------
(* Cbor: the recursive definitions, unfolded. *)

\* Values of a depth nest those of a depth less.
LEMMA ValueOf ==
    \A n \in 0 .. MaxDepth : Value[n] = IF n = 0 THEN {} ELSE Nested(Value[n - 1])
  <1> DEFINE A == {}
             D(n, x) == Nested(x)
             Is(f, m) == f = [n \in 0 .. m |-> IF n = 0 THEN A ELSE D(n, f[n - 1])]
             S == {m \in Nat : \E f : Is(f, m)}
  <1> HIDE DEF A, D
  <1>0. MaxDepth \in Nat
    BY CborAssumption
  <1>1. 0 \in S
    <2> DEFINE f == [n \in 0 .. 0 |-> A]
    <2>1. \A n \in 0 .. 0 : n = 0
      OBVIOUS
    <2>2. Is(f, 0)
      BY <2>1
    <2> QED BY <2>2
  <1>2. ASSUME NEW m \in Nat, m \in S PROVE m + 1 \in S
    <2>1. PICK f : Is(f, m)
      BY <1>2
    <2> DEFINE g == [n \in 0 .. m + 1 |-> IF n = 0 THEN A ELSE D(n, f[n - 1])]
    <2>2. \A n \in 0 .. m : f[n] = IF n = 0 THEN A ELSE D(n, f[n - 1])
      BY <2>1
    <2>3. \A n \in 0 .. m : g[n] = f[n]
      BY <2>2
    <2>4. \A n \in 0 .. m + 1 : (IF n = 0 THEN A ELSE D(n, f[n - 1]))
                                  = (IF n = 0 THEN A ELSE D(n, g[n - 1]))
      <3>1. \A n \in 0 .. m + 1 : n # 0 => n - 1 \in 0 .. m
        OBVIOUS
      <3>2. \A n \in 0 .. m + 1 : n # 0 => g[n - 1] = f[n - 1]
        BY <2>3, <3>1
      <3> HIDE DEF g
      <3> QED BY <3>2, Zenon
    <2>5. Is(g, m + 1)
      BY <2>4
    <2>6. m + 1 \in Nat
      OBVIOUS
    <2> QED BY <2>5, <2>6
  <1>3. Nat \subseteq S
    <2> HIDE DEF S
    <2> QED BY <1>1, <1>2, NumberInduction
  <1>4. \E f : Is(f, MaxDepth)
    BY <1>0, <1>3
  <1>5. Value = CHOOSE f : Is(f, MaxDepth)
    BY DEF Value, A, D
  <1>6. Is(Value, MaxDepth)
    <2> HIDE DEF Is
    <2> QED BY <1>4, <1>5
  <1>7. \A n \in 0 .. MaxDepth : Value[n] = IF n = 0 THEN A ELSE D(n, Value[n - 1])
    BY <1>6
  <1> QED BY <1>7 DEF A, D

\* What is written for the values of a depth.
LEMMA EncodeOf ==
    \A n \in 0 .. MaxDepth : encode[n] = IF n = 0 THEN <<>> ELSE ValueWriter(Value[n], encode[n - 1])
  <1> DEFINE A == <<>>
             D(n, x) == ValueWriter(Value[n], x)
             Is(f, m) == f = [n \in 0 .. m |-> IF n = 0 THEN A ELSE D(n, f[n - 1])]
             S == {m \in Nat : \E f : Is(f, m)}
  <1> HIDE DEF A, D
  <1>0. MaxDepth \in Nat
    BY CborAssumption
  <1>1. 0 \in S
    <2> DEFINE f == [n \in 0 .. 0 |-> A]
    <2>1. \A n \in 0 .. 0 : n = 0
      OBVIOUS
    <2>2. Is(f, 0)
      BY <2>1
    <2> QED BY <2>2
  <1>2. ASSUME NEW m \in Nat, m \in S PROVE m + 1 \in S
    <2>1. PICK f : Is(f, m)
      BY <1>2
    <2> DEFINE g == [n \in 0 .. m + 1 |-> IF n = 0 THEN A ELSE D(n, f[n - 1])]
    <2>2. \A n \in 0 .. m : f[n] = IF n = 0 THEN A ELSE D(n, f[n - 1])
      BY <2>1
    <2>3. \A n \in 0 .. m : g[n] = f[n]
      BY <2>2
    <2>4. \A n \in 0 .. m + 1 : (IF n = 0 THEN A ELSE D(n, f[n - 1]))
                                  = (IF n = 0 THEN A ELSE D(n, g[n - 1]))
      <3>1. \A n \in 0 .. m + 1 : n # 0 => n - 1 \in 0 .. m
        OBVIOUS
      <3>2. \A n \in 0 .. m + 1 : n # 0 => g[n - 1] = f[n - 1]
        BY <2>3, <3>1
      <3> HIDE DEF g
      <3> QED BY <3>2, Zenon
    <2>5. Is(g, m + 1)
      BY <2>4
    <2>6. m + 1 \in Nat
      OBVIOUS
    <2> QED BY <2>5, <2>6
  <1>3. Nat \subseteq S
    <2> HIDE DEF S
    <2> QED BY <1>1, <1>2, NumberInduction
  <1>4. \E f : Is(f, MaxDepth)
    BY <1>0, <1>3
  <1>5. encode = CHOOSE f : Is(f, MaxDepth)
    BY DEF encode, A, D
  <1>6. Is(encode, MaxDepth)
    <2> HIDE DEF Is
    <2> QED BY <1>4, <1>5
  <1>7. \A n \in 0 .. MaxDepth : encode[n] = IF n = 0 THEN A ELSE D(n, encode[n - 1])
    BY <1>6
  <1> QED BY <1>7 DEF A, D

\* What the values of a depth mean.
LEMMA NormalOf ==
    \A n \in 0 .. MaxDepth : normal[n] = IF n = 0 THEN <<>> ELSE Normalizer(Value[n], normal[n - 1])
  <1> DEFINE A == <<>>
             D(n, x) == Normalizer(Value[n], x)
             Is(f, m) == f = [n \in 0 .. m |-> IF n = 0 THEN A ELSE D(n, f[n - 1])]
             S == {m \in Nat : \E f : Is(f, m)}
  <1> HIDE DEF A, D
  <1>0. MaxDepth \in Nat
    BY CborAssumption
  <1>1. 0 \in S
    <2> DEFINE f == [n \in 0 .. 0 |-> A]
    <2>1. \A n \in 0 .. 0 : n = 0
      OBVIOUS
    <2>2. Is(f, 0)
      BY <2>1
    <2> QED BY <2>2
  <1>2. ASSUME NEW m \in Nat, m \in S PROVE m + 1 \in S
    <2>1. PICK f : Is(f, m)
      BY <1>2
    <2> DEFINE g == [n \in 0 .. m + 1 |-> IF n = 0 THEN A ELSE D(n, f[n - 1])]
    <2>2. \A n \in 0 .. m : f[n] = IF n = 0 THEN A ELSE D(n, f[n - 1])
      BY <2>1
    <2>3. \A n \in 0 .. m : g[n] = f[n]
      BY <2>2
    <2>4. \A n \in 0 .. m + 1 : (IF n = 0 THEN A ELSE D(n, f[n - 1]))
                                  = (IF n = 0 THEN A ELSE D(n, g[n - 1]))
      <3>1. \A n \in 0 .. m + 1 : n # 0 => n - 1 \in 0 .. m
        OBVIOUS
      <3>2. \A n \in 0 .. m + 1 : n # 0 => g[n - 1] = f[n - 1]
        BY <2>3, <3>1
      <3> HIDE DEF g
      <3> QED BY <3>2, Zenon
    <2>5. Is(g, m + 1)
      BY <2>4
    <2>6. m + 1 \in Nat
      OBVIOUS
    <2> QED BY <2>5, <2>6
  <1>3. Nat \subseteq S
    <2> HIDE DEF S
    <2> QED BY <1>1, <1>2, NumberInduction
  <1>4. \E f : Is(f, MaxDepth)
    BY <1>0, <1>3
  <1>5. normal = CHOOSE f : Is(f, MaxDepth)
    BY DEF normal, A, D
  <1>6. Is(normal, MaxDepth)
    <2> HIDE DEF Is
    <2> QED BY <1>4, <1>5
  <1>7. \A n \in 0 .. MaxDepth : normal[n] = IF n = 0 THEN A ELSE D(n, normal[n - 1])
    BY <1>6
  <1> QED BY <1>7 DEF A, D

\* What is read to a depth.
LEMMA ReadOf ==
    ASSUME NEW data
    PROVE  \A n \in 0 .. MaxDepth : read_value(data)[n] =
             IF n = 0 THEN [p \in Cursors(data) |-> CborError]
             ELSE ValueReader(data, read_value(data)[n - 1])
  <1> DEFINE A == [p \in Cursors(data) |-> CborError]
             D(n, x) == ValueReader(data, x)
             Is(f, m) == f = [n \in 0 .. m |-> IF n = 0 THEN A ELSE D(n, f[n - 1])]
             S == {m \in Nat : \E f : Is(f, m)}
  <1> HIDE DEF A, D
  <1>0. MaxDepth \in Nat
    BY CborAssumption
  <1>1. 0 \in S
    <2> DEFINE f == [n \in 0 .. 0 |-> A]
    <2>1. \A n \in 0 .. 0 : n = 0
      OBVIOUS
    <2>2. Is(f, 0)
      BY <2>1
    <2> QED BY <2>2
  <1>2. ASSUME NEW m \in Nat, m \in S PROVE m + 1 \in S
    <2>1. PICK f : Is(f, m)
      BY <1>2
    <2> DEFINE g == [n \in 0 .. m + 1 |-> IF n = 0 THEN A ELSE D(n, f[n - 1])]
    <2>2. \A n \in 0 .. m : f[n] = IF n = 0 THEN A ELSE D(n, f[n - 1])
      BY <2>1
    <2>3. \A n \in 0 .. m : g[n] = f[n]
      BY <2>2
    <2>4. \A n \in 0 .. m + 1 : (IF n = 0 THEN A ELSE D(n, f[n - 1]))
                                  = (IF n = 0 THEN A ELSE D(n, g[n - 1]))
      <3>1. \A n \in 0 .. m + 1 : n # 0 => n - 1 \in 0 .. m
        OBVIOUS
      <3>2. \A n \in 0 .. m + 1 : n # 0 => g[n - 1] = f[n - 1]
        BY <2>3, <3>1
      <3> HIDE DEF g
      <3> QED BY <3>2, Zenon
    <2>5. Is(g, m + 1)
      BY <2>4
    <2>6. m + 1 \in Nat
      OBVIOUS
    <2> QED BY <2>5, <2>6
  <1>3. Nat \subseteq S
    <2> HIDE DEF S
    <2> QED BY <1>1, <1>2, NumberInduction
  <1>4. \E f : Is(f, MaxDepth)
    BY <1>0, <1>3
  <1>5. read_value(data) = CHOOSE f : Is(f, MaxDepth)
    BY DEF read_value, A, D
  <1>6. Is(read_value(data), MaxDepth)
    <2> HIDE DEF Is
    <2> QED BY <1>4, <1>5
  <1>7. \A n \in 0 .. MaxDepth : read_value(data)[n] = IF n = 0 THEN A ELSE D(n, read_value(data)[n - 1])
    BY <1>6
  <1> QED BY <1>7 DEF A, D

\* A loop reads once, then what is left.
LEMMA TimesOf ==
    ASSUME NEW read
    PROVE  \A n \in 0 .. Huge : Times(read)[n] =
             IF n = 0 THEN [p \in DOMAIN read |-> Read(<<>>, p)]
             ELSE Onward(read, Times(read)[n - 1])
  <1> DEFINE A == [p \in DOMAIN read |-> Read(<<>>, p)]
             D(n, x) == Onward(read, x)
             Is(f, m) == f = [n \in 0 .. m |-> IF n = 0 THEN A ELSE D(n, f[n - 1])]
             S == {m \in Nat : \E f : Is(f, m)}
  <1> HIDE DEF A, D
  <1>0. Huge \in Nat
    BY DEF Huge
  <1>1. 0 \in S
    <2> DEFINE f == [n \in 0 .. 0 |-> A]
    <2>1. \A n \in 0 .. 0 : n = 0
      OBVIOUS
    <2>2. Is(f, 0)
      BY <2>1
    <2> QED BY <2>2
  <1>2. ASSUME NEW m \in Nat, m \in S PROVE m + 1 \in S
    <2>1. PICK f : Is(f, m)
      BY <1>2
    <2> DEFINE g == [n \in 0 .. m + 1 |-> IF n = 0 THEN A ELSE D(n, f[n - 1])]
    <2>2. \A n \in 0 .. m : f[n] = IF n = 0 THEN A ELSE D(n, f[n - 1])
      BY <2>1
    <2>3. \A n \in 0 .. m : g[n] = f[n]
      BY <2>2
    <2>4. \A n \in 0 .. m + 1 : (IF n = 0 THEN A ELSE D(n, f[n - 1]))
                                  = (IF n = 0 THEN A ELSE D(n, g[n - 1]))
      <3>1. \A n \in 0 .. m + 1 : n # 0 => n - 1 \in 0 .. m
        OBVIOUS
      <3>2. \A n \in 0 .. m + 1 : n # 0 => g[n - 1] = f[n - 1]
        BY <2>3, <3>1
      <3> HIDE DEF g
      <3> QED BY <3>2, Zenon
    <2>5. Is(g, m + 1)
      BY <2>4
    <2>6. m + 1 \in Nat
      OBVIOUS
    <2> QED BY <2>5, <2>6
  <1>3. Nat \subseteq S
    <2> HIDE DEF S
    <2> QED BY <1>1, <1>2, NumberInduction
  <1>4. \E f : Is(f, Huge)
    BY <1>0, <1>3
  <1>5. Times(read) = CHOOSE f : Is(f, Huge)
    BY DEF Times, A, D
  <1>6. Is(Times(read), Huge)
    <2> HIDE DEF Is
    <2> QED BY <1>4, <1>5
  <1>7. \A n \in 0 .. Huge : Times(read)[n] = IF n = 0 THEN A ELSE D(n, Times(read)[n - 1])
    BY <1>6
  <1> QED BY <1>7 DEF A, D

-----------------------------------------------------------------------------
(* Cbor: pieces one after the other. *)

\* The flattening of pieces, one by one.
LEMMA FlatOf ==
    ASSUME NEW s, Len(s) \in Nat, Len(s) > 0
    PROVE  \E f : /\ \A i \in 1 .. Len(s) : f[i] = IF i = 1 THEN s[i] ELSE f[i - 1] \o s[i]
                  /\ FlattenSeq(s) = f[Len(s)]
  <1> DEFINE D(i, x) == IF i = 1 THEN s[i] ELSE x \o s[i]
             N == Len(s)
             Is(f, m) == f = [i \in 1 .. m |-> D(i, f[i - 1])]
             S == {m \in Nat : \E f : Is(f, m)}
             F == CHOOSE f : Is(f, N)
  <1>0. N \in Nat /\ N > 0
    OBVIOUS
  <1>5. FlattenSeq(s) = F[N]
    <2>1. Len(s) # 0
      BY <1>0
    <2>2. FlattenSeq(s)
            = LET flatten[i \in 1 .. Len(s)] ==
                      IF i = 1 THEN s[i] ELSE flatten[i - 1] \o s[i]
              IN  flatten[Len(s)]
      BY <2>1, Zenon DEF FlattenSeq
    <2> QED BY <2>2
  <1>8. \A i, x : D(i, x) = IF i = 1 THEN s[i] ELSE x \o s[i]
    OBVIOUS
  <1>9. \A x, y : D(1, x) = D(1, y)
    OBVIOUS
  <1> HIDE DEF D, N
  <1>1. 0 \in S
    <2> DEFINE f == [i \in 1 .. 0 |-> D(i, i)]
    <2>1. f = [i \in 1 .. 0 |-> D(i, f[i - 1])]
      <3>1. \A i \in 1 .. 0 : FALSE
        OBVIOUS
      <3> HIDE DEF f
      <3>2. f = [i \in 1 .. 0 |-> D(i, i)]
        BY DEF f
      <3> QED BY <3>1, <3>2
    <2>2. Is(f, 0)
      BY <2>1
    <2> QED BY <2>2
  <1>2. ASSUME NEW m \in Nat, m \in S PROVE m + 1 \in S
    <2>1. PICK f : Is(f, m)
      BY <1>2
    <2> DEFINE g == [i \in 1 .. m + 1 |-> D(i, f[i - 1])]
    <2>2. \A i \in 1 .. m : f[i] = D(i, f[i - 1])
      BY <2>1
    <2>3. \A i \in 1 .. m : g[i] = f[i]
      BY <2>2
    <2>4. \A i \in 1 .. m + 1 : D(i, f[i - 1]) = D(i, g[i - 1])
      <3>1. \A i \in 1 .. m + 1 : i # 1 => i - 1 \in 1 .. m
        OBVIOUS
      <3>2. \A i \in 1 .. m + 1 : i # 1 => g[i - 1] = f[i - 1]
        BY <2>3, <3>1
      <3> HIDE DEF g
      <3> QED BY <1>9, <3>2, Zenon
    <2>5. Is(g, m + 1)
      BY <2>4
    <2>6. m + 1 \in Nat
      OBVIOUS
    <2> QED BY <2>5, <2>6
  <1>3. Nat \subseteq S
    <2> HIDE DEF S
    <2> QED BY <1>1, <1>2, NumberInduction
  <1>4. \E f : Is(f, N)
    BY <1>0, <1>3
  <1>6. Is(F, N)
    <2> HIDE DEF Is
    <2> QED BY <1>4
  <1> HIDE DEF F
  <1>7. \A i \in 1 .. N : F[i] = D(i, F[i - 1])
    BY <1>6
  <1> QED BY <1>5, <1>7 DEF D, N

\* No pieces, and one more before the others.
LEMMA FlatNone == FlattenSeq(<<>>) = <<>>
  BY DEF FlattenSeq

\* Byte strings flattened are a byte string.
LEMMA FlatBytes ==
    ASSUME NEW q \in Seq(Seq(Byte))
    PROVE  FlattenSeq(q) \in Seq(Byte)
  <1>0. Len(q) \in Nat
    OBVIOUS
  <1>1. CASE Len(q) = 0
    <2>1. FlattenSeq(q) = q /\ q = <<>>
      BY <1>1 DEF FlattenSeq
    <2> QED BY <2>1
  <1>2. CASE Len(q) > 0
    <2>1. PICK f : /\ \A i \in 1 .. Len(q) : f[i] = IF i = 1 THEN q[i] ELSE f[i - 1] \o q[i]
                   /\ FlattenSeq(q) = f[Len(q)]
      BY <1>0, <1>2, FlatOf
    <2> DEFINE S == {i \in Nat : i + 1 \in 1 .. Len(q) => f[i + 1] \in Seq(Byte)}
    <2>2. 0 \in S
      <3>1. 1 \in 1 .. Len(q) /\ f[1] = q[1] /\ q[1] \in Seq(Byte)
        BY <1>2, <2>1
      <3> QED BY <3>1
    <2>3. ASSUME NEW i \in Nat, i \in S PROVE i + 1 \in S
      <3> SUFFICES ASSUME i + 2 \in 1 .. Len(q) PROVE f[i + 2] \in Seq(Byte)
        OBVIOUS
      <3>1. i + 1 \in 1 .. Len(q) /\ i + 2 # 1 /\ (i + 2) - 1 = i + 1
        OBVIOUS
      <3>2. f[i + 1] \in Seq(Byte) /\ q[i + 2] \in Seq(Byte)
        BY <2>3, <3>1
      <3>3. f[i + 2] = f[i + 1] \o q[i + 2]
        BY <2>1, <3>1
      <3> HIDE DEF S
      <3> QED BY <3>2, <3>3
    <2>4. Nat \subseteq S
      <3> HIDE DEF S
      <3> QED BY <2>2, <2>3, NumberInduction
    <2>5. Len(q) - 1 \in Nat /\ (Len(q) - 1) + 1 \in 1 .. Len(q) /\ (Len(q) - 1) + 1 = Len(q)
      BY <1>2
    <2> QED BY <2>1, <2>4, <2>5
  <1> QED BY <1>1, <1>2

\* It does not matter where a string is cut in two.
LEMMA ConcatBytes ==
    ASSUME NEW s \in Seq(Byte), NEW t \in Seq(Byte), NEW u \in Seq(Byte)
    PROVE  (s \o t) \o u = s \o (t \o u)
  BY ConcatAssociative

\* One piece before others stands before them flattened.
LEMMA FlatCons ==
    ASSUME NEW q \in Seq(Seq(Byte)), NEW x \in Seq(Byte)
    PROVE  FlattenSeq(<<x>> \o q) = x \o FlattenSeq(q)
  <1> DEFINE r == <<x>> \o q
             N == Len(q)
  <1>0. /\ N \in Nat /\ Len(r) = N + 1 /\ r[1] = x
        /\ \A i \in 1 .. N : q[i] \in Seq(Byte) /\ r[i + 1] = q[i]
    <2>1. N \in Nat /\ Len(r) = N + 1 /\ r[1] = x
      OBVIOUS
    <2>2. \A i \in 1 .. N : q[i] \in Seq(Byte)
      OBVIOUS
    <2>3. \A i \in 1 .. N : r[i + 1] = q[i]
      OBVIOUS
    <2> QED BY <2>1, <2>2, <2>3
  <1>1. Len(r) \in Nat /\ Len(r) > 0
    BY <1>0
  <1> HIDE DEF r
  <1>2. PICK f : /\ \A i \in 1 .. Len(r) : f[i] = IF i = 1 THEN r[i] ELSE f[i - 1] \o r[i]
                 /\ FlattenSeq(r) = f[Len(r)]
    BY <1>1, FlatOf
  <1>3. CASE N = 0
    <2>1. q = <<>>
      BY <1>3
    <2>2. FlattenSeq(q) = <<>>
      BY <2>1, FlatNone
    <2>3. FlattenSeq(r) = x
      <3>1. Len(r) = 1 /\ 1 \in 1 .. Len(r)
        BY <1>0, <1>3
      <3>2. f[1] = r[1]
        BY <1>2, <3>1
      <3>3. FlattenSeq(r) = f[1]
        BY <1>2, <3>1
      <3> QED BY <1>0, <3>2, <3>3
    <2>4. x \o <<>> = x
      OBVIOUS
    <2> QED BY <2>2, <2>3, <2>4 DEF r
  <1>4. CASE N > 0
    <2>1. PICK g : /\ \A i \in 1 .. Len(q) : g[i] = IF i = 1 THEN q[i] ELSE g[i - 1] \o q[i]
                   /\ FlattenSeq(q) = g[Len(q)]
      BY <1>0, <1>4, FlatOf
    <2> DEFINE S == {i \in Nat : i + 1 \in 1 .. N =>
                         g[i + 1] \in Seq(Byte) /\ f[i + 2] = x \o g[i + 1]}
    <2>2. 0 \in S
      <3>1. 1 \in 1 .. N /\ 1 \in 1 .. Len(r) /\ 2 \in 1 .. Len(r) /\ 2 - 1 = 1 /\ 1 + 1 = 2
        BY <1>0, <1>4
      <3>2. g[1] = q[1] /\ q[1] \in Seq(Byte) /\ r[2] = q[1]
        BY <1>0, <2>1, <3>1
      <3>3. f[1] = r[1]
        BY <1>2, <3>1
      <3>4. f[2] = f[1] \o r[2]
        <4>1. f[2] = IF 2 = 1 THEN r[2] ELSE f[2 - 1] \o r[2]
          BY <1>2, <3>1, Zenon
        <4> QED BY <4>1
      <3>5. g[1] \in Seq(Byte) /\ f[2] = x \o g[1]
        <4>1. f[2] = f[1] \o r[2] /\ f[1] = r[1] /\ r[1] = x /\ r[2] = q[1] /\ g[1] = q[1]
          BY <1>0, <3>2, <3>3, <3>4, Zenon
        <4> QED BY <3>2, <4>1, Zenon
      <3>6. 0 \in Nat /\ 0 + 1 = 1 /\ 0 + 2 = 2
        OBVIOUS
      <3> QED BY <3>5, <3>6, Zenon
    <2>3. ASSUME NEW i \in Nat, i \in S PROVE i + 1 \in S
      <3> SUFFICES ASSUME i + 2 \in 1 .. N
                   PROVE  g[i + 2] \in Seq(Byte) /\ f[i + 3] = x \o g[i + 2]
        OBVIOUS
      <3>1. /\ i + 1 \in 1 .. N /\ i + 2 # 1 /\ (i + 2) - 1 = i + 1
            /\ i + 3 \in 1 .. Len(r) /\ i + 3 # 1 /\ (i + 3) - 1 = i + 2 /\ (i + 2) + 1 = i + 3
        BY <1>0
      <3>2. g[i + 1] \in Seq(Byte) /\ q[i + 2] \in Seq(Byte) /\ f[i + 2] = x \o g[i + 1]
        BY <1>0, <2>3, <3>1
      <3>3. g[i + 2] = g[i + 1] \o q[i + 2]
        BY <2>1, <3>1
      <3>4. r[i + 3] = q[i + 2]
        BY <1>0, <3>1
      <3>5. f[i + 3] = f[i + 2] \o r[i + 3]
        BY <1>2, <3>1
      <3>6. (x \o g[i + 1]) \o q[i + 2] = x \o (g[i + 1] \o q[i + 2])
        BY <3>2, ConcatBytes
      <3>7. g[i + 1] \o q[i + 2] \in Seq(Byte)
        BY <3>2
      <3> QED BY <3>2, <3>3, <3>4, <3>5, <3>6, <3>7
    <2>4. Nat \subseteq S
      <3> HIDE DEF S
      <3> QED BY <2>2, <2>3, NumberInduction
    <2>5. N - 1 \in Nat /\ (N - 1) + 1 \in 1 .. N /\ (N - 1) + 1 = N /\ (N - 1) + 2 = Len(r)
      BY <1>0, <1>4
    <2>6. f[Len(r)] = x \o g[N]
      BY <2>4, <2>5
    <2> QED BY <1>2, <2>1, <2>6 DEF r
  <1>5. N = 0 \/ N > 0
    BY <1>0
  <1> QED BY <1>3, <1>4, <1>5

\* What is written for a sequence.
LEMMA WriteNone ==
    ASSUME NEW w
    PROVE  WriteAll(w, <<>>) = <<>>
  <1>1. [i \in 1 .. Len(<<>>) |-> w[<<>>[i]]] = <<>>
    OBVIOUS
  <1> QED BY <1>1, FlatNone DEF WriteAll

\* What is written for a sequence is bytes.
LEMMA WriteBytes ==
    ASSUME NEW w, NEW X, \A x \in X : w[x] \in Seq(Byte), NEW s \in Seq(X)
    PROVE  WriteAll(w, s) \in Seq(Byte)
  <1>1. [i \in 1 .. Len(s) |-> w[s[i]]] \in Seq(Seq(Byte))
    <2>1. Len(s) \in Nat /\ \A i \in 1 .. Len(s) : w[s[i]] \in Seq(Byte)
      OBVIOUS
    <2> QED BY <2>1
  <1> QED BY <1>1, FlatBytes DEF WriteAll

\* What is written for one value stands before what is written for the rest.
LEMMA WriteCons ==
    ASSUME NEW w, NEW X, \A x \in X : w[x] \in Seq(Byte), NEW x \in X, NEW s \in Seq(X)
    PROVE  WriteAll(w, <<x>> \o s) = w[x] \o WriteAll(w, s)
  <1> DEFINE q == [i \in 1 .. Len(s) |-> w[s[i]]]
             xs == <<x>> \o s
             r == [i \in 1 .. Len(xs) |-> w[xs[i]]]
             t == <<w[x]>> \o q
  <1>1. Len(s) \in Nat /\ \A i \in 1 .. Len(s) : w[s[i]] \in Seq(Byte)
    OBVIOUS
  <1>2. q \in Seq(Seq(Byte)) /\ Len(q) = Len(s) /\ \A i \in 1 .. Len(s) : q[i] = w[s[i]]
    BY <1>1
  <1>3. /\ Len(xs) = Len(s) + 1 /\ xs[1] = x
        /\ \A i \in 2 .. Len(s) + 1 : xs[i] = s[i - 1]
    OBVIOUS
  <1>4. /\ t \in Seq(Seq(Byte)) /\ Len(t) = Len(s) + 1 /\ t[1] = w[x]
        /\ \A i \in 2 .. Len(s) + 1 : t[i] = q[i - 1]
    <2> HIDE DEF q
    <2> QED BY <1>2
  <1> HIDE DEF q, xs
  <1>5. r = [i \in 1 .. Len(s) + 1 |-> w[xs[i]]]
    BY <1>3
  <1>6. \A i \in 1 .. Len(s) + 1 : w[xs[i]] = t[i]
    <2> SUFFICES ASSUME NEW i \in 1 .. Len(s) + 1 PROVE w[xs[i]] = t[i]
      OBVIOUS
    <2>1. CASE i = 1
      BY <1>3, <1>4, <2>1
    <2>2. CASE i # 1
      <3>1. i \in 2 .. Len(s) + 1 /\ i - 1 \in 1 .. Len(s)
        BY <1>1, <2>2
      <3> HIDE DEF t
      <3> QED BY <1>2, <1>3, <1>4, <3>1
    <2> QED BY <2>1, <2>2
  <1>7. r = t
    <2> HIDE DEF t, r
    <2>1. t = [i \in 1 .. Len(s) + 1 |-> t[i]]
      BY <1>4
    <2> QED BY <1>5, <1>6, <2>1
  <1>8. FlattenSeq(t) = w[x] \o FlattenSeq(q)
    BY <1>2, FlatCons
  <1> QED BY <1>7, <1>8 DEF WriteAll, q, xs

-----------------------------------------------------------------------------
(* Cbor: the loops of read_value. *)

\* Where something is read, what w writes for it stands, and reading ends
\* after that.
Reads(data, read, X, w) ==
    \A p \in Cursors(data) : read[p] # CborError =>
        \E x \in X : /\ read[p] = Read(x, p + Len(w[x]))
                     /\ Stands(data, p, w[x]) /\ Len(w[x]) > 0

\* Where what w writes for a value stands, what the value means is read.
Rereads(data, read, X, w, m) ==
    \A x \in X, p \in Nat : Stands(data, p, w[x]) => read[p] = Read(m[x], p + Len(w[x]))

\* The same of loops over the reader.
LoopsRead(data, read, X, w) ==
    \A n \in 0 .. Huge, p \in Cursors(data) : Times(read)[n][p] # CborError =>
        \E s \in Seq(X) : /\ Times(read)[n][p] = Read(s, p + Len(WriteAll(w, s)))
                          /\ Stands(data, p, WriteAll(w, s))
                          /\ Len(s) = n /\ Len(WriteAll(w, s)) >= n

LoopsReread(data, read, X, w, m) ==
    \A n \in 0 .. Huge, s \in Seq(X), p \in Nat :
        Len(s) = n /\ Stands(data, p, WriteAll(w, s)) =>
            Times(read)[n][p] = Read([i \in 1 .. n |-> m[s[i]]], p + Len(WriteAll(w, s)))

\* The bound on inputs is a number.
LEMMA HugeNat == Huge \in Nat
  BY DEF Huge

\* A read that succeeded.
LEMMA ReadFacts ==
    ASSUME NEW v, NEW p
    PROVE  Read(v, p) # CborError /\ Read(v, p).v = v /\ Read(v, p).pos = p
  BY DEF Read, CborError

\* Nothing stands anywhere.
LEMMA StandsNone ==
    ASSUME NEW data \in Seq(Byte), NEW p \in 1 .. Len(data) + 1
    PROVE  Stands(data, p, <<>>)
  BY DEF Stands

\* A loop reads values that are written one after the other, each at least a
\* byte long.
LEMMA LoopReads ==
    ASSUME NEW data \in Seq(Byte), NEW read, NEW X, NEW w,
           DOMAIN read = Cursors(data), \A x \in X : w[x] \in Seq(Byte),
           Reads(data, read, X, w)
    PROVE  LoopsRead(data, read, X, w)
  <1> DEFINE Good(n, p, s) == /\ Times(read)[n][p] = Read(s, p + Len(WriteAll(w, s)))
                              /\ Stands(data, p, WriteAll(w, s))
                              /\ Len(s) = n /\ Len(WriteAll(w, s)) >= n
             S == {n \in Nat : n <= Huge => \A p \in Cursors(data) :
                                   Times(read)[n][p] # CborError => \E s \in Seq(X) : Good(n, p, s)}
  <1> SUFFICES \A n \in 0 .. Huge, p \in Cursors(data) :
                  Times(read)[n][p] # CborError => \E s \in Seq(X) : Good(n, p, s)
    BY DEF LoopsRead
  <1>1. 0 \in S
    <2> SUFFICES ASSUME NEW p \in Cursors(data) PROVE \E s \in Seq(X) : Good(0, p, s)
      OBVIOUS
    <2>1. Times(read)[0] = [q \in Cursors(data) |-> Read(<<>>, q)]
      <3>1. 0 \in 0 .. Huge
        BY DEF Huge
      <3> QED BY <3>1, TimesOf
    <2>2. Times(read)[0][p] = Read(<<>>, p)
      BY <2>1
    <2>3. p \in 1 .. Len(data) + 1
      BY DEF Cursors
    <2>4. WriteAll(w, <<>>) = <<>>
      BY WriteNone
    <2>5. p = p + Len(<<>>) /\ Stands(data, p, <<>>) /\ Len(<<>>) = 0
      BY <2>3, StandsNone
    <2>6. Good(0, p, <<>>) /\ <<>> \in Seq(X)
      BY <2>2, <2>4, <2>5
    <2> QED BY <2>6
  <1>2. ASSUME NEW n \in Nat, n \in S PROVE n + 1 \in S
    <2> SUFFICES ASSUME n + 1 <= Huge, NEW p \in Cursors(data), Times(read)[n + 1][p] # CborError
                 PROVE  \E s \in Seq(X) : Good(n + 1, p, s)
      OBVIOUS
    <2> DEFINE rest == Times(read)[n]
               r == Times(read)[n + 1][p]
    <2>1. n <= Huge /\ n + 1 \in 0 .. Huge /\ n + 1 # 0 /\ (n + 1) - 1 = n
      BY HugeNat
    <2>2. Times(read)[n + 1] = Onward(read, rest)
      BY <2>1, TimesOf
    <2>3. /\ read[p] # CborError /\ rest[read[p].pos] # CborError
          /\ r = Read(<<read[p].v>> \o rest[read[p].pos].v, rest[read[p].pos].pos)
      BY <2>2 DEF Onward
    <2>4. PICK x \in X : /\ read[p] = Read(x, p + Len(w[x]))
                         /\ Stands(data, p, w[x]) /\ Len(w[x]) > 0
      BY <2>3 DEF Reads
    <2> DEFINE q == p + Len(w[x])
    <2>5. p \in Nat /\ q \in Cursors(data) /\ w[x] \in Seq(Byte) /\ Len(w[x]) \in Nat
      BY <2>4 DEF Cursors, Stands
    <2>6. read[p].v = x /\ read[p].pos = q
      BY <2>4, ReadFacts
    <2>7. PICK s \in Seq(X) : Good(n, q, s)
      BY <1>2, <2>1, <2>3, <2>5, <2>6
    <2>8. rest[q].v = s /\ rest[q].pos = q + Len(WriteAll(w, s))
      BY <2>7, ReadFacts
    <2> DEFINE xs == <<x>> \o s
    <2>9. xs \in Seq(X) /\ Len(xs) = n + 1
      BY <2>7
    <2>10. WriteAll(w, xs) = w[x] \o WriteAll(w, s) /\ WriteAll(w, s) \in Seq(Byte)
      BY WriteCons, WriteBytes
    <2>11. r = Read(xs, q + Len(WriteAll(w, s)))
      BY <2>3, <2>6, <2>8
    <2> HIDE DEF r, xs, S
    <2>12. Stands(data, p, WriteAll(w, xs))
      <3> DEFINE a == w[x]
                 b == WriteAll(w, s)
      <3>1. /\ a \in Seq(Byte) /\ b \in Seq(Byte)
            /\ Stands(data, p, a) /\ Stands(data, p + Len(a), b)
        BY <2>4, <2>5, <2>7, <2>10
      <3> HIDE DEF a, b
      <3>2. Stands(data, p, a \o b)
        BY <2>5, <3>1, StandsConcat
      <3> QED BY <2>10, <3>2 DEF a, b
    <2>13. /\ Len(WriteAll(w, xs)) = Len(w[x]) + Len(WriteAll(w, s))
           /\ Len(WriteAll(w, xs)) >= n + 1
           /\ q + Len(WriteAll(w, s)) = p + Len(WriteAll(w, xs))
      <3> DEFINE a == w[x]
                 b == WriteAll(w, s)
      <3>1. a \in Seq(Byte) /\ b \in Seq(Byte) /\ Len(b) >= n /\ Len(a) > 0
        BY <2>4, <2>5, <2>7, <2>10
      <3> HIDE DEF a, b
      <3>2. Len(a \o b) = Len(a) + Len(b) /\ Len(a \o b) >= n + 1 /\ p + Len(a) + Len(b) = p + Len(a \o b)
        BY <2>5, <3>1
      <3> QED BY <2>10, <3>2 DEF a, b
    <2>14. Good(n + 1, p, xs)
      BY <2>9, <2>11, <2>12, <2>13 DEF r
    <2> QED BY <2>9, <2>14
  <1>3. Nat \subseteq S
    <2> HIDE DEF S
    <2> QED BY <1>1, <1>2, NumberInduction
  <1>4. \A n \in 0 .. Huge : n \in Nat /\ n <= Huge
    <2> HIDE DEF S
    <2> QED BY HugeNat
  <1> QED BY <1>3, <1>4

\* A sequence is its first element and the others.
LEMMA HeadTail ==
    ASSUME NEW X, NEW s \in Seq(X), NEW n \in Nat, Len(s) = n + 1
    PROVE  /\ s[1] \in X /\ Tail(s) \in Seq(X) /\ Len(Tail(s)) = n
           /\ \A i \in 1 .. n : Tail(s)[i] = s[i + 1]
           /\ s = <<s[1]>> \o Tail(s)
  <1>1. /\ s[1] \in X /\ Tail(s) \in Seq(X) /\ Len(Tail(s)) = n
        /\ \A i \in 1 .. n : Tail(s)[i] = s[i + 1]
    OBVIOUS
  <1> DEFINE t == Tail(s)
             u == <<s[1]>> \o t
  <1> HIDE DEF t
  <1>2. t \in Seq(X) /\ Len(t) = n /\ \A i \in 1 .. n : t[i] = s[i + 1]
    BY <1>1 DEF t
  <1>3. /\ u \in Seq(X) /\ Len(u) = n + 1 /\ u[1] = s[1]
        /\ \A i \in 2 .. n + 1 : u[i] = t[i - 1]
    BY <1>1, <1>2
  <1> HIDE DEF u
  <1>4. \A i \in 1 .. n + 1 : s[i] = u[i]
    <2> SUFFICES ASSUME NEW i \in 1 .. n + 1 PROVE s[i] = u[i]
      OBVIOUS
    <2>1. CASE i = 1
      BY <1>3, <2>1
    <2>2. CASE i # 1
      <3>1. i \in 2 .. n + 1 /\ i - 1 \in 1 .. n /\ (i - 1) + 1 = i
        BY <2>2
      <3> QED BY <1>2, <1>3, <3>1
    <2> QED BY <2>1, <2>2
  <1>5. s = u
    BY <1>3, <1>4, SeqEqual
  <1> QED BY <1>1, <1>5 DEF u, t

\* A loop reads what the values mean that are written one after the other.
LEMMA LoopRereads ==
    ASSUME NEW data \in Seq(Byte), NEW read, NEW X, NEW w, NEW m,
           DOMAIN read = Cursors(data), \A x \in X : w[x] \in Seq(Byte),
           Rereads(data, read, X, w, m)
    PROVE  LoopsReread(data, read, X, w, m)
  <1> DEFINE Good(n, s, p) == Times(read)[n][p]
                                = Read([i \in 1 .. n |-> m[s[i]]], p + Len(WriteAll(w, s)))
             S == {n \in Nat : n <= Huge => \A s \in Seq(X), p \in Nat :
                                   Len(s) = n /\ Stands(data, p, WriteAll(w, s)) => Good(n, s, p)}
  <1> SUFFICES \A n \in 0 .. Huge, s \in Seq(X), p \in Nat :
                  Len(s) = n /\ Stands(data, p, WriteAll(w, s)) => Good(n, s, p)
    BY DEF LoopsReread
  <1>1. 0 \in S
    <2> SUFFICES ASSUME NEW s \in Seq(X), NEW p \in Nat, Len(s) = 0,
                        Stands(data, p, WriteAll(w, s))
                 PROVE  Good(0, s, p)
      OBVIOUS
    <2>1. s = <<>>
      OBVIOUS
    <2>2. WriteAll(w, <<>>) = <<>> /\ p = p + Len(<<>>)
      BY WriteNone
    <2>3. p \in Cursors(data)
      BY DEF Stands, Cursors
    <2>4. Times(read)[0] = [q \in Cursors(data) |-> Read(<<>>, q)]
      <3>1. 0 \in 0 .. Huge
        BY DEF Huge
      <3> QED BY <3>1, TimesOf
    <2>5. [i \in 1 .. 0 |-> m[s[i]]] = <<>>
      OBVIOUS
    <2> QED BY <2>1, <2>2, <2>3, <2>4, <2>5
  <1>2. ASSUME NEW n \in Nat, n \in S PROVE n + 1 \in S
    <2> SUFFICES ASSUME n + 1 <= Huge, NEW s \in Seq(X), NEW p \in Nat, Len(s) = n + 1,
                        Stands(data, p, WriteAll(w, s))
                 PROVE  Good(n + 1, s, p)
      OBVIOUS
    <2> DEFINE rest == Times(read)[n]
               x == s[1]
               t == Tail(s)
               q == p + Len(w[x])
               wt == WriteAll(w, t)
    <2>1. n <= Huge /\ n + 1 \in 0 .. Huge /\ n + 1 # 0 /\ (n + 1) - 1 = n
      BY HugeNat
    <2>2. Times(read)[n + 1] = Onward(read, rest)
      BY <2>1, TimesOf
    <2>3. /\ x \in X /\ t \in Seq(X) /\ Len(t) = n /\ s = <<x>> \o t
          /\ \A i \in 1 .. n : t[i] = s[i + 1]
      BY HeadTail
    <2> HIDE DEF x, t
    <2>4. WriteAll(w, s) = w[x] \o wt /\ wt \in Seq(Byte) /\ w[x] \in Seq(Byte)
      BY <2>3, WriteCons, WriteBytes
    <2>5. Stands(data, p, w[x]) /\ Stands(data, q, wt) /\ q \in Nat /\ p \in Cursors(data)
      <3>1. Stands(data, p, w[x] \o wt)
        BY <2>4
      <3>2. Stands(data, p, w[x]) /\ Stands(data, q, wt)
        BY <2>4, <3>1, StandsConcat
      <3>3. Len(w[x]) \in Nat
        BY <2>4
      <3> QED BY <3>2, <3>3 DEF Stands, Cursors
    <2>6. read[p] = Read(m[x], q)
      BY <2>3, <2>5 DEF Rereads
    <2> DEFINE ms == [i \in 1 .. n |-> m[t[i]]]
    <2>7. rest[q] = Read(ms, q + Len(wt))
      BY <1>2, <2>1, <2>3, <2>5
    <2>8. Times(read)[n + 1][p] = Read(<<m[x]>> \o ms, q + Len(wt))
      <3>1. read[p] # CborError /\ read[p].v = m[x] /\ read[p].pos = q
        BY <2>6, ReadFacts
      <3>2. rest[q] # CborError /\ rest[q].v = ms /\ rest[q].pos = q + Len(wt)
        BY <2>7, ReadFacts
      <3> HIDE DEF rest, ms, q, wt
      <3> QED BY <2>2, <2>5, <3>1, <3>2 DEF Onward
    <2>9. q + Len(wt) = p + Len(WriteAll(w, s))
      <3> DEFINE a == w[x]
      <3>1. a \in Seq(Byte) /\ wt \in Seq(Byte)
        BY <2>4
      <3> HIDE DEF a, wt
      <3>2. p + Len(a) + Len(wt) = p + Len(a \o wt)
        BY <3>1
      <3> QED BY <2>4, <3>2 DEF a
    <2>10. [i \in 1 .. n + 1 |-> m[s[i]]] = <<m[x]>> \o ms
      <3> DEFINE Y == {m[y] : y \in X}
                 a == [i \in 1 .. n + 1 |-> m[s[i]]]
                 b == <<m[x]>> \o ms
      <3>1. \A i \in 1 .. n + 1 : s[i] \in X
        OBVIOUS
      <3>2. \A i \in 1 .. n : t[i] \in X
        BY <2>3
      <3>3. a \in Seq(Y) /\ Len(a) = n + 1 /\ \A i \in 1 .. n + 1 : a[i] = m[s[i]]
        BY <3>1
      <3>4. ms \in Seq(Y) /\ Len(ms) = n /\ \A i \in 1 .. n : ms[i] = m[t[i]]
        BY <3>2
      <3>5. m[x] \in Y
        BY <2>3
      <3> HIDE DEF ms, Y
      <3>6. /\ b \in Seq(Y) /\ Len(b) = n + 1 /\ b[1] = m[x]
            /\ \A i \in 2 .. n + 1 : b[i] = ms[i - 1]
        BY <3>4, <3>5
      <3> HIDE DEF a, b
      <3>7. \A i \in 1 .. n + 1 : a[i] = b[i]
        <4> SUFFICES ASSUME NEW i \in 1 .. n + 1 PROVE a[i] = b[i]
          OBVIOUS
        <4>1. CASE i = 1
          BY <3>3, <3>6, <4>1 DEF x
        <4>2. CASE i # 1
          <5>1. i \in 2 .. n + 1 /\ i - 1 \in 1 .. n /\ (i - 1) + 1 = i
            BY <4>2
          <5>2. b[i] = m[t[i - 1]] /\ t[i - 1] = s[i]
            BY <2>3, <3>4, <3>6, <5>1
          <5> QED BY <3>3, <5>2
        <4> QED BY <4>1, <4>2
      <3>8. a = b
        BY <3>3, <3>6, <3>7, SeqEqual
      <3> QED BY <3>8 DEF a, b
    <2> QED BY <2>8, <2>9, <2>10
  <1>3. Nat \subseteq S
    <2> HIDE DEF S
    <2> QED BY <1>1, <1>2, NumberInduction
  <1>4. \A n \in 0 .. Huge : n \in Nat /\ n <= Huge
    <2> HIDE DEF S
    <2> QED BY HugeNat
  <1> QED BY <1>3, <1>4

-----------------------------------------------------------------------------
(* Cbor: the order of the keys. *)

\* Bytes are numbers, which can be compared.
LEMMA BytesAt ==
    ASSUME NEW a \in Seq(Byte)
    PROVE  Len(a) \in Nat /\ \A i \in 1 .. Len(a) : a[i] \in Int
  <1>1. Len(a) \in Nat /\ \A i \in 1 .. Len(a) : a[i] \in Byte
    OBVIOUS
  <1>2. \A x \in Byte : x \in Int
    BY DEF Byte
  <1> QED BY <1>1, <1>2

\* Less is a strict order of the byte strings, and total.
LEMMA LessIrreflexive ==
    ASSUME NEW a \in Seq(Byte)
    PROVE  ~Less(a, a)
  <1> SUFFICES ASSUME Less(a, a) PROVE FALSE
    OBVIOUS
  <1>1. PICK i \in 1 .. Len(a) : i <= Len(a) => a[i] < a[i]
    BY DEF Less
  <1>2. a[i] \in Byte /\ i <= Len(a)
    OBVIOUS
  <1>3. a[i] \in 0 .. 255
    BY <1>2 DEF Byte
  <1> DEFINE x == a[i]
  <1>4. x \in 0 .. 255 /\ x < x
    BY <1>1, <1>2, <1>3
  <1> HIDE DEF x
  <1> QED BY <1>4

\* Less is transitive: the first difference of a and c is the earlier one.
LEMMA LessTransitive ==
    ASSUME NEW a \in Seq(Byte), NEW b \in Seq(Byte), NEW c \in Seq(Byte),
           Less(a, b), Less(b, c)
    PROVE  Less(a, c)
  <1>0. /\ Len(a) \in Nat /\ Len(b) \in Nat /\ Len(c) \in Nat
        /\ \A i \in 1 .. Len(a) : a[i] \in Int
        /\ \A i \in 1 .. Len(b) : b[i] \in Int
        /\ \A i \in 1 .. Len(c) : c[i] \in Int
    BY BytesAt
  <1>1. PICK i \in 1 .. Len(b) : /\ i <= Len(a) + 1 /\ \A j \in 1 .. i - 1 : a[j] = b[j]
                                 /\ i <= Len(a) => a[i] < b[i]
    BY DEF Less
  <1>2. PICK k \in 1 .. Len(c) : /\ k <= Len(b) + 1 /\ \A j \in 1 .. k - 1 : b[j] = c[j]
                                 /\ k <= Len(b) => b[k] < c[k]
    BY DEF Less
  <1>3. CASE i < k
    <2>1. i \in 1 .. Len(c) /\ i \in 1 .. k - 1
      BY <1>0, <1>3
    <2>2. \A j \in 1 .. i - 1 : a[j] = c[j]
      <3>1. \A j \in 1 .. i - 1 : j \in 1 .. k - 1
        BY <1>0, <1>3
      <3> QED BY <1>1, <1>2, <3>1
    <2>3. i <= Len(a) => a[i] < c[i]
      BY <1>1, <1>2, <2>1
    <2> QED BY <1>1, <2>1, <2>2, <2>3 DEF Less
  <1>4. CASE k <= i
    <2>1. k <= Len(a) + 1 /\ k \in 1 .. Len(b) /\ k <= Len(b)
      BY <1>0, <1>1, <1>4
    <2>2. \A j \in 1 .. k - 1 : a[j] = c[j]
      <3>1. \A j \in 1 .. k - 1 : j \in 1 .. i - 1
        BY <1>0, <1>4
      <3> QED BY <1>1, <1>2, <3>1
    <2>3. k <= Len(a) => a[k] < c[k]
      <3> HAVE k <= Len(a)
      <3>1. b[k] < c[k] /\ a[k] \in Int /\ b[k] \in Int /\ c[k] \in Int
        BY <1>0, <1>2, <2>1
      <3>2. a[k] = b[k] \/ a[k] < b[k]
        <4>1. CASE k = i
          BY <1>1, <4>1
        <4>2. CASE k # i
          <5>1. k \in 1 .. i - 1
            BY <1>0, <1>4, <4>2
          <5> QED BY <1>1, <5>1
        <4> QED BY <4>1, <4>2
      <3> QED BY <3>1, <3>2
    <2> QED BY <2>1, <2>2, <2>3 DEF Less
  <1> QED BY <1>0, <1>3, <1>4

\* Less is total: strings that differ, differ at a first place.
LEMMA LessTotal ==
    ASSUME NEW a \in Seq(Byte), NEW b \in Seq(Byte), a # b
    PROVE  Less(a, b) \/ Less(b, a)
  <1>0. /\ Len(a) \in Nat /\ Len(b) \in Nat
        /\ \A i \in 1 .. Len(a) : a[i] \in Int
        /\ \A i \in 1 .. Len(b) : b[i] \in Int
    BY BytesAt
  <1> DEFINE T == {i \in Nat : i >= 1 /\ (i > Len(a) \/ i > Len(b) \/ a[i] # b[i])}
  <1>1. PICK i \in T : \A j \in T : i <= j
    <2>1. Len(a) + 1 \in T
      BY <1>0
    <2>2. T \in SUBSET Nat /\ T # {}
      BY <2>1
    <2> HIDE DEF T
    <2> QED BY <2>2, LeastNumber
  <1>2. \A j \in 1 .. i - 1 : j <= Len(a) /\ j <= Len(b) /\ a[j] = b[j]
    <2> SUFFICES ASSUME NEW j \in 1 .. i - 1, j \in T PROVE FALSE
      BY <1>0
    <2> QED BY <1>0, <1>1
  <1>3. i \in Nat /\ i >= 1 /\ (i > Len(a) \/ i > Len(b) \/ a[i] # b[i])
    BY <1>1
  <1> HIDE DEF T
  <1>4. i <= Len(a) + 1 /\ i <= Len(b) + 1
    <2>1. CASE i = 1
      BY <1>0, <2>1
    <2>2. CASE i > 1
      <3>1. i - 1 \in 1 .. i - 1
        BY <1>3, <2>2
      <3>2. i - 1 <= Len(a) /\ i - 1 <= Len(b)
        BY <1>2, <3>1
      <3> QED BY <1>0, <1>3, <3>2
    <2> QED BY <1>3, <2>1, <2>2
  <1>5. CASE i > Len(a) /\ i > Len(b)
    <2>1. Len(a) = Len(b) /\ Len(a) = i - 1
      BY <1>0, <1>3, <1>4, <1>5
    <2>2. \A j \in 1 .. Len(a) : a[j] = b[j]
      BY <1>2, <2>1
    <2>3. a = b
      BY <2>1, <2>2, SeqEqual
    <2> QED BY <2>3
  <1>6. CASE i <= Len(b) /\ (i <= Len(a) => a[i] < b[i])
    <2>1. i \in 1 .. Len(b)
      BY <1>0, <1>3, <1>6
    <2>2. Less(a, b)
      BY <1>2, <1>4, <1>6, <2>1 DEF Less
    <2> QED BY <2>2
  <1>7. CASE i <= Len(a) /\ (i <= Len(b) => b[i] < a[i])
    <2>1. i \in 1 .. Len(a)
      BY <1>0, <1>3, <1>7
    <2>2. Less(b, a)
      BY <1>2, <1>4, <1>7, <2>1 DEF Less
    <2> QED BY <2>2
  <1>8. CASE i <= Len(a) /\ i <= Len(b)
    <2>1. a[i] # b[i] /\ a[i] \in Int /\ b[i] \in Int
      BY <1>0, <1>3, <1>8
    <2>2. a[i] < b[i] \/ b[i] < a[i]
      BY <2>1
    <2> QED BY <1>6, <1>7, <1>8, <2>2
  <1>9. CASE i > Len(a) /\ i <= Len(b)
    BY <1>0, <1>3, <1>6, <1>9
  <1>10. CASE i <= Len(a) /\ i > Len(b)
    BY <1>0, <1>3, <1>7, <1>10
  <1> QED BY <1>0, <1>3, <1>5, <1>8, <1>9, <1>10

\* Keys are written differently.
LEMMA KeyBytes ==
    ASSUME NEW k \in Utf8String
    PROVE  /\ encode_key(k) \in Seq(Byte) /\ Len(encode_key(k)) > 0
           /\ k \in Seq(Byte) /\ Len(k) \in 0 .. Huge - 1 /\ U64(Len(k)) \in U64s
  <1>1. k \in Seq(Byte) /\ Len(k) \in 0 .. Huge - 1
    BY HugeNat DEF Utf8String, ByteString
  <1>2. U64(Len(k)) \in U64s
    BY <1>1, SizeBytes
  <1>3. encode_head(3, U64(Len(k))) \in Seq(Byte) /\ Len(encode_head(3, U64(Len(k)))) > 0
    BY <1>2, HeadBytes
  <1> DEFINE h == encode_head(3, U64(Len(k)))
  <1> HIDE DEF h
  <1>4. h \o k \in Seq(Byte) /\ Len(h \o k) > 0
    <2>1. h \in Seq(Byte) /\ Len(h) > 0
      BY <1>3 DEF h
    <2> QED BY <1>1, <2>1
  <1> QED BY <1>1, <1>2, <1>4 DEF encode_key, h

\* Different keys are encoded differently: the head says where the key ends.
LEMMA KeyInjective ==
    ASSUME NEW k \in Utf8String, NEW l \in Utf8String, encode_key(k) = encode_key(l)
    PROVE  k = l
  <1> DEFINE data == encode_key(k)
             H(s) == encode_head(3, U64(Len(s)))
  <1>1. ASSUME NEW s \in Utf8String, encode_key(s) = data
        PROVE  /\ read_head(data, 1) = HeadOf(3, U64(Len(s)), 1 + Len(H(s)))
               /\ SubSeq(data, 1 + Len(H(s)), 1 + Len(H(s)) + Len(s) - 1) = s
               /\ Usize(U64(Len(s))) = Len(s)
    <2> HIDE DEF data
    <2>1. /\ data \in Seq(Byte) /\ s \in Seq(Byte) /\ Len(s) \in 0 .. Huge - 1
          /\ U64(Len(s)) \in U64s
      BY <1>1, KeyBytes
    <2>2. Usize(U64(Len(s))) = Len(s)
      BY <2>1, SizeBytes
    <2>3. H(s) \in Seq(Byte)
      BY <2>1, HeadBytes
    <2> DEFINE h == H(s)
    <2>4. data = h \o s
      BY <1>1 DEF encode_key
    <2> HIDE DEF h
    <2>5. Stands(data, 1, data)
      <3>1. Len(data) \in Nat
        BY <2>1
      <3> QED BY <3>1 DEF Stands
    <2>6. h \in Seq(Byte)
      BY <2>3 DEF h
    <2>7. Stands(data, 1, h \o s) /\ 1 \in Nat
      BY <2>4, <2>5
    <2>8. Stands(data, 1, h) /\ Stands(data, 1 + Len(h), s)
      BY <2>1, <2>6, <2>7, StandsConcat
    <2>9. 1 + Len(h) \in Nat
      BY <2>6
    <2>10. SubSeq(data, 1 + Len(h), 1 + Len(h) + Len(s) - 1) = s
      BY <2>1, <2>8, <2>9, CutStands
    <2>11. read_head(data, 1) = HeadOf(3, U64(Len(s)), 1 + Len(h))
      BY <2>1, <2>7, <2>8, HeadWritten DEF h
    <2> QED BY <2>2, <2>10, <2>11 DEF h
  <1>2. /\ HeadOf(3, U64(Len(k)), 1 + Len(H(k))) = HeadOf(3, U64(Len(l)), 1 + Len(H(l)))
        /\ SubSeq(data, 1 + Len(H(k)), 1 + Len(H(k)) + Len(k) - 1) = k
        /\ SubSeq(data, 1 + Len(H(l)), 1 + Len(H(l)) + Len(l) - 1) = l
        /\ Usize(U64(Len(k))) = Len(k) /\ Usize(U64(Len(l))) = Len(l)
    <2> HIDE DEF H
    <2> QED BY <1>1
  <1>3. U64(Len(k)) = U64(Len(l))
    <2>1. HeadOf(3, U64(Len(k)), 1 + Len(H(k))).arg = U64(Len(k))
      BY DEF HeadOf
    <2>2. HeadOf(3, U64(Len(l)), 1 + Len(H(l))).arg = U64(Len(l))
      BY DEF HeadOf
    <2> HIDE DEF H
    <2> QED BY <1>2, <2>1, <2>2
  <1>4. Len(k) = Len(l) /\ H(k) = H(l)
    BY <1>2, <1>3
  <1> HIDE DEF H, data
  <1> QED BY <1>2, <1>4

\* The keys of entries are in a strict order, and total.
LEMMA KeyOrder ==
    ASSUME NEW e, e[1] \in Utf8String, NEW f, f[1] \in Utf8String, NEW g, g[1] \in Utf8String
    PROVE  /\ ~KeyLess(e, e)
           /\ KeyLess(e, f) /\ KeyLess(f, g) => KeyLess(e, g)
           /\ e[1] # f[1] => KeyLess(e, f) \/ KeyLess(f, e)
  <1>1. /\ encode_key(e[1]) \in Seq(Byte) /\ encode_key(f[1]) \in Seq(Byte)
        /\ encode_key(g[1]) \in Seq(Byte)
    BY KeyBytes
  <1>2. e[1] # f[1] => encode_key(e[1]) # encode_key(f[1])
    BY KeyInjective
  <1>3. ~KeyLess(e, e)
    BY <1>1, LessIrreflexive DEF KeyLess
  <1>4. KeyLess(e, f) /\ KeyLess(f, g) => KeyLess(e, g)
    BY <1>1, LessTransitive DEF KeyLess
  <1>5. e[1] # f[1] => KeyLess(e, f) \/ KeyLess(f, e)
    BY <1>1, <1>2, LessTotal DEF KeyLess
  <1> QED BY <1>3, <1>4, <1>5

\* Where each entry is ahead of the next, it is ahead of every later one.
LEMMA AscendingOrder ==
    ASSUME NEW X, NEW es \in Seq(Utf8String \X X), Ascending(es)
    PROVE  \A i, j \in 1 .. Len(es) : i < j => KeyLess(es[i], es[j])
  <1>0. Len(es) \in Nat /\ \A i \in 1 .. Len(es) : es[i][1] \in Utf8String
    OBVIOUS
  <1> DEFINE S == {d \in Nat : \A i \in 1 .. Len(es) : i + d + 1 <= Len(es) =>
                                   KeyLess(es[i], es[i + d + 1])}
  <1>1. ASSUME NEW i \in 1 .. Len(es), i + 1 <= Len(es) PROVE KeyLess(es[i], es[i + 1])
    <2>1. i + 1 \in 2 .. Len(es) /\ (i + 1) - 1 = i
      BY <1>0, <1>1
    <2> QED BY <2>1 DEF Ascending
  <1>2. 0 \in S
    <2> SUFFICES ASSUME NEW i \in 1 .. Len(es), i + 0 + 1 <= Len(es)
                 PROVE  KeyLess(es[i], es[i + 0 + 1])
      OBVIOUS
    <2>1. i + 0 + 1 = i + 1
      OBVIOUS
    <2> QED BY <1>1, <2>1
  <1>3. ASSUME NEW d \in Nat, d \in S PROVE d + 1 \in S
    <2> SUFFICES ASSUME NEW i \in 1 .. Len(es), i + (d + 1) + 1 <= Len(es)
                 PROVE  KeyLess(es[i], es[i + (d + 1) + 1])
      OBVIOUS
    <2> DEFINE j == i + d + 1
    <2>1. /\ j \in 1 .. Len(es) /\ j + 1 <= Len(es) /\ j + 1 \in 1 .. Len(es)
          /\ i + (d + 1) + 1 = j + 1
      BY <1>0
    <2>2. KeyLess(es[i], es[j])
      BY <1>0, <1>3, <2>1
    <2> HIDE DEF j
    <2>3. KeyLess(es[j], es[j + 1])
      BY <1>1, <2>1
    <2>4. KeyLess(es[i], es[j + 1])
      BY <1>0, <2>1, <2>2, <2>3, KeyOrder
    <2> QED BY <2>1, <2>4
  <1>4. Nat \subseteq S
    <2> HIDE DEF S
    <2> QED BY <1>2, <1>3, NumberInduction
  <1> SUFFICES ASSUME NEW i \in 1 .. Len(es), NEW j \in 1 .. Len(es), i < j
               PROVE  KeyLess(es[i], es[j])
    OBVIOUS
  <1>5. j - i - 1 \in Nat /\ i + (j - i - 1) + 1 = j /\ j <= Len(es)
    BY <1>0
  <1> QED BY <1>4, <1>5

\* Entries in order have different keys.
LEMMA AscendingDistinct ==
    ASSUME NEW X, NEW es \in Seq(Utf8String \X X), Ascending(es)
    PROVE  Distinct(es)
  <1> SUFFICES ASSUME NEW i \in 1 .. Len(es), NEW j \in 1 .. Len(es), es[i][1] = es[j][1], i # j
               PROVE  FALSE
    BY DEF Distinct
  <1>1. KeyLess(es[i], es[j]) \/ KeyLess(es[j], es[i])
    <2>1. i < j \/ j < i
      OBVIOUS
    <2> QED BY <2>1, AscendingOrder
  <1>2. es[i][1] \in Utf8String /\ es[j][1] \in Utf8String
    OBVIOUS
  <1>3. KeyLess(es[i], es[i])
    BY <1>1 DEF KeyLess
  <1> QED BY <1>2, <1>3, KeyOrder

\* Where an entry goes: after those with a smaller key.
Below(es, i) == {j \in 1 .. Len(es) : KeyLess(es[j], es[i])}
PlaceOf(es, i) == 1 + Cardinality(Below(es, i))

\* Places are between 1 and the number of entries, and in the order of keys.
LEMMA PlaceFacts ==
    ASSUME NEW X, NEW es \in Seq(Utf8String \X X)
    PROVE  /\ \A i \in 1 .. Len(es) : PlaceOf(es, i) \in 1 .. Len(es)
           /\ \A i, j \in 1 .. Len(es) : KeyLess(es[i], es[j]) => PlaceOf(es, i) < PlaceOf(es, j)
  <1> DEFINE N == Len(es)
  <1>0. N \in Nat /\ \A i \in 1 .. N : es[i][1] \in Utf8String
    OBVIOUS
  <1> HIDE DEF N
  <1>1. IsFiniteSet(1 .. N) /\ Cardinality(1 .. N) = N
    BY <1>0, FS_Interval
  <1>2. ASSUME NEW i \in 1 .. N
        PROVE  /\ IsFiniteSet(Below(es, i)) /\ Cardinality(Below(es, i)) \in Nat
               /\ i \notin Below(es, i)
    <2>1. Below(es, i) \in SUBSET (1 .. N)
      BY DEF Below, N
    <2>2. IsFiniteSet(Below(es, i))
      BY <1>1, <2>1, FS_Subset
    <2>3. Cardinality(Below(es, i)) \in Nat
      BY <2>2, FS_CardinalityType
    <2>4. i \notin Below(es, i)
      BY <1>0, KeyOrder DEF Below
    <2> QED BY <2>2, <2>3, <2>4
  <1>3. ASSUME NEW i \in 1 .. N PROVE PlaceOf(es, i) \in 1 .. N
    <2>1. Below(es, i) \in SUBSET ((1 .. N) \ {i})
      BY <1>2 DEF Below, N
    <2>2. IsFiniteSet((1 .. N) \ {i}) /\ Cardinality((1 .. N) \ {i}) = N - 1
      BY <1>1, FS_RemoveElement
    <2>3. Cardinality(Below(es, i)) <= N - 1
      BY <2>1, <2>2, FS_Subset
    <2> QED BY <1>0, <1>2, <2>3 DEF PlaceOf
  <1>4. ASSUME NEW i \in 1 .. N, NEW j \in 1 .. N, KeyLess(es[i], es[j])
        PROVE  PlaceOf(es, i) < PlaceOf(es, j)
    <2>1. Below(es, i) \in SUBSET Below(es, j)
      <3> SUFFICES ASSUME NEW k \in 1 .. N, KeyLess(es[k], es[i]) PROVE KeyLess(es[k], es[j])
        BY DEF Below, N
      <3> QED BY <1>0, <1>4, KeyOrder
    <2>2. i \in Below(es, j) /\ i \notin Below(es, i)
      BY <1>2, <1>4 DEF Below, N
    <2>3. Below(es, i) # Below(es, j)
      BY <2>2
    <2>4. /\ Cardinality(Below(es, i)) <= Cardinality(Below(es, j))
          /\ Cardinality(Below(es, i)) # Cardinality(Below(es, j))
      BY <1>2, <2>1, <2>3, FS_Subset
    <2> QED BY <1>2, <2>4 DEF PlaceOf
  <1> QED BY <1>3, <1>4 DEF N

\* Sorting puts every entry in one place, in the order of the keys.
LEMMA SortedFacts ==
    ASSUME NEW X, NEW es \in Seq(Utf8String \X X), Distinct(es)
    PROVE  \E at \in [1 .. Len(es) -> 1 .. Len(es)] :
             /\ Sorted(es) = [p \in 1 .. Len(es) |-> es[at[p]]]
             /\ \A i \in 1 .. Len(es) : \E p \in 1 .. Len(es) : at[p] = i
             /\ \A p, q \in 1 .. Len(es) : p < q => KeyLess(es[at[p]], es[at[q]])
  <1> DEFINE N == Len(es)
             P(i) == PlaceOf(es, i)
             at == [p \in 1 .. N |-> CHOOSE i \in 1 .. N : P(i) = p]
  <1>0. N \in Nat /\ \A i \in 1 .. N : es[i][1] \in Utf8String
    OBVIOUS
  <1>1. /\ \A i \in 1 .. N : P(i) \in 1 .. N
        /\ \A i, j \in 1 .. N : KeyLess(es[i], es[j]) => P(i) < P(j)
    BY PlaceFacts
  <1>2. Sorted(es) = [p \in 1 .. N |-> es[at[p]]]
    BY DEF Sorted, PlaceOf, Below
  <1>3. \A i, j \in 1 .. N : i # j => KeyLess(es[i], es[j]) \/ KeyLess(es[j], es[i])
    BY <1>0, KeyOrder DEF Distinct
  <1> HIDE DEF N, P
  <1>4. \A i, j \in 1 .. N : P(i) = P(j) => i = j
    BY <1>0, <1>1, <1>3
  <1>5. ASSUME NEW p \in 1 .. N PROVE \E i \in 1 .. N : P(i) = p
    <2> SUFFICES ASSUME \A i \in 1 .. N : P(i) # p PROVE FALSE
      OBVIOUS
    <2> DEFINE f == [i \in 1 .. N |-> P(i)]
               T == (1 .. N) \ {p}
    <2>1. IsFiniteSet(1 .. N) /\ Cardinality(1 .. N) = N
      BY <1>0, FS_Interval
    <2>2. IsFiniteSet(T) /\ Cardinality(T) = N - 1
      BY <2>1, FS_RemoveElement
    <2>3. f \in [1 .. N -> T]
      BY <1>1
    <2>4. Cardinality(T) < Cardinality(1 .. N)
      BY <1>0, <2>1, <2>2
    <2> HIDE DEF T, f
    <2>5. \E i, j \in 1 .. N : i # j /\ f[i] = f[j]
      BY <2>1, <2>2, <2>3, <2>4, FS_PigeonHole
    <2> QED BY <1>4, <2>5 DEF f
  <1>6. \A p \in 1 .. N : at[p] \in 1 .. N /\ P(at[p]) = p
    BY <1>5
  <1>7. at \in [1 .. N -> 1 .. N]
    BY <1>6
  <1> HIDE DEF at
  <1>8. \A i \in 1 .. N : \E p \in 1 .. N : at[p] = i
    BY <1>1, <1>4, <1>6
  <1>9. ASSUME NEW p \in 1 .. N, NEW q \in 1 .. N, p < q
        PROVE  KeyLess(es[at[p]], es[at[q]])
    <2>1. at[p] # at[q] /\ at[p] \in 1 .. N /\ at[q] \in 1 .. N
      BY <1>0, <1>6, <1>9
    <2>2. ~KeyLess(es[at[q]], es[at[p]])
      <3>1. ~(P(at[q]) < P(at[p]))
        BY <1>0, <1>6, <1>9
      <3> QED BY <1>1, <2>1, <3>1
    <2> QED BY <1>3, <2>1, <2>2
  <1> QED BY <1>2, <1>7, <1>8, <1>9 DEF N

\* Entries in order are sorted.
LEMMA SortedSame ==
    ASSUME NEW X, NEW es \in Seq(Utf8String \X X), Ascending(es)
    PROVE  Sorted(es) = es
  <1> DEFINE N == Len(es)
  <1>0. N \in Nat /\ \A i \in 1 .. N : es[i][1] \in Utf8String
    OBVIOUS
  <1>1. \A i, j \in 1 .. N : i < j => KeyLess(es[i], es[j])
    BY AscendingOrder
  <1> HIDE DEF N
  <1>2. ASSUME NEW i \in 1 .. N PROVE PlaceOf(es, i) = i
    <2>1. \A j \in 1 .. N : KeyLess(es[j], es[i]) <=> j < i
      <3> SUFFICES ASSUME NEW j \in 1 .. N PROVE KeyLess(es[j], es[i]) <=> j < i
        OBVIOUS
      <3>1. j < i => KeyLess(es[j], es[i])
        BY <1>1
      <3>2. j = i => ~KeyLess(es[j], es[i])
        BY <1>0, KeyOrder
      <3>3. i < j => ~KeyLess(es[j], es[i])
        BY <1>0, <1>1, KeyOrder
      <3>4. j < i \/ j = i \/ i < j
        BY <1>0
      <3> QED BY <1>0, <3>1, <3>2, <3>3, <3>4
    <2>2. Below(es, i) = 1 .. i - 1
      BY <1>0, <2>1 DEF Below, N
    <2>3. Cardinality(1 .. i - 1) = i - 1
      <3>1. i - 1 \in Int /\ 1 \in Int
        BY <1>0
      <3>2. Cardinality(1 .. i - 1) = IF 1 > i - 1 THEN 0 ELSE (i - 1) - 1 + 1
        BY <3>1, FS_Interval
      <3> QED BY <1>0, <3>2
    <2> QED BY <1>0, <2>2, <2>3 DEF PlaceOf
  <1>3. \A p \in 1 .. N : (CHOOSE i \in 1 .. N : PlaceOf(es, i) = p) = p
    BY <1>2
  <1>4. Sorted(es) = [p \in 1 .. N |-> es[CHOOSE i \in 1 .. N : PlaceOf(es, i) = p]]
    BY DEF Sorted, PlaceOf, Below, N
  <1>5. Sorted(es) = [p \in 1 .. N |-> es[p]]
    BY <1>3, <1>4
  <1> QED BY <1>5 DEF N

-----------------------------------------------------------------------------
(* Cbor: values. *)

\* The kinds of values.
LEMMA NestedCases ==
    ASSUME NEW sub, NEW v \in Nested(sub)
    PROVE  \/ \E n \in U64s : v = Uint(n)
           \/ \E b \in ByteString : v = Bytes(b)
           \/ \E b \in Utf8String : v = Text(b)
           \/ \E is \in Seq(sub) : Len(is) < Huge /\ v = Array(is)
           \/ \E es \in Seq(Utf8String \X sub) : Len(es) < Huge /\ Distinct(es) /\ v = Map(es)
  <1>1. CASE v \in [t : {"uint"}, n : U64s]
    <2>1. v = Uint(v.n) /\ v.n \in U64s
      BY <1>1 DEF Uint
    <2> QED BY <2>1
  <1>2. CASE v \in [t : {"bytes"}, b : ByteString]
    <2>1. v = Bytes(v.b) /\ v.b \in ByteString
      BY <1>2 DEF Bytes
    <2> QED BY <2>1
  <1>3. CASE v \in [t : {"text"}, b : Utf8String]
    <2>1. v = Text(v.b) /\ v.b \in Utf8String
      BY <1>3 DEF Text
    <2> QED BY <2>1
  <1>4. CASE v \in [t : {"array"}, items : {is \in Seq(sub) : Len(is) < Huge}]
    <2>1. v = Array(v.items) /\ v.items \in Seq(sub) /\ Len(v.items) < Huge
      BY <1>4 DEF Array
    <2> QED BY <2>1
  <1>5. CASE v \in [t : {"map"}, entries : {es \in Seq(Utf8String \X sub) :
                                               Len(es) < Huge /\ Distinct(es)}]
    <2>1. /\ v = Map(v.entries) /\ v.entries \in Seq(Utf8String \X sub)
          /\ Len(v.entries) < Huge /\ Distinct(v.entries)
      BY <1>5 DEF Map
    <2> QED BY <2>1
  <1> QED BY <1>1, <1>2, <1>3, <1>4, <1>5 DEF Nested

\* Every kind of value is a value.
LEMMA NestedKinds ==
    ASSUME NEW sub
    PROVE  /\ \A n \in U64s : Uint(n) \in Nested(sub)
           /\ \A b \in ByteString : Bytes(b) \in Nested(sub)
           /\ \A b \in Utf8String : Text(b) \in Nested(sub)
           /\ \A is \in Seq(sub) : Len(is) < Huge => Array(is) \in Nested(sub)
           /\ \A es \in Seq(Utf8String \X sub) :
                 Len(es) < Huge /\ Distinct(es) => Map(es) \in Nested(sub)
  <1>1. \A n \in U64s : Uint(n) \in Nested(sub)
    BY DEF Nested, Uint
  <1>2. \A b \in ByteString : Bytes(b) \in Nested(sub)
    BY DEF Nested, Bytes
  <1>3. \A b \in Utf8String : Text(b) \in Nested(sub)
    BY DEF Nested, Text
  <1>4. \A is \in Seq(sub) : Len(is) < Huge => Array(is) \in Nested(sub)
    BY DEF Nested, Array
  <1>5. \A es \in Seq(Utf8String \X sub) : Len(es) < Huge /\ Distinct(es) => Map(es) \in Nested(sub)
    BY DEF Nested, Map
  <1> QED BY <1>1, <1>2, <1>3, <1>4, <1>5

\* What is written for each kind, and what it means.
LEMMA WriterForms ==
    ASSUME NEW values, NEW write
    PROVE  LET W == ValueWriter(values, write) IN
           /\ \A n : Uint(n) \in values => W[Uint(n)] = encode_head(0, n)
           /\ \A b : Bytes(b) \in values => W[Bytes(b)] = encode_head(2, U64(Len(b))) \o b
           /\ \A b : Text(b) \in values => W[Text(b)] = encode_head(3, U64(Len(b))) \o b
           /\ \A is : Array(is) \in values =>
                W[Array(is)] = encode_head(4, U64(Len(is))) \o WriteAll(write, is)
           /\ \A es : Map(es) \in values =>
                W[Map(es)] = encode_head(5, U64(Len(es))) \o WriteAll(EntryWriter(write), Sorted(es))
  BY DEF ValueWriter, Uint, Bytes, Text, Array, Map, encode_key

\* What each kind of value means.
LEMMA NormalForms ==
    ASSUME NEW values, NEW sub
    PROVE  LET N == Normalizer(values, sub) IN
           /\ \A n : Uint(n) \in values => N[Uint(n)] = Uint(n)
           /\ \A b : Bytes(b) \in values => N[Bytes(b)] = Bytes(b)
           /\ \A b : Text(b) \in values => N[Text(b)] = Text(b)
           /\ \A is : Array(is) \in values =>
                N[Array(is)] = Array([i \in 1 .. Len(is) |-> sub[is[i]]])
           /\ \A es : Map(es) \in values =>
                N[Map(es)] = LET s == Sorted(es) IN
                             Map([i \in 1 .. Len(s) |-> <<s[i][1], sub[s[i][2]]>>])
  BY DEF Normalizer, Uint, Bytes, Text, Array, Map

\* A head with a length, and what it is the length of.
LEMMA HeadedBytes ==
    ASSUME NEW k \in 0 .. Huge - 1, NEW major \in 0 .. 7, NEW s \in Seq(Byte)
    PROVE  /\ encode_head(major, U64(k)) \o s \in Seq(Byte)
           /\ Len(encode_head(major, U64(k)) \o s) > 0
  <1> DEFINE h == encode_head(major, U64(k))
  <1>1. h \in Seq(Byte) /\ Len(h) > 0
    BY SizeBytes, HeadBytes
  <1> HIDE DEF h
  <1>2. h \o s \in Seq(Byte) /\ Len(h \o s) > 0
    BY <1>1
  <1> QED BY <1>2 DEF h

\* Where a head and a string stand, the head is read and the string stands
\* after it.
LEMMA HeadedStands ==
    ASSUME NEW data \in Seq(Byte), NEW p \in Nat, NEW k \in 0 .. Huge - 1, NEW major \in 0 .. 7,
           NEW s \in Seq(Byte), Stands(data, p, encode_head(major, U64(k)) \o s)
    PROVE  LET q == p + Len(encode_head(major, U64(k)))
           IN  /\ read_head(data, p) = HeadOf(major, U64(k), q) /\ Usize(U64(k)) = k
               /\ q \in Nat /\ Stands(data, q, s)
               /\ q + Len(s) = p + Len(encode_head(major, U64(k)) \o s)
               /\ p \in Cursors(data)
  <1> DEFINE h == encode_head(major, U64(k))
             q == p + Len(h)
  <1>1. U64(k) \in U64s /\ Usize(U64(k)) = k
    BY SizeBytes
  <1>2. h \in Seq(Byte)
    BY <1>1, HeadBytes
  <1>3. Stands(data, p, h \o s)
    OBVIOUS
  <1>4. Stands(data, p, h) => read_head(data, p) = HeadOf(major, U64(k), q)
    BY <1>1, HeadWritten
  <1> HIDE DEF h
  <1>5. Stands(data, p, h) /\ Stands(data, q, s)
    BY <1>2, <1>3, StandsConcat
  <1>6. q \in Nat /\ q + Len(s) = p + Len(h \o s)
    BY <1>2
  <1>7. p \in Cursors(data)
    BY <1>5 DEF Stands, Cursors
  <1> QED BY <1>1, <1>4, <1>5, <1>6, <1>7 DEF h

\* Where a head was read and a string stands after it, the two stand as they
\* are written.
LEMMA HeadedRead ==
    ASSUME NEW data \in Seq(Byte), NEW p \in Cursors(data), NEW h, h = read_head(data, p),
           h # CborError, Usize(h.arg) < Huge,
           NEW s \in Seq(Byte), Stands(data, h.pos, s)
    PROVE  LET hs == encode_head(h.major, U64(Usize(h.arg))) \o s
           IN  /\ Stands(data, p, hs) /\ h.pos + Len(s) = p + Len(hs) /\ Len(hs) > 0
               /\ Usize(h.arg) \in 0 .. Huge - 1
  <1> DEFINE e == encode_head(h.major, h.arg)
  <1>0. p \in 1 .. Len(data) + 1 /\ p \in Nat
    BY DEF Cursors
  <1>1. /\ h.major \in 0 .. 7 /\ h.arg \in U64s
        /\ Stands(data, p, e) /\ h.pos = p + Len(e)
    BY <1>0, HeadRead
  <1>2. Usize(h.arg) \in Nat /\ U64(Usize(h.arg)) = h.arg
    BY <1>1, BytesSize
  <1>3. e \in Seq(Byte) /\ Len(e) > 0
    BY <1>1, HeadBytes
  <1> HIDE DEF e
  <1>4. Stands(data, p, e \o s)
    BY <1>0, <1>1, <1>3, StandsConcat
  <1>5. p + Len(e) + Len(s) = p + Len(e \o s) /\ Len(e \o s) > 0
    BY <1>0, <1>3
  <1>6. Usize(h.arg) \in 0 .. Huge - 1
    BY <1>2, HugeNat
  <1> QED BY <1>1, <1>2, <1>4, <1>5, <1>6 DEF e

\* The position after a head.
LEMMA HeadNext ==
    ASSUME NEW data \in Seq(Byte), NEW p \in Cursors(data), NEW h, h = read_head(data, p),
           h # CborError
    PROVE  /\ h.pos \in Cursors(data) /\ h.major \in 0 .. 7 /\ h.arg \in U64s
           /\ Usize(h.arg) \in Nat
  <1>1. p \in 1 .. Len(data) + 1 /\ Len(data) \in Nat
    BY DEF Cursors
  <1>2. h.major \in 0 .. 7 /\ h.arg \in U64s /\ h.pos \in p + 1 .. Len(data) + 1
    BY <1>1, HeadRead
  <1>3. h.pos \in Cursors(data)
    BY <1>1, <1>2 DEF Cursors
  <1> QED BY <1>2, <1>3, BytesSize

\* What is cut out after a head that announces it.
LEMMA HeadedCut ==
    ASSUME NEW data \in ByteString, NEW p \in Cursors(data), NEW n \in Nat, Has(data, p, n)
    PROVE  LET s == SubSeq(data, p, p + n - 1)
           IN  /\ s \in ByteString /\ Len(s) = n /\ Stands(data, p, s) /\ n < Huge
               /\ p + n \in Cursors(data)
  <1> DEFINE s == SubSeq(data, p, p + n - 1)
  <1>1. data \in Seq(Byte) /\ Len(data) \in Nat /\ Len(data) < Huge
    BY DEF ByteString
  <1>2. p \in 1 .. Len(data) + 1 /\ p + n <= Len(data) + 1 /\ p + n \in 1 .. Len(data) + 1
    BY <1>1 DEF Cursors, Has
  <1>3. s \in Seq(Byte) /\ Len(s) = n /\ Stands(data, p, s)
    BY <1>1, <1>2, StandsCut
  <1>4. n < Huge
    BY <1>1, <1>2, HugeNat
  <1> HIDE DEF s
  <1>5. s \in ByteString
    BY <1>3, <1>4 DEF ByteString
  <1> QED BY <1>2, <1>3, <1>4, <1>5 DEF s, Cursors

-----------------------------------------------------------------------------
(* Cbor: entries of maps. *)

\* What is written for an entry.
LEMMA EntryBytes ==
    ASSUME NEW sub, NEW write, DOMAIN write = sub, \A x \in sub : write[x] \in Seq(Byte)
    PROVE  \A e \in Utf8String \X sub :
             /\ EntryWriter(write)[e] = encode_key(e[1]) \o write[e[2]]
             /\ EntryWriter(write)[e] \in Seq(Byte)
  <1> SUFFICES ASSUME NEW e \in Utf8String \X sub
               PROVE  /\ EntryWriter(write)[e] = encode_key(e[1]) \o write[e[2]]
                      /\ EntryWriter(write)[e] \in Seq(Byte)
    OBVIOUS
  <1>1. EntryWriter(write)[e] = encode_key(e[1]) \o write[e[2]]
    BY DEF EntryWriter
  <1> DEFINE k == encode_key(e[1])
             w == write[e[2]]
  <1>2. k \in Seq(Byte) /\ w \in Seq(Byte)
    BY KeyBytes
  <1> HIDE DEF k, w
  <1>3. k \o w \in Seq(Byte)
    BY <1>2
  <1> QED BY <1>1, <1>3 DEF k, w

\* An entry is read where it is written.
LEMMA EntryReads ==
    ASSUME NEW data \in ByteString, NEW read, NEW sub, NEW write,
           DOMAIN write = sub, \A x \in sub : write[x] \in Seq(Byte),
           Reads(data, read, sub, write)
    PROVE  Reads(data, EntryReader(data, read), Utf8String \X sub, EntryWriter(write))
  <1> DEFINE X == Utf8String \X sub
             W == EntryWriter(write)
             R == EntryReader(data, read)
  <1> SUFFICES ASSUME NEW p \in Cursors(data), R[p] # CborError
               PROVE  \E x \in X : /\ R[p] = Read(x, p + Len(W[x]))
                                   /\ Stands(data, p, W[x]) /\ Len(W[x]) > 0
    BY DEF Reads
  <1> DEFINE h == read_head(data, p)
             n == Usize(h.arg)
             key == SubSeq(data, h.pos, h.pos + n - 1)
             r == read[h.pos + n]
  <1>0. data \in Seq(Byte) /\ p \in Nat
    BY DEF ByteString, Cursors
  <1>1. /\ h # CborError /\ h.major = 3 /\ Has(data, h.pos, n) /\ Utf8(key)
        /\ r # CborError /\ R[p] = Read(<<key, r.v>>, r.pos)
    BY DEF EntryReader
  <1>2. h.pos \in Cursors(data) /\ n \in Nat
    BY <1>0, <1>1, HeadNext
  <1>3. /\ key \in ByteString /\ Len(key) = n /\ Stands(data, h.pos, key) /\ n < Huge
        /\ h.pos + n \in Cursors(data)
    BY <1>1, <1>2, HeadedCut
  <1>4. key \in Utf8String /\ key \in Seq(Byte)
    BY <1>1, <1>3 DEF Utf8String, ByteString
  <1> HIDE DEF R, W, key
  <1>5. /\ Stands(data, p, encode_head(3, U64(n)) \o key)
        /\ h.pos + Len(key) = p + Len(encode_head(3, U64(n)) \o key)
        /\ Len(encode_head(3, U64(n)) \o key) > 0
    <2> HIDE DEF h
    <2>1. Usize(h.arg) < Huge
      BY <1>3
    <2>2. h = read_head(data, p)
      BY DEF h
    <2>3. LET hs == encode_head(h.major, U64(Usize(h.arg))) \o key
          IN  Stands(data, p, hs) /\ h.pos + Len(key) = p + Len(hs) /\ Len(hs) > 0
      BY <1>0, <1>1, <1>3, <1>4, <2>1, <2>2, HeadedRead
    <2> QED BY <1>1, <2>3
  <1>6. encode_key(key) = encode_head(3, U64(n)) \o key
    BY <1>3 DEF encode_key
  <1> HIDE DEF h, n
  <1>7. PICK x \in sub : /\ r = Read(x, h.pos + n + Len(write[x]))
                         /\ Stands(data, h.pos + n, write[x]) /\ Len(write[x]) > 0
    BY <1>1, <1>3 DEF Reads
  <1> DEFINE k == encode_key(key)
             w == write[x]
             e == <<key, x>>
  <1>8. e \in X /\ W[e] = k \o w
    <2>1. \A f \in Utf8String \X sub : EntryWriter(write)[f] = encode_key(f[1]) \o write[f[2]]
      BY DEF EntryWriter
    <2>2. e \in X /\ e[1] = key /\ e[2] = x
      BY <1>4
    <2> QED BY <2>1, <2>2 DEF W
  <1>9. k \in Seq(Byte) /\ w \in Seq(Byte) /\ Len(k) > 0
    BY <1>4, KeyBytes
  <1>10. R[p] = Read(e, h.pos + n + Len(w))
    BY <1>1, <1>7, ReadFacts
  <1>11. Stands(data, p, k) /\ h.pos + n = p + Len(k) /\ Stands(data, p + Len(k), w)
    BY <1>3, <1>5, <1>6, <1>7
  <1> HIDE DEF k, w, e
  <1>12. Stands(data, p, k \o w) /\ p + Len(k) + Len(w) = p + Len(k \o w) /\ Len(k \o w) > 0
    BY <1>0, <1>9, <1>11, StandsConcat
  <1> QED BY <1>8, <1>10, <1>11, <1>12

\* What entries mean.
EntryMeans(sub, m) == [e \in Utf8String \X sub |-> <<e[1], m[e[2]]>>]

\* Where an entry is written, its key and what its value means are read.
LEMMA EntryRereads ==
    ASSUME NEW data \in Seq(Byte), NEW read, NEW sub, NEW write, NEW m,
           DOMAIN write = sub, \A x \in sub : write[x] \in Seq(Byte),
           Rereads(data, read, sub, write, m)
    PROVE  Rereads(data, EntryReader(data, read), Utf8String \X sub, EntryWriter(write),
                   EntryMeans(sub, m))
  <1> DEFINE X == Utf8String \X sub
             W == EntryWriter(write)
             R == EntryReader(data, read)
             M == EntryMeans(sub, m)
  <1> SUFFICES ASSUME NEW e \in X, NEW p \in Nat, Stands(data, p, W[e])
               PROVE  R[p] = Read(M[e], p + Len(W[e]))
    BY DEF Rereads
  <1> DEFINE key == e[1]
             x == e[2]
             k == encode_key(key)
             w == write[x]
             n == Len(key)
             q == p + Len(encode_head(3, U64(n)))
  <1>1. key \in Utf8String /\ x \in sub /\ M[e] = <<key, m[x]>>
    BY DEF EntryMeans
  <1>2. W[e] = k \o w /\ w \in Seq(Byte)
    <2>1. w \in Seq(Byte)
      BY <1>1
    <2>2. \A f \in Utf8String \X sub : EntryWriter(write)[f] = encode_key(f[1]) \o write[f[2]]
      BY DEF EntryWriter
    <2> QED BY <2>1, <2>2
  <1>3. k \in Seq(Byte) /\ key \in Seq(Byte) /\ n \in 0 .. Huge - 1 /\ n \in Nat
    BY <1>1, KeyBytes
  <1>4. Stands(data, p, k) /\ Stands(data, p + Len(k), w)
    <2> HIDE DEF k, w
    <2> QED BY <1>2, <1>3, StandsConcat
  <1>5. k = encode_head(3, U64(n)) \o key
    BY DEF encode_key
  <1>6. /\ read_head(data, p) = HeadOf(3, U64(n), q) /\ Usize(U64(n)) = n
        /\ q \in Nat /\ Stands(data, q, key) /\ q + n = p + Len(k)
        /\ p \in Cursors(data)
    <2>1. Stands(data, p, encode_head(3, U64(n)) \o key)
      BY <1>4, <1>5
    <2> QED BY <1>3, <1>5, <2>1, HeadedStands
  <1> DEFINE h == read_head(data, p)
  <1>7. h # CborError /\ h.major = 3 /\ h.arg = U64(n) /\ h.pos = q
    BY <1>6 DEF HeadOf, CborError
  <1>8. SubSeq(data, q, q + n - 1) = key
    BY <1>3, <1>6, CutStands
  <1>9. Has(data, q, n)
    <2>1. q + n <= Len(data) + 1 /\ Len(data) \in Nat
      BY <1>6 DEF Stands
    <2> HIDE DEF q, n
    <2> QED BY <1>3, <1>6, <2>1 DEF Has
  <1>10. Utf8(key)
    BY <1>1 DEF Utf8String
  <1>11. read[q + n] = Read(m[x], q + n + Len(w))
    <2>1. p + Len(k) \in Nat
      BY <1>3
    <2>2. read[p + Len(k)] = Read(m[x], p + Len(k) + Len(w))
      BY <1>1, <1>4, <2>1 DEF Rereads
    <2> QED BY <1>6, <2>2
  <1>12. /\ read[q + n] # CborError /\ read[q + n].v = m[x]
         /\ read[q + n].pos = q + n + Len(w)
    BY <1>11, ReadFacts
  <1>13. R[p] = Read(<<key, m[x]>>, q + n + Len(w))
    <2> HIDE DEF q, n, key, w, h
    <2>1. Usize(h.arg) = n
      BY <1>6, <1>7
    <2> QED BY <1>6, <1>7, <1>8, <1>9, <1>10, <1>12, <2>1 DEF EntryReader, h
  <1>14. q + n + Len(w) = p + Len(k \o w)
    <2>1. q + n = p + Len(k)
      BY <1>6
    <2> HIDE DEF k, w, q, n
    <2>2. Len(k \o w) = Len(k) + Len(w) /\ Len(k) \in Nat /\ Len(w) \in Nat
      BY <1>2, <1>3
    <2>3. p + Len(k) + Len(w) = p + (Len(k) + Len(w))
      BY <2>2
    <2> QED BY <2>1, <2>2, <2>3
  <1> QED BY <1>1, <1>2, <1>13, <1>14

-----------------------------------------------------------------------------
(* Cbor: one level of values. *)

\* Sorted entries are entries, as many, in ascending order.
LEMMA SortedSeq ==
    ASSUME NEW X, NEW es \in Seq(Utf8String \X X), Distinct(es)
    PROVE  /\ Sorted(es) \in Seq(Utf8String \X X) /\ Len(Sorted(es)) = Len(es)
           /\ Ascending(Sorted(es))
  <1> DEFINE N == Len(es)
  <1>1. PICK at \in [1 .. N -> 1 .. N] :
             /\ Sorted(es) = [p \in 1 .. N |-> es[at[p]]]
             /\ \A p, q \in 1 .. N : p < q => KeyLess(es[at[p]], es[at[q]])
    BY SortedFacts
  <1>2. N \in Nat /\ \A p \in 1 .. N : es[at[p]] \in Utf8String \X X
    OBVIOUS
  <1> DEFINE s == Sorted(es)
  <1> HIDE DEF N
  <1>3. s \in Seq(Utf8String \X X) /\ Len(s) = N /\ \A p \in 1 .. N : s[p] = es[at[p]]
    BY <1>1, <1>2
  <1>4. Ascending(s)
    <2> SUFFICES ASSUME NEW i \in 2 .. N PROVE KeyLess(s[i - 1], s[i])
      BY <1>3 DEF Ascending
    <2>1. i - 1 \in 1 .. N /\ i \in 1 .. N /\ i - 1 < i
      BY <1>2
    <2> QED BY <1>1, <1>3, <2>1
  <1> QED BY <1>3, <1>4 DEF N

\* Whatever is written is bytes.
LEMMA WriterBytes ==
    ASSUME NEW sub, NEW write, DOMAIN write = sub, \A x \in sub : write[x] \in Seq(Byte)
    PROVE  \A v \in Nested(sub) : /\ ValueWriter(Nested(sub), write)[v] \in Seq(Byte)
                                  /\ Len(ValueWriter(Nested(sub), write)[v]) > 0
  <1> DEFINE W == ValueWriter(Nested(sub), write)
             E == EntryWriter(write)
  <1> SUFFICES ASSUME NEW v \in Nested(sub) PROVE W[v] \in Seq(Byte) /\ Len(W[v]) > 0
    OBVIOUS
  <1>0. \A b \in ByteString : b \in Seq(Byte) /\ Len(b) \in 0 .. Huge - 1
    BY HugeNat DEF ByteString
  <1>1. ASSUME NEW n \in U64s, v = Uint(n) PROVE W[v] \in Seq(Byte) /\ Len(W[v]) > 0
    <2>1. W[v] = encode_head(0, n)
      BY <1>1, WriterForms
    <2> QED BY <2>1, HeadBytes
  <1>2. ASSUME NEW b \in ByteString, v = Bytes(b) PROVE W[v] \in Seq(Byte) /\ Len(W[v]) > 0
    <2>1. W[v] = encode_head(2, U64(Len(b))) \o b
      BY <1>2, WriterForms
    <2> HIDE DEF W
    <2> QED BY <1>0, <2>1, HeadedBytes
  <1>3. ASSUME NEW b \in Utf8String, v = Text(b) PROVE W[v] \in Seq(Byte) /\ Len(W[v]) > 0
    <2>1. W[v] = encode_head(3, U64(Len(b))) \o b /\ b \in ByteString
      BY <1>3, WriterForms DEF Utf8String
    <2> HIDE DEF W
    <2> QED BY <1>0, <2>1, HeadedBytes
  <1>4. ASSUME NEW is \in Seq(sub), Len(is) < Huge, v = Array(is)
        PROVE  W[v] \in Seq(Byte) /\ Len(W[v]) > 0
    <2>1. W[v] = encode_head(4, U64(Len(is))) \o WriteAll(write, is)
      BY <1>4, WriterForms
    <2>2. WriteAll(write, is) \in Seq(Byte)
      BY WriteBytes
    <2>3. Len(is) \in 0 .. Huge - 1
      BY <1>4, HugeNat
    <2> HIDE DEF W
    <2> QED BY <2>1, <2>2, <2>3, HeadedBytes
  <1>5. ASSUME NEW es \in Seq(Utf8String \X sub), Len(es) < Huge, Distinct(es), v = Map(es)
        PROVE  W[v] \in Seq(Byte) /\ Len(W[v]) > 0
    <2>1. W[v] = encode_head(5, U64(Len(es))) \o WriteAll(E, Sorted(es))
      BY <1>5, WriterForms
    <2>2. WriteAll(E, Sorted(es)) \in Seq(Byte)
      <3>1. Sorted(es) \in Seq(Utf8String \X sub)
        BY <1>5, SortedSeq
      <3>2. \A e \in Utf8String \X sub : E[e] \in Seq(Byte)
        BY EntryBytes
      <3> HIDE DEF E
      <3> QED BY <3>1, <3>2, WriteBytes
    <2>3. Len(es) \in 0 .. Huge - 1
      BY <1>5, HugeNat
    <2> HIDE DEF W, E
    <2> QED BY <2>1, <2>2, <2>3, HeadedBytes
  <1> HIDE DEF W, E
  <1> QED BY <1>1, <1>2, <1>3, <1>4, <1>5, NestedCases

\* If what is read a level down is what is written there, so it is here.
LEMMA ReaderReads ==
    ASSUME NEW data \in ByteString, NEW read, NEW sub, NEW write,
           DOMAIN read = Cursors(data), DOMAIN write = sub,
           \A x \in sub : write[x] \in Seq(Byte),
           Reads(data, read, sub, write)
    PROVE  Reads(data, ValueReader(data, read), Nested(sub), ValueWriter(Nested(sub), write))
  <1> DEFINE X == Nested(sub)
             W == ValueWriter(X, write)
             E == EntryWriter(write)
             R == ValueReader(data, read)
             ER == EntryReader(data, read)
  <1> SUFFICES ASSUME NEW p \in Cursors(data), R[p] # CborError
               PROVE  \E v \in X : /\ R[p] = Read(v, p + Len(W[v]))
                                   /\ Stands(data, p, W[v]) /\ Len(W[v]) > 0
    BY DEF Reads
  <1> DEFINE h == read_head(data, p)
             n == Usize(h.arg)
             str == SubSeq(data, h.pos, h.pos + n - 1)
             items == Times(read)[n][h.pos]
             entries == Times(ER)[n][h.pos]
  <1>0. data \in Seq(Byte) /\ p \in Nat /\ p \in 1 .. Len(data) + 1 /\ Len(data) \in Nat
    BY DEF ByteString, Cursors
  <1>1. /\ h # CborError
        /\ \/ h.major = 0 /\ R[p] = Read(Uint(h.arg), h.pos)
           \/ h.major = 2 /\ Has(data, h.pos, n) /\ R[p] = Read(Bytes(str), h.pos + n)
           \/ /\ h.major = 3 /\ Has(data, h.pos, n) /\ Utf8(str)
              /\ R[p] = Read(Text(str), h.pos + n)
           \/ h.major = 4 /\ items # CborError /\ R[p] = Read(Array(items.v), items.pos)
           \/ /\ h.major = 5 /\ entries # CborError /\ Ascending(entries.v)
              /\ R[p] = Read(Map(entries.v), entries.pos)
    <2> HIDE DEF h, n, str, items, entries
    <2>1. R[p] = IF h = CborError THEN CborError
                 ELSE IF h.major = 0 THEN Read(Uint(h.arg), h.pos)
                 ELSE IF h.major = 2 /\ Has(data, h.pos, n) THEN Read(Bytes(str), h.pos + n)
                 ELSE IF h.major = 3 /\ Has(data, h.pos, n) /\ Utf8(str)
                      THEN Read(Text(str), h.pos + n)
                 ELSE IF h.major = 4 /\ items # CborError THEN Read(Array(items.v), items.pos)
                 ELSE IF h.major = 5 /\ entries # CborError /\ Ascending(entries.v)
                      THEN Read(Map(entries.v), entries.pos)
                 ELSE CborError
      BY DEF ValueReader, h, n, str, items, entries
    <2> HIDE DEF R
    <2> QED BY <2>1
  <1>2. h.pos \in Cursors(data) /\ n \in Nat /\ h.arg \in U64s
    BY <1>0, <1>1, HeadNext
  <1> HIDE DEF R
  <1>3. ASSUME h.major = 0, R[p] = Read(Uint(h.arg), h.pos)
        PROVE  \E v \in X : /\ R[p] = Read(v, p + Len(W[v]))
                            /\ Stands(data, p, W[v]) /\ Len(W[v]) > 0
    <2>1. Uint(h.arg) \in X /\ W[Uint(h.arg)] = encode_head(0, h.arg)
      <3> HIDE DEF h
      <3>1. Uint(h.arg) \in X
        BY <1>2, NestedKinds
      <3> QED BY <3>1, WriterForms
    <2>2. /\ Stands(data, p, encode_head(0, h.arg))
          /\ h.pos = p + Len(encode_head(0, h.arg)) /\ Len(encode_head(0, h.arg)) > 0
      <3> HIDE DEF h
      <3>1. h = read_head(data, p)
        BY DEF h
      <3> QED BY <1>0, <1>1, <1>2, <1>3, <3>1, HeadRead, HeadBytes
    <2> HIDE DEF X, W, h
    <2> QED BY <1>3, <2>1, <2>2
  <1>4. ASSUME NEW major \in 0 .. 7, h.major = major, n < Huge,
               NEW s \in Seq(Byte), Stands(data, h.pos, s),
               NEW v \in X, W[v] = encode_head(major, U64(n)) \o s,
               R[p] = Read(v, h.pos + Len(s))
        PROVE  \E u \in X : /\ R[p] = Read(u, p + Len(W[u]))
                            /\ Stands(data, p, W[u]) /\ Len(W[u]) > 0
    <2> HIDE DEF h
    <2>1. h = read_head(data, p) /\ n = Usize(h.arg)
      BY DEF h
    <2>2. LET hs == encode_head(h.major, U64(Usize(h.arg))) \o s
          IN  Stands(data, p, hs) /\ h.pos + Len(s) = p + Len(hs) /\ Len(hs) > 0
      BY <1>0, <1>1, <1>4, <2>1, HeadedRead
    <2> HIDE DEF n, X, W
    <2>3. Stands(data, p, W[v]) /\ h.pos + Len(s) = p + Len(W[v]) /\ Len(W[v]) > 0
      BY <1>4, <2>1, <2>2
    <2> QED BY <1>4, <2>3
  <1>5. ASSUME Has(data, h.pos, n)
        PROVE  /\ str \in ByteString /\ str \in Seq(Byte) /\ Len(str) = n
               /\ Stands(data, h.pos, str) /\ n < Huge
    <2> HIDE DEF h, n
    <2>1. /\ str \in ByteString /\ Len(str) = n /\ Stands(data, h.pos, str) /\ n < Huge
      BY <1>2, <1>5, HeadedCut
    <2> HIDE DEF str
    <2> QED BY <2>1 DEF ByteString
  <1>6. ASSUME h.major = 2, Has(data, h.pos, n), R[p] = Read(Bytes(str), h.pos + n)
        PROVE  \E v \in X : /\ R[p] = Read(v, p + Len(W[v]))
                            /\ Stands(data, p, W[v]) /\ Len(W[v]) > 0
    <2>1. /\ str \in ByteString /\ str \in Seq(Byte) /\ Len(str) = n
          /\ Stands(data, h.pos, str) /\ n < Huge
      BY <1>5, <1>6
    <2> HIDE DEF h, n, str
    <2>2. Bytes(str) \in X /\ W[Bytes(str)] = encode_head(2, U64(n)) \o str
      <3>1. Bytes(str) \in X
        BY <2>1, NestedKinds
      <3>2. W[Bytes(str)] = encode_head(2, U64(Len(str))) \o str
        BY <3>1, WriterForms
      <3> HIDE DEF W, X
      <3> QED BY <2>1, <3>1, <3>2
    <2> HIDE DEF W, X
    <2>3. R[p] = Read(Bytes(str), h.pos + Len(str)) /\ 2 \in 0 .. 7
      BY <1>6, <2>1
    <2> QED BY <1>4, <1>6, <2>1, <2>2, <2>3
  <1>7. ASSUME h.major = 3, Has(data, h.pos, n), Utf8(str), R[p] = Read(Text(str), h.pos + n)
        PROVE  \E v \in X : /\ R[p] = Read(v, p + Len(W[v]))
                            /\ Stands(data, p, W[v]) /\ Len(W[v]) > 0
    <2>1. /\ str \in ByteString /\ str \in Seq(Byte) /\ Len(str) = n
          /\ Stands(data, h.pos, str) /\ n < Huge
      BY <1>5, <1>7
    <2> HIDE DEF h, n, str
    <2>2. Text(str) \in X /\ W[Text(str)] = encode_head(3, U64(n)) \o str
      <3>1. str \in Utf8String
        BY <1>7, <2>1 DEF Utf8String
      <3>2. Text(str) \in X
        BY <3>1, NestedKinds
      <3>3. W[Text(str)] = encode_head(3, U64(Len(str))) \o str
        BY <3>2, WriterForms
      <3> HIDE DEF W, X
      <3> QED BY <2>1, <3>2, <3>3
    <2> HIDE DEF W, X
    <2>3. R[p] = Read(Text(str), h.pos + Len(str)) /\ 3 \in 0 .. 7
      BY <1>7, <2>1
    <2> QED BY <1>4, <1>7, <2>1, <2>2, <2>3
  <1>8. ASSUME NEW w, NEW s, w = WriteAll(write, s) \/ w = WriteAll(E, s), w \in Seq(Byte),
               Stands(data, h.pos, w), Len(w) >= n
        PROVE  n < Huge
    <2>1. h.pos \in 1 .. Len(data) + 1 /\ h.pos + Len(w) <= Len(data) + 1 /\ Len(data) < Huge
      BY <1>8 DEF Stands, ByteString
    <2> HIDE DEF h, n
    <2>2. Len(w) \in Nat
      BY <1>8
    <2> QED BY <1>0, <1>2, <1>8, <2>1, <2>2, HugeNat
  <1>9. n \in 0 .. Huge
    <2>1. Usize(h.arg) <= Huge
      <3> HIDE DEF h
      <3> DEFINE a == h.arg
      <3>1. a \in U64s
        BY <1>2
      <3> HIDE DEF a
      <3> QED BY <3>1, UsizeBound DEF a
    <2> QED BY <1>2, <2>1, HugeNat
  <1>10. ASSUME h.major = 4, items # CborError, R[p] = Read(Array(items.v), items.pos)
         PROVE  \E v \in X : /\ R[p] = Read(v, p + Len(W[v]))
                             /\ Stands(data, p, W[v]) /\ Len(W[v]) > 0
    <2>1. PICK s \in Seq(sub) : /\ items = Read(s, h.pos + Len(WriteAll(write, s)))
                                /\ Stands(data, h.pos, WriteAll(write, s))
                                /\ Len(s) = n /\ Len(WriteAll(write, s)) >= n
      <3> HIDE DEF h, n
      <3>1. LoopsRead(data, read, sub, write)
        BY <1>0, LoopReads
      <3> QED BY <1>2, <1>9, <1>10, <3>1 DEF LoopsRead
    <2>2. WriteAll(write, s) \in Seq(Byte)
      BY WriteBytes
    <2>3. n < Huge
      BY <1>8, <2>1, <2>2
    <2> HIDE DEF h, n, items
    <2>4. Array(s) \in X /\ W[Array(s)] = encode_head(4, U64(n)) \o WriteAll(write, s)
      <3>1. Array(s) \in X
        BY <2>1, <2>3, NestedKinds
      <3>2. W[Array(s)] = encode_head(4, U64(Len(s))) \o WriteAll(write, s)
        BY <3>1, WriterForms
      <3> HIDE DEF W, X
      <3> QED BY <2>1, <3>1, <3>2
    <2> HIDE DEF W, X
    <2>5. R[p] = Read(Array(s), h.pos + Len(WriteAll(write, s))) /\ 4 \in 0 .. 7
      BY <1>10, <2>1, ReadFacts
    <2> QED BY <1>4, <1>10, <2>1, <2>2, <2>3, <2>4, <2>5
  <1>11. ASSUME h.major = 5, entries # CborError, Ascending(entries.v),
                R[p] = Read(Map(entries.v), entries.pos)
         PROVE  \E v \in X : /\ R[p] = Read(v, p + Len(W[v]))
                             /\ Stands(data, p, W[v]) /\ Len(W[v]) > 0
    <2>0. \A e \in Utf8String \X sub : E[e] \in Seq(Byte)
      BY EntryBytes
    <2>1. PICK s \in Seq(Utf8String \X sub) :
                  /\ entries = Read(s, h.pos + Len(WriteAll(E, s)))
                  /\ Stands(data, h.pos, WriteAll(E, s))
                  /\ Len(s) = n /\ Len(WriteAll(E, s)) >= n
      <3>1. Reads(data, ER, Utf8String \X sub, E)
        BY EntryReads
      <3>2. DOMAIN ER = Cursors(data)
        BY DEF EntryReader
      <3> HIDE DEF h, n, ER, E
      <3> DEFINE U == Utf8String \X sub
      <3> HIDE DEF U
      <3>3. LoopsRead(data, ER, U, E)
        <4>1. Reads(data, ER, U, E) /\ \A e \in U : E[e] \in Seq(Byte)
          BY <2>0, <3>1 DEF U
        <4> QED BY <1>0, <3>2, <4>1, LoopReads
      <3> QED BY <1>2, <1>9, <1>11, <3>3 DEF U, LoopsRead
    <2>2. WriteAll(E, s) \in Seq(Byte)
      <3> HIDE DEF E
      <3> QED BY <2>0, WriteBytes
    <2>3. n < Huge
      BY <1>8, <2>1, <2>2
    <2>4. Ascending(s) /\ Sorted(s) = s /\ Distinct(s)
      <3> HIDE DEF entries, E
      <3>1. entries.v = s
        BY <2>1, ReadFacts
      <3> QED BY <1>11, <3>1, SortedSame, AscendingDistinct
    <2> HIDE DEF h, n, entries
    <2>5. Map(s) \in X /\ W[Map(s)] = encode_head(5, U64(n)) \o WriteAll(E, s)
      <3>1. Map(s) \in X
        BY <2>1, <2>3, <2>4, NestedKinds
      <3>2. W[Map(s)] = encode_head(5, U64(Len(s))) \o WriteAll(E, Sorted(s))
        BY <3>1, WriterForms
      <3> HIDE DEF W, X, E
      <3> QED BY <2>1, <2>4, <3>1, <3>2
    <2> HIDE DEF W, X, E
    <2>6. R[p] = Read(Map(s), h.pos + Len(WriteAll(E, s))) /\ 5 \in 0 .. 7
      BY <1>11, <2>1, ReadFacts
    <2> QED BY <1>4, <1>11, <2>1, <2>2, <2>3, <2>5, <2>6
  <1> HIDE DEF X, W, h, n, str, items, entries
  <1> QED BY <1>1, <1>3, <1>6, <1>7, <1>10, <1>11

\* A head that was read.
LEMMA HeadFacts ==
    ASSUME NEW major, NEW n, NEW next
    PROVE  /\ HeadOf(major, n, next) # CborError /\ HeadOf(major, n, next).major = major
           /\ HeadOf(major, n, next).arg = n /\ HeadOf(major, n, next).pos = next
  BY DEF HeadOf, CborError

\* What is read after a head.
LEMMA ReaderForms ==
    ASSUME NEW data, NEW read, NEW p \in Cursors(data), NEW h, h = read_head(data, p),
           h # CborError
    PROVE  LET R == ValueReader(data, read)
               n == Usize(h.arg)
               str == SubSeq(data, h.pos, h.pos + n - 1)
               items == Times(read)[n][h.pos]
               entries == Times(EntryReader(data, read))[n][h.pos]
           IN  /\ h.major = 0 => R[p] = Read(Uint(h.arg), h.pos)
               /\ h.major = 2 /\ Has(data, h.pos, n) => R[p] = Read(Bytes(str), h.pos + n)
               /\ h.major = 3 /\ Has(data, h.pos, n) /\ Utf8(str) => R[p] = Read(Text(str), h.pos + n)
               /\ h.major = 4 /\ items # CborError => R[p] = Read(Array(items.v), items.pos)
               /\ h.major = 5 /\ entries # CborError /\ Ascending(entries.v)
                     => R[p] = Read(Map(entries.v), entries.pos)
  <1> DEFINE R == ValueReader(data, read)
             n == Usize(h.arg)
             str == SubSeq(data, h.pos, h.pos + n - 1)
             items == Times(read)[n][h.pos]
             entries == Times(EntryReader(data, read))[n][h.pos]
  <1> HIDE DEF n, str, items, entries
  <1>1. R[p] = IF h = CborError THEN CborError
               ELSE IF h.major = 0 THEN Read(Uint(h.arg), h.pos)
               ELSE IF h.major = 2 /\ Has(data, h.pos, n) THEN Read(Bytes(str), h.pos + n)
               ELSE IF h.major = 3 /\ Has(data, h.pos, n) /\ Utf8(str) THEN Read(Text(str), h.pos + n)
               ELSE IF h.major = 4 /\ items # CborError THEN Read(Array(items.v), items.pos)
               ELSE IF h.major = 5 /\ entries # CborError /\ Ascending(entries.v)
                    THEN Read(Map(entries.v), entries.pos)
               ELSE CborError
    BY DEF ValueReader, n, str, items, entries
  <1> HIDE DEF R
  <1>2. /\ h.major = 0 => R[p] = Read(Uint(h.arg), h.pos)
        /\ h.major = 2 /\ Has(data, h.pos, n) => R[p] = Read(Bytes(str), h.pos + n)
        /\ h.major = 3 /\ Has(data, h.pos, n) /\ Utf8(str) => R[p] = Read(Text(str), h.pos + n)
        /\ h.major = 4 /\ items # CborError => R[p] = Read(Array(items.v), items.pos)
        /\ h.major = 5 /\ entries # CborError /\ Ascending(entries.v)
              => R[p] = Read(Map(entries.v), entries.pos)
    BY <1>1
  <1> QED BY <1>2 DEF R, n, str, items, entries

\* If what values mean is read a level down where they are written, so it is
\* here.
LEMMA ReaderRereads ==
    ASSUME NEW data \in Seq(Byte), NEW read, NEW sub, NEW write, NEW m,
           DOMAIN read = Cursors(data), DOMAIN write = sub,
           \A x \in sub : write[x] \in Seq(Byte),
           Rereads(data, read, sub, write, m)
    PROVE  Rereads(data, ValueReader(data, read), Nested(sub), ValueWriter(Nested(sub), write),
                   Normalizer(Nested(sub), m))
  <1> DEFINE X == Nested(sub)
             W == ValueWriter(X, write)
             E == EntryWriter(write)
             M == Normalizer(X, m)
             R == ValueReader(data, read)
             ER == EntryReader(data, read)
             U == Utf8String \X sub
             ME == EntryMeans(sub, m)
  <1>14. LoopsReread(data, read, sub, write, m)
    BY LoopRereads
  <1>8. \A n \in 0 .. Huge, s \in Seq(sub), r \in Nat :
           Len(s) = n /\ Stands(data, r, WriteAll(write, s)) =>
             Times(read)[n][r] = Read([i \in 1 .. n |-> m[s[i]]], r + Len(WriteAll(write, s)))
    BY <1>14, Zenon DEF LoopsReread
  <1>9. Rereads(data, ER, U, E, ME) /\ \A e \in U : E[e] \in Seq(Byte)
    <2>1. \A e \in U : E[e] \in Seq(Byte)
      BY EntryBytes
    <2>2. Rereads(data, ER, U, E, ME)
      BY EntryRereads
    <2> QED BY <2>1, <2>2
  <1>10. DOMAIN ER = Cursors(data)
    BY DEF EntryReader
  <1> SUFFICES ASSUME NEW v \in X, NEW p \in Nat, Stands(data, p, W[v])
               PROVE  R[p] = Read(M[v], p + Len(W[v]))
    BY DEF Rereads
  <1> DEFINE h == read_head(data, p)
  <1>0. \A b \in ByteString : b \in Seq(Byte) /\ Len(b) \in 0 .. Huge - 1
    BY HugeNat DEF ByteString
  <1>1. ASSUME NEW n \in U64s, v = Uint(n) PROVE R[p] = Read(M[v], p + Len(W[v]))
    <2>1. W[v] = encode_head(0, n) /\ M[v] = Uint(n)
      <3>1. W[v] = encode_head(0, n)
        BY <1>1, WriterForms
      <3>2. M[v] = Uint(n)
        BY <1>1, NormalForms
      <3> QED BY <3>1, <3>2
    <2>2. h = HeadOf(0, n, p + Len(W[v]))
      <3>1. Stands(data, p, encode_head(0, n)) /\ 0 \in 0 .. 7
        BY <2>1
      <3>2. read_head(data, p) = HeadOf(0, n, p + Len(encode_head(0, n)))
        BY <3>1, HeadWritten
      <3> HIDE DEF W
      <3> QED BY <2>1, <3>2
    <2>3. p \in Cursors(data)
      BY DEF Stands, Cursors
    <2> HIDE DEF W, M
    <2>4. h # CborError /\ h.major = 0 /\ h.arg = n /\ h.pos = p + Len(W[v])
      BY <2>2, HeadFacts
    <2>5. R[p] = Read(Uint(n), p + Len(W[v]))
      BY <2>3, <2>4 DEF ValueReader
    <2> QED BY <2>1, <2>5
  <1>2. ASSUME NEW major \in 0 .. 7, NEW k \in 0 .. Huge - 1, NEW s \in Seq(Byte),
               W[v] = encode_head(major, U64(k)) \o s
        PROVE  \E q \in Nat : /\ h # CborError /\ h.major = major /\ Usize(h.arg) = k /\ h.pos = q
                              /\ Stands(data, q, s) /\ q + Len(s) = p + Len(W[v])
                              /\ p \in Cursors(data)
    <2> DEFINE q == p + Len(encode_head(major, U64(k)))
    <2>1. Stands(data, p, encode_head(major, U64(k)) \o s)
      BY <1>2
    <2>2. /\ read_head(data, p) = HeadOf(major, U64(k), q) /\ Usize(U64(k)) = k
          /\ q \in Nat /\ Stands(data, q, s)
          /\ q + Len(s) = p + Len(encode_head(major, U64(k)) \o s)
          /\ p \in Cursors(data)
      BY <2>1, HeadedStands
    <2>3. h # CborError /\ h.major = major /\ h.arg = U64(k) /\ h.pos = q
      BY <2>2, HeadFacts
    <2> HIDE DEF W, h, q
    <2> QED BY <1>2, <2>2, <2>3
  <1>3. ASSUME NEW q \in Nat, NEW s \in Seq(Byte), Stands(data, q, s)
        PROVE  Has(data, q, Len(s)) /\ SubSeq(data, q, q + Len(s) - 1) = s
    <2>1. q + Len(s) <= Len(data) + 1 /\ Len(data) \in Nat /\ Len(s) \in Nat
      BY <1>3 DEF Stands
    <2>2. SubSeq(data, q, q + Len(s) - 1) = s
      BY <1>3, CutStands
    <2> DEFINE l == Len(s)
               ld == Len(data)
    <2> HIDE DEF l, ld
    <2>3. q + l - 1 <= ld
      BY <2>1 DEF l, ld
    <2> QED BY <2>2, <2>3 DEF Has, l, ld
  <1>11. ASSUME p \in Cursors(data), h # CborError
         PROVE  LET n == Usize(h.arg)
                    str == SubSeq(data, h.pos, h.pos + n - 1)
                IN  /\ h.major = 2 /\ Has(data, h.pos, n) => R[p] = Read(Bytes(str), h.pos + n)
                    /\ h.major = 3 /\ Has(data, h.pos, n) /\ Utf8(str)
                         => R[p] = Read(Text(str), h.pos + n)
    <2> HIDE DEF h
    <2>1. h = read_head(data, p)
      BY DEF h
    <2> HIDE DEF W
    <2> QED BY <1>11, <2>1, ReaderForms
  <1>4. ASSUME NEW b \in ByteString, v = Bytes(b) PROVE R[p] = Read(M[v], p + Len(W[v]))
    <2>1. W[v] = encode_head(2, U64(Len(b))) \o b /\ M[v] = Bytes(b)
      <3>1. W[v] = encode_head(2, U64(Len(b))) \o b
        BY <1>4, WriterForms
      <3>2. M[v] = Bytes(b)
        BY <1>4, NormalForms
      <3> QED BY <3>1, <3>2
    <2> HIDE DEF W, M, h
    <2>2. PICK q \in Nat : /\ h # CborError /\ h.major = 2 /\ Usize(h.arg) = Len(b) /\ h.pos = q
                           /\ Stands(data, q, b) /\ q + Len(b) = p + Len(W[v])
                           /\ p \in Cursors(data)
      <3>1. b \in Seq(Byte) /\ Len(b) \in 0 .. Huge - 1 /\ 2 \in 0 .. 7
        BY <1>0
      <3> QED BY <1>2, <2>1, <3>1
    <2>3. Has(data, q, Len(b)) /\ SubSeq(data, q, q + Len(b) - 1) = b
      BY <1>0, <1>3, <2>2
    <2>4. R[p] = Read(Bytes(b), q + Len(b))
      <3> HIDE DEF R
      <3> QED BY <1>11, <2>2, <2>3
    <2> QED BY <2>1, <2>2, <2>4
  <1>5. ASSUME NEW b \in Utf8String, v = Text(b) PROVE R[p] = Read(M[v], p + Len(W[v]))
    <2>1. W[v] = encode_head(3, U64(Len(b))) \o b /\ M[v] = Text(b)
      <3>1. W[v] = encode_head(3, U64(Len(b))) \o b
        BY <1>5, WriterForms
      <3>2. M[v] = Text(b)
        BY <1>5, NormalForms
      <3> QED BY <3>1, <3>2
    <2> HIDE DEF W, M, h
    <2>0. b \in Seq(Byte) /\ Len(b) \in 0 .. Huge - 1 /\ 3 \in 0 .. 7 /\ Utf8(b)
      BY <1>0 DEF Utf8String
    <2>2. PICK q \in Nat : /\ h # CborError /\ h.major = 3 /\ Usize(h.arg) = Len(b) /\ h.pos = q
                           /\ Stands(data, q, b) /\ q + Len(b) = p + Len(W[v])
                           /\ p \in Cursors(data)
      BY <1>2, <2>1, <2>0
    <2>3. Has(data, q, Len(b)) /\ SubSeq(data, q, q + Len(b) - 1) = b
      BY <1>3, <2>0, <2>2
    <2>4. R[p] = Read(Text(b), q + Len(b))
      <3> HIDE DEF R
      <3> QED BY <1>11, <2>0, <2>2, <2>3
    <2> QED BY <2>1, <2>2, <2>4
  <1>6. ASSUME NEW is \in Seq(sub), Len(is) < Huge, v = Array(is)
        PROVE  R[p] = Read(M[v], p + Len(W[v]))
    <2> DEFINE wa == WriteAll(write, is)
               ms == [i \in 1 .. Len(is) |-> m[is[i]]]
               k == Len(is)
    <2>1. W[v] = encode_head(4, U64(k)) \o wa /\ M[v] = Array(ms)
      <3>1. W[v] = encode_head(4, U64(k)) \o wa
        BY <1>6, WriterForms
      <3>2. M[v] = Array(ms)
        BY <1>6, NormalForms
      <3> QED BY <3>1, <3>2
    <2>0. wa \in Seq(Byte) /\ k \in 0 .. Huge - 1 /\ k \in 0 .. Huge /\ 4 \in 0 .. 7
      BY <1>6, HugeNat, WriteBytes
    <2> HIDE DEF W, M, h, wa
    <2>2. PICK q \in Nat : /\ h # CborError /\ h.major = 4 /\ Usize(h.arg) = k /\ h.pos = q
                           /\ Stands(data, q, wa) /\ q + Len(wa) = p + Len(W[v])
                           /\ p \in Cursors(data)
      BY <1>2, <2>1, <2>0
    <2>4. Times(read)[k][q] = Read(ms, q + Len(wa))
      BY <1>8, <2>0, <2>2 DEF wa
    <2> HIDE DEF ms, k
    <2> DEFINE items == Times(read)[k][q]
    <2>5. items # CborError /\ items.v = ms /\ items.pos = q + Len(wa)
      BY <2>4, ReadFacts
    <2>6. R[p] = Read(Array(items.v), items.pos)
      <3>1. h = read_head(data, p) /\ h # CborError /\ p \in Cursors(data)
        BY <2>2 DEF h
      <3>2. h.major = 4 /\ Times(read)[Usize(h.arg)][h.pos] # CborError
        BY <2>2, <2>5
      <3>3. R[p] = Read(Array(Times(read)[Usize(h.arg)][h.pos].v),
                        Times(read)[Usize(h.arg)][h.pos].pos)
        BY <3>1, <3>2, ReaderForms
      <3> QED BY <2>2, <3>3
    <2> HIDE DEF R, items
    <2> QED BY <2>1, <2>2, <2>5, <2>6
  <1>7. ASSUME NEW es \in Seq(Utf8String \X sub), Len(es) < Huge, Distinct(es), v = Map(es)
        PROVE  R[p] = Read(M[v], p + Len(W[v]))
    <2> DEFINE so == Sorted(es)
               k == Len(es)
               wa == WriteAll(E, so)
               ms == [i \in 1 .. Len(so) |-> <<so[i][1], m[so[i][2]]>>]
    <2>1. W[v] = encode_head(5, U64(k)) \o wa /\ M[v] = Map(ms)
      <3>1. W[v] = encode_head(5, U64(k)) \o wa
        BY <1>7, WriterForms
      <3>2. M[v] = Map(ms)
        BY <1>7, NormalForms
      <3> QED BY <3>1, <3>2
    <2>2. so \in Seq(U) /\ Len(so) = k /\ Ascending(so)
      BY <1>7, SortedSeq
    <2>6. k \in 0 .. Huge - 1 /\ k \in 0 .. Huge /\ 5 \in 0 .. 7 /\ k \in Nat
      BY <1>7, HugeNat
    <2>7. \A i \in 1 .. k : so[i] \in U
      <3> HIDE DEF so, U, k
      <3> QED BY <2>2
    <2>8. ms = [i \in 1 .. k |-> ME[so[i]]]
      <3> HIDE DEF so, k
      <3>1. \A i \in 1 .. k : ME[so[i]] = <<so[i][1], m[so[i][2]]>>
        BY <2>7 DEF EntryMeans
      <3> HIDE DEF ME
      <3> QED BY <2>2, <3>1
    <2>9. Ascending(ms)
      <3> HIDE DEF so, k
      <3>1. ms = [i \in 1 .. k |-> <<so[i][1], m[so[i][2]]>>]
        BY <2>2
      <3>2. Len(ms) = k /\ \A i \in 1 .. k : ms[i][1] = so[i][1]
        BY <2>6, <3>1
      <3> HIDE DEF ms
      <3>3. \A i \in 2 .. k : KeyLess(so[i - 1], so[i]) /\ i \in 1 .. k /\ i - 1 \in 1 .. k
        BY <2>2, <2>6 DEF Ascending
      <3> QED BY <3>2, <3>3 DEF Ascending, KeyLess
    <2> HIDE DEF W, M, h, so, ER, E, U, ME
    <2>10. wa \in Seq(Byte)
      BY <1>9, <2>2, WriteBytes
    <2>11. \A n \in 0 .. Huge, s \in Seq(U), r \in Nat :
             Len(s) = n /\ Stands(data, r, WriteAll(E, s)) =>
               Times(ER)[n][r] = Read([i \in 1 .. n |-> ME[s[i]]], r + Len(WriteAll(E, s)))
      <3>1. LoopsReread(data, ER, U, E, ME)
        BY <1>9, <1>10, LoopRereads
      <3> QED BY <3>1, Zenon DEF LoopsReread
    <2>12. PICK q \in Nat : /\ h # CborError /\ h.major = 5 /\ Usize(h.arg) = k /\ h.pos = q
                            /\ Stands(data, q, wa) /\ q + Len(wa) = p + Len(W[v])
                            /\ p \in Cursors(data)
      <3> HIDE DEF wa, k
      <3> QED BY <1>2, <2>1, <2>6, <2>10
    <2>13. Times(ER)[k][q] = Read(ms, q + Len(wa))
      <3> HIDE DEF ms
      <3> QED BY <2>2, <2>6, <2>8, <2>11, <2>12
    <2> HIDE DEF ms, k, wa
    <2> DEFINE entries == Times(ER)[k][q]
    <2>14. entries # CborError /\ entries.v = ms /\ entries.pos = q + Len(wa)
      BY <2>13, ReadFacts
    <2>15. R[p] = Read(Map(entries.v), entries.pos)
      <3>1. h = read_head(data, p)
        BY DEF h
      <3> DEFINE en == Times(EntryReader(data, read))[Usize(h.arg)][h.pos]
      <3>2. h.major = 5 /\ en # CborError /\ Ascending(en.v) => R[p] = Read(Map(en.v), en.pos)
        BY <2>12, <3>1, ReaderForms
      <3>3. en = entries
        BY <2>12 DEF ER
      <3> HIDE DEF R, en, entries
      <3> QED BY <2>9, <2>12, <2>14, <3>2, <3>3
    <2> HIDE DEF R, entries
    <2> QED BY <2>1, <2>12, <2>14, <2>15
  <1> HIDE DEF W, M, R
  <1> QED BY <1>1, <1>4, <1>5, <1>6, <1>7, NestedCases

-----------------------------------------------------------------------------
(* Cbor: all levels. *)

\* What is encoded is bytes, at every depth.
LEMMA EncodeFacts ==
    \A d \in 0 .. MaxDepth : /\ DOMAIN encode[d] = Value[d]
                             /\ \A v \in Value[d] : encode[d][v] \in Seq(Byte)
  <1> DEFINE P(d) == /\ DOMAIN encode[d] = Value[d]
                     /\ \A v \in Value[d] : encode[d][v] \in Seq(Byte)
             S == {d \in Nat : d <= MaxDepth => P(d)}
  <1>0. MaxDepth \in Nat
    BY CborAssumption
  <1>1. 0 \in S
    <2>1. 0 \in 0 .. MaxDepth
      BY <1>0
    <2>2. Value[0] = {} /\ encode[0] = <<>>
      BY <2>1, ValueOf, EncodeOf
    <2>3. DOMAIN <<>> = {}
      OBVIOUS
    <2> QED BY <2>2, <2>3
  <1>2. ASSUME NEW d \in Nat, d \in S PROVE d + 1 \in S
    <2> SUFFICES ASSUME d + 1 <= MaxDepth PROVE P(d + 1)
      OBVIOUS
    <2>1. d + 1 \in 0 .. MaxDepth /\ d + 1 # 0 /\ (d + 1) - 1 = d /\ d <= MaxDepth
      BY <1>0
    <2>2. P(d)
      BY <1>2, <2>1
    <2>3. Value[d + 1] = Nested(Value[d]) /\ encode[d + 1] = ValueWriter(Value[d + 1], encode[d])
      BY <2>1, ValueOf, EncodeOf
    <2>4. \A v \in Nested(Value[d]) : ValueWriter(Nested(Value[d]), encode[d])[v] \in Seq(Byte)
      BY <2>2, WriterBytes
    <2>5. DOMAIN ValueWriter(Value[d + 1], encode[d]) = Value[d + 1]
      BY DEF ValueWriter
    <2> QED BY <2>3, <2>4, <2>5
  <1>3. Nat \subseteq S
    <2> HIDE DEF S
    <2> QED BY <1>1, <1>2, NumberInduction
  <1>4. \A d \in 0 .. MaxDepth : d \in Nat /\ d <= MaxDepth
    BY <1>0
  <1> QED BY <1>3, <1>4

\* Values are read at every position, at every depth.
LEMMA ReaderDomain ==
    ASSUME NEW data, NEW d \in 0 .. MaxDepth
    PROVE  DOMAIN read_value(data)[d] = Cursors(data)
  <1>1. read_value(data)[d] = IF d = 0 THEN [p \in Cursors(data) |-> CborError]
                              ELSE ValueReader(data, read_value(data)[d - 1])
    BY ReadOf
  <1>2. \A r : DOMAIN ValueReader(data, r) = Cursors(data)
    BY DEF ValueReader
  <1> QED BY <1>1, <1>2

\* What is read to a depth is what is written for it.
LEMMA AllReads ==
    ASSUME NEW data \in ByteString
    PROVE  \A d \in 0 .. MaxDepth : Reads(data, read_value(data)[d], Value[d], encode[d])
  <1> DEFINE P(d) == Reads(data, read_value(data)[d], Value[d], encode[d])
             S == {d \in Nat : d <= MaxDepth => P(d)}
  <1>0. MaxDepth \in Nat
    BY CborAssumption
  <1>1. 0 \in S
    <2>1. 0 \in 0 .. MaxDepth
      BY <1>0
    <2>2. read_value(data)[0] = [p \in Cursors(data) |-> CborError]
      BY <2>1, ReadOf
    <2>3. P(0)
      BY <2>2 DEF Reads
    <2> QED BY <2>3
  <1>2. ASSUME NEW d \in Nat, d \in S PROVE d + 1 \in S
    <2> SUFFICES ASSUME d + 1 <= MaxDepth PROVE P(d + 1)
      OBVIOUS
    <2>1. /\ d + 1 \in 0 .. MaxDepth /\ d + 1 # 0 /\ (d + 1) - 1 = d
          /\ d <= MaxDepth /\ d \in 0 .. MaxDepth
      BY <1>0
    <2>2. P(d)
      BY <1>2, <2>1
    <2>3. Value[d + 1] = Nested(Value[d]) /\ encode[d + 1] = ValueWriter(Value[d + 1], encode[d])
      BY <2>1, ValueOf, EncodeOf
    <2>4. read_value(data)[d + 1] = ValueReader(data, read_value(data)[d])
      BY <2>1, ReadOf
    <2>5. DOMAIN encode[d] = Value[d] /\ \A v \in Value[d] : encode[d][v] \in Seq(Byte)
      BY <2>1, EncodeFacts
    <2>6. DOMAIN read_value(data)[d] = Cursors(data)
      BY <2>1, ReaderDomain
    <2>7. Reads(data, ValueReader(data, read_value(data)[d]), Nested(Value[d]),
                ValueWriter(Nested(Value[d]), encode[d]))
      BY <2>2, <2>5, <2>6, ReaderReads
    <2> QED BY <2>3, <2>4, <2>7
  <1>3. Nat \subseteq S
    <2> HIDE DEF S
    <2> QED BY <1>1, <1>2, NumberInduction
  <1>4. \A d \in 0 .. MaxDepth : d \in Nat /\ d <= MaxDepth
    BY <1>0
  <1> QED BY <1>3, <1>4

\* Where a value is written, what it means is read.
LEMMA AllRereads ==
    ASSUME NEW data \in Seq(Byte)
    PROVE  \A d \in 0 .. MaxDepth :
               Rereads(data, read_value(data)[d], Value[d], encode[d], normal[d])
  <1> DEFINE P(d) == Rereads(data, read_value(data)[d], Value[d], encode[d], normal[d])
             S == {d \in Nat : d <= MaxDepth => P(d)}
  <1>0. MaxDepth \in Nat
    BY CborAssumption
  <1>1. 0 \in S
    <2>1. 0 \in 0 .. MaxDepth
      BY <1>0
    <2>2. Value[0] = {}
      BY <2>1, ValueOf
    <2>3. P(0)
      BY <2>2 DEF Rereads
    <2> QED BY <2>3
  <1>2. ASSUME NEW d \in Nat, d \in S PROVE d + 1 \in S
    <2> SUFFICES ASSUME d + 1 <= MaxDepth PROVE P(d + 1)
      OBVIOUS
    <2>1. /\ d + 1 \in 0 .. MaxDepth /\ d + 1 # 0 /\ (d + 1) - 1 = d
          /\ d <= MaxDepth /\ d \in 0 .. MaxDepth
      BY <1>0
    <2>2. P(d)
      BY <1>2, <2>1
    <2>3. /\ Value[d + 1] = Nested(Value[d]) /\ encode[d + 1] = ValueWriter(Value[d + 1], encode[d])
          /\ normal[d + 1] = Normalizer(Value[d + 1], normal[d])
      BY <2>1, ValueOf, EncodeOf, NormalOf
    <2>4. read_value(data)[d + 1] = ValueReader(data, read_value(data)[d])
      BY <2>1, ReadOf
    <2>5. DOMAIN encode[d] = Value[d] /\ \A v \in Value[d] : encode[d][v] \in Seq(Byte)
      BY <2>1, EncodeFacts
    <2>6. DOMAIN read_value(data)[d] = Cursors(data)
      BY <2>1, ReaderDomain
    <2>7. Rereads(data, ValueReader(data, read_value(data)[d]), Nested(Value[d]),
                  ValueWriter(Nested(Value[d]), encode[d]), Normalizer(Nested(Value[d]), normal[d]))
      BY <2>2, <2>5, <2>6, ReaderRereads
    <2> QED BY <2>3, <2>4, <2>7
  <1>3. Nat \subseteq S
    <2> HIDE DEF S
    <2> QED BY <1>1, <1>2, NumberInduction
  <1>4. \A d \in 0 .. MaxDepth : d \in Nat /\ d <= MaxDepth
    BY <1>0
  <1> QED BY <1>3, <1>4

\* What from_bytes accepts is what to_bytes writes for what it returns.
THEOREM DecodeEncode ==
    ASSUME NEW data \in ByteString, from_bytes(data) # CborError
    PROVE  from_bytes(data) \in Value[MaxDepth] /\ to_bytes(from_bytes(data)) = data
  <1> DEFINE r == read_value(data)[MaxDepth][1]
             v == from_bytes(data)
  <1>1. r # CborError /\ r.pos = Len(data) + 1 /\ v = r.v
    BY DEF from_bytes
  <1>2. MaxDepth \in 0 .. MaxDepth
    BY CborAssumption
  <1>3. data \in Seq(Byte) /\ Len(data) \in Nat /\ 1 \in Cursors(data)
    BY DEF ByteString, Cursors
  <1> HIDE DEF v
  <1>4. PICK x \in Value[MaxDepth] : /\ r = Read(x, 1 + Len(encode[MaxDepth][x]))
                                     /\ Stands(data, 1, encode[MaxDepth][x])
    BY <1>1, <1>2, <1>3, AllReads DEF Reads
  <1>5. v = x /\ 1 + Len(encode[MaxDepth][x]) = Len(data) + 1
    <2> HIDE DEF r
    <2> QED BY <1>1, <1>4, ReadFacts
  <1> DEFINE s == encode[MaxDepth][x]
  <1>6. s \in Seq(Byte)
    BY <1>2, EncodeFacts
  <1>7. Stands(data, 1, s)
    BY <1>4
  <1> HIDE DEF s
  <1>8. Len(s) = Len(data)
    <2>1. Len(s) \in Nat /\ 1 + Len(s) = Len(data) + 1
      BY <1>5, <1>6 DEF s
    <2> QED BY <1>3, <2>1
  <1>9. s = data
    <2>1. \A i \in 1 .. Len(s) : data[i] = s[i]
      <3>1. \A i \in 1 .. Len(s) : data[1 + i - 1] = s[i] /\ 1 + i - 1 = i
        BY <1>6, <1>7 DEF Stands
      <3> QED BY <3>1
    <2> QED BY <1>3, <1>6, <1>8, <2>1, SeqEqual
  <1> QED BY <1>5, <1>9 DEF to_bytes, s, v

\* What to_bytes writes for a value, from_bytes takes for what it means.
THEOREM EncodeDecode ==
    ASSUME NEW v \in Value[MaxDepth]
    PROVE  to_bytes(v) \in Seq(Byte) /\ from_bytes(to_bytes(v)) = normal[MaxDepth][v]
  <1> DEFINE data == encode[MaxDepth][v]
             r == read_value(data)[MaxDepth][1]
  <1>1. MaxDepth \in 0 .. MaxDepth
    BY CborAssumption
  <1>2. data \in Seq(Byte)
    BY <1>1, EncodeFacts
  <1>3. Stands(data, 1, data)
    <2> HIDE DEF data
    <2> QED BY <1>2 DEF Stands
  <1>4. r = Read(normal[MaxDepth][v], 1 + Len(data))
    <2>1. Rereads(data, read_value(data)[MaxDepth], Value[MaxDepth], encode[MaxDepth],
                  normal[MaxDepth])
      BY <1>1, <1>2, AllRereads
    <2> QED BY <1>3, <2>1 DEF Rereads
  <1> HIDE DEF r
  <1>5. r # CborError /\ r.v = normal[MaxDepth][v] /\ r.pos = 1 + Len(data)
    BY <1>4, ReadFacts
  <1>6. 1 + Len(data) = Len(data) + 1
    <2> HIDE DEF data
    <2> QED BY <1>2
  <1>7. from_bytes(data) = normal[MaxDepth][v]
    <2> HIDE DEF data
    <2> QED BY <1>5, <1>6 DEF from_bytes, r
  <1> QED BY <1>2, <1>7 DEF to_bytes

\* The entries of a map whose keys differ can be looked up.
LEMMA MapRetrievable ==
    ASSUME NEW es, Distinct(es), Len(es) \in Nat
    PROVE  Retrievable(Map(es))
  <1> SUFFICES ASSUME NEW i \in 1 .. Len(es) PROVE get(Map(es), es[i][1]) = es[i][2]
    BY DEF Retrievable, Map
  <1> DEFINE Named == {k \in 1 .. Len(es) : es[k][1] = es[i][1]}
  <1>1. Named = {i}
    BY DEF Distinct
  <1>2. get(Map(es), es[i][1]) = es[CHOOSE k \in Named : \A j \in Named : k <= j][2]
    <2>1. Map(es).t = "map" /\ Map(es).entries = es
      BY DEF Map
    <2>2. Named # {}
      BY <1>1
    <2> QED BY <2>1, <2>2 DEF get
  <1> HIDE DEF Named
  <1>3. (CHOOSE k \in Named : \A j \in Named : k <= j) = i
    BY <1>1
  <1> QED BY <1>2, <1>3

\* Whatever value, and whatever a value means, can be looked up.
LEMMA ValueRetrievable ==
    ASSUME NEW v \in Value[MaxDepth]
    PROVE  Retrievable(v) /\ Retrievable(normal[MaxDepth][v])
  <1>1. MaxDepth \in 0 .. MaxDepth /\ MaxDepth # 0
    <2>1. MaxDepth \in 0 .. MaxDepth /\ 0 \in 0 .. MaxDepth
      BY CborAssumption
    <2>2. Value[0] = {}
      BY <2>1, ValueOf
    <2> QED BY <2>1, <2>2
  <1> DEFINE sub == Value[MaxDepth - 1]
             m == normal[MaxDepth - 1]
             N == Normalizer(Nested(sub), m)
  <1>2. Value[MaxDepth] = Nested(sub) /\ normal[MaxDepth] = N
    BY <1>1, ValueOf, NormalOf
  <1>3. v \in Nested(sub) /\ normal[MaxDepth][v] = N[v]
    BY <1>2
  <1> HIDE DEF sub, m
  <1>4. ASSUME NEW n \in U64s, v = Uint(n) PROVE Retrievable(v) /\ Retrievable(N[v])
    <2>1. N[v] = v
      BY <1>3, <1>4, NormalForms
    <2> HIDE DEF N
    <2> QED BY <1>4, <2>1 DEF Retrievable, Uint
  <1>5. ASSUME NEW b \in ByteString, v = Bytes(b) PROVE Retrievable(v) /\ Retrievable(N[v])
    <2>1. N[v] = v
      BY <1>3, <1>5, NormalForms
    <2> HIDE DEF N
    <2> QED BY <1>5, <2>1 DEF Retrievable, Bytes
  <1>6. ASSUME NEW b \in Utf8String, v = Text(b) PROVE Retrievable(v) /\ Retrievable(N[v])
    <2>1. N[v] = v
      BY <1>3, <1>6, NormalForms
    <2> HIDE DEF N
    <2> QED BY <1>6, <2>1 DEF Retrievable, Text
  <1>7. ASSUME NEW is \in Seq(sub), v = Array(is) PROVE Retrievable(v) /\ Retrievable(N[v])
    <2>1. N[v] = Array([i \in 1 .. Len(is) |-> m[is[i]]])
      BY <1>3, <1>7, NormalForms
    <2> HIDE DEF N
    <2> QED BY <1>7, <2>1 DEF Retrievable, Array
  <1>8. ASSUME NEW es \in Seq(Utf8String \X sub), Distinct(es), v = Map(es)
        PROVE  Retrievable(v) /\ Retrievable(N[v])
    <2> DEFINE s == Sorted(es)
               ms == [i \in 1 .. Len(s) |-> <<s[i][1], m[s[i][2]]>>]
    <2>1. N[v] = Map(ms)
      BY <1>3, <1>8, NormalForms
    <2>2. s \in Seq(Utf8String \X sub) /\ Ascending(s)
      BY <1>8, SortedSeq
    <2> HIDE DEF s, N
    <2>3a. Distinct(s)
      BY <2>2, AscendingDistinct
    <2>3. Distinct(s) /\ Len(s) \in Nat
      BY <2>2, <2>3a
    <2>4. Len(ms) = Len(s) /\ \A i \in 1 .. Len(s) : ms[i][1] = s[i][1]
      BY <2>3
    <2> HIDE DEF ms
    <2>5. Distinct(ms) /\ Len(ms) \in Nat
      BY <2>3, <2>4 DEF Distinct
    <2>6. Len(es) \in Nat
      OBVIOUS
    <2> QED BY <1>8, <2>1, <2>5, <2>6, MapRetrievable
  <1> HIDE DEF N
  <1> QED BY <1>3, <1>4, <1>5, <1>6, <1>7, <1>8, NestedCases

\* Whatever has been decoded or encoded is what from_bytes or to_bytes made.
CborInv ==
    /\ job \in [op : {"decode"}, arg : CborInputs] \cup [op : {"encode"}, arg : CborValues]
    /\ out # NotYet => out = IF job.op = "decode" THEN from_bytes(job.arg) ELSE to_bytes(job.arg)

\* Bytes and values determine each other, for every input, every value and
\* every depth of nesting (cbor.rs).
THEOREM CanonicalAlways == CborSpec => []Canonical
  <1>1. CborInit => CborInv
    BY DEF CborInit, CborInv
  <1>2. CborInv /\ [CborNext]_cborVars => CborInv'
    <2> SUFFICES ASSUME CborInv, [CborNext]_cborVars PROVE CborInv'
      OBVIOUS
    <2>1. CASE Decode
      BY <2>1 DEF Decode, CborInv
    <2>2. CASE Encode
      BY <2>2 DEF Encode, CborInv
    <2>3. CASE UNCHANGED cborVars
      BY <2>3 DEF cborVars, CborInv
    <2> QED BY <2>1, <2>2, <2>3 DEF CborNext
  <1>3. CborInv => Canonical
    <2> SUFFICES ASSUME CborInv, out # NotYet
                 PROVE  IF job.op = "decode"
                        THEN out # CborError => to_bytes(out) = job.arg /\ Retrievable(out)
                        ELSE /\ from_bytes(out) = normal[MaxDepth][job.arg]
                             /\ Retrievable(from_bytes(out))
      BY DEF Canonical
    <2>1. CASE job.op = "decode"
      <3>1. job.arg \in ByteString /\ out = from_bytes(job.arg)
        BY <2>1, CborAssumption DEF CborInv
      <3> QED BY <2>1, <3>1, DecodeEncode, ValueRetrievable
    <2>2. CASE job.op # "decode"
      <3>1. job.arg \in Value[MaxDepth] /\ out = to_bytes(job.arg)
        BY <2>2, CborAssumption DEF CborInv
      <3> QED BY <2>2, <3>1, EncodeDecode, ValueRetrievable
    <2> QED BY <2>1, <2>2
  <1> QED BY <1>1, <1>2, <1>3, PTL DEF CborSpec

-----------------------------------------------------------------------------
(* NodeAttest: the values that node attestations are made of. *)

AnyAlg == ClassicalAlg \cup PqAlg
Fields == {F_alg, F_key, F_sig, F_pub, F_node, F_pqpub, F_pqsig}

\* Up to three bytes below 128 are a string.
LEMMA ShortText ==
    \A a, b, c \in 0 .. 127 :
        <<a>> \in Utf8String /\ <<a, b>> \in Utf8String /\ <<a, b, c>> \in Utf8String
  <1>1. Huge > 3
    BY DEF Huge
  <1> SUFFICES ASSUME NEW a \in 0 .. 127, NEW b \in 0 .. 127, NEW c \in 0 .. 127
               PROVE  <<a>> \in Utf8String /\ <<a, b>> \in Utf8String /\ <<a, b, c>> \in Utf8String
    OBVIOUS
  <1>2. a \in Byte /\ b \in Byte /\ c \in Byte
    BY DEF Byte
  <1>3. <<a>> \in Seq(Byte) /\ <<a, b>> \in Seq(Byte) /\ <<a, b, c>> \in Seq(Byte)
    BY <1>2
  <1>4. Len(<<a>>) = 1 /\ Len(<<a, b>>) = 2 /\ Len(<<a, b, c>>) = 3
    OBVIOUS
  <1>6. Len(<<a>>) < Huge /\ Len(<<a, b>>) < Huge /\ Len(<<a, b, c>>) < Huge
    <2>1. 1 < Huge /\ 2 < Huge /\ 3 < Huge
      BY DEF Huge
    <2> HIDE DEF Huge
    <2> QED BY <1>4, <2>1
  <1>5. Utf8(<<a>>) /\ Utf8(<<a, b>>) /\ Utf8(<<a, b, c>>)
    <2>1. \A i \in 1 .. 3 : i = 1 \/ i = 2 \/ i = 3
      OBVIOUS
    <2>2. Utf8(<<a>>)
      BY DEF Utf8
    <2>3. Utf8(<<a, b>>)
      <3>1. \A i \in 1 .. Len(<<a, b>>) : i = 1 \/ i = 2
        BY <1>4
      <3> QED BY <3>1 DEF Utf8
    <2>4. Utf8(<<a, b, c>>)
      <3>1. \A i \in 1 .. Len(<<a, b, c>>) : i = 1 \/ i = 2 \/ i = 3
        BY <1>4
      <3> QED BY <3>1 DEF Utf8
    <2> QED BY <2>2, <2>3, <2>4
  <1> HIDE DEF Huge
  <1>7. <<a>> \in Utf8String
    BY <1>3, <1>5, <1>6 DEF Utf8String, ByteString
  <1>8. <<a, b>> \in Utf8String
    BY <1>3, <1>5, <1>6 DEF Utf8String, ByteString
  <1>9. <<a, b, c>> \in Utf8String
    BY <1>3, <1>5, <1>6 DEF Utf8String, ByteString
  <1> QED BY <1>7, <1>8, <1>9

\* Field names and tags are strings.
LEMMA NamesText ==
    /\ Fields \subseteq Utf8String
    /\ \A alg \in AnyAlg : tag[alg] \in Utf8String
    /\ {CONTEXT, PURPOSE_CHALLENGE, PURPOSE_NODE, STATE_DOMAIN} \subseteq Utf8String
  <1>0. 1 \in 0 .. 127 /\ 2 \in 0 .. 127 /\ 4 \in 0 .. 127 /\ 6 \in 0 .. 127 /\ 8 \in 0 .. 127
        /\ 97 \in 0 .. 127 /\ 101 \in 0 .. 127 /\ 107 \in 0 .. 127 /\ 109 \in 0 .. 127
        /\ 110 \in 0 .. 127 /\ 112 \in 0 .. 127 /\ 113 \in 0 .. 127 /\ 115 \in 0 .. 127
    OBVIOUS
  <1>1. <<97>> \in Utf8String /\ <<107>> \in Utf8String /\ <<115>> \in Utf8String
        /\ <<112>> \in Utf8String /\ <<101>> \in Utf8String /\ <<1>> \in Utf8String
        /\ <<2>> \in Utf8String
    <2>1. <<97>> \in Utf8String
      BY <1>0, ShortText, Zenon
    <2>2. <<107>> \in Utf8String
      BY <1>0, ShortText, Zenon
    <2>3. <<115>> \in Utf8String
      BY <1>0, ShortText, Zenon
    <2>4. <<112>> \in Utf8String
      BY <1>0, ShortText, Zenon
    <2>5. <<101>> \in Utf8String
      BY <1>0, ShortText, Zenon
    <2>6. <<1>> \in Utf8String
      BY <1>0, ShortText, Zenon
    <2>7. <<2>> \in Utf8String
      BY <1>0, ShortText, Zenon
    <2> QED BY <2>1, <2>2, <2>3, <2>4, <2>5, <2>6, <2>7
  <1>2. <<110, 1>> \in Utf8String /\ <<109, 4>> \in Utf8String /\ <<109, 6>> \in Utf8String
        /\ <<109, 8>> \in Utf8String /\ <<1, 1>> \in Utf8String /\ <<1, 2>> \in Utf8String
    <2>1. <<110, 1>> \in Utf8String
      BY <1>0, ShortText, Zenon
    <2>2. <<109, 4>> \in Utf8String
      BY <1>0, ShortText, Zenon
    <2>3. <<109, 6>> \in Utf8String
      BY <1>0, ShortText, Zenon
    <2>4. <<109, 8>> \in Utf8String
      BY <1>0, ShortText, Zenon
    <2>5. <<1, 1>> \in Utf8String
      BY <1>0, ShortText, Zenon
    <2>6. <<1, 2>> \in Utf8String
      BY <1>0, ShortText, Zenon
    <2> QED BY <2>1, <2>2, <2>3, <2>4, <2>5, <2>6
  <1>3. <<113, 1, 1>> \in Utf8String /\ <<113, 1, 2>> \in Utf8String
    <2>1. <<113, 1, 1>> \in Utf8String
      BY <1>0, ShortText, Zenon
    <2>2. <<113, 1, 2>> \in Utf8String
      BY <1>0, ShortText, Zenon
    <2> QED BY <2>1, <2>2
  <1>4. Fields \subseteq Utf8String
    BY <1>1, <1>2, <1>3 DEF Fields, F_alg, F_key, F_sig, F_pub, F_node, F_pqpub, F_pqsig
  <1>5. \A alg \in AnyAlg : tag[alg] \in Utf8String
    BY <1>1, <1>2 DEF AnyAlg, ClassicalAlg, PqAlg, tag
  <1>6. {CONTEXT, PURPOSE_CHALLENGE, PURPOSE_NODE, STATE_DOMAIN} \subseteq Utf8String
    BY <1>1, <1>2 DEF CONTEXT, PURPOSE_CHALLENGE, PURPOSE_NODE, STATE_DOMAIN
  <1> QED BY <1>4, <1>5, <1>6

\* No two field names are the same, nor two tags, nor two purposes.
LEMMA NamesDiffer ==
    /\ F_alg # F_key /\ F_alg # F_sig
    /\ F_node # F_pub /\ F_node # F_sig /\ F_node # F_pqpub /\ F_node # F_pqsig
    /\ F_pub # F_sig /\ F_pub # F_pqpub /\ F_pub # F_pqsig
    /\ F_sig # F_pqpub /\ F_sig # F_pqsig /\ F_pqpub # F_pqsig
    /\ \A alg, other \in AnyAlg : tag[alg] = tag[other] => alg = other
    /\ PURPOSE_CHALLENGE # PURPOSE_NODE /\ CONTEXT # STATE_DOMAIN
  <1>1. \A a, b, c, d, e \in Nat : /\ a # b => <<a>> # <<b>>
                                   /\ <<a>> # <<b, c>> /\ <<a>> # <<b, c, d>>
                                   /\ <<a, e>> # <<b, c, d>>
    <2> TAKE a, b, c, d, e \in Nat
    <2>1. <<a>>[1] = a /\ <<b>>[1] = b
      OBVIOUS
    <2>2. Len(<<a>>) = 1 /\ Len(<<b, c>>) = 2 /\ Len(<<b, c, d>>) = 3 /\ Len(<<a, e>>) = 2
      OBVIOUS
    <2> QED BY <2>1, <2>2
  <1>2. \A a, b, c, d \in Nat : a # c \/ b # d => <<a, b>> # <<c, d>>
    OBVIOUS
  <1>3. \A a, b, c, d \in Nat : c # d => <<a, b, c>> # <<a, b, d>>
    OBVIOUS
  <1>4. /\ F_alg # F_key /\ F_alg # F_sig
        /\ F_node # F_pub /\ F_node # F_sig /\ F_node # F_pqpub /\ F_node # F_pqsig
        /\ F_pub # F_sig /\ F_pub # F_pqpub /\ F_pub # F_pqsig
        /\ F_sig # F_pqpub /\ F_sig # F_pqsig /\ F_pqpub # F_pqsig
    BY <1>1, <1>3 DEF F_alg, F_key, F_sig, F_pub, F_node, F_pqpub, F_pqsig
  <1>5. \A alg, other \in AnyAlg : tag[alg] = tag[other] => alg = other
    BY <1>1, <1>2 DEF AnyAlg, ClassicalAlg, PqAlg, tag
  <1>6. PURPOSE_CHALLENGE # PURPOSE_NODE /\ CONTEXT # STATE_DOMAIN
    BY <1>1, <1>2 DEF PURPOSE_CHALLENGE, PURPOSE_NODE, CONTEXT, STATE_DOMAIN
  <1> QED BY <1>4, <1>5, <1>6

\* Values one level up.
LEMMA Level ==
    ASSUME NEW d \in 1 .. MaxDepth
    PROVE  /\ d - 1 \in 0 .. MaxDepth
           /\ Value[d] = Nested(Value[d - 1])
           /\ normal[d] = Normalizer(Value[d], normal[d - 1])
  <1>1. d \in 0 .. MaxDepth /\ d # 0 /\ d - 1 \in 0 .. MaxDepth
    BY CborAssumption
  <1> QED BY <1>1, ValueOf, NormalOf

\* Strings are values, and mean themselves.
LEMMA StringValue ==
    ASSUME NEW d \in 1 .. MaxDepth
    PROVE  /\ \A b \in ByteString : Bytes(b) \in Value[d] /\ normal[d][Bytes(b)] = Bytes(b)
           /\ \A b \in Utf8String : Text(b) \in Value[d] /\ normal[d][Text(b)] = Text(b)
  <1> DEFINE V == Value[d]
             N == normal[d]
             sub == Value[d - 1]
             m == normal[d - 1]
  <1>1. V = Nested(sub) /\ N = Normalizer(V, m)
    BY Level
  <1> HIDE DEF V, N, sub, m
  <1>2. /\ \A b \in ByteString : Bytes(b) \in V
        /\ \A b \in Utf8String : Text(b) \in V
    BY <1>1, NestedKinds
  <1>3. /\ \A b : Bytes(b) \in V => N[Bytes(b)] = Bytes(b)
        /\ \A b : Text(b) \in V => N[Text(b)] = Text(b)
    BY <1>1, NormalForms
  <1> QED BY <1>2, <1>3 DEF V, N

\* An array is a value, and means what its items mean.
LEMMA ArrayValue ==
    ASSUME NEW d \in 1 .. MaxDepth, NEW is \in Seq(Value[d - 1]), Len(is) < Huge
    PROVE  /\ Array(is) \in Value[d]
           /\ normal[d][Array(is)].items = [i \in 1 .. Len(is) |-> normal[d - 1][is[i]]]
  <1> DEFINE V == Value[d]
             N == normal[d]
             sub == Value[d - 1]
             m == normal[d - 1]
  <1>1. V = Nested(sub) /\ N = Normalizer(V, m)
    BY Level
  <1>2. is \in Seq(sub)
    OBVIOUS
  <1> HIDE DEF V, N, sub, m
  <1>3. Array(is) \in V
    BY <1>1, <1>2, NestedKinds
  <1>4. \A js : Array(js) \in V => N[Array(js)] = Array([i \in 1 .. Len(js) |-> m[js[i]]])
    BY <1>1, NormalForms
  <1>5. N[Array(is)] = Array([i \in 1 .. Len(is) |-> m[is[i]]])
    BY <1>3, <1>4
  <1> QED BY <1>3, <1>5 DEF V, N, m, Array

\* A map is a value, and under each of its keys, and no other, what it means
\* has what the entry means.
LEMMA MapValue ==
    ASSUME NEW d \in 1 .. MaxDepth, NEW es \in Seq(Utf8String \X Value[d - 1]),
           Len(es) < Huge, Distinct(es)
    PROVE  /\ Map(es) \in Value[d]
           /\ normal[d][Map(es)].t = "map"
           /\ \A i \in 1 .. Len(es) :
                 get(normal[d][Map(es)], es[i][1]) = normal[d - 1][es[i][2]]
           /\ \A f : (\A i \in 1 .. Len(es) : es[i][1] # f)
                        => get(normal[d][Map(es)], f) = CborError
  <1> DEFINE V == Value[d]
             N == normal[d]
             sub == Value[d - 1]
             m == normal[d - 1]
             n == Len(es)
             s == Sorted(es)
             ms == [i \in 1 .. Len(s) |-> <<s[i][1], m[s[i][2]]>>]
  <1>1. V = Nested(sub) /\ N = Normalizer(V, m)
    BY Level
  <1>2. es \in Seq(Utf8String \X sub) /\ n \in Nat
    OBVIOUS
  <1> HIDE DEF V, N, sub, m
  <1>3. Map(es) \in V
    BY <1>1, <1>2, NestedKinds
  <1>4. \A js : Map(js) \in V => N[Map(js)] = LET t == Sorted(js) IN
                                   Map([i \in 1 .. Len(t) |-> <<t[i][1], m[t[i][2]]>>])
    BY <1>1, NormalForms
  <1>5. N[Map(es)] = Map(ms)
    BY <1>3, <1>4
  <1>6. PICK at \in [1 .. n -> 1 .. n] :
             /\ s = [p \in 1 .. n |-> es[at[p]]]
             /\ \A i \in 1 .. n : \E p \in 1 .. n : at[p] = i
             /\ \A p, q \in 1 .. n : p < q => KeyLess(es[at[p]], es[at[q]])
    BY <1>2, SortedFacts
  <1>7. Len(s) = n
    <2> HIDE DEF n
    <2> QED BY <1>2, <1>6
  <1>8. \A p \in 1 .. n : s[p] = es[at[p]] /\ at[p] \in 1 .. n
    BY <1>6
  <1> HIDE DEF s
  <1>9. Len(ms) = n /\ \A p \in 1 .. n : ms[p][1] = es[at[p]][1] /\ ms[p][2] = m[es[at[p]][2]]
    BY <1>2, <1>7, <1>8
  <1> HIDE DEF ms
  <1>10. Map(ms).t = "map" /\ Map(ms).entries = ms
    BY DEF Map
  <1>11. Distinct(ms)
    <2>1. s \in Seq(Utf8String \X sub) /\ Ascending(s)
      BY <1>2, SortedSeq DEF s
    <2>2. Distinct(s)
      BY <2>1, AscendingDistinct
    <2>3. Len(ms) = Len(s)
      BY <1>7, <1>9
    <2>4. ASSUME NEW p \in 1 .. Len(s) PROVE ms[p][1] = s[p][1]
      <3>1. p \in 1 .. n
        BY <1>7
      <3> HIDE DEF n
      <3> QED BY <1>8, <1>9, <3>1
    <2> QED BY <2>2, <2>3, <2>4 DEF Distinct
  <1>12. Retrievable(Map(ms))
    BY <1>2, <1>9, <1>11, MapRetrievable
  <1>13. \A p \in 1 .. n : get(Map(ms), ms[p][1]) = ms[p][2]
    BY <1>9, <1>10, <1>12 DEF Retrievable
  <1>14. ASSUME NEW i \in 1 .. n PROVE get(Map(ms), es[i][1]) = m[es[i][2]]
    <2>1. PICK p \in 1 .. n : at[p] = i
      BY <1>6
    <2> QED BY <1>9, <1>13, <2>1
  <1>15. ASSUME NEW f, \A i \in 1 .. n : es[i][1] # f PROVE get(Map(ms), f) = CborError
    <2> DEFINE Named == {k \in 1 .. Len(ms) : ms[k][1] = f}
    <2>1. Named = {}
      BY <1>8, <1>9, <1>15
    <2> QED BY <1>10, <2>1 DEF get
  <1> QED BY <1>3, <1>5, <1>10, <1>14, <1>15 DEF V, N, m

-----------------------------------------------------------------------------
(* NodeAttest: keys, payloads and attestations as values. *)

\* Keys, and signatures, of some algorithms.
Keys(algs) == [alg : algs, bytes : ByteString]

\* A tag names its algorithm, and only that one.
LEMMA TagNames ==
    ASSUME NEW algs \in {ClassicalAlg, PqAlg}, NEW alg \in algs
    PROVE  {other \in algs : tag[other] = tag[alg]} = {alg}
  <1>1. algs \subseteq AnyAlg
    BY DEF AnyAlg
  <1> QED BY <1>1, NamesDiffer

\* A key or a signature is a value, from which it is read back.
LEMMA KeyValue ==
    ASSUME NEW d \in 2 .. MaxDepth, NEW algs \in {ClassicalAlg, PqAlg}, NEW k \in Keys(algs),
           NEW field \in {F_key, F_sig}
    PROVE  /\ to_value(k, field) \in Value[d]
           /\ normal[d][to_value(k, field)] # CborError
           /\ from_value(normal[d][to_value(k, field)], field, algs) = k
  <1> DEFINE V == Value[d - 1]
             m == normal[d - 1]
             text == Text(tag[k.alg])
             bytes == Bytes(k.bytes)
             es == << <<F_alg, text>>, <<field, bytes>> >>
             v == normal[d][Map(es)]
  <1>1. d \in 1 .. MaxDepth /\ d - 1 \in 1 .. MaxDepth
    BY CborAssumption
  <1>2. k.alg \in algs /\ k.bytes \in ByteString /\ k.alg \in AnyAlg
    BY DEF Keys, AnyAlg
  <1>3. tag[k.alg] \in Utf8String /\ field \in Utf8String /\ F_alg \in Utf8String
    BY <1>2, NamesText DEF Fields
  <1>4. text \in V /\ m[text] = text
    BY <1>1, <1>3, StringValue
  <1>5. bytes \in V /\ m[bytes] = bytes
    BY <1>1, <1>2, StringValue
  <1>6. F_alg # field
    BY NamesDiffer
  <1> HIDE DEF V, m, text, bytes
  <1>7. /\ es \in Seq(Utf8String \X V) /\ Len(es) < Huge
        /\ \A i \in 1 .. Len(es) : i = 1 \/ i = 2
        /\ 1 \in 1 .. Len(es) /\ 2 \in 1 .. Len(es)
    <2>1. 2 < Huge
      BY DEF Huge
    <2> HIDE DEF Huge
    <2> QED BY <1>3, <1>4, <1>5, <2>1
  <1>8. es[1][1] = F_alg /\ es[1][2] = text /\ es[2][1] = field /\ es[2][2] = bytes
    OBVIOUS
  <1>9. to_value(k, field) = Map(es)
    BY DEF to_value, es, text, bytes
  <1> HIDE DEF es
  <1>10. Distinct(es)
    BY <1>6, <1>7, <1>8 DEF Distinct
  <1>11. /\ Map(es) \in Value[d]
         /\ v.t = "map"
         /\ \A i \in 1 .. Len(es) : get(v, es[i][1]) = m[es[i][2]]
    <2>1. es \in Seq(Utf8String \X Value[d - 1])
      BY <1>7 DEF V
    <2> QED BY <1>1, <1>7, <1>10, <2>1, MapValue DEF m
  <1> HIDE DEF v
  <1>12. get(v, F_alg) = text /\ get(v, field) = bytes
    BY <1>4, <1>5, <1>7, <1>8, <1>11
  <1>13. text.t = "text" /\ text.b = tag[k.alg] /\ bytes.t = "bytes" /\ bytes.b = k.bytes
    BY DEF text, bytes, Text, Bytes
  <1>14. text # CborError /\ bytes # CborError /\ v # CborError
    BY <1>11, <1>13 DEF CborError
  <1>15. {alg \in algs : text.t = "text" /\ tag[alg] = text.b} = {k.alg}
    BY <1>2, <1>13, TagNames
  <1>16. (CHOOSE alg \in {k.alg} : TRUE) = k.alg
    OBVIOUS
  <1>17. from_value(v, field, algs) = [alg |-> k.alg, bytes |-> k.bytes]
    BY <1>12, <1>13, <1>14, <1>15, <1>16 DEF from_value
  <1>18. k = [alg |-> k.alg, bytes |-> k.bytes]
    BY DEF Keys
  <1> QED BY <1>9, <1>11, <1>14, <1>17, <1>18 DEF v

\* Values with the same bytes mean the same.
LEMMA SameBytes ==
    ASSUME NEW v \in Value[MaxDepth], NEW u \in Value[MaxDepth], to_bytes(v) = to_bytes(u)
    PROVE  normal[MaxDepth][v] = normal[MaxDepth][u]
  BY EncodeDecode

\* Keys with the same fingerprint are the same key.
LEMMA FingerprintInjective ==
    ASSUME NEW k \in Keys(ClassicalAlg), NEW j \in Keys(ClassicalAlg),
           fingerprint(k) = fingerprint(j)
    PROVE  k = j
  <1>1. MaxDepth \in 2 .. MaxDepth
    BY NodeAttestAssumption
  <1>2. to_value(k, F_key) \in Value[MaxDepth] /\ to_value(j, F_key) \in Value[MaxDepth]
    BY <1>1, KeyValue
  <1>3. normal[MaxDepth][to_value(k, F_key)] = normal[MaxDepth][to_value(j, F_key)]
    BY <1>2, SameBytes DEF fingerprint
  <1>4. /\ from_value(normal[MaxDepth][to_value(k, F_key)], F_key, ClassicalAlg) = k
        /\ from_value(normal[MaxDepth][to_value(j, F_key)], F_key, ClassicalAlg) = j
    BY <1>1, KeyValue
  <1> QED BY <1>3, <1>4

\* What an array of strings means.
LEMMA StringsValue ==
    ASSUME NEW is \in Seq([t : {"text"}, b : Utf8String] \cup [t : {"bytes"}, b : ByteString]),
           Len(is) < Huge
    PROVE  Array(is) \in Value[MaxDepth] /\ normal[MaxDepth][Array(is)].items = is
  <1> DEFINE V == Value[MaxDepth - 1]
             m == normal[MaxDepth - 1]
             S == [t : {"text"}, b : Utf8String] \cup [t : {"bytes"}, b : ByteString]
             n == Len(is)
  <1>1. MaxDepth \in 1 .. MaxDepth /\ MaxDepth - 1 \in 1 .. MaxDepth
    BY NodeAttestAssumption
  <1>2. ASSUME NEW x \in S PROVE x \in V /\ m[x] = x
    <2>1. x.t = "text" => x = Text(x.b) /\ x.b \in Utf8String
      BY <1>2 DEF Text
    <2>2. x.t # "text" => x = Bytes(x.b) /\ x.b \in ByteString
      BY <1>2 DEF Bytes
    <2> QED BY <1>1, <2>1, <2>2, StringValue
  <1> HIDE DEF V, m
  <1>3. n \in Nat /\ \A i \in 1 .. n : is[i] \in S
    OBVIOUS
  <1> HIDE DEF S
  <1>4. is \in Seq(V) /\ is = [i \in 1 .. n |-> is[i]]
    BY <1>2, <1>3
  <1>5. \A i \in 1 .. n : m[is[i]] = is[i]
    BY <1>2, <1>3
  <1>6. [i \in 1 .. n |-> m[is[i]]] = [i \in 1 .. n |-> is[i]]
    BY <1>5
  <1>7. is \in Seq(Value[MaxDepth - 1])
    BY <1>4 DEF V
  <1>8. /\ Array(is) \in Value[MaxDepth]
        /\ normal[MaxDepth][Array(is)].items = [i \in 1 .. n |-> m[is[i]]]
    BY <1>1, <1>7, ArrayValue DEF m
  <1> QED BY <1>4, <1>6, <1>8

\* Arrays of strings with the same bytes are the same.
LEMMA SameStrings ==
    ASSUME NEW is \in Seq([t : {"text"}, b : Utf8String] \cup [t : {"bytes"}, b : ByteString]),
           NEW js \in Seq([t : {"text"}, b : Utf8String] \cup [t : {"bytes"}, b : ByteString]),
           Len(is) < Huge, Len(js) < Huge, to_bytes(Array(is)) = to_bytes(Array(js))
    PROVE  is = js
  <1>1. Array(is) \in Value[MaxDepth] /\ normal[MaxDepth][Array(is)].items = is
    BY StringsValue
  <1>2. Array(js) \in Value[MaxDepth] /\ normal[MaxDepth][Array(js)].items = js
    BY StringsValue
  <1>3. normal[MaxDepth][Array(is)] = normal[MaxDepth][Array(js)]
    BY <1>1, <1>2, SameBytes
  <1> QED BY <1>1, <1>2, <1>3

\* The payload for a node is neither a login's nor a state's, nor another
\* node's.
LEMMA PayloadsDiffer ==
    ASSUME NEW a \in ByteString, NEW b \in ByteString
    PROVE  /\ node_signing_payload(a) # signing_payload(b)
           /\ node_signing_payload(a) # state_signing_payload(b)
           /\ node_signing_payload(a) = node_signing_payload(b) => a = b
  <1> DEFINE S == [t : {"text"}, b : Utf8String] \cup [t : {"bytes"}, b : ByteString]
             context == Text(CONTEXT)
             domain == Text(STATE_DOMAIN)
             login == Text(PURPOSE_CHALLENGE)
             attest == Text(PURPOSE_NODE)
             one == Bytes(a)
             other == Bytes(b)
             node == <<context, attest, one>>
             again == <<context, attest, other>>
             chal == <<context, login, other>>
             state == <<domain, other>>
  <1>1. /\ context \in S /\ domain \in S /\ login \in S /\ attest \in S
        /\ one \in S /\ other \in S
    BY NamesText DEF Text, Bytes
  <1>2. context # domain /\ login # attest /\ (one = other => a = b)
    <2>1. context.b = CONTEXT /\ domain.b = STATE_DOMAIN /\ login.b = PURPOSE_CHALLENGE
          /\ attest.b = PURPOSE_NODE /\ one.b = a /\ other.b = b
      BY DEF Text, Bytes
    <2> QED BY <2>1, NamesDiffer
  <1>3. /\ node_signing_payload(a) = to_bytes(Array(node))
        /\ node_signing_payload(b) = to_bytes(Array(again))
        /\ signing_payload(b) = to_bytes(Array(chal))
        /\ state_signing_payload(b) = to_bytes(Array(state))
    BY DEF node_signing_payload, signing_payload, state_signing_payload
  <1> HIDE DEF context, domain, login, attest, one, other
  <1>4. node \in Seq(S) /\ again \in Seq(S) /\ chal \in Seq(S) /\ state \in Seq(S)
    <2> HIDE DEF S
    <2> QED BY <1>1
  <1>5. Len(node) < Huge /\ Len(again) < Huge /\ Len(chal) < Huge /\ Len(state) < Huge
    <2>1. 2 < Huge /\ 3 < Huge
      BY DEF Huge
    <2> HIDE DEF Huge
    <2> QED BY <2>1
  <1>6. node[1] = context /\ state[1] = domain /\ node[2] = attest /\ chal[2] = login
        /\ node[3] = one /\ again[3] = other
    OBVIOUS
  <1> HIDE DEF node, again, chal, state
  <1>7. to_bytes(Array(node)) = to_bytes(Array(chal)) => node = chal
    BY <1>4, <1>5, SameStrings
  <1>8. to_bytes(Array(node)) = to_bytes(Array(state)) => node = state
    BY <1>4, <1>5, SameStrings
  <1>9. to_bytes(Array(node)) = to_bytes(Array(again)) => node = again
    BY <1>4, <1>5, SameStrings
  <1> QED BY <1>2, <1>3, <1>6, <1>7, <1>8, <1>9

-----------------------------------------------------------------------------
(* NodeAttest: attestations as they travel. *)

Wires == [node : ByteString, pub : Keys(ClassicalAlg), sig : Keys(ClassicalAlg),
          pqpub : {NoPq} \cup PqKeys, pqsig : {NoPq} \cup PqKeys]

\* Three entries, and after them one more or two.
LEMMA FewEntries ==
    ASSUME NEW a, NEW b, NEW c, NEW x, NEW y
    PROVE  /\ <<a, b, c>> \o <<>> \o <<>> = <<a, b, c>>
           /\ <<a, b, c>> \o <<x>> \o <<>> = <<a, b, c, x>>
           /\ <<a, b, c>> \o <<>> \o <<y>> = <<a, b, c, y>>
           /\ <<a, b, c>> \o <<x>> \o <<y>> = <<a, b, c, x, y>>
  <1> DEFINE S == {a, b, c, x, y}
  <1>1. <<a, b, c>> \o <<>> = <<a, b, c>> /\ <<a, b, c, x>> \o <<>> = <<a, b, c, x>>
        /\ <<a, b, c, y>> \o <<>> = <<a, b, c, y>>
    OBVIOUS
  <1>2. <<a, b, c>> \in Seq(S) /\ <<a, b, c, x>> \in Seq(S) /\ x \in S /\ y \in S
    OBVIOUS
  <1>3. ASSUME NEW u \in {x, y} PROVE Append(<<a, b, c>>, u) = <<a, b, c, u>>
    <2> DEFINE s == Append(<<a, b, c>>, u)
               t == <<a, b, c, u>>
    <2>1. s \in Seq(S) /\ t \in Seq(S) /\ Len(s) = Len(t) /\ \A i \in 1 .. Len(s) : s[i] = t[i]
      OBVIOUS
    <2> HIDE DEF s, t, S
    <2>2. s = t
      BY <2>1, SeqEqual
    <2> QED BY <2>2 DEF s, t
  <1>5. Append(<<a, b, c, x>>, y) = <<a, b, c, x, y>>
    <2> DEFINE s == Append(<<a, b, c, x>>, y)
               t == <<a, b, c, x, y>>
    <2>1. s \in Seq(S) /\ t \in Seq(S) /\ Len(s) = Len(t) /\ \A i \in 1 .. Len(s) : s[i] = t[i]
      OBVIOUS
    <2> HIDE DEF s, t, S
    <2>2. s = t
      BY <2>1, SeqEqual
    <2> QED BY <2>2 DEF s, t
  <1> HIDE DEF S
  <1>4. <<a, b, c>> \o <<x>> = <<a, b, c, x>> /\ <<a, b, c>> \o <<y>> = <<a, b, c, y>>
        /\ <<a, b, c, x>> \o <<y>> = <<a, b, c, x, y>>
    BY <1>2, <1>3, <1>5, AppendIsConcat
  <1> QED BY <1>1, <1>4, Zenon

\* The entries of an attestation on the wire.
Entries(w) ==
    << <<F_node, Bytes(w.node)>>, <<F_pub, to_value(w.pub, F_key)>>,
       <<F_sig, to_value(w.sig, F_sig)>> >>
    \o (IF w.pqpub = NoPq THEN <<>> ELSE << <<F_pqpub, to_value(w.pqpub, F_key)>> >>)
    \o (IF w.pqsig = NoPq THEN <<>> ELSE << <<F_pqsig, to_value(w.pqsig, F_sig)>> >>)

\* The parts of an attestation are values.
LEMMA PartsValue ==
    ASSUME NEW w \in Wires
    PROVE  /\ Bytes(w.node) \in Value[MaxDepth - 1]
           /\ to_value(w.pub, F_key) \in Value[MaxDepth - 1]
           /\ to_value(w.sig, F_sig) \in Value[MaxDepth - 1]
           /\ w.pqpub # NoPq => to_value(w.pqpub, F_key) \in Value[MaxDepth - 1]
           /\ w.pqsig # NoPq => to_value(w.pqsig, F_sig) \in Value[MaxDepth - 1]
  <1>1. MaxDepth - 1 \in 1 .. MaxDepth /\ MaxDepth - 1 \in 2 .. MaxDepth
    BY NodeAttestAssumption
  <1>2. /\ w.node \in ByteString /\ w.pub \in Keys(ClassicalAlg) /\ w.sig \in Keys(ClassicalAlg)
        /\ w.pqpub # NoPq => w.pqpub \in Keys(PqAlg)
        /\ w.pqsig # NoPq => w.pqsig \in Keys(PqAlg)
    BY DEF Wires, PqKeys, Keys
  <1>3. Bytes(w.node) \in Value[MaxDepth - 1]
    BY <1>1, <1>2, StringValue
  <1>4. to_value(w.pub, F_key) \in Value[MaxDepth - 1] /\ to_value(w.sig, F_sig) \in Value[MaxDepth - 1]
    BY <1>1, <1>2, KeyValue
  <1>5. w.pqpub # NoPq => to_value(w.pqpub, F_key) \in Value[MaxDepth - 1]
    BY <1>1, <1>2, KeyValue
  <1>6. w.pqsig # NoPq => to_value(w.pqsig, F_sig) \in Value[MaxDepth - 1]
    BY <1>1, <1>2, KeyValue
  <1> QED BY <1>3, <1>4, <1>5, <1>6

\* The entries of an attestation: three, and those of the post-quantum fields
\* that are there.
LEMMA EntriesFacts ==
    ASSUME NEW w \in Wires
    PROVE  /\ Entries(w) \in Seq(Utf8String \X Value[MaxDepth - 1])
           /\ Len(Entries(w)) < Huge
           /\ Distinct(Entries(w))
           /\ \E i \in 1 .. Len(Entries(w)) : Entries(w)[i] = <<F_node, Bytes(w.node)>>
           /\ \E i \in 1 .. Len(Entries(w)) : Entries(w)[i] = <<F_pub, to_value(w.pub, F_key)>>
           /\ \E i \in 1 .. Len(Entries(w)) : Entries(w)[i] = <<F_sig, to_value(w.sig, F_sig)>>
           /\ IF w.pqpub = NoPq THEN \A i \in 1 .. Len(Entries(w)) : Entries(w)[i][1] # F_pqpub
              ELSE \E i \in 1 .. Len(Entries(w)) : Entries(w)[i] = <<F_pqpub, to_value(w.pqpub, F_key)>>
           /\ IF w.pqsig = NoPq THEN \A i \in 1 .. Len(Entries(w)) : Entries(w)[i][1] # F_pqsig
              ELSE \E i \in 1 .. Len(Entries(w)) : Entries(w)[i] = <<F_pqsig, to_value(w.pqsig, F_sig)>>
  <1> DEFINE V == Value[MaxDepth - 1]
             a == <<F_node, Bytes(w.node)>>
             b == <<F_pub, to_value(w.pub, F_key)>>
             c == <<F_sig, to_value(w.sig, F_sig)>>
             x == <<F_pqpub, to_value(w.pqpub, F_key)>>
             y == <<F_pqsig, to_value(w.pqsig, F_sig)>>
             X == Utf8String \X V
             Good(es) == es \in Seq(X) /\ Len(es) < Huge /\ Distinct(es)
             In(es, e) == \E i \in 1 .. Len(es) : es[i] = e
             Free(es, f) == \A i \in 1 .. Len(es) : es[i][1] # f
  <1>1. /\ a \in X /\ b \in X /\ c \in X
        /\ w.pqpub # NoPq => x \in X
        /\ w.pqsig # NoPq => y \in X
    <2>1. F_node \in Utf8String /\ F_pub \in Utf8String /\ F_sig \in Utf8String
          /\ F_pqpub \in Utf8String /\ F_pqsig \in Utf8String
      BY NamesText DEF Fields
    <2> QED BY <2>1, PartsValue
  <1>2. /\ a[1] = F_node /\ b[1] = F_pub /\ c[1] = F_sig /\ x[1] = F_pqpub /\ y[1] = F_pqsig
    OBVIOUS
  <1>3. /\ F_node # F_pub /\ F_node # F_sig /\ F_node # F_pqpub /\ F_node # F_pqsig
        /\ F_pub # F_sig /\ F_pub # F_pqpub /\ F_pub # F_pqsig
        /\ F_sig # F_pqpub /\ F_sig # F_pqsig /\ F_pqpub # F_pqsig
    BY NamesDiffer
  <1>4. 3 < Huge /\ 4 < Huge /\ 5 < Huge
    BY DEF Huge
  <1>5. Entries(w) = << a, b, c >>
                     \o (IF w.pqpub = NoPq THEN <<>> ELSE << x >>)
                     \o (IF w.pqsig = NoPq THEN <<>> ELSE << y >>)
    BY DEF Entries
  <1>6. /\ <<a, b, c>> \o <<>> \o <<>> = <<a, b, c>>
        /\ <<a, b, c>> \o <<x>> \o <<>> = <<a, b, c, x>>
        /\ <<a, b, c>> \o <<>> \o <<y>> = <<a, b, c, y>>
        /\ <<a, b, c>> \o <<x>> \o <<y>> = <<a, b, c, x, y>>
    <2> HIDE DEF a, b, c, x, y
    <2> QED BY FewEntries
  <1> HIDE DEF a, b, c, x, y, X, Huge
  <1>7. CASE w.pqpub = NoPq /\ w.pqsig = NoPq
    <2> DEFINE es == <<a, b, c>>
    <2>1. Len(es) < Huge /\ \A i \in 1 .. Len(es) : i = 1 \/ i = 2 \/ i = 3
      BY <1>4
    <2>2. es \in Seq(X) /\ Distinct(es)
      BY <1>1, <1>2, <1>3, <2>1 DEF Distinct
    <2>3. In(es, a) /\ In(es, b) /\ In(es, c) /\ Free(es, F_pqpub) /\ Free(es, F_pqsig)
      BY <1>2, <1>3
    <2>4. Entries(w) = es
      BY <1>5, <1>6, <1>7
    <2> HIDE DEF es
    <2> QED BY <1>7, <2>1, <2>2, <2>3, <2>4 DEF X, a, b, c
  <1>8. CASE w.pqpub # NoPq /\ w.pqsig = NoPq
    <2> DEFINE es == <<a, b, c, x>>
    <2>1. Len(es) < Huge /\ \A i \in 1 .. Len(es) : i = 1 \/ i = 2 \/ i = 3 \/ i = 4
      BY <1>4
    <2>2. es \in Seq(X) /\ Distinct(es)
      BY <1>1, <1>2, <1>3, <1>8, <2>1 DEF Distinct
    <2>3. In(es, a) /\ In(es, b) /\ In(es, c) /\ In(es, x) /\ Free(es, F_pqsig)
      BY <1>2, <1>3
    <2>4. Entries(w) = es
      BY <1>5, <1>6, <1>8
    <2> HIDE DEF es
    <2> QED BY <1>8, <2>1, <2>2, <2>3, <2>4 DEF X, a, b, c, x
  <1>9. CASE w.pqpub = NoPq /\ w.pqsig # NoPq
    <2> DEFINE es == <<a, b, c, y>>
    <2>1. Len(es) < Huge /\ \A i \in 1 .. Len(es) : i = 1 \/ i = 2 \/ i = 3 \/ i = 4
      BY <1>4
    <2>2. es \in Seq(X) /\ Distinct(es)
      BY <1>1, <1>2, <1>3, <1>9, <2>1 DEF Distinct
    <2>3. In(es, a) /\ In(es, b) /\ In(es, c) /\ In(es, y) /\ Free(es, F_pqpub)
      BY <1>2, <1>3
    <2>4. Entries(w) = es
      BY <1>5, <1>6, <1>9
    <2> HIDE DEF es
    <2> QED BY <1>9, <2>1, <2>2, <2>3, <2>4 DEF X, a, b, c, y
  <1>10. CASE w.pqpub # NoPq /\ w.pqsig # NoPq
    <2> DEFINE es == <<a, b, c, x, y>>
    <2>1. Len(es) < Huge /\ \A i \in 1 .. Len(es) : i = 1 \/ i = 2 \/ i = 3 \/ i = 4 \/ i = 5
      BY <1>4
    <2>2. es \in Seq(X) /\ Distinct(es)
      BY <1>1, <1>2, <1>3, <1>10, <2>1 DEF Distinct
    <2>3. In(es, a) /\ In(es, b) /\ In(es, c) /\ In(es, x) /\ In(es, y)
      BY <1>2, <1>3
    <2>4. Entries(w) = es
      BY <1>5, <1>6, <1>10
    <2> HIDE DEF es
    <2> QED BY <1>10, <2>1, <2>2, <2>3, <2>4 DEF X, a, b, c, x, y
  <1> QED BY <1>7, <1>8, <1>9, <1>10

\* A key is no error.
LEMMA KeyNoError ==
    ASSUME NEW algs, NEW k \in Keys(algs)
    PROVE  k # CborError
  <1>1. DOMAIN k = {"alg", "bytes"}
    BY DEF Keys
  <1>2. DOMAIN CborError = {"t"}
    BY DEF CborError
  <1>3. "alg" \notin {"t"}
    OBVIOUS
  <1> QED BY <1>1, <1>2, <1>3

\* An attestation with both post-quantum fields or none arrives as it was
\* sent; with one of them it does not arrive.
LEMMA WireArrives ==
    ASSUME NEW w \in Wires
    PROVE  attestation_from_bytes(attestation_to_bytes(w))
             = IF (w.pqpub = NoPq) # (w.pqsig = NoPq) THEN CborError ELSE w
  <1> DEFINE M == MaxDepth
             m == normal[M - 1]
             es == Entries(w)
             v == normal[M][Map(es)]
             pub == to_value(w.pub, F_key)
             sig == to_value(w.sig, F_sig)
             pqpub == to_value(w.pqpub, F_key)
             pqsig == to_value(w.pqsig, F_sig)
             node == Bytes(w.node)
  <1>1. M \in 1 .. M /\ M - 1 \in 1 .. M /\ M - 1 \in 2 .. M
    BY NodeAttestAssumption
  <1>2. /\ w.node \in ByteString /\ w.pub \in Keys(ClassicalAlg) /\ w.sig \in Keys(ClassicalAlg)
        /\ w.pqpub # NoPq => w.pqpub \in Keys(PqAlg)
        /\ w.pqsig # NoPq => w.pqsig \in Keys(PqAlg)
        /\ w = [node |-> w.node, pub |-> w.pub, sig |-> w.sig, pqpub |-> w.pqpub, pqsig |-> w.pqsig]
    BY DEF Wires, PqKeys, Keys
  <1>3. m[node] = node
    BY <1>1, <1>2, StringValue
  <1>4. m[pub] # CborError /\ from_value(m[pub], F_key, ClassicalAlg) = w.pub
    BY <1>1, <1>2, KeyValue
  <1>5. m[sig] # CborError /\ from_value(m[sig], F_sig, ClassicalAlg) = w.sig
    BY <1>1, <1>2, KeyValue
  <1>6. w.pqpub # NoPq => m[pqpub] # CborError /\ from_value(m[pqpub], F_key, PqAlg) = w.pqpub
    BY <1>1, <1>2, KeyValue
  <1>7. w.pqsig # NoPq => m[pqsig] # CborError /\ from_value(m[pqsig], F_sig, PqAlg) = w.pqsig
    BY <1>1, <1>2, KeyValue
  <1>8. /\ es \in Seq(Utf8String \X Value[M - 1]) /\ Len(es) < Huge /\ Distinct(es)
        /\ \E i \in 1 .. Len(es) : es[i] = <<F_node, node>>
        /\ \E i \in 1 .. Len(es) : es[i] = <<F_pub, pub>>
        /\ \E i \in 1 .. Len(es) : es[i] = <<F_sig, sig>>
        /\ IF w.pqpub = NoPq THEN \A i \in 1 .. Len(es) : es[i][1] # F_pqpub
           ELSE \E i \in 1 .. Len(es) : es[i] = <<F_pqpub, pqpub>>
        /\ IF w.pqsig = NoPq THEN \A i \in 1 .. Len(es) : es[i][1] # F_pqsig
           ELSE \E i \in 1 .. Len(es) : es[i] = <<F_pqsig, pqsig>>
    BY EntriesFacts
  <1>9. attestation_to_bytes(w) = to_bytes(Map(es))
    BY DEF attestation_to_bytes, Entries
  <1> HIDE DEF m, es, pub, sig, pqpub, pqsig, node
  <1>10. /\ Map(es) \in Value[M]
         /\ v.t = "map"
         /\ \A i \in 1 .. Len(es) : get(v, es[i][1]) = m[es[i][2]]
         /\ \A f : (\A i \in 1 .. Len(es) : es[i][1] # f) => get(v, f) = CborError
    BY <1>1, <1>8, MapValue DEF m
  <1> HIDE DEF v
  <1>11. attestation_from_bytes(attestation_to_bytes(w)) = attestation_fields(v)
    BY <1>9, <1>10, EncodeDecode DEF attestation_from_bytes, v
  <1>12. get(v, F_node) = node /\ get(v, F_pub) = m[pub] /\ get(v, F_sig) = m[sig]
    BY <1>3, <1>8, <1>10
  <1>13. IF w.pqpub = NoPq THEN get(v, F_pqpub) = CborError ELSE get(v, F_pqpub) = m[pqpub]
    BY <1>8, <1>10
  <1>14. IF w.pqsig = NoPq THEN get(v, F_pqsig) = CborError ELSE get(v, F_pqsig) = m[pqsig]
    BY <1>8, <1>10
  <1>15. node.t = "bytes" /\ node.b = w.node
    BY DEF node, Bytes
  <1>16. v # CborError /\ node # CborError
    BY <1>10, <1>15 DEF CborError
  <1>17. /\ w.pub # CborError /\ w.sig # CborError
         /\ w.pqpub # NoPq => w.pqpub # CborError
         /\ w.pqsig # NoPq => w.pqsig # CborError
    BY <1>2, KeyNoError
  <1> HIDE DEF CborError
  <1>18. CASE w.pqpub = NoPq /\ w.pqsig = NoPq
    BY <1>2, <1>4, <1>5, <1>11, <1>12, <1>13, <1>14, <1>15, <1>16, <1>17, <1>18
       DEF attestation_fields
  <1>19. CASE w.pqpub # NoPq /\ w.pqsig # NoPq
    BY <1>2, <1>4, <1>5, <1>6, <1>7, <1>11, <1>12, <1>13, <1>14, <1>15, <1>16, <1>17, <1>19
       DEF attestation_fields
  <1>20. CASE (w.pqpub = NoPq) # (w.pqsig = NoPq)
    BY <1>4, <1>5, <1>6, <1>7, <1>11, <1>12, <1>13, <1>14, <1>15, <1>16, <1>17, <1>20
       DEF attestation_fields
  <1> QED BY <1>18, <1>19, <1>20

-----------------------------------------------------------------------------
(* NodeAttest: the inductive invariant.  Every signature made is a          *)
(* device's, over a login, a state, or a node that the device attested.     *)

SigningKeys == {d.key : d \in Devices} \cup {d.pq : d \in Devices}
Payloads == {signing_payload(b) : b \in NodeIds} \cup {state_signing_payload(b) : b \in NodeIds}
              \cup {node_signing_payload(b) : b \in NodeIds}

\* What a device signs: a login, a state, or a node it attested.
Covers(d, payload) ==
    \E b \in NodeIds :
        \/ payload = signing_payload(b)
        \/ payload = state_signing_payload(b)
        \/ (payload = node_signing_payload(b) /\ <<d, b>> \in attested)

MadeBy(d, s) ==
    /\ s.key = d.key \/ (s.key = d.pq /\ d.pq # NoPq)
    /\ Covers(d, s.payload)

AttestInv ==
    /\ signed \in Seq([key : SigningKeys, payload : Payloads])
    /\ Len(signed) <= MaxSigned + 1
    /\ \A i \in 1 .. Len(signed) : \E d \in Devices : MadeBy(d, signed[i])

\* One more, and at most one more again, where there was room for one.
LEMMA OneOrTwoMore ==
    ASSUME NEW n \in Nat, NEW m \in Nat, NEW h, NEW t \in {0, 1}, NEW u,
           n < m, h = n + 1, u = h + t
    PROVE  u <= m + 1
  OBVIOUS

\* One signature or two are made by a device that may sign the payload.
LEMMA SignBothInv ==
    ASSUME AttestInv, NEW d \in Devices, NEW payload \in Payloads, SignBoth(d, payload),
           attested \subseteq attested', Covers(d, payload)'
    PROVE  AttestInv'
  <1> DEFINE S == [key : SigningKeys, payload : Payloads]
             one == <<[key |-> d.key, payload |-> payload]>>
             two == IF d.pq = NoPq THEN <<>> ELSE <<[key |-> d.pq, payload |-> payload]>>
             half == signed \o one
  <1>1. /\ signed \in Seq(S) /\ Len(signed) \in Nat /\ Len(signed) < MaxSigned
        /\ signed' = half \o two /\ MaxSigned \in Nat
    BY NodeAttestAssumption, HugeNat DEF AttestInv, SignBoth
  <1>2. /\ one \in Seq(S) /\ Len(one) = 1 /\ one[1].key = d.key /\ one[1].payload = payload
    BY DEF SigningKeys
  <1>3. /\ two \in Seq(S) /\ Len(two) \in {0, 1}
        /\ \A i \in 1 .. Len(two) : /\ two[i].key = d.pq /\ d.pq # NoPq
                                    /\ two[i].payload = payload
    <2>1. CASE d.pq = NoPq
      BY <2>1
    <2>2. CASE d.pq # NoPq
      <3>1. two = <<[key |-> d.pq, payload |-> payload]>>
        BY <2>2
      <3>2. [key |-> d.pq, payload |-> payload] \in S
        BY DEF SigningKeys
      <3> HIDE DEF two, S
      <3> QED BY <2>2, <3>1, <3>2
    <2> QED BY <2>1, <2>2
  <1> HIDE DEF S, one, two
  <1>4. /\ half \in Seq(S) /\ Len(half) = Len(signed) + 1
        /\ \A i \in 1 .. Len(signed) + 1 : half[i] = IF i <= Len(signed) THEN signed[i] ELSE one[1]
    <2>1. /\ half \in Seq(S) /\ Len(half) = Len(signed) + Len(one)
          /\ \A i \in 1 .. Len(signed) + Len(one) :
                half[i] = IF i <= Len(signed) THEN signed[i] ELSE one[i - Len(signed)]
      BY <1>1, <1>2, ConcatProperties
    <2> HIDE DEF half
    <2>2. \A i \in 1 .. Len(signed) + 1 : i <= Len(signed) \/ i - Len(signed) = 1
      BY <1>1
    <2>3. Len(one) = 1 /\ Len(half) = Len(signed) + 1 /\ half \in Seq(S)
      BY <1>2, <2>1
    <2>4. \A i \in 1 .. Len(signed) + 1 :
             half[i] = IF i <= Len(signed) THEN signed[i] ELSE one[1]
      BY <2>1, <2>2, <2>3
    <2> QED BY <2>3, <2>4
  <1> HIDE DEF half
  <1>5. /\ signed' \in Seq(S) /\ Len(signed') = Len(half) + Len(two)
        /\ \A i \in 1 .. Len(half) + Len(two) :
              signed'[i] = IF i <= Len(half) THEN half[i] ELSE two[i - Len(half)]
    BY <1>1, <1>3, <1>4, ConcatProperties
  <1>6. Len(signed') <= MaxSigned + 1
    <2>1. Len(half) = Len(signed) + 1 /\ Len(signed') = Len(half) + Len(two)
      BY <1>4, <1>5
    <2>2. Len(signed) \in Nat /\ Len(signed) < MaxSigned /\ MaxSigned \in Nat
      BY <1>1
    <2> QED BY <1>3, <2>1, <2>2, OneOrTwoMore, Zenon
  <1>7. ASSUME NEW i \in 1 .. Len(signed') PROVE (\E e \in Devices : MadeBy(e, signed[i]))'
    <2>1. CASE i <= Len(signed)
      <3>0. /\ i \in 1 .. Len(signed) /\ i \in 1 .. Len(signed) + 1 /\ i <= Len(half)
            /\ i \in 1 .. Len(half) + Len(two)
        BY <1>1, <1>3, <1>4, <1>5, <2>1
      <3>1. signed'[i] = half[i] /\ half[i] = signed[i]
        BY <1>4, <1>5, <2>1, <3>0
      <3>2. PICK e \in Devices : MadeBy(e, signed[i])
        BY <3>0 DEF AttestInv
      <3> QED BY <3>1, <3>2 DEF MadeBy, Covers
    <2>2. CASE i = Len(signed) + 1
      <3>1. signed'[i] = one[1]
        BY <1>1, <1>3, <1>4, <1>5, <2>2
      <3>2. signed'[i].key = d.key /\ signed'[i].payload = payload
        BY <1>2, <3>1
      <3>3. MadeBy(d, signed[i])'
        BY <3>2 DEF MadeBy, Covers
      <3> QED BY <3>3
    <2>3. CASE i > Len(signed) + 1
      <3>1. signed'[i] = two[i - Len(half)] /\ i - Len(half) \in 1 .. Len(two)
        BY <1>1, <1>3, <1>4, <1>5, <2>3
      <3> QED BY <1>3, <3>1 DEF MadeBy, Covers
    <2> QED BY <1>1, <2>1, <2>2, <2>3
  <1> QED BY <1>5, <1>6, <1>7 DEF AttestInv, S

\* Initially nothing is signed, and every step keeps the invariant.
LEMMA AttestInductive == AttestSpec => []AttestInv
  <1>1. AttestInit => AttestInv
    BY NodeAttestAssumption, HugeNat DEF AttestInit, AttestInv
  <1>2. AttestInv /\ [AttestNext]_attestVars => AttestInv'
    <2> SUFFICES ASSUME AttestInv, [AttestNext]_attestVars PROVE AttestInv'
      OBVIOUS
    <2>1. CASE \E d \in Devices, b \in NodeIds : respond(d, b)
      <3>1. PICK d \in Devices, b \in NodeIds : respond(d, b)
        BY <2>1
      <3>2. signing_payload(b) \in Payloads /\ Covers(d, signing_payload(b))'
        BY DEF Payloads, Covers
      <3> QED BY <3>1, <3>2, SignBothInv DEF respond
    <2>2. CASE \E d \in Devices, b \in NodeIds : SignState(d, b)
      <3>1. PICK d \in Devices, b \in NodeIds : SignState(d, b)
        BY <2>2
      <3>2. state_signing_payload(b) \in Payloads /\ Covers(d, state_signing_payload(b))'
        BY DEF Payloads, Covers
      <3> QED BY <3>1, <3>2, SignBothInv DEF SignState
    <2>3. CASE \E d \in Devices, b \in NodeIds : attest_node_id(d, b)
      <3>1. PICK d \in Devices, b \in NodeIds : attest_node_id(d, b)
        BY <2>3
      <3>2. attested' = attested \cup {<<d, b>>} /\ SignBoth(d, node_signing_payload(b))
        BY <3>1 DEF attest_node_id
      <3>3. node_signing_payload(b) \in Payloads /\ Covers(d, node_signing_payload(b))'
        BY <3>2 DEF Payloads, Covers
      <3> QED BY <3>2, <3>3, SignBothInv
    <2>4. CASE UNCHANGED attestVars
      BY <2>4 DEF attestVars, AttestInv, MadeBy, Covers
    <2> QED BY <2>1, <2>2, <2>3, <2>4 DEF AttestNext
  <1> QED BY <1>1, <1>2, PTL DEF AttestSpec

\* A signature that verifies for a node was made by a device with that key,
\* which attested the node.
LEMMA VerifiedAttested ==
    ASSUME AttestInv, NEW key, NEW sig, NEW node \in NodeIds,
           Verifies(key, node_signing_payload(node), sig)
    PROVE  \E e \in Devices : /\ key = e.key \/ (key = e.pq /\ e.pq # NoPq)
                              /\ <<e, node>> \in attested
  <1>1. PICK i \in 1 .. Len(signed) :
             signed[i].key = key /\ signed[i].payload = node_signing_payload(node)
    BY DEF Verifies
  <1>2. PICK e \in Devices : MadeBy(e, signed[i])
    BY <1>1 DEF AttestInv
  <1>3. PICK b \in NodeIds :
             \/ node_signing_payload(node) = signing_payload(b)
             \/ node_signing_payload(node) = state_signing_payload(b)
             \/ (node_signing_payload(node) = node_signing_payload(b) /\ <<e, b>> \in attested)
    BY <1>1, <1>2 DEF MadeBy, Covers
  <1>4. node \in ByteString /\ b \in ByteString
    BY NodeAttestAssumption
  <1>5. node = b /\ <<e, b>> \in attested
    BY <1>3, <1>4, PayloadsDiffer
  <1> QED BY <1>1, <1>2, <1>5 DEF MadeBy

\* The number of a signature is a byte string.
LEMMA SignatureBytes ==
    ASSUME AttestInv, NEW i \in 1 .. Len(signed)
    PROVE  U64(i) \in ByteString
  <1>1. i \in 0 .. Huge - 1
    BY NodeAttestAssumption, HugeNat DEF AttestInv
  <1>2. U64(i) \in Seq(Byte) /\ Len(U64(i)) <= 8
    BY <1>1, SizeBytes, NumberBytes
  <1>3. 8 < Huge
    BY DEF Huge
  <1> HIDE DEF Huge
  <1> QED BY <1>2, <1>3, HugeNat DEF ByteString

\* Whatever signatures, keys and fields are put together: an attestation that
\* decodes and verifies comes from the device whose fingerprint is returned,
\* which attested that node, and under PqRequired a post-quantum key signed it
\* too; for any devices, nodes and number of signatures (attestation.rs).
THEOREM AttestationSoundAlways == AttestSpec => []AttestationSound
  <1>1. AttestInv => AttestationSound
    <2> SUFFICES ASSUME AttestInv, NEW d \in Devices, NEW node \in NodeIds,
                        NEW i \in 1 .. Len(signed), NEW j \in 1 .. Len(signed),
                        NEW pqpub \in {NoPq} \cup {e.pq : e \in Devices},
                        NEW pqsig \in {NoPq} \cup {[alg |-> k.alg, bytes |-> U64(j)] :
                                                     k \in {e.pq : e \in Devices} \ {NoPq}}
                 PROVE  LET w == [node |-> node, pub |-> d.key, pqpub |-> pqpub, pqsig |-> pqsig,
                                  sig |-> [alg |-> d.key.alg, bytes |-> U64(i)]]
                        IN  \A att \in {attestation_from_bytes(attestation_to_bytes(w))} :
                            IF att = CborError THEN (pqpub = NoPq) # (pqsig = NoPq) ELSE
                            /\ att = w
                            /\ \A required \in BOOLEAN : verify_node_attestation(att, required) =>
                                 /\ \A e \in Devices : fingerprint(e.key) = fingerprint(att.pub)
                                                         => <<e, node>> \in attested
                                 /\ required => \E e \in Devices : e.pq # NoPq /\ <<e, node>> \in attested
      BY Zenon DEF AttestationSound
    <2> DEFINE w == [node |-> node, pub |-> d.key, pqpub |-> pqpub, pqsig |-> pqsig,
                     sig |-> [alg |-> d.key.alg, bytes |-> U64(i)]]
               att == attestation_from_bytes(attestation_to_bytes(w))
    <2>1. /\ \A e \in Devices : /\ e.key \in Keys(ClassicalAlg)
                                /\ e.pq # NoPq => e.pq \in PqKeys
          /\ node \in ByteString
      BY NodeAttestAssumption DEF Keys
    <2>2. w \in Wires
      <3>1. U64(i) \in ByteString /\ U64(j) \in ByteString
        BY SignatureBytes
      <3>2. [alg |-> d.key.alg, bytes |-> U64(i)] \in Keys(ClassicalAlg)
        BY <2>1, <3>1 DEF Keys
      <3>3. pqpub \in {NoPq} \cup PqKeys /\ pqsig \in {NoPq} \cup PqKeys
        BY <2>1, <3>1 DEF PqKeys
      <3> QED BY <2>1, <3>2, <3>3 DEF Wires
    <2>3. att = IF (pqpub = NoPq) # (pqsig = NoPq) THEN CborError ELSE w
      <3>1. w.pqpub = pqpub /\ w.pqsig = pqsig
        OBVIOUS
      <3> HIDE DEF w
      <3> QED BY <2>2, <3>1, WireArrives
    <2>4. w.node = node /\ w.pub = d.key /\ w.pqpub = pqpub
      OBVIOUS
    <2> HIDE DEF w, att
    <2>5. \A k \in Keys(ClassicalAlg) : k \notin PqKeys
      BY DEF Keys, PqKeys, ClassicalAlg, PqAlg
    <2>6. ASSUME NEW required \in BOOLEAN, verify_node_attestation(w, required),
                 NEW e \in Devices, fingerprint(e.key) = fingerprint(d.key)
          PROVE  <<e, node>> \in attested
      <3>1. e.key = d.key
        BY <2>1, <2>6, FingerprintInjective
      <3>2. e = d
        BY <3>1, NodeAttestAssumption
      <3>3. PICK f \in Devices : (d.key = f.key \/ (d.key = f.pq /\ f.pq # NoPq)) /\ <<f, node>> \in attested
        BY <2>4, <2>6, VerifiedAttested DEF verify_node_attestation
      <3>4. d.key # f.pq \/ f.pq = NoPq
        BY <2>1, <2>5
      <3>5. d = f
        BY <3>3, <3>4, NodeAttestAssumption
      <3> QED BY <3>2, <3>3, <3>5
    <2>7. ASSUME verify_node_attestation(w, TRUE)
          PROVE  \E e \in Devices : e.pq # NoPq /\ <<e, node>> \in attested
      <3>1. pqpub # NoPq /\ Verifies(pqpub, node_signing_payload(node), w.pqsig)
        BY <2>4, <2>7 DEF verify_node_attestation
      <3>2. PICK e \in Devices : (pqpub = e.key \/ (pqpub = e.pq /\ e.pq # NoPq)) /\ <<e, node>> \in attested
        BY <3>1, VerifiedAttested
      <3>3. pqpub \in PqKeys
        BY <2>1, <3>1
      <3>4. pqpub # e.key
        BY <2>1, <2>5, <3>3
      <3> QED BY <3>2, <3>4
    <2>8. IF att = CborError THEN (pqpub = NoPq) # (pqsig = NoPq) ELSE
          /\ att = w
          /\ \A required \in BOOLEAN : verify_node_attestation(att, required) =>
               /\ \A e \in Devices : fingerprint(e.key) = fingerprint(att.pub)
                                       => <<e, node>> \in attested
               /\ required => \E e \in Devices : e.pq # NoPq /\ <<e, node>> \in attested
      <3>1. CASE att = CborError /\ (pqpub = NoPq) # (pqsig = NoPq)
        BY <3>1
      <3>2. w # CborError
        <4>1. DOMAIN CborError = {"t"} /\ "node" \notin {"t"}
          BY DEF CborError
        <4>2. DOMAIN w = {"node", "pub", "sig", "pqpub", "pqsig"}
          BY DEF w
        <4> QED BY <4>1, <4>2
      <3>3. CASE att = w
        <4>1. \A required \in BOOLEAN : required = TRUE \/ required = FALSE
          OBVIOUS
        <4> QED BY <2>4, <2>6, <2>7, <3>2, <3>3, <4>1
      <3> QED BY <2>3, <3>1, <3>3
    <2> QED BY <2>8 DEF w, att
  <1> QED BY <1>1, AttestInductive, PTL
=============================================================================
