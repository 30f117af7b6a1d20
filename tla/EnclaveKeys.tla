---------------------------- MODULE EnclaveKeys ----------------------------
(***************************************************************************)
(* Device keys of identikey-auth/src/enclave: load_or_create of the macOS  *)
(* Secure Enclave signers (macos.rs: "sep" for P-256, "sepEd" for Ed25519  *)
(* with the seed wrapped under an enclave key), of the Linux TPM signer    *)
(* (linux.rs: "tpm") and of the Windows one (windows.rs: "cng").           *)
(*                                                                         *)
(* Several processes of one machine call load_or_create for the same label *)
(* at once.  Each call to the platform is a step, so a process may be      *)
(* overtaken, get an error or die between any two of them; a process       *)
(* without a signer calls again.                                           *)
(*                                                                         *)
(* Keys are numbered in the order they are made.  A seed is made with, and *)
(* wrapped under, the key its call has just generated, and is named by it. *)
(***************************************************************************)
EXTENDS Naturals, Sequences

CONSTANTS
    Proc,        \* processes of the machine
    MaxFaults,   \* bound on errors and crashes
    COORD_LEN,   \* bytes of a coordinate (32)
    Octet,       \* a byte's values
    NoFile, Empty,   \* no seed file, and one too short to hold a public key
    NoSigner,    \* no signer held
    Error        \* no signature is made

Apple == {"sep", "sepEd"}
Kinds == Apple \cup {"tpm", "cng"}

\* The content of device_identity.ed25519.ecies: a public key and the seed wrapped
\* under the key of the same number, whole or cut off.
Blobs == [pub : Nat, whole : BOOLEAN]

Signers == [key : Nat, pub : Nat, whole : BOOLEAN]
Steps == {"idle", "create", "persist", "open", "write", "read", "finish"}
Calls == [at : Steps, key : Nat]
Idle == [at |-> "idle", key |-> 0]

ASSUME EnclaveAssumption ==
    /\ MaxFaults \in Nat
    /\ COORD_LEN \in Nat \ {0}
    /\ Octet \subseteq Nat /\ 0 \in Octet
    /\ NoSigner \notin Signers
    /\ NoFile \notin Blobs /\ Empty \notin Blobs /\ Error \notin Nat

VARIABLES
    kind,     \* the platform and constructor in use
    store,    \* keys the hardware keeps under the label, handle or name
    file,     \* device_identity.ed25519.ecies: what is in it, NoFile or Empty
    made,     \* keys generated so far
    call,     \* process -> where its load_or_create is, and the key it has
    signer,   \* process -> the signer it was given, or NoSigner
    handed,   \* public keys given to callers so far (history)
    faults    \* errors and crashes so far

vars == <<kind, store, file, made, call, signer, handed, faults>>

TypeOK ==
    /\ kind \in Kinds
    /\ store \in SUBSET Nat
    /\ file \in Blobs \cup {NoFile, Empty}
    /\ made \in Nat
    /\ call \in [Proc -> Calls]
    /\ signer \in [Proc -> Signers \cup {NoSigner}]
    /\ handed \in SUBSET Nat
    /\ faults \in 0 .. MaxFaults

At(p, at) == call[p].at = at
Goto(p, at, key) == call' = [call EXCEPT ![p] = [at |-> at, key |-> key]]

Fault == faults < MaxFaults /\ faults' = faults + 1

-----------------------------------------------------------------------------
(* Public keys as bytes: the TPM strips leading zeros of a coordinate, CNG *)
(* exports a blob, and both end up as the same SEC1 point.                 *)

\* Mutant: the zeros are put back at the end.
left_pad32_Right(src) ==
    LET n == IF Len(src) < COORD_LEN THEN Len(src) ELSE COORD_LEN
    IN  [i \in 1 .. COORD_LEN |-> IF i > n THEN 0 ELSE src[i]]

left_pad32(src) ==
    LET n == IF Len(src) < COORD_LEN THEN Len(src) ELSE COORD_LEN
    IN  [i \in 1 .. COORD_LEN |->
            IF i <= COORD_LEN - n THEN 0 ELSE src[Len(src) - COORD_LEN + i]]

\* pubkey_from_public, and raw_rs_from_sig without the leading 4.
sec1_from_tpm(x, y) == <<4>> \o left_pad32(x) \o left_pad32(y)

\* export_pub: magic, length, X, Y, with a header of eight bytes.
sec1_from_blob(blob) ==
    <<4>> \o SubSeq(blob, 9, 8 + COORD_LEN)
          \o SubSeq(blob, 9 + COORD_LEN, 8 + 2 * COORD_LEN)

Coord == [1 .. COORD_LEN -> Octet]

\* What a TPM may return for a coordinate: some or all of its leading zeros are
\* left out.
Stripped(c) ==
    {SubSeq(c, zeros + 1, COORD_LEN) :
        zeros \in {n \in 0 .. COORD_LEN : \A i \in 1 .. n : c[i] = 0}}

\* Once somebody holds a signer, its public key is the same SEC1 point on either
\* TPM platform, leading zeros of the coordinates included (left_pad32,
\* pubkey_from_public, export_pub; raw_rs_from_sig goes the same way).
OneEncoding ==
    (\E p \in Proc : signer[p] # NoSigner) => \A x, y \in Coord :
        /\ kind = "tpm" => \A u \in Stripped(x), v \in Stripped(y) :
                              sec1_from_tpm(u, v) = <<4>> \o x \o y
        /\ kind = "cng" => sec1_from_blob([i \in 1 .. 8 |-> 0] \o x \o y) = <<4>> \o x \o y

-----------------------------------------------------------------------------
(* load_or_create, one call to the platform per step. *)

Init ==
    /\ kind \in Kinds
    /\ store = {}
    /\ file = NoFile
    /\ made = 0
    /\ call = [p \in Proc |-> Idle]
    /\ signer = [p \in Proc |-> NoSigner]
    /\ handed = {}
    /\ faults = 0

\* What follows a key that was found.
AfterFound == IF kind = "sepEd" THEN "read" ELSE "finish"

\* Mutant: a key is created without looking for the one that is there.
Lookup_Skipped(p) ==
    /\ At(p, "idle") /\ signer[p] = NoSigner
    /\ Goto(p, "create", 0)
    /\ UNCHANGED <<kind, store, file, made, signer, handed, faults>>

\* load_seckey, tr_from_tpm_public, open_key.  Any key of the label may be the
\* one a keychain search with limit 1 returns.
Lookup(p) ==
    /\ At(p, "idle") /\ signer[p] = NoSigner
    /\ \/ \E k \in store : Goto(p, AfterFound, k)
       \/ store = {} /\ Goto(p, "create", 0)
    /\ UNCHANGED <<kind, store, file, made, signer, handed, faults>>

\* The lookup fails for a reason of its own.  macOS and the TPM take every
\* error for an absent key; windows.rs only NTE_BAD_KEYSET, and gives up.
LookupError(p) ==
    /\ At(p, "idle") /\ signer[p] = NoSigner
    /\ Fault
    /\ IF kind = "cng" THEN UNCHANGED call ELSE Goto(p, "create", 0)
    /\ UNCHANGED <<kind, store, file, made, signer, handed>>

\* generate_sep_key puts the key in the keychain at once.
GenerateSep(p) ==
    /\ At(p, "create") /\ kind \in Apple
    /\ made' = made + 1
    /\ store' = store \cup {made + 1}
    /\ Goto(p, IF kind = "sepEd" THEN "open" ELSE "finish", made + 1)
    /\ UNCHANGED <<kind, file, signer, handed, faults>>

\* A primary key of the owner hierarchy is derived from the TPM's seed and the
\* template, the same one every time; CNG creates a new one.
create_primary == 1
create_key == made + 1

\* The key has its handle or its name only once it is persisted.
CreateKey(p) ==
    /\ At(p, "create") /\ kind \notin Apple
    /\ made' = IF kind = "tpm" THEN create_primary ELSE create_key
    /\ Goto(p, "persist", made')
    /\ UNCHANGED <<kind, store, file, signer, handed, faults>>

\* Mutant: the key is put in place of the one that is there.
Persist_Replaces(p) ==
    /\ At(p, "persist")
    /\ store' = {call[p].key}
    /\ Goto(p, "finish", call[p].key)
    /\ UNCHANGED <<kind, file, made, signer, handed, faults>>

\* evict_control, NCryptFinalizeKey: refused while the handle or name is taken.
Persist(p) ==
    /\ At(p, "persist")
    /\ IF store = {}
       THEN store' = {call[p].key} /\ Goto(p, "finish", call[p].key)
       ELSE UNCHANGED store /\ Goto(p, "idle", 0)
    /\ UNCHANGED <<kind, file, made, signer, handed, faults>>

\* std::fs::write of the public key and the wrapped seed: the file is truncated,
\* then filled.
OpenFile(p) ==
    /\ At(p, "open")
    /\ file' = Empty
    /\ Goto(p, "write", call[p].key)
    /\ UNCHANGED <<kind, store, made, signer, handed, faults>>

Give(p, key, pub, whole) ==
    /\ signer' = [signer EXCEPT ![p] = [key |-> key, pub |-> pub, whole |-> whole]]
    /\ handed' = handed \cup {pub}
    /\ Goto(p, "idle", 0)

WriteFile(p) ==
    /\ At(p, "write")
    /\ file' = [pub |-> call[p].key, whole |-> TRUE]
    /\ Give(p, call[p].key, call[p].key, TRUE)
    /\ UNCHANGED <<kind, store, made, faults>>

\* The write fails or its process is killed after the public key and before the
\* end of the wrapped seed.  What was written stays, and is long enough to be
\* taken for an identity.  (Cut off earlier, the file is as good as empty.)
WriteCutOff(p) ==
    /\ At(p, "write")
    /\ Fault
    /\ file' = [pub |-> call[p].key, whole |-> FALSE]
    /\ Goto(p, "idle", 0)
    /\ UNCHANGED <<kind, store, made, signer, handed>>

\* Mutant: a seed file that cannot be used is created anew.
ReadFile_Recreates(p) ==
    /\ At(p, "read")
    /\ IF file \in Blobs THEN Give(p, call[p].key, file.pub, file.whole)
       ELSE Goto(p, "open", call[p].key) /\ UNCHANGED <<signer, handed>>
    /\ UNCHANGED <<kind, store, file, made, faults>>

\* The seed file is read with the key that was found; a missing file or one of
\* less than 32 bytes is an error, all else is split into public key and seed.
ReadFile(p) ==
    /\ At(p, "read")
    /\ IF file \in Blobs THEN Give(p, call[p].key, file.pub, file.whole)
       ELSE Goto(p, "idle", 0) /\ UNCHANGED <<signer, handed>>
    /\ UNCHANGED <<kind, store, file, made, faults>>

\* from_seckey, pubkey_from_public, TpmSigner::finish.
Finish(p) ==
    /\ At(p, "finish")
    /\ Give(p, call[p].key, call[p].key, TRUE)
    /\ UNCHANGED <<kind, store, file, made, faults>>

\* A call to the platform or the file system fails: load_or_create returns the
\* error and leaves behind what it did before.
Fail(p) ==
    /\ ~At(p, "idle")
    /\ Fault
    /\ Goto(p, "idle", 0)
    /\ UNCHANGED <<kind, store, file, made, signer, handed>>

\* The process is killed.
Die(p) ==
    /\ Fault
    /\ Goto(p, "idle", 0)
    /\ signer' = [signer EXCEPT ![p] = NoSigner]
    /\ UNCHANGED <<kind, store, file, made, handed>>

\* The caller drops its signer.
DropSigner(p) ==
    /\ signer[p] # NoSigner
    /\ signer' = [signer EXCEPT ![p] = NoSigner]
    /\ UNCHANGED <<kind, store, file, made, call, handed, faults>>

load_or_create(p) ==
    \/ Lookup(p) \/ GenerateSep(p) \/ CreateKey(p) \/ Persist(p)
    \/ OpenFile(p) \/ WriteFile(p) \/ ReadFile(p) \/ Finish(p)

Next ==
    \E p \in Proc : \/ load_or_create(p) \/ LookupError(p) \/ WriteCutOff(p)
                    \/ Fail(p) \/ Die(p) \/ DropSigner(p)

Spec == Init /\ [][Next]_vars

\* A process that is running gets its next step, and one without a signer asks
\* for it again.
FairSpec == Spec /\ \A p \in Proc : WF_vars(load_or_create(p))

-----------------------------------------------------------------------------
(* What a device key promises. *)

\* Mutant: the key is looked up by its label for every signature.
sign_classical_Reloads(s) ==
    IF kind = "sepEd" /\ s.key # s.pub THEN Error
    ELSE CHOOSE k \in store : TRUE

\* linux.rs: the key behind the handle at the time.
SignTpm == IF store = {} THEN Error ELSE CHOOSE k \in store : TRUE

\* SecureEnclaveEd25519Signer: a wrapped seed is unwrapped if it is all there and
\* with its own key.
SignWrapped(s) == IF s.whole /\ s.key = s.pub THEN s.pub ELSE Error

\* The key a signature of s is made with, or Error.
sign_classical(s) ==
    CASE kind = "tpm" -> SignTpm
      [] kind = "sepEd" -> SignWrapped(s)
      [] OTHER -> s.key

\* The keychain came to hold two keys under one label: two processes created
\* at once, or a search failed although the key was there.
Doubled == kind \in Apple /\ \E a, b \in store : a # b

\* One machine, one identity: all callers of load_or_create are given the same
\* public key, whatever failed, died or overlapped.  On macOS only as long as
\* no second key was generated; TPM and CNG never let that happen.
StableIdentity ==
    \A a, b \in handed : a = b \/ Doubled

\* A signer never signs with a key other than the one it reports, and unless
\* there are two keys or its seed was cut off it can sign (sign_classical of
\* macos.rs, linux.rs, windows.rs), also when it has read what another process
\* wrote.
SignsAsItself ==
    \A p \in Proc : signer[p] # NoSigner =>
        LET by == sign_classical(signer[p]) IN
        \/ by = signer[p].pub
        \/ by = Error /\ (Doubled \/ ~signer[p].whole)

\* A wrapped seed that was written is not truncated or replaced, so that the
\* identity in it is not lost, as long as there is one key (macos.rs,
\* SecureEnclaveEd25519Signer::load_or_create).
SeedStays == [][file' # file /\ file \in Blobs => Doubled]_vars

\* The wrapping key exists and its seed was never written: load_or_create
\* finds the key, and fails to read the file.
Stranded ==
    /\ kind = "sepEd" /\ store # {}
    /\ file \notin Blobs
    /\ \A p \in Proc : call[p].at \notin {"open", "write"}

\* When errors and crashes stop, every process gets a signer, however it was
\* interrupted before; for the wrapped Ed25519 identity unless its creation
\* was cut short (load_or_create of all three platforms).
Usable ==
    \A p \in Proc : []<>(signer[p] # NoSigner) \/ <>[]Stranded

\* The same without the exception: "Load a persistent wrapped Ed25519
\* identity [...], or create and persist one" (macos.rs).
LoadsOrCreates ==
    \A p \in Proc : []<>(signer[p] # NoSigner)
=============================================================================
