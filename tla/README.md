# Verification of the IdentiKey protocol crates

TLA+ models of the parts of this repository in which order, failure or a long
history of calls decides correctness, TLC configurations that check them on
small instances, and TLAPS proofs of what holds for every instance. Paths below
are relative to the repository root, `crates/X` is short for
`crates/identikey-X/src`.

    tlc -config PQChain.cfg MCPQStateChain         # one run
    tlapm PQStateChain_proof.tla                   # the proofs of one module

## 1. The system

The repository is a set of library crates and one command-line program. Nothing
in it runs a server or a thread of its own: callers bring the concurrency
(request handlers, several processes, peers that exchange bytes), and they bring
the time and the delivery order.

| Component | State it keeps | Operations | Why it is hard |
|---|---|---|---|
| Post-quantum state chain, `crates/auth/state.rs` | per verifier and identity a `Trust`: anchor, head, the head's `Parent`, forked flag | `observe`, `with_anchor`, `authority` | records arrive in any order, repeated, partly signed; control keys may sign two siblings; classical signatures may break between two calls |
| Challenge-response, `crates/auth/nonce.rs`, `verify.rs`, `signer.rs`, `challenge.rs` | nonce map of a store: expiry and used flag | `issue`, `respond`, `verify_response`, `consume`, `gc` | handlers race, `now` is read before the store is reached, gc forgets, clocks step, u64 sums wrap |
| Hybrid logical clock, `crates/log/hlc.rs` | the last reading of an author | `next`, `observe` | stuck and jumping wall clocks, ops read in any order, saturation |
| Wallet file and CLI, `crates/wallet/storage.rs`, `format.rs`, `credential.rs`, `ikey/src/main.rs` | wallet file, temporary file, keychain entries | `load`, `save`, `new`, `use`, `delete`, `list`, `show`, `lock`, `unlock` | process death and power loss at any step, several processes, a cached key of another file, a key account that depends on whether the file exists |
| Shares and grants, `crates/share/share.rs`, `grant.rs`, `wrap.rs`, `recrypt.rs` | values handed around: wraps, targets, capsules, signatures | `seal`, `add_recipient`, `rotate`, `transform_recrypt`, `open`, `grant_access`, `verify_grant` | copies are extended side by side, a grant outlives the share it was signed for, the commitment forgets order while opening takes the first match |
| Op log, `crates/log/op.rs`, `codec.rs`, `sign.rs` | envelopes handed around | encode, sign, counter-sign, elide, decode, verify | redaction by anyone, re-encoding of what was redacted or salted, signatures put beside each other |
| Wallet document, `crates/wallet/envelope.rs`, `basic.rs`, `crates/secret/record.rs`, `store.rs` | the envelope in the file, `WalletData` in memory | `wallet_to_envelope`, `wallet_from_envelope`, edits of identities, `insert_secret`, `remove_secret` | a newer program writes assertions this one does not know; optional fields may be ambiguous; a save that cannot be opened again loses the wallet |
| Enclave backends, `crates/auth/enclave/macos.rs`, `linux.rs`, `windows.rs` | keys of the hardware, the wrapped seed file | `load_or_create`, `sign_classical`, drop | several processes create at once, a crash between two platform calls, errors taken for an absent key |
| Capability tokens, `crates/capability` | tokens | `mint_right`, `append_holder_check`, `authorize` | bearers extend tokens offline, with rules that wait for what the verifier adds |
| Key wrapping, `crates/share/wrap.rs` | wraps handed around | `wrap_key`, `unwrap_key`, `rewrap_key` | x-only curves, two encodings of a point, small orders, fields exchanged on the way |
| CBOR codec, `crates/auth/cbor.rs` | none | `to_bytes`, `from_bytes` | one encoding per value, at the edges of every width |
| Keys and attestation, `crates/auth/key.rs`, `algorithm.rs`, `attestation.rs` | none | `fingerprint`, `attest_node_id`, `verify_node_attestation` | one key signs logins, states and attestations |
| Admission, `crates/admit` | none | validators | none: pure functions of one value |

How they interact: `verify_response` checks a response and then calls
`NonceStore::consume`; ops of the log are stamped with `Hlc::next` and peers
merge them with `Hlc::observe`; each `ikey` command is one `Wallet::load`, a
change in memory and one `Wallet::save`, which goes through the file cipher, the
keychain and `write_secret_file`; a share's wraps are made by `wrap::seal` and a
grant signs the share's content id, access commitment and epoch; attestations,
challenges and state records are signed with the same device keys, over CBOR, which
`NodeAttest` composes with `Cbor`. The other parts share no state with each other, so each is
one module. The wallet has two: `WalletStore` for the file as opaque blobs under crashes,
`WalletDoc` for what is inside the blob.

What makes each part correct, in a sentence:

* state chain: a head is always authorised back to a genuine first record;
  verifiers only differ if signatures exist that convict somebody;
* challenges: a nonce is accepted at most once, only for what was really signed
  in time, and a timely genuine answer is not refused;
* clock: `l` alone respects causality and cannot be driven away by exchange;
* wallet: its name stands for a complete file that opens, with every identity
  that was reported;
* shares: exactly the listed holders can open, and a grant speaks for one access
  set only;
* document: what was opened and edited can be saved and opened again, with all
  that other programs wrote into it and with the secrets that were committed to;
* enclaves: one machine keeps one identity, and everybody gets a signer for it;
* codec, keys, tokens, wraps: one encoding per value, a signature serves one
  purpose, a token only ever narrows, a wrap opens for its recipient only;
* ops: what verifies was signed by its actor, what is not reported as redacted
  is all that was signed, and redaction costs nobody the signature.

## 2. Modules

| Module | Models | Checked with |
|---|---|---|
| `PQStateChain`, `PQStateChain_proof` | `state.rs` | `MCPQStateChain`: `PQChain.cfg` |
| `AuthChallenge`, `AuthChallenge_proof` | `nonce.rs`, `verify.rs`, `signer.rs`, `challenge.rs` | `MCAuthChallenge`: `AuthRace.cfg`, `AuthSkew.cfg` |
| `OneShotAuth` | what authentication promises, abstractly | refined by `AuthChallenge` |
| `HybridClock`, `Parts_proof` | `hlc.rs` | `MCParts`: `Parts.cfg` |
| `WalletStore`, `WalletStore_proof` | `storage.rs`, `format.rs`, `credential.rs`, `main.rs` | `MCWalletStore`: `WalletCrash.cfg`, `WalletSharedTmp.cfg`, `WalletRelativePath.cfg` |
| `AtomicWallet` | what the wallet promises, abstractly | refined by `WalletStore` |
| `ShareAccess`, `ShareAccess_proof` | `share.rs`, `grant.rs`, `wrap.rs`, `recrypt.rs` | `MCShareAccess`: `ShareGrants.cfg` |
| `OpLog`, `OpLog_proof` | `op.rs`, `codec.rs`, `sign.rs` | `MCOpLog`: `OpLife.cfg` |
| `WalletDoc`, `WalletDoc_proof` | `envelope.rs`, `basic.rs`, `record.rs`, `store.rs` | `MCWalletDoc`: `WalletDoc.cfg` |
| `EnclaveKeys`, `DeviceKeys_proof` | `enclave/` | `Enclave.cfg`, `EnclaveStranded.cfg` |
| `Cbor`, `DeviceKeys_proof` | `cbor.rs` | `MCParts`: `Parts.cfg` |
| `NodeAttest` (over `Cbor`), `DeviceKeys_proof` | `key.rs`, `algorithm.rs`, `attestation.rs`, the payloads of `challenge.rs` and `state.rs` | `MCParts`: `Parts.cfg` |
| `Capability`, `Parts_proof` | `crates/capability/lib.rs` | `MCParts`: `Parts.cfg` |
| `KeyWrap`, `Parts_proof` | `wrap.rs` | `MCParts`: `Parts.cfg` |

Definitions keep the names of the functions they stand for. An operator whose
name ends in `_Something` after a function's name, marked "Mutant" in its
comment, is that function with a plausible mistake; no specification uses it. It
documents a mistake the properties of the module would notice.

### PQStateChain

`trust[v]` is the `Trust` of verifier `v`; `chain[v]` (history) the records it
accepted; `pqSigned`, `elSigned` and `forged` the signatures that exist. `Rec`
maps a digest to the decoded record, so hashing is injective by construction;
`decodes` stands for the strict decoder's checks other than those on `seq` and
`prev`, which `WellFormed` has. `Observe(v, ...)` is one call of `observe` with
any record and any part of the signatures that exist, including none;
`SignPq`/`SignElect` are signers at work, who equivocate unless they are in
`HonestKey`/`HonestElect`; `BreakClassical` and `ForgeElect` are the day
classical signatures fail. A verifier may pass `classical_sound` only while that day
has not come; it may be more cautious, and different verifiers may differ.

### AuthChallenge and OneShotAuth

`store[st][n]` is the map entry of `InMemoryNonceStore`; `calls[h]` is a handler
that has read the clock and has yet to call `verify_response`. `Verify` is the
whole function with `consume`, one step because the store is behind `&mut`.
Services may share a store. `net` holds every response that exists, deliverable
at any time and any number of times. u64 arithmetic is modulo `W`; services in
`Checked` are built with overflow checks and panic (refuse) where others wrap.
`OneShotAuth` knows neither clocks nor stores: a ticket is opened once, then
redeemed by one claimant or lapsed, for good.

### HybridClock

`clock[a]` is the author's last reading, an op carries the reading of `next`.
`past` and `known` (history) record real causality. `Foreign` ops carry readings
of authors outside the model, also with a non-zero counter; `Peak` bounds what
comes from outside.

### WalletStore and AtomicWallet

`run[p]` is the process executing a command, from `Load` (file read and cached key
tried) over `Prompt`, the command and `NewKey` to the steps of
`write_secret_file`: create or truncate the temporary file, write (two halves),
`sync_all`, `rename`. Inodes are explicit, so a rename can move a file another
process holds open. `file` is what processes see, `durable` what the disk has;
`PowerLoss` picks for every unflushed half which of the two survives, and may
undo a rename that was not written back (`old`). `Die` ends a process between
two steps; what it did to the disk and keychain stays. Encryption is ideal: a
blob decrypts under its own key. Keys are pairs of password and salt;
`ZeroKey` is the placeholder of a wallet that has no key yet. `store_key` may fail
and then, on macOS, has already deleted the entry that was there.

`AtomicWallet` is what is left without processes, files and caches: the identities, the
active one and the key, which a command replaces as a whole, and the earlier wallets a
power loss may still bring back. `WalletStore` implements it where one process saves:
`wallet` is what the file under the wallet's name holds (`Saved`), `past` what the files
in `old` hold, and a command takes effect at `Rename`. That the new wallet is made from
the one on the disk, and that the key changes only when the wallet has no identity, is
what a stale cached key, an interrupted save or a forgotten `is_new` would break.

### WalletDoc

`doc` is the envelope in the file: for each predicate the set of objects asserted,
so a field given twice, not at all or with an object of another type is a set that is
no singleton of the right type. `wallet` is `WalletData` in memory. `Load`, `Save`,
`Close`, the edits of identities and `insert_secret`/`remove_secret` are this program;
`Extend`, `Elide`, `Activate` and `AddMlDsa` are another, newer program that edits the
document while this one does not have it open. `added` and `published` (history) are
its assertions and the commitments given away. It does not touch the salt or value of a
secret, so `CommitmentKept` is about what this program does with them. Keys stand for key pairs, so that a
public and a secret half that do not belong together can be told.

### EnclaveKeys

`kind` is one of four constructors: Secure Enclave P-256 and wrapped Ed25519, TPM,
CNG. Each platform call of `load_or_create` is a step of `call[p]`; `Fail`, `Die` and
`LookupError` interrupt it. The platforms differ in what the code asks of them: a
keychain takes a second key under a label and returns either; `evict_control` and
`NCryptFinalizeKey` (without the overwrite flag) refuse a handle or name that is taken;
a TPM primary key is the same every time. `std::fs::write` of the seed is a truncation
(`OpenFile`) and a write, which is carried out (`WriteFile`) or cut off: early, so that what
is there is too short and as good as `Empty` (`Fail`, `Die`), or after the public key
(`WriteCutOff`), so that `load_or_create` takes it for an identity. Other processes see the
file before or after the write: the blob is about a hundred bytes and goes in one call.
The loss of power, after which an unflushed seed may be gone, is left out. The conversions of public keys (`left_pad32`, SEC1, CNG blobs) are over bytes.

### Cbor, NodeAttest, Capability, KeyWrap

`Cbor` is the codec byte for byte; a u64 is its significant bytes, as TLC's integers
end before it. `job`/`out` is one call. What `encode` and `read_value` do by calling
themselves are functions of the depth of nesting there is room for (`MaxDepth`), each level
made of the one below (`ValueWriter`, `ValueReader`), and the loops of `read_value` are functions
of the number of turns (`Times`): the same computation in a form that can be proved about.
Inputs are shorter than `Huge`, 64 KiB. `normal` is what a value means, its maps in the order
of their keys at every level. `NodeAttest` puts the wire form of keys,
signatures and attestations on it and lets devices sign challenges, states and
attestations; a signature is its number. `Capability` has tokens as chains of blocks
of ground facts, one-step rules and checks, and runs the rules with the origins
biscuit-auth keeps, round by round; a run that has not come to rest after `MaxRounds`
rounds (`RunLimits::max_iterations`, 100 by default) is an error, in `parse` as in
`authorize`. The library's limits on time and on the number of facts are left out:
they can only refuse more. `KeyWrap` does Diffie-Hellman in a small group of prime order in
which a Montgomery coordinate forgets the sign and has two encodings.

### ShareAccess

A share is a value; `shares` holds every one ever made, since somebody may still
hold it. A payload and its data key are drawn together and named by one number.
A wrap names its recipient's bytes (`Enc`), under which an Ed25519 target and its
X25519 form coincide; a capsule has a label (`to`) and the key it is really
encrypted to (`for`), which differ when a transform is run with a key for
somebody else. `Wire` holds grants put together from any existing signatures
with changed bodies. Ciphers, signatures and hashes are ideal.

### OpLog

`env` is one envelope on its way: its tree (core map and assertions), which
assertions and signatures are elided, and whether it is wrapped. One envelope is
enough, since `Assemble` can make any other out of what was signed. `issued` are
the signatures that exist. A digest stands for the tree it is taken over, elided
or not, so elision cannot change it (that is the envelope library's promise,
external here); what the code has to get right is which digest it signs,
compares and re-creates. `from_envelope` yields the set of its results: empty
for an error, several only where a target or timestamp is given twice and the
digest order picks. `spoiled` sums up every change after which nothing decodes.
`Foreign` envelopes come from other implementations: a later format, a key or
predicate outside the profile, a field given twice. `Sign`, `SignSalted`,
`SignForeign`, `CounterSign` and `ReEncode` are the crate's calls with decoding
and encoding around them; the rest are things any holder can do with the
envelope library. The `content_hash` that `decode_and_verify` also returns is the
tree of the re-encoded op and is not kept.

## 3. What the runs show

| Run | Instance and bounds | Result |
|---|---|---|
| `pq_chain` | two verifiers; eight records around two inceptions, siblings, a skipped number, the last number and a change of identity while key `k1` equivocates; or two migrations of one classical identity with rotations, honest signers and forgeries once classical signatures broke | `HeadAuthorised`, `Accountability`, `NoFalseFork`, `EitherOrder`, `Agreement`, `NoRewind` hold |
| `auth_race` | two handlers, two services of different policies on one store, a release and a debug build, clock 0..2 stepped freely, replays, rogue answers, gc, and eleven malformed or edge responses with windows up to the last u64 | `OneShot`, `AcceptedSound`, `NoBurn`, `TimelyAccepted`, `ImplementsOneShot` hold |
| `auth_skew` | one handler without crafted responses, clock 0..3 | `SkewTolerated` is **violated** (finding 1) |
| `parts_alone` | five parts, one per behaviour: three authors, two wall readings and a foreign op with `u64::MAX` = 5; 30 000 byte strings at the edges of every head and 2 000 values, nested up to three deep; two devices whose keys share their bytes, three signatures; chains of three blocks out of forty, two roots, two holders, three rounds of rules, which some chains exceed; groups of order 5, four secrets, two wraps | `TypeOK`, `CausalOrder`, `BoundedDrift` (clock), `Canonical` (codec), `AttestationSound`, `Narrowing`, `HolderBound` (tokens), `WrapSound` hold |
| `wallet_crash` | one writer and one process that reads and locks, two names, two passwords, two salts, death and power loss at every step | `WalletIntact`, `SavedStays`, `LockHolds`, `Openable`, `ActiveExists` and the refinement `ImplementsAtomic` hold |
| `wallet_shared_tmp` | two writers | `WalletIntact` is **violated** (finding 2) |
| `wallet_relative_path` | one process, a path that canonicalisation changes | `LockHolds` is **violated** (finding 3) |
| `share_grants` | two secrets, three targets of which two coincide in bytes, three capsule recipients of two backends, two signers, two epochs, four shares, one grant | `Decodable`, `ListedOpen`, `GrantSound`, `HandingOn` hold |
| `op_life` | two authors, one with an ML-DSA key, one op with repeated dependencies, two that do not encode, three foreign envelopes, two signatures | `SignedByActor`, `SurvivesElision`, `ByteStable` hold |
| `enclave` | three processes, four kinds of signer, two errors, crashes or cut-off writes, coordinates of two bytes | `StableIdentity`, `SignsAsItself`, `OneEncoding`, `SeedStays` and, under fairness, `Usable` hold |
| `enclave_stranded` | two processes | `LoadsOrCreates` is **violated** (finding 4) |
| `wallet_doc` | two names, two keys, one secret id, good and refused labels and values, two salts, one unknown assertion, two edits by the other program | `Reopens`, `ExtKept`, `CommitmentKept` hold |

Why the bounds are enough: every property relates at most two verifiers,
handlers, processes or shares and one record, nonce or name, and two of each are
there whenever interference between them is the question. Counters are bounded so that
their last value is reached (`MaxSeq`, `W`, `U64Max`). Two salts let a wallet be
emptied and started anew; two inodes are what one writer needs, the named file and
the temporary one, and `wallet_shared_tmp` has a third that stays open. Two
signatures are one beside another, or one taken from an op and put on the next. Values nest
three deep because attestations do (`NodeAttestAssumption`), and two devices sign for one
another's nodes and logins with up to three signatures. Four shares suffice for a share, an
extension of it, a rotation and a sibling of either. Three
processes can look a key up, create and persist it in any order with a bystander, and
two interruptions are one on either side of a retry. What the bounds could hide
is what the proofs are for. Three cases lie outside every passing run: `Openable` and `ActiveExists`
with several writers and the lost updates between them, which `OpenableAlways` and
`ActiveExistsAlways` prove for any set of writers; grants over more than one content, which
`GrantSoundAlways` covers; and `LockHolds` where the path is not canonical, which is finding 3.

The type invariant of a module with proofs is a theorem (`TypeCorrect`), and
`parts_alone` checks that of the clock; `MemoryConsistent` of the state chain is part of
`HeadAuthorisedAlways` and is left to the proof as well. `OneUniverse` and
`EdgesAlone` restrict the merged instances to combinations that can interact: records
of the rotation and the migration universe name different identities, and a
malformed response is refused before it touches what another handler uses.

`CHECK_DEADLOCK FALSE` is set for the state chain and the shares, where all
signatures or all shares of the bounded universe can have been made, for the document,
which another program may leave in a form that does not open once its edits are used
up, and for `parts_alone`, where a codec call returns and token chains and wraps are
bounded.

Fairness: only `EnclaveKeys` assumes any, weak fairness of `load_or_create(p)` for every
process: the operating system schedules it, platform calls return, and a caller without
a signer asks again. Errors, crashes and dropped signers are not fair, and errors and
crashes are finitely many. `Usable` is then the promise that nothing left behind by
them keeps a process from its signer. The other crates are libraries in
which nothing schedules a retry, a delivery or a garbage collection, so no progress
would be justified by the code; what must not be refused is stated as a
property of the step that answers (`TimelyAccepted`, `HandingOn`, `EitherOrder`).

### Findings

1. `crates/auth/verify.rs:77`: the window check of `verify_response` tolerates
   `skew_secs` at both ends, but it then hands the unskewed `now` to `consume`,
   which refuses anything after the recorded expiry. An answer inside the
   documented skew after expiry is refused. (`AuthSkew.cfg`)
2. `crates/wallet/storage.rs:260`: the temporary name is a function of the
   wallet's name. Two concurrent saves share one temporary file, and the first
   rename puts the half-written file of the other under the wallet's name: the
   write the comment calls atomic is not. (`WalletSharedTmp.cfg`)
3. `crates/wallet/credential.rs:18`: the keychain account is the canonical path
   if the file exists and the raw path otherwise. With a relative or symlinked
   path the first save caches the key under the raw account, and `lock`
   clears the canonical one. (`WalletRelativePath.cfg`)
4. `crates/auth/enclave/macos.rs:246`: the wrapping key of the Ed25519 identity is in
   the keychain before the wrapped seed is on the disk. If the process dies or the
   write fails in between, every later `load_or_create` finds the key, misses the seed
   and returns an error: it neither loads nor creates. (`EnclaveStranded.cfg`)

More observations, without a run of their own. The comment at `hlc.rs:31`
calls `l` a strict order for one author; `saturating_add` ends that at
`u64::MAX`, and `OwnOrderAlways` states the headroom under which it holds.
`Share::open` compares recipient bytes as they are, so a target given in a
non-canonical X25519 encoding is listed but its holder's secret, which yields the
canonical bytes, finds no wrap; this is the hypothesis of `ListedOpenAlways`.
`decode` accepts a target or timestamp that is given twice, although the profile's
table calls them not repeatable, and ignores unknown keys of the core map; such
envelopes re-encode to other bytes, which is why `ByteStable` is about envelopes
of the profile (`Profiled`). Decoding also drops the salts of assertions and
reports nothing elided, so `verify` refuses the decoded form of a salted op whose
envelope `verify_envelope` accepts, and `counter_sign`, which signs the decoded op
encoded anew, signs another envelope than the author did, where `sign.rs:83` says
that every signature covers the same one (`SignSalted`, then `CounterSign`); the
two together verify nowhere.

On macOS two processes that create at once, or a keychain search that fails although
the key is there, put two keys under one label, and a search returns either: `Doubled`
is the exception in `StableIdentity`, `SignsAsItself` and `SeedStays`. A seed that was cut off
after the public key passes the length check of `macos.rs:234`: the signer then reports the
right key and fails at every signature, which is the other exception in `SignsAsItself`, and
since the key is found nothing writes the file anew (`SeedStays` holds of it too). Loading and
saving a wallet document drops elided assertions, and an active identity or ML-DSA key that is given
twice reads as absent and is not written back; `ExtKept` is about assertions that are there in full.
The epoch of a wrap is in neither the key derivation nor the associated data,
so it can be changed on the way (`WrapSound` excepts it; inside a share the decoder compares it with the share's epoch,
which a grant signs).
The post-quantum key in a node attestation signs beside the classical key and is not bound
to it: `AttestationSound` says that some post-quantum key signed. `secret_commit`
concatenates its inputs without separators. `arg as usize` in the CBOR decoder
cuts lengths on 32-bit targets; the model is of 64 bits. The directory is not flushed
after the rename in `write_secret_file`, so a reported save may be undone by a power
loss, back to the file before (`PowerLoss` has this, and `SavedStays` counts from the last one).

## 4. What is proved

All proofs hold for every value of the constants that satisfies the named
assumptions of the module (`RecAssumption`, `AuthAssumption`, `ClockAssumption`,
`WalletAssumption`, `ShareAssumption`, `ConstantsAssumption`, `EnclaveAssumption`,
`WalletDocAssumption`, `CapabilityAssumption`, `WrapAssumption`, `CborAssumption`,
`NodeAttestAssumption` and those on the "none" values). They ask for no more than that functions have their domains, that
the "none" values are none of the others, and that numbers are naturals; in
addition: an inception key determines its identity (`XidFor` is injective, a hash
in the code), clock plus TTL and clock plus skew fit in u64, the nonces that
`nonce.rs` draws have the length `verify_response` asks for, one point has one
secret, no two devices share a key, inputs of the codec are shorter than 64 KiB and the maps it
encodes name no key twice (all callers give literal keys). Five theorems have a hypothesis of their own, stated in the theorem:
`ListedOpenAlways` and `HandingOnAlways` that targets are encoded canonically (see
the observation on `Share::open` above), `WalletIntactAlways` and
`ImplementsAtomicAlways` that one process
writes at a time (finding 2 is what happens otherwise), and `LockHoldsAlways` that
the wallet's path is its canonical path (finding 3). Each is satisfied by the
instance of the run that checks the same property.

* **PQStateChain.** `TypeCorrect`; `HeadAuthorisedAlways`, which includes
  `MemoryConsistent`; `AccountabilityAlways`, `NoFalseForkAlways`,
  `NoRewindAlways`, `AgreementAlways`. `HeadAuthorised` is not inductive: to
  accept or convict a sibling one needs to know that `Parent` really describes
  the record before the head, and that forgeries only exist after the break
  (`ForgeryLate`). `ObserveOutcome` reduces `observe` to four outcomes once, and
  the theorems are case splits over these. Accountability goes by
  extending one chain of a pair at a time. Agreement follows from accountability
  and from honest signers never having signed a split. `EitherOrderAlways`
  follows two calls of `observe` in either order: the first sibling becomes the
  head and the old head its `Parent` (`SeesFirst`), against which the second
  convicts (`SeesSecond`).
* **AuthChallenge.** `TypeCorrect`, `OneShotAlways`, `NoBurnAlways`,
  `AcceptedSoundAlways`, `ImplementsOneShotAlways` (refinement of `OneShotAuth`),
  `TimelyAcceptedAlways`.
  The invariant ties the history to the store: an accepted nonce is used or gone,
  and an entry is there only if it was issued; since no nonce is drawn twice gc can
  forget without making it answerable again. Soundness needs that every entry
  belongs to an issued challenge with the same expiry, and that wrapping a sum
  never makes it larger (`WrapShrinks`). That a timely answer is accepted needs the
  converse (`TimelyInv`): a challenge that nobody answered and no gc has reached still
  has its entry, unused and with its own expiry.
* **HybridClock.** `TypeCorrect`, `CausalOrderAlways`, `BoundedDriftAlways` and
  `OwnOrderAlways` (if `Peak + MaxOps < U64Max`). The invariant: a clock is never
  behind an op in its author's causal past.
* **WalletStore.** `TypeCorrect`, `OpenableAlways`, `ActiveExistsAlways`, for any
  number of writers with deaths and power losses. The invariant follows every
  encrypted wallet through memory, page cache and disk: each half anywhere is
  empty or of a blob whose salt and key belong together. `WalletIntactAlways`, for one
  writer: its position in `write_secret_file` says how much of the temporary file
  is written and flushed, and the file under the wallet's name is whole in the cache
  and on the disk, as is the one a power loss may bring back (`IntactInv`).
  `SavedStaysAlways`: the file has what was reported (`Has`), and so has the data of
  every running command, but for the name it deletes (`Due`, `Holds`), so that no rename
  loses it (`SaveInv`). `LockHoldsAlways`: no key is ever stored under the raw account,
  and while the wallet is locked nothing runs and the canonical one is empty (`LockInv`).
  `ImplementsAtomicAlways` (refinement of `AtomicWallet`): from `Load` to `Rename` the
  writer holds the wallet as it is on the disk, then what its command makes of it
  (`UpToDate`, `Outcome`), since nobody else saves and a power loss ends it; every step
  but `Rename`, `WriteBack` and `PowerLoss` leaves the wallet and the earlier ones alone
  (`WalletStays`).
* **ShareAccess.** `TypeCorrect`, `DecodableAlways`, `ListedOpenAlways` (for
  canonically encoded targets), `GrantSoundAlways`, `HandingOnAlways`. The invariant `Sound` says that
  wraps and targets pair up, hold the payload's key, carry the epoch, and that no
  recipient occurs twice; without the last part the first match would decide who
  opens and the order the commitment forgets would matter. `Recorded` ties
  signatures to what the signer saw. What handing on does to the readers follows from
  `Sound` of the share before and after (`AddReaders`, `TransformReaders`).
* **OpLog.** `TypeCorrect`, `SignedByActorHolds`, `SurvivesElisionHolds`,
  `ByteStableHolds`. The
  invariant adds to the types that an envelope's signatures are among the issued
  ones and that these are finite. Soundness takes one visible signature, which is
  the actor's and over the whole tree, and compares that tree with what the
  decoder reads from the visible part (`ShownClaimed`, `ClaimedShown`); that an
  elision count of zero means nothing is hidden needs finite sets (`NothingHidden`).
  Stability is that the re-encoded tree is the decoded one, assertion by assertion
  (`RepeatedBack`, `OptionalBack`, `SameTree`). Values and
  salts are assumed to be finitely many, as 32-byte strings and u64 are.

* **WalletDoc.** `WalletDocTypeCorrect`, `ReopensAlways`, `ExtKeptAlways`,
  `CommitmentKeptAlways`, for any names, keys, secrets, assertions and edits. The
  invariant `DocInv`: a wallet in memory is `Sound`, that is fingerprints match and labels
  and values pass their checks, which `WalletRoundTrip` turns into `Reopens`; while it is open, every
  assertion that was added is in memory too unless its owner is in `gone` (`ExtOpen`, without which
  a save could lose it); every secret in the document has a published commitment.
* **EnclaveKeys.** `EnclaveTypeCorrect`, `StableIdentityAlways`, `SignsAsItselfAlways`,
  `SeedStaysAlways`, `OneEncodingAlways`, for any number of processes and faults and any
  width of coordinates. The invariant `EnclaveInv`:
  on TPM and CNG the store has one key at most; keys that were handed out, written to the
  seed file, or taken by a call or signer are in the store, since nothing is deleted
  from it; a call about to write the seed is the only one with its key and the
  file does not hold that key's seed yet, so that whoever overwrites a
  seed, whole or cut off, does it with a second key.

* **Capability.** `NarrowingAlways`, `HolderBoundAlways`, for chains of any length and
  blocks of any ground Datalog. The world of a prefix of a chain is the part of the whole
  chain's world that stems from the prefix (`PrefixWorld`), because a rule fires on, and
  yields, facts of trusted origin only (`PrefixStep`); so a prefix comes to rest
  when the chain does and its checks pass when the chain's do. Once `reject_holder_facts`
  has passed a token, every holder fact is the authorizer's (`OnlyInjectedHolder`). Both
  are inductions on the rounds. The library's induction theorems are of no use to the
  provers here, so `NumberInduction` is derived from the well-foundedness of the naturals for sets of
  numbers, and `RoundsOf` that the recursive function is what its definition says.
* **KeyWrap.** `WrapSoundAlways`, for a group of any order. Every wrap is one that `seal`
  returned (`WrapInv`); that the recipient derives the sealer's key is `FoldSign`, the coordinate
  of a product does not depend on the sign of a factor; that nothing else opens is
  the key derivation, which has both public keys in it.

* **Cbor.** `CanonicalAlways`, from `DecodeEncode` (what `from_bytes` accepts is what `to_bytes`
  writes for it) and `EncodeDecode` (what `to_bytes` writes is accepted and means the same), for
  all inputs, values and depths. A level of the reader has two properties given those of the
  level below: what it reads stands where it was read, as the writer writes it (`Reads`,
  `ReaderReads`), and what the writer wrote is read wherever it stands (`Rereads`,
  `ReaderRereads`); `AllReads` and `AllRereads` are the inductions on the depth, `LoopReads` and
  `LoopRereads` those on the turns of a loop. At the bottom are heads: the smallest form is
  unique, for arguments of any of the five widths (`HeadRead`, `HeadWritten`, with `StripPad` and
  `PadStrip` for leading zeros). Maps need that the order of encoded keys is total and that
  different keys are encoded differently (`KeyOrder`, `KeyInjective`), so that entries in order
  are their own sorting (`SortedSame`) and sorting loses none (`SortedFacts`). Each recursive
  function is shown to be what its definition says (`ValueOf`, `EncodeOf`, `NormalOf`,
  `ReadOf`, `TimesOf`) by the induction that `Parts_proof` has too.
* **NodeAttest.** `AttestationSoundAlways`, for any devices, nodes and number of signatures. Since
  values with the same bytes mean the same (`SameBytes`), the payloads of nodes, logins and states
  never coincide (`PayloadsDiffer`) and a fingerprint determines its key (`FingerprintInjective`);
  an attestation arrives as it was sent, or not at all if one post-quantum field is missing
  (`WireArrives`). The invariant `AttestInv` says that every signature made is a device's, over a
  login, a state or a node the device attested.

Only model-checked: the liveness property `Usable`, since fairness and `ENABLED` are out of the
prover's reach.

## 5. Not modelled

* Cryptography itself: signatures verify or do not, ciphers and hashes are ideal.
* The bytes of the envelope library (dCBOR): where a decoder's acceptance matters
  to a property it is a predicate (`WellFormed`, `from_cbor_accepts`, `Opens`).
* Session keys of the enclaves (`create_ephemeral`) and `exists`, which share nothing; handles
  leaked on error paths of `windows.rs`. That CNG refuses to finalize a key under a
  name that is taken is assumed, from how the code calls it.
* The environment-variable key provider and the legacy keychain account of the wallet: they
  only read, or are used by no command.
* The `Bearer` header, `token_identity` and `secret_commit` of the capability crate, and
  base58: conversions without state.
* Admission (`crates/admit`): validators of one JSON value with a vocabulary of verdicts.
* The wasm entry points of the op log: the host's randomness and re-exports.
* `vendor/`: third-party code.

## 6. Plan

Order of the work, most important behaviour first. Steps 1 to 11 are done.

1. State chain with two verifiers and equivocation; proofs of its invariants.
2. Challenge-response with its refinement of one-shot tickets.
3. Hybrid logical clock.
4. Wallet file under crashes and several processes.
5. Shares and grants.
6. `OpLog`: ops as digest trees, signatures over the root, counter-signing, elision.
7. `EnclaveKeys` with its proofs and liveness.
8. `WalletDoc`: the document inside the wallet file, with its proofs.
9. `Cbor`, `NodeAttest`, `Capability`, `KeyWrap`.
10. Proofs of every invariant and action property the runs check, those of the recursive codec
    and of attestations included.
11. An abstract specification of the wallet (a map of identities that changes atomically)
    refined by `WalletStore` with one writer, and the proof.
12. The composition of `OpLog` with `HybridClock`, in which the order a log yields
    is the causal order.
