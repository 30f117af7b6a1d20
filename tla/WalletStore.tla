---------------------------- MODULE WalletStore ----------------------------
(***************************************************************************)
(* The wallet file and its cached key: Wallet::load, Wallet::save and      *)
(* write_secret_file (identikey-wallet storage.rs), the file cipher        *)
(* (format.rs), the keychain entries (credential.rs) and the commands of   *)
(* the ikey CLI (main.rs), run by processes that share one wallet path.    *)
(*                                                                         *)
(* A process may die between any two steps.  The machine may lose power:   *)
(* blocks not yet flushed by sync_all may be missing afterwards, and a     *)
(* rename not yet written back may be undone.  The file system and the     *)
(* keychain are external and modelled from how the code uses them.         *)
(***************************************************************************)
EXTENDS Naturals

CONSTANTS
    Proc,            \* processes
    Writer,          \* the processes that run the commands which save
    Name,            \* identity names
    Pw,              \* passwords users type
    MaxId,           \* bound on identities created
    MaxSalt,         \* bound on salts drawn
    MaxInode,        \* bound on files alive at once
    PowerFails,      \* TRUE if power may be lost
    PathIsCanonical, \* FALSE if the wallet path is relative or goes through a link
    NoName, Hole, ZeroKey, NoKey

ASSUME WalletAssumption ==
    /\ Writer \subseteq Proc
    /\ MaxId \in Nat /\ MaxSalt \in Nat /\ MaxInode \in Nat
    /\ PowerFails \in BOOLEAN /\ PathIsCanonical \in BOOLEAN
    /\ NoName \notin Name

\* identities: name -> serial number of the key pairs, 0 if there is none.
WalletData == [ids : [Name -> 0 .. MaxId], active : Name \cup {NoName}]

Salt == 0 .. MaxSalt
Key == (Pw \X Salt) \cup {ZeroKey}

\* An encrypted wallet.  Encryption draws a nonce, so the writer is part of it.
Blob == [data : WalletData, key : Key, salt : Salt, by : Proc]

Block == Blob \cup {Hole}
Inode == 1 .. MaxInode
Account == {"raw", "canonical"}

ASSUME WalletNoneAssumption ==
    Hole \notin Blob /\ ZeroKey \notin (Pw \X Salt) /\ NoKey \notin Key

VARIABLES
    run,       \* process -> what it is doing
    dir,       \* the two directory entries, 0 if absent
    file,      \* inode -> its two halves, as processes read them
    durable,   \* inode -> its two halves on the disk, kept if PowerFails
    old,       \* inodes the wallet's name may have again after a power loss
    keychain,  \* account -> cached key
    ids,       \* identities created so far
    salts,     \* salts drawn so far
    kept,      \* identities reported since power was lost, not deleted since (history)
    locked     \* Lock was the last command, nothing else running (history)

vars == <<run, dir, file, durable, old, keychain, ids, salts, kept, locked>>

Disk == <<dir, file, durable, old>>

-----------------------------------------------------------------------------
(* WalletData, format.rs and credential.rs. *)

WalletData_new == [ids |-> [n \in Name |-> 0], active |-> NoName]

is_new(data) == \A n \in Name : data.ids[n] = 0

\* Mutant: the salt is left out.
derive_key_Unsalted(pw, salt) == pw

derive_key(pw, salt) == <<pw, salt>>

encrypt_wallet_with_key(data, key, salt, p) ==
    [data |-> data, key |-> key, salt |-> salt, by |-> p]

Whole(content) == content[1] # Hole /\ content[1] = content[2]

\* The AEAD opens what is whole and sealed under the key.
Decrypts(content, key) == Whole(content) /\ content[1].key = key

\* The keychain account of a path: canonicalize fails while no file is there.
account_name_for_wallet(exists) ==
    IF exists \/ PathIsCanonical THEN "canonical" ELSE "raw"

\* An entry that cannot be read is treated as none.
get_key(acct) == keychain[acct]

clear_key(acct) == keychain' = [keychain EXCEPT ![acct] = NoKey]

\* Storing a key may fail, which is reported and otherwise ignored; macOS has
\* deleted the old entry by then.
store_key(acct, key) ==
    \/ keychain' = [keychain EXCEPT ![acct] = key]
    \/ UNCHANGED keychain
    \/ clear_key(acct)

-----------------------------------------------------------------------------
Idle == [pc |-> "idle", op |-> "none", name |-> NoName, data |-> WalletData_new,
         key |-> ZeroKey, salt |-> 0, read |-> <<Hole, Hole>>, acct |-> "raw",
         fd |-> 0]

Init ==
    /\ run = [p \in Proc |-> Idle]
    /\ dir = [wallet |-> 0, tmp |-> 0]
    /\ file = [i \in Inode |-> <<Hole, Hole>>]
    /\ durable = file
    /\ old = {}
    /\ keychain = [a \in Account |-> NoKey]
    /\ ids = 0 /\ salts = 0
    /\ kept = {}
    /\ locked = FALSE

-----------------------------------------------------------------------------
(* Wallet::load. *)

Enter(p, r) == run' = [run EXCEPT ![p] = r]

Leave(p) == run' = [run EXCEPT ![p] = Idle]

\* Mutant: a file the cached key does not open counts as new.
Load_EmptyOnError(p, op, n) ==
    LET content == file[dir.wallet]
        key == get_key(account_name_for_wallet(TRUE))
        r == [Idle EXCEPT !.pc = "loaded", !.op = op, !.name = n]
    IN  /\ run[p].pc = "idle"
        /\ p \in Writer <=> op # "look"
        /\ locked' = FALSE
        /\ \/ dir.wallet = 0 /\ Enter(p, r)
           \/ /\ dir.wallet # 0 /\ Decrypts(content, key)
              /\ Enter(p, [r EXCEPT !.data = content[1].data, !.key = key,
                                    !.salt = content[1].salt])
           \/ dir.wallet # 0 /\ ~Decrypts(content, key) /\ Enter(p, r)
        /\ UNCHANGED <<Disk, keychain, ids, salts, kept>>

\* A command starts and loads the wallet: no file is a new wallet with a
\* placeholder key; a file too short for its header is an error; a cached key
\* that opens the file is used; in all other cases the password is asked for.
Load(p, op, n) ==
    LET content == file[dir.wallet]
        key == get_key(account_name_for_wallet(TRUE))
        r == [Idle EXCEPT !.pc = "loaded", !.op = op, !.name = n]
    IN  /\ run[p].pc = "idle"
        /\ p \in Writer <=> op # "look"
        /\ locked' = FALSE
        /\ \/ dir.wallet = 0 /\ Enter(p, r)
           \/ dir.wallet # 0 /\ content[1] = Hole /\ UNCHANGED run
           \/ /\ dir.wallet # 0 /\ Decrypts(content, key)
              /\ Enter(p, [r EXCEPT !.data = content[1].data, !.key = key,
                                    !.salt = content[1].salt])
           \/ /\ dir.wallet # 0 /\ content[1] # Hole
              /\ Enter(p, [r EXCEPT !.pc = "prompt", !.read = content])
        /\ UNCHANGED <<Disk, keychain, ids, salts, kept>>

\* The user types a password; a key that opens what was read is cached.
Prompt(p, pw) ==
    LET r == run[p]
        salt == r.read[1].salt
        key == derive_key(pw, salt)
    IN  /\ r.pc = "prompt"
        /\ IF Decrypts(r.read, key)
           THEN /\ store_key("canonical", key)
                /\ Enter(p, [r EXCEPT !.pc = "loaded", !.data = r.read[1].data,
                                      !.key = key, !.salt = salt,
                                      !.read = <<Hole, Hole>>])
           ELSE Leave(p) /\ UNCHANGED keychain
        /\ UNCHANGED <<Disk, ids, salts, kept, locked>>

-----------------------------------------------------------------------------
(* The commands of ikey, on a loaded wallet, up to their call of save. *)

\* Mutant: is_new is not looked at, every save chooses a password.
Save_AlwaysNew(p, data, isNew) ==
    Enter(p, [run[p] EXCEPT !.data = data, !.pc = "newkey",
                            !.acct = account_name_for_wallet(dir.wallet # 0)])

\* Wallet::save picks the provider, then asks for a password if is_new.
Save(p, data, isNew) ==
    Enter(p, [run[p] EXCEPT !.data = data, !.pc = IF isNew THEN "newkey" ELSE "open",
                            !.acct = account_name_for_wallet(dir.wallet # 0)])

Doing(p, op) == run[p].pc = "loaded" /\ run[p].op = op

NewIdentity(p) ==
    LET data == run[p].data
        n == run[p].name
    IN  /\ Doing(p, "new")
        /\ IF data.ids[n] # 0 THEN Leave(p) /\ UNCHANGED ids
           ELSE /\ ids < MaxId
                /\ ids' = ids + 1
                /\ Save(p, [ids |-> [data.ids EXCEPT ![n] = ids + 1],
                            active |-> IF data.active = NoName THEN n ELSE data.active],
                        is_new(data))
        /\ UNCHANGED <<Disk, keychain, salts, kept, locked>>

UseIdentity(p) ==
    /\ Doing(p, "use")
    /\ IF run[p].data.ids[run[p].name] = 0 THEN Leave(p)
       ELSE Save(p, [run[p].data EXCEPT !.active = run[p].name], FALSE)
    /\ UNCHANGED <<Disk, keychain, ids, salts, kept, locked>>

\* Mutant: the active identity is not cleared.
DeleteIdentity_KeepsActive(p) ==
    /\ Doing(p, "delete")
    /\ IF run[p].data.ids[run[p].name] = 0 THEN Leave(p)
       ELSE Save(p, [run[p].data EXCEPT !.ids[run[p].name] = 0], FALSE)
    /\ UNCHANGED <<Disk, keychain, ids, salts, kept, locked>>

DeleteIdentity(p) ==
    LET data == run[p].data
        n == run[p].name
    IN  /\ Doing(p, "delete")
        /\ IF data.ids[n] = 0 THEN Leave(p)
           ELSE Save(p, [ids |-> [data.ids EXCEPT ![n] = 0],
                         active |-> IF data.active = n THEN NoName ELSE data.active],
                     FALSE)
        /\ UNCHANGED <<Disk, keychain, ids, salts, kept, locked>>

\* identity list, identity show and wallet unlock.
Look(p) ==
    /\ Doing(p, "look") /\ Leave(p)
    /\ UNCHANGED <<Disk, keychain, ids, salts, kept, locked>>

\* Mutant: the entry cleared is the one of LEGACY_ACCOUNT_NAME.
Lock_Legacy(p) ==
    /\ run[p].pc = "idle"
    /\ locked' = \A q \in Proc : run[q].pc = "idle"
    /\ UNCHANGED <<run, Disk, keychain, ids, salts, kept>>

\* wallet lock clears the entry of the path's account, or reports an error.
Lock(p) ==
    LET acct == account_name_for_wallet(dir.wallet # 0)
    IN  /\ run[p].pc = "idle"
        /\ clear_key(acct)
        /\ locked' = \A q \in Proc : run[q].pc = "idle"
        /\ UNCHANGED <<run, Disk, ids, salts, kept>>

-----------------------------------------------------------------------------
(* Wallet::save. *)

\* Mutant: the salt in the header is the one drawn by load.
NewKey_OldSalt(p, pw) ==
    LET key == derive_key(pw, salts + 1)
    IN  /\ run[p].pc = "newkey" /\ salts < MaxSalt
        /\ salts' = salts + 1
        /\ store_key(run[p].acct, key)
        /\ Enter(p, [run[p] EXCEPT !.pc = "open", !.key = key])
        /\ UNCHANGED <<Disk, ids, kept, locked>>

\* A new wallet: the user chooses a password, a salt is drawn and the key is
\* cached before anything is written.
NewKey(p, pw) ==
    LET key == derive_key(pw, salts + 1)
    IN  /\ run[p].pc = "newkey" /\ salts < MaxSalt
        /\ salts' = salts + 1
        /\ store_key(run[p].acct, key)
        /\ Enter(p, [run[p] EXCEPT !.pc = "open", !.key = key, !.salt = salts + 1])
        /\ UNCHANGED <<Disk, ids, kept, locked>>

Fds == {run[q].fd : q \in Proc}

\* Inodes nothing refers to.
Free == Inode \ ({dir.wallet, dir.tmp} \cup old \cup Fds)

\* What is left of the contents once inodes nothing refers to are gone.
Only(live, contents) ==
    [i \in Inode |-> IF i \in live THEN contents[i] ELSE <<Hole, Hole>>]

\* write_secret_file opens the temporary file, whose name is fixed, and
\* truncates it if it is there.
OpenTmp(p) ==
    /\ run[p].pc = "open"
    /\ \E i \in IF dir.tmp # 0 THEN {dir.tmp}
                ELSE {j \in Free : \A k \in Free : j <= k} :
          /\ dir' = [dir EXCEPT !.tmp = i]
          /\ file' = [file EXCEPT ![i] = <<Hole, Hole>>]
          /\ durable' = IF dir.tmp # 0 THEN durable
                        ELSE [durable EXCEPT ![i] = <<Hole, Hole>>]
          /\ Enter(p, [run[p] EXCEPT !.pc = "first", !.fd = i])
    /\ UNCHANGED <<old, keychain, ids, salts, kept, locked>>

\* write_all writes one half, then the other, at the offsets of this writer.
WriteHalf(p, half, from, to) ==
    LET r == run[p]
        blob == encrypt_wallet_with_key(r.data, r.key, r.salt, p)
    IN  /\ r.pc = from
        /\ file' = [file EXCEPT ![r.fd] = IF half = 1 THEN <<blob, @[2]>>
                                         ELSE <<@[1], blob>>]
        /\ Enter(p, [r EXCEPT !.pc = to])
        /\ UNCHANGED <<dir, durable, old, keychain, ids, salts, kept, locked>>

\* Mutant: the file is not flushed.
SyncAll_Skipped(p) ==
    /\ run[p].pc = "sync"
    /\ Enter(p, [run[p] EXCEPT !.pc = "rename"])
    /\ UNCHANGED <<Disk, keychain, ids, salts, kept, locked>>

SyncAll(p) ==
    /\ run[p].pc = "sync"
    /\ durable' = IF PowerFails THEN [durable EXCEPT ![run[p].fd] = file[run[p].fd]]
                  ELSE durable
    /\ Enter(p, [run[p] EXCEPT !.pc = "rename"])
    /\ UNCHANGED <<dir, file, old, keychain, ids, salts, kept, locked>>

\* SavedStays is about one writer; the history it needs is kept for one only.
Serial == \A p, q \in Writer : p = q

\* What the report of a finished command says about identities.
Reported(r) ==
    IF ~Serial THEN kept ELSE
    CASE r.op = "new"    -> kept \cup {<<r.name, r.data.ids[r.name]>>}
      [] r.op = "delete" -> {k \in kept : k[1] # r.name}
      [] OTHER           -> kept

\* The temporary file, whatever it is by now, takes the wallet's name.
Rename(p) ==
    /\ run[p].pc = "rename"
    /\ IF dir.tmp = 0 THEN UNCHANGED <<Disk, kept>>
       ELSE LET was == IF PowerFails THEN old \cup {dir.wallet} ELSE old
                live == {dir.tmp} \cup was \cup Fds
            IN  /\ dir' = [wallet |-> dir.tmp, tmp |-> 0]
                /\ old' = was
                /\ file' = Only(live, file) /\ durable' = Only(live, durable)
                /\ kept' = Reported(run[p])
    /\ Leave(p)
    /\ UNCHANGED <<keychain, ids, salts, locked>>

-----------------------------------------------------------------------------
(* Failures and the operating system. *)

\* A process dies, or an error of the file system ends its command.
Die(p) ==
    /\ run[p].pc # "idle" /\ Leave(p)
    /\ UNCHANGED <<Disk, keychain, ids, salts, kept, locked>>

\* The operating system gets round to writing everything back, which only a
\* power loss can tell.
WriteBack ==
    /\ PowerFails
    /\ old # {} \/ durable # file
    /\ file' = Only({dir.wallet, dir.tmp} \cup Fds, file)
    /\ durable' = file' /\ old' = {}
    /\ UNCHANGED <<run, dir, keychain, ids, salts, kept, locked>>

\* Power is lost.  Halves that were not flushed may be as they were on the
\* disk, and the wallet's name may be back at an earlier file.
PowerLoss(w, stale) ==
    LET tmp == IF w = dir.wallet THEN dir.tmp ELSE dir.wallet
        Half(i, h) == IF <<i, h>> \in stale THEN durable[i][h] ELSE file[i][h]
        after == Only({w, tmp}, [i \in Inode |-> <<Half(i, 1), Half(i, 2)>>])
    IN  /\ PowerFails
        /\ run' = [p \in Proc |-> Idle]
        /\ dir' = [wallet |-> w, tmp |-> tmp]
        /\ file' = after /\ durable' = after
        /\ old' = {}
        /\ kept' = {}
        /\ UNCHANGED <<keychain, ids, salts, locked>>

\* The halves a power loss can matter to.
Unflushed == {x \in Inode \X (1 .. 2) : durable[x[1]][x[2]] # file[x[1]][x[2]]}

Command == {"new", "use", "delete", "look"}

Next ==
    \/ \E p \in Proc, op \in Command, n \in Name : Load(p, op, n)
    \/ \E p \in Proc, pw \in Pw : Prompt(p, pw)
    \/ \E p \in Proc : NewIdentity(p)
    \/ \E p \in Proc : UseIdentity(p)
    \/ \E p \in Proc : DeleteIdentity(p)
    \/ \E p \in Proc : Look(p)
    \/ \E p \in Proc : Lock(p)
    \/ \E p \in Proc, pw \in Pw : NewKey(p, pw)
    \/ \E p \in Proc : OpenTmp(p)
    \/ \E p \in Proc : WriteHalf(p, 1, "first", "second")
    \/ \E p \in Proc : WriteHalf(p, 2, "second", "sync")
    \/ \E p \in Proc : SyncAll(p)
    \/ \E p \in Proc : Rename(p)
    \/ \E p \in Proc : Die(p)
    \/ WriteBack
    \/ \E w \in old \cup {dir.wallet}, stale \in SUBSET Unflushed : PowerLoss(w, stale)

Spec == Init /\ [][Next]_vars

-----------------------------------------------------------------------------
Running ==
    [pc : {"idle", "prompt", "loaded", "newkey", "open", "first", "second",
           "sync", "rename"},
     op : Command \cup {"none"}, name : Name \cup {NoName},
     data : WalletData, key : Key, salt : Salt, read : Block \X Block,
     acct : Account, fd : 0 .. MaxInode]

TypeOK ==
    /\ run \in [Proc -> Running]
    /\ dir \in [wallet : 0 .. MaxInode, tmp : 0 .. MaxInode]
    /\ file \in [Inode -> Block \X Block]
    /\ durable \in [Inode -> Block \X Block]
    /\ old \subseteq 0 .. MaxInode
    /\ keychain \in [Account -> Key \cup {NoKey}]
    /\ ids \in 0 .. MaxId /\ salts \in 0 .. MaxSalt
    /\ kept \subseteq Name \X (0 .. MaxId)
    /\ locked \in BOOLEAN

\* "Atomic write via temp file in the same directory + rename" (storage.rs,
\* write_secret_file): the wallet's name stands for no file or for one that was
\* written to the end, whatever dies and whenever the power goes.
WalletIntact == dir.wallet # 0 => Whole(file[dir.wallet])

HasPassword(key, salt) == \E pw \in Pw : key = derive_key(pw, salt)

ActiveIn(data) == data.active = NoName \/ data.ids[data.active] # 0

\* A wallet on the disk opens with a password somebody chose: header salt and
\* key belong together and the placeholder key of a new wallet never gets there
\* (Wallet::load, Wallet::save), also when writers overwrite each other.
Openable ==
    dir.wallet # 0 /\ Whole(file[dir.wallet]) =>
        HasPassword(file[dir.wallet][1].key, file[dir.wallet][1].salt)

\* The active identity of a wallet on the disk is one of its identities
\* (identity_command: new, use and delete), also after lost updates.
ActiveExists ==
    dir.wallet # 0 /\ Whole(file[dir.wallet]) => ActiveIn(file[dir.wallet][1].data)

\* An identity whose creation was reported is in the wallet, with the same key
\* pairs, until its deletion is reported or power is lost: no crash, stale
\* cached key, second password or interleaved unlock and lock loses one
\* (identity_command, save).
SavedStays ==
    \A k \in kept : /\ dir.wallet # 0 /\ Whole(file[dir.wallet])
                    /\ file[dir.wallet][1].data.ids[k[1]] = k[2]

\* "Lock the wallet (clear the cached key)" (main.rs, WalletCommand::Lock): no
\* keychain entry holds a key of this wallet after a lock with nothing running.
LockHolds == locked => \A a \in Account : keychain[a] = NoKey

-----------------------------------------------------------------------------
\* The wallet a file holds; no file stands for a wallet with no identity.
Saved(i) ==
    IF i = 0 THEN [ids |-> WalletData_new.ids, active |-> NoName, key |-> NoKey]
    ELSE [ids |-> file[i][1].data.ids, active |-> file[i][1].data.active,
          key |-> file[i][1].key]

Atomic == INSTANCE AtomicWallet WITH
    KeyPair <- 1 .. MaxId, Key <- Pw \X Salt,
    wallet <- Saved(dir.wallet), past <- {Saved(i) : i \in old}

\* One writer's commands (Wallet::load, identity_command, Wallet::save) take
\* effect all at once, each on the wallet as it then is and under the key it then
\* has, however load, prompt, writing, renaming, readers, crashes and power
\* losses interleave.
ImplementsAtomic == Atomic!AtomicSpec
=============================================================================
