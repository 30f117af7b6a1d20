------------------------- MODULE WalletStore_proof -------------------------
(***************************************************************************)
(* Proofs about WalletStore for any number of processes that save, die and *)
(* overwrite each other, with and without power losses.                    *)
(*                                                                         *)
(* SoundInv follows every encrypted wallet from the process that seals it  *)
(* through the halves it is written in, on the disk, in the page cache and *)
(* in the memory of readers; LockInv the account each key is cached under; *)
(* IntactInv how far the one writer is with the temporary file, and which  *)
(* files the wallet's name may stand for; SaveInv the reported identities  *)
(* through the writer's memory; AtomicInv what the writer makes of the     *)
(* wallet as it is, by which the file implements AtomicWallet.             *)
(***************************************************************************)
EXTENDS WalletStore, TLAPS

Content == Block \X Block

\* A process that runs a command knows which name it is about.
Named == \A p \in Proc : run[p].pc # "idle" => run[p].name \in Name

TypeInv == TypeOK /\ Named

\* The state of a process with nothing to do.
LEMMA IdleType == Idle \in Running /\ Idle.pc = "idle"
  <1>1. WalletData_new \in WalletData
    BY WalletAssumption DEF WalletData_new, WalletData
  <1>2. <<Hole, Hole>> \in Block \X Block
    BY DEF Block
  <1> QED BY <1>1, <1>2, WalletAssumption DEF Idle, Running, Key, Salt, Account

\* Throwing unreferenced files away leaves contents.
LEMMA OnlyType ==
    ASSUME NEW live, NEW c \in [Inode -> Content]
    PROVE  Only(live, c) \in [Inode -> Content]
  BY DEF Only, Content, Block

\* What a blob sealed by a process in the middle of save is.
LEMMA BlobType ==
    ASSUME NEW r \in Running, NEW p \in Proc
    PROVE  encrypt_wallet_with_key(r.data, r.key, r.salt, p) \in Blob
  BY DEF Running, encrypt_wallet_with_key, Blob

\* A process that moves to a well-typed state leaves the others alone.
LEMMA EnterType ==
    ASSUME run \in [Proc -> Running], Named, NEW p \in Proc, NEW r \in Running,
           Enter(p, r), r.pc # "idle" => r.name \in Name
    PROVE  run' \in [Proc -> Running] /\ Named'
  BY DEF Enter, Named

\* So does a process that ends its command.
LEMMA LeaveType ==
    ASSUME run \in [Proc -> Running], Named, NEW p \in Proc, Leave(p)
    PROVE  run' \in [Proc -> Running] /\ Named'
  BY IdleType DEF Leave, Named

\* Loading keeps the types.
LEMMA LoadType ==
    ASSUME TypeInv, NEW p \in Proc, NEW op \in Command, NEW n \in Name, Load(p, op, n)
    PROVE  TypeInv'
  <1> DEFINE r == [Idle EXCEPT !.pc = "loaded", !.op = op, !.name = n]
             content == file[dir.wallet]
             key == keychain[account_name_for_wallet(TRUE)]
             r2 == [r EXCEPT !.data = content[1].data, !.key = key,
                             !.salt = content[1].salt]
             r3 == [r EXCEPT !.pc = "prompt", !.read = content]
  <1>0. TypeOK /\ Named /\ run \in [Proc -> Running]
    BY DEF TypeInv, TypeOK
  <1>1. r \in Running /\ r.name = n
    BY IdleType DEF Running, Command
  <1>2. UNCHANGED <<dir, file, durable, old, keychain, ids, salts, kept>>
        /\ locked' = FALSE
    BY DEF Load, get_key, Disk
  <1> SUFFICES run' \in [Proc -> Running] /\ Named'
    BY <1>0, <1>2 DEF TypeInv, TypeOK
  <1>3. dir.wallet # 0 => content \in Content
    BY <1>0, WalletAssumption DEF TypeOK, Inode, Content
  <1>4. CASE Enter(p, r)
    BY <1>0, <1>1, <1>4, EnterType
  <1>5. CASE UNCHANGED run
    BY <1>0, <1>5 DEF Named
  <1>6. CASE dir.wallet # 0 /\ Decrypts(content, key) /\ Enter(p, r2)
    <2>1. content[1] \in Blob /\ key = content[1].key
      BY <1>3, <1>6 DEF Decrypts, Whole, Content, Block
    <2>2. content[1].data \in WalletData /\ content[1].salt \in Salt /\ key \in Key
      BY <2>1 DEF Blob
    <2> HIDE DEF content, key, r
    <2>3. r2 \in Running
      BY <1>1, <2>2 DEF Running
    <2>4. r2.name = n
      BY <1>1
    <2> QED BY <1>0, <1>6, <2>3, <2>4, EnterType
  <1>7. CASE dir.wallet # 0 /\ Enter(p, r3)
    <2> HIDE DEF content, key, r
    <2>1. r3 \in Running /\ r3.name = n
      BY <1>1, <1>3, <1>7 DEF Running, Content
    <2> QED BY <1>0, <1>7, <2>1, EnterType
  <1> QED BY <1>4, <1>5, <1>6, <1>7 DEF Load, get_key

\* Typing the password keeps the types.
LEMMA PromptType ==
    ASSUME TypeInv, NEW p \in Proc, NEW pw \in Pw, Prompt(p, pw)
    PROVE  TypeInv'
  <1> DEFINE r == run[p]
             salt == r.read[1].salt
             key == derive_key(pw, salt)
             r2 == [r EXCEPT !.pc = "loaded", !.data = r.read[1].data, !.key = key,
                             !.salt = salt, !.read = <<Hole, Hole>>]
  <1>0. TypeOK /\ Named /\ run \in [Proc -> Running] /\ r \in Running
    BY DEF TypeInv, TypeOK
  <1>1. UNCHANGED <<dir, file, durable, old, ids, salts, kept, locked>>
    BY DEF Prompt, Disk
  <1>2. r.pc = "prompt" /\ r.name \in Name
    BY <1>0 DEF Prompt, Named
  <1>3. CASE Decrypts(r.read, key) /\ Enter(p, r2) /\ store_key("canonical", key)
    <2>1. r.read[1] \in Blob /\ key = r.read[1].key
      BY <1>0, <1>3 DEF Decrypts, Whole, Running, Block
    <2>2. r.read[1].data \in WalletData /\ salt \in Salt /\ key \in Key
      BY <2>1 DEF Blob
    <2>3. <<Hole, Hole>> \in Block \X Block
      BY DEF Block
    <2>4. keychain' \in [Account -> Key \cup {NoKey}]
      BY <1>0, <1>3, <2>2 DEF store_key, clear_key, TypeOK
    <2> HIDE DEF key, salt
    <2>5. r2 \in Running /\ r2.name = r.name
      BY <1>0, <2>2, <2>3 DEF Running
    <2>6. run' \in [Proc -> Running] /\ Named'
      BY <1>0, <1>2, <1>3, <2>5, EnterType
    <2> QED BY <1>0, <1>1, <2>4, <2>6 DEF TypeInv, TypeOK
  <1>4. CASE Leave(p) /\ UNCHANGED keychain
    <2>1. run' \in [Proc -> Running] /\ Named'
      BY <1>0, <1>4, LeaveType
    <2> QED BY <1>0, <1>1, <1>4, <2>1 DEF TypeInv, TypeOK
  <1> QED BY <1>3, <1>4 DEF Prompt

\* Handing data to save keeps the types.
LEMMA SaveType ==
    ASSUME run \in [Proc -> Running], Named, NEW p \in Proc, NEW d \in WalletData,
           NEW isNew \in BOOLEAN, Save(p, d, isNew), run[p].pc # "idle"
    PROVE  run' \in [Proc -> Running] /\ Named'
  <1> DEFINE pc == IF isNew THEN "newkey" ELSE "open"
             acct == account_name_for_wallet(dir.wallet # 0)
             r2 == [run[p] EXCEPT !.data = d, !.pc = pc, !.acct = acct]
  <1>1. acct \in Account /\ pc \in {"newkey", "open"}
    BY DEF account_name_for_wallet, Account
  <1>2. Enter(p, r2)
    BY DEF Save
  <1> HIDE DEF acct, pc
  <1>3. r2 \in Running /\ r2.name = run[p].name
    <2>1. PICK r \in Running : r = run[p]
      OBVIOUS
    <2>2. PICK x \in Account, y \in {"newkey", "open"} : x = acct /\ y = pc
      BY <1>1
    <2>3. /\ [r EXCEPT !.data = d, !.pc = y, !.acct = x] \in Running
          /\ [r EXCEPT !.data = d, !.pc = y, !.acct = x].name = r.name
      BY DEF Running
    <2> QED BY <2>1, <2>2, <2>3
  <1>4. run[p].name \in Name
    BY DEF Named
  <1> QED BY <1>2, <1>3, <1>4, EnterType

\* The commands keep the types.
LEMMA CommandType ==
    ASSUME TypeInv, NEW p \in Proc,
           NewIdentity(p) \/ UseIdentity(p) \/ DeleteIdentity(p) \/ Look(p)
    PROVE  TypeInv'
  <1> DEFINE data == run[p].data
             n == run[p].name
  <1>0. TypeOK /\ Named /\ run \in [Proc -> Running] /\ data \in WalletData
    BY DEF TypeInv, TypeOK, Running
  <1>1. UNCHANGED <<dir, file, durable, old, keychain, salts, kept, locked>>
    BY DEF NewIdentity, UseIdentity, DeleteIdentity, Look, Disk
  <1>2. run[p].pc # "idle" /\ n \in Name
    BY <1>0 DEF NewIdentity, UseIdentity, DeleteIdentity, Look, Doing, Named
  <1> SUFFICES ids' \in 0 .. MaxId /\ run' \in [Proc -> Running] /\ Named'
    BY <1>0, <1>1 DEF TypeInv, TypeOK
  <1>3. CASE Leave(p) /\ ids' = ids
    BY <1>0, <1>3, LeaveType DEF TypeOK
  <1>4. CASE NewIdentity(p) /\ ~(Leave(p) /\ ids' = ids)
    <2> DEFINE d == [ids |-> [data.ids EXCEPT ![n] = ids + 1],
                     active |-> IF data.active = NoName THEN n ELSE data.active]
    <2>1. ids < MaxId /\ ids' = ids + 1 /\ Save(p, d, is_new(data))
      BY <1>4 DEF NewIdentity
    <2>2. ids + 1 \in 0 .. MaxId
      BY <1>0, <2>1, WalletAssumption DEF TypeOK
    <2>3. d \in WalletData
      BY <1>0, <1>2, <2>2 DEF WalletData
    <2>4. is_new(data) \in BOOLEAN
      BY DEF is_new
    <2> QED BY <1>0, <1>2, <2>1, <2>2, <2>3, <2>4, SaveType
  <1>5. CASE UseIdentity(p) /\ ~(Leave(p) /\ ids' = ids)
    <2> DEFINE d == [data EXCEPT !.active = n]
    <2>1. Save(p, d, FALSE) /\ ids' = ids
      BY <1>5 DEF UseIdentity
    <2>2. d \in WalletData
      BY <1>0, <1>2 DEF WalletData
    <2> QED BY <1>0, <1>2, <2>1, <2>2, SaveType DEF TypeOK
  <1>6. CASE DeleteIdentity(p) /\ ~(Leave(p) /\ ids' = ids)
    <2> DEFINE d == [ids |-> [data.ids EXCEPT ![n] = 0],
                     active |-> IF data.active = n THEN NoName ELSE data.active]
    <2>1. Save(p, d, FALSE) /\ ids' = ids
      BY <1>6 DEF DeleteIdentity
    <2>2. d \in WalletData
      BY <1>0, <1>2, WalletAssumption DEF WalletData
    <2> QED BY <1>0, <1>2, <2>1, <2>2, SaveType DEF TypeOK
  <1> QED BY <1>3, <1>4, <1>5, <1>6 DEF Look

\* Choosing a password for a new wallet keeps the types.
LEMMA NewKeyType ==
    ASSUME TypeInv, NEW p \in Proc, NEW pw \in Pw, NewKey(p, pw)
    PROVE  TypeInv'
  <1> DEFINE key == derive_key(pw, salts + 1)
             r2 == [run[p] EXCEPT !.pc = "open", !.key = key, !.salt = salts + 1]
  <1>0. TypeOK /\ Named /\ run \in [Proc -> Running]
    BY DEF TypeInv, TypeOK
  <1>1. /\ UNCHANGED <<dir, file, durable, old, ids, kept, locked>>
        /\ salts' = salts + 1 /\ salts < MaxSalt /\ run[p].pc = "newkey"
        /\ store_key(run[p].acct, key) /\ Enter(p, r2)
    BY DEF NewKey, Disk
  <1>2. salts + 1 \in 0 .. MaxSalt /\ salts + 1 \in Salt
    BY <1>0, <1>1, WalletAssumption DEF TypeOK, Salt
  <1>3. key \in Key
    BY <1>2 DEF derive_key, Key
  <1>4. keychain' \in [Account -> Key \cup {NoKey}]
    BY <1>0, <1>1, <1>3 DEF store_key, clear_key, TypeOK
  <1>5. run[p].name \in Name
    BY <1>0, <1>1 DEF Named
  <1> HIDE DEF key
  <1>6. r2 \in Running /\ r2.name = run[p].name
    <2>1. PICK r \in Running : r = run[p]
      BY <1>0
    <2>2. PICK k \in Key, t \in Salt : k = key /\ t = salts + 1
      BY <1>2, <1>3
    <2>3. /\ [r EXCEPT !.pc = "open", !.key = k, !.salt = t] \in Running
          /\ [r EXCEPT !.pc = "open", !.key = k, !.salt = t].name = r.name
      BY DEF Running
    <2> QED BY <2>1, <2>2, <2>3
  <1>7. run' \in [Proc -> Running] /\ Named'
    BY <1>0, <1>1, <1>5, <1>6, EnterType
  <1> QED BY <1>0, <1>1, <1>2, <1>4, <1>7 DEF TypeInv, TypeOK

\* Opening the temporary file keeps the types.
LEMMA OpenTmpType ==
    ASSUME TypeInv, NEW p \in Proc, OpenTmp(p)
    PROVE  TypeInv'
  <1>0. TypeOK /\ Named /\ run \in [Proc -> Running] /\ run[p].pc = "open"
    BY DEF TypeInv, TypeOK, OpenTmp
  <1>1. PICK i \in Inode :
          /\ dir' = [dir EXCEPT !.tmp = i]
          /\ file' = [file EXCEPT ![i] = <<Hole, Hole>>]
          /\ durable' = IF dir.tmp # 0 THEN durable
                        ELSE [durable EXCEPT ![i] = <<Hole, Hole>>]
          /\ Enter(p, [run[p] EXCEPT !.pc = "first", !.fd = i])
    <2> DEFINE S == IF dir.tmp # 0 THEN {dir.tmp}
                    ELSE {j \in Free : \A k \in Free : j <= k}
    <2>1. S \subseteq Inode
      BY <1>0, WalletAssumption DEF Free, Inode, TypeOK
    <2> HIDE DEF S
    <2> QED BY <2>1 DEF OpenTmp, S
  <1>2. UNCHANGED <<old, keychain, ids, salts, kept, locked>>
    BY DEF OpenTmp
  <1>3. i \in 0 .. MaxInode /\ <<Hole, Hole>> \in Block \X Block
    BY WalletAssumption DEF Inode, Block
  <1>4. dir' \in [wallet : 0 .. MaxInode, tmp : 0 .. MaxInode]
    BY <1>0, <1>1, <1>3 DEF TypeOK
  <1>5. /\ file' \in [Inode -> Block \X Block]
        /\ durable' \in [Inode -> Block \X Block]
    BY <1>0, <1>1, <1>3 DEF TypeOK
  <1>6. run[p].name \in Name
    BY <1>0 DEF Named
  <1> DEFINE r2 == [run[p] EXCEPT !.pc = "first", !.fd = i]
  <1>7. r2 \in Running /\ r2.name = run[p].name
    <2>1. PICK r \in Running : r = run[p]
      BY <1>0
    <2>2. /\ [r EXCEPT !.pc = "first", !.fd = i] \in Running
          /\ [r EXCEPT !.pc = "first", !.fd = i].name = r.name
      BY <1>3 DEF Running
    <2> QED BY <2>1, <2>2
  <1>8. run' \in [Proc -> Running] /\ Named'
    BY <1>0, <1>1, <1>6, <1>7, EnterType
  <1> QED BY <1>0, <1>2, <1>4, <1>5, <1>8 DEF TypeInv, TypeOK

\* Advancing within write_secret_file keeps the types.
LEMMA StepType ==
    ASSUME run \in [Proc -> Running], Named, NEW p \in Proc, run[p].pc # "idle",
           NEW pc \in {"second", "sync", "rename"},
           Enter(p, [run[p] EXCEPT !.pc = pc])
    PROVE  run' \in [Proc -> Running] /\ Named'
  <1> DEFINE r2 == [run[p] EXCEPT !.pc = pc]
  <1>1. r2 \in Running /\ r2.name = run[p].name
    BY DEF Running
  <1>2. run[p].name \in Name
    BY DEF Named
  <1> QED BY <1>1, <1>2, EnterType

\* Writing half of the file keeps the types.
LEMMA WriteHalfType ==
    ASSUME TypeInv, NEW p \in Proc, NEW half, NEW from, NEW to \in {"second", "sync"},
           from # "idle", WriteHalf(p, half, from, to)
    PROVE  TypeInv'
  <1> DEFINE blob == encrypt_wallet_with_key(run[p].data, run[p].key, run[p].salt, p)
             fd == run[p].fd
  <1>0. TypeOK /\ Named /\ run \in [Proc -> Running]
    BY DEF TypeInv, TypeOK
  <1>1. /\ UNCHANGED <<dir, durable, old, keychain, ids, salts, kept, locked>>
        /\ run[p].pc # "idle" /\ Enter(p, [run[p] EXCEPT !.pc = to])
        /\ file' = [file EXCEPT ![fd] = IF half = 1 THEN <<blob, file[fd][2]>>
                                        ELSE <<file[fd][1], blob>>]
    BY DEF WriteHalf
  <1>2. blob \in Block
    BY <1>0, BlobType DEF Block
  <1> HIDE DEF blob
  <1>3. file' \in [Inode -> Block \X Block]
    BY <1>0, <1>1, <1>2 DEF TypeOK
  <1>4. run' \in [Proc -> Running] /\ Named'
    BY <1>0, <1>1, StepType
  <1> QED BY <1>0, <1>1, <1>3, <1>4 DEF TypeInv, TypeOK

\* Flushing, renaming and dying keep the types.
LEMMA FinishType ==
    ASSUME TypeInv, NEW p \in Proc, SyncAll(p) \/ Rename(p) \/ Die(p)
    PROVE  TypeInv'
  <1>0. /\ TypeOK /\ Named /\ run \in [Proc -> Running]
        /\ file \in [Inode -> Content] /\ durable \in [Inode -> Content]
    BY DEF TypeInv, TypeOK, Content
  <1>1. CASE SyncAll(p)
    <2>1. /\ UNCHANGED <<dir, file, old, keychain, ids, salts, kept, locked>>
          /\ run[p].pc # "idle" /\ Enter(p, [run[p] EXCEPT !.pc = "rename"])
      BY <1>1 DEF SyncAll
    <2>2. durable' \in [Inode -> Content]
      BY <1>0, <1>1 DEF SyncAll
    <2>3. run' \in [Proc -> Running] /\ Named'
      BY <1>0, <2>1, StepType
    <2> QED BY <1>0, <2>1, <2>2, <2>3 DEF TypeInv, TypeOK, Content
  <1>2. CASE Rename(p)
    <2>1. UNCHANGED <<keychain, ids, salts, locked>> /\ Leave(p) /\ run[p].pc = "rename"
      BY <1>2 DEF Rename
    <2>2. run' \in [Proc -> Running] /\ Named'
      BY <1>0, <2>1, LeaveType
    <2>3. CASE UNCHANGED <<dir, file, durable, old, kept>>
      BY <1>0, <2>1, <2>2, <2>3 DEF TypeInv, TypeOK
    <2>4. CASE dir.tmp # 0
      <3>1. PICK live, was :
              /\ was \subseteq old \cup {dir.wallet}
              /\ dir' = [wallet |-> dir.tmp, tmp |-> 0] /\ old' = was
              /\ file' = Only(live, file) /\ durable' = Only(live, durable)
              /\ kept' = Reported(run[p])
        BY <1>2, <2>4 DEF Rename
      <3>2. dir' \in [wallet : 0 .. MaxInode, tmp : 0 .. MaxInode]
            /\ old' \subseteq 0 .. MaxInode
        BY <1>0, <3>1, WalletAssumption DEF TypeOK
      <3>3. file' \in [Inode -> Content] /\ durable' \in [Inode -> Content]
        BY <1>0, <3>1, OnlyType
      <3>4. run[p].name \in Name /\ run[p].data \in WalletData
        BY <1>0, <2>1 DEF Named, Running
      <3>5. run[p].data.ids[run[p].name] \in 0 .. MaxId
        BY <3>4 DEF WalletData
      <3>6. kept' \subseteq Name \X (0 .. MaxId)
        BY <1>0, <3>1, <3>4, <3>5 DEF Reported, TypeOK
      <3> QED BY <1>0, <2>1, <2>2, <3>2, <3>3, <3>6 DEF TypeInv, TypeOK, Content
    <2> QED BY <1>2, <2>3, <2>4 DEF Rename, Disk
  <1>3. CASE Die(p)
    <2>1. UNCHANGED <<dir, file, durable, old, keychain, ids, salts, kept, locked>>
          /\ Leave(p)
      BY <1>3 DEF Die, Disk
    <2>2. run' \in [Proc -> Running] /\ Named'
      BY <1>0, <2>1, LeaveType
    <2> QED BY <1>0, <2>1, <2>2 DEF TypeInv, TypeOK
  <1> QED BY <1>1, <1>2, <1>3

\* Writing back and losing power keep the types.
LEMMA DiskType ==
    ASSUME TypeInv, \/ WriteBack
                    \/ \E w \in old \cup {dir.wallet}, stale \in SUBSET Unflushed :
                          PowerLoss(w, stale)
    PROVE  TypeInv'
  <1>0. /\ TypeOK /\ Named /\ run \in [Proc -> Running]
        /\ file \in [Inode -> Content] /\ durable \in [Inode -> Content]
    BY DEF TypeInv, TypeOK, Content
  <1>1. CASE WriteBack
    <2>1. /\ UNCHANGED <<run, dir, keychain, ids, salts, kept, locked>>
          /\ old' = {} /\ durable' = file'
          /\ file' = Only({dir.wallet, dir.tmp} \cup Fds, file)
      BY <1>1 DEF WriteBack
    <2>2. file' \in [Inode -> Content]
      BY <1>0, <2>1, OnlyType
    <2> QED BY <1>0, <2>1, <2>2 DEF TypeInv, TypeOK, Named, Content
  <1>2. ASSUME NEW w \in old \cup {dir.wallet}, NEW stale, PowerLoss(w, stale)
        PROVE  TypeInv'
    <2> DEFINE tmp == IF w = dir.wallet THEN dir.tmp ELSE dir.wallet
               Half(i, h) == IF <<i, h>> \in stale THEN durable[i][h] ELSE file[i][h]
               mixed == [i \in Inode |-> <<Half(i, 1), Half(i, 2)>>]
    <2>1. /\ UNCHANGED <<keychain, ids, salts, locked>> /\ kept' = {}
          /\ run' = [p \in Proc |-> Idle] /\ old' = {}
          /\ dir' = [wallet |-> w, tmp |-> tmp]
          /\ file' = Only({w, tmp}, mixed) /\ durable' = Only({w, tmp}, mixed)
      BY <1>2 DEF PowerLoss
    <2>2. mixed \in [Inode -> Content]
      BY <1>0 DEF Content
    <2>3. dir' \in [wallet : 0 .. MaxInode, tmp : 0 .. MaxInode]
      BY <1>0, <2>1 DEF TypeOK
    <2> HIDE DEF mixed, tmp
    <2>4. file' \in [Inode -> Content] /\ durable' \in [Inode -> Content]
      BY <2>1, <2>2, OnlyType
    <2>5. run' \in [Proc -> Running] /\ Named'
      BY <2>1, IdleType DEF Named
    <2> QED BY <1>0, <2>1, <2>3, <2>4, <2>5 DEF TypeInv, TypeOK, Content
  <1> QED BY <1>1, <1>2

\* Locking keeps the types.
LEMMA LockType ==
    ASSUME TypeInv, NEW p \in Proc, Lock(p)
    PROVE  TypeInv'
  <1>1. UNCHANGED <<run, dir, file, durable, old, ids, salts, kept>>
    BY DEF Lock, clear_key, Disk
  <1>2. keychain' \in [Account -> Key \cup {NoKey}]
    BY DEF TypeInv, TypeOK, Lock, clear_key
  <1>3. locked' \in BOOLEAN
    BY DEF Lock, clear_key
  <1> QED BY <1>1, <1>2, <1>3 DEF TypeInv, TypeOK, Named

\* Types and names are inductive.
LEMMA TypeInductive == Spec => []TypeInv
  <1>1. Init => TypeInv
    <2> SUFFICES ASSUME Init PROVE TypeInv
      OBVIOUS
    <2>1. run \in [Proc -> Running] /\ Named
      BY IdleType DEF Init, Named
    <2>2. file \in [Inode -> Block \X Block] /\ durable = file
      BY DEF Init, Block
    <2>3. /\ dir \in [wallet : 0 .. MaxInode, tmp : 0 .. MaxInode]
          /\ ids \in 0 .. MaxId /\ salts \in 0 .. MaxSalt
      BY WalletAssumption DEF Init
    <2>4. /\ keychain \in [Account -> Key \cup {NoKey}]
          /\ old \subseteq 0 .. MaxInode /\ kept \subseteq Name \X (0 .. MaxId)
          /\ locked \in BOOLEAN
      BY DEF Init
    <2> QED BY <2>1, <2>2, <2>3, <2>4 DEF TypeInv, TypeOK
  <1>2. TypeInv /\ [Next]_vars => TypeInv'
    <2> SUFFICES ASSUME TypeInv, [Next]_vars PROVE TypeInv'
      OBVIOUS
    <2>1. ASSUME NEW p \in Proc, NEW half, WriteHalf(p, half, "first", "second")
          PROVE  TypeInv'
      BY <2>1, WriteHalfType
    <2>2. ASSUME NEW p \in Proc, NEW half, WriteHalf(p, half, "second", "sync")
          PROVE  TypeInv'
      BY <2>2, WriteHalfType
    <2>3. CASE UNCHANGED vars
      BY <2>3 DEF vars, TypeInv, TypeOK, Named
    <2> QED
      BY <2>1, <2>2, <2>3, LoadType, PromptType, CommandType, LockType, NewKeyType,
         OpenTmpType, FinishType, DiskType DEF Next
  <1> QED BY <1>1, <1>2, PTL DEF Spec

\* Every reachable state is well typed.
THEOREM TypeCorrect == Spec => []TypeOK
  <1>1. TypeInv => TypeOK
    BY DEF TypeInv
  <1> QED BY <1>1, TypeInductive, PTL

-----------------------------------------------------------------------------
(* What is ever sealed opens with a password and has its active identity. *)

SoundHalf(x) == x # Hole => HasPassword(x.key, x.salt) /\ ActiveIn(x.data)

SoundContent(c) == SoundHalf(c[1]) /\ SoundHalf(c[2])

\* A process holds sound data, and once its wallet is not new any more, or a
\* password was chosen for it, a key that goes with its salt.
SoundRun(r) ==
    /\ SoundContent(r.read) /\ ActiveIn(r.data)
    /\ \/ HasPassword(r.key, r.salt)
       \/ r.pc \in {"idle", "prompt", "newkey"}
       \/ r.pc = "loaded" /\ is_new(r.data)

SoundInv ==
    /\ TypeInv
    /\ \A i \in Inode : SoundContent(file[i]) /\ SoundContent(durable[i])
    /\ \A p \in Proc : SoundRun(run[p])

\* An idle process is sound, and so is an empty file.
LEMMA IdleSound == SoundRun(Idle) /\ SoundContent(<<Hole, Hole>>)
  BY DEF SoundRun, SoundContent, SoundHalf, ActiveIn, Idle, WalletData_new

\* Only one process moves in a step.
LEMMA RunSound ==
    ASSUME SoundInv, NEW p \in Proc, NEW r, SoundRun(r), Enter(p, r)
    PROVE  \A q \in Proc : SoundRun(run'[q])
  BY DEF SoundInv, TypeInv, TypeOK, Enter

\* Or it ends.
LEMMA LeaveSound ==
    ASSUME SoundInv, NEW p \in Proc, Leave(p)
    PROVE  \A q \in Proc : SoundRun(run'[q])
  BY IdleSound DEF SoundInv, TypeInv, TypeOK, Leave

\* Throwing unreferenced files away leaves sound contents.
LEMMA OnlySound ==
    ASSUME NEW live, NEW c, \A i \in Inode : SoundContent(c[i])
    PROVE  \A i \in Inode : SoundContent(Only(live, c)[i])
  BY IdleSound DEF Only

\* What Load and Prompt put in memory is sound.
LEMMA OpenedSound ==
    ASSUME NEW c \in Content, NEW k, SoundContent(c), Decrypts(c, k)
    PROVE  /\ k = c[1].key /\ HasPassword(k, c[1].salt) /\ ActiveIn(c[1].data)
           /\ c[1] \in Blob
  BY DEF SoundContent, SoundHalf, Decrypts, Whole, Content, Block

\* Loading keeps everything sound.
LEMMA LoadSound ==
    ASSUME SoundInv, TypeInv', NEW p \in Proc, NEW op \in Command, NEW n \in Name,
           Load(p, op, n)
    PROVE  SoundInv'
  <1> DEFINE r == [Idle EXCEPT !.pc = "loaded", !.op = op, !.name = n]
             content == file[dir.wallet]
             key == keychain[account_name_for_wallet(TRUE)]
             r2 == [r EXCEPT !.data = content[1].data, !.key = key,
                             !.salt = content[1].salt]
             r3 == [r EXCEPT !.pc = "prompt", !.read = content]
  <1>1. file' = file /\ durable' = durable
    BY DEF Load, get_key, Disk
  <1> SUFFICES \A q \in Proc : SoundRun(run'[q])
    BY <1>1 DEF SoundInv
  <1>2. /\ r.read = <<Hole, Hole>> /\ r.data = WalletData_new /\ r.pc = "loaded"
        /\ r \in Running
    <2>1. r \in Running
      BY IdleType DEF Running, Command
    <2>2. r.read = Idle.read /\ r.data = Idle.data /\ r.pc = "loaded"
      BY IdleType DEF Running
    <2>3. Idle.read = <<Hole, Hole>> /\ Idle.data = WalletData_new
      BY DEF Idle
    <2> QED BY <2>1, <2>2, <2>3
  <1>3. SoundRun(r)
    BY <1>2, IdleSound DEF SoundRun, ActiveIn, WalletData_new, is_new
  <1>4. dir.wallet # 0 => content \in Content /\ SoundContent(content)
    BY WalletAssumption DEF SoundInv, TypeInv, TypeOK, Inode, Content
  <1>5. CASE Enter(p, r)
    BY <1>3, <1>5, RunSound
  <1>6. CASE UNCHANGED run
    BY <1>6 DEF SoundInv
  <1>7. CASE dir.wallet # 0 /\ Decrypts(content, key) /\ Enter(p, r2)
    <2>1. HasPassword(key, content[1].salt) /\ ActiveIn(content[1].data)
      BY <1>4, <1>7, OpenedSound
    <2> HIDE DEF content, key, r
    <2>2. /\ r2.read = <<Hole, Hole>> /\ r2.data = content[1].data
          /\ r2.key = key /\ r2.salt = content[1].salt
      BY <1>2 DEF Running
    <2>3. SoundRun(r2)
      BY <2>1, <2>2, IdleSound DEF SoundRun
    <2> QED BY <1>7, <2>3, RunSound
  <1>8. CASE dir.wallet # 0 /\ Enter(p, r3)
    <2> HIDE DEF content, key, r
    <2>1. r3.read = content /\ r3.data = WalletData_new /\ r3.pc = "prompt"
      BY <1>2 DEF Running
    <2>2. SoundRun(r3)
      BY <1>4, <1>8, <2>1 DEF SoundRun, ActiveIn, WalletData_new
    <2> QED BY <1>8, <2>2, RunSound
  <1> QED BY <1>5, <1>6, <1>7, <1>8 DEF Load, get_key

\* Typing the password keeps everything sound.
LEMMA PromptSound ==
    ASSUME SoundInv, TypeInv', NEW p \in Proc, NEW pw \in Pw, Prompt(p, pw)
    PROVE  SoundInv'
  <1>1. file' = file /\ durable' = durable
    BY DEF Prompt, Disk
  <1> SUFFICES \A q \in Proc : SoundRun(run'[q])
    BY <1>1 DEF SoundInv
  <1>2. PICK r \in Running : r = run[p]
    BY DEF SoundInv, TypeInv, TypeOK
  <1> DEFINE key == derive_key(pw, r.read[1].salt)
             r2 == [r EXCEPT !.pc = "loaded", !.data = r.read[1].data, !.key = key,
                             !.salt = r.read[1].salt, !.read = <<Hole, Hole>>]
  <1>3. SoundContent(r.read) /\ r.read \in Content
    BY <1>2 DEF SoundInv, SoundRun, Running, Content
  <1>4. CASE Leave(p)
    BY <1>4, LeaveSound
  <1>5. CASE Decrypts(r.read, key) /\ Enter(p, r2)
    <2>1. HasPassword(key, r.read[1].salt) /\ ActiveIn(r.read[1].data)
      BY <1>3, <1>5, OpenedSound
    <2> HIDE DEF key
    <2>2. /\ r2.read = <<Hole, Hole>> /\ r2.data = r.read[1].data
          /\ r2.key = key /\ r2.salt = r.read[1].salt
      BY DEF Running
    <2>3. SoundRun(r2)
      BY <2>1, <2>2, IdleSound DEF SoundRun
    <2> QED BY <1>5, <2>3, RunSound
  <1> QED BY <1>2, <1>4, <1>5 DEF Prompt

\* Handing sound data to save is sound if a new wallet gets a new key.
LEMMA SaveSound ==
    ASSUME SoundInv, NEW p \in Proc, NEW d \in WalletData, NEW isNew \in BOOLEAN,
           Save(p, d, isNew), ActiveIn(d),
           ~isNew => HasPassword(run[p].key, run[p].salt)
    PROVE  \A q \in Proc : SoundRun(run'[q])
  <1>1. PICK r \in Running : r = run[p]
    BY DEF SoundInv, TypeInv, TypeOK
  <1>2. PICK acct, pc : /\ acct = account_name_for_wallet(dir.wallet # 0)
                        /\ pc = IF isNew THEN "newkey" ELSE "open"
    OBVIOUS
  <1> DEFINE r2 == [r EXCEPT !.data = d, !.pc = pc, !.acct = acct]
  <1>3. /\ r2.read = r.read /\ r2.data = d /\ r2.key = r.key /\ r2.salt = r.salt
        /\ r2.pc = pc
    BY DEF Running
  <1>4. SoundContent(r.read)
    BY <1>1 DEF SoundInv, SoundRun
  <1>5. HasPassword(r.key, r.salt) \/ pc = "newkey"
    BY <1>1, <1>2
  <1>6. Enter(p, r2)
    BY <1>1, <1>2 DEF Save
  <1> HIDE DEF r2
  <1>7. SoundRun(r2)
    BY <1>3, <1>4, <1>5 DEF SoundRun
  <1> QED BY <1>6, <1>7, RunSound

\* The commands keep everything sound.
LEMMA CommandSound ==
    ASSUME SoundInv, TypeInv', NEW p \in Proc,
           NewIdentity(p) \/ UseIdentity(p) \/ DeleteIdentity(p) \/ Look(p)
    PROVE  SoundInv'
  <1>1. file' = file /\ durable' = durable
    BY DEF NewIdentity, UseIdentity, DeleteIdentity, Look, Disk
  <1> SUFFICES \A q \in Proc : SoundRun(run'[q])
    BY <1>1 DEF SoundInv
  <1>2. /\ run[p] \in Running /\ SoundRun(run[p]) /\ run[p].pc = "loaded"
        /\ run[p].name \in Name /\ ids \in Nat /\ ids \in 0 .. MaxId
    <2>1. run[p].pc = "loaded"
      BY DEF NewIdentity, UseIdentity, DeleteIdentity, Look, Doing
    <2>2. TypeOK /\ Named /\ SoundRun(run[p])
      BY DEF SoundInv, TypeInv
    <2>3. run[p] \in Running /\ ids \in 0 .. MaxId
      BY <2>2 DEF TypeOK
    <2>4. ids \in Nat
      BY <2>3, WalletAssumption
    <2> QED BY <2>1, <2>2, <2>3, <2>4 DEF Named
  <1>3. PICK data \in WalletData, n \in Name : data = run[p].data /\ n = run[p].name
    BY <1>2 DEF Running
  <1>4. ActiveIn(data) /\ (is_new(data) \/ HasPassword(run[p].key, run[p].salt))
    BY <1>2, <1>3 DEF SoundRun
  <1>5. CASE Leave(p)
    BY <1>5, LeaveSound
  <1>6. CASE NewIdentity(p) /\ ~Leave(p)
    <2> DEFINE d == [ids |-> [data.ids EXCEPT ![n] = ids + 1],
                     active |-> IF data.active = NoName THEN n ELSE data.active]
    <2>1. ids < MaxId /\ Save(p, d, is_new(data))
      BY <1>3, <1>6 DEF NewIdentity
    <2>2. d \in WalletData
      BY <1>2, <2>1, WalletAssumption DEF WalletData
    <2>3. ActiveIn(d)
      BY <1>2, <1>4 DEF ActiveIn, WalletData
    <2>4. is_new(data) \in BOOLEAN
      BY DEF is_new
    <2> HIDE DEF d
    <2> QED BY <1>4, <2>1, <2>2, <2>3, <2>4, SaveSound
  <1>7. CASE UseIdentity(p) /\ ~Leave(p)
    <2> DEFINE d == [data EXCEPT !.active = n]
    <2>1. Save(p, d, FALSE) /\ data.ids[n] # 0
      BY <1>3, <1>7 DEF UseIdentity
    <2>2. d \in WalletData /\ ActiveIn(d)
      BY <2>1 DEF WalletData, ActiveIn
    <2>3. HasPassword(run[p].key, run[p].salt)
      BY <1>4, <2>1 DEF is_new
    <2> HIDE DEF d
    <2> QED BY <2>1, <2>2, <2>3, SaveSound
  <1>8. CASE DeleteIdentity(p) /\ ~Leave(p)
    <2> DEFINE d == [ids |-> [data.ids EXCEPT ![n] = 0],
                     active |-> IF data.active = n THEN NoName ELSE data.active]
    <2>1. Save(p, d, FALSE) /\ data.ids[n] # 0
      BY <1>3, <1>8 DEF DeleteIdentity
    <2>2. d \in WalletData
      BY WalletAssumption DEF WalletData
    <2>3. ActiveIn(d)
      BY <1>4 DEF WalletData, ActiveIn
    <2>4. HasPassword(run[p].key, run[p].salt)
      BY <1>4, <2>1 DEF is_new
    <2> HIDE DEF d
    <2> QED BY <2>1, <2>2, <2>3, <2>4, SaveSound
  <1> QED BY <1>5, <1>6, <1>7, <1>8 DEF Look

\* A process that has its key keeps it while it writes.
LEMMA KeepSound ==
    ASSUME SoundInv, NEW p \in Proc, NEW r, Enter(p, r),
           run[p].pc \in {"open", "first", "second", "sync"},
           r.read = run[p].read, r.data = run[p].data,
           r.key = run[p].key, r.salt = run[p].salt
    PROVE  \A q \in Proc : SoundRun(run'[q])
  <1>1. /\ SoundContent(run[p].read) /\ ActiveIn(run[p].data)
        /\ HasPassword(run[p].key, run[p].salt)
    BY DEF SoundInv, SoundRun
  <1>2. SoundRun(r)
    BY <1>1 DEF SoundRun
  <1> QED BY <1>2, RunSound

\* So does one that only moves on.
LEMMA StepSound ==
    ASSUME SoundInv, NEW p \in Proc, NEW pc, Enter(p, [run[p] EXCEPT !.pc = pc]),
           run[p].pc \in {"open", "first", "second", "sync"}
    PROVE  \A q \in Proc : SoundRun(run'[q])
  <1>1. PICK r \in Running : r = run[p]
    BY DEF SoundInv, TypeInv, TypeOK
  <1> DEFINE r2 == [r EXCEPT !.pc = pc]
  <1>2. /\ r2.read = r.read /\ r2.data = r.data /\ r2.key = r.key /\ r2.salt = r.salt
    BY DEF Running
  <1>3. Enter(p, r2)
    BY <1>1
  <1> HIDE DEF r2
  <1> QED BY <1>1, <1>2, <1>3, KeepSound

\* Choosing the password of a new wallet makes its key and its salt a pair.
LEMMA NewKeySound ==
    ASSUME SoundInv, TypeInv', NEW p \in Proc, NEW pw \in Pw, NewKey(p, pw)
    PROVE  SoundInv'
  <1>1. file' = file /\ durable' = durable
    BY DEF NewKey, Disk
  <1> SUFFICES \A q \in Proc : SoundRun(run'[q])
    BY <1>1 DEF SoundInv
  <1>2. PICK r \in Running : r = run[p]
    BY DEF SoundInv, TypeInv, TypeOK
  <1>3. PICK salt, key : salt = salts + 1 /\ key = derive_key(pw, salt)
    OBVIOUS
  <1> DEFINE r2 == [r EXCEPT !.pc = "open", !.key = key, !.salt = salt]
  <1>4. /\ r2.read = r.read /\ r2.data = r.data /\ r2.key = key /\ r2.salt = salt
    BY DEF Running
  <1>5. SoundContent(r.read) /\ ActiveIn(r.data)
    BY <1>2 DEF SoundInv, SoundRun
  <1>6. HasPassword(key, salt)
    BY <1>3 DEF HasPassword
  <1>7. Enter(p, r2)
    BY <1>2, <1>3 DEF NewKey
  <1> HIDE DEF r2
  <1>8. SoundRun(r2)
    BY <1>4, <1>5, <1>6 DEF SoundRun
  <1> QED BY <1>7, <1>8, RunSound

\* Opening the temporary file empties it at most.
LEMMA OpenTmpSound ==
    ASSUME SoundInv, TypeInv', NEW p \in Proc, OpenTmp(p)
    PROVE  SoundInv'
  <1>1. PICK i : /\ file' = [file EXCEPT ![i] = <<Hole, Hole>>]
                 /\ \/ durable' = durable
                    \/ durable' = [durable EXCEPT ![i] = <<Hole, Hole>>]
                 /\ Enter(p, [run[p] EXCEPT !.pc = "first", !.fd = i])
    BY DEF OpenTmp
  <1>2. \A q \in Proc : SoundRun(run'[q])
    <2>1. PICK r \in Running : r = run[p]
      BY DEF SoundInv, TypeInv, TypeOK
    <2> DEFINE r2 == [r EXCEPT !.pc = "first", !.fd = i]
    <2>2. /\ r2.read = r.read /\ r2.data = r.data /\ r2.key = r.key
          /\ r2.salt = r.salt
      BY DEF Running
    <2>3. Enter(p, r2) /\ run[p].pc = "open"
      BY <1>1, <2>1 DEF OpenTmp
    <2> HIDE DEF r2
    <2> QED BY <2>1, <2>2, <2>3, KeepSound
  <1>3. /\ file \in [Inode -> Content] /\ durable \in [Inode -> Content]
        /\ \A j \in Inode : SoundContent(file[j]) /\ SoundContent(durable[j])
    BY DEF SoundInv, TypeInv, TypeOK, Content
  <1>4. \A j \in Inode : SoundContent(file'[j]) /\ SoundContent(durable'[j])
    BY <1>1, <1>3, IdleSound
  <1> QED BY <1>2, <1>4 DEF SoundInv

\* What is written carries the writer's key, salt and data.
LEMMA WriteHalfSound ==
    ASSUME SoundInv, TypeInv', NEW p \in Proc, NEW half, NEW from, NEW to,
           WriteHalf(p, half, from, to), from \in {"first", "second"}
    PROVE  SoundInv'
  <1>1. PICK r \in Running : r = run[p]
    BY DEF SoundInv, TypeInv, TypeOK
  <1> DEFINE blob == encrypt_wallet_with_key(r.data, r.key, r.salt, p)
  <1>2. ActiveIn(r.data) /\ HasPassword(r.key, r.salt)
    BY <1>1 DEF SoundInv, SoundRun, WriteHalf
  <1>3. blob.key = r.key /\ blob.salt = r.salt /\ blob.data = r.data
    BY DEF encrypt_wallet_with_key
  <1>4. /\ Enter(p, [run[p] EXCEPT !.pc = to]) /\ run[p].pc \in {"first", "second"}
        /\ file' = [file EXCEPT ![r.fd] = IF half = 1 THEN <<blob, file[r.fd][2]>>
                                          ELSE <<file[r.fd][1], blob>>]
        /\ durable' = durable
    BY <1>1 DEF WriteHalf
  <1> HIDE DEF blob
  <1>5. SoundHalf(blob)
    BY <1>2, <1>3 DEF SoundHalf
  <1>6. \A q \in Proc : SoundRun(run'[q])
    BY <1>4, StepSound
  <1>7. /\ file \in [Inode -> Content]
        /\ \A j \in Inode : SoundContent(file[j]) /\ SoundContent(durable[j])
    BY DEF SoundInv, TypeInv, TypeOK, Content
  <1>8. \A j \in Inode : SoundContent(file'[j])
    BY <1>4, <1>5, <1>7 DEF SoundContent
  <1> QED BY <1>4, <1>6, <1>7, <1>8 DEF SoundInv

\* Flushing copies sound contents, renaming moves them, dying leaves them.
LEMMA FinishSound ==
    ASSUME SoundInv, TypeInv', NEW p \in Proc, SyncAll(p) \/ Rename(p) \/ Die(p)
    PROVE  SoundInv'
  <1>0. /\ file \in [Inode -> Content] /\ durable \in [Inode -> Content]
        /\ \A j \in Inode : SoundContent(file[j]) /\ SoundContent(durable[j])
    BY DEF SoundInv, TypeInv, TypeOK, Content
  <1>1. CASE SyncAll(p)
    <2>1. /\ run[p].pc = "sync" /\ Enter(p, [run[p] EXCEPT !.pc = "rename"])
          /\ file' = file
          /\ \/ durable' = durable
             \/ durable' = [durable EXCEPT ![run[p].fd] = file[run[p].fd]]
      BY <1>1 DEF SyncAll
    <2>2. \A q \in Proc : SoundRun(run'[q])
      BY <2>1, StepSound
    <2>3. \A j \in Inode : SoundContent(file'[j]) /\ SoundContent(durable'[j])
      BY <1>0, <2>1
    <2> QED BY <2>2, <2>3 DEF SoundInv
  <1>2. CASE Rename(p)
    <2>1. /\ Leave(p)
          /\ \/ file' = file /\ durable' = durable
             \/ \E live : file' = Only(live, file) /\ durable' = Only(live, durable)
      BY <1>2 DEF Rename, Disk
    <2>2. \A q \in Proc : SoundRun(run'[q])
      BY <2>1, LeaveSound
    <2>3. \A j \in Inode : SoundContent(file'[j]) /\ SoundContent(durable'[j])
      BY <1>0, <2>1, OnlySound
    <2> QED BY <2>2, <2>3 DEF SoundInv
  <1>3. CASE Die(p)
    <2>1. Leave(p) /\ file' = file /\ durable' = durable
      BY <1>3 DEF Die, Disk
    <2>2. \A q \in Proc : SoundRun(run'[q])
      BY <2>1, LeaveSound
    <2> QED BY <1>0, <2>1, <2>2 DEF SoundInv
  <1> QED BY <1>1, <1>2, <1>3

\* After a power loss every half is one that was in memory or on the disk.
LEMMA DiskSound ==
    ASSUME SoundInv, TypeInv',
           \/ WriteBack
           \/ \E w \in old \cup {dir.wallet}, stale \in SUBSET Unflushed :
                 PowerLoss(w, stale)
    PROVE  SoundInv'
  <1>0. \A j \in Inode : SoundContent(file[j]) /\ SoundContent(durable[j])
    BY DEF SoundInv
  <1>1. CASE WriteBack
    <2>1. /\ run' = run /\ durable' = file'
          /\ file' = Only({dir.wallet, dir.tmp} \cup Fds, file)
      BY <1>1 DEF WriteBack
    <2>2. \A j \in Inode : SoundContent(file'[j])
      BY <1>0, <2>1, OnlySound
    <2> QED BY <2>1, <2>2 DEF SoundInv
  <1>2. ASSUME NEW w \in old \cup {dir.wallet}, NEW stale, PowerLoss(w, stale)
        PROVE  SoundInv'
    <2> DEFINE tmp == IF w = dir.wallet THEN dir.tmp ELSE dir.wallet
               Half(i, h) == IF <<i, h>> \in stale THEN durable[i][h] ELSE file[i][h]
               mixed == [i \in Inode |-> <<Half(i, 1), Half(i, 2)>>]
    <2>1. /\ run' = [p \in Proc |-> Idle]
          /\ file' = Only({w, tmp}, mixed) /\ durable' = Only({w, tmp}, mixed)
      BY <1>2 DEF PowerLoss
    <2>2. \A j \in Inode : SoundContent(mixed[j])
      BY <1>0 DEF SoundContent
    <2> HIDE DEF mixed, tmp
    <2>3. \A j \in Inode : SoundContent(file'[j]) /\ SoundContent(durable'[j])
      BY <2>1, <2>2, OnlySound
    <2>4. \A q \in Proc : SoundRun(run'[q])
      BY <2>1, IdleSound
    <2> QED BY <2>3, <2>4 DEF SoundInv
  <1> QED BY <1>1, <1>2

\* Soundness is inductive.
LEMMA SoundInductive == Spec => []SoundInv
  <1>1. Init /\ TypeInv => SoundInv
    <2> SUFFICES ASSUME Init, TypeInv PROVE SoundInv
      OBVIOUS
    <2>1. \A p \in Proc : SoundRun(run[p])
      BY IdleSound DEF Init
    <2>2. \A i \in Inode : SoundContent(file[i]) /\ SoundContent(durable[i])
      BY IdleSound DEF Init
    <2> QED BY <2>1, <2>2 DEF SoundInv
  <1>2. SoundInv /\ TypeInv' /\ [Next]_vars => SoundInv'
    <2> SUFFICES ASSUME SoundInv, TypeInv', [Next]_vars PROVE SoundInv'
      OBVIOUS
    <2>1. ASSUME NEW p \in Proc, NEW half, WriteHalf(p, half, "first", "second")
          PROVE  SoundInv'
      BY <2>1, WriteHalfSound
    <2>2. ASSUME NEW p \in Proc, NEW half, WriteHalf(p, half, "second", "sync")
          PROVE  SoundInv'
      BY <2>2, WriteHalfSound
    <2>3. ASSUME NEW p \in Proc, Lock(p)
          PROVE  SoundInv'
      BY <2>3 DEF Lock, clear_key, Disk, SoundInv
    <2>4. CASE UNCHANGED vars
      BY <2>4 DEF vars, SoundInv
    <2> QED
      BY <2>1, <2>2, <2>3, <2>4, LoadSound, PromptSound, CommandSound, NewKeySound,
         OpenTmpSound, FinishSound, DiskSound DEF Next
  <1> QED BY <1>1, <1>2, TypeInductive, PTL DEF Spec

\* The wallet file is a whole and sound encryption, if it is a whole one.
LEMMA WalletSound ==
    ASSUME SoundInv, dir.wallet # 0, Whole(file[dir.wallet])
    PROVE  /\ HasPassword(file[dir.wallet][1].key, file[dir.wallet][1].salt)
           /\ ActiveIn(file[dir.wallet][1].data)
  <1>1. dir.wallet \in Inode
    BY WalletAssumption DEF SoundInv, TypeInv, TypeOK, Inode
  <1>2. SoundHalf(file[dir.wallet][1])
    BY <1>1 DEF SoundInv, SoundContent
  <1> QED BY <1>2 DEF SoundHalf, Whole

\* Whatever writers overwrite each other, whoever dies and whenever power is
\* lost, a wallet on the disk opens with a password somebody chose for its salt.
THEOREM OpenableAlways == Spec => []Openable
  <1>1. SoundInv => Openable
    BY WalletSound DEF Openable
  <1> QED BY <1>1, SoundInductive, PTL

\* And the active identity it names is one of its identities.
THEOREM ActiveExistsAlways == Spec => []ActiveExists
  <1>1. SoundInv => ActiveExists
    BY WalletSound DEF ActiveExists
  <1> QED BY <1>1, SoundInductive, PTL
-----------------------------------------------------------------------------
(* No key of this wallet outlives a lock with nothing running. *)

\* Where the wallet's path is canonical, every key is cached under the account
\* of the canonical path.
LockInv ==
    /\ TypeInv
    /\ keychain["raw"] = NoKey
    /\ \A p \in Proc : run[p].pc = "newkey" => run[p].acct = "canonical"
    /\ locked => /\ \A p \in Proc : run[p].pc = "idle"
                 /\ keychain["canonical"] = NoKey

\* An account other than the one a key is stored under keeps its entry.
LEMMA StoredAt ==
    ASSUME TypeOK, NEW acct \in Account, NEW key, store_key(acct, key),
           keychain["raw"] = NoKey, acct = "canonical"
    PROVE  keychain'["raw"] = NoKey
  BY DEF TypeOK, Account, store_key, clear_key

\* A process on the way to its password has left the account alone.
LEMMA LockEnter ==
    ASSUME LockInv, TypeInv', NEW p \in Proc, NEW r, Enter(p, r),
           r.pc = "newkey" => r.acct = "canonical",
           keychain'["raw"] = NoKey, ~locked'
    PROVE  LockInv'
  BY DEF LockInv, TypeInv, TypeOK, Enter

\* So has one that ends.
LEMMA LockLeave ==
    ASSUME LockInv, TypeInv', NEW p \in Proc, Leave(p),
           keychain'["raw"] = NoKey, ~locked'
    PROVE  LockInv'
  BY IdleType DEF LockInv, TypeInv, TypeOK, Leave

\* Saving looks the account up by the canonical path.
LEMMA LockSave ==
    ASSUME LockInv, TypeInv', PathIsCanonical, NEW p \in Proc, NEW d, NEW isNew,
           Save(p, d, isNew), keychain' = keychain, ~locked'
    PROVE  LockInv'
  <1>1. PICK r \in Running : r = run[p]
    BY DEF LockInv, TypeInv, TypeOK
  <1> DEFINE pc == IF isNew THEN "newkey" ELSE "open"
             r2 == [r EXCEPT !.data = d, !.pc = pc,
                             !.acct = account_name_for_wallet(dir.wallet # 0)]
  <1>2. Enter(p, r2)
    BY <1>1 DEF Save
  <1>3. r2.acct = "canonical"
    BY DEF Running, account_name_for_wallet
  <1>4. keychain'["raw"] = NoKey
    BY DEF LockInv
  <1> HIDE DEF r2
  <1> QED BY <1>2, <1>3, <1>4, LockEnter

\* A process that is in the middle of a command is why nothing counts as locked.
LEMMA BusyUnlocked ==
    ASSUME LockInv, NEW p \in Proc, run[p].pc # "idle"
    PROVE  ~locked
  BY DEF LockInv

\* Every step keeps it.
LEMMA LockStep ==
    ASSUME LockInv, TypeInv', PathIsCanonical, Next
    PROVE  LockInv'
  <1>0. TypeOK /\ TypeInv
    BY DEF LockInv, TypeInv
  <1>1. ASSUME NEW p \in Proc, NEW op \in Command, NEW n \in Name, Load(p, op, n)
        PROVE  LockInv'
    <2> DEFINE r == [Idle EXCEPT !.pc = "loaded", !.op = op, !.name = n]
               content == file[dir.wallet]
               key == get_key(account_name_for_wallet(TRUE))
               r2 == [r EXCEPT !.data = content[1].data, !.key = key,
                               !.salt = content[1].salt]
               r3 == [r EXCEPT !.pc = "prompt", !.read = content]
    <2>1. keychain' = keychain /\ ~locked' /\ keychain'["raw"] = NoKey
      BY <1>1 DEF Load, LockInv
    <2>2. r.pc = "loaded" /\ r2.pc = "loaded" /\ r3.pc = "prompt"
      <3>1. r \in Running
        BY IdleType DEF Running, Command
      <3> HIDE DEF r, content, key
      <3>2. r2.pc = r.pc /\ r3.pc = "prompt"
        BY <3>1 DEF Running
      <3>3. r.pc = "loaded"
        BY DEF r, Idle
      <3> QED BY <3>2, <3>3
    <2>3. Enter(p, r) \/ Enter(p, r2) \/ Enter(p, r3) \/ run' = run
      BY <1>1 DEF Load
    <2> HIDE DEF r, r2, r3
    <2>4. CASE run' = run
      BY <2>1, <2>4 DEF LockInv
    <2> QED BY <2>1, <2>2, <2>3, <2>4, LockEnter
  <1>2. ASSUME NEW p \in Proc, NEW pw \in Pw, Prompt(p, pw)
        PROVE  LockInv'
    <2>1. PICK r \in Running : r = run[p]
      BY <1>0 DEF TypeOK
    <2> DEFINE salt == r.read[1].salt
               key == derive_key(pw, salt)
               r2 == [r EXCEPT !.pc = "loaded", !.data = r.read[1].data, !.key = key,
                               !.salt = salt, !.read = <<Hole, Hole>>]
    <2>2. ~locked'
      BY <1>2, BusyUnlocked DEF Prompt
    <2>3. r2.pc = "loaded"
      BY DEF Running
    <2>4. \/ store_key("canonical", key) /\ Enter(p, r2)
          \/ Leave(p) /\ keychain' = keychain
      BY <1>2, <2>1 DEF Prompt
    <2> HIDE DEF r2, key
    <2>5. keychain'["raw"] = NoKey
      BY <1>0, <2>4, StoredAt DEF LockInv, Account
    <2> QED BY <2>2, <2>3, <2>4, <2>5, LockEnter, LockLeave
  <1>3. ASSUME NEW p \in Proc,
               NewIdentity(p) \/ UseIdentity(p) \/ DeleteIdentity(p) \/ Look(p)
        PROVE  LockInv'
    <2>1. run[p].pc # "idle" /\ keychain' = keychain /\ locked' = locked
      BY <1>3 DEF NewIdentity, UseIdentity, DeleteIdentity, Look, Doing
    <2>2. ~locked' /\ keychain'["raw"] = NoKey
      BY <2>1, BusyUnlocked DEF LockInv
    <2>3. Leave(p) \/ \E d, isNew : Save(p, d, isNew)
      BY <1>3 DEF NewIdentity, UseIdentity, DeleteIdentity, Look
    <2> QED BY <2>1, <2>2, <2>3, LockLeave, LockSave
  <1>4. ASSUME NEW p \in Proc, Lock(p)
        PROVE  LockInv'
    <2>1. clear_key("canonical") /\ run' = run
          /\ locked' = \A q \in Proc : run[q].pc = "idle"
      BY <1>4 DEF Lock, account_name_for_wallet
    <2>2. keychain'["raw"] = NoKey /\ keychain'["canonical"] = NoKey
      BY <1>0, <2>1 DEF LockInv, TypeOK, Account, clear_key
    <2> QED BY <2>1, <2>2 DEF LockInv
  <1>5. ASSUME NEW p \in Proc, NEW pw \in Pw, NewKey(p, pw)
        PROVE  LockInv'
    <2>1. PICK r \in Running : r = run[p]
      BY <1>0 DEF TypeOK
    <2> DEFINE key == derive_key(pw, salts + 1)
               r2 == [r EXCEPT !.pc = "open", !.key = key, !.salt = salts + 1]
    <2>2. /\ r.pc = "newkey" /\ store_key(r.acct, key) /\ Enter(p, r2)
          /\ locked' = locked
      BY <1>5, <2>1 DEF NewKey
    <2>3. r.acct = "canonical" /\ ~locked'
      BY <2>1, <2>2, BusyUnlocked DEF LockInv
    <2>4. r2.pc = "open"
      BY DEF Running
    <2> HIDE DEF r2, key
    <2>5. keychain'["raw"] = NoKey
      BY <1>0, <2>2, <2>3, StoredAt DEF LockInv, Account
    <2> QED BY <2>2, <2>3, <2>4, <2>5, LockEnter
  <1>6. ASSUME NEW p \in Proc, keychain' = keychain, locked' = locked, run[p].pc # "idle",
               NEW r, Enter(p, r), r.pc # "newkey"
        PROVE  LockInv'
    <2>1. ~locked' /\ keychain'["raw"] = NoKey
      BY <1>6, BusyUnlocked DEF LockInv
    <2> QED BY <1>6, <2>1, LockEnter
  <1>7. ASSUME NEW p \in Proc,
               \/ OpenTmp(p) \/ SyncAll(p)
               \/ WriteHalf(p, 1, "first", "second") \/ WriteHalf(p, 2, "second", "sync")
        PROVE  LockInv'
    <2>1. PICK r \in Running : r = run[p]
      BY <1>0 DEF TypeOK
    <2>2. keychain' = keychain /\ locked' = locked /\ r.pc # "idle"
      BY <1>7, <2>1 DEF OpenTmp, SyncAll, WriteHalf
    <2>3. \/ \E i : Enter(p, [r EXCEPT !.pc = "first", !.fd = i])
          \/ \E pc \in {"second", "sync", "rename"} : Enter(p, [r EXCEPT !.pc = pc])
      BY <1>7, <2>1 DEF OpenTmp, SyncAll, WriteHalf
    <2>4. ASSUME NEW i PROVE [r EXCEPT !.pc = "first", !.fd = i].pc # "newkey"
      BY DEF Running
    <2>5. ASSUME NEW pc \in {"second", "sync", "rename"}
          PROVE  [r EXCEPT !.pc = pc].pc # "newkey"
      BY DEF Running
    <2> QED BY <2>1, <2>2, <2>3, <2>4, <2>5, <1>6
  <1>8. ASSUME NEW p \in Proc, Rename(p) \/ Die(p)
        PROVE  LockInv'
    <2>1. Leave(p) /\ keychain' = keychain /\ locked' = locked /\ run[p].pc # "idle"
      BY <1>8 DEF Rename, Die
    <2>2. ~locked' /\ keychain'["raw"] = NoKey
      BY <2>1, BusyUnlocked DEF LockInv
    <2> QED BY <2>1, <2>2, LockLeave
  <1>9. ASSUME \/ WriteBack
               \/ \E w \in old \cup {dir.wallet}, stale \in SUBSET Unflushed :
                     PowerLoss(w, stale)
        PROVE  LockInv'
    <2>1. /\ keychain' = keychain /\ locked' = locked
          /\ run' = run \/ run' = [p \in Proc |-> Idle]
      BY <1>9 DEF WriteBack, PowerLoss
    <2> QED BY <2>1, IdleType DEF LockInv
  <1> QED BY <1>1, <1>2, <1>3, <1>4, <1>5, <1>7, <1>8, <1>9 DEF Next

\* Where the wallet's path is canonical, no keychain entry holds a key of this
\* wallet after a lock with nothing else running, whoever unlocks, creates a
\* wallet or dies before it (credential.rs, WalletCommand::Lock).
THEOREM LockHoldsAlways == PathIsCanonical => (Spec => []LockHolds)
  <1> SUFFICES ASSUME PathIsCanonical PROVE Spec => []LockHolds
    OBVIOUS
  <1>1. Init /\ TypeInv => LockInv
    BY IdleType DEF Init, LockInv, Account
  <1>2. LockInv /\ TypeInv' /\ [Next]_vars => LockInv'
    <2>1. CASE UNCHANGED vars
      BY <2>1 DEF vars, LockInv
    <2> QED BY <2>1, LockStep
  <1>3. LockInv => LockHolds
    BY DEF LockInv, LockHolds, Account
  <1> QED BY <1>1, <1>2, <1>3, TypeInductive, PTL DEF Spec

-----------------------------------------------------------------------------
(* The wallet file and the temporary file, with one writer. *)

Writing == {"first", "second", "sync", "rename"}

\* What a process writes.
SealedBy(p, r) == encrypt_wallet_with_key(r.data, r.key, r.salt, p)

\* Commands that only look never get to save.
LooksOnly(p, r) ==
    p \notin Writer => /\ r.pc \in {"idle", "prompt", "loaded"}
                       /\ r.pc # "idle" => r.op = "look"

\* How far a writer is, by what it has written and flushed.
Progress(p, r) ==
    /\ r.pc \in Writing => dir.tmp # 0 /\ r.fd = dir.tmp
    /\ r.pc \in {"second", "sync", "rename"} => file[dir.tmp][1] = SealedBy(p, r)
    /\ r.pc \in {"sync", "rename"} => file[dir.tmp][2] = SealedBy(p, r)
    /\ r.pc = "rename" /\ PowerFails => durable[dir.tmp] = file[dir.tmp]

\* The files the wallet's name stands for, or may stand for after a power loss.
WalletFiles == (old \cup {dir.wallet}) \ {0}

FilesWhole ==
    \A i \in WalletFiles : Whole(file[i]) /\ (PowerFails => durable[i] = file[i])

IntactInv ==
    /\ TypeInv
    /\ \A p \in Proc : LooksOnly(p, run[p])
    /\ \A p \in Proc : Progress(p, run[p])
    /\ FilesWhole
    /\ dir.tmp \notin WalletFiles
    /\ ~PowerFails => old = {}

\* The files the wallet's name may stand for exist.
LEMMA WalletFilesType == TypeInv => WalletFiles \subseteq Inode
  <1> SUFFICES ASSUME TypeInv PROVE WalletFiles \subseteq Inode
    OBVIOUS
  <1>1. old \subseteq 0 .. MaxInode /\ dir.wallet \in 0 .. MaxInode
    BY DEF TypeInv, TypeOK
  <1>2. \A i \in 0 .. MaxInode : i # 0 => i \in Inode
    BY WalletAssumption DEF Inode
  <1> QED BY <1>1, <1>2 DEF WalletFiles

\* A step that leaves the disk alone and brings no process to its writing.
LEMMA IntactEnter ==
    ASSUME IntactInv, TypeInv', UNCHANGED <<dir, file, durable, old>>,
           NEW p \in Proc, NEW r, Enter(p, r), r.pc \notin Writing, LooksOnly(p, r)
    PROVE  IntactInv'
  <1>1. run' = [run EXCEPT ![p] = r] /\ run \in [Proc -> Running]
    BY DEF IntactInv, TypeInv, TypeOK, Enter
  <1>2. \A q \in Proc : LooksOnly(q, run'[q])
    BY <1>1 DEF IntactInv
  <1>3. \A q \in Proc : Progress(q, run'[q])
    <2>1. Progress(p, r)
      BY DEF Progress, Writing
    <2> QED BY <1>1, <2>1 DEF IntactInv
  <1>4. \A q \in Proc : Progress(q, run[q])'
    BY <1>3 DEF Progress
  <1>5. FilesWhole' /\ dir'.tmp \notin WalletFiles' /\ (~PowerFails => old' = {})
    BY DEF IntactInv, FilesWhole, WalletFiles
  <1> QED BY <1>2, <1>4, <1>5 DEF IntactInv, LooksOnly

\* A process that ends its command, with the disk left alone.
LEMMA IntactLeave ==
    ASSUME IntactInv, TypeInv', UNCHANGED <<dir, file, durable, old>>,
           NEW p \in Proc, Leave(p)
    PROVE  IntactInv'
  <1>1. Enter(p, Idle) /\ Idle.pc \notin Writing /\ LooksOnly(p, Idle)
    BY IdleType DEF Leave, Enter, Writing, LooksOnly
  <1> QED BY <1>1, IntactEnter

\* Loading and typing the password.
LEMMA IntactRead ==
    ASSUME IntactInv, TypeInv', NEW p \in Proc,
           \/ \E op \in Command, n \in Name : Load(p, op, n)
           \/ \E pw \in Pw : Prompt(p, pw)
    PROVE  IntactInv'
  <1>0. TypeOK
    BY DEF IntactInv, TypeInv
  <1>1. ASSUME NEW op \in Command, NEW n \in Name, Load(p, op, n)
        PROVE  IntactInv'
    <2> DEFINE r == [Idle EXCEPT !.pc = "loaded", !.op = op, !.name = n]
               content == file[dir.wallet]
               key == get_key(account_name_for_wallet(TRUE))
               r2 == [r EXCEPT !.data = content[1].data, !.key = key,
                               !.salt = content[1].salt]
               r3 == [r EXCEPT !.pc = "prompt", !.read = content]
    <2>1. UNCHANGED <<dir, file, durable, old>> /\ (p \in Writer <=> op # "look")
      BY <1>1 DEF Load, Disk
    <2>2. r \in Running /\ r.pc = "loaded" /\ r.op = op
      <3>1. r \in Running
        BY IdleType DEF Running, Command
      <3> QED BY <3>1 DEF Idle
    <2>3. Enter(p, r) \/ Enter(p, r2) \/ Enter(p, r3) \/ run' = run
      BY <1>1 DEF Load
    <2> HIDE DEF r, content, key
    <2>4. r2.pc = "loaded" /\ r2.op = op /\ r3.pc = "prompt" /\ r3.op = op
      BY <2>2 DEF Running
    <2> HIDE DEF r2, r3
    <2>5. LooksOnly(p, r) /\ LooksOnly(p, r2) /\ LooksOnly(p, r3)
      BY <2>1, <2>2, <2>4 DEF LooksOnly
    <2>6. r.pc \notin Writing /\ r2.pc \notin Writing /\ r3.pc \notin Writing
      BY <2>2, <2>4 DEF Writing
    <2>7. CASE run' = run
      BY <2>1, <2>7 DEF IntactInv, LooksOnly, Progress, FilesWhole, WalletFiles
    <2> QED BY <2>1, <2>3, <2>5, <2>6, <2>7, IntactEnter
  <1>2. ASSUME NEW pw \in Pw, Prompt(p, pw)
        PROVE  IntactInv'
    <2>1. PICK r \in Running : r = run[p]
      BY <1>0 DEF TypeOK
    <2> DEFINE salt == r.read[1].salt
               key == derive_key(pw, salt)
               r2 == [r EXCEPT !.pc = "loaded", !.data = r.read[1].data, !.key = key,
                               !.salt = salt, !.read = <<Hole, Hole>>]
    <2>2. Enter(p, r2) \/ Leave(p)
      BY <1>2, <2>1 DEF Prompt
    <2>3. r2.pc = "loaded" /\ r2.op = r.op /\ r.pc = "prompt"
          /\ UNCHANGED <<dir, file, durable, old>>
      BY <1>2, <2>1 DEF Running, Prompt, Disk
    <2> HIDE DEF r2
    <2>4. LooksOnly(p, r2) /\ r2.pc \notin Writing
      BY <2>1, <2>3 DEF IntactInv, LooksOnly, Writing
    <2> QED BY <2>2, <2>3, <2>4, IntactEnter, IntactLeave
  <1> QED BY <1>1, <1>2

\* The commands, and choosing a password.
LEMMA IntactCommand ==
    ASSUME IntactInv, TypeInv', NEW p \in Proc,
           \/ NewIdentity(p) \/ UseIdentity(p) \/ DeleteIdentity(p) \/ Look(p)
           \/ \E pw \in Pw : NewKey(p, pw)
    PROVE  IntactInv'
  <1>0. UNCHANGED <<dir, file, durable, old>>
    BY DEF NewIdentity, UseIdentity, DeleteIdentity, Look, NewKey, Disk
  <1>1. PICK r \in Running : r = run[p] /\ LooksOnly(p, r)
    BY DEF IntactInv, TypeInv, TypeOK
  <1>2. ASSUME NEW d, NEW isNew, Save(p, d, isNew), p \in Writer
        PROVE  IntactInv'
    <2>1. PICK acct, pc : /\ acct = account_name_for_wallet(dir.wallet # 0)
                          /\ pc = IF isNew THEN "newkey" ELSE "open"
      OBVIOUS
    <2> DEFINE r2 == [r EXCEPT !.data = d, !.pc = pc, !.acct = acct]
    <2>2. Enter(p, r2) /\ r2.pc = pc
      BY <1>1, <1>2, <2>1 DEF Save, Running
    <2> HIDE DEF r2
    <2>3. r2.pc \notin Writing /\ LooksOnly(p, r2)
      BY <1>2, <2>1, <2>2 DEF Writing, LooksOnly
    <2> QED BY <1>0, <2>2, <2>3, IntactEnter
  <1>3. CASE Leave(p)
    BY <1>0, <1>3, IntactLeave
  <1>4. CASE NewIdentity(p) \/ UseIdentity(p) \/ DeleteIdentity(p) \/ Look(p)
    <2>1. Leave(p) \/ (\E d, isNew : Save(p, d, isNew) /\ r.op # "look")
      BY <1>1, <1>4 DEF NewIdentity, UseIdentity, DeleteIdentity, Look, Doing
    <2>2. r.pc = "loaded"
      BY <1>1, <1>4 DEF NewIdentity, UseIdentity, DeleteIdentity, Look, Doing
    <2> QED BY <1>1, <1>2, <1>3, <2>1, <2>2 DEF LooksOnly
  <1>5. ASSUME NEW pw \in Pw, NewKey(p, pw)
        PROVE  IntactInv'
    <2> DEFINE key == derive_key(pw, salts + 1)
               r2 == [r EXCEPT !.pc = "open", !.key = key, !.salt = salts + 1]
    <2>1. Enter(p, r2) /\ r.pc = "newkey" /\ r2.pc = "open"
      BY <1>1, <1>5 DEF NewKey, Running
    <2> HIDE DEF r2
    <2>2. r2.pc \notin Writing /\ LooksOnly(p, r2)
      BY <1>1, <2>1 DEF Writing, LooksOnly
    <2> QED BY <1>0, <2>1, <2>2, IntactEnter
  <1> QED BY <1>4, <1>5

\* With one writer, nobody else is writing while it does.
LEMMA OnlyWriter ==
    ASSUME IntactInv, Serial, NEW p \in Proc,
           run[p].pc \in Writing \cup {"newkey", "open"},
           NEW q \in Proc, q # p
    PROVE  run[q].pc \notin Writing \cup {"newkey", "open"}
  BY DEF IntactInv, LooksOnly, Serial, Writing

\* A step of the writer that touches no file of the wallet's name.
LEMMA IntactWriter ==
    ASSUME IntactInv, TypeInv', Serial, NEW p \in Proc, NEW r, Enter(p, r),
           run[p].pc \in Writing \cup {"open"},
           dir'.wallet = dir.wallet, old' = old, dir'.tmp \notin WalletFiles,
           \A i \in WalletFiles : file'[i] = file[i] /\ durable'[i] = durable[i],
           Progress(p, r)'
    PROVE  IntactInv'
  <1>1. run' = [run EXCEPT ![p] = r] /\ run \in [Proc -> Running]
    BY DEF IntactInv, TypeInv, TypeOK, Enter
  <1>2. p \in Writer
    BY DEF IntactInv, LooksOnly, Writing
  <1>3. \A q \in Proc : LooksOnly(q, run'[q])
    BY <1>1, <1>2 DEF IntactInv, LooksOnly
  <1>4. \A q \in Proc : Progress(q, run[q])'
    <2> SUFFICES ASSUME NEW q \in Proc, q # p PROVE Progress(q, run[q])'
      BY <1>1
    <2>1. run'[q] = run[q] /\ run[q].pc \notin Writing
      BY <1>1, OnlyWriter
    <2> QED BY <2>1 DEF Progress, Writing
  <1>5. WalletFiles' = WalletFiles /\ FilesWhole'
    BY DEF IntactInv, FilesWhole, WalletFiles
  <1> QED BY <1>3, <1>4, <1>5 DEF IntactInv, LooksOnly

\* Opening the temporary file.
LEMMA IntactOpen ==
    ASSUME IntactInv, TypeInv', Serial, NEW p \in Proc, OpenTmp(p)
    PROVE  IntactInv'
  <1>0. TypeOK /\ run[p].pc = "open"
    BY DEF IntactInv, TypeInv, OpenTmp
  <1>1. PICK i \in Inode :
          /\ i \notin WalletFiles
          /\ dir' = [dir EXCEPT !.tmp = i]
          /\ file' = [file EXCEPT ![i] = <<Hole, Hole>>]
          /\ durable' = IF dir.tmp # 0 THEN durable
                        ELSE [durable EXCEPT ![i] = <<Hole, Hole>>]
          /\ Enter(p, [run[p] EXCEPT !.pc = "first", !.fd = i])
    <2> DEFINE S == IF dir.tmp # 0 THEN {dir.tmp}
                    ELSE {j \in Free : \A k \in Free : j <= k}
    <2>1. S \subseteq Inode
      BY <1>0, WalletAssumption DEF Free, Inode, TypeOK
    <2>2. \A i \in S : i \notin WalletFiles
      BY DEF Free, IntactInv, WalletFiles
    <2> HIDE DEF S
    <2> QED BY <2>1, <2>2 DEF OpenTmp, S
  <1>2. dir'.wallet = dir.wallet /\ dir'.tmp = i /\ old' = old /\ i # 0
    BY <1>0, <1>1 DEF OpenTmp, TypeOK, Inode
  <1>3. PICK r \in Running : r = run[p]
    BY <1>0 DEF TypeOK
  <1> DEFINE r2 == [r EXCEPT !.pc = "first", !.fd = i]
  <1>4. r2.pc = "first" /\ r2.fd = i /\ Enter(p, r2)
    BY <1>1, <1>3 DEF Running
  <1> HIDE DEF r2
  <1>5. Progress(p, r2)'
    BY <1>2, <1>4 DEF Progress
  <1>6. \A j \in WalletFiles : file'[j] = file[j] /\ durable'[j] = durable[j]
    BY <1>0, <1>1, WalletFilesType DEF TypeOK, IntactInv
  <1> QED BY <1>0, <1>1, <1>2, <1>4, <1>5, <1>6, IntactWriter

\* Advancing leaves alone what a process seals.
LEMMA SameSeal ==
    ASSUME NEW p, NEW r \in Running, NEW pc
    PROVE  /\ SealedBy(p, [r EXCEPT !.pc = pc]) = SealedBy(p, r)
           /\ [r EXCEPT !.pc = pc].fd = r.fd /\ [r EXCEPT !.pc = pc].pc = pc
           /\ [r EXCEPT !.pc = pc].op = r.op /\ [r EXCEPT !.pc = pc].name = r.name
           /\ [r EXCEPT !.pc = pc].data = r.data
  BY DEF SealedBy, Running

\* Writing the halves.
LEMMA IntactWrite ==
    ASSUME IntactInv, TypeInv', Serial, NEW p \in Proc,
           WriteHalf(p, 1, "first", "second") \/ WriteHalf(p, 2, "second", "sync")
    PROVE  IntactInv'
  <1>0. TypeOK
    BY DEF IntactInv, TypeInv
  <1>1. PICK r \in Running : r = run[p] /\ Progress(p, r)
    BY <1>0 DEF TypeOK, IntactInv
  <1>2. r.pc \in Writing
    BY <1>1 DEF WriteHalf, Writing
  <1>3. r.fd = dir.tmp /\ dir.tmp \in Inode /\ dir.tmp \notin WalletFiles
    BY <1>0, <1>1, <1>2, WalletAssumption DEF TypeOK, Inode, Progress, IntactInv
  <1>4. dir' = dir /\ old' = old /\ durable' = durable
    BY DEF WriteHalf
  <1>5. CASE WriteHalf(p, 1, "first", "second")
    <2> DEFINE r2 == [r EXCEPT !.pc = "second"]
    <2>1. file' = [file EXCEPT ![dir.tmp] = <<SealedBy(p, r), file[dir.tmp][2]>>]
      BY <1>1, <1>3, <1>5 DEF WriteHalf, SealedBy
    <2>2. Enter(p, r2)
      BY <1>1, <1>5 DEF WriteHalf
    <2>3. r2.pc = "second" /\ r2.fd = r.fd /\ SealedBy(p, r2) = SealedBy(p, r)
      BY SameSeal
    <2> HIDE DEF r2
    <2>4. file'[dir.tmp][1] = SealedBy(p, r)
      BY <1>0, <1>3, <2>1 DEF TypeOK
    <2>5. Progress(p, r2)'
      BY <1>2, <1>3, <1>1, <1>4, <2>3, <2>4 DEF Progress, SealedBy
    <2>6. \A j \in WalletFiles : file'[j] = file[j] /\ durable'[j] = durable[j]
      BY <1>0, <1>3, <1>4, <2>1, WalletFilesType DEF TypeOK, IntactInv
    <2> QED BY <1>1, <1>2, <1>3, <1>4, <2>2, <2>5, <2>6, IntactWriter
  <1>6. CASE WriteHalf(p, 2, "second", "sync")
    <2> DEFINE r2 == [r EXCEPT !.pc = "sync"]
    <2>1. file' = [file EXCEPT ![dir.tmp] = <<file[dir.tmp][1], SealedBy(p, r)>>]
      BY <1>1, <1>3, <1>6 DEF WriteHalf, SealedBy
    <2>2. Enter(p, r2) /\ r.pc = "second"
      BY <1>1, <1>6 DEF WriteHalf
    <2>3. r2.pc = "sync" /\ r2.fd = r.fd /\ SealedBy(p, r2) = SealedBy(p, r)
      BY SameSeal
    <2> HIDE DEF r2
    <2>4. file'[dir.tmp] = <<file[dir.tmp][1], SealedBy(p, r)>>
          /\ file[dir.tmp][1] = SealedBy(p, r)
      BY <1>0, <1>1, <1>3, <2>1, <2>2 DEF TypeOK, Progress
    <2>5. Progress(p, r2)'
      BY <1>2, <1>3, <1>1, <1>4, <2>3, <2>4 DEF Progress, SealedBy
    <2>6. \A j \in WalletFiles : file'[j] = file[j] /\ durable'[j] = durable[j]
      BY <1>0, <1>3, <1>4, <2>1, WalletFilesType DEF TypeOK, IntactInv
    <2> QED BY <1>1, <1>2, <1>3, <1>4, <2>2, <2>5, <2>6, IntactWriter
  <1> QED BY <1>5, <1>6

\* Flushing.
LEMMA IntactSync ==
    ASSUME IntactInv, TypeInv', Serial, NEW p \in Proc, SyncAll(p)
    PROVE  IntactInv'
  <1>0. TypeOK
    BY DEF IntactInv, TypeInv
  <1>1. PICK r \in Running : r = run[p] /\ Progress(p, r) /\ r.pc = "sync"
    BY <1>0 DEF TypeOK, IntactInv, SyncAll
  <1>2. r.fd = dir.tmp /\ dir.tmp \in Inode /\ dir.tmp \notin WalletFiles
    BY <1>0, <1>1, WalletAssumption DEF TypeOK, Inode, Progress, Writing, IntactInv
  <1>3. dir' = dir /\ old' = old /\ file' = file
    BY DEF SyncAll
  <1> DEFINE r2 == [r EXCEPT !.pc = "rename"]
  <1>4. durable' = IF PowerFails THEN [durable EXCEPT ![dir.tmp] = file[dir.tmp]]
                   ELSE durable
    BY <1>1, <1>2 DEF SyncAll
  <1>5. Enter(p, r2)
    BY <1>1 DEF SyncAll
  <1>6. r2.pc = "rename" /\ r2.fd = r.fd /\ SealedBy(p, r2) = SealedBy(p, r)
    BY SameSeal
  <1> HIDE DEF r2
  <1>7. PowerFails => durable'[dir.tmp] = file[dir.tmp]
    BY <1>0, <1>2, <1>4 DEF TypeOK
  <1>8. Progress(p, r2)'
    BY <1>1, <1>2, <1>3, <1>6, <1>7 DEF Progress, Writing, SealedBy
  <1>9. \A j \in WalletFiles : file'[j] = file[j] /\ durable'[j] = durable[j]
    BY <1>0, <1>2, <1>3, <1>4, WalletFilesType DEF TypeOK, IntactInv
  <1> QED BY <1>1, <1>2, <1>3, <1>5, <1>8, <1>9, IntactWriter DEF Writing

\* A file that is referred to keeps its contents.
LEMMA OnlyKeeps ==
    ASSUME NEW live, NEW c, NEW i \in Inode, i \in live
    PROVE  Only(live, c)[i] = c[i]
  BY DEF Only

\* Renaming: what takes the wallet's name is whole and, if it may matter, flushed.
LEMMA IntactRename ==
    ASSUME IntactInv, TypeInv', Serial, NEW p \in Proc, Rename(p)
    PROVE  IntactInv'
  <1>0. TypeOK
    BY DEF IntactInv, TypeInv
  <1>1. PICK r \in Running : r = run[p] /\ Progress(p, r) /\ r.pc = "rename"
    BY <1>0 DEF TypeOK, IntactInv, Rename
  <1>2. dir.tmp # 0 /\ dir.tmp \in Inode
    BY <1>0, <1>1, WalletAssumption DEF TypeOK, Inode, Progress, Writing
  <1>3. PICK live, was :
          /\ was = IF PowerFails THEN old \cup {dir.wallet} ELSE old
          /\ live = {dir.tmp} \cup was \cup Fds
          /\ dir' = [wallet |-> dir.tmp, tmp |-> 0] /\ old' = was
          /\ file' = Only(live, file) /\ durable' = Only(live, durable)
    BY <1>2 DEF Rename
  <1>4. Whole(file[dir.tmp]) /\ (PowerFails => durable[dir.tmp] = file[dir.tmp])
    <2>1. SealedBy(p, r) \in Blob
      BY BlobType DEF SealedBy
    <2>2. SealedBy(p, r) # Hole
      BY <2>1, WalletNoneAssumption
    <2> QED BY <1>1, <2>2 DEF Progress, Whole
  <1>5. WalletFiles' \subseteq live \cap (WalletFiles \cup {dir.tmp})
    BY <1>3 DEF WalletFiles, IntactInv
  <1>6. FilesWhole'
    <2> SUFFICES ASSUME NEW i \in WalletFiles'
                 PROVE  Whole(file'[i]) /\ (PowerFails => durable'[i] = file'[i])
      BY DEF FilesWhole
    <2>1. i \in Inode /\ i \in live
      BY <1>2, <1>5, WalletFilesType DEF IntactInv
    <2>2. file'[i] = file[i] /\ durable'[i] = durable[i]
      BY <1>3, <2>1, OnlyKeeps
    <2>3. Whole(file[i]) /\ (PowerFails => durable[i] = file[i])
      BY <1>4, <1>5 DEF IntactInv, FilesWhole
    <2> QED BY <2>2, <2>3
  <1>7. dir'.tmp = 0 /\ 0 \notin WalletFiles' /\ (~PowerFails => old' = {})
    BY <1>3 DEF WalletFiles, IntactInv
  <1>8. run' = [run EXCEPT ![p] = Idle] /\ run \in [Proc -> Running]
    BY <1>0 DEF TypeOK, Rename, Leave
  <1>9. \A q \in Proc : LooksOnly(q, run'[q]) /\ run'[q].pc \notin Writing
    <2> SUFFICES ASSUME NEW q \in Proc
                 PROVE  LooksOnly(q, run'[q]) /\ run'[q].pc \notin Writing
      OBVIOUS
    <2>1. CASE q = p
      BY <1>8, <2>1, IdleType DEF LooksOnly, Writing
    <2>2. CASE q # p
      BY <1>1, <1>8, <2>2, OnlyWriter DEF IntactInv, Writing
    <2> QED BY <2>1, <2>2
  <1>10. \A q \in Proc : Progress(q, run[q])'
    BY <1>9 DEF Progress, Writing
  <1> QED BY <1>6, <1>7, <1>9, <1>10 DEF IntactInv, LooksOnly

\* Writing back keeps what is referred to.
LEMMA IntactWriteBack ==
    ASSUME IntactInv, TypeInv', WriteBack
    PROVE  IntactInv'
  <1> DEFINE live == {dir.wallet, dir.tmp} \cup Fds
  <1>1. /\ run' = run /\ dir' = dir /\ old' = {}
        /\ file' = Only(live, file) /\ durable' = file'
    BY DEF WriteBack
  <1>2. \A i \in Inode : i \in live => file'[i] = file[i]
    BY <1>1, OnlyKeeps
  <1>3. WalletFiles' \subseteq WalletFiles \cap live
    BY <1>1 DEF WalletFiles
  <1>4. FilesWhole'
    BY <1>1, <1>2, <1>3, WalletFilesType DEF IntactInv, FilesWhole
  <1>5. \A q \in Proc : Progress(q, run[q])'
    <2> SUFFICES ASSUME NEW q \in Proc PROVE Progress(q, run[q])'
      OBVIOUS
    <2>1. Progress(q, run[q])
      BY DEF IntactInv
    <2>2. CASE run[q].pc \notin Writing
      BY <1>1, <2>2 DEF Progress, Writing
    <2>3. CASE run[q].pc \in Writing
      <3>1. dir.tmp \in Inode
        BY <2>1, <2>3, WalletAssumption DEF Progress, IntactInv, TypeInv, TypeOK, Inode
      <3>2. file'[dir.tmp] = file[dir.tmp]
        BY <1>2, <3>1
      <3> QED BY <1>1, <2>1, <3>2 DEF Progress, SealedBy
    <2> QED BY <2>2, <2>3
  <1>6. dir'.tmp \notin WalletFiles' /\ (~PowerFails => old' = {})
    BY <1>1, <1>3 DEF IntactInv
  <1> QED BY <1>1, <1>4, <1>5, <1>6 DEF IntactInv, LooksOnly

\* A power loss brings back a file that was whole and flushed, and ends every
\* process.
LEMMA IntactPowerLoss ==
    ASSUME IntactInv, TypeInv', NEW w \in old \cup {dir.wallet}, NEW stale,
           PowerLoss(w, stale)
    PROVE  IntactInv'
  <1> DEFINE tmp == IF w = dir.wallet THEN dir.tmp ELSE dir.wallet
             Half(i, h) == IF <<i, h>> \in stale THEN durable[i][h] ELSE file[i][h]
             mixed == [i \in Inode |-> <<Half(i, 1), Half(i, 2)>>]
  <1>1. /\ PowerFails /\ run' = [p \in Proc |-> Idle] /\ old' = {}
        /\ dir' = [wallet |-> w, tmp |-> tmp]
        /\ file' = Only({w, tmp}, mixed) /\ durable' = file'
    BY DEF PowerLoss
  <1>2. WalletFiles' = {w} \ {0} /\ WalletFiles' \subseteq WalletFiles
    BY <1>1 DEF WalletFiles
  <1>3. tmp = 0 \/ tmp # w
    BY DEF IntactInv, WalletFiles
  <1>4. FilesWhole'
    <2> SUFFICES ASSUME w # 0 PROVE Whole(file'[w])
      BY <1>1, <1>2 DEF FilesWhole
    <2>1. w \in Inode /\ Whole(file[w]) /\ durable[w] = file[w]
      BY <1>1, <1>2, WalletFilesType DEF IntactInv, FilesWhole
    <2>2. mixed[w][1] = file[w][1] /\ mixed[w][2] = file[w][2]
      BY <2>1
    <2> HIDE DEF mixed, tmp
    <2>3. file'[w] = mixed[w]
      BY <1>1, <2>1, OnlyKeeps
    <2> QED BY <2>1, <2>2, <2>3 DEF Whole
  <1>5. dir'.tmp \notin WalletFiles'
    BY <1>1, <1>2, <1>3
  <1>6. \A q \in Proc : LooksOnly(q, run'[q]) /\ run'[q].pc \notin Writing
    BY <1>1, IdleType DEF LooksOnly, Writing
  <1>7. \A q \in Proc : Progress(q, run[q])'
    BY <1>6 DEF Progress, Writing
  <1> QED BY <1>1, <1>4, <1>5, <1>6, <1>7 DEF IntactInv, LooksOnly

\* Every step of a system with one writer keeps the files in order.
LEMMA IntactStep ==
    ASSUME IntactInv, TypeInv', Serial, [Next]_vars
    PROVE  IntactInv'
  <1>1. ASSUME NEW p \in Proc, Lock(p) PROVE IntactInv'
    BY <1>1 DEF Lock, clear_key, Disk, IntactInv, LooksOnly, Progress, FilesWhole,
                WalletFiles
  <1>2. ASSUME NEW p \in Proc, Die(p) PROVE IntactInv'
    BY <1>2, IntactLeave DEF Die, Disk
  <1>3. CASE UNCHANGED vars
    BY <1>3 DEF vars, IntactInv, LooksOnly, Progress, FilesWhole, WalletFiles
  <1> QED
    BY <1>1, <1>2, <1>3, IntactRead, IntactCommand, IntactOpen, IntactWrite, IntactSync,
       IntactRename, IntactWriteBack, IntactPowerLoss DEF Next

\* It holds to begin with.
LEMMA IntactInit == Init /\ TypeInv => IntactInv
  <1> SUFFICES ASSUME Init, TypeInv PROVE IntactInv
    OBVIOUS
  <1>1. \A p \in Proc : run[p] = Idle
    BY DEF Init
  <1>2. \A p \in Proc : LooksOnly(p, run[p]) /\ Progress(p, run[p])
    BY <1>1, IdleType DEF LooksOnly, Progress, Writing
  <1>3. WalletFiles = {} /\ old = {}
    BY DEF Init, WalletFiles
  <1> QED BY <1>2, <1>3 DEF IntactInv, FilesWhole

\* With one process that saves, the wallet's name stands for no file or for one
\* written to the end, whoever dies and whenever power is lost
\* (write_secret_file; with two writers the fixed temporary name breaks it).
THEOREM WalletIntactAlways == Serial => (Spec => []WalletIntact)
  <1> SUFFICES ASSUME Serial PROVE Spec => []WalletIntact
    OBVIOUS
  <1>1. Init /\ TypeInv => IntactInv
    BY IntactInit
  <1>2. IntactInv /\ TypeInv' /\ [Next]_vars => IntactInv'
    BY IntactStep
  <1>3. IntactInv => WalletIntact
    BY DEF IntactInv, FilesWhole, WalletFiles, WalletIntact
  <1> QED BY <1>1, <1>2, <1>3, TypeInductive, PTL DEF Spec

-----------------------------------------------------------------------------
(* Reported identities, followed through the memory of the one writer. *)

Has(data, K) == \A k \in K : data.ids[k[1]] = k[2]

\* What the data of a running command must have once it is ready to be saved.
Due(r) == {k \in kept : r.op = "delete" => k[1] # r.name}

Holds(r) ==
    /\ r.pc = "prompt" => Has(r.read[1].data, kept)
    /\ r.pc = "loaded" => Has(r.data, kept)
    /\ r.pc \in {"newkey", "open"} \cup Writing =>
          Has(r.data, Due(r)) /\ (r.op = "new" => r.data.ids[r.name] # 0)

SaveInv ==
    /\ IntactInv
    /\ \A k \in kept : k[2] # 0
    /\ dir.wallet = 0 => kept = {}
    /\ dir.wallet # 0 => Has(file[dir.wallet][1].data, kept)
    /\ \A p \in Writer : Holds(run[p])

\* Only the writer moves, to a state that holds what it must; the wallet file and
\* what was reported stay.
LEMMA SaveEnter ==
    ASSUME SaveInv, IntactInv', NEW p \in Proc, NEW r, Enter(p, r),
           kept' = kept, dir'.wallet = dir.wallet,
           dir.wallet # 0 => file'[dir.wallet] = file[dir.wallet],
           p \in Writer => Holds(r)
    PROVE  SaveInv'
  <1>1. run' = [run EXCEPT ![p] = r] /\ run \in [Proc -> Running]
    BY DEF SaveInv, IntactInv, TypeInv, TypeOK, Enter
  <1>2. \A q \in Writer : Holds(run'[q])
    BY <1>1, WalletAssumption DEF SaveInv
  <1>3. \A q \in Writer : Holds(run[q])'
    BY <1>2 DEF Holds, Due
  <1> QED BY <1>3 DEF SaveInv

\* A process with nothing to do holds all it must.
LEMMA IdleHolds == Holds(Idle)
  BY IdleType DEF Holds, Writing

\* Ending a command before anything is renamed.
LEMMA SaveLeave ==
    ASSUME SaveInv, IntactInv', NEW p \in Proc, Leave(p),
           UNCHANGED <<dir, file, durable, old, kept>>
    PROVE  SaveInv'
  <1>1. Enter(p, Idle)
    BY DEF Leave, Enter
  <1> QED BY <1>1, IdleHolds, SaveEnter

\* Loading and typing the password.
LEMMA SaveRead ==
    ASSUME SaveInv, IntactInv', NEW p \in Proc,
           \/ \E op \in Command, n \in Name : Load(p, op, n)
           \/ \E pw \in Pw : Prompt(p, pw)
    PROVE  SaveInv'
  <1>0. TypeOK
    BY DEF SaveInv, IntactInv, TypeInv
  <1>1. ASSUME NEW op \in Command, NEW n \in Name, Load(p, op, n)
        PROVE  SaveInv'
    <2> DEFINE r == [Idle EXCEPT !.pc = "loaded", !.op = op, !.name = n]
               content == file[dir.wallet]
               key == get_key(account_name_for_wallet(TRUE))
               r2 == [r EXCEPT !.data = content[1].data, !.key = key,
                               !.salt = content[1].salt]
               r3 == [r EXCEPT !.pc = "prompt", !.read = content]
    <2>1. UNCHANGED <<dir, file, durable, old, kept>>
      BY <1>1 DEF Load, Disk
    <2>2. r \in Running /\ r.pc = "loaded"
      <3>1. r \in Running
        BY IdleType DEF Running, Command
      <3> QED BY <3>1 DEF Idle
    <2>3. \/ Enter(p, r) /\ dir.wallet = 0
          \/ Enter(p, r2) /\ dir.wallet # 0
          \/ Enter(p, r3) /\ dir.wallet # 0
          \/ run' = run
      BY <1>1 DEF Load
    <2> HIDE DEF r, content, key
    <2>4. /\ r2.pc = "loaded" /\ r2.data = content[1].data
          /\ r3.pc = "prompt" /\ r3.read = content
      BY <2>2 DEF Running
    <2> HIDE DEF r2, r3
    <2>5. dir.wallet = 0 => Holds(r)
      BY <2>2 DEF SaveInv, Holds, Has, Writing
    <2>6. dir.wallet # 0 => Holds(r2) /\ Holds(r3)
      BY <2>4 DEF SaveInv, Holds, Writing, content
    <2>7. CASE run' = run
      BY <2>1, <2>7 DEF SaveInv, Holds, Due
    <2> QED BY <2>1, <2>3, <2>5, <2>6, <2>7, SaveEnter
  <1>2. ASSUME NEW pw \in Pw, Prompt(p, pw)
        PROVE  SaveInv'
    <2>1. PICK r \in Running : r = run[p]
      BY <1>0 DEF TypeOK
    <2> DEFINE salt == r.read[1].salt
               key == derive_key(pw, salt)
               r2 == [r EXCEPT !.pc = "loaded", !.data = r.read[1].data, !.key = key,
                               !.salt = salt, !.read = <<Hole, Hole>>]
    <2>2. Enter(p, r2) \/ Leave(p)
      BY <1>2, <2>1 DEF Prompt
    <2>3. r2.pc = "loaded" /\ r2.data = r.read[1].data /\ r.pc = "prompt"
          /\ UNCHANGED <<dir, file, durable, old, kept>>
      BY <1>2, <2>1 DEF Running, Prompt, Disk
    <2> HIDE DEF r2
    <2>4. p \in Writer => Holds(r2)
      BY <2>1, <2>3 DEF SaveInv, Holds, Writing
    <2> QED BY <2>2, <2>3, <2>4, SaveEnter, SaveLeave
  <1> QED BY <1>1, <1>2

\* Handing data that has what is due to save.
LEMMA SaveSave ==
    ASSUME SaveInv, IntactInv', NEW p \in Proc, NEW d, NEW isNew, Save(p, d, isNew),
           UNCHANGED <<dir, file, durable, old, kept>>,
           p \in Writer => /\ Has(d, Due(run[p]))
                           /\ run[p].op = "new" => d.ids[run[p].name] # 0
    PROVE  SaveInv'
  <1>1. PICK r \in Running : r = run[p]
    BY DEF SaveInv, IntactInv, TypeInv, TypeOK
  <1>2. PICK acct, pc : /\ acct = account_name_for_wallet(dir.wallet # 0)
                        /\ pc = IF isNew THEN "newkey" ELSE "open"
    OBVIOUS
  <1> DEFINE r2 == [r EXCEPT !.data = d, !.pc = pc, !.acct = acct]
  <1>3. /\ Enter(p, r2) /\ r2.pc = pc /\ r2.data = d /\ r2.op = r.op
        /\ r2.name = r.name
    BY <1>1, <1>2 DEF Save, Running
  <1> HIDE DEF r2
  <1>4. p \in Writer => Holds(r2)
    BY <1>1, <1>2, <1>3 DEF Holds, Due
  <1> QED BY <1>3, <1>4, SaveEnter

\* The commands: new refuses a name in use, delete takes only its own name away.
LEMMA SaveCommand ==
    ASSUME SaveInv, IntactInv', NEW p \in Proc,
           NewIdentity(p) \/ UseIdentity(p) \/ DeleteIdentity(p) \/ Look(p)
    PROVE  SaveInv'
  <1>0. UNCHANGED <<dir, file, durable, old, kept>>
    BY DEF NewIdentity, UseIdentity, DeleteIdentity, Look, Disk
  <1>1. /\ TypeOK /\ run[p] \in Running /\ run[p].pc = "loaded"
        /\ run[p].name \in Name /\ run[p].data \in WalletData
        /\ kept \subseteq Name \X (0 .. MaxId) /\ ids \in 0 .. MaxId
    <2>1. TypeOK /\ Named
      BY DEF SaveInv, IntactInv, TypeInv
    <2>2. run[p].pc = "loaded"
      BY DEF NewIdentity, UseIdentity, DeleteIdentity, Look, Doing
    <2>3. run[p] \in Running /\ kept \subseteq Name \X (0 .. MaxId) /\ ids \in 0 .. MaxId
      BY <2>1 DEF TypeOK
    <2> QED BY <2>1, <2>2, <2>3 DEF Named, Running
  <1>2. PICK data \in WalletData, n \in Name : data = run[p].data /\ n = run[p].name
    BY <1>1
  <1>3. p \in Writer => Has(data, kept)
    BY <1>1, <1>2 DEF SaveInv, Holds
  <1>4. data.ids \in [Name -> 0 .. MaxId]
    BY DEF WalletData
  <1>5. CASE Leave(p)
    BY <1>0, <1>5, SaveLeave
  <1>6. CASE NewIdentity(p) /\ ~Leave(p)
    <2> DEFINE d == [ids |-> [data.ids EXCEPT ![n] = ids + 1],
                     active |-> IF data.active = NoName THEN n ELSE data.active]
    <2>1. Save(p, d, is_new(data)) /\ run[p].op = "new" /\ data.ids[n] = 0
      BY <1>2, <1>6 DEF NewIdentity, Doing
    <2>2. d.ids[n] = ids + 1 /\ ids + 1 # 0
      BY <1>1, <1>4, WalletAssumption
    <2>3. p \in Writer => Has(d, kept)
      <3> SUFFICES ASSUME p \in Writer, NEW k \in kept PROVE d.ids[k[1]] = k[2]
        BY DEF Has
      <3>1. data.ids[k[1]] = k[2] /\ k[2] # 0
        BY <1>3 DEF Has, SaveInv
      <3>2. k[1] # n /\ k[1] \in Name
        BY <1>1, <2>1, <3>1
      <3> QED BY <1>4, <3>1, <3>2
    <2> HIDE DEF d
    <2>4. p \in Writer => Has(d, Due(run[p])) /\ d.ids[run[p].name] # 0
      BY <1>2, <2>2, <2>3 DEF Has, Due
    <2> QED BY <1>0, <2>1, <2>4, SaveSave
  <1>7. CASE UseIdentity(p) /\ ~Leave(p)
    <2> DEFINE d == [data EXCEPT !.active = n]
    <2>1. Save(p, d, FALSE) /\ run[p].op = "use"
      BY <1>2, <1>7 DEF UseIdentity, Doing
    <2>2. d.ids = data.ids
      BY DEF WalletData
    <2> HIDE DEF d
    <2>3. p \in Writer => Has(d, Due(run[p]))
      BY <1>3, <2>2 DEF Has, Due
    <2> QED BY <1>0, <2>1, <2>3, SaveSave
  <1>8. CASE DeleteIdentity(p) /\ ~Leave(p)
    <2> DEFINE d == [ids |-> [data.ids EXCEPT ![n] = 0],
                     active |-> IF data.active = n THEN NoName ELSE data.active]
    <2>1. Save(p, d, FALSE) /\ run[p].op = "delete"
      BY <1>2, <1>8 DEF DeleteIdentity, Doing
    <2>2. p \in Writer => Has(d, Due(run[p]))
      <3> SUFFICES ASSUME p \in Writer, NEW k \in kept, k[1] # n
                   PROVE  d.ids[k[1]] = k[2]
        BY <1>2, <2>1 DEF Has, Due
      <3>1. data.ids[k[1]] = k[2] /\ k[1] \in Name
        BY <1>1, <1>3 DEF Has
      <3> QED BY <1>4, <3>1
    <2> HIDE DEF d
    <2> QED BY <1>0, <2>1, <2>2, SaveSave
  <1> QED BY <1>5, <1>6, <1>7, <1>8 DEF Look

\* Choosing a password, opening, writing and flushing leave the data alone.
LEMMA SaveWrite ==
    ASSUME SaveInv, IntactInv', Serial, NEW p \in Proc,
           \/ \E pw \in Pw : NewKey(p, pw)
           \/ OpenTmp(p) \/ SyncAll(p)
           \/ WriteHalf(p, 1, "first", "second") \/ WriteHalf(p, 2, "second", "sync")
    PROVE  SaveInv'
  <1>0. TypeOK
    BY DEF SaveInv, IntactInv, TypeInv
  <1>1. PICK r \in Running : r = run[p] /\ Progress(p, r)
    BY <1>0 DEF TypeOK, SaveInv, IntactInv
  <1>2. r.pc \in {"newkey", "open"} \cup Writing
    BY <1>1 DEF NewKey, OpenTmp, SyncAll, WriteHalf, Writing
  <1>3. p \in Writer /\ Holds(r)
    BY <1>1, <1>2 DEF SaveInv, IntactInv, LooksOnly, Writing
  <1>4. ASSUME NEW r2, Enter(p, r2), r2.pc \in {"open"} \cup Writing,
               r2.data = r.data, r2.op = r.op, r2.name = r.name,
               kept' = kept, dir'.wallet = dir.wallet,
               dir.wallet # 0 => file'[dir.wallet] = file[dir.wallet]
        PROVE  SaveInv'
    <2>1. Has(r.data, Due(r)) /\ (r.op = "new" => r.data.ids[r.name] # 0)
      BY <1>2, <1>3 DEF Holds
    <2>2. Due(r2) = Due(r)
      BY <1>4 DEF Due
    <2>3. Holds(r2)
      BY <1>4, <2>1, <2>2 DEF Holds, Writing
    <2> QED BY <1>4, <2>3, SaveEnter
  <1>5. dir.wallet # 0 => dir.wallet \in Inode /\ dir.wallet # dir.tmp
    BY <1>0, WalletAssumption DEF TypeOK, Inode, SaveInv, IntactInv, WalletFiles
  <1>6. ASSUME NEW pw \in Pw, NewKey(p, pw)
        PROVE  SaveInv'
    <2> DEFINE key == derive_key(pw, salts + 1)
               r2 == [r EXCEPT !.pc = "open", !.key = key, !.salt = salts + 1]
    <2>1. Enter(p, r2) /\ UNCHANGED <<dir, file, kept>>
      BY <1>1, <1>6 DEF NewKey, Disk
    <2>2. r2.pc = "open" /\ r2.data = r.data /\ r2.op = r.op /\ r2.name = r.name
      BY DEF Running
    <2> HIDE DEF r2
    <2> QED BY <1>4, <2>1, <2>2
  <1>7. CASE OpenTmp(p)
    <2>1. PICK i : /\ i = dir.tmp \/ i \in Free
                   /\ dir' = [dir EXCEPT !.tmp = i]
                   /\ file' = [file EXCEPT ![i] = <<Hole, Hole>>]
                   /\ Enter(p, [run[p] EXCEPT !.pc = "first", !.fd = i])
                   /\ kept' = kept
      BY <1>7 DEF OpenTmp
    <2> DEFINE r2 == [r EXCEPT !.pc = "first", !.fd = i]
    <2>2. /\ r2.pc = "first" /\ r2.data = r.data /\ r2.op = r.op /\ r2.name = r.name
          /\ Enter(p, r2)
      BY <1>1, <2>1 DEF Running
    <2> HIDE DEF r2
    <2>3. dir.wallet # 0 => i # dir.wallet
      BY <1>0, <1>5, <2>1 DEF TypeOK, Free
    <2>4. dir'.wallet = dir.wallet
      BY <1>0, <2>1 DEF TypeOK
    <2>5. dir.wallet # 0 => file'[dir.wallet] = file[dir.wallet]
      BY <1>0, <1>5, <2>1, <2>3 DEF TypeOK
    <2> QED BY <1>4, <2>1, <2>2, <2>4, <2>5 DEF Writing
  <1>8. CASE \/ SyncAll(p)
             \/ WriteHalf(p, 1, "first", "second") \/ WriteHalf(p, 2, "second", "sync")
    <2>1. PICK pc \in {"second", "sync", "rename"} :
             Enter(p, [run[p] EXCEPT !.pc = pc]) /\ kept' = kept /\ dir' = dir
      BY <1>8 DEF SyncAll, WriteHalf
    <2> DEFINE r2 == [r EXCEPT !.pc = pc]
    <2>2. /\ r2.pc = pc /\ r2.data = r.data /\ r2.op = r.op /\ r2.name = r.name
          /\ Enter(p, r2)
      BY <1>1, <2>1, SameSeal
    <2> HIDE DEF r2
    <2>3. r.fd = dir.tmp
      BY <1>1, <1>8 DEF SyncAll, WriteHalf, Progress, Writing
    <2>4. file' = file \/ \E c : file' = [file EXCEPT ![dir.tmp] = c]
      BY <1>1, <1>8, <2>3 DEF SyncAll, WriteHalf
    <2>5. dir.wallet # 0 => file'[dir.wallet] = file[dir.wallet]
      BY <1>0, <1>5, <2>4 DEF TypeOK
    <2> QED BY <1>4, <2>1, <2>2, <2>5 DEF Writing
  <1> QED BY <1>6, <1>7, <1>8

\* Renaming: the new wallet has what was due, and what is reported is in it.
LEMMA SaveRename ==
    ASSUME SaveInv, IntactInv', Serial, NEW p \in Proc, Rename(p)
    PROVE  SaveInv'
  <1>0. TypeOK /\ TypeInv
    BY DEF SaveInv, IntactInv, TypeInv
  <1>1. PICK r \in Running : r = run[p] /\ Progress(p, r) /\ r.pc = "rename"
    BY <1>0 DEF TypeOK, SaveInv, IntactInv, Rename
  <1>2. p \in Writer /\ Holds(r)
    BY <1>1 DEF SaveInv, IntactInv, LooksOnly
  <1>3. Has(r.data, Due(r)) /\ (r.op = "new" => r.data.ids[r.name] # 0)
    BY <1>1, <1>2 DEF Holds, Writing
  <1>4. dir.tmp # 0 /\ dir.tmp \in Inode
    BY <1>0, <1>1, WalletAssumption DEF TypeOK, Inode, Progress, Writing
  <1>5. PICK live :
          /\ dir.tmp \in live
          /\ dir' = [wallet |-> dir.tmp, tmp |-> 0]
          /\ file' = Only(live, file)
          /\ kept' = Reported(r)
    BY <1>1, <1>4 DEF Rename
  <1>6. file'[dir'.wallet][1].data = r.data /\ dir'.wallet # 0
    <2>1. file'[dir.tmp] = file[dir.tmp]
      BY <1>4, <1>5, OnlyKeeps
    <2> QED BY <1>1, <1>4, <1>5, <2>1 DEF Progress, SealedBy, encrypt_wallet_with_key
  <1>7. Reported(r) = CASE r.op = "new"    -> kept \cup {<<r.name, r.data.ids[r.name]>>}
                        [] r.op = "delete" -> {k \in kept : k[1] # r.name}
                        [] OTHER           -> kept
    BY DEF Reported
  <1>8. \A k \in Reported(r) : k[2] # 0 /\ r.data.ids[k[1]] = k[2]
    <2>1. CASE r.op = "new"
      <3>1. Due(r) = kept
        BY <2>1 DEF Due
      <3> QED BY <1>3, <1>7, <2>1, <3>1 DEF Has, SaveInv
    <2>2. CASE r.op = "delete"
      <3>1. Due(r) = Reported(r)
        BY <1>7, <2>2 DEF Due
      <3> QED BY <1>3, <1>7, <2>2, <3>1 DEF Has, SaveInv
    <2>3. CASE r.op # "new" /\ r.op # "delete"
      <3>1. Due(r) = kept
        BY <2>3 DEF Due
      <3> QED BY <1>3, <1>7, <2>3, <3>1 DEF Has, SaveInv
    <2> QED BY <2>1, <2>2, <2>3
  <1>9. run' = [run EXCEPT ![p] = Idle] /\ run \in [Proc -> Running]
    BY <1>0 DEF TypeOK, Rename, Leave
  <1>10. \A q \in Writer : run'[q].pc = "idle"
    BY <1>2, <1>9, IdleType, WalletAssumption DEF Serial
  <1>11. \A q \in Writer : Holds(run[q])'
    BY <1>10 DEF Holds, Writing
  <1> QED BY <1>5, <1>6, <1>8, <1>11 DEF SaveInv, Has

\* The operating system forgets nothing that is reported.
LEMMA SaveDisk ==
    ASSUME SaveInv, IntactInv',
           \/ WriteBack
           \/ \E w \in old \cup {dir.wallet}, stale \in SUBSET Unflushed :
                 PowerLoss(w, stale)
    PROVE  SaveInv'
  <1>1. CASE WriteBack
    <2> DEFINE live == {dir.wallet, dir.tmp} \cup Fds
    <2>1. run' = run /\ dir' = dir /\ kept' = kept /\ file' = Only(live, file)
      BY <1>1 DEF WriteBack
    <2>2. dir.wallet # 0 => file'[dir.wallet] = file[dir.wallet]
      <3>1. dir.wallet # 0 => dir.wallet \in Inode
        BY WalletFilesType DEF SaveInv, IntactInv, WalletFiles
      <3> QED BY <2>1, <3>1, OnlyKeeps
    <2> QED BY <2>1, <2>2 DEF SaveInv, Holds, Due
  <1>2. ASSUME NEW w, NEW stale, PowerLoss(w, stale)
        PROVE  SaveInv'
    <2>1. kept' = {} /\ run' = [p \in Proc |-> Idle]
      BY <1>2 DEF PowerLoss
    <2>2. \A q \in Writer : Holds(run[q])'
      BY <2>1, IdleType, WalletAssumption DEF Holds, Writing
    <2> QED BY <2>1, <2>2 DEF SaveInv, Has
  <1> QED BY <1>1, <1>2

\* Every step of a system with one writer keeps what was reported.
LEMMA SaveStep ==
    ASSUME SaveInv, IntactInv', Serial, [Next]_vars
    PROVE  SaveInv'
  <1>1. ASSUME NEW p \in Proc, Lock(p) PROVE SaveInv'
    BY <1>1 DEF Lock, clear_key, Disk, SaveInv, Holds, Due
  <1>2. ASSUME NEW p \in Proc, Die(p) PROVE SaveInv'
    BY <1>2, SaveLeave DEF Die, Disk
  <1>3. CASE UNCHANGED vars
    BY <1>3 DEF vars, SaveInv, Holds, Due
  <1> QED
    BY <1>1, <1>2, <1>3, SaveRead, SaveCommand, SaveWrite, SaveRename, SaveDisk
    DEF Next

\* With several writers nothing is recorded.
LEMMA NothingKept ==
    ASSUME ~Serial, kept = {}, [Next]_vars
    PROVE  kept' = {}
  BY DEF Next, Load, Prompt, NewIdentity, UseIdentity, DeleteIdentity, Look, Lock,
         clear_key, NewKey, OpenTmp, WriteHalf, SyncAll, Rename, Reported, Die,
         WriteBack, PowerLoss, vars

\* An identity whose creation was reported is in the wallet, with the same key
\* pairs, until its deletion is reported or power is lost, whatever one writer
\* and any number of readers do and whoever dies (identity_command, save).
THEOREM SavedStaysAlways == Spec => []SavedStays
  <1>1. CASE Serial
    <2>1. Init /\ IntactInv => SaveInv
      <3>1. Init => \A q \in Writer : Holds(run[q])
        BY IdleHolds, WalletAssumption DEF Init
      <3> QED BY <3>1 DEF Init, SaveInv, Has
    <2>2. SaveInv /\ IntactInv' /\ [Next]_vars => SaveInv'
      BY <1>1, SaveStep
    <2>3. IntactInv /\ TypeInv' /\ [Next]_vars => IntactInv'
      BY <1>1, IntactStep
    <2>4. SaveInv => SavedStays
      BY DEF SaveInv, IntactInv, FilesWhole, WalletFiles, SavedStays, Has
    <2> QED BY <2>1, <2>2, <2>3, <2>4, IntactInit, TypeInductive, PTL DEF Spec
  <1>2. CASE ~Serial
    <2>1. Init => kept = {}
      BY DEF Init
    <2>2. kept = {} /\ [Next]_vars => (kept = {})'
      BY <1>2, NothingKept
    <2>3. kept = {} => SavedStays
      BY DEF SavedStays
    <2> QED BY <2>1, <2>2, <2>3, PTL DEF Spec
  <1> QED BY <1>1, <1>2

-----------------------------------------------------------------------------
(* Commands of the one writer take effect at once: ImplementsAtomic. *)

Wallets == [ids : [Name -> 0 .. MaxId], active : Name \cup {NoName},
            key : Key \cup {NoKey}]

NoIds(w) == \A m \in Name : w.ids[m] = 0

\* What a command that is ready to save makes of wallet w.
Outcome(r, w) ==
    \/ /\ r.op = "new" /\ w.ids[r.name] = 0 /\ r.data.ids[r.name] \in 1 .. MaxId
       /\ r.data.ids = [w.ids EXCEPT ![r.name] = r.data.ids[r.name]]
       /\ r.data.active = (IF w.active = NoName THEN r.name ELSE w.active)
       /\ r.pc # "newkey" => r.key \in IF NoIds(w) THEN Pw \X Salt ELSE {w.key}
       /\ r.pc = "newkey" => NoIds(w)
    \/ /\ r.op = "use" /\ w.ids[r.name] # 0 /\ r.pc # "newkey"
       /\ r.data.ids = w.ids /\ r.data.active = r.name /\ r.key = w.key
    \/ /\ r.op = "delete" /\ w.ids[r.name] # 0 /\ r.pc # "newkey"
       /\ r.data.ids = [w.ids EXCEPT ![r.name] = 0]
       /\ r.data.active = (IF w.active = r.name THEN NoName ELSE w.active)
       /\ r.key = w.key

\* The writer works on the wallet as it is.
UpToDate(r) ==
    /\ r.pc = "prompt" => dir.wallet # 0 /\ r.read = file[dir.wallet]
    /\ r.pc = "loaded" => /\ r.data.ids = Saved(dir.wallet).ids
                          /\ r.data.active = Saved(dir.wallet).active
                          /\ dir.wallet # 0 => r.key = Saved(dir.wallet).key
    /\ r.pc \in {"newkey", "open"} \cup Writing => Outcome(r, Saved(dir.wallet))

AtomicInv == IntactInv /\ \A p \in Writer : UpToDate(run[p])

\* A file of the wallet's name holds a wallet.
LEMMA SavedType ==
    ASSUME IntactInv, NEW i \in old \cup {dir.wallet}
    PROVE  Saved(i) \in Wallets
  <1>1. CASE i = 0
    BY <1>1, WalletAssumption DEF Saved, Wallets, WalletData_new
  <1>2. CASE i # 0
    <2>1. i \in Inode /\ Whole(file[i])
      BY <1>2, WalletFilesType DEF IntactInv, FilesWhole, WalletFiles
    <2>2. file[i][1] \in Blob
      BY <2>1 DEF IntactInv, TypeInv, TypeOK, Block, Whole
    <2>3. /\ file[i][1].data.ids \in [Name -> 0 .. MaxId]
          /\ file[i][1].data.active \in Name \cup {NoName}
          /\ file[i][1].key \in Key
      BY <2>2 DEF Blob, WalletData
    <2> QED BY <1>2, <2>3 DEF Saved, Wallets
  <1> QED BY <1>1, <1>2

\* A file that stays holds the same wallet.
LEMMA SavedSame ==
    ASSUME NEW i, i # 0 => file'[i] = file[i]
    PROVE  Saved(i)' = Saved(i)
  BY DEF Saved

\* Nobody moves, and the wallet stays.
LEMMA AtomicSame ==
    ASSUME AtomicInv, IntactInv', run' = run, dir'.wallet = dir.wallet,
           dir.wallet # 0 => file'[dir.wallet] = file[dir.wallet]
    PROVE  AtomicInv'
  <1>1. Saved(dir.wallet)' = Saved(dir.wallet)
    BY SavedSame DEF Saved
  <1>2. \A q \in Writer : UpToDate(run[q])'
    BY <1>1 DEF AtomicInv, UpToDate, Outcome
  <1> QED BY <1>2 DEF AtomicInv

\* Only the writer moves, and works on the wallet as it is; the wallet stays.
LEMMA AtomicEnter ==
    ASSUME AtomicInv, IntactInv', NEW p \in Proc, NEW r, Enter(p, r),
           dir'.wallet = dir.wallet,
           dir.wallet # 0 => file'[dir.wallet] = file[dir.wallet],
           p \in Writer => UpToDate(r)
    PROVE  AtomicInv'
  <1>1. run' = [run EXCEPT ![p] = r] /\ run \in [Proc -> Running]
    BY DEF AtomicInv, IntactInv, TypeInv, TypeOK, Enter
  <1>2. \A q \in Writer : UpToDate(run'[q])
    BY <1>1, WalletAssumption DEF AtomicInv
  <1>3. Saved(dir.wallet)' = Saved(dir.wallet)
    BY SavedSame DEF Saved
  <1>4. \A q \in Writer : UpToDate(run[q])'
    BY <1>2, <1>3 DEF UpToDate, Outcome
  <1> QED BY <1>4 DEF AtomicInv

\* A process with nothing to do works on nothing.
LEMMA IdleUpToDate == UpToDate(Idle)
  BY IdleType DEF UpToDate, Writing

\* Ending a command before anything is renamed.
LEMMA AtomicLeave ==
    ASSUME AtomicInv, IntactInv', NEW p \in Proc, Leave(p), UNCHANGED <<dir, file>>
    PROVE  AtomicInv'
  <1>1. Enter(p, Idle)
    BY DEF Leave, Enter
  <1> QED BY <1>1, IdleUpToDate, AtomicEnter

\* Loading and typing the password: what is opened is what is on the disk.
LEMMA AtomicRead ==
    ASSUME AtomicInv, IntactInv', NEW p \in Proc,
           \/ \E op \in Command, n \in Name : Load(p, op, n)
           \/ \E pw \in Pw : Prompt(p, pw)
    PROVE  AtomicInv'
  <1>0. TypeOK
    BY DEF AtomicInv, IntactInv, TypeInv
  <1>1. ASSUME NEW op \in Command, NEW n \in Name, Load(p, op, n)
        PROVE  AtomicInv'
    <2> DEFINE r == [Idle EXCEPT !.pc = "loaded", !.op = op, !.name = n]
               content == file[dir.wallet]
               key == get_key(account_name_for_wallet(TRUE))
               r2 == [r EXCEPT !.data = content[1].data, !.key = key,
                               !.salt = content[1].salt]
               r3 == [r EXCEPT !.pc = "prompt", !.read = content]
    <2>1. UNCHANGED <<dir, file>>
      BY <1>1 DEF Load, Disk
    <2>2. r \in Running /\ r.pc = "loaded" /\ r.data = WalletData_new
      <3>1. r \in Running
        BY IdleType DEF Running, Command
      <3> QED BY <3>1 DEF Idle
    <2>3. \/ Enter(p, r) /\ dir.wallet = 0
          \/ Enter(p, r2) /\ dir.wallet # 0 /\ Decrypts(content, key)
          \/ Enter(p, r3) /\ dir.wallet # 0
          \/ run' = run
      BY <1>1 DEF Load
    <2> HIDE DEF r, content, key
    <2>4. /\ r2.pc = "loaded" /\ r2.data = content[1].data /\ r2.key = key
          /\ r3.pc = "prompt" /\ r3.read = content
      BY <2>2 DEF Running
    <2> HIDE DEF r2, r3
    <2>5. dir.wallet = 0 => UpToDate(r)
      BY <2>2 DEF UpToDate, Writing, Saved, WalletData_new
    <2>6. dir.wallet # 0 /\ Decrypts(content, key) => UpToDate(r2)
      BY <2>4 DEF UpToDate, Writing, content, Saved, Decrypts
    <2>7. dir.wallet # 0 => UpToDate(r3)
      BY <2>4 DEF UpToDate, Writing, content
    <2>8. CASE run' = run
      BY <2>1, <2>8, AtomicSame
    <2> QED BY <2>1, <2>3, <2>5, <2>6, <2>7, <2>8, AtomicEnter
  <1>2. ASSUME NEW pw \in Pw, Prompt(p, pw)
        PROVE  AtomicInv'
    <2>1. PICK r \in Running : r = run[p]
      BY <1>0 DEF TypeOK
    <2> DEFINE salt == r.read[1].salt
               key == derive_key(pw, salt)
               r2 == [r EXCEPT !.pc = "loaded", !.data = r.read[1].data, !.key = key,
                               !.salt = salt, !.read = <<Hole, Hole>>]
    <2>2. (Enter(p, r2) /\ Decrypts(r.read, key)) \/ Leave(p)
      BY <1>2, <2>1 DEF Prompt
    <2> HIDE DEF key
    <2>3. /\ r2.pc = "loaded" /\ r2.data = r.read[1].data /\ r2.key = key
          /\ r.pc = "prompt" /\ UNCHANGED <<dir, file>>
      BY <1>2, <2>1 DEF Running, Prompt, Disk
    <2> HIDE DEF r2
    <2>4. p \in Writer /\ Decrypts(r.read, key) => UpToDate(r2)
      BY <2>1, <2>3 DEF AtomicInv, UpToDate, Writing, Saved, Decrypts
    <2> QED BY <2>2, <2>3, <2>4, AtomicEnter, AtomicLeave
  <1> QED BY <1>1, <1>2

\* The commands make of the wallet in memory what they make of the one on disk.
LEMMA AtomicCommand ==
    ASSUME AtomicInv, IntactInv', NEW p \in Proc,
           NewIdentity(p) \/ UseIdentity(p) \/ DeleteIdentity(p) \/ Look(p)
    PROVE  AtomicInv'
  <1>0. UNCHANGED <<dir, file>>
    BY DEF NewIdentity, UseIdentity, DeleteIdentity, Look, Disk
  <1>1. PICK r \in Running : r = run[p] /\ r.pc = "loaded" /\ r.name \in Name
    <2>1. TypeOK /\ Named
      BY DEF AtomicInv, IntactInv, TypeInv
    <2>2. run[p].pc = "loaded"
      BY DEF NewIdentity, UseIdentity, DeleteIdentity, Look, Doing
    <2> QED BY <2>1, <2>2 DEF Named, TypeOK
  <1>2. PICK w \in Wallets : w = Saved(dir.wallet)
    BY SavedType DEF AtomicInv
  <1>3. p \in Writer => /\ r.data.ids = w.ids /\ r.data.active = w.active
                        /\ dir.wallet # 0 => r.key = w.key
    BY <1>1, <1>2 DEF AtomicInv, UpToDate
  <1>4. w.ids \in [Name -> 0 .. MaxId] /\ r.data \in WalletData
    BY DEF Wallets, Running
  <1>5. dir.wallet = 0 => NoIds(w)
    BY <1>2 DEF Saved, WalletData_new, NoIds
  <1> DEFINE acct == account_name_for_wallet(dir.wallet # 0)
  <1> HIDE DEF acct
  <1>6. ASSUME NEW d, NEW pc \in {"newkey", "open"},
               Enter(p, [r EXCEPT !.data = d, !.pc = pc, !.acct = acct]),
               p \in Writer => Outcome([r EXCEPT !.data = d, !.pc = pc], w)
        PROVE  AtomicInv'
    <2> DEFINE r1 == [r EXCEPT !.data = d, !.pc = pc]
               r2 == [r EXCEPT !.data = d, !.pc = pc, !.acct = acct]
    <2>2. Enter(p, r2)
      BY <1>6
    <2>3. /\ r2.pc = pc /\ r1.pc = pc /\ r2.data = d /\ r1.data = d
          /\ r2.op = r1.op /\ r2.name = r1.name /\ r2.key = r1.key
      BY DEF Running
    <2>4. p \in Writer => Outcome(r1, w)
      BY <1>6
    <2> HIDE DEF r1, r2
    <2>5. p \in Writer => UpToDate(r2)
      BY <1>2, <1>6, <2>3, <2>4 DEF UpToDate, Outcome
    <2> QED BY <1>0, <2>2, <2>5, AtomicEnter
  <1>7. CASE Leave(p)
    BY <1>0, <1>7, AtomicLeave
  <1>8. CASE NewIdentity(p) /\ ~Leave(p)
    <2> DEFINE d == [ids |-> [r.data.ids EXCEPT ![r.name] = ids + 1],
                     active |-> IF r.data.active = NoName THEN r.name ELSE r.data.active]
    <2>1. /\ Save(p, d, is_new(r.data)) /\ r.op = "new" /\ r.data.ids[r.name] = 0
          /\ ids < MaxId
      BY <1>1, <1>8 DEF NewIdentity, Doing
    <2>2. PICK pc \in {"newkey", "open"} :
             /\ pc = IF is_new(r.data) THEN "newkey" ELSE "open"
             /\ Enter(p, [r EXCEPT !.data = d, !.pc = pc, !.acct = acct])
      BY <1>1, <2>1 DEF Save, acct
    <2> DEFINE r2 == [r EXCEPT !.data = d, !.pc = pc]
    <2>3. r2.pc = pc /\ r2.data = d /\ r2.op = "new" /\ r2.name = r.name /\ r2.key = r.key
      BY <2>1 DEF Running
    <2>4. ids + 1 \in 1 .. MaxId /\ r.data.ids \in [Name -> 0 .. MaxId]
      BY <1>4, <2>1, WalletAssumption
         DEF AtomicInv, IntactInv, TypeInv, TypeOK, WalletData
    <2>5. d.ids[r.name] = ids + 1 /\ d.ids = [r.data.ids EXCEPT ![r.name] = ids + 1]
          /\ d.active = IF r.data.active = NoName THEN r.name ELSE r.data.active
      BY <1>1, <2>4
    <2>6. p \in Writer => (is_new(r.data) <=> NoIds(w))
      BY <1>3 DEF is_new, NoIds
    <2> HIDE DEF d, r2
    <2>7. p \in Writer => Outcome(r2, w)
      BY <1>3, <1>5, <2>1, <2>2, <2>3, <2>4, <2>5, <2>6 DEF Outcome
    <2> QED BY <1>6, <2>2, <2>7 DEF r2
  <1>9. CASE UseIdentity(p) /\ ~Leave(p)
    <2> DEFINE d == [r.data EXCEPT !.active = r.name]
               r2 == [r EXCEPT !.data = d, !.pc = "open"]
    <2>1. /\ Enter(p, [r EXCEPT !.data = d, !.pc = "open", !.acct = acct])
          /\ r.op = "use" /\ r.data.ids[r.name] # 0
      BY <1>1, <1>9 DEF UseIdentity, Doing, Save, acct
    <2>2. d.ids = r.data.ids /\ d.active = r.name
      BY <1>4 DEF WalletData
    <2>3. /\ r2.pc = "open" /\ r2.data = d /\ r2.op = "use" /\ r2.name = r.name
          /\ r2.key = r.key
      BY <2>1 DEF Running
    <2> HIDE DEF d, r2
    <2>4. p \in Writer => Outcome(r2, w)
      BY <1>1, <1>3, <1>5, <2>1, <2>2, <2>3 DEF Outcome, NoIds
    <2> QED BY <1>6, <2>1, <2>4 DEF r2
  <1>10. CASE DeleteIdentity(p) /\ ~Leave(p)
    <2> DEFINE d == [ids |-> [r.data.ids EXCEPT ![r.name] = 0],
                     active |-> IF r.data.active = r.name THEN NoName
                                ELSE r.data.active]
               r2 == [r EXCEPT !.data = d, !.pc = "open"]
    <2>1. /\ Enter(p, [r EXCEPT !.data = d, !.pc = "open", !.acct = acct])
          /\ r.op = "delete" /\ r.data.ids[r.name] # 0
      BY <1>1, <1>10 DEF DeleteIdentity, Doing, Save, acct
    <2>2. /\ d.ids = [r.data.ids EXCEPT ![r.name] = 0]
          /\ d.active = IF r.data.active = r.name THEN NoName ELSE r.data.active
      OBVIOUS
    <2>3. /\ r2.pc = "open" /\ r2.data = d /\ r2.op = "delete" /\ r2.name = r.name
          /\ r2.key = r.key
      BY <2>1 DEF Running
    <2> HIDE DEF d, r2
    <2>4. p \in Writer => Outcome(r2, w)
      BY <1>1, <1>3, <1>5, <2>1, <2>2, <2>3 DEF Outcome, NoIds
    <2> QED BY <1>6, <2>1, <2>4 DEF r2
  <1> QED BY <1>7, <1>8, <1>9, <1>10 DEF Look

WalletStays ==
    /\ old' = old /\ dir'.wallet = dir.wallet
    /\ \A i \in WalletFiles : file'[i] = file[i]

\* Opening, writing and flushing the temporary file touch no file of the
\* wallet's name, and leave the command as it is.
LEMMA WriteStays ==
    ASSUME IntactInv, NEW p \in Proc,
           \/ \E pw \in Pw : NewKey(p, pw)
           \/ OpenTmp(p) \/ SyncAll(p)
           \/ WriteHalf(p, 1, "first", "second") \/ WriteHalf(p, 2, "second", "sync")
    PROVE  WalletStays
  <1>0. TypeOK /\ WalletFiles \subseteq Inode /\ dir.tmp \notin WalletFiles
    BY WalletFilesType DEF IntactInv, TypeInv
  <1>1. CASE \E pw \in Pw : NewKey(p, pw)
    BY <1>1 DEF NewKey, Disk, WalletStays
  <1>2. CASE OpenTmp(p)
    <2>1. PICK i : /\ i = dir.tmp \/ i \in Free
                   /\ dir' = [dir EXCEPT !.tmp = i]
                   /\ file' = [file EXCEPT ![i] = <<Hole, Hole>>]
                   /\ old' = old
      BY <1>2 DEF OpenTmp
    <2>2. i \notin WalletFiles
      BY <1>0, <2>1 DEF Free, WalletFiles
    <2>3. dir'.wallet = dir.wallet
      BY <1>0, <2>1 DEF TypeOK
    <2> QED BY <1>0, <2>1, <2>2, <2>3 DEF TypeOK, WalletStays
  <1>3. CASE SyncAll(p)
    BY <1>3 DEF SyncAll, WalletStays
  <1>4. CASE WriteHalf(p, 1, "first", "second") \/ WriteHalf(p, 2, "second", "sync")
    <2>1. run[p].fd = dir.tmp
      BY <1>4 DEF IntactInv, WriteHalf, Progress, Writing
    <2>2. /\ \E c : file' = [file EXCEPT ![dir.tmp] = c]
          /\ dir' = dir /\ old' = old
      BY <1>4, <2>1 DEF WriteHalf
    <2> QED BY <1>0, <2>2 DEF TypeOK, WalletStays
  <1> QED BY <1>1, <1>2, <1>3, <1>4

\* Choosing a password, opening, writing and flushing leave the outcome alone.
LEMMA AtomicWrite ==
    ASSUME AtomicInv, IntactInv', NEW p \in Proc,
           \/ \E pw \in Pw : NewKey(p, pw)
           \/ OpenTmp(p) \/ SyncAll(p)
           \/ WriteHalf(p, 1, "first", "second") \/ WriteHalf(p, 2, "second", "sync")
    PROVE  AtomicInv'
  <1>0. TypeOK /\ IntactInv
    BY DEF AtomicInv, IntactInv, TypeInv
  <1>1. PICK r \in Running : r = run[p]
    BY <1>0 DEF TypeOK
  <1>2. r.pc \in {"newkey", "open"} \cup Writing
    BY <1>1 DEF NewKey, OpenTmp, SyncAll, WriteHalf, Writing
  <1>3. p \in Writer /\ Outcome(r, Saved(dir.wallet))
    BY <1>1, <1>2 DEF AtomicInv, IntactInv, LooksOnly, Writing, UpToDate
  <1>4. dir'.wallet = dir.wallet /\ (dir.wallet # 0 => file'[dir.wallet] = file[dir.wallet])
    <2>1. WalletStays
      BY <1>0, WriteStays
    <2> QED BY <2>1 DEF WalletStays, WalletFiles
  <1>5. ASSUME NEW r2, Enter(p, r2), r2.pc \in {"open"} \cup Writing,
               Outcome(r2, Saved(dir.wallet))
        PROVE  AtomicInv'
    <2>1. UpToDate(r2)
      BY <1>5 DEF UpToDate, Writing
    <2> QED BY <1>4, <1>5, <2>1, AtomicEnter
  <1>6. ASSUME NEW pw \in Pw, NewKey(p, pw)
        PROVE  AtomicInv'
    <2> DEFINE key == derive_key(pw, salts + 1)
               r2 == [r EXCEPT !.pc = "open", !.key = key, !.salt = salts + 1]
    <2>1. Enter(p, r2) /\ r.pc = "newkey" /\ salts < MaxSalt
      BY <1>1, <1>6 DEF NewKey
    <2>2. key \in Pw \X Salt
      BY <1>0, <2>1, WalletAssumption DEF TypeOK, derive_key, Salt
    <2> HIDE DEF key
    <2>3. /\ r2.pc = "open" /\ r2.data = r.data /\ r2.op = r.op /\ r2.name = r.name
          /\ r2.key = key
      BY DEF Running
    <2> HIDE DEF r2
    <2>4. Outcome(r2, Saved(dir.wallet))
      BY <1>3, <2>1, <2>2, <2>3 DEF Outcome
    <2> QED BY <1>5, <2>1, <2>3, <2>4
  <1>7. ASSUME NEW r2, Enter(p, r2), r2.pc \in Writing, r.pc # "newkey",
               r2.data = r.data, r2.op = r.op, r2.name = r.name, r2.key = r.key
        PROVE  AtomicInv'
    <2>1. Outcome(r2, Saved(dir.wallet))
      BY <1>3, <1>7 DEF Outcome, Writing
    <2> QED BY <1>5, <1>7, <2>1
  <1>8. CASE OpenTmp(p)
    <2>1. PICK i : Enter(p, [r EXCEPT !.pc = "first", !.fd = i]) /\ r.pc = "open"
      BY <1>1, <1>8 DEF OpenTmp
    <2> DEFINE r2 == [r EXCEPT !.pc = "first", !.fd = i]
    <2>2. /\ r2.pc = "first" /\ r2.data = r.data /\ r2.op = r.op /\ r2.name = r.name
          /\ r2.key = r.key /\ Enter(p, r2)
      BY <2>1 DEF Running
    <2> HIDE DEF r2
    <2> QED BY <1>7, <2>1, <2>2 DEF Writing
  <1>9. CASE \/ SyncAll(p)
             \/ WriteHalf(p, 1, "first", "second") \/ WriteHalf(p, 2, "second", "sync")
    <2>1. PICK pc \in {"second", "sync", "rename"} :
             Enter(p, [r EXCEPT !.pc = pc]) /\ r.pc # "newkey"
      BY <1>1, <1>9 DEF SyncAll, WriteHalf
    <2> DEFINE r2 == [r EXCEPT !.pc = pc]
    <2>2. /\ r2.pc = pc /\ r2.data = r.data /\ r2.op = r.op /\ r2.name = r.name
          /\ r2.key = r.key /\ Enter(p, r2)
      BY <2>1 DEF Running
    <2> HIDE DEF r2
    <2> QED BY <1>7, <2>1, <2>2 DEF Writing
  <1> QED BY <1>6, <1>8, <1>9

\* After the rename the one writer has nothing to do, nor has anyone after a
\* power loss; writing back keeps the wallet.
LEMMA AtomicDisk ==
    ASSUME AtomicInv, IntactInv', Serial,
           \/ \E p \in Proc : Rename(p)
           \/ WriteBack
           \/ \E w \in old \cup {dir.wallet}, stale \in SUBSET Unflushed :
                 PowerLoss(w, stale)
    PROVE  AtomicInv'
  <1>0. TypeOK /\ WalletFiles \subseteq Inode
    BY WalletFilesType DEF AtomicInv, IntactInv, TypeInv
  <1>1. ASSUME NEW p \in Proc, Rename(p)
        PROVE  AtomicInv'
    <2>1. run' = [run EXCEPT ![p] = Idle] /\ run \in [Proc -> Running]
      BY <1>0, <1>1 DEF TypeOK, Rename, Leave
    <2>2. p \in Writer
      BY <1>1 DEF AtomicInv, IntactInv, LooksOnly, Rename
    <2>3. \A q \in Writer : run'[q].pc = "idle"
      BY <2>1, <2>2, IdleType, WalletAssumption DEF Serial
    <2>4. \A q \in Writer : UpToDate(run[q])'
      BY <2>3 DEF UpToDate, Writing
    <2> QED BY <2>4 DEF AtomicInv
  <1>2. CASE WriteBack
    <2>1. run' = run /\ dir' = dir /\ file' = Only({dir.wallet, dir.tmp} \cup Fds, file)
      BY <1>2 DEF WriteBack
    <2>2. dir.wallet # 0 => file'[dir.wallet] = file[dir.wallet]
      <3>1. dir.wallet # 0 => dir.wallet \in Inode
        BY <1>0 DEF WalletFiles
      <3> QED BY <2>1, <3>1, OnlyKeeps
    <2> QED BY <2>1, <2>2, AtomicSame
  <1>3. ASSUME NEW w, NEW stale, PowerLoss(w, stale)
        PROVE  AtomicInv'
    <2>1. run' = [p \in Proc |-> Idle]
      BY <1>3 DEF PowerLoss
    <2>2. \A q \in Writer : UpToDate(run[q])'
      BY <2>1, IdleType, WalletAssumption DEF UpToDate, Writing
    <2> QED BY <2>2 DEF AtomicInv
  <1> QED BY <1>1, <1>2, <1>3

\* Every step of a system with one writer leaves it at work on the wallet as it is.
LEMMA AtomicStep ==
    ASSUME AtomicInv, IntactInv', Serial, [Next]_vars
    PROVE  AtomicInv'
  <1>1. ASSUME NEW p \in Proc, Lock(p) PROVE AtomicInv'
    BY <1>1, AtomicSame DEF Lock, Disk
  <1>2. ASSUME NEW p \in Proc, Die(p) PROVE AtomicInv'
    BY <1>2, AtomicLeave DEF Die, Disk
  <1>3. CASE UNCHANGED vars
    BY <1>3, AtomicSame DEF vars
  <1> QED
    BY <1>1, <1>2, <1>3, AtomicRead, AtomicCommand, AtomicWrite, AtomicDisk DEF Next

\* The abstract state of a step that touches no file of the wallet's name stays.
LEMMA StaysAtomic ==
    ASSUME WalletStays
    PROVE  UNCHANGED Atomic!state
  <1>1. \A i \in old \cup {dir.wallet} : Saved(i)' = Saved(i)
    BY SavedSame DEF WalletStays, WalletFiles, Saved
  <1>2. Saved(dir.wallet)' = Saved(dir.wallet)
    BY <1>1 DEF WalletStays, Saved
  <1>3. {Saved(i) : i \in old}' = {Saved(i) : i \in old}
    BY <1>1 DEF WalletStays
  <1> QED BY <1>2, <1>3 DEF Atomic!state

\* The rename is where a command takes effect.
LEMMA RenameAtomic ==
    ASSUME AtomicInv, NEW p \in Proc, Rename(p)
    PROVE  Atomic!Command
  <1>0. TypeOK /\ IntactInv /\ WalletFiles \subseteq Inode
    BY WalletFilesType DEF AtomicInv, IntactInv, TypeInv
  <1>1. PICK r \in Running :
          r = run[p] /\ Progress(p, r) /\ r.pc = "rename" /\ r.name \in Name
    BY <1>0 DEF TypeOK, IntactInv, TypeInv, Named, Rename
  <1>2. p \in Writer
    BY <1>0, <1>1 DEF IntactInv, LooksOnly
  <1>3. PICK w \in Wallets : w = Saved(dir.wallet)
    BY <1>0, SavedType
  <1>4. Outcome(r, w)
    BY <1>1, <1>2, <1>3 DEF AtomicInv, UpToDate, Writing
  <1>5. dir.tmp # 0 /\ dir.tmp \in Inode
    BY <1>0, <1>1, WalletAssumption DEF TypeOK, Inode, Progress, Writing
  <1>6. PICK live, was :
          /\ was = IF PowerFails THEN old \cup {dir.wallet} ELSE old
          /\ live = {dir.tmp} \cup was \cup Fds
          /\ dir' = [wallet |-> dir.tmp, tmp |-> 0] /\ old' = was
          /\ file' = Only(live, file)
    BY <1>5 DEF Rename
  <1>7. \A i \in was : Saved(i)' = Saved(i)
    <2> SUFFICES ASSUME NEW i \in was, i # 0 PROVE file'[i] = file[i]
      BY DEF Saved
    <2>1. i \in Inode /\ i \in live
      BY <1>0, <1>6 DEF WalletFiles
    <2> QED BY <1>6, <2>1, OnlyKeeps
  <1>8. {Saved(i) : i \in old}' = {Saved(i) : i \in was}
    BY <1>6, <1>7
  <1>9. {Saved(i) : i \in was} = IF PowerFails
                                 THEN {Saved(i) : i \in old} \cup {Saved(dir.wallet)}
                                 ELSE {Saved(i) : i \in old}
    BY <1>6
  <1>10. Saved(dir.wallet)' = [ids |-> r.data.ids, active |-> r.data.active,
                               key |-> r.key]
    <2>1. file'[dir.tmp] = file[dir.tmp]
      <3>1. dir.tmp \in live
        BY <1>6
      <3>2. file' = Only(live, file)
        BY <1>6
      <3> QED BY <1>5, <3>1, <3>2, OnlyKeeps
    <2>2. file[dir.tmp][1] = SealedBy(p, r)
      BY <1>1 DEF Progress
    <2>3. /\ SealedBy(p, r).data = r.data /\ SealedBy(p, r).key = r.key
      BY DEF SealedBy, encrypt_wallet_with_key
    <2> QED BY <1>5, <1>6, <2>1, <2>2, <2>3 DEF Saved
  <1>11. /\ w.ids \in [Name -> 0 .. MaxId]
         /\ w = [ids |-> w.ids, active |-> w.active, key |-> w.key]
    BY DEF Wallets
  <1>12. \/ Atomic!Use(r.name) \/ Atomic!Delete(r.name)
         \/ \E id \in 1 .. MaxId : Atomic!Create(r.name, id)
    <2>1. CASE r.op = "new"
      <3>1. PICK id \in 1 .. MaxId : id = r.data.ids[r.name]
        BY <1>4, <2>1 DEF Outcome
      <3>2. /\ w.ids[r.name] = 0 /\ r.data.ids = [w.ids EXCEPT ![r.name] = id]
            /\ r.data.active = (IF w.active = NoName THEN r.name ELSE w.active)
            /\ r.key \in IF NoIds(w) THEN Pw \X Salt ELSE {w.key}
        BY <1>1, <1>4, <2>1, <3>1 DEF Outcome
      <3>3. Atomic!Create(r.name, id)
        BY <1>3, <1>10, <3>2 DEF Atomic!Create, NoIds
      <3> QED BY <3>3
    <2>2. CASE r.op = "use"
      <3>1. /\ w.ids[r.name] # 0 /\ r.data.ids = w.ids /\ r.data.active = r.name
            /\ r.key = w.key
        BY <1>4, <2>2 DEF Outcome
      <3>2. [w EXCEPT !.active = r.name] = [ids |-> w.ids, active |-> r.name,
                                            key |-> w.key]
        BY DEF Wallets
      <3> QED BY <1>3, <1>10, <3>1, <3>2 DEF Atomic!Use
    <2>3. CASE r.op = "delete"
      <3>1. /\ w.ids[r.name] # 0 /\ r.data.ids = [w.ids EXCEPT ![r.name] = 0]
            /\ r.data.active = (IF w.active = r.name THEN NoName ELSE w.active)
            /\ r.key = w.key
        BY <1>4, <2>3 DEF Outcome
      <3> QED BY <1>3, <1>10, <3>1 DEF Atomic!Delete
    <2> QED BY <1>4, <2>1, <2>2, <2>3 DEF Outcome
  <1> QED BY <1>1, <1>8, <1>9, <1>12 DEF Atomic!Command

\* A power loss leaves the wallet or brings back an earlier one, complete.
LEMMA PowerLossAtomic ==
    ASSUME IntactInv, NEW w \in old \cup {dir.wallet}, NEW stale, PowerLoss(w, stale)
    PROVE  Atomic!Settle \/ Atomic!LosePower
  <1> DEFINE tmp == IF w = dir.wallet THEN dir.tmp ELSE dir.wallet
             Half(i, h) == IF <<i, h>> \in stale THEN durable[i][h] ELSE file[i][h]
             mixed == [i \in Inode |-> <<Half(i, 1), Half(i, 2)>>]
  <1>1. /\ PowerFails /\ old' = {} /\ dir' = [wallet |-> w, tmp |-> tmp]
        /\ file' = Only({w, tmp}, mixed)
    BY DEF PowerLoss
  <1>2. w # 0 => file'[w][1] = file[w][1]
    <2> SUFFICES ASSUME w # 0 PROVE file'[w][1] = file[w][1]
      OBVIOUS
    <2>1. w \in Inode /\ durable[w] = file[w]
      BY <1>1, WalletFilesType DEF IntactInv, FilesWhole, WalletFiles
    <2>2. mixed[w][1] = file[w][1]
      BY <2>1
    <2> HIDE DEF mixed, tmp
    <2> QED BY <1>1, <2>1, <2>2, OnlyKeeps
  <1>3. Saved(dir.wallet)' = Saved(w)
    BY <1>1, <1>2 DEF Saved
  <1>4. {Saved(i) : i \in old}' = {}
    BY <1>1
  <1>5. CASE w = dir.wallet
    BY <1>3, <1>4, <1>5 DEF Atomic!Settle
  <1>6. CASE w \in old
    BY <1>3, <1>4, <1>6 DEF Atomic!LosePower
  <1> QED BY <1>5, <1>6

\* Every step is a step of the abstract wallet or leaves it as it is.
LEMMA AtomicSimulation ==
    ASSUME AtomicInv, [Next]_vars
    PROVE  [Atomic!AtomicNext]_(Atomic!state)
  <1>0. IntactInv
    BY DEF AtomicInv
  <1>1. ASSUME NEW p \in Proc, Rename(p) PROVE Atomic!AtomicNext
    BY <1>1, RenameAtomic DEF Atomic!AtomicNext
  <1>2. CASE WriteBack
    <2>1. dir' = dir /\ old' = {} /\ file' = Only({dir.wallet, dir.tmp} \cup Fds, file)
      BY <1>2 DEF WriteBack
    <2>2. dir.wallet # 0 => file'[dir.wallet] = file[dir.wallet]
      <3>1. dir.wallet # 0 => dir.wallet \in Inode
        BY <1>0, WalletFilesType DEF IntactInv, WalletFiles
      <3> QED BY <2>1, <3>1, OnlyKeeps
    <2>3. Saved(dir.wallet)' = Saved(dir.wallet)
      BY <2>1, <2>2 DEF Saved
    <2>4. {Saved(i) : i \in old}' = {}
      BY <2>1
    <2> QED BY <2>3, <2>4 DEF Atomic!AtomicNext, Atomic!Settle
  <1>3. ASSUME NEW w \in old \cup {dir.wallet}, NEW stale, PowerLoss(w, stale)
        PROVE  Atomic!AtomicNext
    BY <1>0, <1>3, PowerLossAtomic DEF Atomic!AtomicNext
  <1>4. ASSUME UNCHANGED <<dir, file, old>>
        PROVE  UNCHANGED Atomic!state
    <2>1. WalletStays
      BY <1>4 DEF WalletStays
    <2> QED BY <2>1, StaysAtomic
  <1>5. ASSUME NEW p \in Proc,
               \/ \E op \in Command, n \in Name : Load(p, op, n)
               \/ \E pw \in Pw : Prompt(p, pw)
               \/ NewIdentity(p) \/ UseIdentity(p) \/ DeleteIdentity(p)
               \/ Look(p) \/ Lock(p) \/ Die(p)
        PROVE  UNCHANGED Atomic!state
    BY <1>4, <1>5 DEF Load, Prompt, NewIdentity, UseIdentity, DeleteIdentity, Look, Lock,
                      Die, Disk
  <1>6. ASSUME NEW p \in Proc,
               \/ \E pw \in Pw : NewKey(p, pw)
               \/ OpenTmp(p) \/ SyncAll(p)
               \/ WriteHalf(p, 1, "first", "second")
               \/ WriteHalf(p, 2, "second", "sync")
        PROVE  UNCHANGED Atomic!state
    BY <1>0, <1>6, WriteStays, StaysAtomic
  <1>7. CASE UNCHANGED vars
    BY <1>4, <1>7 DEF vars
  <1> QED BY <1>1, <1>2, <1>3, <1>5, <1>6, <1>7 DEF Next

\* With one process that saves, the wallet file implements a wallet that commands
\* replace as a whole, each from the wallet as it then is and under the key it
\* then has; readers, crashes and caches do not show, and a power loss only brings
\* back a wallet saved before (Wallet::load, identity_command, Wallet::save).
THEOREM ImplementsAtomicAlways == Serial => (Spec => ImplementsAtomic)
  <1> SUFFICES ASSUME Serial PROVE Spec => ImplementsAtomic
    OBVIOUS
  <1>1. Init => Atomic!AtomicInit
    BY DEF Init, Atomic!AtomicInit, Atomic!NoWallet, Saved, WalletData_new
  <1>2. Init /\ IntactInv => AtomicInv
    <2>1. Init => \A q \in Writer : UpToDate(run[q])
      BY IdleUpToDate, WalletAssumption DEF Init
    <2> QED BY <2>1 DEF AtomicInv
  <1>3. AtomicInv /\ IntactInv' /\ [Next]_vars => AtomicInv'
    BY AtomicStep
  <1>4. AtomicInv /\ [Next]_vars => [Atomic!AtomicNext]_(Atomic!state)
    BY AtomicSimulation
  <1>5. IntactInv /\ TypeInv' /\ [Next]_vars => IntactInv'
    BY IntactStep
  <1> QED
    BY <1>1, <1>2, <1>3, <1>4, <1>5, IntactInit, TypeInductive, PTL
    DEF Spec, ImplementsAtomic, Atomic!AtomicSpec
=============================================================================
