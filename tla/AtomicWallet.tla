---------------------------- MODULE AtomicWallet ----------------------------
(***************************************************************************)
(* What the wallet promises to one user at a time, without processes,      *)
(* files or caches: a set of named identities sealed under one key, which  *)
(* every command replaces as a whole by what it makes of the wallet as it  *)
(* is.  A power loss may bring back a wallet saved earlier, complete.      *)
(***************************************************************************)
CONSTANTS Name, NoName, KeyPair, Key, NoKey, PowerFails

VARIABLES
    wallet,  \* the identities, the active one and the key it is sealed under
    past     \* the wallets a power loss may bring back

state == <<wallet, past>>

NoWallet == [ids |-> [n \in Name |-> 0], active |-> NoName, key |-> NoKey]

AtomicInit == wallet = NoWallet /\ past = {}

\* The first identity chooses the key, the others leave it.
Create(n, id) ==
    /\ wallet.ids[n] = 0
    /\ \E key \in IF \A m \in Name : wallet.ids[m] = 0 THEN Key ELSE {wallet.key} :
          wallet' = [ids |-> [wallet.ids EXCEPT ![n] = id],
                     active |-> IF wallet.active = NoName THEN n ELSE wallet.active,
                     key |-> key]

Use(n) ==
    /\ wallet.ids[n] # 0
    /\ wallet' = [wallet EXCEPT !.active = n]

Delete(n) ==
    /\ wallet.ids[n] # 0
    /\ wallet' = [ids |-> [wallet.ids EXCEPT ![n] = 0],
                  active |-> IF wallet.active = n THEN NoName ELSE wallet.active,
                  key |-> wallet.key]

Command ==
    /\ past' = IF PowerFails THEN past \cup {wallet} ELSE past
    /\ \E n \in Name : Use(n) \/ Delete(n) \/ \E id \in KeyPair : Create(n, id)

\* What was replaced is gone for good; or power is lost before it is.
Settle == past' = {} /\ wallet' = wallet

LosePower == past' = {} /\ wallet' \in past

AtomicNext == Command \/ Settle \/ LosePower

AtomicSpec == AtomicInit /\ [][AtomicNext]_state
=============================================================================
