---------------------------- MODULE OneShotAuth ----------------------------
(***************************************************************************)
(* What challenge-response authentication promises, without clocks, stores *)
(* or signatures: a ticket (a nonce of one verifier's store) is opened     *)
(* once, then redeemed by one claimant or left to lapse, and that is final.*)
(***************************************************************************)
CONSTANTS Ticket, Claimant, Nobody

VARIABLES status, holder

tickets == <<status, holder>>

OneShotInit ==
    /\ status = [t \in Ticket |-> "unissued"]
    /\ holder = [t \in Ticket |-> Nobody]

Open(t) ==
    /\ status[t] = "unissued"
    /\ status' = [status EXCEPT ![t] = "open"]
    /\ UNCHANGED holder

Redeem(t, c) ==
    /\ status[t] = "open"
    /\ status' = [status EXCEPT ![t] = "redeemed"]
    /\ holder' = [holder EXCEPT ![t] = c]

\* Collecting garbage lets any set of open tickets lapse at once.
Lapse(T) ==
    /\ \A t \in T : status[t] = "open"
    /\ status' = [t \in Ticket |-> IF t \in T THEN "lapsed" ELSE status[t]]
    /\ UNCHANGED holder

OneShotNext ==
    \/ \E t \in Ticket : Open(t)
    \/ \E t \in Ticket, c \in Claimant : Redeem(t, c)
    \/ \E T \in SUBSET Ticket : Lapse(T)

OneShotSpec == OneShotInit /\ [][OneShotNext]_tickets
=============================================================================
