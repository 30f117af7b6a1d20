--------------------------- MODULE AuthChallenge ---------------------------
(***************************************************************************)
(* Challenge-response authentication of identikey-auth: ChallengeIssuer    *)
(* and InMemoryNonceStore (nonce.rs), Signer::respond (signer.rs) and      *)
(* verify_response (verify.rs).                                            *)
(*                                                                         *)
(* Services issue challenges and record the nonces in a store, which       *)
(* several services may share.  Responses travel over a network that       *)
(* delays, repeats and reorders them, next to responses claimants signed   *)
(* over challenges of their own making.  A request handler reads the       *)
(* clock, and calls verify_response with that reading only later; other    *)
(* handlers and gc may get to the store (behind &mut, so one at a time)    *)
(* in between.  The wall clock may be stepped either way.                  *)
(***************************************************************************)
EXTENDS Naturals, Sequences

CONSTANTS
    Service,        \* verifiers; the name doubles as the audience
    Store,          \* nonce stores
    StoreOf,        \* the store a service uses
    Nonce,          \* nonces the RNG may draw
    ShortNonce,     \* nonces shorter than MIN_NONCE_LEN, never issued
    Claimant,       \* classical public keys
    PqClaimant,     \* claimants that also hold a post-quantum key
    PqRequired,     \* services whose policy is VerifyPolicy::PqRequired
    Handler,        \* request handlers
    Crafted,        \* responses not made by answering an issued challenge
    Ttl, Skew,      \* seconds
    MaxTime,        \* bound on the clock
    W,              \* 2^64
    Checked,        \* services built with overflow checks (debug builds)
    Nobody, NoEntry, NoCall

Time == 0 .. W - 1

Challenge == [version : {1, 2}, aud : Service, nonce : Nonce \cup ShortNonce,
              iat : Time, exp : Time]

Response == [chal : Challenge, decodes : BOOLEAN, key : Claimant,
             sigOk : BOOLEAN, pq : {"none", "good", "bad"}]

Entry == [exp : Time, used : BOOLEAN]

Call == [svc : Service, resp : Response, now : 0 .. MaxTime]

ASSUME AuthAssumption ==
    /\ StoreOf \in [Service -> Store]
    /\ Nonce \cap ShortNonce = {}
    /\ PqClaimant \subseteq Claimant /\ PqRequired \subseteq Service
    /\ Crafted \subseteq Response
    /\ Ttl \in Nat /\ Skew \in Nat /\ MaxTime \in Nat /\ W \in Nat
    /\ MaxTime + Ttl < W /\ MaxTime + Skew < W
    /\ Checked \subseteq Service

ASSUME AuthNoneAssumption ==
    /\ Nobody \notin Claimant
    /\ NoEntry \notin Entry
    /\ NoCall \notin Call

VARIABLES
    clock,    \* the wall clock, Unix seconds
    issued,   \* store -> nonces it ever recorded (history)
    store,    \* store -> nonce -> entry of the HashMap, or NoEntry
    chals,    \* challenges issued
    net,      \* responses that exist; any may be delivered at any time
    calls,    \* handler -> request it is working on, or NoCall
    accepts,  \* store -> nonce -> calls that were answered Ok (history)
    swept     \* store -> latest time passed to gc (history)

vars == <<clock, issued, store, chals, net, calls, accepts, swept>>

TypeOK ==
    /\ clock \in 0 .. MaxTime
    /\ issued \in [Store -> SUBSET Nonce]
    /\ store \in [Store -> [Nonce \cup ShortNonce -> Entry \cup {NoEntry}]]
    /\ chals \subseteq Challenge
    /\ net \subseteq Response
    /\ calls \in [Handler -> Call \cup {NoCall}]
    /\ accepts \in [Store -> [Nonce \cup ShortNonce -> Seq(Call)]]
    /\ swept \in [Store -> 0 .. MaxTime]

-----------------------------------------------------------------------------
(* verify_response (verify.rs) and consume (nonce.rs): the first check that *)
(* fails decides.                                                           *)

\* expires_at + skew_secs as the build computes it.
SkewedExpiry(chal) == (chal.exp + Skew) % W

Overflows(call) == call.svc \in Checked /\ call.resp.chal.exp + Skew >= W

\* Mutant: the audience is not compared.
Checks_AnyAudience(call) ==
    LET chal == call.resp.chal IN
    IF ~call.resp.decodes THEN "Cbor" ELSE
    IF chal.version # 1 THEN "Version" ELSE
    IF chal.nonce \in ShortNonce THEN "NonceTooShort" ELSE
    IF call.now + Skew < chal.iat THEN "TimeWindow" ELSE
    IF Overflows(call) THEN "Panic" ELSE
    IF call.now > SkewedExpiry(chal) THEN "TimeWindow" ELSE
    IF ~call.resp.sigOk \/ call.resp.pq = "bad" THEN "BadSignature" ELSE
    IF call.resp.pq = "none" /\ call.svc \in PqRequired THEN "PqRequired" ELSE
    "Ok"

\* Everything before the nonce is consumed.
Checks(call) ==
    LET chal == call.resp.chal IN
    IF ~call.resp.decodes THEN "Cbor" ELSE
    IF chal.version # 1 THEN "Version" ELSE
    IF chal.aud # call.svc THEN "Audience" ELSE
    IF chal.nonce \in ShortNonce THEN "NonceTooShort" ELSE
    IF call.now + Skew < chal.iat THEN "TimeWindow" ELSE
    IF Overflows(call) THEN "Panic" ELSE
    IF call.now > SkewedExpiry(chal) THEN "TimeWindow" ELSE
    IF ~call.resp.sigOk \/ call.resp.pq = "bad" THEN "BadSignature" ELSE
    IF call.resp.pq = "none" /\ call.svc \in PqRequired THEN "PqRequired" ELSE
    "Ok"

\* Mutant: a used nonce is consumed again.
consume_Again(e, now) ==
    IF e = NoEntry THEN "NonceReplay" ELSE
    IF now > e.exp THEN "TimeWindow" ELSE "Ok"

consume(e, now) ==
    IF e = NoEntry THEN "NonceReplay" ELSE
    IF e.used THEN "NonceReplay" ELSE
    IF now > e.exp THEN "TimeWindow" ELSE
    "Ok"

\* What verify_response answers, given the entry of the response's nonce.
verify_response(call, e) ==
    IF Checks(call) = "Ok" THEN consume(e, call.now) ELSE Checks(call)

-----------------------------------------------------------------------------
Init ==
    /\ clock = 0
    /\ issued = [st \in Store |-> {}]
    /\ store = [st \in Store |-> [n \in Nonce \cup ShortNonce |-> NoEntry]]
    /\ chals = {}
    /\ net = Crafted
    /\ calls = [h \in Handler |-> NoCall]
    /\ accepts = [st \in Store |-> [n \in Nonce \cup ShortNonce |-> <<>>]]
    /\ swept = [st \in Store |-> 0]

\* Time passes, or the clock is stepped.
SetClock(t) ==
    /\ t # clock
    /\ clock' = t
    /\ UNCHANGED <<issued, store, chals, net, calls, accepts, swept>>

\* Mutants: a nonce may be drawn again and its entry overwritten; the lifetime
\* is added in milliseconds.
Issue_Repeats(svc, n) ==
    LET st == StoreOf[svc]
        chal == [version |-> 1, aud |-> svc, nonce |-> n,
                 iat |-> clock, exp |-> clock + Ttl]
    IN  /\ issued' = [issued EXCEPT ![st] = @ \cup {n}]
        /\ store' = [store EXCEPT ![st][n] = [exp |-> chal.exp, used |-> FALSE]]
        /\ chals' = chals \cup {chal}
        /\ UNCHANGED <<clock, net, calls, accepts, swept>>

Issue_Millis(svc, n) ==
    LET st == StoreOf[svc]
        chal == [version |-> 1, aud |-> svc, nonce |-> n,
                 iat |-> clock, exp |-> clock + 1000 * Ttl]
    IN  /\ \A s \in Store : n \notin issued[s]
        /\ issued' = [issued EXCEPT ![st] = @ \cup {n}]
        /\ store' = [store EXCEPT ![st][n] = [exp |-> chal.exp, used |-> FALSE]]
        /\ chals' = chals \cup {chal}
        /\ UNCHANGED <<clock, net, calls, accepts, swept>>

\* ChallengeIssuer::issue.  The nonce is random: one never drawn before.
Issue(svc, n) ==
    LET st == StoreOf[svc]
        chal == [version |-> 1, aud |-> svc, nonce |-> n,
                 iat |-> clock, exp |-> clock + Ttl]
    IN  /\ \A s \in Store : n \notin issued[s]
        /\ issued' = [issued EXCEPT ![st] = @ \cup {n}]
        /\ store' = [store EXCEPT ![st][n] = [exp |-> chal.exp, used |-> FALSE]]
        /\ chals' = chals \cup {chal}
        /\ UNCHANGED <<clock, net, calls, accepts, swept>>

\* The response Signer::respond makes for claimant c.
respond(c, chal) ==
    [chal |-> chal, decodes |-> TRUE, key |-> c, sigOk |-> TRUE,
     pq |-> IF c \in PqClaimant THEN "good" ELSE "none"]

\* A claimant answers a challenge; the answer may reach a verifier at any
\* later time, any number of times, or never.
Respond(c, chal) ==
    /\ net' = net \cup {respond(c, chal)}
    /\ UNCHANGED <<clock, issued, store, chals, calls, accepts, swept>>

\* A handler takes a response off the network and reads the clock.
Receive(h, svc, resp) ==
    /\ calls[h] = NoCall
    /\ calls' = [calls EXCEPT ![h] = [svc |-> svc, resp |-> resp, now |-> clock]]
    /\ UNCHANGED <<clock, issued, store, chals, net, accepts, swept>>

\* Mutant: the nonce is consumed before the checks.
Verify_BurnsFirst(h) ==
    LET call == calls[h]
        st == StoreOf[call.svc]
        n == call.resp.chal.nonce
        took == consume(store[st][n], call.now) = "Ok"
    IN  /\ call # NoCall
        /\ IF took THEN store' = [store EXCEPT ![st][n].used = TRUE]
           ELSE UNCHANGED store
        /\ IF took /\ Checks(call) = "Ok"
           THEN accepts' = [accepts EXCEPT ![st][n] = Append(@, call)]
           ELSE UNCHANGED accepts
        /\ calls' = [calls EXCEPT ![h] = NoCall]
        /\ UNCHANGED <<clock, issued, chals, net, swept>>

\* The handler calls verify_response with the reading it took.
Verify(h) ==
    LET call == calls[h]
        st == StoreOf[call.svc]
        n == call.resp.chal.nonce
    IN  /\ call # NoCall
        /\ IF verify_response(call, store[st][n]) = "Ok"
           THEN /\ store' = [store EXCEPT ![st][n].used = TRUE]
                /\ accepts' = [accepts EXCEPT ![st][n] = Append(@, call)]
           ELSE UNCHANGED <<store, accepts>>
        /\ calls' = [calls EXCEPT ![h] = NoCall]
        /\ UNCHANGED <<clock, issued, chals, net, swept>>

\* Mutant: entries are dropped in the second they expire.
retain_Early(e, now) == IF e # NoEntry /\ e.exp > now THEN e ELSE NoEntry

retain(e, now) == IF e # NoEntry /\ e.exp >= now THEN e ELSE NoEntry

\* NonceStore::gc with the present reading of the clock.
Gc(st) ==
    /\ store' = [store EXCEPT ![st] =
                    [n \in Nonce \cup ShortNonce |-> retain(@[n], clock)]]
    /\ swept' = [swept EXCEPT ![st] = IF clock > @ THEN clock ELSE @]
    /\ UNCHANGED <<clock, issued, chals, net, calls, accepts>>

Next ==
    \/ \E t \in 0 .. MaxTime : SetClock(t)
    \/ \E svc \in Service, n \in Nonce : Issue(svc, n)
    \/ \E c \in Claimant, chal \in chals : Respond(c, chal)
    \/ \E h \in Handler, svc \in Service, resp \in net : Receive(h, svc, resp)
    \/ \E h \in Handler : Verify(h)
    \/ \E st \in Store : Gc(st)

Spec == Init /\ [][Next]_vars

-----------------------------------------------------------------------------
(* What authentication promises. *)

\* No nonce of a store is accepted twice (verify_response with consume),
\* whatever is replayed, whichever handlers race and whenever gc forgets the
\* entry that says it was used.
OneShot ==
    \A st \in Store, n \in Nonce \cup ShortNonce : Len(accepts[st][n]) <= 1

SoundCall(st, n, call) ==
    LET chal == call.resp.chal
    IN  /\ StoreOf[call.svc] = st /\ chal.aud = call.svc
        /\ call.resp.sigOk /\ call.resp.pq # "bad"
        /\ call.svc \in PqRequired => call.resp.pq = "good"
        /\ chal.iat <= call.now + Skew /\ call.now <= chal.exp + Skew
        /\ \E ch \in chals : /\ ch.nonce = n /\ StoreOf[ch.aud] = st
                             /\ call.now <= ch.exp

\* An accepted proof was signed for the service that accepts it, under that
\* service's policy, over a nonce its store issued, no later than the expiry
\* recorded at issue, and inside the window the proof itself claims, computed
\* without wrap-around (verify_response, nonce.rs consume).
AcceptedSound ==
    \A st \in Store, n \in Nonce \cup ShortNonce :
        \A i \in 1 .. Len(accepts[st][n]) : SoundCall(st, n, accepts[st][n][i])

\* A nonce is only marked used by the acceptance of a proof: responses that
\* fail any check leave it answerable (verify_response consumes last).
NoBurn ==
    [][\A st \in Store, n \in Nonce :
         store'[st][n] # NoEntry /\ store'[st][n].used
         /\ ~(store[st][n] # NoEntry /\ store[st][n].used)
         => Len(accepts'[st][n]) = Len(accepts[st][n]) + 1]_vars

\* The handler's call is a claimant's own answer to a challenge of the service
\* it reached, its nonce is not redeemed yet and gc has not run past expiry.
Genuine(call) ==
    LET chal == call.resp.chal
        st == StoreOf[call.svc]
    IN  /\ chal \in chals /\ chal.aud = call.svc
        /\ call.resp = respond(call.resp.key, chal)
        /\ call.svc \in PqRequired => call.resp.key \in PqClaimant
        /\ accepts[st][chal.nonce] = <<>>
        /\ swept[st] <= chal.exp

\* A genuine answer read between issue and expiry is accepted, whatever else
\* was sent, collected or verified before (verify_response end to end).
TimelyAccepted ==
    [][\A h \in Handler :
         LET call == calls[h] IN
         call # NoCall /\ calls'[h] = NoCall /\ Genuine(call)
         /\ call.now + Skew >= call.resp.chal.iat
         /\ call.now <= call.resp.chal.exp
         /\ call.resp.chal.exp + Skew < W
         => accepts'[StoreOf[call.svc]][call.resp.chal.nonce] = <<call>>]_vars

\* The same with the tolerance verify.rs documents for both ends of the window
\* ("skew_secs - tolerated clock skew on the validity window").
SkewTolerated ==
    [][\A h \in Handler :
         LET call == calls[h] IN
         call # NoCall /\ calls'[h] = NoCall /\ Genuine(call)
         /\ call.now + Skew >= call.resp.chal.iat
         /\ call.now <= call.resp.chal.exp + Skew
         /\ call.resp.chal.exp + Skew < W
         => accepts'[StoreOf[call.svc]][call.resp.chal.nonce] = <<call>>]_vars

-----------------------------------------------------------------------------
(* Refinement: every nonce of every store is a one-shot ticket. *)

Tickets == Store \X Nonce

TicketStatus(st, n) ==
    IF n \notin issued[st] THEN "unissued" ELSE
    IF accepts[st][n] # <<>> THEN "redeemed" ELSE
    IF store[st][n] # NoEntry THEN "open" ELSE "lapsed"

TicketHolder(st, n) ==
    IF accepts[st][n] = <<>> THEN Nobody ELSE accepts[st][n][1].resp.key

Abstract == INSTANCE OneShotAuth WITH
    Ticket <- Tickets,
    status <- [t \in Tickets |-> TicketStatus(t[1], t[2])],
    holder <- [t \in Tickets |-> TicketHolder(t[1], t[2])]

\* The services, stores and handlers together implement one-shot tickets: a
\* nonce is opened once and ends redeemed by one claimant or lapsed, for good.
ImplementsOneShot == Abstract!OneShotSpec
=============================================================================
