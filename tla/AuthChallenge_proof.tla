------------------------ MODULE AuthChallenge_proof ------------------------
(***************************************************************************)
(* Proofs about AuthChallenge for every set of services, stores, nonces,   *)
(* claimants, handlers and crafted responses, and every clock.             *)
(*                                                                         *)
(* The inductive invariant ties the history of acceptances to the store:   *)
(* an accepted nonce is marked used or no longer there, and an entry is    *)
(* only there if it was issued.  Since a nonce is never drawn twice, gc    *)
(* can forget an entry without making its nonce answerable again.          *)
(***************************************************************************)
EXTENDS AuthChallenge, TLAPS

AllNonce == Nonce \cup ShortNonce

\* Marking an entry used keeps it an entry.
LEMMA UsedIsEntry ==
    ASSUME NEW e \in Entry
    PROVE  [e EXCEPT !.used = TRUE] \in Entry
           /\ [e EXCEPT !.used = TRUE].used = TRUE
           /\ [e EXCEPT !.used = TRUE].exp = e.exp
  BY DEF Entry

\* What one call of verify_response does to the store and the history.
Accepted(h) ==
    LET call == calls[h]
        st == StoreOf[call.svc]
        n == call.resp.chal.nonce
    IN  /\ call \in Call
        /\ Checks(call) = "Ok" /\ consume(store[st][n], call.now) = "Ok"
        /\ store' = [store EXCEPT ![st][n].used = TRUE]
        /\ accepts' = [accepts EXCEPT ![st][n] = Append(@, call)]

\* A call of verify_response is accepted or leaves store and history alone.
LEMMA VerifyCases ==
    ASSUME TypeOK, NEW h \in Handler, Verify(h)
    PROVE  Accepted(h) \/ UNCHANGED <<store, accepts>>
  <1>1. calls[h] \in Call
    BY DEF TypeOK, Verify
  <1>2. Checks(calls[h]) # "Ok" =>
            verify_response(calls[h], store[StoreOf[calls[h].svc]][calls[h].resp.chal.nonce]) # "Ok"
    BY DEF verify_response
  <1> QED BY <1>1, <1>2 DEF Verify, Accepted, verify_response

\* Effect(h, st, n): call h consumed the fresh entry of nonce n in store st and
\* touched nothing else.
Effect(h, st, n) ==
    /\ st = StoreOf[calls[h].svc] /\ n = calls[h].resp.chal.nonce
    /\ calls[h] \in Call
    /\ store[st][n] \in Entry /\ ~store[st][n].used
    /\ calls[h].now <= store[st][n].exp
    /\ store'[st][n] \in Entry /\ store'[st][n].used = TRUE
    /\ store'[st][n].exp = store[st][n].exp
    /\ accepts'[st][n] = Append(accepts[st][n], calls[h])
    /\ \A s \in Store, m \in AllNonce : s # st \/ m # n =>
           store'[s][m] = store[s][m] /\ accepts'[s][m] = accepts[s][m]

\* The entry an accepted call consumed (nonce.rs consume).
LEMMA AcceptedEntry ==
    ASSUME TypeOK, NEW h \in Handler, Accepted(h)
    PROVE  /\ \E st \in Store, n \in AllNonce : Effect(h, st, n)
           /\ store' \in [Store -> [AllNonce -> Entry \cup {NoEntry}]]
           /\ accepts' \in [Store -> [AllNonce -> Seq(Call)]]
  <1>0. PICK st \in Store, n \in AllNonce :
            st = StoreOf[calls[h].svc] /\ n = calls[h].resp.chal.nonce
    BY AuthAssumption DEF Accepted, Call, Response, Challenge, AllNonce
  <1>1. calls[h] \in Call
    BY DEF Accepted
  <1>2. /\ store \in [Store -> [AllNonce -> Entry \cup {NoEntry}]]
        /\ accepts \in [Store -> [AllNonce -> Seq(Call)]]
    BY DEF TypeOK, AllNonce
  <1>3. store[st][n] # NoEntry /\ ~store[st][n].used
        /\ ~(calls[h].now > store[st][n].exp)
    BY <1>0 DEF Accepted, consume
  <1>4. store[st][n] \in Entry
    BY <1>2, <1>3
  <1>5. calls[h].now \in Nat /\ store[st][n].exp \in Nat
    BY <1>1, <1>4, AuthAssumption DEF Call, Entry, Time
  <1>6. calls[h].now <= store[st][n].exp
    BY <1>3, <1>5
  <1> DEFINE e == [store[st][n] EXCEPT !.used = TRUE]
  <1>7. e \in Entry /\ e.used = TRUE /\ e.exp = store[st][n].exp
    BY <1>4, UsedIsEntry
  <1>8. store' = [store EXCEPT ![st] = [store[st] EXCEPT ![n] = e]]
    BY <1>0 DEF Accepted
  <1>9. accepts' = [accepts EXCEPT ![st] =
                      [accepts[st] EXCEPT ![n] = Append(accepts[st][n], calls[h])]]
    BY <1>0 DEF Accepted
  <1> HIDE DEF e
  <1>10. Append(accepts[st][n], calls[h]) \in Seq(Call)
    BY <1>1, <1>2
  <1>11. Effect(h, st, n)
    BY <1>0, <1>1, <1>2, <1>3, <1>4, <1>6, <1>7, <1>8, <1>9 DEF Effect
  <1> QED BY <1>2, <1>7, <1>8, <1>9, <1>10, <1>11

\* Every reachable state is well typed.
THEOREM TypeCorrect == Spec => []TypeOK
  <1>1. Init => TypeOK
    <2>1. <<>> \in Seq(Call)
      OBVIOUS
    <2>2. 0 \in 0 .. MaxTime
      BY AuthAssumption
    <2> QED BY <2>1, <2>2, AuthAssumption DEF Init, TypeOK
  <1>2. TypeOK /\ [Next]_vars => TypeOK'
    <2> SUFFICES ASSUME TypeOK, [Next]_vars PROVE TypeOK'
      OBVIOUS
    <2>1. ASSUME NEW t \in 0 .. MaxTime, SetClock(t) PROVE TypeOK'
      BY <2>1 DEF TypeOK, SetClock
    <2>2. ASSUME NEW svc \in Service, NEW n \in Nonce, Issue(svc, n) PROVE TypeOK'
      <3> DEFINE ch == [version |-> 1, aud |-> svc, nonce |-> n,
                        iat |-> clock, exp |-> clock + Ttl]
                 en == [exp |-> clock + Ttl, used |-> FALSE]
      <3>1. clock \in Time /\ clock + Ttl \in Time
        BY AuthAssumption DEF TypeOK, Time
      <3>2. ch \in Challenge /\ en \in Entry
        BY <3>1 DEF Challenge, Entry
      <3>3. StoreOf[svc] \in Store
        BY AuthAssumption
      <3>4. issued' = [issued EXCEPT ![StoreOf[svc]] = @ \cup {n}]
            /\ store' = [store EXCEPT ![StoreOf[svc]] = [store[StoreOf[svc]] EXCEPT ![n] = en]]
            /\ chals' = chals \cup {ch}
        BY <2>2 DEF Issue
      <3> HIDE DEF ch, en
      <3>5. issued' \in [Store -> SUBSET Nonce]
        BY <3>3, <3>4 DEF TypeOK
      <3>6. store' \in [Store -> [Nonce \cup ShortNonce -> Entry \cup {NoEntry}]]
        BY <3>2, <3>3, <3>4 DEF TypeOK
      <3> QED BY <2>2, <3>2, <3>4, <3>5, <3>6 DEF TypeOK, Issue
    <2>3. ASSUME NEW c \in Claimant, NEW chal \in chals, Respond(c, chal) PROVE TypeOK'
      <3>1. respond(c, chal) \in Response
        BY DEF respond, Response, TypeOK
      <3> QED BY <2>3, <3>1 DEF TypeOK, Respond
    <2>4. ASSUME NEW h \in Handler, NEW svc \in Service, NEW resp \in net,
                 Receive(h, svc, resp)
          PROVE TypeOK'
      <3>1. [svc |-> svc, resp |-> resp, now |-> clock] \in Call
        BY DEF Call, TypeOK
      <3> QED BY <2>4, <3>1 DEF TypeOK, Receive
    <2>5. ASSUME NEW h \in Handler, Verify(h) PROVE TypeOK'
      <3>1. /\ store' \in [Store -> [AllNonce -> Entry \cup {NoEntry}]]
            /\ accepts' \in [Store -> [AllNonce -> Seq(Call)]]
        <4>1. CASE Accepted(h)
          BY <4>1, AcceptedEntry
        <4>2. CASE UNCHANGED <<store, accepts>>
          BY <4>2 DEF TypeOK, AllNonce
        <4> QED BY <2>5, <4>1, <4>2, VerifyCases
      <3> QED BY <2>5, <3>1 DEF TypeOK, Verify, AllNonce
    <2>6. ASSUME NEW st \in Store, Gc(st) PROVE TypeOK'
      <3>1. \A e \in Entry \cup {NoEntry} : retain(e, clock) \in Entry \cup {NoEntry}
        BY DEF retain
      <3>2. store' \in [Store -> [Nonce \cup ShortNonce -> Entry \cup {NoEntry}]]
        BY <2>6, <3>1 DEF TypeOK, Gc
      <3>3. swept' \in [Store -> 0 .. MaxTime]
        BY <2>6 DEF TypeOK, Gc
      <3> QED BY <2>6, <3>2, <3>3 DEF TypeOK, Gc
    <2>7. CASE UNCHANGED vars
      BY <2>7 DEF TypeOK, vars
    <2> QED BY <2>1, <2>2, <2>3, <2>4, <2>5, <2>6, <2>7 DEF Next
  <1> QED BY <1>1, <1>2, PTL DEF Spec

-----------------------------------------------------------------------------
(* One shot. *)

TicketOK(st, n) ==
    /\ accepts[st][n] = <<>> \/ Len(accepts[st][n]) = 1
    /\ accepts[st][n] # <<>> =>
           /\ n \in issued[st]
           /\ store[st][n] # NoEntry => store[st][n].used
    /\ store[st][n] # NoEntry => n \in issued[st]

OneShotInv == TypeOK /\ \A st \in Store, n \in AllNonce : TicketOK(st, n)

\* Every step keeps every ticket consistent.
LEMMA TicketStep ==
    ASSUME OneShotInv, [Next]_vars, NEW st \in Store, NEW n \in AllNonce
    PROVE  TicketOK(st, n)'
  <1>1. TypeOK /\ TicketOK(st, n)
    BY DEF OneShotInv
  <1>2. CASE /\ accepts'[st][n] = accepts[st][n] /\ issued' = issued
             /\ store'[st][n] = store[st][n] \/ store'[st][n] = NoEntry
    BY <1>1, <1>2 DEF TicketOK
  <1>3. ASSUME NEW svc \in Service, NEW m \in Nonce, Issue(svc, m)
        PROVE  TicketOK(st, n)'
    <2>1. StoreOf[svc] \in Store /\ m \in AllNonce
      BY AuthAssumption DEF AllNonce
    <2>2. /\ accepts' = accepts
          /\ issued'[st] = IF st = StoreOf[svc] THEN issued[st] \cup {m} ELSE issued[st]
          /\ \A s \in Store : m \notin issued[s]
          /\ store'[st][n] =
                IF st = StoreOf[svc] /\ n = m
                THEN [exp |-> clock + Ttl, used |-> FALSE] ELSE store[st][n]
      BY <1>1, <1>3, <2>1 DEF Issue, TypeOK, AllNonce
    <2> QED BY <1>1, <2>2 DEF TicketOK
  <1>4. ASSUME NEW h \in Handler, Verify(h) PROVE TicketOK(st, n)'
    <2>1. issued' = issued
      BY <1>4 DEF Verify
    <2>2. CASE Accepted(h)
      <3>0. PICK s \in Store, m \in AllNonce : Effect(h, s, m)
        BY <2>2, <1>1, AcceptedEntry
      <3>1. CASE st = s /\ n = m
        <4>1. /\ store[st][n] \in Entry /\ ~store[st][n].used
              /\ store'[st][n].used = TRUE
              /\ accepts'[st][n] = Append(accepts[st][n], calls[h])
          BY <3>0, <3>1 DEF Effect
        <4>2. store[st][n] # NoEntry
          BY <4>1, AuthNoneAssumption
        <4>3. accepts[st][n] = <<>> /\ n \in issued[st]
          BY <4>1, <4>2, <1>1 DEF TicketOK
        <4>4. accepts'[st][n] = <<calls[h]>>
          BY <4>1, <4>3
        <4> QED BY <4>1, <4>3, <4>4, <2>1 DEF TicketOK
      <3>2. CASE ~(st = s /\ n = m)
        BY <3>0, <3>2, <2>1, <1>2 DEF Effect
      <3> QED BY <3>1, <3>2
    <2>3. CASE UNCHANGED <<store, accepts>>
      BY <2>1, <2>3, <1>2
    <2> QED BY <1>1, <1>4, <2>2, <2>3, VerifyCases
  <1>5. ASSUME NEW s \in Store, Gc(s) PROVE TicketOK(st, n)'
    <2>1. /\ accepts' = accepts /\ issued' = issued
          /\ store'[st][n] = store[st][n] \/ store'[st][n] = NoEntry
      BY <1>1, <1>5 DEF Gc, TypeOK, retain, AllNonce
    <2> QED BY <2>1, <1>2
  <1>6. CASE UNCHANGED <<store, accepts, issued>>
    BY <1>6, <1>2
  <1> QED BY <1>3, <1>4, <1>5, <1>6 DEF Next, vars, SetClock, Respond, Receive

\* The ticket invariant holds in every reachable state.
LEMMA OneShotInductive == Spec => []OneShotInv
  <1>1. Init /\ TypeOK => OneShotInv
    BY DEF Init, OneShotInv, TicketOK, AllNonce
  <1>2. OneShotInv /\ TypeOK' /\ [Next]_vars => OneShotInv'
    BY TicketStep DEF OneShotInv
  <1> QED BY <1>1, <1>2, TypeCorrect, PTL DEF Spec

\* No nonce is ever accepted twice, under any interleaving, replay or gc.
THEOREM OneShotAlways == Spec => []OneShot
  <1>1. OneShotInv => OneShot
    <2> SUFFICES ASSUME OneShotInv, NEW st \in Store, NEW n \in AllNonce
                 PROVE  Len(accepts[st][n]) <= 1
      BY DEF OneShot, AllNonce
    <2>1. accepts[st][n] = <<>> \/ Len(accepts[st][n]) = 1
      BY DEF OneShotInv, TicketOK
    <2>2. Len(<<>>) = 0
      OBVIOUS
    <2>3. CASE accepts[st][n] = <<>>
      BY <2>2, <2>3
    <2>4. CASE Len(accepts[st][n]) = 1
      BY <2>4
    <2> QED BY <2>1, <2>3, <2>4
  <1> QED BY <1>1, OneShotInductive, PTL

\* A nonce is marked used only when a proof is accepted.
THEOREM NoBurnAlways == Spec => NoBurn
  <1> DEFINE A == \A st \in Store, n \in Nonce :
         store'[st][n] # NoEntry /\ store'[st][n].used
         /\ ~(store[st][n] # NoEntry /\ store[st][n].used)
         => Len(accepts'[st][n]) = Len(accepts[st][n]) + 1
  <1>1. TypeOK /\ [Next]_vars => A
    <2> SUFFICES ASSUME TypeOK, [Next]_vars, NEW st \in Store, NEW n \in Nonce,
                        store'[st][n] # NoEntry, store'[st][n].used,
                        ~(store[st][n] # NoEntry /\ store[st][n].used)
                 PROVE  Len(accepts'[st][n]) = Len(accepts[st][n]) + 1
      OBVIOUS
    <2>1. n \in AllNonce /\ accepts[st][n] \in Seq(Call)
      BY DEF AllNonce, TypeOK
    <2>2. ASSUME NEW svc \in Service, NEW m \in Nonce, Issue(svc, m) PROVE FALSE
      <3>1. store'[st][n] = store[st][n] \/ store'[st][n].used = FALSE
        BY <2>1, <2>2, AuthAssumption DEF Issue, TypeOK, AllNonce
      <3> QED BY <3>1
    <2>3. ASSUME NEW h \in Handler, Verify(h)
          PROVE  Len(accepts'[st][n]) = Len(accepts[st][n]) + 1
      <3>1. CASE Accepted(h)
        <4>0. PICK s \in Store, m \in AllNonce : Effect(h, s, m)
          BY <3>1, AcceptedEntry
        <4>1. accepts'[st][n] = Append(accepts[st][n], calls[h])
          BY <4>0, <2>1 DEF Effect
        <4>2. calls[h] \in Call
          BY <3>1 DEF Accepted
        <4> QED BY <4>1, <4>2, <2>1
      <3>2. CASE UNCHANGED <<store, accepts>>
        BY <3>2
      <3> QED BY <2>3, <3>1, <3>2, VerifyCases
    <2>4. ASSUME NEW s \in Store, Gc(s) PROVE FALSE
      <3>1. store'[st][n] = store[st][n] \/ store'[st][n] = NoEntry
        BY <2>1, <2>4 DEF Gc, TypeOK, retain, AllNonce
      <3> QED BY <3>1
    <2>5. CASE UNCHANGED store
      BY <2>5
    <2> QED BY <2>2, <2>3, <2>4, <2>5 DEF Next, vars, SetClock, Respond, Receive
  <1> QED BY <1>1, TypeCorrect, PTL DEF Spec, NoBurn

-----------------------------------------------------------------------------
(* Soundness of what was accepted. *)

\* Wrapping an addition never makes it larger.
LEMMA WrapShrinks ==
    ASSUME NEW x \in Nat
    PROVE  x % W \in Nat /\ x % W <= x
  <1>1. W \in Nat /\ W > 0
    BY AuthAssumption
  <1> QED BY <1>1

\* What the checks before consume establish, overflow or not.
LEMMA ChecksOk ==
    ASSUME NEW call \in Call, Checks(call) = "Ok"
    PROVE  /\ call.resp.chal.aud = call.svc
           /\ call.resp.sigOk /\ call.resp.pq # "bad"
           /\ call.svc \in PqRequired => call.resp.pq = "good"
           /\ call.resp.chal.iat <= call.now + Skew
           /\ call.now <= call.resp.chal.exp + Skew
  <1> DEFINE chal == call.resp.chal
  <1>1. /\ chal.iat \in Nat /\ chal.exp \in Nat /\ call.now \in Nat /\ Skew \in Nat
        /\ call.resp.pq \in {"none", "good", "bad"} /\ call.resp.sigOk \in BOOLEAN
    BY AuthAssumption DEF Call, Response, Challenge, Time
  <1>2. /\ chal.aud = call.svc
        /\ ~(~call.resp.sigOk \/ call.resp.pq = "bad")
        /\ ~(call.resp.pq = "none" /\ call.svc \in PqRequired)
        /\ ~(call.now + Skew < chal.iat)
        /\ ~(call.now > SkewedExpiry(chal))
    BY DEF Checks
  <1>3. SkewedExpiry(chal) \in Nat /\ SkewedExpiry(chal) <= chal.exp + Skew
    BY <1>1, WrapShrinks DEF SkewedExpiry
  <1>4. chal.iat <= call.now + Skew
    BY <1>1, <1>2
  <1>5. call.now <= chal.exp + Skew
    BY <1>1, <1>2, <1>3
  <1>6. call.svc \in PqRequired => call.resp.pq = "good"
    BY <1>1, <1>2
  <1> QED BY <1>1, <1>2, <1>4, <1>5, <1>6

\* An entry carries the expiry of a challenge issued for its store.
EntryHasChallenge(st, n) ==
    store[st][n] # NoEntry =>
        \E ch \in chals : /\ ch.nonce = n /\ StoreOf[ch.aud] = st
                         /\ ch.exp = store[st][n].exp

SoundAt(st, n) ==
    \A i \in 1 .. Len(accepts[st][n]) : SoundCall(st, n, accepts[st][n][i])

SoundInv ==
    /\ TypeOK
    /\ \A st \in Store, n \in AllNonce : EntryHasChallenge(st, n) /\ SoundAt(st, n)

\* Challenges are never forgotten, so a sound acceptance stays sound.
LEMMA SoundGrows ==
    ASSUME NEW st, NEW n, chals \subseteq chals',
           accepts'[st][n] = accepts[st][n], SoundAt(st, n)
    PROVE  SoundAt(st, n)'
  BY DEF SoundAt, SoundCall

\* Every step keeps entries tied to challenges and acceptances sound.
LEMMA SoundStep ==
    ASSUME SoundInv, [Next]_vars, NEW st \in Store, NEW n \in AllNonce
    PROVE  EntryHasChallenge(st, n)' /\ SoundAt(st, n)'
  <1>1. TypeOK /\ EntryHasChallenge(st, n) /\ SoundAt(st, n)
    BY DEF SoundInv
  <1>2. ASSUME chals \subseteq chals', accepts'[st][n] = accepts[st][n],
               store'[st][n] = store[st][n] \/ store'[st][n] = NoEntry
        PROVE  EntryHasChallenge(st, n)' /\ SoundAt(st, n)'
    <2>1. EntryHasChallenge(st, n)'
      BY <1>1, <1>2 DEF EntryHasChallenge
    <2> QED BY <1>1, <1>2, <2>1, SoundGrows
  <1>3. ASSUME NEW svc \in Service, NEW m \in Nonce, Issue(svc, m)
        PROVE  EntryHasChallenge(st, n)' /\ SoundAt(st, n)'
    <2>1. StoreOf[svc] \in Store /\ m \in AllNonce
      BY AuthAssumption DEF AllNonce
    <2>2. /\ accepts' = accepts /\ chals \subseteq chals'
          /\ \E ch \in chals' : ch.nonce = m /\ ch.aud = svc /\ ch.exp = clock + Ttl
          /\ store'[st][n] =
                IF st = StoreOf[svc] /\ n = m
                THEN [exp |-> clock + Ttl, used |-> FALSE] ELSE store[st][n]
      <3> DEFINE ch0 == [version |-> 1, aud |-> svc, nonce |-> m,
                         iat |-> clock, exp |-> clock + Ttl]
      <3>1. chals' = chals \cup {ch0} /\ accepts' = accepts
        BY <1>3 DEF Issue
      <3>2. ch0 \in chals' /\ ch0.nonce = m /\ ch0.aud = svc /\ ch0.exp = clock + Ttl
        BY <3>1
      <3>3. store'[st][n] =
                IF st = StoreOf[svc] /\ n = m
                THEN [exp |-> clock + Ttl, used |-> FALSE] ELSE store[st][n]
        BY <1>1, <1>3, <2>1 DEF Issue, TypeOK, AllNonce
      <3> HIDE DEF ch0
      <3>4. \E ch \in chals' : ch.nonce = m /\ ch.aud = svc /\ ch.exp = clock + Ttl
        BY <3>2
      <3> QED BY <3>1, <3>3, <3>4
    <2>3. CASE st = StoreOf[svc] /\ n = m
      <3>1. EntryHasChallenge(st, n)'
        BY <2>2, <2>3 DEF EntryHasChallenge
      <3> QED BY <1>1, <2>2, <3>1, SoundGrows
    <2>4. CASE ~(st = StoreOf[svc] /\ n = m)
      <3>1. store'[st][n] = store[st][n] /\ accepts'[st][n] = accepts[st][n]
        BY <2>2, <2>4
      <3> QED BY <1>2, <2>2, <3>1
    <2> QED BY <2>3, <2>4
  <1>4. ASSUME NEW h \in Handler, Verify(h)
        PROVE  EntryHasChallenge(st, n)' /\ SoundAt(st, n)'
    <2>1. chals' = chals
      BY <1>4 DEF Verify
    <2>2. CASE Accepted(h)
      <3>0. PICK s \in Store, m \in AllNonce : Effect(h, s, m)
        BY <2>2, <1>1, AcceptedEntry
      <3>1. CASE st = s /\ n = m
        <4>1. /\ st = StoreOf[calls[h].svc] /\ calls[h] \in Call
              /\ store[st][n] \in Entry /\ calls[h].now <= store[st][n].exp
              /\ store'[st][n].exp = store[st][n].exp
              /\ accepts'[st][n] = Append(accepts[st][n], calls[h])
          BY <3>0, <3>1 DEF Effect
        <4>2. PICK ch \in chals : /\ ch.nonce = n /\ StoreOf[ch.aud] = st
                                  /\ ch.exp = store[st][n].exp
          BY <1>1, <4>1, AuthNoneAssumption DEF EntryHasChallenge
        <4>3. EntryHasChallenge(st, n)'
          BY <2>1, <4>1, <4>2 DEF EntryHasChallenge
        <4>4. PICK c \in Call : c = calls[h] /\ Checks(c) = "Ok"
          BY <2>2, <4>1 DEF Accepted
        <4>5. SoundCall(st, n, c)'
          BY <2>1, <4>1, <4>2, <4>4, ChecksOk DEF SoundCall
        <4>6. accepts[st][n] \in Seq(Call)
          BY <1>1 DEF TypeOK, AllNonce
        <4>7. ASSUME NEW i \in 1 .. Len(accepts'[st][n])
              PROVE  SoundCall(st, n, accepts[st][n][i])'
          <5>1. \/ accepts'[st][n][i] = c
                \/ /\ i \in 1 .. Len(accepts[st][n])
                   /\ accepts'[st][n][i] = accepts[st][n][i]
            <6>1. PICK q \in Seq(Call) : q = accepts[st][n]
              BY <4>6
            <6>2. accepts'[st][n] = Append(q, c) /\ i \in 1 .. Len(Append(q, c))
              BY <4>1, <4>4, <6>1
            <6>3. Append(q, c)[i] = c \/ (i \in 1 .. Len(q) /\ Append(q, c)[i] = q[i])
              BY <6>2
            <6> QED BY <6>1, <6>2, <6>3
          <5>2. PICK d \in Call : d = accepts'[st][n][i]
            BY <4>4, <4>6, <5>1
          <5>3. CASE d = c
            BY <4>5, <5>2, <5>3 DEF SoundCall
          <5>4. CASE i \in 1 .. Len(accepts[st][n]) /\ d = accepts[st][n][i]
            <6>1. SoundCall(st, n, d)
              BY <1>1, <5>4 DEF SoundAt
            <6> QED BY <2>1, <5>2, <6>1 DEF SoundCall
          <5> QED BY <5>1, <5>2, <5>3, <5>4
        <4> QED BY <4>3, <4>7 DEF SoundAt
      <3>2. CASE ~(st = s /\ n = m)
        BY <3>0, <3>2, <2>1, <1>2 DEF Effect
      <3> QED BY <3>1, <3>2
    <2>3. CASE UNCHANGED <<store, accepts>>
      BY <2>1, <2>3, <1>2
    <2> QED BY <1>1, <1>4, <2>2, <2>3, VerifyCases
  <1>5. ASSUME NEW s \in Store, Gc(s)
        PROVE  EntryHasChallenge(st, n)' /\ SoundAt(st, n)'
    <2>1. /\ accepts' = accepts /\ chals' = chals
          /\ store'[st][n] = store[st][n] \/ store'[st][n] = NoEntry
      BY <1>1, <1>5 DEF Gc, TypeOK, retain, AllNonce
    <2> QED BY <2>1, <1>2
  <1>6. ASSUME UNCHANGED <<store, accepts, chals>>
        PROVE  EntryHasChallenge(st, n)' /\ SoundAt(st, n)'
    BY <1>6, <1>2
  <1> QED BY <1>3, <1>4, <1>5, <1>6 DEF Next, vars, SetClock, Respond, Receive

\* Every proof verify_response ever accepts is sound, in builds that trap the
\* overflow of expires_at + skew_secs and in builds that wrap it.
THEOREM AcceptedSoundAlways == Spec => []AcceptedSound
  <1>1. Init => \A st \in Store, n \in AllNonce : EntryHasChallenge(st, n) /\ SoundAt(st, n)
    BY DEF Init, EntryHasChallenge, SoundAt, AllNonce
  <1>2. SoundInv /\ [Next]_vars /\ TypeOK' => SoundInv'
    BY SoundStep DEF SoundInv
  <1>3. SoundInv => AcceptedSound
    BY DEF SoundInv, SoundAt, AcceptedSound, AllNonce
  <1>4. Init /\ TypeOK => SoundInv
    BY <1>1 DEF SoundInv
  <1> QED BY <1>2, <1>3, <1>4, TypeCorrect, PTL DEF Spec

-----------------------------------------------------------------------------
(* Timely answers. *)

\* Until its nonce is redeemed or gc runs past its expiry, a challenge has its
\* entry, as issued.
Answerable(chal) ==
    LET st == StoreOf[chal.aud]
        n == chal.nonce
    IN  /\ chal.version = 1 /\ n \in Nonce /\ n \in issued[st]
        /\ accepts[st][n] = <<>> /\ swept[st] <= chal.exp =>
               store[st][n] = [exp |-> chal.exp, used |-> FALSE]

TimelyInv == TypeOK /\ \A chal \in chals : Answerable(chal)

\* An entry that was issued and not redeemed is not lost to another handler, to
\* a second issue, or to a gc that ran before it expired.
LEMMA AnswerableStep ==
    ASSUME TimelyInv, TypeOK', [Next]_vars
    PROVE  TimelyInv'
  <1>0. TypeOK /\ chals \subseteq Challenge
    BY DEF TimelyInv, TypeOK
  <1>a. ASSUME NEW chal \in chals
        PROVE  chal.aud \in Service /\ StoreOf[chal.aud] \in Store /\ chal.exp \in Nat
    BY <1>0, AuthAssumption DEF Challenge, Time
  <1>1. ASSUME NEW svc \in Service, NEW m \in Nonce, Issue(svc, m)
        PROVE  \A chal \in chals' : Answerable(chal)'
    <2>0. PICK new : new = [version |-> 1, aud |-> svc, nonce |-> m,
                            iat |-> clock, exp |-> clock + Ttl]
      OBVIOUS
    <2>1. PICK s \in Store : s = StoreOf[svc]
      BY AuthAssumption
    <2>2. /\ chals' = chals \cup {new} /\ accepts' = accepts /\ swept' = swept
          /\ \A st \in Store : issued[st] \subseteq issued'[st] /\ m \notin issued[st]
          /\ m \in issued'[s]
          /\ store'[s][m] = [exp |-> clock + Ttl, used |-> FALSE]
          /\ \A st \in Store, n \in Nonce :
                 n # m => store'[st][n] = store[st][n]
      BY <1>0, <1>1, <2>0, <2>1 DEF Issue, TypeOK
    <2>3. Answerable(new)'
      <3>1. new.version = 1 /\ new.aud = svc /\ new.nonce = m /\ new.exp = clock + Ttl
        BY <2>0
      <3> QED BY <2>1, <2>2, <3>1 DEF Answerable
    <2>4. ASSUME NEW chal \in chals PROVE Answerable(chal)'
      <3>1. Answerable(chal) /\ StoreOf[chal.aud] \in Store
        BY <1>a DEF TimelyInv
      <3>2. chal.nonce # m
        BY <2>2, <3>1 DEF Answerable
      <3> QED BY <2>2, <3>1, <3>2 DEF Answerable
    <2> QED BY <2>2, <2>3, <2>4
  <1>2. ASSUME NEW chal \in chals, issued' = issued, swept' = swept,
               \A st \in Store, n \in Nonce :
                  accepts'[st][n] = <<>> =>
                      accepts[st][n] = <<>> /\ store'[st][n] = store[st][n]
        PROVE  Answerable(chal)'
    BY <1>2, <1>a DEF Answerable, TimelyInv
  <1>3. ASSUME NEW h \in Handler, Verify(h)
        PROVE  \A chal \in chals' : Answerable(chal)'
    <2>1. UNCHANGED <<chals, issued, swept>>
      BY <1>3 DEF Verify
    <2>2. CASE Accepted(h)
      <3>1. PICK s \in Store, m \in AllNonce : Effect(h, s, m)
        BY <1>0, <2>2, AcceptedEntry
      <3>2. ASSUME NEW st \in Store, NEW n \in Nonce, accepts'[st][n] = <<>>
            PROVE  accepts[st][n] = <<>> /\ store'[st][n] = store[st][n]
        <4>1. CASE st = s /\ n = m
          <5>1. accepts[st][n] \in Seq(Call) /\ calls[h] \in Call
            BY <1>0, <3>1 DEF TypeOK, Effect
          <5>2. Append(accepts[st][n], calls[h]) # <<>>
            BY <5>1
          <5> QED BY <3>1, <3>2, <4>1, <5>2 DEF Effect
        <4>2. CASE ~(st = s /\ n = m)
          BY <3>1, <3>2, <4>2 DEF Effect, AllNonce
        <4> QED BY <4>1, <4>2
      <3> QED BY <1>2, <2>1, <3>2
    <2>3. CASE UNCHANGED <<store, accepts>>
      BY <1>2, <2>1, <2>3
    <2> QED BY <1>0, <1>3, <2>2, <2>3, VerifyCases
  <1>4. ASSUME NEW s \in Store, Gc(s)
        PROVE  \A chal \in chals' : Answerable(chal)'
    <2>1. UNCHANGED <<chals, issued, accepts>>
      BY <1>4 DEF Gc
    <2>2. ASSUME NEW chal \in chals PROVE Answerable(chal)'
      <3>1. PICK st \in Store, n \in Nonce : st = StoreOf[chal.aud] /\ n = chal.nonce
        BY <1>a DEF TimelyInv, Answerable
      <3>2. Answerable(chal) /\ chal.exp \in Nat
        BY <1>a, <3>1 DEF TimelyInv, Answerable
      <3>3. CASE st = s
        <4>1. /\ store'[st][n] = retain(store[st][n], clock)
              /\ swept'[st] = IF clock > swept[st] THEN clock ELSE swept[st]
          BY <1>0, <1>4, <3>2, <3>3 DEF Gc, TypeOK
        <4>2. clock \in Nat /\ swept[st] \in Nat
          BY <1>0, AuthAssumption DEF TypeOK
        <4>3. SUFFICES ASSUME accepts[st][n] = <<>>, swept'[st] <= chal.exp
                       PROVE  store'[st][n] = [exp |-> chal.exp, used |-> FALSE]
          BY <2>1, <3>1, <3>2 DEF Answerable
        <4>4. swept[st] <= chal.exp /\ clock <= chal.exp
          BY <3>2, <4>1, <4>2, <4>3
        <4> DEFINE e == [exp |-> chal.exp, used |-> FALSE]
        <4>5. store[st][n] = e
          BY <3>1, <3>2, <4>3, <4>4 DEF Answerable
        <4>6. e \in Entry /\ e # NoEntry
          <5>1. chal.exp \in Time
            BY <1>0 DEF Challenge
          <5>2. e \in Entry
            BY <5>1 DEF Entry
          <5> QED BY <5>2, AuthNoneAssumption
        <4>7. e.exp >= clock
          BY <3>2, <4>2, <4>4
        <4> HIDE DEF e
        <4> QED BY <4>1, <4>5, <4>6, <4>7 DEF retain, e
      <3>4. CASE st # s
        BY <1>0, <1>4, <2>1, <3>1, <3>2, <3>4 DEF Gc, TypeOK, Answerable
      <3> QED BY <3>3, <3>4
    <2> QED BY <2>1, <2>2
  <1>5. ASSUME UNCHANGED <<store, accepts, issued, swept>>, chals' = chals
        PROVE  \A chal \in chals' : Answerable(chal)'
    BY <1>2, <1>5
  <1> QED
    BY <1>1, <1>3, <1>4, <1>5 DEF Next, vars, SetClock, Respond, Receive, TimelyInv

\* A claimant's own answer passes every check made before the nonce is consumed.
LEMMA GenuineChecks ==
    ASSUME TimelyInv, NEW call \in Call, Genuine(call),
           call.now + Skew >= call.resp.chal.iat,
           call.now <= call.resp.chal.exp,
           call.resp.chal.exp + Skew < W
    PROVE  Checks(call) = "Ok"
  <1> DEFINE chal == call.resp.chal
             c == call.resp.key
  <1>1. /\ chal.iat \in Nat /\ chal.exp \in Nat /\ call.now \in Nat
        /\ Skew \in Nat /\ W \in Nat
    BY AuthAssumption DEF Call, Response, Challenge, Time
  <1>2. /\ call.resp.decodes = TRUE /\ call.resp.sigOk = TRUE
        /\ call.resp.pq = IF c \in PqClaimant THEN "good" ELSE "none"
    <2>1. call.resp = respond(c, chal)
      BY DEF Genuine
    <2> HIDE DEF chal, c
    <2> QED BY <2>1 DEF respond
  <1>3. chal.version = 1 /\ chal.aud = call.svc /\ chal.nonce \notin ShortNonce
    BY AuthAssumption DEF Genuine, TimelyInv, Answerable
  <1>4. SkewedExpiry(chal) = chal.exp + Skew
    BY <1>1 DEF SkewedExpiry
  <1>5. ~(call.now + Skew < chal.iat) /\ ~Overflows(call)
        /\ ~(call.now > SkewedExpiry(chal))
    BY <1>1, <1>4 DEF Overflows
  <1>6. call.resp.pq # "bad" /\ ~(call.resp.pq = "none" /\ call.svc \in PqRequired)
    BY <1>2 DEF Genuine
  <1> QED BY <1>2, <1>3, <1>5, <1>6 DEF Checks

\* A genuine answer read between issue and expiry is accepted: replays, forgeries,
\* other handlers and gc before expiry cannot take its nonce away
\* (verify_response, consume, gc).
THEOREM TimelyAcceptedAlways == Spec => TimelyAccepted
  <1> DEFINE A == \A h \in Handler :
         LET call == calls[h] IN
         call # NoCall /\ calls'[h] = NoCall /\ Genuine(call)
         /\ call.now + Skew >= call.resp.chal.iat
         /\ call.now <= call.resp.chal.exp
         /\ call.resp.chal.exp + Skew < W
         => accepts'[StoreOf[call.svc]][call.resp.chal.nonce] = <<call>>
  <1>1. TimelyInv /\ [Next]_vars => A
    <2> SUFFICES ASSUME TimelyInv, [Next]_vars, NEW h \in Handler,
                        calls[h] # NoCall, calls'[h] = NoCall, Genuine(calls[h]),
                        calls[h].now + Skew >= calls[h].resp.chal.iat,
                        calls[h].now <= calls[h].resp.chal.exp,
                        calls[h].resp.chal.exp + Skew < W
                 PROVE  accepts'[StoreOf[calls[h].svc]][calls[h].resp.chal.nonce]
                          = <<calls[h]>>
      OBVIOUS
    <2>0. TypeOK
      BY DEF TimelyInv
    <2>1. Verify(h)
      <3>1. ASSUME NEW g \in Handler, NEW svc \in Service, NEW resp \in net,
                   Receive(g, svc, resp)
            PROVE  FALSE
        <4>1. calls'[h] = calls[h] \/ h = g
          BY <2>0, <3>1 DEF Receive, TypeOK
        <4> QED BY <3>1, <4>1 DEF Receive
      <3>2. ASSUME NEW g \in Handler, Verify(g), g # h PROVE FALSE
        BY <2>0, <3>2 DEF Verify, TypeOK
      <3> QED
        BY <3>1, <3>2 DEF Next, vars, SetClock, Issue, Respond, Gc
    <2>2. PICK call \in Call : call = calls[h]
      BY <2>0 DEF TypeOK
    <2>3. Checks(call) = "Ok"
      BY <2>2, GenuineChecks
    <2>4. PICK st, n, chal :
             st = StoreOf[call.svc] /\ n = chal.nonce /\ chal = call.resp.chal
      OBVIOUS
    <2>5. /\ st = StoreOf[chal.aud] /\ st \in Store /\ n \in Nonce
          /\ accepts[st][n] = <<>>
          /\ store[st][n] = [exp |-> chal.exp, used |-> FALSE]
      BY <2>2, <2>4, AuthAssumption DEF Genuine, TimelyInv, Answerable, Call
    <2>6. consume(store[st][n], call.now) = "Ok"
      <3> DEFINE e == [exp |-> chal.exp, used |-> FALSE]
      <3>1. e \in Entry /\ e # NoEntry
        <4>1. chal.exp \in Time
          BY <2>4 DEF Call, Response, Challenge
        <4>2. e \in Entry
          BY <4>1 DEF Entry
        <4> QED BY <4>2, AuthNoneAssumption
      <3>2. ~(call.now > chal.exp)
        BY <2>2, <2>4, AuthAssumption DEF Call, Response, Challenge, Time
      <3>3. e.exp = chal.exp /\ e.used = FALSE
        OBVIOUS
      <3> HIDE DEF e
      <3> QED BY <2>5, <3>1, <3>2, <3>3 DEF consume, e
    <2>7. verify_response(call, store[st][n]) = "Ok"
      BY <2>3, <2>6 DEF verify_response
    <2>8. accepts' = [accepts EXCEPT ![st][n] = Append(accepts[st][n], call)]
      BY <2>1, <2>2, <2>4, <2>7 DEF Verify
    <2>9. accepts'[st][n] = Append(<<>>, call)
      BY <2>0, <2>5, <2>8 DEF TypeOK
    <2>10. Append(<<>>, call) = <<call>>
      OBVIOUS
    <2> QED BY <2>2, <2>4, <2>9, <2>10
  <1>2. Init /\ TypeOK => TimelyInv
    BY DEF Init, TimelyInv
  <1>3. TimelyInv /\ TypeOK' /\ [Next]_vars => TimelyInv'
    BY AnswerableStep
  <1> QED BY <1>1, <1>2, <1>3, TypeCorrect, PTL DEF Spec, TimelyAccepted

-----------------------------------------------------------------------------
(* Refinement. *)

\* The refinement mapping, as the abstract module sees it.
AbsStatus == [t \in Tickets |-> TicketStatus(t[1], t[2])]
AbsHolder == [t \in Tickets |-> TicketHolder(t[1], t[2])]

\* Every step of the services is a step of the abstract tickets, or none.
LEMMA TicketSimulation ==
    ASSUME OneShotInv, OneShotInv', [Next]_vars
    PROVE  [Abstract!OneShotNext]_(Abstract!tickets)
  <1> DEFINE Same(st, n) == /\ TicketStatus(st, n)' = TicketStatus(st, n)
                            /\ TicketHolder(st, n)' = TicketHolder(st, n)
  <1>0. TypeOK /\ \A st \in Store, n \in AllNonce : TicketOK(st, n)
    BY DEF OneShotInv
  <1>1. ASSUME \A st \in Store, n \in Nonce : Same(st, n)
        PROVE  UNCHANGED <<AbsStatus, AbsHolder>>
    BY <1>1 DEF AbsStatus, AbsHolder, Tickets
  <1>2. ASSUME NEW svc \in Service, NEW m \in Nonce, Issue(svc, m)
        PROVE  \E t \in Tickets :
                 /\ AbsStatus[t] = "unissued"
                 /\ AbsStatus' = [AbsStatus EXCEPT ![t] = "open"]
                 /\ AbsHolder' = AbsHolder
    <2>1. PICK st \in Store : st = StoreOf[svc]
      BY AuthAssumption
    <2>2. /\ accepts' = accepts
          /\ \A s \in Store : issued'[s] = IF s = st THEN issued[s] \cup {m} ELSE issued[s]
          /\ m \notin issued[st]
          /\ store'[st][m] = [exp |-> clock + Ttl, used |-> FALSE]
          /\ \A s \in Store, n \in Nonce :
                s # st \/ n # m => store'[s][n] = store[s][n]
      BY <1>0, <1>2, <2>1 DEF Issue, TypeOK
    <2>3. accepts[st][m] = <<>>
      BY <1>0, <2>2 DEF TicketOK, AllNonce
    <2>4. store'[st][m] # NoEntry
      <3>1. [exp |-> clock + Ttl, used |-> FALSE] \in Entry
        BY <1>0, AuthAssumption DEF Entry, Time, TypeOK
      <3> QED BY <3>1, <2>2, AuthNoneAssumption
    <2>5. TicketStatus(st, m) = "unissued" /\ TicketStatus(st, m)' = "open"
      BY <2>2, <2>3, <2>4 DEF TicketStatus
    <2>6. \A s \in Store, n \in Nonce :
             s # st \/ n # m => TicketStatus(s, n)' = TicketStatus(s, n)
      BY <2>2 DEF TicketStatus
    <2>7. \A s \in Store, n \in Nonce : TicketHolder(s, n)' = TicketHolder(s, n)
      BY <2>2 DEF TicketHolder
    <2>8. AbsHolder' = AbsHolder
      BY <2>7 DEF AbsHolder, Tickets
    <2>9. AbsStatus' = [AbsStatus EXCEPT ![<<st, m>>] = "open"]
      <3>1. ASSUME NEW t \in Tickets
            PROVE  TicketStatus(t[1], t[2])'
                     = IF t = <<st, m>> THEN "open" ELSE TicketStatus(t[1], t[2])
        <4>1. PICK s \in Store, n \in Nonce : t = <<s, n>>
          BY DEF Tickets
        <4>2. t[1] = s /\ t[2] = n
          BY <4>1
        <4>3. TicketStatus(s, n)'
                = IF s = st /\ n = m THEN "open" ELSE TicketStatus(s, n)
          BY <2>5, <2>6
        <4> QED BY <4>1, <4>2, <4>3
      <3> QED BY <3>1 DEF AbsStatus
    <2>10. <<st, m>> \in Tickets /\ AbsStatus[<<st, m>>] = "unissued"
      BY <2>5 DEF AbsStatus, Tickets
    <2> QED BY <2>8, <2>9, <2>10
  <1>3. ASSUME NEW h \in Handler, Accepted(h), issued' = issued
        PROVE  \E t \in Tickets, c \in Claimant :
                 /\ AbsStatus[t] = "open"
                 /\ AbsStatus' = [AbsStatus EXCEPT ![t] = "redeemed"]
                 /\ AbsHolder' = [AbsHolder EXCEPT ![t] = c]
    <2>1. PICK st \in Store, m \in AllNonce : Effect(h, st, m)
      BY <1>0, <1>3, AcceptedEntry
    <2>2. /\ store[st][m] # NoEntry /\ ~store[st][m].used
          /\ accepts'[st][m] = Append(accepts[st][m], calls[h])
          /\ \A s \in Store, n \in AllNonce : s # st \/ n # m =>
                 store'[s][n] = store[s][n] /\ accepts'[s][n] = accepts[s][n]
      BY <2>1, AuthNoneAssumption DEF Effect
    <2>3. accepts[st][m] = <<>> /\ m \in issued[st]
      BY <1>0, <2>2 DEF TicketOK
    <2>4. m \in Nonce
      BY <1>0, <2>3 DEF TypeOK
    <2>5. PICK c \in Claimant : c = calls[h].resp.key
      BY <2>1 DEF Effect, Call, Response
    <2>6. accepts'[st][m] = <<calls[h]>>
      BY <2>2, <2>3
    <2>7. accepts'[st][m] # <<>> /\ accepts'[st][m][1] = calls[h]
      BY <2>6
    <2>8. TicketStatus(st, m) = "open" /\ TicketStatus(st, m)' = "redeemed"
          /\ TicketHolder(st, m)' = c
      BY <1>3, <2>2, <2>3, <2>5, <2>7 DEF TicketStatus, TicketHolder
    <2>9. \A s \in Store, n \in Nonce : s # st \/ n # m => Same(s, n)
      BY <1>3, <2>2 DEF TicketStatus, TicketHolder, AllNonce
    <2>A. ASSUME NEW t \in Tickets
          PROVE  /\ TicketStatus(t[1], t[2])'
                      = IF t = <<st, m>> THEN "redeemed" ELSE TicketStatus(t[1], t[2])
                 /\ TicketHolder(t[1], t[2])'
                      = IF t = <<st, m>> THEN c ELSE TicketHolder(t[1], t[2])
      <3>1. PICK s \in Store, n \in Nonce : t = <<s, n>>
        BY DEF Tickets
      <3>2. t[1] = s /\ t[2] = n
        BY <3>1
      <3>3. /\ TicketStatus(s, n)'
                 = IF s = st /\ n = m THEN "redeemed" ELSE TicketStatus(s, n)
            /\ TicketHolder(s, n)'
                 = IF s = st /\ n = m THEN c ELSE TicketHolder(s, n)
        BY <2>8, <2>9
      <3> QED BY <3>1, <3>2, <3>3
    <2>10. AbsStatus' = [AbsStatus EXCEPT ![<<st, m>>] = "redeemed"]
      BY <2>A DEF AbsStatus
    <2>11. AbsHolder' = [AbsHolder EXCEPT ![<<st, m>>] = c]
      BY <2>A DEF AbsHolder
    <2>12. <<st, m>> \in Tickets /\ AbsStatus[<<st, m>>] = "open"
      BY <2>4, <2>8 DEF AbsStatus, Tickets
    <2> QED BY <2>10, <2>11, <2>12
  <1>4. ASSUME NEW s \in Store, Gc(s)
        PROVE  \E T \in SUBSET Tickets :
                 /\ \A t \in T : AbsStatus[t] = "open"
                 /\ AbsStatus' = [t \in Tickets |->
                                    IF t \in T THEN "lapsed" ELSE AbsStatus[t]]
                 /\ AbsHolder' = AbsHolder
    <2> DEFINE T == {t \in Tickets : AbsStatus[t] = "open"
                                     /\ store'[t[1]][t[2]] = NoEntry}
    <2>1. /\ accepts' = accepts /\ issued' = issued
          /\ \A st \in Store, n \in Nonce :
                store'[st][n] = store[st][n] \/ store'[st][n] = NoEntry
      BY <1>0, <1>4 DEF Gc, TypeOK, retain
    <2>2. AbsHolder' = AbsHolder
      BY <2>1 DEF AbsHolder, Tickets, TicketHolder
    <2>3. \A st \in Store, n \in Nonce :
             TicketStatus(st, n)' = IF TicketStatus(st, n) = "open"
                                       /\ store'[st][n] = NoEntry
                                    THEN "lapsed" ELSE TicketStatus(st, n)
      BY <2>1 DEF TicketStatus
    <2>4. AbsStatus' = [t \in Tickets |->
                          IF t \in T THEN "lapsed" ELSE AbsStatus[t]]
      BY <2>3 DEF AbsStatus, Tickets
    <2>5. T \in SUBSET Tickets /\ \A t \in T : AbsStatus[t] = "open"
      OBVIOUS
    <2> QED BY <2>2, <2>4, <2>5
  <1>5. \/ \E t \in Tickets : Abstract!Open(t)
        \/ \E t \in Tickets, c \in Claimant : Abstract!Redeem(t, c)
        \/ \E T \in SUBSET Tickets : Abstract!Lapse(T)
        \/ UNCHANGED <<AbsStatus, AbsHolder>>
    <2>1. ASSUME UNCHANGED <<store, accepts, issued>>
          PROVE  UNCHANGED <<AbsStatus, AbsHolder>>
      <3>1. \A st \in Store, n \in Nonce : Same(st, n)
        BY <2>1 DEF TicketStatus, TicketHolder
      <3> QED BY <1>1, <3>1
    <2>2. ASSUME NEW svc \in Service, NEW m \in Nonce, Issue(svc, m)
          PROVE  \E t \in Tickets : Abstract!Open(t)
      BY <1>2, <2>2 DEF Abstract!Open, AbsStatus, AbsHolder
    <2>3. ASSUME NEW h \in Handler, Verify(h)
          PROVE  \/ \E t \in Tickets, c \in Claimant : Abstract!Redeem(t, c)
                 \/ UNCHANGED <<AbsStatus, AbsHolder>>
      <3>1. issued' = issued
        BY <2>3 DEF Verify
      <3>2. CASE Accepted(h)
        BY <1>3, <3>1, <3>2 DEF Abstract!Redeem, AbsStatus, AbsHolder
      <3> QED BY <1>0, <2>1, <2>3, <3>1, <3>2, VerifyCases
    <2>4. ASSUME NEW s \in Store, Gc(s)
          PROVE  \E T \in SUBSET Tickets : Abstract!Lapse(T)
      BY <1>4, <2>4 DEF Abstract!Lapse, AbsStatus, AbsHolder
    <2> QED
      BY <2>1, <2>2, <2>3, <2>4 DEF Next, vars, SetClock, Respond, Receive
  <1> QED
    BY <1>5 DEF Abstract!OneShotNext, Abstract!tickets, AbsStatus, AbsHolder

\* Challenge-response over a shared nonce store implements one-shot tickets.
THEOREM ImplementsOneShotAlways == Spec => ImplementsOneShot
  <1>1. Init => Abstract!OneShotInit
    BY DEF Init, Abstract!OneShotInit, TicketStatus, TicketHolder, Tickets
  <1>2. OneShotInv /\ OneShotInv' /\ [Next]_vars
        => [Abstract!OneShotNext]_(Abstract!tickets)
    BY TicketSimulation
  <1> QED
    BY <1>1, <1>2, OneShotInductive, PTL
       DEF Spec, ImplementsOneShot, Abstract!OneShotSpec
=============================================================================
