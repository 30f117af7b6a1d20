-------------------------- MODULE MCAuthChallenge --------------------------
(* Small instances of AuthChallenge. *)
EXTENDS AuthChallenge, TLC

CONSTANTS s1, s2, n1, short, c1, c2, db

\* Both services share one nonce store.
SharedStore == s1 :> db @@ s2 :> db

Crafted1(version, aud, nonce, iat, exp, decodes, sigOk, pq) ==
    [chal |-> [version |-> version, aud |-> aud, nonce |-> nonce,
               iat |-> iat, exp |-> exp],
     decodes |-> decodes, key |-> c2, sigOk |-> sigOk, pq |-> pq]

Rogue(exp, sigOk) == Crafted1(1, s1, n1, 0, exp, TRUE, sigOk, "none")

\* Two handlers race: c2 also answers around the nonce n1, once with a window
\* of its own choosing and once with a signature that does not verify.
RaceCrafted == { Rogue(W - 2, TRUE), Rogue(W - 2, FALSE) }

\* Every way to fail, one such response at a time: windows up to the last u64, the wrong
\* version, another service, a short nonce, invalid signatures, bytes that do
\* not decode, a window that has not started.
EdgeCrafted ==
    { Rogue(W - 1, TRUE), Rogue(W - 2, TRUE), Rogue(W - 2, FALSE), Rogue(0, TRUE),
      Crafted1(2, s1, n1, 0, W - 2, TRUE, TRUE, "none"),
      Crafted1(1, s2, n1, 0, W - 2, TRUE, TRUE, "none"),
      Crafted1(1, s2, n1, 0, W - 1, TRUE, TRUE, "good"),
      Crafted1(1, s1, short, 0, W - 2, TRUE, TRUE, "none"),
      Crafted1(1, s1, n1, 0, W - 2, TRUE, TRUE, "bad"),
      Crafted1(1, s1, n1, 0, W - 2, FALSE, TRUE, "none"),
      Crafted1(1, s1, n1, 3, W - 2, TRUE, TRUE, "none") }

\* Responses that fail in a way of their own are handled while no other handler
\* is at work; the ones of RaceCrafted and the genuine answers race freely.
EdgesAlone ==
    \A h \in Handler : calls[h] # NoCall /\ calls[h].resp \in EdgeCrafted \ RaceCrafted
        => \A g \in Handler \ {h} : calls[g] = NoCall

HandlerPerms == Permutations(Handler)
=============================================================================
