------------------------------ MODULE MCParts ------------------------------
(***************************************************************************)
(* The parts that keep no state in common with another: the hybrid logical *)
(* clock, the CBOR codec, node attestations, capability tokens and key     *)
(* wraps.  A behaviour exercises one of them.                              *)
(***************************************************************************)
EXTENDS HybridClock, NodeAttest, Capability, KeyWrap

CONSTANTS a1, a2, a3, peer, root1, root2, doc, read, write, alice, bob, dek1, dek2

VARIABLE part

PartsInit ==
    /\ part \in {"clock", "codec", "node", "token", "wrap"}
    /\ Init /\ AttestInit /\ CapabilityInit /\ WrapInit
    /\ IF part = "codec" THEN CborInit ELSE CborIdle

PartsNext ==
    /\ UNCHANGED part
    /\ \/ part = "clock" /\ Next /\ UNCHANGED <<cborVars, attestVars, token, wraps>>
       \/ part = "codec" /\ CborNext /\ UNCHANGED <<vars, attestVars, token, wraps>>
       \/ part = "node" /\ AttestNext /\ UNCHANGED <<vars, cborVars, token, wraps>>
       \/ part = "token" /\ CapabilityNext /\ UNCHANGED <<vars, cborVars, attestVars, wraps>>
       \/ part = "wrap" /\ WrapNext /\ UNCHANGED <<vars, cborVars, attestVars, token>>

PartsSpec == PartsInit /\ [][PartsNext]_<<part, vars, cborVars, attestVars, token, wraps>>

-----------------------------------------------------------------------------
(* The clock: U64Max is two ops away.  A peer stamps a non-zero counter,   *)
(* ahead of every wall clock.                                              *)
MCWall == {0, 2}
MCForeign == {[actor |-> peer, n |-> 0, hlc |-> [l |-> 3, c |-> 1]]}
MCSymmetry == Permutations(Author)

(* The codec.  Inputs are put together from heads in their shortest form   *)
(* and not, at the edges of every width, strings that are long enough or   *)
(* not, indefinite and reserved heads, and maps of two entries whose keys  *)
(* are in any order, equal, no text, or no UTF-8.                          *)
Chunks ==
    { <<0>>, <<23>>, <<24, 23>>, <<24, 24>>, <<24, 255>>, <<25, 0, 255>>, <<25, 1, 0>>,
      <<26, 0, 0, 255, 255>>, <<26, 0, 1, 0, 0>>,
      <<27, 0, 0, 0, 0, 255, 255, 255, 255>>, <<27, 0, 0, 0, 1, 0, 0, 0, 0>>,
      <<27, 255, 255, 255, 255, 255, 255, 255, 255>>,
      <<64>>, <<65, 7>>, <<88, 1>>, <<90, 255, 255, 255, 255>>,
      <<96>>, <<97, 97>>, <<97, 200>>, <<98, 97, 98>>, <<120, 1>>,
      <<128>>, <<129>>, <<130>>, <<152, 2>>, <<160>>, <<161>>, <<162>>, <<31>>, <<28>>, <<32>> }
KeyChunks ==
    { <<96>>, <<97, 97>>, <<97, 98>>, <<98, 97, 97>>, <<97, 200>>, <<120, 1, 97>>, <<65, 97>> }
Items == { <<0>>, <<65, 7>>, <<161, 97, 97, 0>>, <<24, 0>> }
MCInputs ==
    {FlattenSeq(cs) : cs \in UNION {[1 .. n -> Chunks] : n \in 0 .. 3}}
      \cup {<<162>> \o k \o v \o l \o w : k, l \in KeyChunks, v, w \in Items}

Ints == { <<0>>, <<23>>, <<24>>, <<255>>, <<1, 0>>, <<255, 255>>, <<1, 0, 0>>,
          <<255, 255, 255, 255>>, <<1, 0, 0, 0, 0>>, [i \in 1 .. 8 |-> 255] }
Long(n) == [i \in 1 .. n |-> 97]
Scalars == {Uint(n) : n \in Ints} \cup {Bytes(Long(n)) : n \in {0, 1, 23, 24, 255, 256}}
             \cup {Text(Long(n)) : n \in {0, 1, 23, 24}}
MapKeys == {<<>>, <<97>>, <<98>>, <<97, 97>>, Long(24)}
MCValues ==
    Scalars \cup {Array(<<>>), Map(<<>>), Array([i \in 1 .. 24 |-> Uint(<<0>>)])}
      \cup {Array(<<v, w>>) : v, w \in Scalars}
      \cup UNION {{Map(<< <<k, v>>, <<l, Array(<<v>>)>> >>) : l \in MapKeys \ {k}, v \in Scalars} :
                    k \in MapKeys}

(* Node attestations: two devices whose keys have the same bytes under     *)
(* different algorithms.                                                   *)
Device(alg, pq) == [key |-> [alg |-> alg, bytes |-> <<7>>], pq |-> pq]
MCDevices == {Device("ed25519", NoPq), Device("p256", [alg |-> "mldsa65", bytes |-> <<9>>])}
MCNodeIds == {<<1>>, <<2>>}

(* Tokens: blocks that grant, derive or check rights and holders. *)
user == <<"user", alice>>
Rule(head, body) == [head |-> head, body |-> body]
MCBlocks ==
    [facts : {{}, {right(doc, write)}, {user}, {holder(alice)}},
     rules : {{}, {Rule(holder(alice), user)}, {Rule(holder(alice), holder(bob))},
              {Rule(right(doc, read), holder(bob))},
              {Rule(user, right(doc, read)), Rule(right(doc, write), user)}},
     checks : {{}, {{holder(alice)}}}]

(* Wraps: an Ed25519 and an X25519 secret with the same scalar among them. *)
Secret(kind, s) == [kind |-> kind, s |-> s]
MCSecrets == {Secret("x25519", 2), Secret("ed25519", 3), Secret("p256", 2), Secret("ed25519", 2)}
=============================================================================
