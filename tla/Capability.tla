----------------------------- MODULE Capability -----------------------------
(***************************************************************************)
(* Capability tokens (identikey-capability/src/lib.rs) over biscuit-auth:  *)
(* a token is a chain of blocks that its bearer may extend offline, and    *)
(* authorize evaluates its Datalog for a request.                          *)
(*                                                                         *)
(* A block has facts, rules (a head and one body fact) and checks (sets of *)
(* facts, one of which must hold), all ground.  Block 1 is the authority   *)
(* block.  biscuit-auth itself is external: it refuses a chain not signed  *)
(* from the root key, and lets a block see the facts that stem from the    *)
(* authority block, from the authorizer and from itself only.              *)
(***************************************************************************)
EXTENDS Naturals, Sequences, FiniteSets

CONSTANTS
    Roots,        \* root keys
    Resources, Operations,
    Holders,      \* fingerprints
    AnyBlocks,    \* blocks embedders mint and bearers append
    MaxBlocks,    \* bound on a chain
    MaxRounds,    \* rounds of rules biscuit-auth runs before it gives up
    NoHolder,     \* holder_fp = None
    NoToken

ASSUME CapabilityAssumption == MaxRounds \in Nat \ {0}

right(resource, operation) == <<"right", resource, operation>>
holder(fp) == <<"holder", fp>>
NoBlock == [facts |-> {}, rules |-> {}, checks |-> {}]

VARIABLE token   \* [root, blocks]

CapabilityInit == token = NoToken

-----------------------------------------------------------------------------
(* biscuit-auth: the facts that hold, each with the blocks it stems from   *)
(* (0 is the authorizer).                                                  *)

Trusted(b) == {0, 1, b}

Start(blocks, ambient) ==
    {[f |-> f, from |-> {0}] : f \in ambient}
      \cup UNION {{[f |-> f, from |-> {b}] : f \in blocks[b].facts} : b \in 1 .. Len(blocks)}

Derive(blocks, world) ==
    world \cup UNION {{[f |-> r.head, from |-> w.from \cup {b}] : r \in
                         {r \in blocks[b].rules : w.f = r.body /\ w.from \subseteq Trusted(b)}} :
                         b \in 1 .. Len(blocks), w \in world}

\* The facts after each round of the rules but the last that
\* RunLimits::max_iterations allows.
Rounds(blocks, ambient) ==
    LET run[n \in 0 .. MaxRounds - 1] ==
            IF n = 0 THEN Start(blocks, ambient) ELSE Derive(blocks, run[n - 1])
    IN  run

World(blocks, ambient) == Rounds(blocks, ambient)[MaxRounds - 1]

\* The run is an error unless the last round adds nothing.
Settles(blocks, world) == Derive(blocks, world) = world

Holds(world, f, b) == \E w \in world : w.f = f /\ w.from \subseteq Trusted(b)

-----------------------------------------------------------------------------
(* lib.rs *)

\* Mutant: only facts that hold already are looked at.
reject_holder_facts_FactsOnly(tok) ==
    LET world == World(tok.blocks, {})
    IN  ~Settles(tok.blocks, world) \/ \E w \in world : w.f[1] = "holder"

reject_holder_facts(tok) ==
    LET world == World(tok.blocks, {})
    IN  \/ ~Settles(tok.blocks, world)
        \/ \E w \in world : w.f[1] = "holder"
        \/ \E b \in 1 .. Len(tok.blocks) : \E r \in tok.blocks[b].rules : r.head[1] = "holder"

parse(tok, root_public) == tok.root = root_public /\ ~reject_holder_facts(tok)

ChecksPass(tok, world) ==
    \A b \in 1 .. Len(tok.blocks) : \A c \in tok.blocks[b].checks :
        \E f \in c : Holds(world, f, b)

Ambient(holder_fp) == IF holder_fp = NoHolder THEN {} ELSE {holder(holder_fp)}

\* Mutant: the right is looked up with query_all, which sees every block.
authorize_QueryAll(tok, root_public, holder_fp, resource, operation) ==
    LET world == World(tok.blocks, Ambient(holder_fp))
    IN  /\ parse(tok, root_public)
        /\ Settles(tok.blocks, world)
        /\ ChecksPass(tok, world)
        /\ \E w \in world : w.f = right(resource, operation)

authorize(tok, root_public, holder_fp, resource, operation) ==
    LET world == World(tok.blocks, Ambient(holder_fp))
    IN  /\ parse(tok, root_public)
        /\ Settles(tok.blocks, world)
        /\ ChecksPass(tok, world)
        /\ Holds(world, right(resource, operation), 1)

mint_right(root, resource, operation) ==
    /\ token = NoToken
    /\ token' = [root |-> root,
                 blocks |-> <<[NoBlock EXCEPT !.facts = {right(resource, operation)}]>>]

\* An embedder mints Datalog of its own.
Mint(root, block) ==
    /\ token = NoToken
    /\ token' = [root |-> root, blocks |-> <<block>>]

AppendBlock(block) ==
    /\ token # NoToken /\ Len(token.blocks) < MaxBlocks
    /\ token' = [token EXCEPT !.blocks = Append(@, block)]

append_holder_check(fp) == AppendBlock([NoBlock EXCEPT !.checks = {{holder(fp)}}])

CapabilityNext ==
    \/ \E root \in Roots, r \in Resources, o \in Operations : mint_right(root, r, o)
    \/ \E root \in Roots, block \in AnyBlocks : Mint(root, block)
    \/ \E block \in AnyBlocks : AppendBlock(block)
    \/ \E fp \in Holders : append_holder_check(fp)

CapabilitySpec == CapabilityInit /\ [][CapabilityNext]_token

-----------------------------------------------------------------------------
Grants(tok, h, r, o) == \E root \in Roots : authorize(tok, root, h, r, o)

\* However a bearer extends a token, with facts, rules and checks of its own,
\* every request the longer one authorizes the shorter one authorized, for the
\* same root alone (lib.rs: append_holder_check "Cannot widen", authorize).
Narrowing ==
    token # NoToken =>
        \A h \in Holders \cup {NoHolder}, r \in Resources, o \in Operations :
            Grants(token, h, r, o) =>
                /\ \A n \in 1 .. Len(token.blocks) - 1 :
                      Grants([token EXCEPT !.blocks = SubSeq(@, 1, n)], h, r, o)
                /\ \A root \in Roots \ {token.root} : ~authorize(token, root, h, r, o)

\* A token with a holder check, in whichever block, authorizes nobody but the
\* holder the verifier has proved, whatever rules its blocks have
\* (reject_holder_facts, authorize).
HolderBound ==
    token # NoToken =>
        \A h \in Holders \cup {NoHolder}, r \in Resources, o \in Operations :
            Grants(token, h, r, o) =>
                \A b \in 1 .. Len(token.blocks) : \A fp \in Holders :
                    {holder(fp)} \in token.blocks[b].checks => h = fp
=============================================================================
