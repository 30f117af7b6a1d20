---------------------------- MODULE HybridClock ----------------------------
(***************************************************************************)
(* The hybrid logical clock of identikey-log (hlc.rs), driven by authors   *)
(* who stamp ops with Hlc::next and merge the ops they read with           *)
(* Hlc::observe.  Each author reads a wall clock of its own that may stand *)
(* still or jump; ops of authors outside the model carry any reading.      *)
(***************************************************************************)
EXTENDS Naturals

CONSTANTS
    Author,   \* authors that follow hlc.rs
    Wall,     \* wall-clock readings, in milliseconds
    Foreign,  \* ops of other authors
    U64Max,   \* 2^64 - 1
    Peak,     \* a bound on the readings that come from outside
    MaxOps    \* bound on the ops issued

Hlc == [l : 0 .. U64Max, c : 0 .. U64Max]

\* An op is identified by its actor and a number no other op of the actor has.
IsOp(o) == /\ DOMAIN o = {"actor", "n", "hlc"}
           /\ o.n \in Nat /\ o.hlc \in Hlc

ASSUME ClockAssumption ==
    /\ U64Max \in Nat /\ Peak \in Nat /\ MaxOps \in Nat
    /\ Wall \subseteq 0 .. U64Max
    /\ \A o \in Foreign : IsOp(o) /\ o.actor \notin Author /\ o.hlc.l <= Peak
    /\ \A w \in Wall : w <= Peak

VARIABLES
    clock,  \* author -> its last reading
    ops,    \* ops in existence
    past,   \* op -> every op that causally precedes it (history)
    known,  \* author -> every op in its causal past (history)
    count   \* number of ops issued

vars == <<clock, ops, past, known, count>>

-----------------------------------------------------------------------------
MaxOf(a, b) == IF a >= b THEN a ELSE b

\* Mutant: a plain addition.
saturating_add_Plain(a, b) == a + b

\* u64::saturating_add.
saturating_add(a, b) == IF a + b > U64Max THEN U64Max ELSE a + b

\* Mutant: both inputs are added up.
advance_Sum(local_wall_ms, last_l) ==
    [l |-> saturating_add(local_wall_ms + last_l, 1), c |-> 0]

advance(local_wall_ms, last_l) ==
    [l |-> saturating_add(MaxOf(local_wall_ms, last_l), 1), c |-> 0]

next(self, local_wall_ms) == advance(local_wall_ms, self.l)

\* Mutant: the peer's reading is adopted even when it is older.
observe_Adopt(self, other) == [self EXCEPT !.l = other.l]

observe(self, other) ==
    IF other.l > self.l THEN [l |-> other.l, c |-> self.c] ELSE self

-----------------------------------------------------------------------------
Init ==
    /\ clock = [a \in Author |-> [l |-> 0, c |-> 0]]
    /\ ops = Foreign
    /\ past = [o \in Foreign |-> {}]
    /\ known = [a \in Author |-> {}]
    /\ count = 0

\* An author stamps a new op with the reading after its last one.
Issue(a, wall) ==
    LET hlc == next(clock[a], wall)
        op == [actor |-> a, n |-> count, hlc |-> hlc]
    IN  /\ count < MaxOps
        /\ clock' = [clock EXCEPT ![a] = hlc]
        /\ ops' = ops \cup {op}
        /\ past' = [o \in ops \cup {op} |-> IF o = op THEN known[a] ELSE past[o]]
        /\ known' = [known EXCEPT ![a] = @ \cup {op}]
        /\ count' = count + 1

\* An author reads an op, in whatever order ops reach it.
Observe(a, op) ==
    /\ clock' = [clock EXCEPT ![a] = observe(@, op.hlc)]
    /\ known' = [known EXCEPT ![a] = @ \cup {op} \cup past[op]]
    /\ UNCHANGED <<ops, past, count>>

Next ==
    \/ \E a \in Author, wall \in Wall : Issue(a, wall)
    \/ \E a \in Author, op \in ops : Observe(a, op)

Spec == Init /\ [][Next]_vars

-----------------------------------------------------------------------------
TypeOK ==
    /\ clock \in [Author -> Hlc]
    /\ \A o \in ops : IsOp(o)
    /\ past \in [ops -> SUBSET ops]
    /\ known \in [Author -> SUBSET ops]
    /\ count \in 0 .. MaxOps

\* An op's l lies above the l of every op that causally precedes it, through
\* any chain of authors and whatever their wall clocks say, until the counter
\* has saturated (Hlc::advance, Hlc::observe).
CausalOrder ==
    \A o \in ops : \A p \in past[o] : p.hlc.l < o.hlc.l \/ o.hlc.l = U64Max

\* A clock runs ahead of every reading that came from outside by at most one
\* per op ever issued: reading and issuing in any order cannot push the shared
\* counters towards saturation faster (Hlc::advance, Hlc::observe).
BoundedDrift == \A a \in Author : clock[a].l <= Peak + count

\* "The +1 is what makes l alone a strict total order for a single author"
\* (hlc.rs, Hlc::advance): an author's later op has the larger l.
OwnOrder ==
    \A o, p \in ops : o.actor \in Author /\ o.actor = p.actor /\ o.n < p.n
                       => o.hlc.l < p.hlc.l
=============================================================================
