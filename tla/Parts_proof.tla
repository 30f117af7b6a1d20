---------------------------- MODULE Parts_proof ----------------------------
(***************************************************************************)
(* Proofs about three parts that keep no state in common: HybridClock,     *)
(* Capability and KeyWrap, for every value of their constants.             *)
(*                                                                         *)
(* Clocks: a clock is never behind an op in its author's causal past, and  *)
(* causal pasts are closed: everything that precedes an op an author knows *)
(* is known to it too.                                                     *)
(*                                                                         *)
(* Tokens: after any number of rounds of the rules, the facts of a prefix  *)
(* of a chain are the facts of the chain that stem from the prefix.  That  *)
(* takes an induction on the rounds, made here of the well-foundedness of  *)
(* the natural numbers.                                                    *)
(*                                                                         *)
(* Wraps: every wrap is one that seal returned.  What opens it then is a   *)
(* matter of the group: the coordinate of a product does not depend on the *)
(* sign of a factor.                                                       *)
(***************************************************************************)
EXTENDS HybridClock, Capability, KeyWrap, Integers, WellFoundedInduction, TLAPS

-----------------------------------------------------------------------------
(* The clock. *)

\* What one advance yields.
LEMMA AdvanceFacts ==
    ASSUME NEW w \in 0 .. U64Max, NEW h \in Hlc
    PROVE  /\ next(h, w) \in Hlc
           /\ next(h, w).l >= h.l
           /\ h.l < next(h, w).l \/ next(h, w).l = U64Max
           /\ \A m \in Nat : w <= m /\ h.l <= m => next(h, w).l <= m + 1
  BY ClockAssumption DEF next, advance, saturating_add, MaxOf, Hlc

\* What one merge yields.
LEMMA ObserveFacts ==
    ASSUME NEW h \in Hlc, NEW g \in Hlc
    PROVE  /\ observe(h, g) \in Hlc
           /\ observe(h, g).l >= h.l /\ observe(h, g).l >= g.l
           /\ observe(h, g).l = h.l \/ observe(h, g).l = g.l
  BY ClockAssumption DEF observe, Hlc

\* Every reachable state is well typed.
THEOREM TypeCorrect == Spec => []TypeOK
  <1>1. Init => TypeOK
    BY ClockAssumption DEF Init, TypeOK, Hlc
  <1>2. TypeOK /\ [Next]_vars => TypeOK'
    <2> SUFFICES ASSUME TypeOK, [Next]_vars PROVE TypeOK'
      OBVIOUS
    <2>1. ASSUME NEW a \in Author, NEW wall \in Wall, Issue(a, wall) PROVE TypeOK'
      <3>1. PICK h \in Hlc : h = next(clock[a], wall)
        BY AdvanceFacts, ClockAssumption DEF TypeOK
      <3>2. PICK op : op = [actor |-> a, n |-> count, hlc |-> h]
        OBVIOUS
      <3>3. IsOp(op)
        BY <3>2, ClockAssumption DEF IsOp, TypeOK
      <3>4. /\ clock' = [clock EXCEPT ![a] = h]
            /\ ops' = ops \cup {op}
            /\ past' = [o \in ops \cup {op} |-> IF o = op THEN known[a] ELSE past[o]]
            /\ known' = [known EXCEPT ![a] = @ \cup {op}]
            /\ count' = count + 1 /\ count < MaxOps
        BY <2>1, <3>1, <3>2 DEF Issue
      <3>5. count' \in 0 .. MaxOps
        BY <3>4, ClockAssumption DEF TypeOK
      <3>6. past' \in [ops' -> SUBSET ops']
        BY <3>4 DEF TypeOK
      <3>7. known' \in [Author -> SUBSET ops']
        BY <3>4 DEF TypeOK
      <3> QED BY <3>3, <3>4, <3>5, <3>6, <3>7 DEF TypeOK
    <2>2. ASSUME NEW a \in Author, NEW op \in ops, Observe(a, op) PROVE TypeOK'
      <3>1. observe(clock[a], op.hlc) \in Hlc
        BY ObserveFacts DEF TypeOK, IsOp
      <3>2. clock' \in [Author -> Hlc]
        BY <2>2, <3>1 DEF Observe, TypeOK
      <3>3. past[op] \subseteq ops
        BY DEF TypeOK
      <3>4. known' \in [Author -> SUBSET ops]
        BY <2>2, <3>3 DEF Observe, TypeOK
      <3> QED BY <2>2, <3>2, <3>4 DEF Observe, TypeOK
    <2>3. CASE UNCHANGED vars
      BY <2>3 DEF vars, TypeOK
    <2> QED BY <2>1, <2>2, <2>3 DEF Next
  <1> QED BY <1>1, <1>2, PTL DEF Spec

-----------------------------------------------------------------------------
(* Causal order. *)

\* No clock is behind an op in its author's causal past.
Ahead == \A a \in Author : \A o \in known[a] : o.hlc.l <= clock[a].l

ClockInv == TypeOK /\ CausalOrder /\ Ahead

\* Issuing an op keeps causal order and the clocks ahead.
LEMMA IssueOrdered ==
    ASSUME ClockInv, TypeOK', NEW a \in Author, NEW wall \in Wall, Issue(a, wall)
    PROVE  CausalOrder' /\ Ahead'
  <1>1. TypeOK /\ clock[a] \in Hlc /\ wall \in 0 .. U64Max
    BY ClockAssumption DEF ClockInv, TypeOK
  <1>2. PICK h \in Hlc : h = next(clock[a], wall)
    BY <1>1, AdvanceFacts
  <1>3. h.l >= clock[a].l /\ (clock[a].l < h.l \/ h.l = U64Max)
    BY <1>1, <1>2, AdvanceFacts
  <1>4. PICK op : op = [actor |-> a, n |-> count, hlc |-> h]
    OBVIOUS
  <1>5. /\ clock' = [clock EXCEPT ![a] = h]
        /\ ops' = ops \cup {op}
        /\ past' = [o \in ops \cup {op} |-> IF o = op THEN known[a] ELSE past[o]]
        /\ known' = [known EXCEPT ![a] = @ \cup {op}]
    BY <1>2, <1>4 DEF Issue
  <1>6. op.hlc = h /\ h.l \in Nat /\ h.l <= U64Max /\ clock[a].l \in Nat
    BY <1>1, <1>4, ClockAssumption DEF Hlc
  <1>7. \A p \in known[a] : p.hlc.l \in Nat /\ p.hlc.l <= clock[a].l
    BY <1>1, ClockAssumption DEF ClockInv, Ahead, TypeOK, IsOp, Hlc
  <1>8. CausalOrder'
    <2> SUFFICES ASSUME NEW o \in ops', NEW p \in past'[o]
                 PROVE  p.hlc.l < o.hlc.l \/ o.hlc.l = U64Max
      BY DEF CausalOrder
    <2>1. CASE o = op
      <3>1. p \in known[a]
        BY <1>5, <2>1
      <3> QED BY <1>3, <1>6, <1>7, <2>1, <3>1
    <2>2. CASE o # op
      <3>1. o \in ops /\ p \in past[o]
        BY <1>5, <2>2
      <3> QED BY <3>1 DEF ClockInv, CausalOrder
    <2> QED BY <2>1, <2>2
  <1>9. Ahead'
    <2> SUFFICES ASSUME NEW b \in Author, NEW o \in known'[b]
                 PROVE  o.hlc.l <= clock'[b].l
      BY DEF Ahead
    <2>1. CASE b = a
      <3>1. clock'[b] = h /\ known'[b] = known[a] \cup {op}
        BY <1>1, <1>5, <2>1 DEF TypeOK
      <3>2. CASE o = op
        BY <1>6, <3>1, <3>2
      <3>3. CASE o \in known[a]
        BY <1>3, <1>6, <1>7, <3>1, <3>3
      <3> QED BY <3>1, <3>2, <3>3
    <2>2. CASE b # a
      <3>1. clock'[b] = clock[b] /\ known'[b] = known[b]
        BY <1>1, <1>5, <2>2 DEF TypeOK
      <3> QED BY <3>1 DEF ClockInv, Ahead
    <2> QED BY <2>1, <2>2
  <1> QED BY <1>8, <1>9

\* Reading an op keeps the clocks ahead of everything it follows.
LEMMA ObserveOrdered ==
    ASSUME ClockInv, NEW a \in Author, NEW op \in ops, Observe(a, op)
    PROVE  CausalOrder' /\ Ahead'
  <1>1. TypeOK /\ clock[a] \in Hlc /\ op.hlc \in Hlc /\ past[op] \subseteq ops
    BY DEF ClockInv, TypeOK, IsOp
  <1>2. PICK h \in Hlc : h = observe(clock[a], op.hlc)
    BY <1>1, ObserveFacts
  <1>3. h.l >= clock[a].l /\ h.l >= op.hlc.l
    BY <1>1, <1>2, ObserveFacts
  <1>4. /\ clock' = [clock EXCEPT ![a] = h]
        /\ known' = [known EXCEPT ![a] = @ \cup {op} \cup past[op]]
        /\ ops' = ops /\ past' = past
    BY <1>2 DEF Observe
  <1>5. CausalOrder'
    BY <1>4 DEF ClockInv, CausalOrder
  <1>6. Ahead'
    <2> SUFFICES ASSUME NEW b \in Author, NEW o \in known'[b]
                 PROVE  o.hlc.l <= clock'[b].l
      BY DEF Ahead
    <2>1. CASE b = a
      <3>1. clock'[b] = h /\ known'[b] = known[a] \cup {op} \cup past[op]
        BY <1>1, <1>4, <2>1 DEF TypeOK
      <3>2. /\ h.l \in Nat /\ clock[a].l \in Nat /\ op.hlc.l \in Nat
            /\ op.hlc.l <= U64Max /\ U64Max \in Nat
        BY <1>1, ClockAssumption DEF Hlc
      <3>3. o \in ops /\ o.hlc.l \in Nat /\ o.hlc.l <= U64Max
        <4>1. o \in ops
          BY <1>1, <3>1 DEF TypeOK
        <4>2. o.hlc \in Hlc
          BY <1>1, <4>1 DEF TypeOK, IsOp
        <4> QED BY <4>1, <4>2, ClockAssumption DEF Hlc
      <3>4. CASE o \in known[a]
        <4>1. o.hlc.l <= clock[a].l
          BY <3>4 DEF ClockInv, Ahead
        <4> QED BY <1>3, <3>1, <3>2, <3>3, <4>1
      <3>5. CASE o = op
        BY <1>3, <3>1, <3>5
      <3>6. CASE o \in past[op]
        <4>1. o.hlc.l < op.hlc.l \/ op.hlc.l = U64Max
          BY <3>6 DEF ClockInv, CausalOrder
        <4> QED BY <1>3, <3>1, <3>2, <3>3, <4>1
      <3> QED BY <3>1, <3>4, <3>5, <3>6
    <2>2. CASE b # a
      <3>1. clock'[b] = clock[b] /\ known'[b] = known[b]
        BY <1>1, <1>4, <2>2 DEF TypeOK
      <3> QED BY <3>1 DEF ClockInv, Ahead
    <2> QED BY <2>1, <2>2
  <1> QED BY <1>5, <1>6

\* The clock invariant is inductive.
LEMMA ClockInductive == Spec => []ClockInv
  <1>1. Init /\ TypeOK => ClockInv
    BY DEF Init, ClockInv, CausalOrder, Ahead
  <1>2. ClockInv /\ [Next]_vars /\ TypeOK' => ClockInv'
    <2> SUFFICES ASSUME ClockInv, [Next]_vars, TypeOK' PROVE ClockInv'
      OBVIOUS
    <2>1. ASSUME NEW a \in Author, NEW wall \in Wall, Issue(a, wall) PROVE ClockInv'
      BY <2>1, IssueOrdered DEF ClockInv
    <2>2. ASSUME NEW a \in Author, NEW op \in ops, Observe(a, op) PROVE ClockInv'
      BY <2>2, ObserveOrdered DEF ClockInv
    <2>3. CASE UNCHANGED vars
      BY <2>3 DEF vars, ClockInv, TypeOK, CausalOrder, Ahead
    <2> QED BY <2>1, <2>2, <2>3 DEF Next
  <1> QED BY <1>1, <1>2, TypeCorrect, PTL DEF Spec

\* Causality is readable off l alone until the counter saturates.
THEOREM CausalOrderAlways == Spec => []CausalOrder
  <1>1. ClockInv => CausalOrder
    BY DEF ClockInv
  <1> QED BY <1>1, ClockInductive, PTL

-----------------------------------------------------------------------------
(* Drift, and the strict order of one author's ops when there is headroom. *)

DriftInv == /\ ClockInv /\ BoundedDrift
            /\ \A o \in ops : o.hlc.l <= Peak + count

\* Clocks and ops stay within one of the outside readings per op issued.
LEMMA DriftInductive == Spec => []DriftInv
  <1>1. Init /\ ClockInv => DriftInv
    BY ClockAssumption DEF Init, DriftInv, BoundedDrift, IsOp, Hlc
  <1>2. DriftInv /\ [Next]_vars /\ ClockInv' => DriftInv'
    <2> SUFFICES ASSUME DriftInv, [Next]_vars, ClockInv' PROVE DriftInv'
      OBVIOUS
    <2>0. /\ TypeOK /\ Peak \in Nat /\ count \in Nat
          /\ \A b \in Author : clock[b] \in Hlc /\ clock[b].l \in Nat
                               /\ clock[b].l <= Peak + count
          /\ \A o \in ops : /\ o.hlc \in Hlc /\ o.hlc.l \in Nat
                            /\ o.hlc.l <= Peak + count
      BY ClockAssumption DEF DriftInv, ClockInv, BoundedDrift, TypeOK, IsOp, Hlc
    <2>1. ASSUME NEW a \in Author, NEW wall \in Wall, Issue(a, wall) PROVE DriftInv'
      <3>1. PICK h \in Hlc : h = next(clock[a], wall)
        BY <2>0, AdvanceFacts, ClockAssumption
      <3>2. wall \in 0 .. U64Max /\ wall \in Nat /\ wall <= Peak + count
        BY <2>0, ClockAssumption
      <3>3. h.l <= (Peak + count) + 1 /\ h.l \in Nat
        BY <2>0, <3>1, <3>2, AdvanceFacts, ClockAssumption DEF Hlc
      <3>4. /\ clock' = [clock EXCEPT ![a] = h] /\ count' = count + 1
            /\ ops' = ops \cup {[actor |-> a, n |-> count, hlc |-> h]}
        BY <2>1, <3>1 DEF Issue
      <3>5. \A b \in Author : clock'[b].l <= Peak + count'
        <4> SUFFICES ASSUME NEW b \in Author PROVE clock'[b].l <= Peak + count'
          OBVIOUS
        <4>1. clock'[b] = h \/ clock'[b] = clock[b]
          BY <2>0, <3>4 DEF TypeOK
        <4> QED BY <2>0, <3>3, <3>4, <4>1
      <3>6. \A o \in ops' : o.hlc.l <= Peak + count'
        BY <2>0, <3>3, <3>4
      <3> QED BY <3>5, <3>6 DEF DriftInv, BoundedDrift
    <2>2. ASSUME NEW a \in Author, NEW op \in ops, Observe(a, op) PROVE DriftInv'
      <3>1. /\ observe(clock[a], op.hlc).l \in {clock[a].l, op.hlc.l}
            /\ ops' = ops /\ count' = count
        BY <2>0, <2>2, ObserveFacts DEF Observe
      <3>2. \A b \in Author : clock'[b] = clock[b] \/ clock'[b] = observe(clock[a], op.hlc)
        BY <2>0, <2>2 DEF Observe, TypeOK
      <3>3. \A b \in Author : clock'[b].l <= Peak + count'
        BY <2>0, <3>1, <3>2
      <3> QED BY <2>0, <3>1, <3>3 DEF DriftInv, BoundedDrift
    <2>3. CASE UNCHANGED vars
      BY <2>3 DEF vars, DriftInv, BoundedDrift
    <2> QED BY <2>1, <2>2, <2>3 DEF Next
  <1> QED BY <1>1, <1>2, ClockInductive, PTL DEF Spec

\* No clock drifts further than one per op issued.
THEOREM BoundedDriftAlways == Spec => []BoundedDrift
  <1>1. DriftInv => BoundedDrift
    BY DEF DriftInv
  <1> QED BY <1>1, DriftInductive, PTL

\* Every op of an author of the model is in that author's own past.
OwnKnown ==
    \A o \in ops : o.actor \in Author => o \in known[o.actor] /\ o.n < count

OwnInv == DriftInv /\ OwnKnown /\ OwnOrder

\* With headroom below U64Max, l alone orders each author's ops strictly: the
\* claim of Hlc::advance holds exactly as long as nothing saturates.
THEOREM OwnOrderAlways == Peak + MaxOps < U64Max => (Spec => []OwnOrder)
  <1> SUFFICES ASSUME Peak + MaxOps < U64Max PROVE Spec => []OwnOrder
    OBVIOUS
  <1>1. Init /\ DriftInv => OwnInv
    BY ClockAssumption DEF Init, OwnInv, OwnKnown, OwnOrder
  <1>2. OwnInv /\ [Next]_vars /\ DriftInv' => OwnInv'
    <2> SUFFICES ASSUME OwnInv, [Next]_vars, DriftInv' PROVE OwnKnown' /\ OwnOrder'
      BY DEF OwnInv
    <2>0. TypeOK /\ Ahead /\ OwnKnown /\ OwnOrder /\ BoundedDrift /\ count \in Nat
      BY ClockAssumption DEF OwnInv, DriftInv, ClockInv, TypeOK
    <2>1. ASSUME NEW a \in Author, NEW wall \in Wall, Issue(a, wall)
          PROVE  OwnKnown' /\ OwnOrder'
      <3>1. PICK h \in Hlc : h = next(clock[a], wall)
        BY <2>0, AdvanceFacts, ClockAssumption DEF TypeOK
      <3>2. PICK op : op = [actor |-> a, n |-> count, hlc |-> h]
        OBVIOUS
      <3>3. /\ clock' = [clock EXCEPT ![a] = h]
            /\ ops' = ops \cup {op}
            /\ known' = [known EXCEPT ![a] = @ \cup {op}]
            /\ count' = count + 1 /\ count < MaxOps
        BY <2>1, <3>1, <3>2 DEF Issue
      <3>4. op.actor = a /\ op.n = count /\ op.hlc = h
        BY <3>2
      <3>5. clock[a].l < h.l
        <4>1. clock[a] \in Hlc /\ wall \in 0 .. U64Max /\ clock[a].l <= Peak + count
          BY <2>0, ClockAssumption DEF TypeOK, BoundedDrift
        <4>2. h.l <= (Peak + count) + 1
          BY <2>0, <3>1, <4>1, AdvanceFacts, ClockAssumption
        <4>3. clock[a].l < h.l \/ h.l = U64Max
          BY <3>1, <4>1, AdvanceFacts
        <4> QED BY <2>0, <3>3, <4>2, <4>3, ClockAssumption
      <3>6. OwnKnown'
        BY <2>0, <3>3, <3>4 DEF OwnKnown, TypeOK, IsOp
      <3>7. ASSUME NEW o \in ops', NEW p \in ops', o.actor \in Author,
                   o.actor = p.actor, o.n < p.n
            PROVE  o.hlc.l < p.hlc.l
        <4>1. CASE o \in ops /\ p \in ops
          BY <2>0, <3>7, <4>1 DEF OwnOrder
        <4>2. CASE o = op
          BY <2>0, <3>3, <3>4, <3>7, <4>2 DEF OwnKnown, TypeOK, IsOp
        <4>3. CASE o \in ops /\ p = op
          <5>1. o \in known[a]
            BY <2>0, <3>4, <3>7, <4>3 DEF OwnKnown
          <5>2. o.hlc.l <= clock[a].l
            BY <2>0, <5>1 DEF Ahead
          <5>3. o.hlc.l \in Nat /\ clock[a].l \in Nat /\ h.l \in Nat
            BY <2>0, <4>3, ClockAssumption DEF TypeOK, IsOp, Hlc
          <5> QED BY <3>4, <3>5, <4>3, <5>2, <5>3
        <4> QED BY <3>3, <4>1, <4>2, <4>3
      <3> QED BY <3>6, <3>7 DEF OwnOrder
    <2>2. ASSUME NEW a \in Author, NEW op \in ops, Observe(a, op)
          PROVE  OwnKnown' /\ OwnOrder'
      BY <2>0, <2>2 DEF Observe, OwnKnown, OwnOrder, TypeOK
    <2>3. CASE UNCHANGED vars
      BY <2>0, <2>3 DEF vars, OwnKnown, OwnOrder
    <2> QED BY <2>1, <2>2, <2>3 DEF Next
  <1>3. OwnInv => OwnOrder
    BY DEF OwnInv
  <1> QED BY <1>1, <1>2, <1>3, DriftInductive, PTL DEF Spec

-----------------------------------------------------------------------------
(* Induction on numbers. *)

\* Every set of natural numbers has a least element.
LEMMA LeastNumber ==
    ASSUME NEW T \in SUBSET Nat, T # {}
    PROVE  \E m \in T : \A k \in T : m <= k
  <1> DEFINE R == OpToRel(<, Nat)
  <1>1. IsWellFoundedOn(R, Nat)
    BY NatLessThanWellFounded
  <1>2. PICK m \in T : \A k \in T : ~(<<k, m>> \in R)
    <2> HIDE DEF R
    <2> QED BY <1>1, WFMin
  <1>3. \A k \in T : k < m => <<k, m>> \in R
    BY DEF OpToRel
  <1>4. \A k \in T : ~(k < m)
    <2> HIDE DEF R
    <2> QED BY <1>2, <1>3, Zenon
  <1> QED BY <1>4

\* Induction on a set of numbers.
LEMMA NumberInduction ==
    ASSUME NEW N \in Nat, NEW S, 0 \in S,
           \A n \in 1 .. N : n - 1 \in S => n \in S
    PROVE  0 .. N \subseteq S
  <1> DEFINE T == (0 .. N) \ S
  <1> SUFFICES ASSUME T # {} PROVE FALSE
    OBVIOUS
  <1>1. PICK m \in T : \A k \in T : m <= k
    <2>1. T \in SUBSET Nat
      OBVIOUS
    <2> QED BY <2>1, LeastNumber
  <1>2. m \in 1 .. N /\ m - 1 \in 0 .. N /\ m - 1 < m
    BY <1>1
  <1>3. m - 1 \in S
    BY <1>1, <1>2
  <1> QED BY <1>1, <1>2, <1>3

-----------------------------------------------------------------------------
(* The rounds of the rules. *)

\* biscuit-auth's rounds are what their recursive definition says.
LEMMA RoundsOf ==
    ASSUME NEW blocks, NEW ambient
    PROVE  LET run == Rounds(blocks, ambient)
           IN  /\ run[0] = Start(blocks, ambient)
               /\ \A n \in 1 .. MaxRounds - 1 : run[n] = Derive(blocks, run[n - 1])
  <1> DEFINE A == Start(blocks, ambient)
             D(x) == Derive(blocks, x)
             Is(f, m) == f = [n \in 0 .. m |-> IF n = 0 THEN A ELSE D(f[n - 1])]
             S == {m \in Nat : \E f : Is(f, m)}
  <1> HIDE DEF A, D
  <1>0. MaxRounds - 1 \in Nat
    BY CapabilityAssumption
  <1>1. 0 \in S
    <2> DEFINE f == [n \in 0 .. 0 |-> A]
    <2>1. \A n \in 0 .. 0 : n = 0
      OBVIOUS
    <2>2. Is(f, 0)
      BY <2>1
    <2> QED BY <2>2
  <1>2. ASSUME NEW m \in 1 .. MaxRounds - 1, m - 1 \in S PROVE m \in S
    <2>1. PICK f : Is(f, m - 1)
      BY <1>2
    <2> DEFINE g == [n \in 0 .. m |-> IF n = 0 THEN A ELSE D(f[n - 1])]
    <2>2. \A n \in 0 .. m - 1 : f[n] = IF n = 0 THEN A ELSE D(f[n - 1])
      BY <2>1
    <2>3. \A n \in 0 .. m - 1 : g[n] = f[n]
      BY <1>0, <2>2
    <2>4. \A n \in 0 .. m : (IF n = 0 THEN A ELSE D(f[n - 1]))
                              = (IF n = 0 THEN A ELSE D(g[n - 1]))
      <3>1. \A n \in 0 .. m : n # 0 => n - 1 \in 0 .. m - 1
        BY <1>0
      <3>2. \A n \in 0 .. m : n # 0 => g[n - 1] = f[n - 1]
        BY <2>3, <3>1
      <3> HIDE DEF g
      <3> QED BY <3>2, Zenon
    <2>5. Is(g, m)
      BY <2>4
    <2>6. m \in Nat
      BY <1>0
    <2> QED BY <2>5, <2>6
  <1>3. 0 .. MaxRounds - 1 \subseteq S
    <2> HIDE DEF S
    <2> QED BY <1>0, <1>1, <1>2, NumberInduction
  <1>4. \E f : Is(f, MaxRounds - 1)
    BY <1>0, <1>3
  <1>5. Rounds(blocks, ambient) = CHOOSE f : Is(f, MaxRounds - 1)
    BY DEF Rounds, A, D
  <1>6. Is(Rounds(blocks, ambient), MaxRounds - 1)
    <2> HIDE DEF Is
    <2> QED BY <1>4, <1>5
  <1>7. \A n \in 0 .. MaxRounds - 1 : Rounds(blocks, ambient)[n]
            = IF n = 0 THEN A ELSE D(Rounds(blocks, ambient)[n - 1])
    BY <1>6
  <1> QED BY <1>0, <1>7 DEF A, D

-----------------------------------------------------------------------------
(* The facts of a prefix. *)

\* The facts that stem from the authorizer and the first p blocks.
Upto(world, p) == {w \in world : w.from \subseteq 0 .. p}

\* x is what a rule of block b makes of w.
Fires(x, blocks, w, b) ==
    \E r \in blocks[b].rules : /\ w.f = r.body /\ w.from \subseteq Trusted(b)
                               /\ x = [f |-> r.head, from |-> w.from \cup {b}]

\* A round keeps the facts and adds what the rules make of them.
LEMMA DeriveMember ==
    ASSUME NEW blocks, NEW world, NEW x
    PROVE  x \in Derive(blocks, world) <=>
             \/ x \in world
             \/ \E b \in 1 .. Len(blocks), w \in world : Fires(x, blocks, w, b)
  <1> DEFINE On(b, w) == {r \in blocks[b].rules : w.f = r.body /\ w.from \subseteq Trusted(b)}
             New(b, w) == {[f |-> r.head, from |-> w.from \cup {b}] : r \in On(b, w)}
  <1>1. \A b, w : x \in New(b, w) <=> Fires(x, blocks, w, b)
    BY Zenon DEF Fires
  <1>2. Derive(blocks, world) =
          world \cup UNION {New(b, w) : b \in 1 .. Len(blocks), w \in world}
    BY DEF Derive
  <1> HIDE DEF New
  <1>3. x \in UNION {New(b, w) : b \in 1 .. Len(blocks), w \in world}
          <=> \E b \in 1 .. Len(blocks), w \in world : x \in New(b, w)
    <2> DEFINE Sets == {New(b, w) : b \in 1 .. Len(blocks), w \in world}
    <2>1. \A Y : Y \in Sets <=> \E b \in 1 .. Len(blocks), w \in world : Y = New(b, w)
      OBVIOUS
    <2> HIDE DEF Sets
    <2>2. x \in UNION Sets <=> \E Y \in Sets : x \in Y
      OBVIOUS
    <2>3. (\E Y \in Sets : x \in Y)
             <=> \E b \in 1 .. Len(blocks), w \in world : x \in New(b, w)
      BY <2>1
    <2> QED BY <2>2, <2>3 DEF Sets
  <1> QED BY <1>1, <1>2, <1>3

\* What a step of the rules, or the start, gives to a prefix of the blocks is
\* what it gives to all of them, of the facts that stem from the prefix.
LEMMA PrefixStep ==
    ASSUME NEW blocks, NEW pre, Len(blocks) \in Nat, NEW p \in 1 .. Len(blocks),
           Len(pre) = p, \A b \in 1 .. p : pre[b] = blocks[b]
    PROVE  /\ \A ambient : Start(pre, ambient) = Upto(Start(blocks, ambient), p)
           /\ \A world : Derive(pre, Upto(world, p)) = Upto(Derive(blocks, world), p)
  <1>1. ASSUME NEW ambient
        PROVE  Start(pre, ambient) = Upto(Start(blocks, ambient), p)
    <2>1. ASSUME NEW w \in Start(pre, ambient)
          PROVE  w \in Start(blocks, ambient) /\ w.from \subseteq 0 .. p
      BY DEF Start
    <2>2. ASSUME NEW w \in Start(blocks, ambient), w.from \subseteq 0 .. p
          PROVE  w \in Start(pre, ambient)
      BY <2>2 DEF Start
    <2> QED BY <2>1, <2>2 DEF Upto
  <1>2. ASSUME NEW world
        PROVE  Derive(pre, Upto(world, p)) = Upto(Derive(blocks, world), p)
    <2>1. \A x : x \in Derive(blocks, world) <=>
             \/ x \in world
             \/ \E b \in 1 .. Len(blocks), w \in world : Fires(x, blocks, w, b)
      BY DeriveMember
    <2>2. \A x : x \in Derive(pre, Upto(world, p)) <=>
             \/ x \in Upto(world, p)
             \/ \E b \in 1 .. p, w \in Upto(world, p) : Fires(x, pre, w, b)
      BY DeriveMember
    <2>3. ASSUME NEW x, NEW b \in 1 .. p, NEW w \in Upto(world, p), Fires(x, pre, w, b)
          PROVE  x \in Upto(Derive(blocks, world), p)
      <3>1. w \in world /\ b \in 1 .. Len(blocks) /\ Fires(x, blocks, w, b)
        <4>1. w \in world /\ b \in 1 .. Len(blocks) /\ pre[b] = blocks[b]
          BY DEF Upto
        <4>2. Fires(x, pre, w, b) <=> Fires(x, blocks, w, b)
          BY <4>1, Zenon DEF Fires
        <4> QED BY <2>3, <4>1, <4>2
      <3>2. x \in Derive(blocks, world)
        BY <2>1, <3>1
      <3>3. x.from = w.from \cup {b} /\ w.from \subseteq 0 .. p
        BY <2>3 DEF Upto, Fires
      <3>4. x.from \subseteq 0 .. p
        BY <3>3
      <3> QED BY <3>2, <3>4 DEF Upto
    <2>4. ASSUME NEW x, NEW b \in 1 .. Len(blocks), NEW w \in world,
                 Fires(x, blocks, w, b), x.from \subseteq 0 .. p
          PROVE  x \in Derive(pre, Upto(world, p))
      <3>1. x.from = w.from \cup {b}
        BY <2>4 DEF Fires
      <3>2. b \in 1 .. p /\ w \in Upto(world, p)
        BY <2>4, <3>1 DEF Upto
      <3>3. Fires(x, pre, w, b)
        BY <2>4, <3>2 DEF Fires
      <3> QED BY <2>2, <3>2, <3>3
    <2>5. \A x : x \in Upto(world, p) => x \in Upto(Derive(blocks, world), p)
      BY <2>1 DEF Upto
    <2>6. \A x : x \in Derive(pre, Upto(world, p)) => x \in Upto(Derive(blocks, world), p)
      BY <2>2, <2>3, <2>5
    <2>7. ASSUME NEW x \in Upto(Derive(blocks, world), p)
          PROVE  x \in Derive(pre, Upto(world, p))
      <3>1. x \in Derive(blocks, world) /\ x.from \subseteq 0 .. p
        BY DEF Upto
      <3>2. CASE x \in world
        BY <2>2, <3>1, <3>2 DEF Upto
      <3>3. CASE \E b \in 1 .. Len(blocks), w \in world : Fires(x, blocks, w, b)
        BY <2>4, <3>1, <3>3
      <3> QED BY <2>1, <3>1, <3>2, <3>3
    <2> QED BY <2>6, <2>7
  <1> QED BY <1>1, <1>2

\* So the worlds, after any number of rounds, agree on the prefix.
LEMMA PrefixWorld ==
    ASSUME NEW blocks, NEW pre, Len(blocks) \in Nat, NEW p \in 1 .. Len(blocks),
           Len(pre) = p, \A b \in 1 .. p : pre[b] = blocks[b], NEW ambient
    PROVE  World(pre, ambient) = Upto(World(blocks, ambient), p)
  <1> DEFINE full == Rounds(blocks, ambient)
             part == Rounds(pre, ambient)
             S == {n \in 0 .. MaxRounds - 1 : part[n] = Upto(full[n], p)}
  <1>0. MaxRounds - 1 \in Nat
    BY CapabilityAssumption
  <1>1. /\ full[0] = Start(blocks, ambient)
        /\ \A n \in 1 .. MaxRounds - 1 : full[n] = Derive(blocks, full[n - 1])
    BY RoundsOf
  <1>2. /\ part[0] = Start(pre, ambient)
        /\ \A n \in 1 .. MaxRounds - 1 : part[n] = Derive(pre, part[n - 1])
    BY RoundsOf
  <1> HIDE DEF full, part
  <1>3. 0 \in S
    BY <1>0, <1>1, <1>2, PrefixStep
  <1>4. ASSUME NEW n \in 1 .. MaxRounds - 1, n - 1 \in S PROVE n \in S
    <2>1. n \in 0 .. MaxRounds - 1 /\ part[n - 1] = Upto(full[n - 1], p)
      BY <1>0, <1>4
    <2>2. part[n] = Derive(pre, Upto(full[n - 1], p))
      BY <1>2, <2>1
    <2>3. part[n] = Upto(Derive(blocks, full[n - 1]), p)
      BY <2>2, PrefixStep
    <2> QED BY <1>1, <2>1, <2>3
  <1>5. 0 .. MaxRounds - 1 \subseteq S
    <2> HIDE DEF S
    <2> QED BY <1>0, <1>3, <1>4, NumberInduction
  <1>6. part[MaxRounds - 1] = Upto(full[MaxRounds - 1], p)
    BY <1>0, <1>5
  <1> QED BY <1>6 DEF World, full, part

-----------------------------------------------------------------------------
(* What a prefix authorizes, and who a holder is. *)

\* What holds of a prefix for one of its blocks is what holds of the whole.
LEMMA PrefixHolds ==
    ASSUME NEW world, NEW p \in Nat, NEW b \in 1 .. p, NEW f
    PROVE  Holds(Upto(world, p), f, b) <=> Holds(world, f, b)
  <1>1. Trusted(b) \subseteq 0 .. p
    BY DEF Trusted
  <1> QED BY <1>1 DEF Holds, Upto

\* authorize accepts for a prefix of a chain what it accepts for the chain.
LEMMA PrefixAuthorized ==
    ASSUME NEW tok, NEW pre, Len(tok.blocks) \in Nat, NEW p \in 1 .. Len(tok.blocks),
           pre.root = tok.root, Len(pre.blocks) = p,
           \A b \in 1 .. p : pre.blocks[b] = tok.blocks[b],
           NEW root, NEW h, NEW r, NEW o, authorize(tok, root, h, r, o)
    PROVE  authorize(pre, root, h, r, o)
  <1> DEFINE W(a) == World(tok.blocks, a)
             V(a) == World(pre.blocks, a)
             amb == Ambient(h)
  <1>1. \A a : V(a) = Upto(W(a), p)
    <2> SUFFICES ASSUME NEW a PROVE World(pre.blocks, a) = Upto(World(tok.blocks, a), p)
      OBVIOUS
    <2>1. PICK bs : bs = tok.blocks
      OBVIOUS
    <2>2. PICK qs : qs = pre.blocks
      OBVIOUS
    <2>3. /\ Len(bs) \in Nat /\ p \in 1 .. Len(bs) /\ Len(qs) = p
          /\ \A b \in 1 .. p : qs[b] = bs[b]
      BY <2>1, <2>2
    <2>4. World(qs, a) = Upto(World(bs, a), p)
      BY <2>3, PrefixWorld
    <2> QED BY <2>1, <2>2, <2>4
  <1>2. \A a : Settles(tok.blocks, W(a)) => Settles(pre.blocks, V(a))
    <2>1. \A x : Derive(pre.blocks, Upto(x, p)) = Upto(Derive(tok.blocks, x), p)
      BY PrefixStep
    <2> QED BY <1>1, <2>1 DEF Settles
  <1>3. /\ parse(tok, root) /\ Settles(tok.blocks, W(amb)) /\ ChecksPass(tok, W(amb))
        /\ Holds(W(amb), right(r, o), 1)
    BY DEF authorize
  <1> HIDE DEF W, V, amb
  <1>4. parse(pre, root)
    <2>1. /\ tok.root = root /\ Settles(tok.blocks, W({}))
          /\ \A w \in W({}) : w.f[1] # "holder"
          /\ \A b \in 1 .. Len(tok.blocks) : \A x \in tok.blocks[b].rules : x.head[1] # "holder"
      BY <1>3 DEF parse, reject_holder_facts, W
    <2>2. \A w \in V({}) : w.f[1] # "holder"
      BY <1>1, <2>1 DEF Upto
    <2>3. \A b \in 1 .. Len(pre.blocks) : \A x \in pre.blocks[b].rules : x.head[1] # "holder"
      BY <2>1
    <2>4. Settles(pre.blocks, V({}))
      BY <1>2, <2>1
    <2> QED BY <2>1, <2>2, <2>3, <2>4 DEF parse, reject_holder_facts, V
  <1>5. Settles(pre.blocks, V(amb))
    BY <1>2, <1>3
  <1>6. ChecksPass(pre, V(amb))
    <2>1. ASSUME NEW b \in 1 .. p, NEW c \in pre.blocks[b].checks
          PROVE  \E f \in c : Holds(V(amb), f, b)
      <3>1. PICK f \in c : Holds(W(amb), f, b)
        BY <1>3 DEF ChecksPass
      <3> QED BY <1>1, <3>1, PrefixHolds
    <2> QED BY <2>1 DEF ChecksPass
  <1>7. Holds(V(amb), right(r, o), 1)
    BY <1>1, <1>3, PrefixHolds
  <1> QED BY <1>4, <1>5, <1>6, <1>7 DEF authorize, V, amb

\* Once reject_holder_facts has passed a token, no round of the rules makes a
\* holder fact: the authorizer's is the only one.
LEMMA OnlyInjectedHolder ==
    ASSUME NEW tok, ~reject_holder_facts(tok), NEW ambient,
           NEW w \in World(tok.blocks, ambient), w.f[1] = "holder"
    PROVE  w.f \in ambient
  <1> DEFINE last == MaxRounds - 1
             bare == Rounds(tok.blocks, {})
             run == Rounds(tok.blocks, ambient)
  <1>0. last \in Nat
    BY CapabilityAssumption
  <1>1. /\ \A x \in World(tok.blocks, {}) : x.f[1] # "holder"
        /\ \A b \in 1 .. Len(tok.blocks) : \A r \in tok.blocks[b].rules : r.head[1] # "holder"
    BY DEF reject_holder_facts
  <1>2. /\ bare[0] = Start(tok.blocks, {})
        /\ \A n \in 1 .. last : bare[n] = Derive(tok.blocks, bare[n - 1])
    BY RoundsOf
  <1>3. /\ run[0] = Start(tok.blocks, ambient)
        /\ \A n \in 1 .. last : run[n] = Derive(tok.blocks, run[n - 1])
    BY RoundsOf
  <1>4. bare[last] = World(tok.blocks, {}) /\ run[last] = World(tok.blocks, ambient)
    BY DEF World
  <1> HIDE DEF bare, run, last
  <1>5. Start(tok.blocks, {}) \subseteq World(tok.blocks, {})
    <2> DEFINE S == {n \in 0 .. last : Start(tok.blocks, {}) \subseteq bare[n]}
    <2>1. 0 \in S
      BY <1>0, <1>2
    <2>2. ASSUME NEW n \in 1 .. last, n - 1 \in S PROVE n \in S
      <3>1. bare[n - 1] \subseteq bare[n]
        BY <1>2, DeriveMember
      <3> QED BY <1>0, <2>2, <3>1
    <2>3. 0 .. last \subseteq S
      <3> HIDE DEF S
      <3> QED BY <1>0, <2>1, <2>2, NumberInduction
    <2> QED BY <1>0, <1>4, <2>3
  <1>6. ASSUME NEW b \in 1 .. Len(tok.blocks), NEW f \in tok.blocks[b].facts
        PROVE  f[1] # "holder"
    <2> DEFINE Of(c) == {[f |-> g, from |-> {c}] : g \in tok.blocks[c].facts}
    <2>1. [f |-> f, from |-> {b}] \in Start(tok.blocks, {})
      <3>1. [f |-> f, from |-> {b}] \in Of(b)
        OBVIOUS
      <3>2. Of(b) \in {Of(c) : c \in 1 .. Len(tok.blocks)}
        BY Zenon
      <3>3. UNION {Of(c) : c \in 1 .. Len(tok.blocks)} \subseteq Start(tok.blocks, {})
        BY Zenon DEF Start
      <3> HIDE DEF Of
      <3> QED BY <3>1, <3>2, <3>3
    <2> QED BY <1>1, <1>5, <2>1
  <1> DEFINE T == {n \in 0 .. last : \A x \in run[n] : x.f[1] = "holder" => x.f \in ambient}
  <1>7. 0 \in T
    <2>1. ASSUME NEW x \in Start(tok.blocks, ambient)
          PROVE  x.f \in ambient \/ \E b \in 1 .. Len(tok.blocks) : x.f \in tok.blocks[b].facts
      BY DEF Start
    <2> QED BY <1>0, <1>3, <1>6, <2>1
  <1>8. ASSUME NEW n \in 1 .. last, n - 1 \in T PROVE n \in T
    <2>1. ASSUME NEW x \in run[n], x.f[1] = "holder" PROVE x.f \in ambient
      <3>1. \/ x \in run[n - 1]
            \/ \E b \in 1 .. Len(tok.blocks), y \in run[n - 1] : Fires(x, tok.blocks, y, b)
        BY <1>3, DeriveMember
      <3>2. ASSUME NEW b \in 1 .. Len(tok.blocks), NEW y, Fires(x, tok.blocks, y, b)
            PROVE  FALSE
        BY <1>1, <2>1, <3>2 DEF Fires
      <3>3. x \in run[n - 1]
        BY <3>1, <3>2
      <3> QED BY <1>8, <2>1, <3>3
    <2> QED BY <1>0, <2>1
  <1>9. 0 .. last \subseteq T
    <2> HIDE DEF T
    <2> QED BY <1>0, <1>7, <1>8, NumberInduction
  <1>10. last \in T
    BY <1>0, <1>9
  <1> QED BY <1>4, <1>10

-----------------------------------------------------------------------------
(* Tokens. *)

\* The blocks the operations make.
RightBlock(r, o) == [NoBlock EXCEPT !.facts = {right(r, o)}]
HolderBlock(fp) == [NoBlock EXCEPT !.checks = {{holder(fp)}}]
Block == AnyBlocks \cup {RightBlock(r, o) : r \in Resources, o \in Operations}
                   \cup {HolderBlock(fp) : fp \in Holders}

\* A token is a root and a chain of blocks.
TokenInv ==
    token # NoToken => /\ token = [root |-> token.root, blocks |-> token.blocks]
                       /\ token.blocks \in Seq(Block)

LEMMA TokenInvAlways == CapabilitySpec => []TokenInv
  <1>1. CapabilityInit => TokenInv
    BY DEF CapabilityInit, TokenInv
  <1>2. TokenInv /\ [CapabilityNext]_token => TokenInv'
    <2> SUFFICES ASSUME TokenInv, [CapabilityNext]_token PROVE TokenInv'
      OBVIOUS
    <2>1. ASSUME NEW root, NEW block \in Block, token' = [root |-> root, blocks |-> <<block>>]
          PROVE  TokenInv'
      BY <2>1 DEF TokenInv
    <2>2. ASSUME NEW block \in Block, AppendBlock(block) PROVE TokenInv'
      <3>1. token' = [token EXCEPT !.blocks = Append(token.blocks, block)]
        BY <2>2 DEF AppendBlock
      <3>2. /\ token = [root |-> token.root, blocks |-> token.blocks]
            /\ token.blocks \in Seq(Block)
        BY <2>2 DEF AppendBlock, TokenInv
      <3>3. token' = [root |-> token.root, blocks |-> Append(token.blocks, block)]
        BY <3>1, <3>2
      <3>4. Append(token.blocks, block) \in Seq(Block)
        BY <3>2
      <3> QED BY <3>3, <3>4 DEF TokenInv
    <2>3. ASSUME NEW root \in Roots, NEW r \in Resources, NEW o \in Operations,
                 mint_right(root, r, o)
          PROVE  TokenInv'
      <3>1. RightBlock(r, o) \in Block
        BY DEF Block
      <3> QED BY <2>1, <2>3, <3>1 DEF mint_right, RightBlock
    <2>4. ASSUME NEW root \in Roots, NEW block \in AnyBlocks, Mint(root, block)
          PROVE  TokenInv'
      BY <2>1, <2>4 DEF Mint, Block
    <2>5. ASSUME NEW block \in AnyBlocks, AppendBlock(block) PROVE TokenInv'
      BY <2>2, <2>5 DEF Block
    <2>6. ASSUME NEW fp \in Holders, append_holder_check(fp) PROVE TokenInv'
      <3>1. HolderBlock(fp) \in Block
        BY DEF Block
      <3> QED BY <2>2, <2>6, <3>1 DEF append_holder_check, HolderBlock
    <2>7. CASE UNCHANGED token
      BY <2>7 DEF TokenInv
    <2> QED BY <2>3, <2>4, <2>5, <2>6, <2>7 DEF CapabilityNext
  <1> QED BY <1>1, <1>2, PTL DEF CapabilitySpec

\* However many blocks of whatever Datalog are appended, a longer token
\* authorizes nothing its prefixes do not, and nothing under another root
\* (append, authorize, whose run of the rules is bounded).
THEOREM NarrowingAlways == CapabilitySpec => []Narrowing
  <1>1. TokenInv => Narrowing
    <2> SUFFICES ASSUME TokenInv, token # NoToken,
                        NEW h \in Holders \cup {NoHolder}, NEW r \in Resources,
                        NEW o \in Operations, Grants(token, h, r, o)
                 PROVE  /\ \A n \in 1 .. Len(token.blocks) - 1 :
                              Grants([token EXCEPT !.blocks = SubSeq(@, 1, n)], h, r, o)
                        /\ \A root \in Roots \ {token.root} : ~authorize(token, root, h, r, o)
      BY DEF Narrowing
    <2>1. /\ token = [root |-> token.root, blocks |-> token.blocks]
          /\ token.blocks \in Seq(Block) /\ Len(token.blocks) \in Nat
      BY DEF TokenInv
    <2>2. ASSUME NEW n \in 1 .. Len(token.blocks) - 1
          PROVE  Grants([token EXCEPT !.blocks = SubSeq(@, 1, n)], h, r, o)
      <3> DEFINE pre == [token EXCEPT !.blocks = SubSeq(@, 1, n)]
      <3>1. pre.root = token.root /\ pre.blocks = SubSeq(token.blocks, 1, n)
        BY <2>1
      <3>2. n \in 1 .. Len(token.blocks)
        BY <2>1
      <3>3. Len(pre.blocks) = n /\ \A b \in 1 .. n : pre.blocks[b] = token.blocks[b]
        BY <2>1, <3>1, <3>2
      <3>4. PICK root \in Roots : authorize(token, root, h, r, o)
        BY DEF Grants
      <3> HIDE DEF pre
      <3>5. authorize(pre, root, h, r, o)
        BY <2>1, <3>1, <3>2, <3>3, <3>4, PrefixAuthorized
      <3>6. Grants(pre, h, r, o)
        BY <3>5 DEF Grants
      <3> QED BY <3>6 DEF pre
    <2>3. \A root \in Roots \ {token.root} : ~authorize(token, root, h, r, o)
      BY DEF authorize, parse
    <2> QED BY <2>2, <2>3
  <1> QED BY <1>1, TokenInvAlways, PTL

\* Whatever facts and rules its blocks have, a token with a holder check
\* authorizes nobody but the holder that the verifier injects
\* (reject_holder_facts, authorize).
THEOREM HolderBoundAlways == CapabilitySpec => []HolderBound
  <1>1. HolderBound
    <2> SUFFICES ASSUME token # NoToken, NEW h \in Holders \cup {NoHolder},
                        NEW r \in Resources, NEW o \in Operations, Grants(token, h, r, o),
                        NEW b \in 1 .. Len(token.blocks), NEW fp \in Holders,
                        {holder(fp)} \in token.blocks[b].checks
                 PROVE  h = fp
      BY DEF HolderBound
    <2> DEFINE world == World(token.blocks, Ambient(h))
    <2>1. ~reject_holder_facts(token) /\ ChecksPass(token, world)
      BY DEF Grants, authorize, parse
    <2>2. PICK w \in world : w.f = holder(fp)
      BY <2>1 DEF ChecksPass, Holds
    <2>3. w.f[1] = "holder"
      BY <2>2 DEF holder
    <2>4. holder(fp) \in Ambient(h)
      BY <2>1, <2>2, <2>3, OnlyInjectedHolder
    <2>5. holder(fp) = holder(h)
      BY <2>4 DEF Ambient
    <2> QED BY <2>5 DEF holder
  <1> QED BY <1>1, PTL

-----------------------------------------------------------------------------
(* The group. *)

\* Division with remainder.
LEMMA DivMod ==
    ASSUME NEW n \in Nat, NEW m \in Nat \ {0}
    PROVE  /\ n % m \in 0 .. m - 1
           /\ n \div m \in Nat
           /\ n = m * (n \div m) + (n % m)
  OBVIOUS

LEMMA ModUnique ==
    ASSUME NEW m \in Nat \ {0}, NEW q \in Int, NEW r \in 0 .. m - 1, NEW n \in Nat,
           n = m * q + r
    PROVE  n % m = r
  <1> DEFINE d == n \div m
             x == n % m
  <1>1. x \in 0 .. m - 1 /\ d \in Nat /\ n = m * d + x
    BY DivMod
  <1> HIDE DEF d, x
  <1>2. m * (d - q) = r - x
    BY <1>1
  <1>3. CASE d - q >= 1
    <2>1. m * (d - q) >= m
      BY <1>1, <1>3
    <2> QED BY <1>1, <1>2, <2>1
  <1>4. CASE q - d >= 1
    <2>1. m * (q - d) >= m
      BY <1>1, <1>4
    <2>2. m * (q - d) = x - r
      BY <1>1, <1>2
    <2> QED BY <1>1, <2>1, <2>2
  <1>5. CASE d = q
    BY <1>1, <1>5 DEF x
  <1> QED BY <1>1, <1>3, <1>4, <1>5

\* U of a product does not depend on the sign of a factor.
LEMMA FoldSign ==
    ASSUME NEW s \in Nat, NEW e \in 1 .. Order - 1
    PROVE  U((s * U(e)) % Order) = U((s * e) % Order)
  <1>0. Order \in Nat \ {0}
    BY WrapAssumption
  <1>1. CASE U(e) = e
    BY <1>1
  <1>2. CASE U(e) = Order - e
    <2> DEFINE a == (s * e) % Order
               q == (s * e) \div Order
               n == s * (Order - e)
    <2>1. s * e \in Nat /\ n \in Nat
      BY <1>0
    <2>2. a \in 0 .. Order - 1 /\ q \in Nat /\ s * e = Order * q + a
      BY <1>0, <2>1, DivMod
    <2>3. n = Order * s - s * e
      BY <1>0
    <2> HIDE DEF a, q, n
    <2>4. CASE a = 0
      <3>1. n = Order * (s - q) + 0
        BY <1>0, <2>1, <2>2, <2>3, <2>4
      <3>2. n % Order = 0
        BY <1>0, <2>1, <2>2, <3>1, ModUnique
      <3> QED BY <1>2, <2>4, <3>2 DEF n, a
    <2>5. CASE a # 0
      <3>1. n = Order * (s - q - 1) + (Order - a)
        BY <1>0, <2>1, <2>2, <2>3
      <3>2. Order - a \in 0 .. Order - 1 /\ s - q - 1 \in Int
        BY <1>0, <2>2, <2>5
      <3>3. n % Order = Order - a
        <4>1. PICK r, t : r = Order - a /\ t = s - q - 1
          OBVIOUS
        <4>2. r \in 0 .. Order - 1 /\ t \in Int /\ n = Order * t + r
          BY <3>1, <3>2, <4>1
        <4>3. n % Order = r
          BY <1>0, <2>1, <4>2, ModUnique
        <4> QED BY <4>1, <4>3
      <3>4. U(Order - a) = U(a)
        BY <1>0, <2>2, <2>5 DEF U
      <3> QED BY <1>2, <3>3, <3>4 DEF n, a
    <2> QED BY <2>4, <2>5
  <1> QED BY <1>0, <1>1, <1>2 DEF U

-----------------------------------------------------------------------------
(* Wraps as they are made. *)

\* A wrap that seal_x25519 or seal_p256 returned.
Made(w) ==
    \E enc \in Publics, e \in 1 .. Order - 1 : \E plain, nonce, epoch :
        w = seal(enc, plain, e, nonce, epoch) /\ w.ciphertext.key # NoDek

WrapInv == \A w \in wraps : Made(w)

\* The two kinds of public key are told apart.
LEMMA Kinds ==
    /\ \A k \in XKeys : IsX(k)
    /\ \A n : ~IsX(PKey(n)) /\ PKey(n).point = n
    /\ \A u : IsX(XKey(u)) /\ XKey(u).u = u /\ (XKey(u) = XKey(0) => u = 0)
  BY DEF IsX, XKeys, PKey, XKey

\* What a wrap made for an X25519 recipient has in it.
LEMMA MadeX ==
    ASSUME NEW w, Made(w), w.alg = ALG_X25519
    PROVE  \E e \in 1 .. Order - 1 :
               /\ w.recipient \in XKeys /\ w.ephemeral = XKey(U(e))
               /\ w.ciphertext.nonce = w.nonce /\ w.ciphertext.key # NoDek
               /\ ~is_small_order(w.recipient)
               /\ Dh(e, w.recipient) # 0
               /\ w.ciphertext.key = <<Dh(e, w.recipient), w.ephemeral, w.recipient>>
  <1>1. PICK enc \in Publics, e \in 1 .. Order - 1 : \E plain, nonce, epoch :
            w = seal(enc, plain, e, nonce, epoch) /\ w.ciphertext.key # NoDek
    BY DEF Made
  <1>2. PICK plain, nonce, epoch :
            w = seal(enc, plain, e, nonce, epoch) /\ w.ciphertext.key # NoDek
    BY <1>1
  <1> DEFINE key == dh_kdf_x25519(e, enc.recipient, XKey(U(e)), enc.recipient)
  <1>3. enc.alg = w.alg
    BY <1>2 DEF seal
  <1>4. w = [alg |-> enc.alg, recipient |-> enc.recipient, ephemeral |-> XKey(U(e)),
             nonce |-> nonce, epoch |-> epoch,
             ciphertext |-> [key |-> key, nonce |-> nonce, plain |-> plain]]
    BY <1>2, <1>3, Zenon DEF seal
  <1> HIDE DEF key
  <1>5. /\ w.recipient = enc.recipient /\ w.ephemeral = XKey(U(e))
        /\ w.ciphertext.nonce = w.nonce /\ w.ciphertext.key = key /\ key # NoDek
    BY <1>2, <1>4
  <1>6. enc.recipient \in XKeys
    BY <1>3 DEF Publics, ALG_X25519, ALG_P256
  <1>7. /\ ~is_small_order(enc.recipient) /\ Dh(e, enc.recipient) # 0
        /\ key = <<Dh(e, enc.recipient), XKey(U(e)), enc.recipient>>
    BY <1>5, Zenon DEF key, dh_kdf_x25519, wrap_kdf
  <1> QED BY <1>5, <1>6, <1>7

\* The same for P-256.
LEMMA MadeP ==
    ASSUME NEW w, Made(w), w.alg # ALG_X25519
    PROVE  \E e \in 1 .. Order - 1 :
               /\ w.alg = ALG_P256
               /\ on_curve(w.recipient) /\ w.ephemeral = PKey(e)
               /\ w.ciphertext.nonce = w.nonce /\ w.ciphertext.key # NoDek
               /\ Dh(e, w.recipient) # 0
               /\ w.ciphertext.key = <<Dh(e, w.recipient), w.ephemeral, w.recipient>>
  <1>1. PICK enc \in Publics, e \in 1 .. Order - 1 : \E plain, nonce, epoch :
            w = seal(enc, plain, e, nonce, epoch) /\ w.ciphertext.key # NoDek
    BY DEF Made
  <1>2. PICK plain, nonce, epoch :
            w = seal(enc, plain, e, nonce, epoch) /\ w.ciphertext.key # NoDek
    BY <1>1
  <1> DEFINE key == dh_kdf_p256(e, enc.recipient, PKey(e), enc.recipient)
  <1>3. enc.alg = w.alg
    BY <1>2 DEF seal
  <1>4. w = [alg |-> enc.alg, recipient |-> enc.recipient, ephemeral |-> PKey(e),
             nonce |-> nonce, epoch |-> epoch,
             ciphertext |-> [key |-> key, nonce |-> nonce, plain |-> plain]]
    BY <1>2, <1>3, Zenon DEF seal
  <1> HIDE DEF key
  <1>5. /\ w.recipient = enc.recipient /\ w.ephemeral = PKey(e)
        /\ w.ciphertext.nonce = w.nonce /\ w.ciphertext.key = key /\ key # NoDek
    BY <1>2, <1>4
  <1>6. enc.alg = ALG_P256
    BY <1>3 DEF Publics
  <1>7. /\ on_curve(enc.recipient) /\ Dh(e, enc.recipient) # 0
        /\ key = <<Dh(e, enc.recipient), PKey(e), enc.recipient>>
    BY <1>5, Zenon DEF key, dh_kdf_p256, wrap_kdf
  <1> QED BY <1>3, <1>5, <1>6, <1>7

-----------------------------------------------------------------------------
(* Wraps as they are opened. *)

\* Opening a wrap under its own key gives its plaintext.
LEMMA OpenWith ==
    ASSUME NEW secret, NEW w, NEW key,
           (secret.kind = "p256") <=> (w.alg = ALG_P256),
           key = IF w.alg = ALG_X25519
                 THEN dh_kdf_x25519(secret.s, w.ephemeral, w.ephemeral, w.recipient)
                 ELSE dh_kdf_p256(secret.s, w.ephemeral, w.ephemeral, w.recipient),
           key # NoDek, key = w.ciphertext.key, w.nonce = w.ciphertext.nonce,
           w.ciphertext.plain # Short
    PROVE  open_with(secret, w) = w.ciphertext.plain
  BY Zenon DEF open_with, ed25519_seed_to_x25519

\* X25519 recipients, whether they hold X25519 or Ed25519 keys, open what was
\* sealed to them.
LEMMA RecipientOpensX ==
    ASSUME NEW w, Made(w), w.alg = ALG_X25519, NEW secret \in Secrets,
           encapsulation(secret) = [alg |-> w.alg, recipient |-> w.recipient],
           w.ciphertext.plain # Short
    PROVE  unwrap_key(secret, w) = w.ciphertext.plain
  <1> DEFINE s == secret.s
  <1>0. Order \in Nat \ {0} /\ s \in 1 .. Order - 1
        /\ secret.kind \in {"x25519", "ed25519", "p256"}
    BY WrapAssumption
  <1>1. PICK e \in 1 .. Order - 1 :
               /\ w.recipient \in XKeys /\ w.ephemeral = XKey(U(e))
               /\ w.ciphertext.nonce = w.nonce /\ w.ciphertext.key # NoDek
               /\ ~is_small_order(w.recipient)
               /\ Dh(e, w.recipient) # 0
               /\ w.ciphertext.key = <<Dh(e, w.recipient), w.ephemeral, w.recipient>>
    BY MadeX
  <1>2. secret.kind # "p256"
    <2>1. ASSUME secret.kind = "p256" PROVE encapsulation(secret).alg = ALG_P256
      BY <2>1 DEF encapsulation
    <2>2. encapsulation(secret).alg = ALG_X25519
      OBVIOUS
    <2> QED BY <2>1, <2>2 DEF ALG_X25519, ALG_P256
  <1>3. w.recipient = XKey(U(s))
    <2>1. encapsulation(secret) = [alg |-> ALG_X25519, recipient |-> XKey(U(s))]
      BY <1>0, <1>2 DEF encapsulation, ed25519_to_x25519
    <2> QED BY <2>1
  <1>4. U(e) # 0
    BY <1>0 DEF U
  <1>5. IsX(w.recipient) /\ IsX(w.ephemeral) /\ ~is_small_order(w.ephemeral)
    BY <1>1, <1>3, <1>4, Kinds DEF is_small_order, SMALL_ORDER
  <1>6. Dh(s, w.ephemeral) = Dh(e, w.recipient)
    <2>1. Dh(s, w.ephemeral) = U((s * U(e)) % Order)
      BY <1>1, Kinds DEF Dh
    <2>2. Dh(e, w.recipient) = U((e * U(s)) % Order)
      BY <1>3, Kinds DEF Dh
    <2>3. U((s * U(e)) % Order) = U((s * e) % Order)
      BY <1>0, FoldSign
    <2>4. U((e * U(s)) % Order) = U((e * s) % Order)
      BY <1>0, FoldSign
    <2>5. s * e = e * s
      BY <1>0
    <2> QED BY <2>1, <2>2, <2>3, <2>4, <2>5
  <1> DEFINE key == dh_kdf_x25519(s, w.ephemeral, w.ephemeral, w.recipient)
  <1>7. key = w.ciphertext.key
    BY <1>1, <1>5, <1>6, Zenon DEF dh_kdf_x25519, wrap_kdf
  <1>8. parse_wrap(w)
    BY <1>1, <1>5 DEF parse_wrap
  <1>9. encapsulation(secret).recipient = w.recipient
    OBVIOUS
  <1> HIDE DEF key
  <1>10. open_with(secret, w) = w.ciphertext.plain
    <2>1. (secret.kind = "p256") <=> (w.alg = ALG_P256)
      BY <1>2 DEF ALG_X25519, ALG_P256
    <2>2. key = IF w.alg = ALG_X25519
                THEN dh_kdf_x25519(secret.s, w.ephemeral, w.ephemeral, w.recipient)
                ELSE dh_kdf_p256(secret.s, w.ephemeral, w.ephemeral, w.recipient)
      BY DEF key
    <2>3. key # NoDek /\ w.nonce = w.ciphertext.nonce
      BY <1>1, <1>7
    <2> QED BY <1>7, <2>1, <2>2, <2>3, OpenWith
  <1> QED BY <1>8, <1>9, <1>10 DEF unwrap_key

\* So do P-256 recipients.
LEMMA RecipientOpensP ==
    ASSUME NEW w, Made(w), w.alg # ALG_X25519, NEW secret \in Secrets,
           encapsulation(secret) = [alg |-> w.alg, recipient |-> w.recipient],
           w.ciphertext.plain # Short
    PROVE  unwrap_key(secret, w) = w.ciphertext.plain
  <1> DEFINE s == secret.s
  <1>0. Order \in Nat \ {0} /\ s \in 1 .. Order - 1
        /\ secret.kind \in {"x25519", "ed25519", "p256"}
    BY WrapAssumption
  <1>1. PICK e \in 1 .. Order - 1 :
               /\ w.alg = ALG_P256
               /\ on_curve(w.recipient) /\ w.ephemeral = PKey(e)
               /\ w.ciphertext.nonce = w.nonce /\ w.ciphertext.key # NoDek
               /\ Dh(e, w.recipient) # 0
               /\ w.ciphertext.key = <<Dh(e, w.recipient), w.ephemeral, w.recipient>>
    BY MadeP
  <1>2. secret.kind = "p256"
    <2>1. ASSUME secret.kind # "p256" PROVE encapsulation(secret).alg = ALG_X25519
      BY <1>0, <2>1 DEF encapsulation
    <2>2. encapsulation(secret).alg = w.alg
      OBVIOUS
    <2> QED BY <2>1, <2>2
  <1>3. w.recipient = PKey(s)
    <2>1. encapsulation(secret) = [alg |-> ALG_P256, recipient |-> PKey(s)]
      BY <1>2 DEF encapsulation
    <2> QED BY <2>1
  <1>4. on_curve(w.ephemeral)
    BY <1>1, Kinds DEF on_curve
  <1>5. Dh(s, w.ephemeral) = Dh(e, w.recipient)
    <2>1. Dh(s, w.ephemeral) = U((s * e) % Order)
      BY <1>1, Kinds DEF Dh
    <2>2. Dh(e, w.recipient) = U((e * s) % Order)
      BY <1>3, Kinds DEF Dh
    <2>3. s * e = e * s
      BY <1>0
    <2> QED BY <2>1, <2>2, <2>3
  <1> DEFINE key == dh_kdf_p256(s, w.ephemeral, w.ephemeral, w.recipient)
  <1>6. key = w.ciphertext.key
    BY <1>1, <1>4, <1>5, Zenon DEF dh_kdf_p256, wrap_kdf
  <1>7. parse_wrap(w)
    BY <1>1, <1>4 DEF parse_wrap
  <1>8. encapsulation(secret).recipient = w.recipient
    OBVIOUS
  <1> HIDE DEF key
  <1>9. open_with(secret, w) = w.ciphertext.plain
    <2>1. key = IF w.alg = ALG_X25519
                THEN dh_kdf_x25519(secret.s, w.ephemeral, w.ephemeral, w.recipient)
                ELSE dh_kdf_p256(secret.s, w.ephemeral, w.ephemeral, w.recipient)
      BY DEF key
    <2>2. key # NoDek /\ w.nonce = w.ciphertext.nonce
      BY <1>1, <1>6
    <2> QED BY <1>1, <1>2, <1>6, <2>1, <2>2, OpenWith
  <1> QED BY <1>7, <1>8, <1>9 DEF unwrap_key

\* Whatever opens is a wrap that was made, its epoch aside.
LEMMA OpensOnlyMade ==
    ASSUME WrapInv, NEW a \in Arriving, NEW secret \in Secrets,
           unwrap_key(secret, a) # NoDek
    PROVE  \E w \in wraps : /\ [w EXCEPT !.epoch = a.epoch] = a
                            /\ encapsulation(secret).recipient = w.recipient
  <1>1. parse_wrap(a) /\ a.recipient = encapsulation(secret).recipient
        /\ open_with(secret, a) # NoDek
    BY DEF unwrap_key
  <1> DEFINE key == IF a.alg = ALG_X25519
                    THEN dh_kdf_x25519(secret.s, a.ephemeral, a.ephemeral, a.recipient)
                    ELSE dh_kdf_p256(secret.s, a.ephemeral, a.ephemeral, a.recipient)
  <1>2. key # NoDek /\ key = a.ciphertext.key /\ a.nonce = a.ciphertext.nonce
    BY <1>1, Zenon DEF open_with, ed25519_seed_to_x25519
  <1>3. key = <<Dh(secret.s, a.ephemeral), a.ephemeral, a.recipient>>
    BY <1>2, Zenon DEF dh_kdf_x25519, dh_kdf_p256, wrap_kdf
  <1> HIDE DEF key
  <1>4. PICK w \in wraps : a.ciphertext = w.ciphertext
    BY DEF Arriving
  <1>5. Made(w)
    BY DEF WrapInv
  <1>6. /\ w.ciphertext.nonce = w.nonce
        /\ \E d : w.ciphertext.key = <<d, w.ephemeral, w.recipient>>
        /\ IsX(w.recipient) <=> w.alg = ALG_X25519
        /\ w.alg \in {ALG_X25519, ALG_P256}
    <2>1. CASE w.alg = ALG_X25519
      BY <1>5, <2>1, MadeX, Kinds
    <2>2. CASE w.alg # ALG_X25519
      BY <1>5, <2>2, MadeP DEF on_curve
    <2> QED BY <2>1, <2>2
  <1>7. a.ephemeral = w.ephemeral /\ a.recipient = w.recipient /\ a.nonce = w.nonce
    <2>1. PICK d : w.ciphertext.key = <<d, w.ephemeral, w.recipient>>
      BY <1>6
    <2>2. <<Dh(secret.s, a.ephemeral), a.ephemeral, a.recipient>>
            = <<d, w.ephemeral, w.recipient>>
      BY <1>2, <1>3, <1>4, <2>1
    <2>3. a.nonce = w.nonce
      BY <1>2, <1>4, <1>6
    <2> QED BY <2>2, <2>3
  <1>8. a.alg = w.alg
    <2>1. a.alg \in {ALG_X25519, ALG_P256}
      BY DEF Arriving
    <2>2. IsX(a.recipient) <=> a.alg = ALG_X25519
      BY <1>1 DEF parse_wrap, on_curve
    <2> QED BY <1>6, <1>7, <2>1, <2>2
  <1>9. PICK enc \in Publics, e \in 1 .. Order - 1 : \E plain, nonce, epoch :
            w = seal(enc, plain, e, nonce, epoch)
    BY <1>5 DEF Made
  <1>10. w = [alg |-> w.alg, recipient |-> w.recipient, ephemeral |-> w.ephemeral,
              nonce |-> w.nonce, epoch |-> w.epoch, ciphertext |-> w.ciphertext]
    BY <1>9 DEF seal
  <1>11. a = [alg |-> a.alg, recipient |-> a.recipient, ephemeral |-> a.ephemeral,
              nonce |-> a.nonce, epoch |-> a.epoch, ciphertext |-> a.ciphertext]
    BY DEF Arriving
  <1>12. [w EXCEPT !.epoch = a.epoch] =
           [alg |-> w.alg, recipient |-> w.recipient, ephemeral |-> w.ephemeral,
            nonce |-> w.nonce, epoch |-> a.epoch, ciphertext |-> w.ciphertext]
    BY <1>10
  <1>13. [w EXCEPT !.epoch = a.epoch] = a
    BY <1>4, <1>7, <1>8, <1>11, <1>12
  <1> QED BY <1>1, <1>7, <1>13

LEMMA WrapInvAlways == WrapSpec => []WrapInv
  <1>1. WrapInit => WrapInv
    BY DEF WrapInit, WrapInv
  <1>2. WrapInv /\ [WrapNext]_wraps => WrapInv'
    <2> SUFFICES ASSUME WrapInv, [WrapNext]_wraps PROVE WrapInv'
      OBVIOUS
    <2>1. ASSUME NEW to \in Publics, NEW e \in 1 .. Order - 1, NEW plain, NEW epoch,
                 Seal(to, plain, e, epoch)
          PROVE  WrapInv'
      <3> DEFINE w == seal(to, plain, e, Cardinality(wraps), epoch)
      <3>1. w.ciphertext.key # NoDek /\ wraps' = wraps \cup {w}
        BY <2>1 DEF Seal
      <3> HIDE DEF w
      <3>2. Made(w)
        BY <3>1 DEF Made, w
      <3> QED BY <3>1, <3>2 DEF WrapInv
    <2>2. CASE UNCHANGED wraps
      BY <2>2 DEF WrapInv
    <2> QED BY <2>1, <2>2 DEF WrapNext, wrap_key, SealShort, rewrap_key
  <1> QED BY <1>1, <1>2, PTL DEF WrapSpec

\* A wrap opens for its recipient with the key that was sealed, and whatever
\* arrives opens only if it was made for that recipient, its epoch aside
\* (wrap_key, rewrap_key, unwrap_key): in every group order, prime or not.
THEOREM WrapSoundAlways == WrapSpec => []WrapSound
  <1>1. WrapInv => WrapSound
    BY RecipientOpensX, RecipientOpensP, OpensOnlyMade DEF WrapInv, WrapSound
  <1> QED BY <1>1, WrapInvAlways, PTL
=============================================================================
