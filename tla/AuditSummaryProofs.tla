------------------------- MODULE AuditSummaryProofs -------------------------
(***************************************************************************)
(* Proofs about AuditSummary, for any number of decisions, traces and      *)
(* outcomes.                                                               *)
(*                                                                         *)
(* The loops of the code are folds, the totals of the specification are    *)
(* sums over sets.  A fold is the solution of a recursive equation, so the *)
(* argument for each is the same: a closed form is written down, shown to  *)
(* solve the equation, and shown to be the only solution.                  *)
(***************************************************************************)
EXTENDS AuditSummary, FiniteSetTheorems, TLAPS

-----------------------------------------------------------------------------
(***************************************************************************)
(* Induction over a finite set, with a set of good subsets in the place of *)
(* a predicate.                                                            *)
(***************************************************************************)

(* A nonempty set of finite sets has an element that contains no other.    *)
LEMMA SmallestFinite ==
  ASSUME NEW S, NEW T, T \subseteq FiniteSubsetsOf(S), T # {}
  PROVE  \E X \in T : \A Y \in T : Y \subseteq X => Y = X
<1>1. PICK X \in T : \A Y \in T : ~(<<Y, X>> \in StrictSubsetOrdering(S))
  <2>1. IsWellFoundedOn(StrictSubsetOrdering(S), FiniteSubsetsOf(S))
    BY FS_StrictSubsetOrderingWellFounded
  <2>2. QED
    BY <2>1, WFMin
<1>2. QED
  BY <1>1 DEF StrictSubsetOrdering, FiniteSubsetsOf

(* If a subset is good whenever removing any one element leaves a good one,*)
(* all of the set is good.                                                 *)
LEMMA FiniteInduction ==
  ASSUME NEW S, IsFiniteSet(S), NEW G,
         \A T \in SUBSET S : (\A x \in T : T \ {x} \in G) => T \in G
  PROVE  S \in G
<1>1. SUFFICES ASSUME S \notin G PROVE FALSE
  OBVIOUS
<1> DEFINE Bad == {T \in SUBSET S : T \notin G}
<1>2. Bad \subseteq FiniteSubsetsOf(S) /\ Bad # {}
  BY <1>1, FS_FiniteSubsetsOfFinite
<1>3. PICK X \in Bad : \A Y \in Bad : Y \subseteq X => Y = X
  <2> HIDE DEF Bad
  <2>1. QED
    BY <1>2, SmallestFinite
<1>4. \A x \in X : X \ {x} \in G
  BY <1>3
<1>5. QED
  BY <1>3, <1>4

-----------------------------------------------------------------------------
(***************************************************************************)
(* Sums.  The sum of f over S is the number of its units, f[x] of them for *)
(* each x; so what holds of sums follows from what holds of cardinalities. *)
(***************************************************************************)

Units(f, S) == UNION {{x} \X (1 .. f[x]) : x \in S}

(* One element contributes as many units as its value says.                *)
LEMMA UnitsOfElement ==
  ASSUME NEW x, NEW n \in Nat
  PROVE  /\ IsFiniteSet({x} \X (1 .. n))
         /\ Cardinality({x} \X (1 .. n)) = n
<1>1. /\ IsFiniteSet(1 .. n)
      /\ Cardinality(1 .. n) = n
  BY FS_Interval, 1 \in Int, n \in Int
<1>2. IsFiniteSet({x}) /\ Cardinality({x}) = 1
  BY FS_Singleton
<1>3. /\ IsFiniteSet({x} \X (1 .. n))
      /\ Cardinality({x} \X (1 .. n)) = Cardinality({x}) * Cardinality(1 .. n)
  BY <1>1, <1>2, FS_Product
<1>4. QED
  BY <1>1, <1>2, <1>3

(* Removing an element removes its units.                                  *)
LEMMA UnitsRemove ==
  ASSUME NEW S, NEW f, NEW x \in S, f[x] \in Nat,
         IsFiniteSet(Units(f, S \ {x}))
  PROVE  /\ IsFiniteSet(Units(f, S))
         /\ Cardinality(Units(f, S)) = f[x] + Cardinality(Units(f, S \ {x}))
<1> DEFINE A == {x} \X (1 .. f[x])
           B == Units(f, S \ {x})
<1>1. Units(f, S) = A \cup B
  BY DEF Units
<1>2. A \cap B = {}
  BY DEF Units
<1>3. /\ IsFiniteSet(A) /\ Cardinality(A) = f[x]
  BY UnitsOfElement
<1>4. Cardinality(B) \in Nat
  BY FS_CardinalityType
<1> HIDE DEF A, B
<1>5. /\ IsFiniteSet(A \cup B)
      /\ Cardinality(A \cup B) = Cardinality(A) + Cardinality(B) - Cardinality(A \cap B)
  BY <1>3, FS_Union DEF B
<1>6. Cardinality(A \cap B) = 0
  BY <1>2, FS_EmptySet
<1>7. Cardinality(A \cup B) = f[x] + Cardinality(B)
  BY <1>3, <1>4, <1>5, <1>6
<1>8. QED
  BY <1>1, <1>5, <1>7 DEF B

(* A finite set has finitely many units.                                   *)
LEMMA UnitsFinite ==
  ASSUME NEW S, IsFiniteSet(S), NEW f, \A x \in S : f[x] \in Nat
  PROVE  IsFiniteSet(Units(f, S))
<1> DEFINE G == {T \in SUBSET S : IsFiniteSet(Units(f, T))}
<1>1. ASSUME NEW T \in SUBSET S, \A x \in T : T \ {x} \in G
      PROVE  T \in G
  <2>1. CASE T = {}
    <3>1. Units(f, T) = {}
      BY <2>1 DEF Units
    <3>2. QED
      BY <3>1, FS_EmptySet
  <2>2. CASE T # {}
    <3>1. PICK x \in T : TRUE
      BY <2>2
    <3>2. IsFiniteSet(Units(f, T \ {x}))
      BY <1>1
    <3>3. QED
      BY <3>2, UnitsRemove
  <2>3. QED
    BY <2>1, <2>2
<1>2. S \in G
  <2> HIDE DEF G
  <2>1. QED
    BY <1>1, FiniteInduction
<1>3. QED
  BY <1>2

(* The sum of the library is the number of units.                          *)
LEMMA SumIsUnits ==
  ASSUME NEW S, IsFiniteSet(S), NEW f, \A x \in S : f[x] \in Nat
  PROVE  SumFunctionOnSet(f, S) = Cardinality(Units(f, S))
<1> DEFINE Pick(T) == CHOOSE x \in T : TRUE
           u == [T \in SUBSET S |-> Cardinality(Units(f, T))]
           Solves(g) == g = [T \in SUBSET S |->
                               IF T = {} THEN 0 ELSE f[Pick(T)] + g[T \ {Pick(T)}]]
           g == CHOOSE h : Solves(h)
<1>1. SumFunctionOnSet(f, S) = g[S]
  BY DEF SumFunctionOnSet, FoldFunctionOnSet, MapThenFoldSet
<1>2. ASSUME NEW T \in SUBSET S, T # {}
      PROVE  u[T] = f[Pick(T)] + u[T \ {Pick(T)}]
  <2>1. Pick(T) \in T
    BY <1>2
  <2> HIDE DEF Pick
  <2>2. IsFiniteSet(T \ {Pick(T)})
    BY FS_Subset, T \ {Pick(T)} \in SUBSET S
  <2>3. IsFiniteSet(Units(f, T \ {Pick(T)}))
    BY <2>1, <2>2, UnitsFinite
  <2>4. QED
    BY <2>1, <2>3, UnitsRemove
<1>3. u[{}] = 0
  <2>1. Units(f, {}) = {}
    BY DEF Units
  <2>2. QED
    BY <2>1, FS_EmptySet
<1>4. Solves(u)
  <2>1. u = [T \in SUBSET S |-> u[T]]
    OBVIOUS
  <2> HIDE DEF u, Pick
  <2>2. QED
    BY <1>2, <1>3, <2>1
<1>5. Solves(g)
  BY <1>4
<1> HIDE DEF u, g
<1> DEFINE G == {T \in SUBSET S : g[T] = u[T]}
<1>6. ASSUME NEW T \in SUBSET S, \A x \in T : T \ {x} \in G
      PROVE  T \in G
  <2>1. g[T] = IF T = {} THEN 0 ELSE f[Pick(T)] + g[T \ {Pick(T)}]
    BY <1>5
  <2>2. CASE T = {}
    BY <2>1, <2>2, <1>3
  <2>3. CASE T # {}
    <3>1. Pick(T) \in T
      BY <2>3
    <3> HIDE DEF Pick
    <3>2. g[T \ {Pick(T)}] = u[T \ {Pick(T)}]
      BY <3>1, <1>6
    <3>3. QED
      BY <2>1, <2>3, <3>2, <1>2
  <2>4. QED
    BY <2>2, <2>3
<1>7. S \in G
  <2> HIDE DEF G
  <2>1. QED
    BY <1>6, FiniteInduction
<1>8. QED
  BY <1>1, <1>7 DEF u

(* A sum of natural numbers is one.                                        *)
LEMMA SumType ==
  ASSUME NEW S, IsFiniteSet(S), NEW f, \A x \in S : f[x] \in Nat
  PROVE  SumFunctionOnSet(f, S) \in Nat
BY SumIsUnits, UnitsFinite, FS_CardinalityType

(* The sum depends on the values over the set, and there only on those that*)
(* are not 0.                                                              *)
LEMMA SumSame ==
  ASSUME NEW S, IsFiniteSet(S), NEW T, IsFiniteSet(T), NEW f, NEW g,
         \A x \in S : f[x] \in Nat,
         \A x \in T : g[x] \in Nat,
         \A x \in S \cap T : f[x] = g[x],
         \A x \in S \ T : f[x] = 0,
         \A x \in T \ S : g[x] = 0
  PROVE  SumFunctionOnSet(f, S) = SumFunctionOnSet(g, T)
<1>1. ASSUME NEW u \in Units(f, S)
      PROVE  u \in Units(g, T)
  <2>1. PICK x \in S : u \in {x} \X (1 .. f[x])
    BY DEF Units
  <2>2. 1 .. 0 = {}
    OBVIOUS
  <2>3. x \in T
    BY <2>1, <2>2
  <2>4. QED
    BY <2>1, <2>3 DEF Units
<1>2. ASSUME NEW u \in Units(g, T)
      PROVE  u \in Units(f, S)
  <2>1. PICK x \in T : u \in {x} \X (1 .. g[x])
    BY DEF Units
  <2>2. 1 .. 0 = {}
    OBVIOUS
  <2>3. x \in S
    BY <2>1, <2>2
  <2>4. QED
    BY <2>1, <2>3 DEF Units
<1>3. Units(f, S) = Units(g, T)
  BY <1>1, <1>2
<1>4. QED
  BY <1>3, SumIsUnits

(* Nothing sums to 0.                                                      *)
LEMMA SumEmpty ==
  ASSUME NEW f
  PROVE  SumFunctionOnSet(f, {}) = 0
<1>1. SumFunctionOnSet(f, {}) = Cardinality(Units(f, {}))
  BY SumIsUnits, FS_EmptySet
<1>2. Units(f, {}) = {}
  BY DEF Units
<1>3. QED
  BY <1>1, <1>2, FS_EmptySet

(* One summand can be taken out of a sum.                                  *)
LEMMA SumRemove ==
  ASSUME NEW S, IsFiniteSet(S), NEW f, \A x \in S : f[x] \in Nat, NEW x \in S
  PROVE  SumFunctionOnSet(f, S) = f[x] + SumFunctionOnSet(f, S \ {x})
<1>1. IsFiniteSet(S \ {x})
  BY FS_Subset, S \ {x} \in SUBSET S
<1>2. IsFiniteSet(Units(f, S \ {x}))
  BY <1>1, UnitsFinite
<1>3. SumFunctionOnSet(f, S \ {x}) = Cardinality(Units(f, S \ {x}))
  BY <1>1, SumIsUnits
<1>4. SumFunctionOnSet(f, S) = Cardinality(Units(f, S))
  BY SumIsUnits
<1>5. QED
  BY <1>2, <1>3, <1>4, UnitsRemove

(* A value that grows makes the sum grow by as much.                       *)
LEMMA SumUpdate ==
  ASSUME NEW S, IsFiniteSet(S), NEW f, NEW g, NEW x \in S, NEW c \in Nat,
         \A y \in S : f[y] \in Nat,
         g[x] = f[x] + c,
         \A y \in S \ {x} : g[y] = f[y]
  PROVE  SumFunctionOnSet(g, S) = SumFunctionOnSet(f, S) + c
<1>1. \A y \in S : g[y] \in Nat
  <2>1. g[x] \in Nat
    BY f[x] \in Nat
  <2>2. QED
    BY <2>1
<1>2. IsFiniteSet(S \ {x})
  BY FS_Subset, S \ {x} \in SUBSET S
<1>3. SumFunctionOnSet(g, S) = g[x] + SumFunctionOnSet(g, S \ {x})
  BY <1>1, SumRemove
<1>4. SumFunctionOnSet(f, S) = f[x] + SumFunctionOnSet(f, S \ {x})
  BY SumRemove
<1>5. SumFunctionOnSet(g, S \ {x}) = SumFunctionOnSet(f, S \ {x})
  BY <1>1, <1>2, SumSame
<1>6. SumFunctionOnSet(f, S \ {x}) \in Nat
  BY <1>2, SumType
<1>7. QED
  BY <1>3, <1>4, <1>5, <1>6, f[x] \in Nat

(* Zeros sum to 0.                                                         *)
LEMMA SumZeros ==
  ASSUME NEW S, IsFiniteSet(S), NEW f, \A x \in S : f[x] = 0
  PROVE  SumFunctionOnSet(f, S) = 0
BY SumSame, SumEmpty, FS_EmptySet, 0 \in Nat

(* Ones sum to their number.                                               *)
LEMMA SumOnes ==
  ASSUME NEW S, IsFiniteSet(S), NEW f, \A x \in S : f[x] = 1
  PROVE  SumFunctionOnSet(f, S) = Cardinality(S)
<1> DEFINE G == {T \in SUBSET S : SumFunctionOnSet(f, T) = Cardinality(T)}
<1>1. ASSUME NEW T \in SUBSET S, \A x \in T : T \ {x} \in G
      PROVE  T \in G
  <2>1. CASE T = {}
    BY <2>1, SumEmpty, FS_EmptySet
  <2>2. CASE T # {}
    <3>1. PICK x \in T : TRUE
      BY <2>2
    <3>2. IsFiniteSet(T)
      BY FS_Subset
    <3>3. SumFunctionOnSet(f, T) = f[x] + SumFunctionOnSet(f, T \ {x})
      BY <3>2, SumRemove, 1 \in Nat
    <3>4. Cardinality(T \ {x}) = Cardinality(T) - 1
      BY <3>2, FS_RemoveElement
    <3>5. Cardinality(T) \in Nat
      BY <3>2, FS_CardinalityType
    <3>6. SumFunctionOnSet(f, T \ {x}) = Cardinality(T \ {x})
      BY <1>1
    <3>7. f[x] = 1
      OBVIOUS
    <3>8. QED
      BY <3>3, <3>4, <3>5, <3>6, <3>7
  <2>3. QED
    BY <2>1, <2>2
<1>2. S \in G
  <2> HIDE DEF G
  <2>1. QED
    BY <1>1, FiniteInduction
<1>3. QED
  BY <1>2

(* Of disjoint sets.                                                       *)
LEMMA SumUnion ==
  ASSUME NEW S, IsFiniteSet(S), NEW T, IsFiniteSet(T), S \cap T = {}, NEW f,
         \A x \in S \cup T : f[x] \in Nat
  PROVE  SumFunctionOnSet(f, S \cup T)
           = SumFunctionOnSet(f, S) + SumFunctionOnSet(f, T)
<1>1. IsFiniteSet(S \cup T)
  BY FS_Union
<1>2. Units(f, S \cup T) = Units(f, S) \cup Units(f, T)
  BY DEF Units
<1>3. Units(f, S) \cap Units(f, T) = {}
  BY DEF Units
<1>4. IsFiniteSet(Units(f, S)) /\ IsFiniteSet(Units(f, T))
  BY UnitsFinite
<1>5. /\ SumFunctionOnSet(f, S) = Cardinality(Units(f, S))
      /\ SumFunctionOnSet(f, T) = Cardinality(Units(f, T))
      /\ SumFunctionOnSet(f, S \cup T) = Cardinality(Units(f, S \cup T))
  BY <1>1, SumIsUnits
<1>6. Cardinality(Units(f, S) \cup Units(f, T))
        = Cardinality(Units(f, S)) + Cardinality(Units(f, T))
            - Cardinality(Units(f, S) \cap Units(f, T))
  BY <1>4, FS_Union
<1>7. /\ Cardinality(Units(f, S)) \in Nat
      /\ Cardinality(Units(f, T)) \in Nat
  BY <1>4, FS_CardinalityType
<1>8. Cardinality(Units(f, S) \cap Units(f, T)) = 0
  BY <1>3, FS_EmptySet
<1>9. Cardinality(Units(f, S) \cup Units(f, T))
        = Cardinality(Units(f, S)) + Cardinality(Units(f, T))
  BY <1>6, <1>7, <1>8
<1>10. QED
  BY <1>2, <1>5, <1>9

-----------------------------------------------------------------------------
(***************************************************************************)
(* Types.  The records of decisions are finitely many, though their IDs    *)
(* need not be; and whatever names a decision names a recorded one.        *)
(***************************************************************************)

Named ==
  \A i \in DOMAIN outcomes :
    outcomes[i].decision # None => outcomes[i].decision \in Recorded

LedgerInv == TypeOK /\ Named /\ IsFiniteSet(Recorded)

(* What an answer does to a record keeps its type.                         *)
LEMMA ChargedType ==
  ASSUME NEW r \in DecisionType, NEW model \in Models, NEW cost \in Nat,
         NEW incumbent \in Nat
  PROVE  /\ [r EXCEPT !.final = model, !.actual = cost,
                       !.incumbentCost = incumbent] \in DecisionType
         /\ [r EXCEPT !.final = model, !.actual = cost] \in DecisionType
BY DEF DecisionType

(* One record is written, of a decision, and none is unwritten.            *)
LEMMA RecordStep ==
  ASSUME TypeOK, Named, IsFiniteSet(Recorded), NEW d \in Ids,
         NEW r \in DecisionType,
         decisions' = [decisions EXCEPT ![d] = r], UNCHANGED outcomes
  PROVE  LedgerInv'
<1>1. r # None
  BY SummaryAssumption
<1>2. TypeOK'
  BY DEF TypeOK
<1>3. Recorded' = Recorded \cup {d}
  BY <1>1 DEF Recorded, TypeOK
<1>4. IsFiniteSet(Recorded')
  BY <1>3, FS_AddElement
<1>5. Named'
  BY <1>3 DEF Named
<1>6. QED
  BY <1>2, <1>4, <1>5 DEF LedgerInv

(* The three actions that write a record write one of its type.            *)
LEMMA DecideStep ==
  ASSUME LedgerInv, NEW d \in Ids, Decide(d) \/ Complete(d) \/ Shadow(d)
  PROVE  LedgerInv'
<1>1. TypeOK /\ Named /\ IsFiniteSet(Recorded)
  BY DEF LedgerInv
<1>2. CASE Decide(d)
  <2>1. PICK c \in Contents : decisions' = [decisions EXCEPT ![d] = c]
    BY <1>2 DEF Decide
  <2>2. c \in DecisionType
    BY SummaryAssumption
  <2>3. QED
    BY <1>1, <1>2, <2>1, <2>2, RecordStep DEF Decide
<1>3. CASE Complete(d)
  <2>0. PICK m \in Models : \E r \in Charged(decisions[d], m) :
          decisions' = [decisions EXCEPT ![d] = r]
    BY <1>3 DEF Complete
  <2>1. PICK r \in Charged(decisions[d], m) :
          decisions' = [decisions EXCEPT ![d] = r]
    BY <2>0
  <2>2. decisions[d] \in DecisionType
    BY <1>1, <1>3 DEF Complete, TypeOK
  <2>3. r \in DecisionType
    <3>1. CASE \E u \in Usages :
                 r = [decisions[d] EXCEPT !.final = m, !.actual = u.cost,
                                          !.incumbentCost = u.incumbent]
      <4>1. \A u \in Usages : u.cost \in Nat /\ u.incumbent \in Nat
        BY SummaryAssumption
      <4>2. PICK u \in Usages :
              r = [decisions[d] EXCEPT !.final = m, !.actual = u.cost,
                                       !.incumbentCost = u.incumbent]
        BY <3>1
      <4>3. m \in Models /\ u.cost \in Nat /\ u.incumbent \in Nat
        BY <4>1
      <4>4. QED
        BY <2>2, <4>2, <4>3, ChargedType
    <3>2. CASE \E cost \in {0, decisions[d].estimated} :
                 r = [decisions[d] EXCEPT !.final = m, !.actual = cost]
      <4>1. decisions[d].estimated \in Nat
        BY <2>2 DEF DecisionType
      <4>2. QED
        <5>1. PICK cost \in {0, decisions[d].estimated} :
                r = [decisions[d] EXCEPT !.final = m, !.actual = cost]
          BY <3>2
        <5>2. cost \in Nat
          BY <4>1
        <5>3. QED
          BY <2>2, <5>1, <5>2, ChargedType
    <3>3. QED
      BY <2>1, <3>1, <3>2 DEF Charged
  <2>4. QED
    BY <1>1, <1>3, <2>1, <2>3, RecordStep DEF Complete
<1>4. CASE Shadow(d)
  <2>0. PICK c \in Contents : \E r \in ShadowCharged(c) :
          decisions' = [decisions EXCEPT ![d] = r]
    BY <1>4 DEF Shadow
  <2>1. PICK r \in ShadowCharged(c) :
          decisions' = [decisions EXCEPT ![d] = r]
    BY <2>0
  <2>2. c \in DecisionType
    BY SummaryAssumption
  <2>3. r \in DecisionType
    <3>1. CASE r = c
      BY <2>2, <3>1
    <3>2. CASE \E cost \in {c.estimated} \cup {u.cost : u \in Usages} :
                 r = [c EXCEPT !.final = c.selected, !.actual = cost]
      <4>1. PICK cost \in {c.estimated} \cup {u.cost : u \in Usages} :
              r = [c EXCEPT !.final = c.selected, !.actual = cost]
        BY <3>2
      <4>2. c.estimated \in Nat /\ c.selected \in Models
        BY <2>2 DEF DecisionType
      <4>3. \A u \in Usages : u.cost \in Nat
        BY SummaryAssumption
      <4>4. cost \in Nat
        BY <4>1, <4>2, <4>3
      <4>5. QED
        BY <2>2, <4>1, <4>2, <4>4, ChargedType
    <3>3. QED
      BY <2>1, <3>1, <3>2 DEF ShadowCharged
  <2>4. QED
    BY <1>1, <1>4, <2>1, <2>3, RecordStep DEF Shadow
<1>5. QED
  BY <1>2, <1>3, <1>4

(* The handler refuses what names no decision or trace, and an unknown     *)
(* decision (server.go:214-229).                                           *)
LEMMA ReportStep ==
  ASSUME LedgerInv, Report
  PROVE  LedgerInv'
<1>1. PICK o \in Reports : /\ o.decision # None \/ o.trace # None
                           /\ o.decision # None => decisions[o.decision] # None
                           /\ outcomes' = Append(outcomes, o)
  BY DEF Report
<1>2. UNCHANGED decisions
  BY DEF Report
<1>3. o \in OutcomeType
  BY SummaryAssumption
<1> DEFINE Kept == {x \in OutcomeType : {x.decision, x.trace} # {None}}
<1>4. o \in Kept
  BY <1>1, <1>3
<1>5. outcomes \in Seq(Kept)
  BY DEF LedgerInv, TypeOK
<1>6. outcomes' \in Seq(Kept)
  <2> HIDE DEF Kept
  <2>1. QED
    BY <1>1, <1>4, <1>5
<1>7. TypeOK'
  BY <1>2, <1>6 DEF LedgerInv, TypeOK
<1>8. Recorded' = Recorded
  BY <1>2 DEF Recorded
<1>9. ASSUME NEW i \in DOMAIN outcomes', outcomes'[i].decision # None
      PROVE  outcomes'[i].decision \in Recorded
  <2> HIDE DEF Kept
  <2>1. CASE i \in DOMAIN outcomes
    <3>1. outcomes'[i] = outcomes[i]
      BY <1>1, <1>5, <2>1
    <3>2. QED
      BY <1>9, <2>1, <3>1 DEF LedgerInv, Named
  <2>2. CASE i \notin DOMAIN outcomes
    <3>1. outcomes'[i] = o
      BY <1>1, <1>4, <1>5, <1>9, <2>2
    <3>2. o.decision \in Ids
      BY <1>3, <1>9, <3>1 DEF OutcomeType
    <3>3. QED
      BY <1>1, <1>9, <3>1, <3>2 DEF Recorded
  <2>3. QED
    BY <2>1, <2>2
<1>10. Named'
  BY <1>8, <1>9 DEF Named
<1>11. QED
  BY <1>7, <1>8, <1>10 DEF LedgerInv

(* Types, names and finiteness are kept by every step.                     *)
LEMMA LedgerInvHolds == Spec => []LedgerInv
<1>1. Init => LedgerInv
  <2>1. SUFFICES ASSUME Init PROVE LedgerInv
    OBVIOUS
  <2>2. TypeOK
    BY <2>1 DEF Init, TypeOK
  <2>3. Recorded = {}
    BY <2>1 DEF Init, Recorded
  <2>4. Named
    BY <2>1 DEF Init, Named
  <2>5. QED
    BY <2>2, <2>3, <2>4, FS_EmptySet DEF LedgerInv
<1>2. LedgerInv /\ [Next]_vars => LedgerInv'
  <2>1. SUFFICES ASSUME LedgerInv, [Next]_vars PROVE LedgerInv'
    OBVIOUS
  <2>2. CASE UNCHANGED vars
    BY <2>1, <2>2 DEF vars, LedgerInv, TypeOK, Named, Recorded
  <2>3. CASE Next
    BY <2>1, <2>3, DecideStep, ReportStep DEF Next
  <2>4. QED
    BY <2>1, <2>2, <2>3
<1>3. QED
  BY <1>1, <1>2, PTL DEF Spec

(* server.go:202-240.  The ledger holds records and outcomes of their      *)
(* types, and no outcome that says neither what decision nor what trace it *)
(* is about.                                                               *)
THEOREM LedgerTypeCorrect == Spec => []TypeOK
<1>1. LedgerInv => TypeOK
  BY DEF LedgerInv
<1>2. QED
  BY <1>1, LedgerInvHolds, PTL

-----------------------------------------------------------------------------
(***************************************************************************)
(* The loop over the decisions (store.go:164-204).  What it computes of a  *)
(* set of decisions is a tally, in which no order appears.                 *)
(***************************************************************************)

(* A production decision that the summary is about.                        *)
Step(d) == InScope(d) /\ decisions[d].bucket # "shadow"

(* What each decision adds to each total.                                  *)
Request == [d \in Ids |-> One(Step(d))]
Control == [d \in Ids |-> One(Step(d) /\ decisions[d].bucket = "control")]
Routed == [d \in Ids |-> One(Step(d) /\ decisions[d].selected # decisions[d].incumbent)]
Shadowed == [d \in Ids |-> One(InScope(d) /\ decisions[d].bucket = "shadow")]
Cost == [d \in Ids |-> IF Step(d) THEN CostOf(decisions[d]) ELSE 0]
Baseline == [d \in Ids |-> IF Step(d) THEN decisions[d].incumbentCost ELSE 0]
InBucket(b) == [d \in Ids |-> One(InScope(d) /\ decisions[d].bucket = b)]
RequestOf(m) == [d \in Ids |-> One(Step(d) /\ ModelOf(decisions[d]) = m)]
CostIn(m) ==
  [d \in Ids |-> IF Step(d) /\ ModelOf(decisions[d]) = m
                 THEN CostOf(decisions[d]) ELSE 0]

Treats(d) == decisions[d].bucket \in {"treatment", "exploration"}
StepsOf(t, S) == {d \in S : Step(d) /\ decisions[d].trace = t}

ArmIn(t, S) == IF StepsOf(t, S) = {} THEN "none"
               ELSE IF \E d \in StepsOf(t, S) : Treats(d) THEN "treatment"
               ELSE "control"

Tally(S) ==
  [requests |-> SumFunctionOnSet(Request, S),
   control |-> SumFunctionOnSet(Control, S),
   routed |-> SumFunctionOnSet(Routed, S),
   shadow |-> SumFunctionOnSet(Shadowed, S),
   actual |-> SumFunctionOnSet(Cost, S),
   incumbent |-> SumFunctionOnSet(Baseline, S),
   byBucket |-> [b \in Buckets |-> SumFunctionOnSet(InBucket(b), S)],
   byModel |-> [m \in Models |-> [requests |-> SumFunctionOnSet(RequestOf(m), S),
                                  cost |-> SumFunctionOnSet(CostIn(m), S)]],
   arm |-> [t \in Traces |-> ArmIn(t, S)]]

(* What is recorded of a decision.                                         *)
LEMMA Recording ==
  ASSUME TypeOK, NEW d \in Recorded
  PROVE  /\ d \in Ids
         /\ decisions[d] \in DecisionType
         /\ decisions[d] # None
         /\ CostOf(decisions[d]) \in Nat
         /\ decisions[d].incumbentCost \in Nat
         /\ ModelOf(decisions[d]) \in Models
         /\ decisions[d].trace \in Traces
         /\ decisions[d].bucket \in Buckets
BY DEF TypeOK, Recorded, DecisionType, CostOf, ModelOf

(* What a decision adds to a total is a natural number.                    *)
LEMMA Weights ==
  ASSUME TypeOK
  PROVE  /\ Request \in [Ids -> Nat] /\ Control \in [Ids -> Nat]
         /\ Routed \in [Ids -> Nat] /\ Shadowed \in [Ids -> Nat]
         /\ Cost \in [Ids -> Nat] /\ Baseline \in [Ids -> Nat]
         /\ \A b : InBucket(b) \in [Ids -> Nat]
         /\ \A m : RequestOf(m) \in [Ids -> Nat] /\ CostIn(m) \in [Ids -> Nat]
<1>1. \A p \in BOOLEAN : One(p) \in Nat
  BY DEF One
<1>2. \A d \in Ids : Step(d) => d \in Recorded
  BY DEF Step, InScope, Recorded
<1>3. \A d \in Ids : Step(d) => /\ CostOf(decisions[d]) \in Nat
                                /\ decisions[d].incumbentCost \in Nat
  BY <1>2, Recording
<1>4. /\ Request \in [Ids -> Nat] /\ Control \in [Ids -> Nat]
      /\ Routed \in [Ids -> Nat] /\ Shadowed \in [Ids -> Nat]
  BY DEF One, Request, Control, Routed, Shadowed
<1>5. \A b : InBucket(b) \in [Ids -> Nat]
  BY DEF One, InBucket
<1>6. \A m : RequestOf(m) \in [Ids -> Nat]
  BY DEF One, RequestOf
<1>7. Cost \in [Ids -> Nat] /\ Baseline \in [Ids -> Nat]
  BY <1>3 DEF Cost, Baseline
<1>8. \A m : CostIn(m) \in [Ids -> Nat]
  BY <1>3 DEF CostIn
<1>9. QED
  BY <1>4, <1>5, <1>6, <1>7, <1>8

(* SumRemove and SumType, for such weights.                                *)
LEMMA WeighedRemove ==
  ASSUME NEW S, IsFiniteSet(S), S \subseteq Ids, NEW d \in S, NEW w \in [Ids -> Nat]
  PROVE  /\ SumFunctionOnSet(w, S) = w[d] + SumFunctionOnSet(w, S \ {d})
         /\ SumFunctionOnSet(w, S \ {d}) \in Nat
         /\ SumFunctionOnSet(w, S) \in Nat
<1>1. IsFiniteSet(S \ {d})
  BY FS_Subset, S \ {d} \in SUBSET S
<1>2. QED
  BY <1>1, SumRemove, SumType

(* Of no decision the tally is that of the summary before its loops.       *)
LEMMA TallyEmpty == Tally({}) = Zero
<1>1. \A w : SumFunctionOnSet(w, {}) = 0
  BY SumEmpty
<1>2. \A t : ArmIn(t, {}) = "none"
  BY DEF ArmIn, StepsOf
<1>3. QED
  BY <1>1, <1>2 DEF Tally, Zero

(* A summary is a function on its fields.                                  *)
Fields == {"requests", "control", "routed", "shadow", "actual", "incumbent",
           "byBucket", "byModel", "arm"}

Whole(x) == DOMAIN x = Fields /\ x = [f \in Fields |-> x[f]]

(* Summaries with equal fields are equal.                                  *)
LEMMA SameFields ==
  ASSUME NEW x, NEW y, Whole(x), Whole(y),
         x.requests = y.requests, x.control = y.control, x.routed = y.routed,
         x.shadow = y.shadow, x.actual = y.actual, x.incumbent = y.incumbent,
         x.byBucket = y.byBucket, x.byModel = y.byModel, x.arm = y.arm
  PROVE  x = y
<1>1. \A f \in Fields : x[f] = y[f]
  BY DEF Fields
<1>2. QED
  BY <1>1 DEF Whole

(* A tally has the fields of a summary.                                    *)
LEMMA TallyWhole == \A S : Whole(Tally(S))
BY DEF Whole, Tally, Fields

(* Another decision turns the tally into what Count makes of it.           *)
LEMMA TallyAdd ==
  ASSUME TypeOK, NEW S, IsFiniteSet(S), S \subseteq Recorded, NEW d \in S
  PROVE  Tally(S) = Count(Tally(S \ {d}), d)
<1> DEFINE R == S \ {d}
           r == decisions[d]
           acc == Tally(R)
<1>1. S \subseteq Ids /\ d \in Ids
  BY DEF Recorded
<1>2. ASSUME NEW w \in [Ids -> Nat]
      PROVE  /\ SumFunctionOnSet(w, S) = w[d] + SumFunctionOnSet(w, R)
             /\ SumFunctionOnSet(w, R) \in Nat
  BY <1>1, WeighedRemove
<1>3. ASSUME NEW w \in [Ids -> Nat], w[d] = 0
      PROVE  SumFunctionOnSet(w, S) = SumFunctionOnSet(w, R)
  <2>1. /\ SumFunctionOnSet(w, S) = w[d] + SumFunctionOnSet(w, R)
        /\ SumFunctionOnSet(w, R) \in Nat
    BY <1>2
  <2> HIDE DEF R
  <2>2. QED
    BY <1>3, <2>1
<1>4. ASSUME NEW w \in [Ids -> Nat], NEW c \in Nat, w[d] = c
      PROVE  SumFunctionOnSet(w, S) = SumFunctionOnSet(w, R) + c
  <2>1. /\ SumFunctionOnSet(w, S) = w[d] + SumFunctionOnSet(w, R)
        /\ SumFunctionOnSet(w, R) \in Nat
    BY <1>2
  <2> HIDE DEF R
  <2>2. QED
    BY <1>4, <2>1
<1>5. /\ r.trace \in Traces /\ r.bucket \in Buckets /\ ModelOf(r) \in Models
      /\ CostOf(r) \in Nat /\ r.incumbentCost \in Nat
  BY Recording
<1>6. \A t : StepsOf(t, S) = IF Step(d) /\ r.trace = t THEN StepsOf(t, R) \cup {d}
                                                        ELSE StepsOf(t, R)
  BY DEF StepsOf
<1>7. \A t : ArmIn(t, S) = IF Step(d) /\ r.trace = t
                           THEN ArmWith(ArmIn(t, R), r.bucket) ELSE ArmIn(t, R)
  <2>1. TAKE t
  <2>2. CASE ~(Step(d) /\ r.trace = t)
    BY <1>6, <2>2 DEF ArmIn
  <2>3. CASE Step(d) /\ r.trace = t
    <3>1. StepsOf(t, S) = StepsOf(t, R) \cup {d}
      BY <1>6, <2>3
    <3>2. QED
      BY <3>1, <2>3 DEF ArmIn, ArmWith, Treats
  <2>4. QED
    BY <2>2, <2>3
<1>8. CASE ~InScope(d)
  <2>1. ~Step(d)
    BY <1>8 DEF Step
  <2>2. /\ Request[d] = 0 /\ Control[d] = 0 /\ Routed[d] = 0 /\ Shadowed[d] = 0
        /\ Cost[d] = 0 /\ Baseline[d] = 0
        /\ \A b : InBucket(b)[d] = 0
        /\ \A m : RequestOf(m)[d] = 0 /\ CostIn(m)[d] = 0
    BY <1>1, <1>8, <2>1
       DEF Request, Control, Routed, Shadowed, Cost, Baseline, InBucket,
           RequestOf, CostIn, One
  <2>3. /\ SumFunctionOnSet(Request, S) = SumFunctionOnSet(Request, R)
        /\ SumFunctionOnSet(Control, S) = SumFunctionOnSet(Control, R)
        /\ SumFunctionOnSet(Routed, S) = SumFunctionOnSet(Routed, R)
        /\ SumFunctionOnSet(Shadowed, S) = SumFunctionOnSet(Shadowed, R)
        /\ SumFunctionOnSet(Cost, S) = SumFunctionOnSet(Cost, R)
        /\ SumFunctionOnSet(Baseline, S) = SumFunctionOnSet(Baseline, R)
    BY <1>3, <2>2, Weights
  <2>4. \A b : SumFunctionOnSet(InBucket(b), S) = SumFunctionOnSet(InBucket(b), R)
    BY <1>3, <2>2, Weights
  <2>5. \A m : /\ SumFunctionOnSet(RequestOf(m), S) = SumFunctionOnSet(RequestOf(m), R)
               /\ SumFunctionOnSet(CostIn(m), S) = SumFunctionOnSet(CostIn(m), R)
    BY <1>3, <2>2, Weights
  <2>6. \A t : ArmIn(t, S) = ArmIn(t, R)
    BY <1>7, <2>1
  <2>7. Tally(S) = Tally(R)
    BY <2>3, <2>4, <2>5, <2>6 DEF Tally
  <2>8. QED
    BY <1>8, <2>7 DEF Count
<1>9. CASE InScope(d) /\ r.bucket = "shadow"
  <2>1. ~Step(d)
    BY <1>9 DEF Step
  <2>2. /\ Request[d] = 0 /\ Control[d] = 0 /\ Routed[d] = 0 /\ Shadowed[d] = 1
        /\ Cost[d] = 0 /\ Baseline[d] = 0
        /\ \A b : InBucket(b)[d] = IF b = "shadow" THEN 1 ELSE 0
        /\ \A m : RequestOf(m)[d] = 0 /\ CostIn(m)[d] = 0
    BY <1>1, <1>9, <2>1
       DEF Request, Control, Routed, Shadowed, Cost, Baseline, InBucket,
           RequestOf, CostIn, One
  <2>3. /\ SumFunctionOnSet(Request, S) = SumFunctionOnSet(Request, R)
        /\ SumFunctionOnSet(Control, S) = SumFunctionOnSet(Control, R)
        /\ SumFunctionOnSet(Routed, S) = SumFunctionOnSet(Routed, R)
        /\ SumFunctionOnSet(Cost, S) = SumFunctionOnSet(Cost, R)
        /\ SumFunctionOnSet(Baseline, S) = SumFunctionOnSet(Baseline, R)
    BY <1>3, <2>2, Weights
  <2>4. SumFunctionOnSet(Shadowed, S) = SumFunctionOnSet(Shadowed, R) + 1
    BY <1>4, <2>2, Weights, 1 \in Nat
  <2>5. \A b : SumFunctionOnSet(InBucket(b), S)
                 = IF b = "shadow" THEN SumFunctionOnSet(InBucket(b), R) + 1
                                   ELSE SumFunctionOnSet(InBucket(b), R)
    BY <1>3, <1>4, <2>2, Weights, 1 \in Nat
  <2>6. \A m : /\ SumFunctionOnSet(RequestOf(m), S) = SumFunctionOnSet(RequestOf(m), R)
               /\ SumFunctionOnSet(CostIn(m), S) = SumFunctionOnSet(CostIn(m), R)
    BY <1>3, <2>2, Weights
  <2>7. \A t : ArmIn(t, S) = ArmIn(t, R)
    BY <1>7, <2>1
  <2>8. Count(acc, d)
          = [acc EXCEPT !.byBucket["shadow"] = @ + 1, !.shadow = @ + 1]
    BY <1>9 DEF Count
  <2>9. [b \in Buckets |-> SumFunctionOnSet(InBucket(b), S)]
          = [[b \in Buckets |-> SumFunctionOnSet(InBucket(b), R)]
               EXCEPT !["shadow"] = @ + 1]
    BY <2>5
  <2> DEFINE x == [acc EXCEPT !.byBucket["shadow"] = @ + 1, !.shadow = @ + 1]
  <2>10. Whole(acc) /\ Whole(Tally(S))
    BY TallyWhole
  <2>11. /\ x.requests = acc.requests /\ x.control = acc.control
         /\ x.routed = acc.routed /\ x.actual = acc.actual
         /\ x.incumbent = acc.incumbent /\ x.byModel = acc.byModel
         /\ x.arm = acc.arm /\ x.shadow = acc.shadow + 1
         /\ x.byBucket = [acc.byBucket EXCEPT !["shadow"] = @ + 1]
    <3> HIDE DEF acc
    <3>1. QED
      BY <2>10 DEF Whole, Fields
  <2>12. Whole(x)
    <3> HIDE DEF acc
    <3>1. QED
      BY <2>10 DEF Whole, Fields
  <2> HIDE DEF x
  <2>13. /\ Tally(S).requests = x.requests /\ Tally(S).control = x.control
         /\ Tally(S).routed = x.routed /\ Tally(S).actual = x.actual
         /\ Tally(S).incumbent = x.incumbent /\ Tally(S).shadow = x.shadow
    BY <2>3, <2>4, <2>11 DEF Tally
  <2>14. Tally(S).byModel = x.byModel
    <3>1. Tally(S).byModel = acc.byModel
      <4>1. [m \in Models |-> [requests |-> SumFunctionOnSet(RequestOf(m), S),
                               cost |-> SumFunctionOnSet(CostIn(m), S)]]
              = [m \in Models |-> [requests |-> SumFunctionOnSet(RequestOf(m), R),
                                   cost |-> SumFunctionOnSet(CostIn(m), R)]]
        BY <2>6
      <4>2. QED
        BY <4>1 DEF Tally
    <3> HIDE DEF acc
    <3>2. QED
      BY <3>1, <2>11
  <2>15. Tally(S).byBucket = x.byBucket
    BY <2>9, <2>11 DEF Tally
  <2>16. Tally(S).arm = x.arm
    <3>1. Tally(S).arm = acc.arm
      <4>1. [t \in Traces |-> ArmIn(t, S)] = [t \in Traces |-> ArmIn(t, R)]
        BY <2>7
      <4>2. QED
        BY <4>1 DEF Tally
    <3> HIDE DEF acc
    <3>2. QED
      BY <3>1, <2>11
  <2>17. Tally(S) = x
    BY <2>10, <2>12, <2>13, <2>14, <2>15, <2>16, SameFields
  <2>18. QED
    BY <2>8, <2>17 DEF x
<1>10. CASE Step(d)
  <2> DEFINE m0 == ModelOf(r)
  <2>1. /\ Request[d] = 1
        /\ Control[d] = One(r.bucket = "control")
        /\ Routed[d] = One(r.selected # r.incumbent)
        /\ Shadowed[d] = 0
        /\ Cost[d] = CostOf(r) /\ Baseline[d] = r.incumbentCost
    BY <1>1, <1>10
       DEF Request, Control, Routed, Shadowed, Cost, Baseline, One, Step
  <2>2. \A b : InBucket(b)[d] = IF b = r.bucket THEN 1 ELSE 0
    BY <1>1, <1>10 DEF InBucket, One, Step
  <2>3. \A m : /\ RequestOf(m)[d] = IF m = m0 THEN 1 ELSE 0
               /\ CostIn(m)[d] = IF m = m0 THEN CostOf(r) ELSE 0
    BY <1>1, <1>10 DEF RequestOf, CostIn, One
  <2>4. /\ SumFunctionOnSet(Request, S) = SumFunctionOnSet(Request, R) + 1
        /\ SumFunctionOnSet(Control, S)
             = SumFunctionOnSet(Control, R) + One(r.bucket = "control")
        /\ SumFunctionOnSet(Routed, S)
             = SumFunctionOnSet(Routed, R) + One(r.selected # r.incumbent)
        /\ SumFunctionOnSet(Shadowed, S) = SumFunctionOnSet(Shadowed, R)
        /\ SumFunctionOnSet(Cost, S) = SumFunctionOnSet(Cost, R) + CostOf(r)
        /\ SumFunctionOnSet(Baseline, S) = SumFunctionOnSet(Baseline, R) + r.incumbentCost
    <3>1. /\ One(r.bucket = "control") \in Nat
          /\ One(r.selected # r.incumbent) \in Nat
      BY DEF One
    <3>2. QED
      BY <1>3, <1>4, <1>5, <2>1, <3>1, Weights, 1 \in Nat
  <2>5. \A b : SumFunctionOnSet(InBucket(b), S)
                 = IF b = r.bucket THEN SumFunctionOnSet(InBucket(b), R) + 1
                                   ELSE SumFunctionOnSet(InBucket(b), R)
    BY <1>3, <1>4, <2>2, Weights, 1 \in Nat
  <2>6. \A m : SumFunctionOnSet(RequestOf(m), S)
                 = IF m = m0 THEN SumFunctionOnSet(RequestOf(m), R) + 1
                             ELSE SumFunctionOnSet(RequestOf(m), R)
    BY <1>3, <1>4, <2>3, Weights, 1 \in Nat
  <2>7. \A m : SumFunctionOnSet(CostIn(m), S)
                 = IF m = m0 THEN SumFunctionOnSet(CostIn(m), R) + CostOf(r)
                             ELSE SumFunctionOnSet(CostIn(m), R)
    BY <1>3, <1>4, <1>5, <2>3, Weights
  <2>8. Count(acc, d)
          = [acc EXCEPT
               !.byBucket[r.bucket] = @ + 1,
               !.requests = @ + 1,
               !.control = @ + One(r.bucket = "control"),
               !.routed = @ + One(r.selected # r.incumbent),
               !.actual = @ + CostOf(r),
               !.incumbent = @ + r.incumbentCost,
               !.byModel[m0] = [requests |-> @.requests + 1,
                                cost |-> @.cost + CostOf(r)],
               !.arm[r.trace] = ArmWith(@, r.bucket)]
    BY <1>10 DEF Count, Step
  <2>9. [b \in Buckets |-> SumFunctionOnSet(InBucket(b), S)]
          = [[b \in Buckets |-> SumFunctionOnSet(InBucket(b), R)]
               EXCEPT ![r.bucket] = @ + 1]
    BY <2>5
  <2>10. [m \in Models |-> [requests |-> SumFunctionOnSet(RequestOf(m), S),
                            cost |-> SumFunctionOnSet(CostIn(m), S)]]
          = [[m \in Models |-> [requests |-> SumFunctionOnSet(RequestOf(m), R),
                                cost |-> SumFunctionOnSet(CostIn(m), R)]]
               EXCEPT ![m0] = [requests |-> @.requests + 1,
                               cost |-> @.cost + CostOf(r)]]
    BY <1>5, <2>6, <2>7
  <2>11. [t \in Traces |-> ArmIn(t, S)]
          = [[t \in Traces |-> ArmIn(t, R)]
               EXCEPT ![r.trace] = ArmWith(@, r.bucket)]
    BY <1>7, <1>10
  <2> DEFINE x == [acc EXCEPT
                     !.byBucket[r.bucket] = @ + 1,
                     !.requests = @ + 1,
                     !.control = @ + One(r.bucket = "control"),
                     !.routed = @ + One(r.selected # r.incumbent),
                     !.actual = @ + CostOf(r),
                     !.incumbent = @ + r.incumbentCost,
                     !.byModel[m0] = [requests |-> @.requests + 1,
                                      cost |-> @.cost + CostOf(r)],
                     !.arm[r.trace] = ArmWith(@, r.bucket)]
  <2>12. Whole(acc) /\ Whole(Tally(S))
    BY TallyWhole
  <2>13. /\ x.requests = acc.requests + 1
         /\ x.control = acc.control + One(r.bucket = "control")
         /\ x.routed = acc.routed + One(r.selected # r.incumbent)
         /\ x.shadow = acc.shadow
         /\ x.actual = acc.actual + CostOf(r)
         /\ x.incumbent = acc.incumbent + r.incumbentCost
    <3> HIDE DEF acc, r, m0
    <3>1. QED
      BY <2>12 DEF Whole, Fields
  <2>14. x.byBucket = [acc.byBucket EXCEPT ![r.bucket] = @ + 1]
    <3> HIDE DEF acc, r, m0
    <3>1. QED
      BY <2>12 DEF Whole, Fields
  <2>15. x.byModel = [acc.byModel EXCEPT
                       ![m0] = [requests |-> @.requests + 1,
                                cost |-> @.cost + CostOf(r)]]
    <3> HIDE DEF acc, r, m0
    <3>1. QED
      BY <2>12 DEF Whole, Fields
  <2>16. x.arm = [acc.arm EXCEPT ![r.trace] = ArmWith(@, r.bucket)]
    <3> HIDE DEF acc, r, m0
    <3>1. QED
      BY <2>12 DEF Whole, Fields
  <2>17. Whole(x)
    <3> HIDE DEF acc, r, m0
    <3>1. QED
      BY <2>12 DEF Whole, Fields
  <2> HIDE DEF x
  <2>18. /\ Tally(S).requests = x.requests /\ Tally(S).control = x.control
         /\ Tally(S).routed = x.routed /\ Tally(S).actual = x.actual
         /\ Tally(S).incumbent = x.incumbent /\ Tally(S).shadow = x.shadow
    BY <2>4, <2>13 DEF Tally
  <2>19. Tally(S).byBucket = x.byBucket
    BY <2>9, <2>14 DEF Tally
  <2>20. Tally(S).byModel = x.byModel
    BY <2>10, <2>15 DEF Tally
  <2>21. Tally(S).arm = x.arm
    BY <2>11, <2>16 DEF Tally
  <2>22. Tally(S) = x
    BY <2>12, <2>17, <2>18, <2>19, <2>20, <2>21, SameFields
  <2>23. QED
    BY <2>8, <2>22 DEF x
<1>11. QED
  BY <1>8, <1>9, <1>10 DEF Step

(* A nonempty finite set of integers has a last element.                   *)
LEMMA MaxIsLast ==
  ASSUME NEW S, IsFiniteSet(S), S \subseteq Int, S # {}
  PROVE  /\ Max(S) \in S
         /\ \A y \in S : Max(S) >= y
<1> DEFINE Final(T) == \E x \in T : \A y \in T : x >= y
           G == {T \in SUBSET S : T = {} \/ Final(T)}
<1>1. ASSUME NEW T \in SUBSET S, \A x \in T : T \ {x} \in G
      PROVE  T \in G
  <2>1. CASE T = {}
    BY <2>1
  <2>2. CASE T # {}
    <3>1. PICK x \in T : TRUE
      BY <2>2
    <3>2. T \ {x} = {} \/ Final(T \ {x})
      BY <1>1
    <3>3. CASE T \ {x} = {}
      <4>1. T = {x}
        BY <3>1, <3>3
      <4>2. Final(T)
        BY <4>1
      <4>3. QED
        BY <4>2
    <3>4. CASE Final(T \ {x})
      <4>1. PICK z \in T \ {x} : \A y \in T \ {x} : z >= y
        BY <3>4
      <4>2. x \in Int /\ z \in Int /\ T \subseteq Int
        OBVIOUS
      <4>3. CASE z >= x
        BY <4>1, <4>3
      <4>4. CASE ~(z >= x)
        <5>1. \A y \in T : x >= y
          BY <4>1, <4>2, <4>4
        <5>2. QED
          BY <3>1, <5>1
      <4>5. QED
        BY <4>3, <4>4
    <3>5. QED
      BY <3>2, <3>3, <3>4
  <2>3. QED
    BY <2>1, <2>2
<1>2. S \in G
  <2> HIDE DEF G
  <2>1. QED
    BY <1>1, FiniteInduction
<1>3. Final(S)
  BY <1>2
<1>4. QED
  BY <1>3 DEF Max

(* An order of a finite set visits each element once.                      *)
LEMMA OrderVisitsAll ==
  ASSUME NEW S, IsFiniteSet(S), NEW order \in SetToSeqs(S)
  PROVE  /\ Cardinality(S) \in Nat
         /\ order \in [1 .. Cardinality(S) -> S]
         /\ \A i, j \in 1 .. Cardinality(S) : i # j => order[i] # order[j]
         /\ S = {order[i] : i \in 1 .. Cardinality(S)}
<1> DEFINE n == Cardinality(S)
<1>1. n \in Nat
  BY FS_CardinalityType
<1>2. /\ order \in [1 .. n -> S]
      /\ \A i, j \in 1 .. n : i # j => order[i] # order[j]
  BY DEF SetToSeqs
<1>3. order \in Injection(1 .. n, S)
  BY <1>2 DEF Injection, IsInjective
<1>4. IsFiniteSet(1 .. n) /\ Cardinality(1 .. n) = n
  BY <1>1, FS_Interval, 1 \in Int
<1>5. order \in Surjection(1 .. n, S)
  BY <1>3, <1>4, FS_Injection
<1>6. S = {order[i] : i \in 1 .. n}
  BY <1>2, <1>5 DEF Surjection
<1>7. QED
  BY <1>1, <1>2, <1>6

(* The order that AnyOrder names is one of the orders.                     *)
LEMMA AnyOrderIsOrder ==
  ASSUME NEW S, IsFiniteSet(S)
  PROVE  SetToSeq(S) \in SetToSeqs(S)
<1>1. ExistsBijection(1 .. Cardinality(S), S)
  BY FS_CardinalityType
<1>2. \E f \in [1 .. Cardinality(S) -> S] : IsInjective(f)
  BY <1>1 DEF ExistsBijection, Bijection, Injection
<1>3. /\ SetToSeq(S) \in [1 .. Cardinality(S) -> S]
      /\ IsInjective(SetToSeq(S))
  BY <1>2 DEF SetToSeq
<1>4. QED
  BY <1>3 DEF SetToSeqs, IsInjective

(* Whatever the order, the loop ends with the tally of all decisions.      *)
LEMMA CountedIsTally ==
  ASSUME TypeOK, IsFiniteSet(Recorded), NEW order \in SetToSeqs(Recorded)
  PROVE  Counted(order) = Tally(Recorded)
<1> DEFINE D == 1 .. Cardinality(Recorded)
           Visited(T) == {order[i] : i \in T}
           u == [T \in SUBSET D |-> Tally(Visited(T))]
           Solves(g) == g = [T \in SUBSET D |->
                               IF T = {} THEN Zero
                               ELSE Count(g[T \ {Max(T)}], order[Max(T)])]
           g == CHOOSE h : Solves(h)
<1>1. /\ order \in [D -> Recorded]
      /\ \A i, j \in D : i # j => order[i] # order[j]
      /\ Recorded = Visited(D)
  BY OrderVisitsAll
<1>2. DOMAIN order = D
  BY <1>1
<1>3. Counted(order) = g[D]
  BY <1>2 DEF Counted, FoldLeft, MapThenFoldSet
<1>4. IsFiniteSet(D) /\ D \subseteq Int
  <2>1. Cardinality(Recorded) \in Int
    BY FS_CardinalityType
  <2>2. QED
    BY <2>1, FS_Interval, 1 \in Int
<1> HIDE DEF D
<1>5. ASSUME NEW T \in SUBSET D, T # {}
      PROVE  /\ Max(T) \in T
             /\ u[T] = Count(u[T \ {Max(T)}], order[Max(T)])
  <2>1. Max(T) \in T
    BY <1>4, <1>5, FS_Subset, MaxIsLast
  <2> DEFINE i == Max(T)
  <2> HIDE DEF i
  <2>2. i \in T
    BY <2>1 DEF i
  <2>3. Visited(T) \subseteq Recorded /\ order[i] \in Visited(T)
    BY <1>1, <2>2
  <2>4. Visited(T \ {i}) = Visited(T) \ {order[i]}
    BY <1>1, <2>2
  <2>5. IsFiniteSet(Visited(T))
    BY <2>3, FS_Subset
  <2> HIDE DEF Visited
  <2>6. Tally(Visited(T)) = Count(Tally(Visited(T) \ {order[i]}), order[i])
    BY <2>3, <2>5, TallyAdd
  <2>7. u[T] = Count(u[T \ {i}], order[i])
    BY <2>4, <2>6
  <2>8. QED
    BY <2>1, <2>7 DEF i
<1>6. u[{}] = Zero
  <2>1. Visited({}) = {}
    OBVIOUS
  <2>2. QED
    BY <2>1, TallyEmpty
<1>7. Solves(u)
  <2>1. u = [T \in SUBSET D |-> u[T]]
    OBVIOUS
  <2> HIDE DEF u
  <2>2. QED
    BY <1>5, <1>6, <2>1
<1>8. Solves(g)
  BY <1>7
<1>9. u[D] = Tally(Recorded)
  BY <1>1
<1> HIDE DEF u, g
<1> DEFINE G == {T \in SUBSET D : g[T] = u[T]}
<1>10. ASSUME NEW T \in SUBSET D, \A x \in T : T \ {x} \in G
       PROVE  T \in G
  <2>1. g[T] = IF T = {} THEN Zero ELSE Count(g[T \ {Max(T)}], order[Max(T)])
    BY <1>8
  <2>2. CASE T = {}
    BY <2>1, <2>2, <1>6
  <2>3. CASE T # {}
    BY <1>5, <1>10, <2>1, <2>3
  <2>4. QED
    BY <2>2, <2>3
<1>11. D \in G
  <2> HIDE DEF G
  <2>1. QED
    BY <1>4, <1>10, FiniteInduction
<1>12. QED
  BY <1>3, <1>9, <1>11

(* So the tally is what the loop computes in that order too.               *)
LEMMA AnyOrderTallies ==
  ASSUME LedgerInv
  PROVE  Counted(AnyOrder) = Tally(Recorded)
BY AnyOrderIsOrder, CountedIsTally DEF LedgerInv, AnyOrder

(* store.go:136-141, postgres.go:106-117.  The summary is the same in      *)
(* whatever order the decisions are read: a Go map has none, and the query *)
(* asks for none.                                                          *)
THEOREM OrderNeverMatters == Spec => []OrderIrrelevant
<1>1. LedgerInv => OrderIrrelevant
  <2>1. SUFFICES ASSUME LedgerInv PROVE OrderIrrelevant
    OBVIOUS
  <2>2. \A order \in SetToSeqs(Recorded) : Counted(order) = Counted(AnyOrder)
    BY <2>1, CountedIsTally, AnyOrderTallies DEF LedgerInv
  <2>3. QED
    BY <2>2 DEF OrderIrrelevant, Summary
<1>2. QED
  BY <1>1, LedgerInvHolds, PTL

-----------------------------------------------------------------------------
(***************************************************************************)
(* The bill: totals, and breakdowns that add up to them.                   *)
(***************************************************************************)

(* The sum of sums.                                                        *)
LEMMA SumPlus ==
  ASSUME NEW S, IsFiniteSet(S), NEW f, NEW g, NEW h,
         \A x \in S : f[x] \in Nat /\ g[x] \in Nat /\ h[x] = f[x] + g[x]
  PROVE  SumFunctionOnSet(h, S) = SumFunctionOnSet(f, S) + SumFunctionOnSet(g, S)
<1> DEFINE G == {T \in SUBSET S :
                   SumFunctionOnSet(h, T)
                     = SumFunctionOnSet(f, T) + SumFunctionOnSet(g, T)}
<1>1. ASSUME NEW T \in SUBSET S, \A x \in T : T \ {x} \in G
      PROVE  T \in G
  <2>1. CASE T = {}
    BY <2>1, SumEmpty
  <2>2. CASE T # {}
    <3>1. PICK x \in T : TRUE
      BY <2>2
    <3>2. IsFiniteSet(T) /\ IsFiniteSet(T \ {x})
      BY FS_Subset, T \ {x} \in SUBSET S
    <3>3. \A y \in T : f[y] \in Nat /\ g[y] \in Nat /\ h[y] \in Nat
      OBVIOUS
    <3>4. /\ SumFunctionOnSet(f, T) = f[x] + SumFunctionOnSet(f, T \ {x})
          /\ SumFunctionOnSet(g, T) = g[x] + SumFunctionOnSet(g, T \ {x})
          /\ SumFunctionOnSet(h, T) = h[x] + SumFunctionOnSet(h, T \ {x})
      BY <3>1, <3>2, <3>3, SumRemove
    <3>5. /\ SumFunctionOnSet(f, T \ {x}) \in Nat
          /\ SumFunctionOnSet(g, T \ {x}) \in Nat
      BY <3>2, <3>3, SumType
    <3>6. SumFunctionOnSet(h, T \ {x})
            = SumFunctionOnSet(f, T \ {x}) + SumFunctionOnSet(g, T \ {x})
      BY <1>1
    <3>7. f[x] \in Nat /\ g[x] \in Nat /\ h[x] = f[x] + g[x]
      OBVIOUS
    <3>8. QED
      BY <3>4, <3>5, <3>6, <3>7
  <2>3. QED
    BY <2>1, <2>2
<1>2. S \in G
  <2> HIDE DEF G
  <2>1. QED
    BY <1>1, FiniteInduction
<1>3. QED
  BY <1>2

(* If each element counts in full under one key and not at all under the   *)
(* others, the sums by key add up to the sum.                              *)
LEMMA SumByKey ==
  ASSUME NEW K, IsFiniteSet(K), NEW S, IsFiniteSet(S), NEW w, NEW total,
         \A x \in S : total[x] \in Nat,
         \A k \in K, x \in S : w[k][x] \in Nat,
         \A x \in S : \E k \in K : /\ w[k][x] = total[x]
                                   /\ \A j \in K \ {k} : w[j][x] = 0
  PROVE  SumFunctionOnSet([k \in K |-> SumFunctionOnSet(w[k], S)], K)
           = SumFunctionOnSet(total, S)
<1> DEFINE By(T) == [k \in K |-> SumFunctionOnSet(w[k], T)]
           G == {T \in SUBSET S : SumFunctionOnSet(By(T), K)
                                    = SumFunctionOnSet(total, T)}
<1>1. ASSUME NEW T \in SUBSET S, \A x \in T : T \ {x} \in G
      PROVE  T \in G
  <2>1. CASE T = {}
    <3>1. \A k \in K : By(T)[k] = 0
      BY <2>1, SumEmpty
    <3>2. SumFunctionOnSet(By(T), K) = 0
      <4> HIDE DEF By
      <4>1. QED
        BY <3>1, SumZeros
    <3>3. QED
      BY <2>1, <3>2, SumEmpty
  <2>2. CASE T # {}
    <3>1. PICK x \in T : TRUE
      BY <2>2
    <3>2. PICK k \in K : /\ w[k][x] = total[x]
                         /\ \A j \in K \ {k} : w[j][x] = 0
      OBVIOUS
    <3>3. IsFiniteSet(T) /\ IsFiniteSet(T \ {x})
      BY FS_Subset, T \ {x} \in SUBSET S
    <3>4. \A j \in K : /\ SumFunctionOnSet(w[j], T)
                            = w[j][x] + SumFunctionOnSet(w[j], T \ {x})
                       /\ SumFunctionOnSet(w[j], T \ {x}) \in Nat
      <4>1. TAKE j \in K
      <4>2. \A y \in T : w[j][y] \in Nat
        OBVIOUS
      <4>3. QED
        BY <3>1, <3>3, <4>2, SumRemove, SumType
    <3>5. \A j \in K : By(T \ {x})[j] \in Nat
      BY <3>4
    <3>6. By(T)[k] = By(T \ {x})[k] + total[x]
      <4>1. total[x] \in Nat
        OBVIOUS
      <4>2. /\ SumFunctionOnSet(w[k], T)
                 = w[k][x] + SumFunctionOnSet(w[k], T \ {x})
            /\ SumFunctionOnSet(w[k], T \ {x}) \in Nat
        BY <3>2, <3>4
      <4>3. QED
        BY <3>2, <4>1, <4>2
    <3>7. \A j \in K \ {k} : By(T)[j] = By(T \ {x})[j]
      <4>1. TAKE j \in K \ {k}
      <4>2. /\ SumFunctionOnSet(w[j], T)
                 = w[j][x] + SumFunctionOnSet(w[j], T \ {x})
            /\ SumFunctionOnSet(w[j], T \ {x}) \in Nat
        BY <3>4
      <4>3. w[j][x] = 0
        BY <3>2
      <4>4. QED
        BY <4>2, <4>3
    <3>8. SumFunctionOnSet(By(T), K) = SumFunctionOnSet(By(T \ {x}), K) + total[x]
      <4>1. total[x] \in Nat
        OBVIOUS
      <4> DEFINE before == By(T \ {x})
                 after == By(T)
                 c == total[x]
      <4>2. /\ k \in K /\ c \in Nat
            /\ \A j \in K : before[j] \in Nat
            /\ after[k] = before[k] + c
            /\ \A j \in K \ {k} : after[j] = before[j]
        BY <3>2, <3>5, <3>6, <3>7, <4>1
      <4> HIDE DEF before, after, c
      <4>3. SumFunctionOnSet(after, K) = SumFunctionOnSet(before, K) + c
        BY <4>2, SumUpdate
      <4>4. QED
        BY <4>3 DEF before, after, c
    <3>9. SumFunctionOnSet(total, T) = total[x] + SumFunctionOnSet(total, T \ {x})
      <4>1. \A y \in T : total[y] \in Nat
        OBVIOUS
      <4>2. QED
        BY <3>1, <3>3, <4>1, SumRemove
    <3>10. SumFunctionOnSet(total, T \ {x}) \in Nat /\ total[x] \in Nat
      BY <3>3, SumType
    <3>11. SumFunctionOnSet(By(T \ {x}), K) = SumFunctionOnSet(total, T \ {x})
      BY <1>1, <3>1
    <3>12. SumFunctionOnSet(By(T), K) = SumFunctionOnSet(total, T)
      <4> HIDE DEF By
      <4>1. QED
        BY <3>8, <3>9, <3>10, <3>11
    <3>13. QED
      BY <3>12
  <2>3. QED
    BY <2>1, <2>2
<1>2. S \in G
  <2> HIDE DEF G
  <2>1. QED
    BY <1>1, FiniteInduction
<1>3. QED
  BY <1>2

Steps == {d \in Recorded : Step(d)}

(* Production steps are finitely many, and their costs natural numbers.    *)
LEMMA StepsFacts ==
  ASSUME LedgerInv
  PROVE  /\ IsFiniteSet(Steps) /\ Steps \subseteq Recorded
         /\ Recorded \subseteq Ids /\ IsFiniteSet(Recorded)
         /\ \A d \in Steps : CostOf(decisions[d]) \in Nat
         /\ \A d \in Steps : decisions[d].incumbentCost \in Nat
<1>1. IsFiniteSet(Recorded) /\ TypeOK
  BY DEF LedgerInv
<1>2. Steps \subseteq Recorded /\ Recorded \subseteq Ids
  BY DEF Steps, Recorded
<1>3. IsFiniteSet(Steps)
  BY <1>1, <1>2, FS_Subset
<1>4. QED
  BY <1>1, <1>2, <1>3, Recording

(* The totals of production steps.                                         *)
LEMMA BillTotals ==
  ASSUME LedgerInv
  PROVE  /\ SumFunctionOnSet(Request, Recorded) = Cardinality(Steps)
         /\ SumFunctionOnSet(Cost, Recorded)
              = SumFunctionOnSet([d \in Steps |-> CostOf(decisions[d])], Steps)
         /\ SumFunctionOnSet(Baseline, Recorded)
              = SumFunctionOnSet([d \in Steps |-> decisions[d].incumbentCost], Steps)
<1> DEFINE c == [d \in Steps |-> CostOf(decisions[d])]
           b == [d \in Steps |-> decisions[d].incumbentCost]
<1>1. TypeOK
  BY DEF LedgerInv
<1>2. /\ \A d \in Recorded : /\ Request[d] \in Nat /\ Cost[d] \in Nat
                             /\ Baseline[d] \in Nat
      /\ \A d \in Steps : Request[d] = 1 /\ Cost[d] = c[d] /\ Baseline[d] = b[d]
      /\ \A d \in Recorded \ Steps : Request[d] = 0 /\ Cost[d] = 0 /\ Baseline[d] = 0
  <2>1. \A d \in Recorded : d \in Ids
    BY StepsFacts
  <2>2. \A d \in Recorded : /\ Request[d] \in Nat /\ Cost[d] \in Nat
                            /\ Baseline[d] \in Nat
    BY <1>1, <2>1, Weights
  <2>3. \A d \in Steps : Request[d] = 1 /\ Cost[d] = c[d] /\ Baseline[d] = b[d]
    BY <2>1 DEF Request, Cost, Baseline, One, Steps
  <2>4. \A d \in Recorded \ Steps : Request[d] = 0 /\ Cost[d] = 0 /\ Baseline[d] = 0
    BY <2>1 DEF Request, Cost, Baseline, One, Steps
  <2>5. QED
    BY <2>2, <2>3, <2>4
<1>3. \A d \in Steps : c[d] \in Nat /\ b[d] \in Nat
  BY StepsFacts
<1> HIDE DEF c, b
<1>4. SumFunctionOnSet(Request, Steps) = Cardinality(Steps)
  BY <1>2, StepsFacts, SumOnes
<1>5. SumFunctionOnSet(Request, Recorded) = SumFunctionOnSet(Request, Steps)
  BY <1>2, StepsFacts, SumSame, 1 \in Nat
<1>6. SumFunctionOnSet(Cost, Recorded) = SumFunctionOnSet(c, Steps)
  BY <1>2, <1>3, StepsFacts, SumSame
<1>7. SumFunctionOnSet(Baseline, Recorded) = SumFunctionOnSet(b, Steps)
  BY <1>2, <1>3, StepsFacts, SumSame
<1>8. QED
  BY <1>4, <1>5, <1>6, <1>7 DEF c, b

(* Each production step counts under one model.                            *)
LEMMA BreakdownByModel ==
  ASSUME LedgerInv
  PROVE  /\ SumFunctionOnSet([m \in Models |-> SumFunctionOnSet(RequestOf(m), Recorded)],
                             Models)
              = SumFunctionOnSet(Request, Recorded)
         /\ SumFunctionOnSet([m \in Models |-> SumFunctionOnSet(CostIn(m), Recorded)],
                             Models)
              = SumFunctionOnSet(Cost, Recorded)
<1> DEFINE v == [m \in Models |-> RequestOf(m)]
           w == [m \in Models |-> CostIn(m)]
<1>1. TypeOK /\ IsFiniteSet(Recorded) /\ IsFiniteSet(Models)
  BY SummaryAssumption DEF LedgerInv
<1>2. \A d \in Recorded : d \in Ids /\ ModelOf(decisions[d]) \in Models
  BY <1>1, Recording
<1>3. \A d \in Recorded : Request[d] \in Nat /\ Cost[d] \in Nat
  BY <1>1, <1>2, Weights
<1>4. \A m \in Models, d \in Recorded : v[m][d] \in Nat /\ w[m][d] \in Nat
  <2>1. \A m : RequestOf(m) \in [Ids -> Nat] /\ CostIn(m) \in [Ids -> Nat]
    BY <1>1, Weights
  <2>2. QED
    BY <1>2, <2>1
<1>5. \A d \in Recorded :
        \E m \in Models : /\ v[m][d] = Request[d]
                          /\ \A j \in Models \ {m} : v[j][d] = 0
  <2>1. TAKE d \in Recorded
  <2>2. /\ v[ModelOf(decisions[d])][d] = Request[d]
        /\ \A j \in Models \ {ModelOf(decisions[d])} : v[j][d] = 0
    BY <1>2 DEF RequestOf, Request, One
  <2>3. QED
    BY <1>2, <2>2
<1>6. \A d \in Recorded :
        \E m \in Models : /\ w[m][d] = Cost[d]
                          /\ \A j \in Models \ {m} : w[j][d] = 0
  <2>1. TAKE d \in Recorded
  <2>2. /\ w[ModelOf(decisions[d])][d] = Cost[d]
        /\ \A j \in Models \ {ModelOf(decisions[d])} : w[j][d] = 0
    BY <1>2 DEF CostIn, Cost
  <2>3. QED
    BY <1>2, <2>2
<1>7. /\ [m \in Models |-> SumFunctionOnSet(RequestOf(m), Recorded)]
           = [m \in Models |-> SumFunctionOnSet(v[m], Recorded)]
      /\ [m \in Models |-> SumFunctionOnSet(CostIn(m), Recorded)]
           = [m \in Models |-> SumFunctionOnSet(w[m], Recorded)]
  OBVIOUS
<1> HIDE DEF v, w
<1>8. SumFunctionOnSet([m \in Models |-> SumFunctionOnSet(v[m], Recorded)], Models)
        = SumFunctionOnSet(Request, Recorded)
  BY <1>1, <1>3, <1>4, <1>5, SumByKey
<1>9. SumFunctionOnSet([m \in Models |-> SumFunctionOnSet(w[m], Recorded)], Models)
        = SumFunctionOnSet(Cost, Recorded)
  BY <1>1, <1>3, <1>4, <1>6, SumByKey
<1>10. QED
  BY <1>7, <1>8, <1>9

(* Each decision counts in one bucket, and is a production step or a       *)
(* shadow.                                                                 *)
LEMMA BreakdownByBucket ==
  ASSUME LedgerInv
  PROVE  SumFunctionOnSet([b \in Buckets |-> SumFunctionOnSet(InBucket(b), Recorded)],
                          Buckets)
           = SumFunctionOnSet(Request, Recorded) + SumFunctionOnSet(Shadowed, Recorded)
<1> DEFINE w == [b \in Buckets |-> InBucket(b)]
           all == [d \in Ids |-> One(InScope(d))]
<1>1. TypeOK /\ IsFiniteSet(Recorded)
  BY DEF LedgerInv
<1>2. IsFiniteSet(Buckets)
  <2> DEFINE two == {"control"} \cup {"treatment"}
             three == two \cup {"exploration"}
             four == three \cup {"incumbent"}
  <2>1. Buckets = four \cup {"shadow"}
    BY DEF Buckets
  <2>2. IsFiniteSet(two)
    BY FS_Singleton, FS_AddElement
  <2> HIDE DEF two
  <2>3. IsFiniteSet(three)
    BY <2>2, FS_AddElement
  <2> HIDE DEF three
  <2>4. IsFiniteSet(four)
    BY <2>3, FS_AddElement
  <2> HIDE DEF four
  <2>5. QED
    BY <2>1, <2>4, FS_AddElement
<1>3. \A d \in Recorded : d \in Ids /\ decisions[d].bucket \in Buckets
  BY <1>1, Recording
<1>4. \A d \in Recorded : /\ Request[d] \in Nat /\ Shadowed[d] \in Nat
                          /\ all[d] = Request[d] + Shadowed[d]
  BY <1>3 DEF Request, Shadowed, One, Step
<1>5. \A d \in Recorded : all[d] \in Nat
  BY <1>3 DEF One
<1>6. \A b \in Buckets, d \in Recorded : w[b][d] \in Nat
  BY <1>3 DEF InBucket, One
<1>7. \A d \in Recorded :
        \E b \in Buckets : /\ w[b][d] = all[d]
                           /\ \A j \in Buckets \ {b} : w[j][d] = 0
  <2>1. TAKE d \in Recorded
  <2>2. /\ w[decisions[d].bucket][d] = all[d]
        /\ \A j \in Buckets \ {decisions[d].bucket} : w[j][d] = 0
    BY <1>3 DEF InBucket, One
  <2>3. QED
    BY <1>3, <2>2
<1>8. [b \in Buckets |-> SumFunctionOnSet(InBucket(b), Recorded)]
        = [b \in Buckets |-> SumFunctionOnSet(w[b], Recorded)]
  OBVIOUS
<1> HIDE DEF w, all
<1>9. SumFunctionOnSet([b \in Buckets |-> SumFunctionOnSet(w[b], Recorded)], Buckets)
        = SumFunctionOnSet(all, Recorded)
  BY <1>1, <1>2, <1>5, <1>6, <1>7, SumByKey
<1>10. SumFunctionOnSet(all, Recorded)
         = SumFunctionOnSet(Request, Recorded) + SumFunctionOnSet(Shadowed, Recorded)
  BY <1>1, <1>4, SumPlus
<1>11. QED
  BY <1>8, <1>9, <1>10

(* store.go:164-204, outcome-event-spec.md:52.  The bill is the sum over   *)
(* the production steps, and its breakdowns add up to it.                  *)
THEOREM BillAddsUp == Spec => []CostsConserved
<1>1. LedgerInv => CostsConserved
  <2>1. SUFFICES ASSUME LedgerInv PROVE CostsConserved
    OBVIOUS
  <2> DEFINE counted == Counted(AnyOrder)
  <2>2. counted = Tally(Recorded)
    BY <2>1, AnyOrderTallies
  <2>3. {d \in Recorded : InScope(d) /\ decisions[d].bucket # "shadow"} = Steps
    BY DEF Steps, Step
  <2>4. /\ counted.requests = SumFunctionOnSet(Request, Recorded)
        /\ counted.actual = SumFunctionOnSet(Cost, Recorded)
        /\ counted.shadow = SumFunctionOnSet(Shadowed, Recorded)
    BY <2>2 DEF Tally
  <2>5. /\ [m \in Models |-> counted.byModel[m].requests]
             = [m \in Models |-> SumFunctionOnSet(RequestOf(m), Recorded)]
        /\ [m \in Models |-> counted.byModel[m].cost]
             = [m \in Models |-> SumFunctionOnSet(CostIn(m), Recorded)]
    BY <2>2 DEF Tally
  <2>6. counted.byBucket = [b \in Buckets |-> SumFunctionOnSet(InBucket(b), Recorded)]
    BY <2>2 DEF Tally
  <2> HIDE DEF counted
  <2>7. /\ SumFunction([m \in Models |-> counted.byModel[m].requests])
             = counted.requests
        /\ SumFunction([m \in Models |-> counted.byModel[m].cost])
             = counted.actual
    BY <2>1, <2>4, <2>5, BreakdownByModel DEF SumFunction
  <2>8. SumFunction(counted.byBucket) = counted.requests + counted.shadow
    BY <2>1, <2>4, <2>6, BreakdownByBucket DEF SumFunction
  <2>9. /\ counted.requests = Cardinality(Steps)
        /\ counted.actual = SumFunctionOnSet([d \in Steps |-> CostOf(decisions[d])], Steps)
    BY <2>1, <2>4, BillTotals
  <2>10. QED
    BY <2>3, <2>7, <2>8, <2>9 DEF CostsConserved, counted
<1>2. QED
  BY <1>1, LedgerInvHolds, PTL

-----------------------------------------------------------------------------
(***************************************************************************)
(* The loops over the outcomes (store.go:211-238, evaluation.py:44-55,     *)
(* training.py:56-69).  Each outcome marks traces or decisions with its    *)
(* value, and of the marks of each the last one stands.                    *)
(***************************************************************************)

Marking(x, marks, T) == {i \in T : x \in marks[i]}

LastOf(X, marks, value, T) ==
  [x \in X |-> IF Marking(x, marks, T) = {} THEN None
               ELSE value[Max(Marking(x, marks, T))]]

(* What no element exceeds is the last one.                                *)
LEMMA MaxUnique ==
  ASSUME NEW S, S \subseteq Int, NEW m \in S, \A y \in S : m >= y
  PROVE  Max(S) = m
<1>1. \A n \in S : (\A y \in S : n >= y) => n = m
  <2>1. TAKE n \in S
  <2>2. HAVE \A y \in S : n >= y
  <2>3. n \in Int /\ m \in Int /\ n >= m /\ m >= n
    BY <2>2
  <2>4. QED
    BY <2>3
<1>2. QED
  BY <1>1 DEF Max

(* The last outcome of a set overwrites what it marks and nothing else.    *)
LEMMA LastStep ==
  ASSUME NEW X, NEW marks, NEW value, NEW T,
         IsFiniteSet(T), T \subseteq Int, T # {}
  PROVE  /\ \A x \in X : x \in marks[Max(T)] =>
              LastOf(X, marks, value, T)[x] = value[Max(T)]
         /\ \A x \in X : x \notin marks[Max(T)] =>
              LastOf(X, marks, value, T)[x]
                = LastOf(X, marks, value, T \ {Max(T)})[x]
<1> DEFINE m == Max(T)
<1>1. m \in T /\ \A y \in T : m >= y
  BY MaxIsLast
<1> HIDE DEF m
<1>2. ASSUME NEW x \in X, x \in marks[m]
      PROVE  Marking(x, marks, T) # {} /\ Max(Marking(x, marks, T)) = m
  <2>1. /\ Marking(x, marks, T) \subseteq Int
        /\ m \in Marking(x, marks, T)
        /\ \A y \in Marking(x, marks, T) : m >= y
    BY <1>1, <1>2 DEF Marking
  <2>2. QED
    BY <2>1, MaxUnique
<1>3. ASSUME NEW x \in X, x \notin marks[m]
      PROVE  Marking(x, marks, T) = Marking(x, marks, T \ {m})
  BY <1>3 DEF Marking
<1>4. ASSUME NEW x \in X
      PROVE  /\ x \in marks[m] => LastOf(X, marks, value, T)[x] = value[m]
             /\ x \notin marks[m] =>
                  LastOf(X, marks, value, T)[x] = LastOf(X, marks, value, T \ {m})[x]
  BY <1>2, <1>3 DEF LastOf
<1>5. QED
  BY <1>4 DEF m

(* Nothing marked leaves nothing.                                          *)
LEMMA LastOfNothing ==
  ASSUME NEW X, NEW marks, NEW value
  PROVE  LastOf(X, marks, value, {}) = [x \in X |-> None]
BY DEF LastOf, Marking

(* What is known of every outcome.                                         *)
LEMMA Reported ==
  ASSUME TypeOK
  PROVE  /\ IsFiniteSet(DOMAIN outcomes) /\ DOMAIN outcomes \subseteq Int
         /\ \A i \in DOMAIN outcomes :
              /\ outcomes[i].decision \in Ids \cup {None}
              /\ outcomes[i].trace \in Traces \cup {None}
              /\ outcomes[i].decision # None \/ outcomes[i].trace # None
              /\ outcomes[i].value \in {"false", "true", "two", "null", "text"}
<1> DEFINE Kept == {x \in OutcomeType : {x.decision, x.trace} # {None}}
<1>1. outcomes \in Seq(Kept)
  BY DEF TypeOK
<1>2. \A x \in Kept : /\ x.decision \in Ids \cup {None}
                      /\ x.trace \in Traces \cup {None}
                      /\ x.decision # None \/ x.trace # None
                      /\ x.value \in {"false", "true", "two", "null", "text"}
  BY DEF OutcomeType
<1> HIDE DEF Kept
<1>3. /\ DOMAIN outcomes = 1 .. Len(outcomes) /\ Len(outcomes) \in Int
      /\ \A i \in DOMAIN outcomes : outcomes[i] \in Kept
  BY <1>1
<1>4. IsFiniteSet(1 .. Len(outcomes)) /\ 1 .. Len(outcomes) \subseteq Int
  BY <1>3, FS_Interval, 1 \in Int
<1>5. QED
  BY <1>2, <1>3, <1>4

(* An outcome has a natural number for a value, or none.                   *)
LEMMA Values ==
  ASSUME TypeOK, NEW i \in DOMAIN outcomes
  PROVE  /\ Numeric(outcomes[i].value) \in Nat \cup {None}
         /\ Clamped(outcomes[i].value) \in Nat \cup {None}
<1>1. outcomes[i].value \in {"false", "true", "two", "null", "text"}
  BY Reported
<1>2. /\ Numeric("false") = 0 /\ Numeric("true") = 1 /\ Numeric("two") = 2
      /\ Numeric("null") = 0 /\ Numeric("text") = None
  BY DEF Numeric
<1>3. /\ Clamped("false") = 0 /\ Clamped("true") = 1 /\ Clamped("two") = 1
      /\ Clamped("null") = None /\ Clamped("text") = None
  BY DEF Clamped
<1>4. QED
  BY <1>1, <1>2, <1>3

-----------------------------------------------------------------------------
(* The trainer's join.                                                     *)

Labelling ==
  [i \in DOMAIN outcomes |->
     IF ~outcomes[i].typed \/ Clamped(outcomes[i].value) = None THEN {}
     ELSE IF outcomes[i].decision # None THEN {outcomes[i].decision}
     ELSE Production(outcomes[i].trace)]

ClampedValue == [i \in DOMAIN outcomes |-> Clamped(outcomes[i].value)]

(* One turn of the trainer's loop overwrites what its outcome marks.       *)
LEMMA JoinExampleMarks ==
  ASSUME NEW i \in DOMAIN outcomes, NEW acc, acc = [d \in Ids |-> acc[d]]
  PROVE  JoinExample(acc, outcomes[i])
           = [d \in Ids |-> IF d \in Labelling[i] THEN ClampedValue[i] ELSE acc[d]]
<1> DEFINE o == outcomes[i]
<1>1. ClampedValue[i] = Clamped(o.value)
  BY DEF ClampedValue
<1>2. CASE ~o.typed \/ Clamped(o.value) = None
  <2>1. Labelling[i] = {}
    BY <1>2 DEF Labelling
  <2>2. JoinExample(acc, o) = acc
    BY <1>2 DEF JoinExample
  <2>3. QED
    BY <2>1, <2>2
<1>3. CASE ~(~o.typed \/ Clamped(o.value) = None) /\ o.decision # None
  <2>1. Labelling[i] = {o.decision}
    BY <1>3 DEF Labelling
  <2>2. JoinExample(acc, o) = [acc EXCEPT ![o.decision] = Clamped(o.value)]
    BY <1>3 DEF JoinExample
  <2> HIDE DEF o
  <2>3. [acc EXCEPT ![o.decision] = Clamped(o.value)]
          = [d \in Ids |-> IF d = o.decision THEN Clamped(o.value) ELSE acc[d]]
    OBVIOUS
  <2>4. QED
    BY <1>1, <2>1, <2>2, <2>3 DEF o
<1>4. CASE ~(~o.typed \/ Clamped(o.value) = None) /\ o.decision = None
  <2>1. Labelling[i] = Production(o.trace)
    BY <1>4 DEF Labelling
  <2>2. JoinExample(acc, o)
          = [d \in Ids |-> IF d \in Production(o.trace) THEN Clamped(o.value)
                           ELSE acc[d]]
    BY <1>4 DEF JoinExample
  <2>3. QED
    BY <1>1, <2>1, <2>2
<1>5. QED
  BY <1>2, <1>3, <1>4

(* So the labels it ends with are those of the last outcomes.              *)
LEMMA ExamplesAreLast ==
  ASSUME TypeOK
  PROVE  Examples = LastOf(Ids, Labelling, ClampedValue, DOMAIN outcomes)
<1> DEFINE D == DOMAIN outcomes
           base == [d \in Ids |-> None]
           u == [T \in SUBSET D |-> LastOf(Ids, Labelling, ClampedValue, T)]
           Solves(g) == g = [T \in SUBSET D |->
                               IF T = {} THEN base
                               ELSE JoinExample(g[T \ {Max(T)}], outcomes[Max(T)])]
           g == CHOOSE h : Solves(h)
<1>1. Examples = g[D]
  BY DEF Examples, FoldLeft, MapThenFoldSet
<1>2. IsFiniteSet(D) /\ D \subseteq Int
  BY Reported
<1>3. ASSUME NEW T \in SUBSET D, T # {}
      PROVE  Max(T) \in T /\ u[T] = JoinExample(u[T \ {Max(T)}], outcomes[Max(T)])
  <2>1. IsFiniteSet(T) /\ T \subseteq Int
    BY <1>2, FS_Subset
  <2>2. Max(T) \in T
    BY <1>3, <2>1, MaxIsLast
  <2> DEFINE acc == LastOf(Ids, Labelling, ClampedValue, T \ {Max(T)})
  <2>3. acc = [d \in Ids |-> acc[d]]
    BY DEF LastOf
  <2>4. LastOf(Ids, Labelling, ClampedValue, T)
          = [d \in Ids |-> IF d \in Labelling[Max(T)] THEN ClampedValue[Max(T)]
                           ELSE acc[d]]
    <3>1. /\ \A d \in Ids : d \in Labelling[Max(T)] =>
               LastOf(Ids, Labelling, ClampedValue, T)[d] = ClampedValue[Max(T)]
          /\ \A d \in Ids : d \notin Labelling[Max(T)] =>
               LastOf(Ids, Labelling, ClampedValue, T)[d]
                 = LastOf(Ids, Labelling, ClampedValue, T \ {Max(T)})[d]
      BY <1>3, <2>1, LastStep
    <3>2. LastOf(Ids, Labelling, ClampedValue, T)
            = [d \in Ids |-> LastOf(Ids, Labelling, ClampedValue, T)[d]]
      BY DEF LastOf
    <3>3. \A d \in Ids : LastOf(Ids, Labelling, ClampedValue, T)[d]
                          = IF d \in Labelling[Max(T)] THEN ClampedValue[Max(T)]
                            ELSE acc[d]
      BY <3>1
    <3> HIDE DEF acc
    <3>4. QED
      BY <3>2, <3>3
  <2> HIDE DEF acc
  <2>5. JoinExample(acc, outcomes[Max(T)])
          = [d \in Ids |-> IF d \in Labelling[Max(T)] THEN ClampedValue[Max(T)]
                           ELSE acc[d]]
    BY <2>2, <2>3, JoinExampleMarks
  <2>6. QED
    BY <2>2, <2>4, <2>5 DEF acc
<1>4. u[{}] = base
  BY LastOfNothing
<1>5. Solves(u)
  <2>1. u = [T \in SUBSET D |-> u[T]]
    OBVIOUS
  <2> HIDE DEF u, base
  <2>2. QED
    BY <1>3, <1>4, <2>1
<1>6. Solves(g)
  BY <1>5
<1>7. u[D] = LastOf(Ids, Labelling, ClampedValue, D)
  OBVIOUS
<1> HIDE DEF u, g, base, D
<1> DEFINE G == {T \in SUBSET D : g[T] = u[T]}
<1>8. ASSUME NEW T \in SUBSET D, \A x \in T : T \ {x} \in G
      PROVE  T \in G
  <2>1. g[T] = IF T = {} THEN base
               ELSE JoinExample(g[T \ {Max(T)}], outcomes[Max(T)])
    BY <1>6
  <2>2. CASE T = {}
    BY <2>1, <2>2, <1>4
  <2>3. CASE T # {}
    BY <1>3, <1>8, <2>1, <2>3
  <2>4. QED
    BY <2>2, <2>3
<1>9. D \in G
  <2> HIDE DEF G
  <2>1. QED
    BY <1>2, <1>8, FiniteInduction
<1>10. QED
  BY <1>1, <1>7, <1>9 DEF D

(* training.py:56-69, outcome-event-spec.md:47-49.  A decision's label is  *)
(* that of the last outcome about it, or about its trace if it is a        *)
(* production decision; a shadow decision has no other.                    *)
THEOREM LabelsAreExplained == Spec => []LabelsExplained
<1>1. LedgerInv => LabelsExplained
  <2>1. SUFFICES ASSUME LedgerInv PROVE LabelsExplained
    OBVIOUS
  <2>2. Examples = LastOf(Ids, Labelling, ClampedValue, DOMAIN outcomes)
    BY <2>1, ExamplesAreLast DEF LedgerInv
  <2> DEFINE Labels(i, d) ==
               /\ outcomes[i].typed
               /\ Clamped(outcomes[i].value) # None
               /\ IF outcomes[i].decision # None THEN outcomes[i].decision = d
                  ELSE d \in Production(outcomes[i].trace)
             Of(d) == {i \in DOMAIN outcomes : Labels(i, d)}
  <2>3. ASSUME NEW d \in Ids
        PROVE  Examples[d] = IF Of(d) = {} THEN None
                             ELSE Clamped(outcomes[Max(Of(d))].value)
    <3>1. Marking(d, Labelling, DOMAIN outcomes) = Of(d)
      BY DEF Marking, Labelling
    <3>2. Examples[d] = IF Of(d) = {} THEN None ELSE ClampedValue[Max(Of(d))]
      <4> HIDE DEF Of
      <4>1. QED
        BY <2>2, <3>1 DEF LastOf
    <3>3. ASSUME Of(d) # {}
          PROVE  ClampedValue[Max(Of(d))] = Clamped(outcomes[Max(Of(d))].value)
      <4>1. Of(d) \subseteq DOMAIN outcomes
        OBVIOUS
      <4>2. IsFiniteSet(DOMAIN outcomes) /\ DOMAIN outcomes \subseteq Int
        BY <2>1, Reported DEF LedgerInv
      <4> HIDE DEF Of
      <4>3. Max(Of(d)) \in Of(d)
        BY <3>3, <4>1, <4>2, FS_Subset, MaxIsLast
      <4>4. QED
        BY <4>1, <4>3 DEF ClampedValue
    <3> HIDE DEF Of
    <3>4. QED
      BY <3>2, <3>3
  <2>4. QED
    BY <2>3 DEF LabelsExplained
<1>2. QED
  BY <1>1, LedgerInvHolds, PTL

-----------------------------------------------------------------------------
(* The evaluator's join.                                                   *)

NamedTraceOf(o) == IF o.trace # None THEN o.trace ELSE decisions[o.decision].trace

Joining ==
  [i \in DOMAIN outcomes |->
     IF ~outcomes[i].typed \/ Clamped(outcomes[i].value) = None THEN {}
     ELSE {NamedTraceOf(outcomes[i])}]

EvaluatedPrimary == FoldLeft(JoinOutcome, [t \in Traces |-> None], outcomes)

(* One turn of the evaluator's loop overwrites what its outcome marks.     *)
LEMMA JoinOutcomeMarks ==
  ASSUME NEW i \in DOMAIN outcomes, NEW acc, acc = [t \in Traces |-> acc[t]]
  PROVE  JoinOutcome(acc, outcomes[i])
           = [t \in Traces |-> IF t \in Joining[i] THEN ClampedValue[i] ELSE acc[t]]
<1> DEFINE o == outcomes[i]
<1>1. ClampedValue[i] = Clamped(o.value)
  BY DEF ClampedValue
<1>2. CASE ~o.typed \/ Clamped(o.value) = None
  <2>1. Joining[i] = {}
    BY <1>2 DEF Joining
  <2>2. JoinOutcome(acc, o) = acc
    BY <1>2 DEF JoinOutcome
  <2>3. QED
    BY <2>1, <2>2
<1>3. CASE ~(~o.typed \/ Clamped(o.value) = None)
  <2>1. Joining[i] = {NamedTraceOf(o)}
    BY <1>3 DEF Joining
  <2>2. JoinOutcome(acc, o) = [acc EXCEPT ![NamedTraceOf(o)] = Clamped(o.value)]
    BY <1>3 DEF JoinOutcome, NamedTraceOf
  <2> HIDE DEF o
  <2>3. [acc EXCEPT ![NamedTraceOf(o)] = Clamped(o.value)]
          = [t \in Traces |-> IF t = NamedTraceOf(o) THEN Clamped(o.value) ELSE acc[t]]
    OBVIOUS
  <2>4. QED
    BY <1>1, <2>1, <2>2, <2>3 DEF o
<1>4. QED
  BY <1>2, <1>3

(* So the values it ends with are those of the last outcomes.              *)
LEMMA EvaluatedPrimaryIsLast ==
  ASSUME TypeOK
  PROVE  EvaluatedPrimary = LastOf(Traces, Joining, ClampedValue, DOMAIN outcomes)
<1> DEFINE D == DOMAIN outcomes
           base == [t \in Traces |-> None]
           u == [T \in SUBSET D |-> LastOf(Traces, Joining, ClampedValue, T)]
           Solves(g) == g = [T \in SUBSET D |->
                               IF T = {} THEN base
                               ELSE JoinOutcome(g[T \ {Max(T)}], outcomes[Max(T)])]
           g == CHOOSE h : Solves(h)
<1>1. EvaluatedPrimary = g[D]
  BY DEF EvaluatedPrimary, FoldLeft, MapThenFoldSet
<1>2. IsFiniteSet(D) /\ D \subseteq Int
  BY Reported
<1>3. ASSUME NEW T \in SUBSET D, T # {}
      PROVE  Max(T) \in T /\ u[T] = JoinOutcome(u[T \ {Max(T)}], outcomes[Max(T)])
  <2>1. IsFiniteSet(T) /\ T \subseteq Int
    BY <1>2, FS_Subset
  <2>2. Max(T) \in T
    BY <1>3, <2>1, MaxIsLast
  <2> DEFINE acc == LastOf(Traces, Joining, ClampedValue, T \ {Max(T)})
  <2>3. acc = [t \in Traces |-> acc[t]]
    BY DEF LastOf
  <2>4. LastOf(Traces, Joining, ClampedValue, T)
          = [t \in Traces |-> IF t \in Joining[Max(T)] THEN ClampedValue[Max(T)]
                              ELSE acc[t]]
    <3>1. /\ \A t \in Traces : t \in Joining[Max(T)] =>
               LastOf(Traces, Joining, ClampedValue, T)[t] = ClampedValue[Max(T)]
          /\ \A t \in Traces : t \notin Joining[Max(T)] =>
               LastOf(Traces, Joining, ClampedValue, T)[t]
                 = LastOf(Traces, Joining, ClampedValue, T \ {Max(T)})[t]
      BY <1>3, <2>1, LastStep
    <3>2. LastOf(Traces, Joining, ClampedValue, T)
            = [t \in Traces |-> LastOf(Traces, Joining, ClampedValue, T)[t]]
      BY DEF LastOf
    <3>3. \A t \in Traces : LastOf(Traces, Joining, ClampedValue, T)[t]
                             = IF t \in Joining[Max(T)] THEN ClampedValue[Max(T)]
                               ELSE acc[t]
      BY <3>1
    <3> HIDE DEF acc
    <3>4. QED
      BY <3>2, <3>3
  <2> HIDE DEF acc
  <2>5. JoinOutcome(acc, outcomes[Max(T)])
          = [t \in Traces |-> IF t \in Joining[Max(T)] THEN ClampedValue[Max(T)]
                              ELSE acc[t]]
    BY <2>2, <2>3, JoinOutcomeMarks
  <2>6. QED
    BY <2>2, <2>4, <2>5 DEF acc
<1>4. u[{}] = base
  BY LastOfNothing
<1>5. Solves(u)
  <2>1. u = [T \in SUBSET D |-> u[T]]
    OBVIOUS
  <2> HIDE DEF u, base
  <2>2. QED
    BY <1>3, <1>4, <2>1
<1>6. Solves(g)
  BY <1>5
<1>7. u[D] = LastOf(Traces, Joining, ClampedValue, D)
  OBVIOUS
<1> HIDE DEF u, g, base, D
<1> DEFINE G == {T \in SUBSET D : g[T] = u[T]}
<1>8. ASSUME NEW T \in SUBSET D, \A x \in T : T \ {x} \in G
      PROVE  T \in G
  <2>1. g[T] = IF T = {} THEN base
               ELSE JoinOutcome(g[T \ {Max(T)}], outcomes[Max(T)])
    BY <1>6
  <2>2. CASE T = {}
    BY <2>1, <2>2, <1>4
  <2>3. CASE T # {}
    BY <1>3, <1>8, <2>1, <2>3
  <2>4. QED
    BY <2>2, <2>3
<1>9. D \in G
  <2> HIDE DEF G
  <2>1. QED
    BY <1>2, <1>8, FiniteInduction
<1>10. QED
  BY <1>1, <1>7, <1>9 DEF D

-----------------------------------------------------------------------------
(* The router's own loop.  Beside the value of each trace it counts the    *)
(* outcomes of each model's decisions.                                     *)

Bearing ==
  [i \in DOMAIN outcomes |->
     IF ~Considered(outcomes[i]) \/ Numeric(outcomes[i].value) = None
        \/ TraceOf(outcomes[i]) = None THEN {}
     ELSE {TraceOf(outcomes[i])}]

NumericValue == [i \in DOMAIN outcomes |-> Numeric(outcomes[i].value)]

(* Outcome i is about a decision of model m.                               *)
About(i, m) ==
  /\ Considered(outcomes[i])
  /\ Numeric(outcomes[i].value) # None
  /\ outcomes[i].decision # None
  /\ InScope(outcomes[i].decision)
  /\ ModelOf(decisions[outcomes[i].decision]) = m

OutcomeIn(m) == [i \in DOMAIN outcomes |-> One(About(i, m))]
SuccessIn(m) ==
  [i \in DOMAIN outcomes |-> IF About(i, m) THEN Numeric(outcomes[i].value) ELSE 0]

ByModel(T) ==
  [m \in Models |-> [successes |-> SumFunctionOnSet(SuccessIn(m), T),
                     outcomes |-> SumFunctionOnSet(OutcomeIn(m), T)]]

(* One turn of the router's loop overwrites what its outcome marks ...     *)
LEMMA RelabelMarks ==
  ASSUME NEW i \in DOMAIN outcomes, NEW acc, acc = [t \in Traces |-> acc[t]],
         Considered(outcomes[i]), Numeric(outcomes[i].value) # None
  PROVE  Relabelled(acc, outcomes[i])
           = [t \in Traces |-> IF t \in Bearing[i] THEN NumericValue[i] ELSE acc[t]]
<1> DEFINE o == outcomes[i]
<1>1. NumericValue[i] = Numeric(o.value)
  BY DEF NumericValue
<1>2. CASE TraceOf(o) = None
  <2>1. Bearing[i] = {}
    BY <1>2 DEF Bearing
  <2>2. Relabelled(acc, o) = acc
    BY <1>2 DEF Relabelled
  <2>3. QED
    BY <2>1, <2>2
<1>3. CASE TraceOf(o) # None
  <2>1. Bearing[i] = {TraceOf(o)}
    BY <1>3 DEF Bearing
  <2>2. Relabelled(acc, o) = [acc EXCEPT ![TraceOf(o)] = Numeric(o.value)]
    BY <1>3 DEF Relabelled
  <2> HIDE DEF o
  <2>3. [acc EXCEPT ![TraceOf(o)] = Numeric(o.value)]
          = [t \in Traces |-> IF t = TraceOf(o) THEN Numeric(o.value) ELSE acc[t]]
    OBVIOUS
  <2>4. QED
    BY <1>1, <2>1, <2>2, <2>3 DEF o
<1>4. QED
  BY <1>2, <1>3

(* ... and counts the outcome under the model of its decision.             *)
LEMMA LabelCounts ==
  ASSUME TypeOK, NEW T \in SUBSET DOMAIN outcomes, IsFiniteSet(T), NEW i \in T,
         Considered(outcomes[i]), Numeric(outcomes[i].value) # None
  PROVE  ByModel(T) = Label(ByModel(T \ {i}), outcomes[i])
<1> DEFINE o == outcomes[i]
           R == T \ {i}
           m0 == ModelOf(decisions[o.decision])
<1>1. \A j \in DOMAIN outcomes : Numeric(outcomes[j].value) \in Nat \cup {None}
  BY Values
<1>2. \A m, j \in DOMAIN outcomes : One(About(j, m)) \in Nat
  BY DEF One
<1>3. \A m : \A j \in T : OutcomeIn(m)[j] \in Nat /\ SuccessIn(m)[j] \in Nat
  BY <1>1 DEF OutcomeIn, SuccessIn, About, One
<1>4. IsFiniteSet(R)
  BY FS_Subset, R \in SUBSET T
<1>5. \A m : /\ SumFunctionOnSet(OutcomeIn(m), T)
                  = OutcomeIn(m)[i] + SumFunctionOnSet(OutcomeIn(m), R)
             /\ SumFunctionOnSet(SuccessIn(m), T)
                  = SuccessIn(m)[i] + SumFunctionOnSet(SuccessIn(m), R)
             /\ SumFunctionOnSet(OutcomeIn(m), R) \in Nat
             /\ SumFunctionOnSet(SuccessIn(m), R) \in Nat
  <2>1. TAKE m
  <2>2. \A j \in T : OutcomeIn(m)[j] \in Nat /\ SuccessIn(m)[j] \in Nat
    BY <1>3
  <2>3. \A j \in R : OutcomeIn(m)[j] \in Nat /\ SuccessIn(m)[j] \in Nat
    BY <2>2
  <2>4. /\ SumFunctionOnSet(OutcomeIn(m), T)
             = OutcomeIn(m)[i] + SumFunctionOnSet(OutcomeIn(m), T \ {i})
        /\ SumFunctionOnSet(SuccessIn(m), T)
             = SuccessIn(m)[i] + SumFunctionOnSet(SuccessIn(m), T \ {i})
    BY <2>2, SumRemove
  <2>5. /\ SumFunctionOnSet(OutcomeIn(m), R) \in Nat
        /\ SumFunctionOnSet(SuccessIn(m), R) \in Nat
    BY <1>4, <2>3, SumType
  <2>6. QED
    BY <2>4, <2>5
<1> HIDE DEF R
<1>6. CASE o.decision = None \/ ~InScope(o.decision)
  <2>1. \A m : OutcomeIn(m)[i] = 0 /\ SuccessIn(m)[i] = 0
    BY <1>6 DEF OutcomeIn, SuccessIn, About, One
  <2>2. \A m : /\ SumFunctionOnSet(OutcomeIn(m), T) = SumFunctionOnSet(OutcomeIn(m), R)
               /\ SumFunctionOnSet(SuccessIn(m), T) = SumFunctionOnSet(SuccessIn(m), R)
    BY <1>5, <2>1
  <2>3. ByModel(T) = ByModel(R)
    BY <2>2 DEF ByModel
  <2>4. QED
    BY <1>6, <2>3 DEF Label, R
<1>7. CASE ~(o.decision = None \/ ~InScope(o.decision))
  <2>1. \A m : /\ OutcomeIn(m)[i] = IF m = m0 THEN 1 ELSE 0
               /\ SuccessIn(m)[i] = IF m = m0 THEN Numeric(o.value) ELSE 0
    BY <1>7 DEF OutcomeIn, SuccessIn, About, One
  <2>2. Numeric(o.value) \in Nat
    BY <1>1
  <2> HIDE DEF o, m0
  <2>3. \A m : SumFunctionOnSet(OutcomeIn(m), T)
                 = IF m = m0 THEN SumFunctionOnSet(OutcomeIn(m), R) + 1
                             ELSE SumFunctionOnSet(OutcomeIn(m), R)
    BY <1>5, <2>1
  <2>4. \A m : SumFunctionOnSet(SuccessIn(m), T)
                 = IF m = m0 THEN SumFunctionOnSet(SuccessIn(m), R) + Numeric(o.value)
                             ELSE SumFunctionOnSet(SuccessIn(m), R)
    BY <1>5, <2>1, <2>2
  <2>5. ByModel(T)
          = [ByModel(R) EXCEPT ![m0] = [successes |-> @.successes + Numeric(o.value),
                                        outcomes |-> @.outcomes + 1]]
    BY <2>3, <2>4 DEF ByModel
  <2>6. QED
    BY <1>7, <2>5 DEF Label, R, o, m0
<1>8. QED
  BY <1>6, <1>7

(* So the values it ends with are those of the last outcomes.              *)
LEMMA AttributedIsLast ==
  ASSUME TypeOK
  PROVE  Primary = LastOf(Traces, Bearing, NumericValue, DOMAIN outcomes)
<1> DEFINE D == DOMAIN outcomes
           base == [byModel |-> [m \in Models |-> [successes |-> 0, outcomes |-> 0]],
                    primary |-> [t \in Traces |-> None]]
           Final(T) == LastOf(Traces, Bearing, NumericValue, T)
           u == [T \in SUBSET D |-> [byModel |-> ByModel(T), primary |-> Final(T)]]
           Solves(g) == g = [T \in SUBSET D |->
                               IF T = {} THEN base
                               ELSE Attribute(g[T \ {Max(T)}], outcomes[Max(T)])]
           g == CHOOSE h : Solves(h)
<1>1. Attributed = g[D]
  BY DEF Attributed, FoldLeft, MapThenFoldSet
<1>2. IsFiniteSet(D) /\ D \subseteq Int
  BY Reported
<1>3. ASSUME NEW T \in SUBSET D, T # {}
      PROVE  Max(T) \in T /\ u[T] = Attribute(u[T \ {Max(T)}], outcomes[Max(T)])
  <2>1. IsFiniteSet(T) /\ T \subseteq Int
    BY <1>2, FS_Subset
  <2> DEFINE i == Max(T)
             R == T \ {i}
             o == outcomes[i]
             acc == Final(R)
  <2>2. i \in T
    BY <1>3, <2>1, MaxIsLast
  <2>3. acc = [t \in Traces |-> acc[t]]
    BY DEF LastOf
  <2>4. Final(T) = [t \in Traces |-> IF t \in Bearing[i] THEN NumericValue[i] ELSE acc[t]]
    <3>1. /\ \A t \in Traces : t \in Bearing[Max(T)] =>
               LastOf(Traces, Bearing, NumericValue, T)[t] = NumericValue[Max(T)]
          /\ \A t \in Traces : t \notin Bearing[Max(T)] =>
               LastOf(Traces, Bearing, NumericValue, T)[t]
                 = LastOf(Traces, Bearing, NumericValue, T \ {Max(T)})[t]
      BY <1>3, <2>1, LastStep
    <3>2. Final(T) = [t \in Traces |-> Final(T)[t]]
      BY DEF LastOf
    <3>3. \A t \in Traces : Final(T)[t] = IF t \in Bearing[i] THEN NumericValue[i]
                                         ELSE acc[t]
      BY <3>1
    <3> HIDE DEF acc, Final, i
    <3>4. QED
      BY <3>2, <3>3
  <2>5. u[T] = [byModel |-> ByModel(T), primary |-> Final(T)]
    OBVIOUS
  <2>6. u[R] = [byModel |-> ByModel(R), primary |-> acc]
    OBVIOUS
  <2> HIDE DEF Final, acc, u
  <2>7. CASE ~Considered(o) \/ Numeric(o.value) = None
    <3>1. Bearing[i] = {}
      BY <2>2, <2>7 DEF Bearing
    <3>2. Final(T) = acc
      <4> HIDE DEF i
      <4>1. QED
        BY <2>3, <2>4, <3>1
    <3>3. ByModel(T) = ByModel(R)
      <4>1. \A m : \A j \in T : /\ OutcomeIn(m)[j] \in Nat /\ SuccessIn(m)[j] \in Nat
                                /\ j = i => OutcomeIn(m)[j] = 0 /\ SuccessIn(m)[j] = 0
        <5>1. \A j \in DOMAIN outcomes : Numeric(outcomes[j].value) \in Nat \cup {None}
          BY Values
        <5> HIDE DEF i
        <5>2. QED
          BY <2>7, <5>1 DEF OutcomeIn, SuccessIn, About, One
      <4>2. IsFiniteSet(R)
        BY <2>1, FS_Subset, R \in SUBSET T
      <4>3. \A m : /\ SumFunctionOnSet(OutcomeIn(m), T) = SumFunctionOnSet(OutcomeIn(m), R)
                   /\ SumFunctionOnSet(SuccessIn(m), T) = SumFunctionOnSet(SuccessIn(m), R)
        <5>1. TAKE m
        <5> DEFINE f == OutcomeIn(m)
                   h == SuccessIn(m)
        <5>2. /\ \A j \in T : f[j] \in Nat /\ h[j] \in Nat
              /\ \A j \in R : f[j] \in Nat /\ h[j] \in Nat
              /\ \A j \in T \ R : f[j] = 0 /\ h[j] = 0
              /\ R \ T = {}
          BY <4>1
        <5> HIDE DEF f, h, i, R
        <5>3. /\ SumFunctionOnSet(f, T) = SumFunctionOnSet(f, R)
              /\ SumFunctionOnSet(h, T) = SumFunctionOnSet(h, R)
          BY <2>1, <4>2, <5>2, SumSame
        <5>4. QED
          BY <5>3 DEF f, h
      <4> HIDE DEF R
      <4>4. QED
        BY <4>3 DEF ByModel
    <3>4. Attribute(u[R], o) = u[R]
      BY <2>7 DEF Attribute
    <3>5. QED
      BY <2>2, <2>5, <2>6, <3>2, <3>3, <3>4
  <2>8. CASE ~(~Considered(o) \/ Numeric(o.value) = None)
    <3>1. Relabelled(acc, o) = Final(T)
      BY <2>2, <2>3, <2>4, <2>8, RelabelMarks
    <3>2. Label(ByModel(R), o) = ByModel(T)
      BY <2>1, <2>2, <2>8, LabelCounts
    <3>3. Attribute(u[R], o) = [byModel |-> Label(ByModel(R), o),
                                primary |-> Relabelled(acc, o)]
      BY <2>6, <2>8 DEF Attribute
    <3>4. QED
      BY <2>2, <2>5, <3>1, <3>2, <3>3
  <2>9. QED
    BY <2>7, <2>8
<1>4. u[{}] = base
  <2>1. Final({}) = [t \in Traces |-> None]
    BY LastOfNothing
  <2>2. ByModel({}) = [m \in Models |-> [successes |-> 0, outcomes |-> 0]]
    <3>1. \A f : SumFunctionOnSet(f, {}) = 0
      BY SumEmpty
    <3>2. QED
      BY <3>1 DEF ByModel
  <2> HIDE DEF Final
  <2>3. QED
    BY <2>1, <2>2
<1>5. Solves(u)
  <2>1. u = [T \in SUBSET D |-> u[T]]
    OBVIOUS
  <2> HIDE DEF u, base
  <2>2. QED
    BY <1>3, <1>4, <2>1
<1>6. Solves(g)
  BY <1>5
<1>7. u[D].primary = LastOf(Traces, Bearing, NumericValue, D)
  OBVIOUS
<1> HIDE DEF u, g, base, D
<1> DEFINE G == {T \in SUBSET D : g[T] = u[T]}
<1>8. ASSUME NEW T \in SUBSET D, \A x \in T : T \ {x} \in G
      PROVE  T \in G
  <2>1. g[T] = IF T = {} THEN base
               ELSE Attribute(g[T \ {Max(T)}], outcomes[Max(T)])
    BY <1>6
  <2>2. CASE T = {}
    BY <2>1, <2>2, <1>4
  <2>3. CASE T # {}
    BY <1>3, <1>8, <2>1, <2>3
  <2>4. QED
    BY <2>2, <2>3
<1>9. D \in G
  <2> HIDE DEF G
  <2>1. QED
    BY <1>2, <1>8, FiniteInduction
<1>10. QED
  BY <1>1, <1>7, <1>9 DEF D, Primary

-----------------------------------------------------------------------------
(***************************************************************************)
(* Each trace counts once (store.go:241-252).                              *)
(***************************************************************************)

(* Outcome i says something about trace t.                                 *)
Tells(i, t) ==
  /\ Considered(outcomes[i])
  /\ Numeric(outcomes[i].value) # None
  /\ TraceOf(outcomes[i]) = t

Telling(t) == {i \in DOMAIN outcomes : Tells(i, t)}

(* The value of a trace is that of the last outcome that tells of it.      *)
LEMMA PrimaryIsFinal ==
  ASSUME TypeOK, NEW t \in Traces
  PROVE  /\ Primary[t] \in Nat \cup {None}
         /\ Primary[t] # None <=> Telling(t) # {}
         /\ Primary[t] # None =>
              Primary[t] = Numeric(outcomes[Max(Telling(t))].value)
<1>1. t # None
  BY SummaryAssumption
<1>2. Marking(t, Bearing, DOMAIN outcomes) = Telling(t)
  BY <1>1 DEF Marking, Bearing, Telling, Tells
<1>3. Primary[t] = IF Telling(t) = {} THEN None ELSE NumericValue[Max(Telling(t))]
  BY <1>2, AttributedIsLast DEF LastOf
<1>4. CASE Telling(t) = {}
  BY <1>3, <1>4
<1>5. CASE Telling(t) # {}
  <2>1. Telling(t) \subseteq DOMAIN outcomes
    BY DEF Telling
  <2>2. IsFiniteSet(DOMAIN outcomes) /\ DOMAIN outcomes \subseteq Int
    BY Reported
  <2>3. Max(Telling(t)) \in Telling(t)
    BY <1>5, <2>1, <2>2, FS_Subset, MaxIsLast
  <2> DEFINE i == Max(Telling(t))
  <2>4. i \in DOMAIN outcomes /\ Numeric(outcomes[i].value) # None
    BY <2>3 DEF Telling, Tells
  <2> HIDE DEF i
  <2>5. Primary[t] = Numeric(outcomes[i].value)
    BY <1>3, <1>5, <2>4 DEF NumericValue, i
  <2>6. Numeric(outcomes[i].value) \in Nat \cup {None}
    BY <2>4, Values
  <2>7. QED
    BY <1>5, <2>4, <2>5, <2>6 DEF i
<1>6. QED
  BY <1>4, <1>5

(* Traces with production decisions are finitely many.                     *)
LEMMA ArmsFinite ==
  ASSUME LedgerInv
  PROVE  IsFiniteSet({t \in Traces : ArmIn(t, Recorded) # "none"})
<1> DEFINE A == {t \in Traces : ArmIn(t, Recorded) # "none"}
           B == {decisions[d].trace : d \in Recorded}
<1>1. IsFiniteSet(Recorded)
  BY DEF LedgerInv
<1>2. IsFiniteSet(B)
  <2> DEFINE f == [d \in Recorded |-> decisions[d].trace]
  <2>1. f \in Surjection(Recorded, B)
    BY DEF Surjection
  <2> HIDE DEF f, B
  <2>2. QED
    BY <1>1, <2>1, FS_Surjection
<1>3. A \subseteq B
  BY DEF ArmIn, StepsOf
<1>4. QED
  BY <1>2, <1>3, FS_Subset

(* The arm of a trace, in the words of the specification.                  *)
LEMMA ArmMeans ==
  ASSUME NEW t
  PROVE  LET Members == {d \in Production(t) : InScope(d)}
             Treated == \E d \in Members :
                          decisions[d].bucket \in {"treatment", "exploration"}
         IN /\ ArmIn(t, Recorded) = "treatment" <=> Members # {} /\ Treated
            /\ ArmIn(t, Recorded) = "control" <=> Members # {} /\ ~Treated
<1>1. StepsOf(t, Recorded) = {d \in Production(t) : InScope(d)}
  BY DEF StepsOf, Recorded, Production, Step, InScope
<1>2. QED
  BY <1>1 DEF ArmIn, Treats

(* The interval of an arm is made of the traces in it that were told of.   *)
LEMMA IntervalOfArm ==
  ASSUME LedgerInv, NEW name \in {"treatment", "control"}
  PROVE  LET T == {t \in Traces : ArmIn(t, Recorded) = name /\ Telling(t) # {}}
         IN Interval(Tally(Recorded).arm, Primary, name)
              = [n |-> Cardinality(T),
                 successes |->
                   SumFunctionOnSet([t \in T |-> Numeric(outcomes[Max(Telling(t))].value)],
                                    T)]
<1> DEFINE T == {t \in Traces : ArmIn(t, Recorded) = name /\ Telling(t) # {}}
           L == {t \in Traces : Tally(Recorded).arm[t] = name /\ Primary[t] # None}
           f == [t \in T |-> Numeric(outcomes[Max(Telling(t))].value)]
<1>1. TypeOK
  BY DEF LedgerInv
<1>2. L = T
  BY <1>1, PrimaryIsFinal DEF Tally
<1>3. IsFiniteSet(T)
  <2>1. T \subseteq {t \in Traces : ArmIn(t, Recorded) # "none"}
    OBVIOUS
  <2> HIDE DEF T
  <2>2. QED
    BY <2>1, ArmsFinite, FS_Subset
<1>4. \A t \in T : f[t] = Primary[t] /\ f[t] \in Nat
  BY <1>1, PrimaryIsFinal
<1>5. Interval(Tally(Recorded).arm, Primary, name)
        = [n |-> Cardinality(L), successes |-> SumFunctionOnSet(Primary, L)]
  BY DEF Interval
<1> HIDE DEF T, L, f
<1>6. SumFunctionOnSet(Primary, T) = SumFunctionOnSet(f, T)
  BY <1>3, <1>4, SumSame
<1>7. QED
  BY <1>2, <1>5, <1>6 DEF T, f

(* architecture.md:39-41, outcome-event-spec.md:50-51, store.go:199-252.   *)
(* However many decisions and outcomes a trace has, it counts once, in one *)
(* arm, with the last value reported.                                      *)
THEOREM TracesCountOnce == Spec => []CountedOncePerTrace
<1>1. LedgerInv => CountedOncePerTrace
  <2>1. SUFFICES ASSUME LedgerInv PROVE CountedOncePerTrace
    OBVIOUS
  <2> DEFINE Bears(i, t) == /\ Considered(outcomes[i])
                            /\ Numeric(outcomes[i].value) # None
                            /\ TraceOf(outcomes[i]) = t
             Members(t) == {d \in Production(t) : InScope(d)}
             Treated(t) == \E d \in Members(t) :
                             decisions[d].bucket \in {"treatment", "exploration"}
             Known(t) == Members(t) # {} /\ \E i \in DOMAIN outcomes : Bears(i, t)
             Final(t) == Max({i \in DOMAIN outcomes : Bears(i, t)})
             Expected(T) == [n |-> Cardinality(T),
                             successes |-> SumFunctionOnSet(
                                [t \in T |-> Numeric(outcomes[Final(t)].value)], T)]
  <2>2. Counted(AnyOrder) = Tally(Recorded)
    BY <2>1, AnyOrderTallies
  <2>3. \A t : /\ {i \in DOMAIN outcomes : Bears(i, t)} = Telling(t)
               /\ (\E i \in DOMAIN outcomes : Bears(i, t)) <=> Telling(t) # {}
    BY DEF Telling, Tells
  <2>4. \A t : Final(t) = Max(Telling(t))
    BY <2>3
  <2> DEFINE In(name) == {t \in Traces : ArmIn(t, Recorded) = name /\ Telling(t) # {}}
  <2>5. {t \in Traces : Known(t) /\ Treated(t)} = In("treatment")
    BY <2>3, ArmMeans
  <2>6. {t \in Traces : Known(t) /\ ~Treated(t)} = In("control")
    BY <2>3, ArmMeans
  <2>7. \A T : Expected(T)
                 = [n |-> Cardinality(T),
                    successes |->
                      SumFunctionOnSet([t \in T |-> Numeric(outcomes[Max(Telling(t))].value)],
                                       T)]
    BY <2>4
  <2>8. /\ Interval(Tally(Recorded).arm, Primary, "treatment")
             = [n |-> Cardinality(In("treatment")),
                successes |->
                  SumFunctionOnSet([t \in In("treatment") |->
                                      Numeric(outcomes[Max(Telling(t))].value)],
                                   In("treatment"))]
        /\ Interval(Tally(Recorded).arm, Primary, "control")
             = [n |-> Cardinality(In("control")),
                successes |->
                  SumFunctionOnSet([t \in In("control") |->
                                      Numeric(outcomes[Max(Telling(t))].value)],
                                   In("control"))]
    BY <2>1, IntervalOfArm
  <2> HIDE DEF In
  <2>9. /\ Interval(Tally(Recorded).arm, Primary, "treatment") = Expected(In("treatment"))
        /\ Interval(Tally(Recorded).arm, Primary, "control") = Expected(In("control"))
    BY <2>7, <2>8
  <2>10. /\ Summary(AnyOrder).treatment
              = Interval(Tally(Recorded).arm, Primary, "treatment")
         /\ Summary(AnyOrder).controlArm
              = Interval(Tally(Recorded).arm, Primary, "control")
    BY <2>2 DEF Summary
  <2>11. /\ Summary(AnyOrder).treatment
              = Expected({t \in Traces : Known(t) /\ Treated(t)})
         /\ Summary(AnyOrder).controlArm
              = Expected({t \in Traces : Known(t) /\ ~Treated(t)})
    BY <2>5, <2>6, <2>9, <2>10
  <2>12. QED
    BY <2>11 DEF CountedOncePerTrace
<1>2. QED
  BY <1>1, LedgerInvHolds, PTL

-----------------------------------------------------------------------------
(***************************************************************************)
(* The evaluator and the audit (evaluation.py:37-81), on a ledger that is  *)
(* all in scope and whose outcomes have a number between 0 and 1.          *)
(***************************************************************************)

Comparable ==
  /\ \A d \in Recorded : InScope(d)
  /\ \A i \in DOMAIN outcomes :
       /\ outcomes[i].inScope
       /\ Clamped(outcomes[i].value) = Numeric(outcomes[i].value)

(* Both give each trace the same value.                                    *)
LEMMA SameJoin ==
  ASSUME LedgerInv, Comparable
  PROVE  EvaluatedPrimary = Primary
<1>1. TypeOK /\ Named
  BY DEF LedgerInv
<1>2. ASSUME NEW i \in DOMAIN outcomes
      PROVE  /\ ClampedValue[i] = NumericValue[i]
             /\ Joining[i] = Bearing[i]
  <2>1. /\ Clamped(outcomes[i].value) = Numeric(outcomes[i].value)
        /\ outcomes[i].typed <=> Considered(outcomes[i])
    BY DEF Comparable, Considered
  <2>2. /\ NamedTraceOf(outcomes[i]) = TraceOf(outcomes[i])
        /\ TraceOf(outcomes[i]) # None
    <3>1. CASE outcomes[i].trace # None
      BY <3>1 DEF NamedTraceOf, TraceOf
    <3>2. CASE outcomes[i].trace = None
      <4>1. outcomes[i].decision # None
        BY <1>1, <3>2, Reported
      <4>2. outcomes[i].decision \in Recorded
        BY <1>1, <4>1 DEF Named
      <4>3. InScope(outcomes[i].decision)
        BY <4>2 DEF Comparable
      <4>4. decisions[outcomes[i].decision].trace # None
        BY <1>1, <4>2, Recording, SummaryAssumption
      <4>5. QED
        BY <3>2, <4>1, <4>3, <4>4 DEF NamedTraceOf, TraceOf
    <3>3. QED
      BY <3>1, <3>2
  <2>3. QED
    BY <2>1, <2>2 DEF ClampedValue, NumericValue, Joining, Bearing
<1>3. ClampedValue = NumericValue /\ Joining = Bearing
  <2>1. /\ ClampedValue = [i \in DOMAIN outcomes |-> ClampedValue[i]]
        /\ NumericValue = [i \in DOMAIN outcomes |-> NumericValue[i]]
    BY DEF ClampedValue, NumericValue
  <2>2. /\ Joining = [i \in DOMAIN outcomes |-> Joining[i]]
        /\ Bearing = [i \in DOMAIN outcomes |-> Bearing[i]]
    BY DEF Joining, Bearing
  <2>3. QED
    BY <1>2, <2>1, <2>2
<1>4. QED
  BY <1>1, <1>3, EvaluatedPrimaryIsLast, AttributedIsLast

(* The traces and the decisions of an arm, as the evaluator groups them.   *)
Grouped(name) == {t \in Traces : Production(t) # {} /\ Group(t) = name}
MembersOf(name) == UNION {Production(t) : t \in Grouped(name)}

(* Both put each trace into the same arm.                                  *)
LEMMA SameArms ==
  ASSUME LedgerInv, Comparable, NEW name \in {"treatment", "control"}
  PROVE  Grouped(name) = {t \in Traces : ArmIn(t, Recorded) = name}
<1>1. \A t : Production(t) = StepsOf(t, Recorded)
  BY DEF Comparable, Production, StepsOf, Recorded, Step
<1>2. QED
  BY <1>1 DEF Grouped, Group, ArmIn, Treats

(* The decisions of the two arms are the production steps.                 *)
LEMMA ArmsPartition ==
  ASSUME LedgerInv, Comparable
  PROVE  /\ MembersOf("treatment") \cup MembersOf("control") = Steps
         /\ MembersOf("treatment") \cap MembersOf("control") = {}
<1>1. TypeOK
  BY DEF LedgerInv
<1>2. \A t : \A d \in Production(t) : d \in Steps /\ decisions[d].trace = t
  BY DEF Comparable, Production, Steps, Recorded, Step
<1>3. \A d \in Steps : /\ decisions[d].trace \in Traces
                       /\ d \in Production(decisions[d].trace)
  <2>1. TAKE d \in Steps
  <2>2. d \in Recorded /\ Step(d)
    BY DEF Steps
  <2>3. decisions[d].trace \in Traces
    BY <1>1, <2>2, Recording
  <2>4. QED
    BY <2>2, <2>3 DEF Production, Recorded, Step
<1>4. \A d \in Steps : \A name : Group(decisions[d].trace) = name =>
                                   d \in MembersOf(name)
  <2>1. TAKE d \in Steps
  <2>2. TAKE name
  <2>3. HAVE Group(decisions[d].trace) = name
  <2>4. decisions[d].trace \in Grouped(name)
    BY <1>3, <2>3 DEF Grouped
  <2>5. QED
    BY <1>3, <2>4 DEF MembersOf
<1>5. \A name : \A d \in MembersOf(name) : d \in Steps
                                           /\ Group(decisions[d].trace) = name
  <2>1. TAKE name
  <2>2. TAKE d \in MembersOf(name)
  <2>3. PICK t \in Grouped(name) : d \in Production(t)
    BY DEF MembersOf
  <2>4. QED
    BY <1>2, <2>3 DEF Grouped
<1>6. \A t : Group(t) = "treatment" \/ Group(t) = "control"
  BY DEF Group
<1>7. QED
  BY <1>4, <1>5, <1>6

(* What is summed over the steps is the sum of what the arms come to.      *)
LEMMA SumOfArms ==
  ASSUME LedgerInv, Comparable, NEW f, \A d \in Steps : f[d] \in Nat,
         NEW g, \A d \in MembersOf("treatment") : g[d] = f[d],
         NEW h, \A d \in MembersOf("control") : h[d] = f[d]
  PROVE  SumFunctionOnSet(f, Steps)
           = SumFunctionOnSet(g, MembersOf("treatment"))
               + SumFunctionOnSet(h, MembersOf("control"))
<1> DEFINE T == MembersOf("treatment")
           C == MembersOf("control")
<1>1. T \cup C = Steps /\ T \cap C = {}
  BY ArmsPartition
<1>2. IsFiniteSet(Steps)
  BY StepsFacts
<1> HIDE DEF T, C
<1>3. IsFiniteSet(T) /\ IsFiniteSet(C)
  BY <1>1, <1>2, FS_Subset, T \in SUBSET Steps, C \in SUBSET Steps
<1>4. SumFunctionOnSet(f, T \cup C) = SumFunctionOnSet(f, T) + SumFunctionOnSet(f, C)
  BY <1>1, <1>3, SumUnion
<1>5. /\ \A d \in T : f[d] \in Nat /\ g[d] \in Nat /\ f[d] = g[d]
      /\ \A d \in C : f[d] \in Nat /\ h[d] \in Nat /\ f[d] = h[d]
  BY <1>1 DEF T, C
<1>6. SumFunctionOnSet(f, T) = SumFunctionOnSet(g, T)
  BY <1>3, <1>5, SumSame
<1>7. SumFunctionOnSet(f, C) = SumFunctionOnSet(h, C)
  BY <1>3, <1>5, SumSame
<1>8. QED
  BY <1>1, <1>4, <1>6, <1>7 DEF T, C

(* What the evaluator makes of an arm.                                     *)
LEMMA EvaluatedIs ==
  ASSUME LedgerInv, Comparable, NEW name \in {"treatment", "control"}
  PROVE  /\ Evaluated(name).n = Interval(Tally(Recorded).arm, Primary, name).n
         /\ Evaluated(name).successes
              = Interval(Tally(Recorded).arm, Primary, name).successes
         /\ Evaluated(name).cost
              = SumFunctionOnSet([d \in MembersOf(name) |-> CostOf(decisions[d])],
                                 MembersOf(name))
         /\ Evaluated(name).incumbent
              = SumFunctionOnSet([d \in MembersOf(name) |-> decisions[d].incumbentCost],
                                 MembersOf(name))
<1>1. FoldLeft(JoinOutcome, [t \in Traces |-> None], outcomes) = Primary
  BY SameJoin DEF EvaluatedPrimary
<1>2. {t \in Traces : Production(t) # {} /\ Group(t) = name} = Grouped(name)
  BY DEF Grouped
<1>3. {t \in Grouped(name) : Primary[t] # None}
        = {t \in Traces : Tally(Recorded).arm[t] = name /\ Primary[t] # None}
  BY SameArms DEF Tally
<1> DEFINE L == {t \in Grouped(name) : Primary[t] # None}
<1>4. Interval(Tally(Recorded).arm, Primary, name)
        = [n |-> Cardinality(L), successes |-> SumFunctionOnSet(Primary, L)]
  BY <1>3 DEF Interval
<1>5. Evaluated(name)
        = [n |-> Cardinality(L), successes |-> SumFunctionOnSet(Primary, L),
           cost |-> SumFunctionOnSet([d \in MembersOf(name) |-> CostOf(decisions[d])],
                                     MembersOf(name)),
           incumbent |->
             SumFunctionOnSet([d \in MembersOf(name) |-> decisions[d].incumbentCost],
                              MembersOf(name))]
  BY <1>1, <1>2 DEF Evaluated, MembersOf
<1> HIDE DEF L
<1>6. QED
  BY <1>4, <1>5

(* README.md:181, evaluation.py:37-81.  On a ledger that holds nothing but *)
(* what the audit was asked for, decisions and outcomes alike, and whose   *)
(* outcomes are numbers between 0 and 1, the evaluator and the audit come  *)
(* to the same arms, successes and costs.                                  *)
THEOREM EvaluatorsAgree == Spec => []EvaluatorAgrees
<1>1. LedgerInv => EvaluatorAgrees
  <2>1. SUFFICES ASSUME LedgerInv, Comparable
                 PROVE  LET summary == Summary(AnyOrder)
                            treatment == Evaluated("treatment")
                            control == Evaluated("control")
                        IN /\ summary.treatment.n = treatment.n
                           /\ summary.treatment.successes = treatment.successes
                           /\ summary.controlArm.n = control.n
                           /\ summary.controlArm.successes = control.successes
                           /\ summary.counted.actual = treatment.cost + control.cost
                           /\ summary.counted.incumbent
                                = treatment.incumbent + control.incumbent
    BY DEF EvaluatorAgrees, Comparable
  <2>2. Counted(AnyOrder) = Tally(Recorded)
    BY <2>1, AnyOrderTallies
  <2>3. /\ Summary(AnyOrder).treatment
             = Interval(Tally(Recorded).arm, Primary, "treatment")
        /\ Summary(AnyOrder).controlArm
             = Interval(Tally(Recorded).arm, Primary, "control")
        /\ Summary(AnyOrder).counted = Tally(Recorded)
    BY <2>2 DEF Summary
  <2>4. /\ Tally(Recorded).actual = SumFunctionOnSet(Cost, Recorded)
        /\ Tally(Recorded).incumbent = SumFunctionOnSet(Baseline, Recorded)
    BY DEF Tally
  <2> DEFINE C == [d \in Steps |-> CostOf(decisions[d])]
             B == [d \in Steps |-> decisions[d].incumbentCost]
             CostsOf(name) == [d \in MembersOf(name) |-> CostOf(decisions[d])]
             BaselinesOf(name) == [d \in MembersOf(name) |-> decisions[d].incumbentCost]
  <2>5. /\ SumFunctionOnSet(Cost, Recorded) = SumFunctionOnSet(C, Steps)
        /\ SumFunctionOnSet(Baseline, Recorded) = SumFunctionOnSet(B, Steps)
    BY <2>1, BillTotals
  <2>6. \A d \in Steps : C[d] \in Nat /\ B[d] \in Nat
    BY <2>1, StepsFacts
  <2>7. \A name \in {"treatment", "control"} :
          \A d \in MembersOf(name) : /\ CostsOf(name)[d] = C[d]
                                     /\ BaselinesOf(name)[d] = B[d]
    BY <2>1, ArmsPartition
  <2> DEFINE CT == CostsOf("treatment")
             CC == CostsOf("control")
             BT == BaselinesOf("treatment")
             BC == BaselinesOf("control")
  <2>8. /\ \A d \in MembersOf("treatment") : CT[d] = C[d] /\ BT[d] = B[d]
        /\ \A d \in MembersOf("control") : CC[d] = C[d] /\ BC[d] = B[d]
    BY <2>7
  <2>9. /\ Evaluated("treatment").cost = SumFunctionOnSet(CT, MembersOf("treatment"))
        /\ Evaluated("control").cost = SumFunctionOnSet(CC, MembersOf("control"))
        /\ Evaluated("treatment").incumbent
             = SumFunctionOnSet(BT, MembersOf("treatment"))
        /\ Evaluated("control").incumbent = SumFunctionOnSet(BC, MembersOf("control"))
    BY <2>1, EvaluatedIs
  <2> HIDE DEF C, B, CT, CC, BT, BC
  <2>10. SumFunctionOnSet(C, Steps)
           = SumFunctionOnSet(CT, MembersOf("treatment"))
               + SumFunctionOnSet(CC, MembersOf("control"))
    BY <2>1, <2>6, <2>8, SumOfArms
  <2>11. SumFunctionOnSet(B, Steps)
           = SumFunctionOnSet(BT, MembersOf("treatment"))
               + SumFunctionOnSet(BC, MembersOf("control"))
    BY <2>1, <2>6, <2>8, SumOfArms
  <2>12. /\ Summary(AnyOrder).treatment.n = Evaluated("treatment").n
         /\ Summary(AnyOrder).treatment.successes = Evaluated("treatment").successes
         /\ Summary(AnyOrder).controlArm.n = Evaluated("control").n
         /\ Summary(AnyOrder).controlArm.successes = Evaluated("control").successes
    BY <2>1, <2>3, EvaluatedIs
  <2>13. QED
    BY <2>3, <2>4, <2>5, <2>9, <2>10, <2>11, <2>12
<1>2. QED
  BY <1>1, LedgerInvHolds, PTL
=============================================================================
