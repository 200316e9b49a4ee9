--------------------------- MODULE RoutingProofs ---------------------------
(***************************************************************************)
(* Proofs about Routing, for every catalog, every set of policies and every*)
(* hash.                                                                   *)
(*                                                                         *)
(* The holdout and the exploration cap follow from what a stored decision  *)
(* still knows of the policy and the request it was made with, whatever was*)
(* published since (Kept), and from the cap every policy in force obeys.   *)
(* What is routed to, the cheapest candidate that qualified, needs that the*)
(* ranking has a first element for every list of candidates.               *)
(***************************************************************************)
EXTENDS Routing, FiniteSetTheorems, TLAPS

Capped(p) ==
  /\ p \in Policies
  /\ p.exploration \in 0..Buckets
  /\ p.exploration * 100 <= 3 * Buckets

Kept(t) ==
  LET d == decisions[t]
  IN  d # None =>
        /\ d.request \in Requests
        /\ d.request.trace = t
        /\ Capped(d.policy)
        /\ RoutedLive(d) =>
             (d.bucket = "control" <=> HeldOut(d.policy, d.request))
        /\ d.bucket = "exploration" => Explores(d.policy, d.request)

ArmInv ==
  /\ Capped(policy)
  /\ decisions = [t \in Traces |-> decisions[t]]
  /\ \A t \in Traces : Kept(t)

-----------------------------------------------------------------------------
(* What the fields of a fresh decision say (engine.go:71-132).             *)
LEMMA DecidedKept ==
  ASSUME NEW q \in Requests, Capped(policy)
  PROVE  LET d == Decided(policy, q)
         IN  /\ d.policy = policy
             /\ d.request = q
             /\ RoutedLive(d) => (d.bucket = "control" <=> HeldOut(policy, q))
             /\ d.bucket = "exploration" => Explores(policy, q)
<1> DEFINE d == Decided(policy, q)
<1>1. d.policy = policy /\ d.request = q /\ d.bucket = Arm(policy, q)
  BY DEF Decided
<1>2. ~policy.drifted /\ policy.mode \in Live =>
        (Arm(policy, q) = "control" <=> HeldOut(policy, q))
  BY DEF Arm
<1>3. Arm(policy, q) = "exploration" => Explores(policy, q)
  BY DEF Arm
<1> QED  BY <1>1, <1>2, <1>3 DEF RoutedLive

(* Routing replaces the decision of one trace by a fresh one.              *)
LEMMA RouteKeeps ==
  ASSUME ArmInv, NEW q \in Requests, Route(q)
  PROVE  ArmInv'
<1>1. q.trace \in Traces  BY RoutingAssumption
<1>2. /\ decisions' = [decisions EXCEPT ![q.trace] = Decided(policy, q)]
      /\ policy' = policy
  BY DEF Route
<1>3. decisions' = [t \in Traces |-> decisions'[t]]
  BY <1>2 DEF ArmInv
<1>4. ASSUME NEW t \in Traces  PROVE Kept(t)'
  <2>1. CASE t # q.trace
    <3>1. decisions'[t] = decisions[t]  BY <2>1, <1>2 DEF ArmInv
    <3>2. Kept(t)  BY DEF ArmInv
    <3> QED  BY <3>1, <3>2 DEF Kept, Capped, RoutedLive, HeldOut, Explores
  <2>2. CASE t = q.trace
    <3>1. decisions'[t] = Decided(policy, q)  BY <2>2, <1>2 DEF ArmInv
    <3>2. Capped(policy)  BY DEF ArmInv
    <3> DEFINE d == Decided(policy, q)
    <3>3. /\ d.policy = policy
          /\ d.request = q
          /\ RoutedLive(d) => (d.bucket = "control" <=> HeldOut(policy, q))
          /\ d.bucket = "exploration" => Explores(policy, q)
      BY <3>2, DecidedKept
    <3>4. decisions'[t] = d  BY <3>1
    <3> HIDE DEF d
    <3>5. (RoutedLive(decisions[t]))' = RoutedLive(d)
      BY <3>4 DEF RoutedLive
    <3>6. /\ (HeldOut(decisions[t].policy, decisions[t].request))'
               = HeldOut(policy, q)
          /\ (Explores(decisions[t].policy, decisions[t].request))'
               = Explores(policy, q)
          /\ Capped(decisions[t].policy)' = Capped(policy)
      BY <3>3, <3>4 DEF HeldOut, Explores, Capped
    <3> QED
      BY <2>2, <3>2, <3>3, <3>4, <3>5, <3>6 DEF Kept
  <2> QED  BY <2>1, <2>2
<1> QED  BY <1>2, <1>3, <1>4 DEF ArmInv, Capped

(* Publishing validates the cap; nothing else touches policy or decisions. *)
LEMMA OthersKeep ==
  ASSUME ArmInv, decisions' = decisions,
         policy' = policy \/ Capped(policy')
  PROVE  ArmInv'
<1>1. ASSUME NEW t \in Traces  PROVE Kept(t)'
  BY DEF ArmInv, Kept, Capped, RoutedLive, HeldOut, Explores
<1> QED  BY <1>1 DEF ArmInv, Capped

LEMMA ArmInvHolds == Spec => []ArmInv
<1>1. Init => ArmInv
  BY RoutingAssumption DEF Init, ArmInv, Kept, Capped
<1>2. ArmInv /\ [Next]_vars => ArmInv'
  <2> SUFFICES ASSUME ArmInv, [Next]_vars  PROVE ArmInv'  OBVIOUS
  <2>1. CASE \E q \in Requests : Route(q)  BY <2>1, RouteKeeps
  <2>2. ASSUME NEW p \in Policies, Publish(p)  PROVE ArmInv'
    <3>1. Capped(policy') /\ decisions' = decisions
      BY <2>2 DEF Publish, Valid, Capped
    <3> QED  BY <3>1, OthersKeep
  <2>3. CASE \E P \in SUBSET Providers : HealthChanges(P)
    BY <2>3, OthersKeep DEF HealthChanges
  <2>4. CASE \E L \in Listings : Redeploy(L)  BY <2>4, OthersKeep DEF Redeploy
  <2>5. CASE UNCHANGED vars  BY <2>5, OthersKeep DEF vars
  <2> QED  BY <2>1, <2>2, <2>3, <2>4, <2>5 DEF Next
<1> QED  BY <1>1, <1>2, PTL DEF Spec
-----------------------------------------------------------------------------
(* types.go:284-286; README.md:199-200.  No request that is not low-risk   *)
(* is explored, and no trace beyond 3% of the hash space, whatever is      *)
(* published, however circuits and catalogs change.                        *)
THEOREM ExplorationStaysLimited == Spec => []ExplorationLimited
<1>1. ArmInv => ExplorationLimited
  <2> SUFFICES ASSUME ArmInv, NEW t \in Traces, decisions[t] # None,
                      decisions[t].bucket = "exploration"
               PROVE  /\ decisions[t].request.risk = "low"
                      /\ Hash.explore[decisions[t].request.trace,
                                      decisions[t].policy.version] * 100
                           < 3 * Buckets
    BY DEF ExplorationLimited, Made
  <2> DEFINE p == decisions[t].policy
             q == decisions[t].request
  <2>1. /\ q \in Requests
        /\ Capped(p)
        /\ Explores(p, q)
    BY DEF ArmInv, Kept
  <2>2. q.trace \in Traces /\ p.version \in Versions
    BY <2>1, RoutingAssumption DEF Capped
  <2>3. Hash.explore[q.trace, p.version] \in 0..(Buckets - 1)
    <3>1. Hash.explore \in [Traces \X Versions -> 0..(Buckets - 1)]
      BY RoutingAssumption DEF HashType
    <3> QED  BY <2>2, <3>1
  <2>4. Hash.explore[q.trace, p.version] < p.exploration
    BY <2>1 DEF Explores
  <2> DEFINE h == Hash.explore[q.trace, p.version]
             x == p.exploration
  <2>5. /\ Buckets \in Nat
        /\ h \in 0..(Buckets - 1)
        /\ h < x
        /\ x \in 0..Buckets
        /\ x * 100 <= 3 * Buckets
    <3>1. Buckets \in Nat  BY RoutingAssumption
    <3>2. x \in 0..Buckets /\ x * 100 <= 3 * Buckets  BY <2>1 DEF Capped
    <3> QED  BY <2>3, <2>4, <3>1, <3>2
  <2>6. h * 100 < 3 * Buckets
    <3> HIDE DEF h, x
    <3> QED  BY <2>5
  <2> QED  BY <2>1, <2>6 DEF Explores
<1> QED  BY <1>1, ArmInvHolds, PTL

(* engine.go:86-90; docs/policy-spec.md:3, 20.  Where a version means one  *)
(* control percentage, no step moves a trace into or out of the holdout of *)
(* a version.  The code does not enforce the premise.                      *)
THEOREM HoldoutStaysPut ==
  ASSUME \A p, r \in Policies : p.version = r.version => p.control = r.control
  PROVE  Spec => HoldoutSticky
<1> DEFINE Sticky(t) ==
      LET d == decisions[t]
          e == decisions'[t]
      IN  /\ RoutedLive(d)
          /\ RoutedLive(e)
          /\ d.policy.version = e.policy.version
          => (d.bucket = "control" <=> e.bucket = "control")
<1>1. ArmInv /\ ArmInv' /\ [Next]_vars => \A t \in Traces : Sticky(t)
  <2> SUFFICES ASSUME ArmInv, ArmInv', NEW t \in Traces,
                      RoutedLive(decisions[t]), RoutedLive(decisions'[t]),
                      decisions[t].policy.version = decisions'[t].policy.version
               PROVE  decisions[t].bucket = "control" <=>
                        decisions'[t].bucket = "control"
    OBVIOUS
  <2> DEFINE d == decisions[t]
             e == decisions'[t]
  <2>1. /\ d.policy \in Policies /\ d.request.trace = t
        /\ d.bucket = "control" <=> HeldOut(d.policy, d.request)
    BY DEF ArmInv, Kept, Capped, RoutedLive
  <2>2. /\ e.policy \in Policies /\ e.request.trace = t
        /\ e.bucket = "control" <=> HeldOut(e.policy, e.request)
    BY DEF ArmInv, Kept, Capped, RoutedLive, HeldOut
  <2>3. HeldOut(d.policy, d.request) <=> HeldOut(e.policy, e.request)
    BY <2>1, <2>2 DEF HeldOut
  <2> QED  BY <2>1, <2>2, <2>3
<1> QED  BY <1>1, ArmInvHolds, PTL DEF Spec, HoldoutSticky
-----------------------------------------------------------------------------
Predecessors(Q, R, i) == {j \in Q : <<j, i>> \in R}

(* A strict total order on a finite set has an element of every rank: the  *)
(* numbers of predecessors are all different.                              *)
LEMMA RankExists ==
  ASSUME NEW Q, IsFiniteSet(Q), NEW R,
         \A i \in Q : <<i, i>> \notin R,
         \A i, j, k \in Q : <<i, j>> \in R /\ <<j, k>> \in R => <<i, k>> \in R,
         \A i, j \in Q : i = j \/ <<i, j>> \in R \/ <<j, i>> \in R,
         NEW rank \in 0..(Cardinality(Q) - 1)
  PROVE  \E i \in Q : Cardinality(Predecessors(Q, R, i)) = rank
<1> USE DEF Predecessors
<1> DEFINE n == Cardinality(Q)
           P(i) == Predecessors(Q, R, i)
           Ranks == (0..(n - 1)) \ {rank}
<1>1. n \in Nat  BY FS_CardinalityType
<1>2. ASSUME NEW i \in Q
      PROVE  IsFiniteSet(P(i)) /\ Cardinality(P(i)) \in 0..(n - 1)
  <2>1. IsFiniteSet(Q \ {i}) /\ Cardinality(Q \ {i}) = n - 1
    BY FS_RemoveElement
  <2>2. P(i) \in SUBSET (Q \ {i})  OBVIOUS
  <2>3. IsFiniteSet(P(i)) /\ Cardinality(P(i)) <= n - 1
    <3>1. IsFiniteSet(P(i)) /\ Cardinality(P(i)) <= Cardinality(Q \ {i})
      <4> HIDE DEF P
      <4> QED  BY <2>1, <2>2, FS_Subset
    <3> QED  BY <2>1, <3>1
  <2>4. Cardinality(P(i)) \in Nat  BY <2>3, FS_CardinalityType
  <2> HIDE DEF P, n
  <2> QED  BY <1>1, <2>3, <2>4
<1>3. ASSUME NEW i \in Q, NEW j \in Q, <<i, j>> \in R
      PROVE  Cardinality(P(i)) < Cardinality(P(j))
  <2>1. P(i) \in SUBSET (P(j) \ {i}) /\ i \in P(j)  BY <1>3
  <2>2. /\ IsFiniteSet(P(j) \ {i})
        /\ Cardinality(P(j) \ {i}) = Cardinality(P(j)) - 1
    BY <2>1, <1>2, FS_RemoveElement
  <2>3. Cardinality(P(i)) <= Cardinality(P(j) \ {i})
    <3> HIDE DEF P
    <3> QED  BY <2>1, <2>2, FS_Subset
  <2>4. Cardinality(P(i)) \in Int /\ Cardinality(P(j)) \in Int
    <3> HIDE DEF P
    <3>1. Cardinality(P(i)) \in 0..(n - 1) /\ Cardinality(P(j)) \in 0..(n - 1)
      BY <1>2
    <3> HIDE DEF n
    <3> QED  BY <3>1
  <2> HIDE DEF P
  <2> QED  BY <2>2, <2>3, <2>4
<1> SUFFICES ASSUME \A i \in Q : Cardinality(P(i)) # rank  PROVE FALSE
  OBVIOUS
<1>4. IsFiniteSet(Ranks) /\ Cardinality(Ranks) < n
  <2>1. IsFiniteSet(0..(n - 1)) /\ Cardinality(0..(n - 1)) = n
    BY <1>1, FS_Interval
  <2>2. rank \in 0..(n - 1)  OBVIOUS
  <2>3. /\ IsFiniteSet((0..(n - 1)) \ {rank})
        /\ Cardinality((0..(n - 1)) \ {rank}) = Cardinality(0..(n - 1)) - 1
    <3> HIDE DEF n
    <3> QED  BY <2>1, <2>2, FS_RemoveElement
  <2> QED  BY <1>1, <2>1, <2>3
<1> DEFINE f == [i \in Q |-> Cardinality(P(i))]
<1>5. f \in [Q -> Ranks]  BY <1>2
<1>6. PICK x, y \in Q : x # y /\ f[x] = f[y]
  <2> HIDE DEF f, Ranks
  <2> QED  BY <1>4, <1>5, FS_PigeonHole
<1>7. Cardinality(P(x)) = Cardinality(P(y))  BY <1>6
<1>8. <<x, y>> \in R \/ <<y, x>> \in R  BY <1>6
<1>9. \/ Cardinality(P(x)) < Cardinality(P(y))
      \/ Cardinality(P(y)) < Cardinality(P(x))
  <2> HIDE DEF P
  <2> QED  BY <1>3, <1>8
<1>10. Cardinality(P(x)) \in 0..(n - 1)  BY <1>2
<1> HIDE DEF P, n
<1> QED  BY <1>7, <1>9, <1>10

(* A bucket of the arm hash picks a position among n candidates.           *)
LEMMA PositionInRange ==
  ASSUME NEW h \in 0..(Buckets - 1), NEW n \in Nat \ {0}
  PROVE  (h * n) \div Buckets \in 0..(n - 1)
<1> DEFINE b == Buckets
<1>1. b \in Nat /\ b > 0 /\ h \in Nat /\ h <= b - 1  BY RoutingAssumption
<1> HIDE DEF b
<1>2. h * n \in Nat /\ h * n <= (b - 1) * n  BY <1>1
<1>3. (b - 1) * n < b * n  BY <1>1
<1>4. h * n < n * b  BY <1>1, <1>2, <1>3
<1> DEFINE k == h * n
<1>5. k \in Nat /\ k < n * b  BY <1>2, <1>4
<1> HIDE DEF k
<1>6. k \div b \in 0..(n - 1)  BY <1>1, <1>5
<1> QED  BY <1>6 DEF k, b

(* The estimates of a listed model are numbers (engine.go:169-204).        *)
LEMMA ClampBounds ==
  ASSUME NEW v \in Int
  PROVE  Clamp(v, 0, 1000) \in 0..1000 /\ Clamp(v, 5, 500) \in 5..500
BY DEF Clamp

LEMMA EstimatesTyped ==
  ASSUME NEW p \in Policies, NEW m \in Models, NEW q \in Requests
  PROVE  /\ EstimatedCost(m, q) \in Int
         /\ Success(p, m, q) \in 0..1000
         /\ LowerBound(p, m, q) \in 0..1000
<1>1. EstimatedCost(m, q) \in Int  BY NumbersAssumption DEF EstimatedCost
<1>2. WorkflowScore(p, m, q) \in ScoreType
  <2>1. Prior(m) \in ScoreType  BY NumbersAssumption DEF Prior, ScoreType
  <2> QED  BY <2>1, NumbersAssumption DEF WorkflowScore
<1>3. q.risk \in RiskClasses  BY RoutingAssumption
<1>4. Success(p, m, q) \in 0..1000
  <2>1. WorkflowScore(p, m, q).rate[q.risk] \in Int
    BY <1>2, <1>3 DEF ScoreType
  <2> DEFINE v == WorkflowScore(p, m, q).rate[q.risk]
  <2>2. Success(p, m, q) = Clamp(v, 0, 1000)  BY DEF Success
  <2>3. v \in Int  BY <2>1
  <2> HIDE DEF v
  <2>4. Clamp(v, 0, 1000) \in 0..1000  BY <2>3, ClampBounds, SMTT(30)
  <2> QED  BY <2>2, <2>4
<1>5. LowerBound(p, m, q) \in 0..1000
  <2>1. Clamp(WorkflowScore(p, m, q).uncertainty, 5, 500) \in Int
    BY <1>2, ClampBounds DEF ScoreType
  <2>2. p.confidenceZ \in Int  BY NumbersAssumption
  <2>3. Success(p, m, q) \in Int  BY <1>4
  <2> DEFINE c == Clamp(WorkflowScore(p, m, q).uncertainty, 5, 500)
             v == Success(p, m, q) - p.confidenceZ * c
  <2>4. v \in Int
    <3>1. c \in Int  BY <2>1
    <3> HIDE DEF c
    <3> QED  BY <2>2, <2>3, <3>1
  <2>5. LowerBound(p, m, q) = Clamp(v, 0, 1000)  BY DEF LowerBound
  <2> HIDE DEF v
  <2>6. Clamp(v, 0, 1000) \in 0..1000  BY <2>4, ClampBounds, SMTT(30)
  <2> QED  BY <2>5, <2>6
<1> QED  BY <1>1, <1>4, <1>5

LEMMA QualifiedFacts ==
  ASSUME NEW p \in Policies, NEW q \in Requests, listed \subseteq Models
  PROVE  /\ IsFiniteSet(Qualified(p, q))
         /\ \A i \in Qualified(p, q) :
              /\ i \in DOMAIN p.candidates
              /\ i \in Int
              /\ p.candidates[i] \in Models
              /\ Eligible(p, p.candidates[i], q)
              /\ LowerBound(p, p.candidates[i], q) >= QualityFloor(p, q)
<1>1. PICK n \in Nat : DOMAIN p.candidates = 1..n
  <2>1. p.candidates \in Seq(SeqRange(p.candidates))  BY NumbersAssumption
  <2> QED  BY <2>1
<1>2. IsFiniteSet(1..n)  BY FS_Interval
<1>3. Qualified(p, q) \in SUBSET (1..n)  BY <1>1 DEF Qualified
<1>4. IsFiniteSet(Qualified(p, q))  BY <1>2, <1>3, FS_Subset
<1>5. ASSUME NEW i \in Qualified(p, q)
      PROVE  /\ i \in DOMAIN p.candidates
             /\ i \in Int
             /\ p.candidates[i] \in Models
             /\ Eligible(p, p.candidates[i], q)
             /\ LowerBound(p, p.candidates[i], q) >= QualityFloor(p, q)
  <2>1. /\ i \in DOMAIN p.candidates
        /\ Eligible(p, p.candidates[i], q)
        /\ LowerBound(p, p.candidates[i], q) >= QualityFloor(p, q)
    BY DEF Qualified
  <2>2. i \in Int  BY <1>3
  <2>3. p.candidates[i] \in Models  BY <2>1 DEF Eligible
  <2> QED  BY <2>1, <2>2, <2>3
<1> QED  BY <1>4, <1>5

(* sort.SliceStable at engine.go:104-112 orders the qualified candidates   *)
(* totally, so every position has one of them.                             *)
LEMMA RankedIsQualified ==
  ASSUME NEW p \in Policies, NEW q \in Requests, listed \subseteq Models,
         NEW rank \in 0..(Cardinality(Qualified(p, q)) - 1)
  PROVE  \E i \in Qualified(p, q) :
           /\ Ranked(p, q, rank) = p.candidates[i]
           /\ Cardinality({j \in Qualified(p, q) : Before(p, q, j, i)}) = rank
<1> DEFINE Q == Qualified(p, q)
           cost(i) == EstimatedCost(p.candidates[i], q)
           bound(i) == LowerBound(p, p.candidates[i], q)
           R == {x \in Q \X Q : Before(p, q, x[1], x[2])}
<1>1. \A i \in Q : i \in Int /\ cost(i) \in Int /\ bound(i) \in Int
  BY QualifiedFacts, EstimatesTyped
<1>2. \A i, j \in Q : <<i, j>> \in R <=>
        \/ cost(i) < cost(j)
        \/ /\ cost(i) = cost(j)
           /\ bound(i) > bound(j) \/ (bound(i) = bound(j) /\ i < j)
  BY DEF Before
<1>3. /\ \A i \in Q : <<i, i>> \notin R
      /\ \A i, j, k \in Q : <<i, j>> \in R /\ <<j, k>> \in R => <<i, k>> \in R
      /\ \A i, j \in Q : i = j \/ <<i, j>> \in R \/ <<j, i>> \in R
  <2> HIDE DEF Q, R, cost, bound
  <2>1. \A i \in Q : <<i, i>> \notin R  BY <1>1, <1>2
  <2>2. ASSUME NEW i \in Q, NEW j \in Q, NEW k \in Q,
               <<i, j>> \in R, <<j, k>> \in R
        PROVE  <<i, k>> \in R
    BY <1>1, <1>2, <2>2
  <2>3. ASSUME NEW i \in Q, NEW j \in Q
        PROVE  i = j \/ <<i, j>> \in R \/ <<j, i>> \in R
    <3>1. /\ {i, j, cost(i), cost(j), bound(i), bound(j)} \subseteq Int
          /\ <<i, j>> \in R <=>
               \/ cost(i) < cost(j)
               \/ /\ cost(i) = cost(j)
                  /\ bound(i) > bound(j) \/ (bound(i) = bound(j) /\ i < j)
          /\ <<j, i>> \in R <=>
               \/ cost(j) < cost(i)
               \/ /\ cost(j) = cost(i)
                  /\ bound(j) > bound(i) \/ (bound(j) = bound(i) /\ j < i)
      BY <1>1, <1>2
    <3> QED  BY <3>1
  <2> QED  BY <2>1, <2>2, <2>3
<1>4. IsFiniteSet(Q) /\ rank \in 0..(Cardinality(Q) - 1)  BY QualifiedFacts
<1>5. \E i \in Q : Cardinality(Predecessors(Q, R, i)) = rank
  <2> HIDE DEF Q, R
  <2> QED  BY <1>3, <1>4, RankExists
<1>6. \A i \in Q : Predecessors(Q, R, i) = {j \in Q : Before(p, q, j, i)}
  BY DEF Predecessors
<1>7. \E i \in Q : Cardinality({j \in Q : Before(p, q, j, i)}) = rank
  BY <1>5, <1>6
<1> QED  BY <1>7 DEF Ranked
-----------------------------------------------------------------------------
(* What a decision promises, in terms of the decision alone.               *)
DecisionType ==
  [policy : Policies, request : Requests, selected : Models,
   bucket : {"incumbent", "control"} \cup Treated,
   feasible : SUBSET Models, shadows : SUBSET Models, up : SUBSET Providers]

Capable(d) == SeqRange(d.policy.candidates) \cap d.feasible

Honest(d) ==
  /\ d.feasible \subseteq Considered(d.policy)
  /\ \A m \in d.feasible : Catalog[m].provider \in d.up
  /\ \/ d.selected = d.policy.incumbent /\ d.shadows = {}
     \/ /\ d.selected \in {d.policy.incumbent} \cup Capable(d)
        /\ d.shadows = IF d.policy.shadowBudget > 0 THEN Capable(d) ELSE {}

DecisionInv ==
  /\ policy \in Policies
  /\ persisted \in BOOLEAN
  /\ Considered(policy) \subseteq Models
  /\ listed \in Listings
  /\ up \subseteq Providers
  /\ decisions \in [Traces -> {None} \cup DecisionType]
  /\ \A t \in Traces : decisions[t] # None => Honest(decisions[t])

(* engine.go:97-136.  The arms of the rollout and the model each selects:  *)
(* a treated request gets a qualified candidate.                           *)
LEMMA ArmSelects ==
  ASSUME NEW p \in Policies, NEW q \in Requests, listed \subseteq Models
  PROVE  /\ Arm(p, q) \in {"incumbent", "control"} \cup Treated
         /\ p.drifted \/ p.mode = "observe" => Arm(p, q) = "incumbent"
         /\ Arm(p, q) \notin Treated => Selected(p, q) = p.incumbent
         /\ Arm(p, q) \in Treated =>
              \E i \in Qualified(p, q) :
                /\ Selected(p, q) = p.candidates[i]
                /\ Arm(p, q) = "treatment" =>
                     \A j \in Qualified(p, q) : ~Before(p, q, j, i)
<1> DEFINE n == Cardinality(Qualified(p, q))
<1>1. /\ Arm(p, q) \in {"incumbent", "control"} \cup Treated
      /\ p.drifted \/ p.mode = "observe" => Arm(p, q) = "incumbent"
      /\ Arm(p, q) \in Treated => Qualified(p, q) # {}
  BY DEF Arm, Treated, Live
<1>2. Arm(p, q) \notin Treated => Selected(p, q) = p.incumbent
  BY DEF Selected, Treated
<1>3. Arm(p, q) \in Treated => n \in Nat \ {0}
  BY <1>1, QualifiedFacts, FS_CardinalityType, FS_EmptySet
<1>4. ASSUME Arm(p, q) = "treatment"
      PROVE  \E i \in Qualified(p, q) :
               /\ Selected(p, q) = p.candidates[i]
               /\ \A j \in Qualified(p, q) : ~Before(p, q, j, i)
  <2>1. 0 \in 0..(n - 1)
    <3>1. n \in Nat \ {0}  BY <1>3, <1>4 DEF Treated
    <3> HIDE DEF n
    <3> QED  BY <3>1
  <2>2. PICK i \in Qualified(p, q) :
          /\ Ranked(p, q, 0) = p.candidates[i]
          /\ Cardinality({j \in Qualified(p, q) : Before(p, q, j, i)}) = 0
    BY <2>1, RankedIsQualified
  <2> DEFINE ahead == {j \in Qualified(p, q) : Before(p, q, j, i)}
  <2>3. ahead = {}
    <3>1. IsFiniteSet(ahead)  BY QualifiedFacts, FS_Subset
    <3> QED  BY <2>2, <3>1, FS_EmptySet
  <2>4. Selected(p, q) = Ranked(p, q, 0)  BY <1>4 DEF Selected
  <2> QED  BY <2>2, <2>3, <2>4
<1>5. ASSUME Arm(p, q) = "exploration"
      PROVE  \E i \in Qualified(p, q) : Selected(p, q) = p.candidates[i]
  <2> DEFINE r == (Hash.arm[q.trace] * n) \div Buckets
  <2>1. Hash.arm[q.trace] \in 0..(Buckets - 1)
    BY RoutingAssumption DEF HashType
  <2>2. r \in 0..(n - 1)
    <3>1. n \in Nat \ {0}  BY <1>3, <1>5 DEF Treated
    <3> HIDE DEF n
    <3> QED  BY <2>1, <3>1, PositionInRange
  <2>3. Selected(p, q) = Ranked(p, q, r)  BY <1>5 DEF Selected
  <2> HIDE DEF r
  <2> QED  BY <2>2, <2>3, RankedIsQualified
<1> QED  BY <1>1, <1>2, <1>4, <1>5 DEF Treated

(* engine.go:55-138.  A fresh decision keeps what the request path relies  *)
(* on.                                                                     *)
LEMMA DecidedHonest ==
  ASSUME DecisionInv, NEW q \in Requests
  PROVE  LET d == Decided(policy, q) IN d \in DecisionType /\ Honest(d)
<1> DEFINE p == policy
           d == Decided(p, q)
           c == SeqRange(p.candidates)
<1>1. /\ p \in Policies /\ Considered(p) \subseteq Models
      /\ listed \subseteq Models
  BY RoutingAssumption DEF DecisionInv
<1>2. /\ d.policy = p /\ d.request = q /\ d.up = up
      /\ d.selected = Selected(p, q) /\ d.bucket = Arm(p, q)
      /\ d.feasible = FeasibleModels(p, q)
      /\ d.shadows = ShadowCandidates(p, q)
  BY DEF Decided
<1>3. /\ FeasibleModels(p, q) \subseteq Considered(p)
      /\ \A m \in FeasibleModels(p, q) :
           Eligible(p, m, q) /\ Catalog[m].provider \in up
  BY DEF FeasibleModels, Eligible
<1>4. c \cap FeasibleModels(p, q) = {m \in c : Eligible(p, m, q)}
  BY DEF FeasibleModels, Considered
<1>5. ShadowCandidates(p, q) =
        IF p.drifted \/ p.mode = "observe" \/ p.shadowBudget <= 0 THEN {}
        ELSE c \cap FeasibleModels(p, q)
  BY <1>4 DEF ShadowCandidates
<1>6. Selected(p, q) \in {p.incumbent} \cup (c \cap FeasibleModels(p, q))
  <2>1. CASE Arm(p, q) \in Treated
    <3>1. PICK i \in Qualified(p, q) : Selected(p, q) = p.candidates[i]
      BY <1>1, <2>1, ArmSelects
    <3>2. p.candidates[i] \in c /\ Eligible(p, p.candidates[i], q)
      BY <1>1, QualifiedFacts DEF SeqRange
    <3> QED  BY <1>4, <3>1, <3>2
  <2>2. CASE Arm(p, q) \notin Treated  BY <1>1, <2>2, ArmSelects
  <2> QED  BY <2>1, <2>2
<1>7. p.incumbent \in Models /\ c \subseteq Models
  BY <1>1 DEF Considered
<1>8. d \in DecisionType
  <2>1. Selected(p, q) \in Models  BY <1>6, <1>7
  <2>2. Arm(p, q) \in {"incumbent", "control"} \cup Treated
    BY <1>1, ArmSelects
  <2>3. FeasibleModels(p, q) \subseteq Models  BY <1>1, <1>3
  <2>4. ShadowCandidates(p, q) \subseteq Models  BY <1>5, <2>3
  <2> QED
    BY <1>1, <2>1, <2>2, <2>3, <2>4 DEF Decided, DecisionType, DecisionInv
<1>9. \/ Selected(p, q) = p.incumbent /\ ShadowCandidates(p, q) = {}
      \/ /\ Selected(p, q) \in {p.incumbent} \cup (c \cap FeasibleModels(p, q))
         /\ ShadowCandidates(p, q) =
              IF p.shadowBudget > 0 THEN c \cap FeasibleModels(p, q) ELSE {}
  <2>1. CASE p.drifted \/ p.mode = "observe"
    <3>1. Selected(p, q) = p.incumbent
      BY <1>1, <2>1, ArmSelects DEF Treated
    <3> QED  BY <1>5, <2>1, <3>1
  <2>2. CASE ~(p.drifted \/ p.mode = "observe")
    <3>1. p.shadowBudget \in Int  BY <1>1, NumbersAssumption
    <3>2. p.shadowBudget <= 0 <=> ~(p.shadowBudget > 0)  BY <3>1
    <3> QED  BY <1>5, <1>6, <2>2, <3>2
  <2> QED  BY <2>1, <2>2
<1>10. Honest(d)
  <2> HIDE DEF d
  <2> QED  BY <1>2, <1>3, <1>9 DEF Honest, Capable
<1> QED  BY <1>8, <1>10

(* A published policy has been validated against the deployed catalog.     *)
LEMMA DecisionInvHolds == Spec => []DecisionInv
<1>1. Init => DecisionInv
  BY RoutingAssumption, NumbersAssumption DEF Init, DecisionInv
<1>2. ASSUME DecisionInv, [Next]_vars  PROVE DecisionInv'
  <2> USE <1>2
  <2>1. ASSUME NEW q \in Requests, Route(q)  PROVE DecisionInv'
    <3>1. Decided(policy, q) \in DecisionType /\ Honest(Decided(policy, q))
      BY DecidedHonest
    <3> DEFINE d == Decided(policy, q)
    <3>2. d \in DecisionType /\ Honest(d)  BY <3>1
    <3>3. decisions' = [decisions EXCEPT ![q.trace] = d]
      BY <2>1 DEF Route
    <3>4. q.trace \in Traces  BY RoutingAssumption
    <3> HIDE DEF d
    <3>5. decisions' \in [Traces -> {None} \cup DecisionType]
      BY <3>2, <3>3 DEF DecisionInv
    <3>6. ASSUME NEW t \in Traces, decisions'[t] # None
          PROVE  Honest(decisions'[t])
      <4>1. decisions'[t] = IF t = q.trace THEN d ELSE decisions[t]
        BY <3>3 DEF DecisionInv
      <4> QED  BY <3>2, <3>6, <4>1 DEF DecisionInv
    <3>7. /\ policy' = policy /\ persisted' = persisted
          /\ listed' = listed /\ up' = up
      BY <2>1 DEF Route
    <3> QED  BY <3>5, <3>6, <3>7 DEF DecisionInv, Honest, Capable, Considered
  <2>2. ASSUME NEW p \in Policies, Publish(p)  PROVE DecisionInv'
    <3>1. listed \subseteq Models  BY RoutingAssumption DEF DecisionInv
    <3>2. Considered(p) \subseteq Models  BY <2>2, <3>1 DEF Publish, Valid
    <3> QED
      BY <2>2, <3>2 DEF Publish, DecisionInv, Honest, Capable, Considered
  <2>3. ASSUME NEW P \in SUBSET Providers, HealthChanges(P)
        PROVE  DecisionInv'
    BY <2>3 DEF HealthChanges, DecisionInv, Honest, Capable, Considered
  <2>4. ASSUME NEW L \in Listings, Redeploy(L)  PROVE DecisionInv'
    BY <2>4 DEF Redeploy, DecisionInv, Honest, Capable, Considered
  <2>5. CASE UNCHANGED vars
    BY <2>5 DEF vars, DecisionInv, Honest, Capable, Considered
  <2> QED  BY <2>1, <2>2, <2>3, <2>4, <2>5 DEF Next
<1> QED  BY <1>1, <1>2, PTL DEF Spec
-----------------------------------------------------------------------------
(* engine.go:55-138.  Every decision stored selects and shadows models of  *)
(* the configured catalogs, whatever is published or redeployed.           *)
THEOREM RoutingTypeCorrect == Spec => []TypeOK
<1>1. DecisionInv => TypeOK  BY DEF DecisionInv, TypeOK, DecisionType
<1> QED  BY <1>1, DecisionInvHolds, PTL

(* engine.go:55-138; server.go:102-105, 320.  What the request path relies *)
(* on in a decision is so of every decision the engine makes.              *)
THEOREM ContractHolds == Spec => []GatewayContract
<1>1. DecisionInv => GatewayContract
  BY DEF DecisionInv, GatewayContract, Made, Honest, Capable
<1> QED  BY <1>1, DecisionInvHolds, PTL

(* engine.go:104-119; README.md:199-200.  No candidate that qualified was  *)
(* estimated cheaper than the one a treated request was routed to.         *)
Cheapest(q) ==
  Route(q) /\ Arm(policy, q) = "treatment" =>
    \A i \in Qualified(policy, q) :
      EstimatedCost(decisions'[q.trace].selected, q) <=
        EstimatedCost(policy.candidates[i], q)

(* Every step that routes keeps to it, with any candidates, scores and     *)
(* catalog (engine.go:104-119).                                            *)
THEOREM TreatmentIsCheapest == Spec => [][\A q \in Requests : Cheapest(q)]_vars
<1>1. ASSUME DecisionInv, NEW q \in Requests  PROVE Cheapest(q)
  <2> SUFFICES ASSUME Route(q), Arm(policy, q) = "treatment",
                      NEW j \in Qualified(policy, q)
               PROVE  EstimatedCost(decisions'[q.trace].selected, q) <=
                        EstimatedCost(policy.candidates[j], q)
    BY DEF Cheapest
  <2>1. policy \in Policies /\ listed \subseteq Models
    BY <1>1, RoutingAssumption DEF DecisionInv
  <2>2. PICK i \in Qualified(policy, q) :
          /\ Selected(policy, q) = policy.candidates[i]
          /\ ~Before(policy, q, j, i)
    BY <2>1, ArmSelects DEF Treated
  <2>3. decisions'[q.trace].selected = policy.candidates[i]
    <3>1. decisions'[q.trace] = Decided(policy, q)
      BY <1>1, RoutingAssumption DEF Route, DecisionInv
    <3> QED  BY <2>2, <3>1 DEF Decided
  <2>4. /\ EstimatedCost(policy.candidates[i], q) \in Int
        /\ EstimatedCost(policy.candidates[j], q) \in Int
    BY <2>1, QualifiedFacts, EstimatesTyped
  <2>5. ~(EstimatedCost(policy.candidates[j], q) <
            EstimatedCost(policy.candidates[i], q))
    BY <2>2 DEF Before
  <2> QED  BY <2>3, <2>4, <2>5
<1>2. DecisionInv => \A q \in Requests : Cheapest(q)  BY <1>1
<1> QED  BY <1>2, DecisionInvHolds, PTL DEF Spec

(* engine.go:97-133; README.md:18.  Where every deployed catalog lists the *)
(* incumbents, no request is routed to a model worse than the policy's     *)
(* tolerance allows.  The code does not enforce the premise: a stored      *)
(* policy is not validated against the catalog it is loaded with.          *)
NoWorse(d) ==
  d.bucket \in Treated =>
    LowerBound(d.policy, d.selected, d.request) >=
      Success(d.policy, d.policy.incumbent, d.request) - d.policy.tolerance

(* With that premise it holds of every decision made, whatever was         *)
(* published since (engine.go:97-133).                                     *)
THEOREM TreatedIsNonInferior ==
  ASSUME \A p \in Policies, L \in Listings : p.incumbent \in L
  PROVE  Spec => []NonInferior
<1> DEFINE AllNoWorse ==
             \A t \in Traces : decisions[t] # None => NoWorse(decisions[t])
<1>1. Init => AllNoWorse  BY DEF Init
<1>2. ASSUME DecisionInv, AllNoWorse, [Next]_vars  PROVE AllNoWorse'
  <2>0. ASSUME \A t \in Traces : decisions'[t] # None => NoWorse(decisions'[t])
        PROVE  AllNoWorse'
    <3>1. ASSUME NEW t \in Traces
          PROVE  (NoWorse(decisions[t]))' <=> NoWorse(decisions'[t])
      BY DEF NoWorse, LowerBound, Success, WorkflowScore, Clamp, Prior
    <3> QED  BY <2>0, <3>1
  <2>1. ASSUME NEW q \in Requests, Route(q)  PROVE AllNoWorse'
    <3>1. /\ policy \in Policies /\ policy.incumbent \in listed
          /\ listed \subseteq Models
      BY <1>2, RoutingAssumption DEF DecisionInv
    <3>2. Arm(policy, q) \in Treated =>
            LowerBound(policy, Selected(policy, q), q) >=
              Success(policy, policy.incumbent, q) - policy.tolerance
      BY <3>1, ArmSelects, QualifiedFacts DEF QualityFloor
    <3> DEFINE d == Decided(policy, q)
    <3>3. NoWorse(d)  BY <3>2 DEF NoWorse, Decided
    <3>4. decisions' = [decisions EXCEPT ![q.trace] = d]  BY <2>1 DEF Route
    <3> HIDE DEF d
    <3>5. \A t \in Traces :
            decisions'[t] = IF t = q.trace THEN d ELSE decisions[t]
      BY <1>2, <3>4 DEF DecisionInv
    <3> QED  BY <1>2, <2>0, <3>3, <3>5
  <2>2. CASE decisions' = decisions  BY <1>2, <2>0, <2>2
  <2> QED
    BY <1>2, <2>1, <2>2 DEF Next, Publish, HealthChanges, Redeploy, vars
<1>3. DecisionInv /\ AllNoWorse => NonInferior
  BY DEF NonInferior, Made, NoWorse
<1> HIDE DEF AllNoWorse
<1>4. Spec => []AllNoWorse  BY <1>1, <1>2, DecisionInvHolds, PTL DEF Spec
<1> QED  BY <1>3, <1>4, DecisionInvHolds, PTL
=============================================================================
