------------------------------ MODULE Routing ------------------------------
(***************************************************************************)
(* routing.Engine (internal/routing/engine.go) as one tenant's traffic     *)
(* meets it: requests are routed by the policy in force while policies are *)
(* published, circuits open and close, and the service is redeployed with  *)
(* another catalog.  Gateway's Route is the abstract version of Route.     *)
(*                                                                         *)
(* Rates, uncertainties and tolerances are in thousandths.  A rollout      *)
(* percentage is a number of hash buckets out of Buckets.                  *)
(***************************************************************************)
EXTENDS Integers, FiniteSets, Sequences

CONSTANTS
  Models,     \* every model any catalog has
  Catalog,    \* what a catalog that lists a model says of it
  Listings,   \* the model sets a deployed catalog may list
  Providers,  \* provider IDs
  Policies,   \* the policies somebody may publish under the one policy ID
  Initial,    \* the policy of the configuration
  Requests,   \* what a request may ask
  Traces,     \* the trace IDs of the requests
  Versions,   \* the versions of the policies
  Buckets,    \* hashPercent has this many values
  Hash,       \* the arm and exploration buckets of a trace, see HashType
  None        \* no region, no decision

Capabilities == {"tools", "structured_output", "vision"}
RiskClasses == {"low", "normal", "high", "regulated"}
Modes == {"observe", "shadow", "canary", "active"}
Live == {"canary", "active"}
Treated == {"treatment", "exploration"}

(* hashPercent of trace|version, of trace|explore|version, of trace|arm.   *)
HashType ==
  [bucket : [Traces \X Versions -> 0..(Buckets - 1)],
   explore : [Traces \X Versions -> 0..(Buckets - 1)],
   arm : [Traces -> 0..(Buckets - 1)]]

ASSUME RoutingAssumption ==
  /\ Buckets \in Nat \ {0}
  /\ Hash \in HashType
  /\ Initial \in Policies
  /\ Initial.exploration \in 0..Buckets
  /\ Initial.exploration * 100 <= 3 * Buckets
  /\ Models \in Listings
  /\ Listings \subseteq SUBSET Models
  /\ \A q \in Requests : q.trace \in Traces /\ q.risk \in RiskClasses
  /\ \A p \in Policies : p.version \in Versions
  /\ None \notin Models

VARIABLES
  policy,     \* the registry's policy
  persisted,  \* whether it was published, and so is in the store
  listed,     \* the models of the deployed catalog
  up,         \* the providers whose circuit is not open
  decisions   \* the newest decision of each trace

vars == <<policy, persisted, listed, up, decisions>>

SeqRange(s) == {s[i] : i \in DOMAIN s}
-----------------------------------------------------------------------------
(* predict: hard constraints.  A request's own requirement takes the place *)
(* of the policy's, except that of a region.                               *)
Required(own, standing, unset) == IF own = unset THEN standing ELSE own

Within(value, limit) == limit <= 0 \/ value <= limit

PrivacySatisfies(actual, required) ==
  CASE required \in {"", "standard"} -> TRUE
    [] required = "zdr" -> actual \in {"zdr", "local"}
    [] OTHER -> actual = "local"

EstimatedCost(m, q) == Catalog[m].price * q.tokens

Eligible(p, m, q) ==
  LET model == Catalog[m]
  IN  /\ m \in listed
      /\ model.enabled
      /\ model.provider \in up
      /\ Within(q.tokens, model.contextWindow)
      /\ q.needs \subseteq model.supports
      /\ q.region \in {None, model.region}
      /\ p.regions # {} => model.region \in p.regions
      /\ PrivacySatisfies(model.privacy, Required(q.privacy, p.privacy, ""))
      /\ Within(model.latency, Required(q.deadline, p.maxLatency, 0))
      /\ Within(EstimatedCost(m, q), Required(q.maxCost, p.maxCost, 0))

(* predict: the score the snapshot has of the model, or its prior.  rate   *)
(* is SuccessRate, Bias and the weighted features of a request of the risk *)
(* class.                                                                  *)
Clamp(value, low, high) ==
  IF value < low THEN low ELSE IF value > high THEN high ELSE value

Prior(m) ==
  [rate |-> [k \in RiskClasses |-> Catalog[m].prior], uncertainty |-> 250,
   samples |-> 0]

WorkflowScore(p, m, q) ==
  LET s == p.snapshot
  IN  IF q.workflow \in DOMAIN s.byWorkflow
         /\ m \in DOMAIN s.byWorkflow[q.workflow]
      THEN s.byWorkflow[q.workflow][m]
      ELSE IF m \in DOMAIN s.global THEN s.global[m] ELSE Prior(m)

Success(p, m, q) == Clamp(WorkflowScore(p, m, q).rate[q.risk], 0, 1000)

LowerBound(p, m, q) ==
  Clamp(Success(p, m, q)
          - p.confidenceZ * Clamp(WorkflowScore(p, m, q).uncertainty, 5, 500),
        0, 1000)
-----------------------------------------------------------------------------
(* Route: the candidates that may be used live.  A model the catalog does  *)
(* not list has no prediction, and its success reads as 0.                 *)
QualityFloor(p, q) ==
  (IF p.incumbent \in listed THEN Success(p, p.incumbent, q) ELSE 0)
    - p.tolerance

(* Mutated: the estimate itself is held against the floor. *)
QualifiedByEstimate(p, q) ==
  {i \in DOMAIN p.candidates :
     LET m == p.candidates[i]
     IN  /\ Eligible(p, m, q)
         /\ WorkflowScore(p, m, q).samples >= p.minimumSamples
         /\ Success(p, m, q) >= QualityFloor(p, q)}

Qualified(p, q) ==
  {i \in DOMAIN p.candidates :
     LET m == p.candidates[i]
     IN  /\ Eligible(p, m, q)
         /\ WorkflowScore(p, m, q).samples >= p.minimumSamples
         /\ LowerBound(p, m, q) >= QualityFloor(p, q)}

(* Cheapest first, among equals the better bound, then the policy's order. *)
Before(p, q, i, j) ==
  LET a == p.candidates[i]
      b == p.candidates[j]
  IN  \/ EstimatedCost(a, q) < EstimatedCost(b, q)
      \/ /\ EstimatedCost(a, q) = EstimatedCost(b, q)
         /\ \/ LowerBound(p, a, q) > LowerBound(p, b, q)
            \/ LowerBound(p, a, q) = LowerBound(p, b, q) /\ i < j

Ranked(p, q, rank) ==
  LET Q == Qualified(p, q)
  IN  p.candidates[CHOOSE i \in Q :
                     Cardinality({j \in Q : Before(p, q, j, i)}) = rank]

(* Which arm of the rollout a trace is in.                                 *)
HeldOut(p, q) == Hash.bucket[q.trace, p.version] < p.control

OutsideCanary(p, q) ==
  /\ p.mode = "canary"
  /\ Hash.bucket[q.trace, p.version] >= p.control + p.canary

Explores(p, q) ==
  /\ q.risk = "low"
  /\ Hash.explore[q.trace, p.version] < p.exploration

(* Mutated: whoever has no candidate is not counted as held out. *)
ArmOfCapable(p, q) ==
  CASE p.drifted \/ p.mode \notin Live -> "incumbent"
    [] Qualified(p, q) = {} \/ OutsideCanary(p, q) -> "incumbent"
    [] HeldOut(p, q) -> "control"
    [] OTHER -> IF Explores(p, q) THEN "exploration" ELSE "treatment"

Arm(p, q) ==
  IF p.drifted \/ p.mode \notin Live THEN "incumbent"
  ELSE IF HeldOut(p, q) THEN "control"
  ELSE IF OutsideCanary(p, q) \/ Qualified(p, q) = {} THEN "incumbent"
  ELSE IF Explores(p, q) THEN "exploration"
  ELSE "treatment"

(* Mutated: an incumbent that is not feasible is not selected. *)
SelectedIfFeasible(p, q) ==
  LET n == Cardinality(Qualified(p, q))
  IN  CASE Arm(p, q) = "treatment" -> Ranked(p, q, 0)
        [] Arm(p, q) = "exploration" ->
             Ranked(p, q, (Hash.arm[q.trace] * n) \div Buckets)
        [] OTHER -> IF Eligible(p, p.incumbent, q) THEN p.incumbent ELSE None

Selected(p, q) ==
  LET n == Cardinality(Qualified(p, q))
  IN  CASE Arm(p, q) = "treatment" -> Ranked(p, q, 0)
        [] Arm(p, q) = "exploration" ->
             Ranked(p, q, (Hash.arm[q.trace] * n) \div Buckets)
        [] OTHER -> p.incumbent

Considered(p) ==
  {p.incumbent} \cup SeqRange(p.candidates) \cup SeqRange(p.fallbacks)

(* What a policy's numbers are, whether or not it would be accepted: TLA+  *)
(* orders integers only.  The initial policy has passed Config.Validate.   *)
ScoreType == [rate : [RiskClasses -> Int], uncertainty : Int, samples : Int]

ASSUME NumbersAssumption ==
  /\ Considered(Initial) \subseteq Models
  /\ \A m \in Models : {Catalog[m].price, Catalog[m].prior} \subseteq Int
  /\ \A q \in Requests : q.tokens \in Int
  /\ \A p \in Policies :
       /\ p.candidates \in Seq(SeqRange(p.candidates))
       /\ {p.tolerance, p.confidenceZ, p.shadowBudget} \subseteq Int
       /\ \A m \in DOMAIN p.snapshot.global :
            p.snapshot.global[m] \in ScoreType
       /\ \A w \in DOMAIN p.snapshot.byWorkflow :
            \A m \in DOMAIN p.snapshot.byWorkflow[w] :
              p.snapshot.byWorkflow[w][m] \in ScoreType

FeasibleModels(p, q) == {m \in Considered(p) : Eligible(p, m, q)}

(* Mutated: models that are not feasible are shadowed all the same. *)
ShadowCandidatesAll(p, q) == SeqRange(p.candidates)

ShadowCandidates(p, q) ==
  IF p.drifted \/ p.mode = "observe" \/ p.shadowBudget <= 0 THEN {}
  ELSE {m \in SeqRange(p.candidates) : Eligible(p, m, q)}

Decided(p, q) ==
  [policy |-> p, request |-> q, selected |-> Selected(p, q),
   bucket |-> Arm(p, q), feasible |-> FeasibleModels(p, q),
   shadows |-> ShadowCandidates(p, q), up |-> up]

Route(q) ==
  /\ decisions' = [decisions EXCEPT ![q.trace] = Decided(policy, q)]
  /\ UNCHANGED <<policy, persisted, listed, up>>
-----------------------------------------------------------------------------
(* Policy.Validate, against the models of a catalog.                       *)
Distinct(s) == \A i, j \in DOMAIN s : s[i] = s[j] => i = j

(* Mutated: exploration has no cap of its own. *)
ValidUncapped(p, catalog) ==
  /\ p.mode \in Modes
  /\ Considered(p) \subseteq catalog
  /\ Distinct(p.candidates \o p.fallbacks)
  /\ p.tolerance \in 0..1000
  /\ {p.control, p.canary, p.exploration} \subseteq 0..Buckets
  /\ p.confidenceZ > 0

Valid(p, catalog) ==
  /\ p.mode \in Modes
  /\ Considered(p) \subseteq catalog
  /\ Distinct(p.candidates \o p.fallbacks)
  /\ p.tolerance \in 0..1000
  /\ {p.control, p.canary, p.exploration} \subseteq 0..Buckets
  /\ p.exploration * 100 <= 3 * Buckets
  /\ p.confidenceZ > 0

(* Registry.Put: the policy that had the ID is replaced, whatever version  *)
(* either has.                                                             *)
Publish(p) ==
  /\ Valid(p, listed)
  /\ policy' = p
  /\ persisted' = TRUE
  /\ UNCHANGED <<listed, up, decisions>>

(* The circuits of provider.Client, seen through Available.                *)
HealthChanges(P) ==
  /\ up' = P
  /\ UNCHANGED <<policy, persisted, listed, decisions>>

(* A new process with another catalog.  A configured policy has to pass    *)
(* config.Validate there, or the process does not start; one that was      *)
(* published is loaded from the store over that of the configuration,      *)
(* without being validated.                                                *)
Redeploy(L) ==
  /\ persisted \/ Valid(policy, L)
  /\ listed' = L
  /\ up' = Providers
  /\ UNCHANGED <<policy, persisted, decisions>>

Init ==
  /\ policy = Initial
  /\ persisted = FALSE
  /\ listed = Models
  /\ up = Providers
  /\ decisions = [t \in Traces |-> None]

Next ==
  \/ \E q \in Requests : Route(q)
  \/ \E p \in Policies : Publish(p)
  \/ \E P \in SUBSET Providers : HealthChanges(P)
  \/ \E L \in Listings : Redeploy(L)

Spec == Init /\ [][Next]_vars
-----------------------------------------------------------------------------
(* One type invariant.  A decision holds the policy, the request and the   *)
(* health it was made with.                                                *)
TypeOK ==
  /\ policy \in Policies
  /\ persisted \in BOOLEAN
  /\ listed \in Listings
  /\ up \subseteq Providers
  /\ decisions \in
       [Traces ->
          {None} \cup
          [policy : Policies, request : Requests, selected : Models,
           bucket : {"incumbent", "control"} \cup Treated,
           feasible : SUBSET Models, shadows : SUBSET Models,
           up : SUBSET Providers]]

Made == {decisions[t] : t \in {u \in Traces : decisions[u] # None}}

(* engine.go:55-138; server.go:102-105, 320.  What the request path, as    *)
(* Gateway has it, relies on in a decision: feasible models are considered *)
(* ones whose provider was up; the selected model is the incumbent or a    *)
(* feasible candidate; all feasible candidates are shadow models, unless   *)
(* the policy only observes or has no budget.                              *)
GatewayContract ==
  \A d \in Made :
    LET capable == SeqRange(d.policy.candidates) \cap d.feasible
    IN  /\ d.feasible \subseteq Considered(d.policy)
        /\ \A m \in d.feasible : Catalog[m].provider \in d.up
        /\ \/ d.selected = d.policy.incumbent /\ d.shadows = {}
           \/ /\ d.selected \in {d.policy.incumbent} \cup capable
              /\ d.shadows = IF d.policy.shadowBudget > 0 THEN capable ELSE {}

(* engine.go:97-133; README.md:18.  A request is routed away from the      *)
(* incumbent only to a model that is, at the policy's confidence, within   *)
(* its tolerance of what the incumbent is predicted to achieve on it.      *)
NonInferior ==
  \A d \in Made :
    d.bucket \in Treated =>
      LowerBound(d.policy, d.selected, d.request) >=
        Success(d.policy, d.policy.incumbent, d.request) - d.policy.tolerance

(* engine.go:86-95; docs/policy-spec.md:3, 20.  The holdout is a property  *)
(* of the trace and the policy version: as long as a version routes live,  *)
(* no request of the trace moves it into the control arm or out of it,     *)
(* whatever the requests ask, whichever models are up, and however the     *)
(* policy was drifted or its mode changed in between.                      *)
RoutedLive(d) == d # None /\ ~d.policy.drifted /\ d.policy.mode \in Live

HoldoutSticky ==
  [][\A t \in Traces :
       LET d == decisions[t]
           e == decisions'[t]
       IN  /\ RoutedLive(d)
           /\ RoutedLive(e)
           /\ d.policy.version = e.policy.version
           => (d.bucket = "control" <=> e.bucket = "control")]_vars

(* types.go:284-286, engine.go:121-126; README.md:199-200.  Only low-risk  *)
(* requests are explored, and of their traces no more than 3% of the hash  *)
(* space, under every policy that could be published.                      *)
ExplorationLimited ==
  \A d \in Made :
    d.bucket = "exploration" =>
      /\ d.request.risk = "low"
      /\ Hash.explore[d.request.trace, d.policy.version] * 100 < 3 * Buckets
=============================================================================
