---------------------------- MODULE AuditSummary ----------------------------
(***************************************************************************)
(* What is made of the ledger: store.summarize behind GET                  *)
(* /v1/audit/summary (internal/store/store.go), the offline evaluator and  *)
(* the trainer's join (python evaluation.py, training.py), over a ledger   *)
(* that fills as decisions are recorded and completed and outcomes arrive, *)
(* late and in any order.                                                  *)
(*                                                                         *)
(* Costs are natural numbers; an outcome of "true" is worth 1.  The        *)
(* intervals are functions of the successes and the number of traces of an *)
(* arm, which is what the model computes.                                  *)
(***************************************************************************)
EXTENDS Integers, Sequences, SequencesExt

CONSTANTS
  Ids,         \* decision IDs
  Traces,
  Models,
  Contents,    \* decisions as Engine.Route or launchShadows makes them
  Usages,      \* what reported usage costs, of the answering model and
               \* of the incumbent
  Reports,     \* outcomes as they are reported
  None,        \* no decision, trace or model
  MaxOutcomes  \* bound: how many outcomes arrive

Buckets == {"control", "treatment", "exploration", "incumbent", "shadow"}

(* RouteDecision.  inScope: of the tenant, policy and period asked for.    *)
DecisionType ==
  [trace : Traces, bucket : Buckets, selected : Models, incumbent : Models,
   final : Models \cup {None}, estimated : Nat, actual : Nat,
   incumbentCost : Nat, inScope : BOOLEAN]

(* Outcome.  typed: of the primary type.  inScope: of the tenant and the   *)
(* period asked for.                                                       *)
OutcomeType ==
  [decision : Ids \cup {None}, trace : Traces \cup {None},
   value : {"false", "true", "two", "null", "text"}, occurred : Nat,
   typed : BOOLEAN, inScope : BOOLEAN]

ASSUME SummaryAssumption ==
  /\ Contents \subseteq DecisionType
  /\ Usages \subseteq [cost : Nat, incumbent : Nat]
  /\ Reports \subseteq OutcomeType
  /\ IsFiniteSet(Models)
  /\ None \notin DecisionType /\ None \notin Traces /\ None \notin Nat

VARIABLES
  decisions,  \* the newest record of each decision, or None
  outcomes    \* in the order of the file

vars == <<decisions, outcomes>>

Init ==
  /\ decisions = [d \in Ids |-> None]
  /\ outcomes = <<>>

(* The initial record of a production decision.                            *)
Decide(d) ==
  /\ decisions[d] = None
  /\ \E c \in Contents :
       c.bucket # "shadow" /\ decisions' = [decisions EXCEPT ![d] = c]
  /\ UNCHANGED outcomes

(* What is recorded of record r once a model answered: the cost of the     *)
(* usage it reports, and the incumbent's of the same usage; the estimate   *)
(* where it reports none; nothing where the answer could not be read.      *)
Charged(r, model) ==
  {[r EXCEPT !.final = model, !.actual = u.cost, !.incumbentCost = u.incumbent] :
     u \in Usages}
  \cup {[r EXCEPT !.final = model, !.actual = cost] : cost \in {0, r.estimated}}

(* The second record; that of a failed request changes nothing of this.    *)
Complete(d) ==
  /\ decisions[d] # None
  /\ decisions[d].final = None
  /\ decisions[d].bucket # "shadow"
  /\ \E m \in Models : \E r \in Charged(decisions[d], m) :
       decisions' = [decisions EXCEPT ![d] = r]
  /\ UNCHANGED outcomes

(* What is recorded of a shadow call that failed or was answered; the cost *)
(* of the incumbent stays that of the parent.                              *)
ShadowCharged(r) ==
  {r} \cup {[r EXCEPT !.final = r.selected, !.actual = cost] :
              cost \in {r.estimated} \cup {u.cost : u \in Usages}}

(* The only record of a shadow decision; its parent was recorded before.   *)
Shadow(d) ==
  /\ decisions[d] = None
  /\ \E c \in Contents :
       /\ c.bucket = "shadow"
       /\ \E e \in Ids : /\ decisions[e] # None
                         /\ decisions[e].bucket # "shadow"
                         /\ decisions[e].trace = c.trace
       /\ \E r \in ShadowCharged(c) : decisions' = [decisions EXCEPT ![d] = r]
  /\ UNCHANGED outcomes

(* Mutated: an outcome need not say what it is about.                      *)
ReportOfNothing ==
  /\ Len(outcomes) < MaxOutcomes
  /\ \E o \in Reports :
       /\ o.decision # None => decisions[o.decision] # None
       /\ outcomes' = Append(outcomes, o)
  /\ UNCHANGED decisions

(* The outcomes handler: a decision that was named must exist; a trace need*)
(* not.                                                                    *)
Report ==
  /\ Len(outcomes) < MaxOutcomes
  /\ \E o \in Reports :
       /\ o.decision # None \/ o.trace # None
       /\ o.decision # None => decisions[o.decision] # None
       /\ outcomes' = Append(outcomes, o)
  /\ UNCHANGED decisions

Next == \/ \E d \in Ids : Decide(d) \/ Complete(d) \/ Shadow(d)
        \/ Report

Spec == Init /\ [][Next]_vars
-----------------------------------------------------------------------------
(***************************************************************************)
(* summarize: the loop over the decisions.                                 *)
(***************************************************************************)

InScope(d) == decisions[d] # None /\ decisions[d].inScope
CostOf(r) == IF r.actual <= 0 THEN r.estimated ELSE r.actual
ModelOf(r) == IF r.final = None THEN r.selected ELSE r.final

(* Mutated: the last decision of a trace decides.                          *)
LastArm(arm, bucket) ==
  IF bucket \in {"treatment", "exploration"} THEN "treatment" ELSE "control"

(* traceBuckets: once treatment, always treatment.                         *)
ArmWith(arm, bucket) ==
  IF bucket \in {"treatment", "exploration"} THEN "treatment"
  ELSE IF arm = "none" THEN "control" ELSE arm

One(condition) == IF condition THEN 1 ELSE 0

(* The summary before the loops.                                           *)
Zero ==
  [requests |-> 0, control |-> 0, routed |-> 0, shadow |-> 0, actual |-> 0,
   incumbent |-> 0, byBucket |-> [b \in Buckets |-> 0],
   byModel |-> [m \in Models |-> [requests |-> 0, cost |-> 0]],
   arm |-> [t \in Traces |-> "none"]]

(* Mutated: the cost of a shadow decision is the customer's too.           *)
CountShadows(acc, d) ==
  LET r == decisions[d] IN
  IF ~InScope(d) THEN acc
  ELSE [acc EXCEPT
          !.byBucket[r.bucket] = @ + 1,
          !.requests = @ + One(r.bucket # "shadow"),
          !.shadow = @ + One(r.bucket = "shadow"),
          !.actual = @ + CostOf(r),
          !.incumbent = @ + r.incumbentCost,
          !.byModel[ModelOf(r)] = [requests |-> @.requests + One(r.bucket # "shadow"),
                                   cost |-> @.cost + CostOf(r)],
          !.arm[r.trace] = ArmWith(@, r.bucket)]

Count(acc, d) ==
  LET r == decisions[d] IN
  IF ~InScope(d) THEN acc
  ELSE IF r.bucket = "shadow"
  THEN [acc EXCEPT !.byBucket["shadow"] = @ + 1, !.shadow = @ + 1]
  ELSE [acc EXCEPT
          !.byBucket[r.bucket] = @ + 1,
          !.requests = @ + 1,
          !.control = @ + One(r.bucket = "control"),
          !.routed = @ + One(r.selected # r.incumbent),
          !.actual = @ + CostOf(r),
          !.incumbent = @ + r.incumbentCost,
          !.byModel[ModelOf(r)] = [requests |-> @.requests + 1,
                                   cost |-> @.cost + CostOf(r)],
          !.arm[r.trace] = ArmWith(@, r.bucket)]

Counted(order) == FoldLeft(Count, Zero, order)
-----------------------------------------------------------------------------
(***************************************************************************)
(* summarize: the loop over the outcomes.                                  *)
(***************************************************************************)

(* The outcomes that the audit of one tenant and period is about.          *)
Considered(o) == o.typed /\ o.inScope

(* Outcome.NumericValue; JSON null decodes into a number without error.    *)
Numeric(value) ==
  CASE value \in {"false", "null"} -> 0
    [] value = "true" -> 1
    [] value = "two" -> 2
    [] value = "text" -> None

(* Mutated: only outcomes that name the trace are joined to it.            *)
NamedTrace(o) == o.trace

TraceOf(o) ==
  IF o.trace # None THEN o.trace
  ELSE IF o.decision # None /\ InScope(o.decision)
  THEN decisions[o.decision].trace ELSE None

Label(byModel, o) ==
  IF o.decision = None \/ ~InScope(o.decision) THEN byModel
  ELSE [byModel EXCEPT
          ![ModelOf(decisions[o.decision])] =
             [successes |-> @.successes + Numeric(o.value),
              outcomes |-> @.outcomes + 1]]

(* Mutated: the first value reported stands.                               *)
FirstLabel(primary, o) ==
  IF TraceOf(o) = None \/ primary[TraceOf(o)] # None THEN primary
  ELSE [primary EXCEPT ![TraceOf(o)] = Numeric(o.value)]

Relabelled(primary, o) ==
  IF TraceOf(o) = None THEN primary
  ELSE [primary EXCEPT ![TraceOf(o)] = Numeric(o.value)]

Attribute(acc, o) ==
  IF ~Considered(o) \/ Numeric(o.value) = None THEN acc
  ELSE [byModel |-> Label(acc.byModel, o),
        primary |-> Relabelled(acc.primary, o)]

Attributed ==
  FoldLeft(Attribute,
           [byModel |-> [m \in Models |-> [successes |-> 0, outcomes |-> 0]],
            primary |-> [t \in Traces |-> None]],
           outcomes)

Primary == Attributed.primary

(* The successes and the number of traces that wilson makes an interval of.*)
Interval(arm, primary, name) ==
  LET labelled == {t \in Traces : arm[t] = name /\ primary[t] # None}
  IN [n |-> Cardinality(labelled),
      successes |-> SumFunctionOnSet(primary, labelled)]

Summary(order) ==
  LET counted == Counted(order)
      primary == Primary IN
  [counted |-> counted,
   treatment |-> Interval(counted.arm, primary, "treatment"),
   controlArm |-> Interval(counted.arm, primary, "control"),
   savings |-> Max({0, counted.incumbent - counted.actual})]
-----------------------------------------------------------------------------
(***************************************************************************)
(* evaluate (evaluation.py) and join_examples (training.py), on files that *)
(* hold all tenants, policies and times: of an outcome they look at the    *)
(* type alone.                                                             *)
(***************************************************************************)

(* _numeric_outcome: null is no number, and numbers are clamped.           *)
Clamped(value) ==
  CASE value = "false" -> 0
    [] value \in {"true", "two"} -> 1
    [] value \in {"null", "text"} -> None

Production(t) ==
  {d \in Ids : /\ decisions[d] # None
               /\ decisions[d].trace = t
               /\ decisions[d].bucket # "shadow"}

Group(t) ==
  IF \E d \in Production(t) : decisions[d].bucket \in {"treatment", "exploration"}
  THEN "treatment" ELSE "control"

JoinOutcome(primary, o) ==
  LET trace == IF o.trace # None THEN o.trace ELSE decisions[o.decision].trace IN
  IF ~o.typed \/ Clamped(o.value) = None THEN primary
  ELSE [primary EXCEPT ![trace] = Clamped(o.value)]

Evaluated(name) ==
  LET primary == FoldLeft(JoinOutcome, [t \in Traces |-> None], outcomes)
      traces == {t \in Traces : Production(t) # {} /\ Group(t) = name}
      labelled == {t \in traces : primary[t] # None}
      members == UNION {Production(t) : t \in traces}
  IN [n |-> Cardinality(labelled),
      successes |-> SumFunctionOnSet(primary, labelled),
      cost |-> SumFunctionOnSet([d \in members |-> CostOf(decisions[d])], members),
      incumbent |->
        SumFunctionOnSet([d \in members |-> decisions[d].incumbentCost], members)]

(* Mutated: a trace outcome labels its shadow decisions too.               *)
JoinAll(examples, o) ==
  IF ~o.typed \/ Clamped(o.value) = None THEN examples
  ELSE IF o.decision # None
  THEN [examples EXCEPT ![o.decision] = Clamped(o.value)]
  ELSE [d \in Ids |->
          IF decisions[d] # None /\ decisions[d].trace = o.trace
          THEN Clamped(o.value) ELSE examples[d]]

JoinExample(examples, o) ==
  IF ~o.typed \/ Clamped(o.value) = None THEN examples
  ELSE IF o.decision # None
  THEN [examples EXCEPT ![o.decision] = Clamped(o.value)]
  ELSE [d \in Ids |->
          IF d \in Production(o.trace) THEN Clamped(o.value) ELSE examples[d]]

Examples == FoldLeft(JoinExample, [d \in Ids |-> None], outcomes)
-----------------------------------------------------------------------------
(* server.go:214.  An outcome that is kept names a decision or a trace.    *)
TypeOK ==
  /\ decisions \in [Ids -> DecisionType \cup {None}]
  /\ outcomes \in Seq({o \in OutcomeType : {o.decision, o.trace} # {None}})

Recorded == {d \in Ids : decisions[d] # None}
AnyOrder == SetToSeq(Recorded)

(* store.go:136-141, postgres.go:106-117.  The file store walks a Go map,  *)
(* and PostgreSQL returns rows unordered: the summary is the same whatever *)
(* order the decisions come in.                                            *)
OrderIrrelevant ==
  LET summary == Summary(AnyOrder)
  IN \A order \in SetToSeqs(Recorded) : Summary(order) = summary

(* docs/architecture.md:39-41, outcome-event-spec.md:50-51.  However many  *)
(* decisions a trace has and however often its outcome is reported, it     *)
(* counts once, in one arm, with the last value reported.                  *)
CountedOncePerTrace ==
  LET Bears(i, t) == /\ Considered(outcomes[i])
                     /\ Numeric(outcomes[i].value) # None
                     /\ TraceOf(outcomes[i]) = t
      Members(t) == {d \in Production(t) : InScope(d)}
      Treated(t) == \E d \in Members(t) :
                      decisions[d].bucket \in {"treatment", "exploration"}
      Known(t) == Members(t) # {} /\ \E i \in DOMAIN outcomes : Bears(i, t)
      Final(t) == Max({i \in DOMAIN outcomes : Bears(i, t)})
      Expected(T) == [n |-> Cardinality(T),
                      successes |-> SumFunctionOnSet(
                         [t \in T |-> Numeric(outcomes[Final(t)].value)], T)]
      summary == Summary(AnyOrder)
  IN /\ summary.treatment = Expected({t \in Traces : Known(t) /\ Treated(t)})
     /\ summary.controlArm = Expected({t \in Traces : Known(t) /\ ~Treated(t)})

(* outcome-event-spec.md:52.  The bill is the sum over the production      *)
(* steps, each once and no shadow among them, and the breakdowns by model  *)
(* and by bucket add up to it.                                             *)
CostsConserved ==
  LET counted == Counted(AnyOrder)
      steps == {d \in Recorded : InScope(d) /\ decisions[d].bucket # "shadow"}
  IN /\ counted.requests = Cardinality(steps)
     /\ counted.actual =
          SumFunctionOnSet([d \in steps |-> CostOf(decisions[d])], steps)
     /\ SumFunction([m \in Models |-> counted.byModel[m].requests]) = counted.requests
     /\ SumFunction([m \in Models |-> counted.byModel[m].cost]) = counted.actual
     /\ SumFunction(counted.byBucket) = counted.requests + counted.shadow

(* README.md:181.  The offline evaluator and the router's own audit come to*)
(* the same arms, successes and savings from the same ledger, as long as   *)
(* it holds nothing but what the audit was asked for, neither decisions nor*)
(* outcomes of another tenant or period, which only the router leaves out  *)
(* (store.go:212, evaluation.py:46), and outcomes are what the             *)
(* specification says: no null, nothing above one.                         *)
EvaluatorAgrees ==
  LET summary == Summary(AnyOrder)
      treatment == Evaluated("treatment")
      control == Evaluated("control")
  IN /\ \A d \in Recorded : InScope(d)
     /\ \A i \in DOMAIN outcomes :
          /\ outcomes[i].inScope
          /\ Clamped(outcomes[i].value) = Numeric(outcomes[i].value)
     => /\ summary.treatment.n = treatment.n
        /\ summary.treatment.successes = treatment.successes
        /\ summary.controlArm.n = control.n
        /\ summary.controlArm.successes = control.successes
        /\ summary.counted.actual = treatment.cost + control.cost
        /\ summary.counted.incumbent = treatment.incumbent + control.incumbent

(* outcome-event-spec.md:47-49, architecture.md:39-41.  A trace outcome    *)
(* labels every production decision of the trace and never a shadow        *)
(* decision, which needs an outcome of its own; the last label stands.     *)
LabelsExplained ==
  LET Labels(i, d) ==
        /\ outcomes[i].typed
        /\ Clamped(outcomes[i].value) # None
        /\ IF outcomes[i].decision # None THEN outcomes[i].decision = d
           ELSE d \in Production(outcomes[i].trace)
      Of(d) == {i \in DOMAIN outcomes : Labels(i, d)}
  IN \A d \in Ids :
       Examples[d] = IF Of(d) = {} THEN None
                     ELSE Clamped(outcomes[Max(Of(d))].value)

(* outcome-event-spec.md:27-28.  "the latest event for the trace and type  *)
(* wins in evaluation".                                                    *)
LatestWins ==
  \A t \in Traces :
    Primary[t] # None =>
      LET of == {i \in DOMAIN outcomes : /\ Considered(outcomes[i])
                                        /\ Numeric(outcomes[i].value) # None
                                        /\ TraceOf(outcomes[i]) = t}
      IN \E i \in of : /\ Numeric(outcomes[i].value) = Primary[t]
                       /\ \A j \in of : outcomes[j].occurred <= outcomes[i].occurred
=============================================================================
