# Outcome Router: a verification project

TLA+ models of the Go service under `src/`, the TLC runs that check them on
small instances, and TLAPS proofs of all of their safety properties for every
instance. Source positions below are relative to `src/`; `server.go` is
`internal/api/server.go`, `client.go` is `internal/provider/client.go`,
`engine.go` is `internal/routing/engine.go`, `types.go` is
`internal/domain/types.go`, `store.go` is `internal/store/store.go`.

## 1. The system

| Component | State | Operations | Interacts with |
| --- | --- | --- | --- |
| `api.Server` (server.go) | tenant configuration, shadow spend per tenant, policy and day (in memory, under `shadowMu`) | `chatCompletions`, `outcomes`, `decision`, `auditSummary`, `policies`, `putPolicy`, shadow goroutines | everything below |
| `routing.Engine` (engine.go) | none (catalog is fixed per process) | `Route` | asks `provider.Client.Available` |
| `routing.Registry` (registry.go) | policies by ID, under an RWMutex | `Get`, `List`, `Put` | saves through the store |
| `provider.Client` (client.go) | circuit per provider ID, under a mutex | `Available`, `Do` | shared by handlers, shadow goroutines and the engine |
| `store.FileStore` / `PostgresStore` | decisions, outcomes, policies; durable | `SaveDecision`, `SaveOutcome`, `SavePolicy`, `GetDecision`, `LoadPolicies`, `Summary` | called by handlers and the registry |
| `config` | configuration of the process | `Load`, `Validate`, `Authenticate` | read once, at start |
| `cmd/router` | - | start, stop | persisted policies override those of the configuration |
| Python SDK, trainer, evaluator; mock provider; dashboard | - | clients of the API, offline analysis | HTTP, JSON files |

A chat completion goes through: authenticate, parse, `Registry.Get`,
`Engine.Route` (health, constraints, predictions, rollout arm), a first
`SaveDecision`, an attempt loop over the selected model, the policy's fallbacks
and the incumbent, shadow launches, the relayed answer, a completing
`SaveDecision`. All handlers and shadow goroutines run concurrently and meet at
four places: the circuits, the shadow budget, the registry and the store.

What is hard: a circuit is read before a long call and written after it; a
record must be durable before each call, while every save, every call and the
whole process may fail between any two steps; the budget is reserved by
concurrent handlers and forgotten at a restart; a decision made with one
policy, catalog and health is used after they have changed; and the experiment
(holdout, quality floor, exploration cap) must survive all of that.

What makes each component correct:

- **client**: an open circuit is justified by failures a tenant does not
  tolerate, bounds the failures that still come of calls let through before,
  and recovers.
- **request path**: no inference without an audit record; a closed record
  accounts for every call; fallback keeps its order, never repeats a model and
  stops at a refusal; every request ends, or hangs in a save or a write to its
  client.
- **shadows**: only behind an answered, recorded, non-risky request; within the
  daily budget; each goroutine ends, or hangs in its save.
- **engine**: hard constraints first; away from the incumbent only above the
  quality floor; the holdout is a property of trace and policy version;
  exploration is capped.
- **registry**: the policy in force is the one acknowledged last; an ID stays
  with its tenant; a policy that is replaced binds those who read it, no more.
- **stores**: what was acknowledged is what readers get, now and after a
  restart; without an error, and without a record too long for the file store
  to read back, readers see what a restart would find.
- **outcomes**: each stays attached to a decision of the tenant that reported it.
- **summary, evaluator, trainer**: a trace counts once, in one arm, whatever the
  order; costs add up; the router and the evaluator agree; shadows get no label
  they did not earn.

`PROJECT.json` lists the hazards, each at its line, with the properties aimed
at it.

## 2. Modules

| Module | What it is |
| --- | --- |
| `Circuit` | the circuit record and `Available`, `recordFailure`, the clock: operators shared by the next two |
| `ProviderClient` | `provider.Client`: concurrent calls over shared circuits |
| `AuditTrail` | abstract: what the trail promises of production calls |
| `Gateway` | the request path and the shadow goroutines of one tenant and policy |
| `Routing` | `Engine.Route` under changing policies, health and catalogs |
| `AuditStore` | abstract: what the router may count on from `store.Repository` |
| `FileStore`, `PostgresStore` | the two stores |
| `Service` | the process around a store: start and stop, registry, the handlers that save |
| `AuditSummary` | the ledger and what `summarize`, the evaluator and the trainer make of it |
| `MCProviderClient`, `MCGateway`, `MCRouting`, `MCService`, `MCAuditSummary` | constant values for TLC |
| `CircuitProofs`, `ProviderClientProofs`, `GatewayProofs`, `GatewayCallsProofs`, `RoutingProofs`, `FileStoreProofs`, `ServiceProofs`, `AuditSummaryProofs` | theorems and proofs |

`Gateway` implements two specifications, which the runs check as properties:
`AuditTrail` (`TrailSpec`: recorded and completed are read off the durable
ledger) and `ProviderClient` (`ClientSpec`: every handler and every goroutine is
one of its calls). `Routing` checks that its decisions satisfy what `Gateway`
assumes of them (`GatewayContract`), so that `Gateway` may keep `Route` short.
`Service` is composed of `FileStore` and `PostgresStore`, of which an execution
uses one, and implements `AuditStore` (`ContractSpec`) with either.

### Circuit and ProviderClient

`circuits[p]` is `Client.circuits[p]`; an absent entry and a fresh one behave
alike. `openUntil` is a timer in ticks from now: `NotOpen` is the zero time, a
positive timer lies in the future, 0 has passed unnoticed. `Refreshed` is the
reset that whoever asks `Available` performs. `Admit` is the check at the head
of `Do` (client.go:70); from then on the call is in flight, and the circuit may
open, expire or be reset before its request is written or its result recorded.
When the request is written is not a step: no circuit depends on it. `Succeed`, `Fail` and `Refuse` are its ends (2xx; transport error,
timeout, cancelled caller or retryable status; any other status). A call
carries the configuration of its tenant, so two tenants with different limits
share one circuit, as in the code, where the key is the provider ID alone.

### Gateway

`pc[r]` says where a handler is; `decision[r]` is its `RouteDecision` reduced to
the fields the control flow and the audit depend on; `ledger[r]` is the durable
record; `at[r]` is the loop index of the attempt loop and later of the shadow
loop. Each step between two shared accesses is an action: the saves, each
iteration that skips, each call going out and coming back, each reservation,
each answer. A save is stored, or refused, or stored and reported as an error;
only the first save looks at the result, as in the code. `Restart` is the
process ending anywhere: memory goes, the ledger stays. `sent`, `launched` and
`restarts` are history variables that only properties and the restart bound
read.

`AttemptOrder` keeps the duplicates `buildAttemptOrder` drops and `Repeated`
skips them: the loop is the same, and "never twice" becomes something to check.

Abstractions: one tenant and one policy (the circuits of several tenants are
`ProviderClient`'s subject); routing is one step, although the engine asks the
health of one model after the other; disabled models and constraints are in
`Fits`; encoding errors, which cannot occur on bodies that were decoded before,
and a base URL the HTTP library rejects are left out; the two charged prices are
named by the model whose price they are.

### Routing

Rates, uncertainties and tolerances are integers in thousandths, percentages are
numbers of hash buckets, and the weighted features of a request are one rate per
risk class. The comparison slack of 1e-12 disappears with the floats. The hash
is a constant function of trace and version; TLC's instance puts traces at the
boundaries. `Ranked` is the sort by cost, then bound, then position (an
insertion sort for the dozen candidates a policy has at most). A published
policy is validated and from then on `persisted`. A new process may have another
catalog (`Redeploy`): with a policy that comes from the configuration it starts
only if that passes validation there (config.go:123-129), while a persisted one
is taken with whatever catalog there is, unvalidated (cmd/router/main.go:58-64).

### AuditStore, FileStore, PostgresStore and Service

`AuditStore` has two contents: what readers get (`seen`) and what the next start
finds (`kept`). A save that succeeds changes both; one that reports an error may
have changed either, and from then on (`troubles`) the kept content may be lost
as a whole, with a later save too. A save of a long record (`SaveLong`) may be
acknowledged and lose the kept content at once, which `troubles` remembers as
well.

`FileStore` keeps, by table, the lines of a file, whether its last line still
lacks its newline, and the map (or the slice, for outcomes). A failing append
(`Break`) leaves nothing, a torn line, a whole line without its newline, or all
of it. A save behind an unfinished line is acknowledged, but its bytes lengthen
that line, which then does not decode: `NewFileStore` stops at it, and the
process does not start again. The same happens at a line that does not fit the
scanner's buffer of 32 MB (`Unreadable`, store.go:307, 319), and nothing looks
at the length of a line before it is written; which records have such lines is
the constant `Long`. A process that ends in the middle of an append is
`Break` followed by `Stop`. `PostgresStore` commits a statement or not, and an
error does not tell which.

`Service` adds what uses the store: `registry`, loaded by `Start` from the
configured policies and over them the persisted ones (main.go:58-64) and changed
by `Put`; handlers that hold the policy they read (`held`) until their second
save; the shadow account (`spend`), kept by policy ID while the limit is that of
the policy held; and outcomes, accepted when their decision is found for the
tenant. `acked`, `failed`, `loose` and `granted` are history. Validation of a
policy is `Routing`'s subject; a policy is here its ID, its tenant and its
budget. `Configured` is the configuration after the duplicates it may contain,
of which `NewRegistry` keeps the last, and does not change between restarts.

### AuditSummary

`decisions[d]` is the newest record of a decision, `outcomes` what arrived, in
order. The actions fill the ledger as the handlers do: a decision is recorded
and completed at the cost of its usage, at its estimate or, when the answer
could not be read, at no cost; a shadow decision, once, behind a recorded
parent; an outcome that names a decision or a trace. `Summary` is `summarize`:
a fold over the decisions (`Count`), in an order that is a parameter, and one
over the outcomes (`Attribute`). `Evaluated` is the evaluator's reading of the
same ledger and `Examples` the trainer's join. The properties compare them with
definitions by sets, without loops. Of a decision, `inScope` stands for the
filters by tenant, policy and period; of an outcome, `inScope` for those by
tenant and period and `typed` for the primary type. The router applies them all
(`Considered`, store.go:212), the evaluator and the trainer the type alone
(evaluation.py:46, training.py:57). Costs are natural numbers.

## 3. Runs

| Run | Bounds | Shows |
| --- | --- | --- |
| `provider_client` | 3 calls; circuit "p" of two tenants (limit 1 for 2 ticks, limit 2 for 1), "q" with the defaults | `OpenJustified`, `LateFailuresBounded`, `Recovers` |
| `gateway_fallback` | 2 requests, 3 models on 2 circuits, 1 restart, no shadows | `LedgerAccountsForCalls`, `FallbackOrder`, `CallsStop`, `TrailSpec`, `ClientSpec` |
| `gateway_shadow` | 2 requests, 2 candidates (one without a configured provider), budget for one shadow, 1 restart | `ShadowsJustified`, `ShadowSpendBounded`, `ClientSpec` |
| `gateway_liveness` | 1 request, 3 models, 1 restart, fair where the code bounds a step | `RequestsEnd`, `ShadowsEnd` |
| `routing` | 3 traces, 5 requests, 5 policies of 2 versions, 2 providers | `GatewayContract`, `NonInferior`, `ExplorationLimited`, `HoldoutSticky` |
| `service` | both stores; 1 request, 1 outcome ID, 2 policy IDs, 2 tenants, budgets 0 and 1; decisions of one tenant too long to be read back; 4 saves, 1 restart | `Trustworthy`, `AckedSurvives`, `PublishedInForce`, `TenantFixed`, `OutcomesAttached`, `SpendWithinGranted`, `ContractSpec` |
| `audit_summary` | 3 decisions over 2 traces and 5 kinds of decision, 2 outcomes of 13 kinds, one of another type and one of another tenant | `OrderIrrelevant`, `CountedOncePerTrace`, `CostsConserved`, `EvaluatorAgrees`, `LabelsExplained` |
| `gateway_shadow_cap`, `routing_reused_version`, `routing_redeployed`, `service_long_line`, `audit_latest` | as the run of the same module, each with one property | section 4 |

Why the bounds are enough for the questions asked: two requests are the least
that interleave on a circuit and on the budget; three models on two circuits let
one model's failure shut out another and leave a fallback behind it; one restart
separates a life of the process before it from one after it; a budget of one
shadow makes every second reservation meet the limit, and the unconfigured
candidate uses it up without a call. The three calls of `provider_client` exceed
the strictest limits, so that late failures arrive at an open and at an expired
circuit. `Requests` are interchangeable, hence the symmetry set in the safety
runs; the liveness run has none. `MaxRestarts` is the only bound on behaviour;
`FairSpec` of the client needs none.

Four saves of `service` are the two of a decision, and two more before, between
or behind them: a failing `Put` and the one after it, an outcome behind a torn
line, two outcomes with one ID. One restart finds what they left. A policy ID
that is configured and one that is free, each wanted by two tenants, are what the
registry tells apart. Three decisions are the least for which a trace has
decisions of two arms and a shadow, and two outcomes the least that can disagree;
the decision IDs are interchangeable and form a symmetry set.

Deadlock is checked in the first three modules, where the environment (midnight,
restarts, probes) always has a step, so the check is weak; `RequestsEnd` and
`ShadowsEnd` are the statements that nobody waits forever. It is off in
`service`, where a torn file keeps the process down for good, as in the code,
and in the runs of `AuditSummary`, where the ledger fills up.

### Fairness

Weak fairness on each handler and each shadow goroutine, except where it waits
for something nothing bounds, and on the clock. Goroutines are scheduled, and the
exchange of `Do`, up to the end of the body, is bounded by a context with a
timeout (client.go:73-77, server.go:334). Nothing else is: a save is `db.Exec`
without a context, on one of 20 connections (postgres.go:25, 44), and an answer
is written to the client without a write timeout (main.go:69-75, server.go:159,
199). These steps (`HandlerWaits`, `ShadowWaits`) are not fair, and the liveness
properties say what then remains: a request ends, or stays in one such step for
good, and the same of a goroutine. They exclude that a handler circles in one of
its loops, or waits for a provider. There is no fairness on arrivals, on
midnight, on restarts, or on what providers answer: a call ends, but in no
particular way. In `provider_client` a call ends under fairness too, which is
the same timeout.

## 4. Where the code and its documents disagree

Five runs end in a counterexample, each of one property that a document or an
assertion of the repository states; `PROJECT.json` quotes the lines.

- `gateway_shadow_cap`: a restart grants the daily shadow budget again.
- `routing_reused_version`: a version can be published twice with different
  content, which moves traces into and out of its holdout.
- `routing_redeployed`: a policy is published, the next deployment has a catalog
  without its incumbent, and the policy is loaded and routes without a quality
  floor. In the configuration it would have kept the process from starting.
- `service_long_line`: every save was acknowledged, one record is longer than
  32 MB, and the process cannot start again.
- `audit_latest`: the last outcome to arrive wins, not the latest to occur.

Others were met and have no run of their own, because one line of the code shows
them or because no document says otherwise:

- A request's own privacy level, deadline or cost limit replaces the policy's
  even when it is laxer (engine.go:195-215), while docs/policy-spec.md:27-28 has
  "Request requirements cannot weaken a policy"; a negative deadline or cost
  limit is none at all.
- A shadow call is recorded only after it returned (server.go:358, 378), while
  docs/architecture.md:35 has decisions written before the upstream call; a
  restart or a shutdown in between loses it.
- The incumbent takes no part in the comparison of costs (engine.go:98-120), so
  a qualified candidate is selected also where the incumbent is cheaper.
- An answer without usage is charged at the estimate of the selected model also
  when a dearer fallback answered (server.go:164, 191; README.md:239 calls the
  estimate conservative); a failed request keeps its initial estimate, and with
  it its share of the savings.
- With `minimum_samples` 0, the value of an omitted field, a candidate without
  labels routes live (engine.go:101, docs/architecture.md:66).
- A line torn by a failing append, or left without its newline, swallows the
  next, acknowledged record and keeps the process from starting again
  (store.go:283-320). `Trustworthy` and `AckedSurvives` are what remains true.
- A `Put` that reported an error may come into force at the next start.
- Lowering a budget does not bind the handlers that already read the policy.
- An outcome for a shadow decision that names no trace becomes the outcome of
  the parent's trace (store.go:222), in the router and in the evaluator.
- The evaluator joins the outcomes of every tenant and time to a trace, the
  router those of the tenant and the period it was asked for (evaluation.py:46,
  store.go:212). They agree on a ledger that holds nothing else, which is the
  premise of `EvaluatorAgrees`.
- The value `null` is a failure to the router and nothing to the evaluator; a
  value above one is clamped by the evaluator only, and the router's interval of
  it may be no number.
- Of two outcomes with one ID the file store keeps both, PostgreSQL the first.
- A failing query reads as an empty audit (postgres.go:106, 123).

## 5. Proofs

Every invariant, action property and refinement of the passing runs is proved,
for every value of the constants that satisfies the modules' ASSUMEs. What
those assume:

- configuration, requests and reports have their types, and the values that
  stand for "none", "idle", "torn" and "lost" are none of the others;
- `Gateway`: the candidates of a policy differ (`Policy.Validate` refuses a
  model listed twice, types.go:264-273, before a policy is configured or
  stored), and the names of requests and shadow goroutines do too;
- `Routing`: the configured policy obeys the exploration cap and lists models of
  the catalog (`config.Validate` checks both); features and predictions are
  numbers. `NumbersAssumption` does not restrict what later catalogs list;
- `Service`: the configuration has one policy per ID (`NewRegistry` keeps the
  last); budgets are not negative; any set of records may be too long to be read
  back;
- `ProviderClient` and `AuditSummary`: finitely many calls and models.

Two theorems carry a premise that the code does not enforce, and say so:
`HoldoutStaysPut` (one control percentage per version) and
`TreatedIsNonInferior` (deployed catalogs list the incumbents). A run of section
4 shows what happens without each.

- **ProviderClient.** `LimitsInv` = `Justified` and `Bounded`. `OpenJustified`
  alone is inductive only with types; the bound on late failures needs the
  count of calls still out, hence the cardinality argument: a call that fails
  moves one unit from "out" to "failures".
- **Gateway, types.** `Inv` = `TypeOK` and `CallsConfigured`: whoever is on the
  wire has a configured provider, which the circuit updates need. One lemma per
  action.
- **Gateway, audit.** `AuditInv` says of each request, by where it is, that its
  record exists (`Recorded`), that what was sent is noted in the decision and
  feasible (`Noted`), and that an empty error means nothing was sent
  (`Explained`). From it follow `LedgerAccountsForCalls` and, step by step, that
  every step of `Gateway` is a step of `AuditTrail` or stutters.
- **Gateway, the attempt loop.** `LoopInv` holds a frontier: what was attempted
  lies before the loop index, and every usable position before it was
  attempted; a refusal puts the index behind the end. `FallbackOrder` (a state
  invariant) and `CallsStop` (an action property) follow from it; neither is
  inductive without the frontier, because the skips between two calls leave no
  trace in the decision.
- **Gateway, shadows.** `ShadowInv` says that a shadow's parent is answered,
  recorded, not risky (`Parented`). The spending bound is inductive as it
  stands: a launch adds to both sides; a restart forgets at most one budget.
- **Gateway as a client.** `OnceInv` says that the shadow loop meets no
  goroutine of its own request and model. With it each step of `Gateway` is one
  step of `ProviderClient`, of the handler or the goroutine that moves, or none
  (`ClientSpec`), so that, with finitely many requests and models, what is proved
  of the client holds of the composed system.
- **Routing.** `ArmInv` says that a stored decision still agrees with the arm
  its own policy and trace give, and that the policy in force and those stored
  are capped; `DecisionInv` adds the types and what `Gateway` assumes
  (`GatewayContract`). `TreatmentIsCheapest` is about the sort: `Ranked` has a
  first element, because the ranks are pairwise different and there are as many
  as candidates (a counting argument), and nothing qualified is cheaper.
  `NonInferior` follows from it and from the quality floor.
- **FileStore.** `StoreInv` says: as long as no save reported an error or was of
  a long record, every file is readable and each map is what loading its file
  gives; and a line is unfinished only where there was such trouble. The heart
  is `WholeLine`: the lines that last after an append are the new one and those
  it does not replace. From it every save is a save of the contract, one of a
  long record included, and every restart finds the kept content.
- **Service, registry and budget.** `Inv` has four parts. `StoreInv` and the
  contract carry both stores; from there on the proof speaks of the contract
  only, so that what it says of the registry holds for any store that implements
  it. `HandlerInv`: the policies in the registry and in the hands of handlers
  are among those granted, and the account stays within one of their budgets.
  `RegistryInv`: policies kept, in force, claimed (configured or acknowledged)
  or in doubt agree on the tenant of each ID; only the memory of failed saves
  makes this inductive, since what failed may be in force after a restart.
- **Service, records.** `AckedInv` says of the readers' content and of what the
  next start finds that each acknowledged record is there or replaced by one of
  the same ID whose save is in doubt, and that the second lacks no ID of the
  first; `AckedSurvives` is its first conjunct. `JoinInv` says that all records
  of one decision carry the policy its handler held, so that an outcome attached
  once stays attached (`OutcomesAttached`), whichever record of the decision
  survives.
- **AuditSummary.** The code's loops are folds and the properties are sums over
  sets. For each fold a closed form is written down (`Tally` for the decisions,
  `LastOf` for the three loops over outcomes), shown to solve the fold's
  recursive equation and to be its only solution; a sum is the cardinality of a
  set of units (`Units`), so that what adds up is a fact about disjoint unions.
  Induction over a finite set is taken as the existence of a smallest
  counterexample in a set of subsets (`FiniteInduction`). The invariant of the
  ledger, `LedgerInv`, adds to the types that outcomes name recorded decisions
  and that finitely many are recorded, which the sums need.

Only model-checked:

- liveness (`Recovers`, `RequestsEnd`, `ShadowsEnd`): the proof system has no
  rules for fairness and ENABLED;
- the properties of the runs that end in a counterexample;
- `AuditTrail`, `AuditStore` and `PostgresStore` have no proof modules of their
  own: the theorems about `Gateway` and `Service` prove their steps.

## 6. What is not modelled

Request parsing and token estimation (pure, their results are inputs);
authentication (rejects before any state changes); headers and bodies; the
Python SDK (a client without state); the fit of the learner, the interval
formula and the verdicts on it (numerical); drift detection (compares two
files); the dashboard; the mock provider.

Of the stores: a power failure (nothing is synced, so more than the last line
may go), a statement that commits after its error was reported and a later save
of the same record, several processes on one database (each has a registry of
its own, read at start only), decisions with one ID, and the two queries of
PostgreSQL's `Summary`, which no transaction joins.

## 7. Reading order

`Circuit`, `ProviderClient`, `AuditTrail`, `Gateway`, `Routing`, `AuditStore`,
`FileStore`, `PostgresStore`, `Service`, `AuditSummary`; then the proof modules
in the order of the table.

## 8. Plan

What is left, in order of importance:

1. Several router processes on one PostgreSQL database: registries that do not
   see each other's publications, budgets that each grants for itself.
2. The verdict of the evaluator and the drift detector as operators over counts,
   with the interval abstracted to a monotone function.
3. Proofs: that the client's theorems carry over to `Gateway` by name
   (`OpenJustified` of the composed system), and that of `PostgresStore` what
   `FileStoreProofs` states of the file store.
