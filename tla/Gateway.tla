------------------------------ MODULE Gateway ------------------------------
(***************************************************************************)
(* The request path of api.Server (internal/api/server.go) for one tenant  *)
(* and one policy: concurrent chatCompletions handlers and the shadow      *)
(* goroutines they start, sharing the provider circuits, the in-memory     *)
(* shadow budget and the audit store, with calls that fail, saves that     *)
(* fail, and a process that may be killed between any two steps.           *)
(*                                                                         *)
(* The pc of a request:                                                    *)
(*   idle       not arrived                                                *)
(*   routed     Engine.Route returned, initial SaveDecision to come        *)
(*   trying     in the attempt loop, position at[r] of AttemptOrder        *)
(*   calling    Providers.Do is on the wire                                *)
(*   launching  a model answered; in launchShadows at position at[r],      *)
(*              then relaying the answer                                   *)
(*   answered   the client has an answer that names the decision           *)
(*   rejected   500 audit_unavailable                                      *)
(*   lost       the process ended first                                    *)
(***************************************************************************)
EXTENDS Circuit, FiniteSets, Sequences

CONSTANTS
  Requests,     \* chat completion requests, each with its own decision ID
  Models,       \* the enabled models of the catalog
  Providers,    \* provider IDs
  None,         \* no model, no ledger entry
  ProviderOf,   \* model.Provider
  Configured,   \* the providers in tenant.Providers ...
  Config,       \* ... and what it says of each, see ConfigType
  Incumbent,    \* policy.IncumbentModel
  Candidates,   \* policy.CandidateModels
  Fallbacks,    \* policy.FallbackModels
  Fits,         \* the model sets that some request's constraints admit
  Cost,         \* estimated cost of a request to each model
  Budget,       \* policy.ShadowBudgetUSDPerDay, in the unit of Cost
  MaxRestarts   \* bound: how often the process ends

(* Policy.Validate refuses a policy that lists a model twice               *)
(* (types.go:264-273).                                                     *)
ASSUME GatewayAssumption ==
  /\ None \notin Models
  /\ ProviderOf \in [Models -> Providers]
  /\ Configured \subseteq Providers
  /\ Config \in [Configured -> ConfigType(Providers)]
  /\ Incumbent \in Models
  /\ Candidates \in Seq(Models)
  /\ \A i, j \in DOMAIN Candidates : Candidates[i] = Candidates[j] => i = j
  /\ Fallbacks \in Seq(Models)
  /\ Fits \subseteq SUBSET Models
  /\ Cost \in [Models -> Nat]
  /\ Budget \in Nat
  /\ MaxRestarts \in Nat
  /\ Requests \cap (Requests \X Models) = {}

VARIABLES
  circuits,      \* provider.Client.circuits
  pc,            \* where each handler is
  at,            \* the loop index of each handler
  decision,      \* each handler's domain.RouteDecision
  lastError,     \* each handler's lastError
  ledger,        \* the store's newest record of each production decision
  shadow,        \* the shadow goroutine of each request and model
  shadowLedger,  \* shadow decisions the store has a record of
  spend,         \* Server.shadowSpendUSD of today
  sent,          \* history: models each request really went out to
  launched,      \* history: cost of the shadows started today
  restarts       \* history: how often the process ended

handlerVars == <<pc, at, decision, lastError, sent>>
shadowVars == <<shadow, shadowLedger, spend, launched>>
vars == <<circuits, handlerVars, ledger, shadowVars, restarts>>

MaybeModel == Models \cup {None}

(* The fields of domain.RouteDecision the handler works on.  charged is    *)
(* the model whose price ActualCostUSD was computed from.                  *)
DecisionType ==
  [selected : MaybeModel, eligible : SUBSET Models, shadows : SUBSET Models,
   risky : BOOLEAN, attempted : SUBSET Models, final : MaybeModel,
   charged : MaybeModel, error : BOOLEAN, completed : BOOLEAN]

ASSUME NoneAssumption ==
  /\ None \notin DecisionType
  /\ None \notin ConfigType(Providers)

NoDecision ==
  [selected |-> None, eligible |-> {}, shadows |-> {}, risky |-> FALSE,
   attempted |-> {}, final |-> None, charged |-> None, error |-> FALSE,
   completed |-> FALSE]

ShadowIds == Requests \X Models
Ended == {"answered", "rejected", "lost"}

(* buildAttemptOrder, with the later occurrences of a model left in:       *)
(* Repeated says which positions the code dropped.                         *)
AttemptOrder(selected) == <<selected>> \o Fallbacks \o <<Incumbent>>

(* Mutated: duplicates stay in. *)
NeverRepeated(order, i) == FALSE

Repeated(order, i) == \E j \in 1..(i - 1) : order[j] = order[i]

Init ==
  /\ circuits = [p \in Providers |-> Fresh]
  /\ pc = [r \in Requests |-> "idle"]
  /\ at = [r \in Requests |-> 1]
  /\ decision = [r \in Requests |-> NoDecision]
  /\ lastError = [r \in Requests |-> "none"]
  /\ ledger = [r \in Requests |-> None]
  /\ shadow = [s \in ShadowIds |-> "none"]
  /\ shadowLedger = {}
  /\ spend = 0
  /\ sent = [r \in Requests |-> {}]
  /\ launched = 0
  /\ restarts = 0
-----------------------------------------------------------------------------
(***************************************************************************)
(* Routing, and the record that precedes the calls.                        *)
(***************************************************************************)

(* The models Engine.Route asks the provider health of.                    *)
SeqRange(s) == {s[i] : i \in DOMAIN s}
Considered == {Incumbent} \cup SeqRange(Candidates) \cup SeqRange(Fallbacks)

(* Engine.Route as the handler sees it: the models that fit the request    *)
(* and whose circuit is not open are eligible; the incumbent or an         *)
(* eligible candidate is selected; the eligible candidates are shadow      *)
(* models, unless the policy only observes.  Routing has the whole story.  *)
Route(r) ==
  /\ pc[r] = "idle"
  /\ \E fit \in Fits, risky \in BOOLEAN, observing \in BOOLEAN :
       LET eligible == {m \in fit \cap Considered :
                          Available(circuits[ProviderOf[m]])}
           capable == IF observing THEN {}
                      ELSE SeqRange(Candidates) \cap eligible
           shadows == IF Budget = 0 THEN {} ELSE capable
       IN  \E selected \in {Incumbent} \cup capable :
             decision' = [decision EXCEPT ![r] =
               [NoDecision EXCEPT !.selected = selected, !.eligible = eligible,
                                  !.shadows = shadows, !.risky = risky]]
  /\ circuits' = [p \in Providers |->
                    IF \E m \in Considered : ProviderOf[m] = p
                    THEN Refreshed(circuits[p]) ELSE circuits[p]]
  /\ pc' = [pc EXCEPT ![r] = "routed"]
  /\ UNCHANGED <<at, lastError, sent, ledger, shadowVars, restarts>>

(* SaveDecision: the store takes the record, refuses it, or takes it and   *)
(* reports an error all the same.                                          *)
Saved(r, d) == ledger' = [ledger EXCEPT ![r] = d]

SavedOrNot(r, d) == Saved(r, d) \/ UNCHANGED ledger

SaveInitial(r) ==
  /\ pc[r] = "routed"
  /\ Saved(r, decision[r])
  /\ pc' = [pc EXCEPT ![r] = "trying"]
  /\ UNCHANGED <<circuits, at, decision, lastError, sent, shadowVars, restarts>>

(* Mutated: a failed save is only logged. *)
ProceedUnaudited(r) ==
  /\ pc[r] = "routed"
  /\ SavedOrNot(r, decision[r])
  /\ pc' = [pc EXCEPT ![r] = "trying"]
  /\ UNCHANGED <<circuits, at, decision, lastError, sent, shadowVars, restarts>>

RejectUnaudited(r) ==
  /\ pc[r] = "routed"
  /\ SavedOrNot(r, decision[r])
  /\ pc' = [pc EXCEPT ![r] = "rejected"]
  /\ UNCHANGED <<circuits, at, decision, lastError, sent, shadowVars, restarts>>
-----------------------------------------------------------------------------
(***************************************************************************)
(* The attempt loop.                                                       *)
(***************************************************************************)

Turn(r) == AttemptOrder(decision[r].selected)[at[r]]

(* The model of this iteration, if it is not passed over.                  *)
InLoop(r) ==
  /\ pc[r] = "trying"
  /\ at[r] <= Len(AttemptOrder(decision[r].selected))

Passed(r) ==
  \/ Repeated(AttemptOrder(decision[r].selected), at[r])
  \/ Turn(r) \notin decision[r].eligible

(* Mutated: a continue that advances twice. *)
NextTurnButOne(r) == at' = [at EXCEPT ![r] = @ + 2]

NextTurn(r) == at' = [at EXCEPT ![r] = @ + 1]

(* Mutated: the model is not noted before the call. *)
AttemptedUnnoted(r) == UNCHANGED decision

Attempted(r) == decision' = [decision EXCEPT ![r].attempted = @ \cup {Turn(r)}]

PassOver(r) ==
  /\ InLoop(r)
  /\ Passed(r)
  /\ NextTurn(r)
  /\ UNCHANGED <<circuits, pc, decision, lastError, sent, ledger, shadowVars,
                 restarts>>

Unconfigured(r) ==
  /\ InLoop(r)
  /\ ~Passed(r)
  /\ ProviderOf[Turn(r)] \notin Configured
  /\ NextTurn(r)
  /\ lastError' = [lastError EXCEPT ![r] = "retryable"]
  /\ UNCHANGED <<circuits, pc, decision, sent, ledger, shadowVars, restarts>>

(* The circuit Do uses is that of the configured provider's ID.            *)
ConfigOf(m) == Config[ProviderOf[m]]
CircuitOf(m) == circuits[ConfigOf(m).provider]

CircuitOpen(r) ==
  /\ InLoop(r)
  /\ ~Passed(r)
  /\ ProviderOf[Turn(r)] \in Configured
  /\ ~Available(CircuitOf(Turn(r)))
  /\ Attempted(r)
  /\ NextTurn(r)
  /\ lastError' = [lastError EXCEPT ![r] = "retryable"]
  /\ UNCHANGED <<circuits, pc, sent, ledger, shadowVars, restarts>>

(* Mutated: Do does not look at the circuit. *)
SendUnchecked(r) ==
  /\ InLoop(r)
  /\ ~Passed(r)
  /\ ProviderOf[Turn(r)] \in Configured
  /\ Attempted(r)
  /\ pc' = [pc EXCEPT ![r] = "calling"]
  /\ sent' = [sent EXCEPT ![r] = @ \cup {Turn(r)}]
  /\ UNCHANGED <<circuits, at, lastError, ledger, shadowVars, restarts>>

Send(r) ==
  /\ InLoop(r)
  /\ ~Passed(r)
  /\ ProviderOf[Turn(r)] \in Configured
  /\ Available(CircuitOf(Turn(r)))
  /\ Attempted(r)
  /\ pc' = [pc EXCEPT ![r] = "calling"]
  /\ sent' = [sent EXCEPT ![r] = @ \cup {Turn(r)}]
  /\ circuits' = [circuits EXCEPT ![ConfigOf(Turn(r)).provider] = Refreshed(@)]
  /\ UNCHANGED <<at, lastError, ledger, shadowVars, restarts>>

(* Mutated: the shadow loop starts before the first shadow. *)
AnsweredFromZero(r) ==
  /\ pc[r] = "calling"
  /\ circuits' = [circuits EXCEPT ![ConfigOf(Turn(r)).provider] = Fresh]
  /\ decision' = [decision EXCEPT ![r].final = Turn(r)]
  /\ pc' = [pc EXCEPT ![r] = "launching"]
  /\ at' = [at EXCEPT ![r] = 0]
  /\ UNCHANGED <<lastError, sent, ledger, shadowVars, restarts>>

(* Do returns a 2xx answer: the loop ends with response # nil.             *)
Answered(r) ==
  /\ pc[r] = "calling"
  /\ circuits' = [circuits EXCEPT ![ConfigOf(Turn(r)).provider] = Fresh]
  /\ decision' = [decision EXCEPT ![r].final = Turn(r)]
  /\ pc' = [pc EXCEPT ![r] = "launching"]
  /\ at' = [at EXCEPT ![r] = 1]
  /\ UNCHANGED <<lastError, sent, ledger, shadowVars, restarts>>

(* A transport error, a timeout, a client that went away, or a retryable   *)
(* status.                                                                 *)
FailedRetryably(r) ==
  /\ pc[r] = "calling"
  /\ circuits' = [circuits EXCEPT ![ConfigOf(Turn(r)).provider] =
                    Failed(@, ConfigOf(Turn(r)))]
  /\ lastError' = [lastError EXCEPT ![r] = "retryable"]
  /\ pc' = [pc EXCEPT ![r] = "trying"]
  /\ NextTurn(r)
  /\ UNCHANGED <<decision, sent, ledger, shadowVars, restarts>>

(* Mutated: a refused call is repeated. *)
RefusedAgain(r) ==
  /\ pc[r] = "calling"
  /\ lastError' = [lastError EXCEPT ![r] = "refused"]
  /\ pc' = [pc EXCEPT ![r] = "trying"]
  /\ UNCHANGED <<circuits, at, decision, sent, ledger, shadowVars, restarts>>

(* Any other status breaks out of the loop.                                *)
Refused(r) ==
  /\ pc[r] = "calling"
  /\ lastError' = [lastError EXCEPT ![r] = "refused"]
  /\ pc' = [pc EXCEPT ![r] = "trying"]
  /\ at' = [at EXCEPT ![r] = Len(AttemptOrder(decision[r].selected)) + 1]
  /\ UNCHANGED <<circuits, decision, sent, ledger, shadowVars, restarts>>

(* response = nil after the loop: the record is closed, 502.               *)
Finish(r, error, charged) ==
  LET d == [decision[r] EXCEPT !.error = error, !.charged = charged,
                               !.completed = TRUE]
  IN  /\ decision' = [decision EXCEPT ![r] = d]
      /\ SavedOrNot(r, d)
      /\ pc' = [pc EXCEPT ![r] = "answered"]
      /\ UNCHANGED <<circuits, at, lastError, sent, shadowVars, restarts>>

AllFailed(r) ==
  /\ pc[r] = "trying"
  /\ ~InLoop(r)
  /\ Finish(r, lastError[r] # "none", None)
-----------------------------------------------------------------------------
(***************************************************************************)
(* launchShadows, one iteration of its loop at a time, and the goroutines. *)
(***************************************************************************)

Launching(r) ==
  /\ pc[r] = "launching"
  /\ ~decision[r].risky
  /\ at[r] <= Len(Candidates)

(* Mutated: the model that answered is shadowed too. *)
ShadowedAll(r, m) == m \in decision[r].shadows

Shadowed(r, m) == m \in decision[r].shadows /\ m # decision[r].final

(* Mutated: the reservation itself is not counted. *)
WithinBudgetBefore(m) == spend <= Budget

WithinBudget(m) == spend + Cost[m] <= Budget

PassShadow(r) ==
  /\ Launching(r)
  /\ \/ ~Shadowed(r, Candidates[at[r]])
     \/ ~WithinBudget(Candidates[at[r]])
  /\ NextTurn(r)
  /\ UNCHANGED <<circuits, pc, decision, lastError, sent, ledger, shadowVars,
                 restarts>>

(* reserveShadowBudget adds the estimate before the provider is looked up: *)
(* without a provider the reservation stays and no goroutine starts.       *)
LaunchShadow(r) ==
  LET m == Candidates[at[r]]
  IN  /\ Launching(r)
      /\ Shadowed(r, m)
      /\ WithinBudget(m)
      /\ spend' = spend + Cost[m]
      /\ NextTurn(r)
      /\ IF ProviderOf[m] \in Configured
         THEN /\ shadow' = [shadow EXCEPT ![<<r, m>>] = "started"]
              /\ launched' = launched + Cost[m]
         ELSE UNCHANGED <<shadow, launched>>
      /\ UNCHANGED <<circuits, pc, decision, lastError, sent, ledger,
                     shadowLedger, restarts>>

ShadowBlocked(s) ==
  /\ shadow[s] = "started"
  /\ ~Available(CircuitOf(s[2]))
  /\ shadow' = [shadow EXCEPT ![s] = "returned"]
  /\ UNCHANGED <<circuits, handlerVars, ledger, shadowLedger, spend, launched,
                 restarts>>

(* Mutated: Do does not look at the circuit. *)
ShadowSendUnchecked(s) ==
  /\ shadow[s] = "started"
  /\ shadow' = [shadow EXCEPT ![s] = "calling"]
  /\ UNCHANGED <<circuits, handlerVars, ledger, shadowLedger, spend, launched,
                 restarts>>

ShadowSend(s) ==
  /\ shadow[s] = "started"
  /\ Available(CircuitOf(s[2]))
  /\ circuits' = [circuits EXCEPT ![ConfigOf(s[2]).provider] = Refreshed(@)]
  /\ shadow' = [shadow EXCEPT ![s] = "calling"]
  /\ UNCHANGED <<handlerVars, ledger, shadowLedger, spend, launched, restarts>>

(* Mutated: a failed shadow call is tried again. *)
ShadowReturnRetries(s) ==
  /\ shadow[s] = "calling"
  /\ LET p == ConfigOf(s[2]).provider
     IN  \/ /\ circuits' = [circuits EXCEPT ![p] = Fresh]
            /\ shadow' = [shadow EXCEPT ![s] = "returned"]
         \/ /\ circuits' = [circuits EXCEPT ![p] = Failed(@, ConfigOf(s[2]))]
            /\ shadow' = [shadow EXCEPT ![s] = "started"]
  /\ UNCHANGED <<handlerVars, ledger, shadowLedger, spend, launched, restarts>>

(* The three ways Do ends, as for a production call.                       *)
ShadowReturn(s) ==
  /\ shadow[s] = "calling"
  /\ LET p == ConfigOf(s[2]).provider
     IN  \/ circuits' = [circuits EXCEPT ![p] = Fresh]
         \/ circuits' = [circuits EXCEPT ![p] = Failed(@, ConfigOf(s[2]))]
         \/ UNCHANGED circuits
  /\ shadow' = [shadow EXCEPT ![s] = "returned"]
  /\ UNCHANGED <<handlerVars, ledger, shadowLedger, spend, launched, restarts>>

ShadowSave(s) ==
  /\ shadow[s] = "returned"
  /\ shadow' = [shadow EXCEPT ![s] = "done"]
  /\ shadowLedger' \in {shadowLedger, shadowLedger \cup {s}}
  /\ UNCHANGED <<circuits, handlerVars, ledger, spend, launched, restarts>>
-----------------------------------------------------------------------------
(***************************************************************************)
(* The answer, after the shadows were launched.                            *)
(***************************************************************************)

Relaying(r) == pc[r] = "launching" /\ ~Launching(r)

(* A stream is charged at the estimate of the selected model, whether it   *)
(* was interrupted or not; the record is closed after the last byte.       *)
Stream(r) ==
  /\ Relaying(r)
  /\ \E interrupted \in BOOLEAN : Finish(r, interrupted, decision[r].selected)

(* A buffered answer is charged at the usage it reports, if any; the       *)
(* record is closed before the first byte.                                 *)
Buffer(r) ==
  /\ Relaying(r)
  /\ \E charged \in {decision[r].final, decision[r].selected} :
       Finish(r, FALSE, charged)

UnreadableAnswer(r) ==
  /\ Relaying(r)
  /\ Finish(r, TRUE, None)
-----------------------------------------------------------------------------
(***************************************************************************)
(* Time, and the end of the process.                                       *)
(***************************************************************************)

Tick ==
  /\ \E p \in Providers : IsOpen(circuits[p])
  /\ circuits' = [p \in Providers |-> Elapsed(circuits[p])]
  /\ UNCHANGED <<handlerVars, ledger, shadowVars, restarts>>

(* Midnight UTC: the budget has a new key.                                 *)
NewDay ==
  /\ spend' = 0
  /\ launched' = 0
  /\ UNCHANGED <<circuits, handlerVars, ledger, shadow, shadowLedger, restarts>>

(* Everything but the store is in memory.                                  *)
Restart ==
  /\ restarts < MaxRestarts
  /\ restarts' = restarts + 1
  /\ circuits' = [p \in Providers |-> Fresh]
  /\ pc' = [r \in Requests |->
              IF pc[r] \in Ended \cup {"idle"} THEN pc[r] ELSE "lost"]
  /\ shadow' = [s \in ShadowIds |->
                  IF shadow[s] = "none" THEN "none" ELSE "done"]
  /\ spend' = 0
  /\ UNCHANGED <<at, decision, lastError, sent, ledger, shadowLedger, launched>>

Handle(r) ==
  \/ SaveInitial(r) \/ RejectUnaudited(r)
  \/ PassOver(r) \/ Unconfigured(r) \/ CircuitOpen(r) \/ Send(r)
  \/ Answered(r) \/ FailedRetryably(r) \/ Refused(r) \/ AllFailed(r)
  \/ PassShadow(r) \/ LaunchShadow(r)
  \/ Stream(r) \/ Buffer(r) \/ UnreadableAnswer(r)

RunShadow(s) ==
  ShadowBlocked(s) \/ ShadowSend(s) \/ ShadowReturn(s) \/ ShadowSave(s)

Next ==
  \/ \E r \in Requests : Route(r) \/ Handle(r)
  \/ \E s \in ShadowIds : RunShadow(s)
  \/ Tick
  \/ NewDay
  \/ Restart

Spec == Init /\ [][Next]_vars

(* Where a handler or a goroutine may wait for good: in SaveDecision, which *)
(* runs without a context, and in a write to a client that does not read,  *)
(* since the server sets no write timeout.                                 *)
HandlerWaits(r) ==
  \/ pc[r] = "routed"
  \/ pc[r] = "trying" /\ ~InLoop(r)
  \/ Relaying(r)

ShadowWaits(s) == shadow[s] = "returned"

(* Everywhere else they keep running, and a call ends when the context of  *)
(* Do times out.  Nothing makes the store or a client answer, a request    *)
(* arrive, a day end or the process die.                                   *)
FairSpec ==
  /\ Spec
  /\ \A r \in Requests : WF_vars(~HandlerWaits(r) /\ Handle(r))
  /\ \A s \in ShadowIds : WF_vars(~ShadowWaits(s) /\ RunShadow(s))
  /\ WF_vars(Tick)
-----------------------------------------------------------------------------
TypeOK ==
  /\ circuits \in [Providers -> CircuitType]
  /\ pc \in [Requests -> {"idle", "routed", "trying", "calling", "launching"}
                            \cup Ended]
  /\ at \in [Requests -> Nat \ {0}]
  /\ decision \in [Requests -> DecisionType]
  /\ lastError \in [Requests -> {"none", "retryable", "refused"}]
  /\ ledger \in [Requests -> DecisionType \cup {None}]
  /\ shadow \in [ShadowIds -> {"none", "started", "calling", "returned", "done"}]
  /\ shadowLedger \subseteq ShadowIds
  /\ spend \in Nat
  /\ sent \in [Requests -> SUBSET Models]
  /\ launched \in Nat
  /\ restarts \in 0..MaxRestarts

(* docs/architecture.md:35-37, 70; server.go:95-100, 136-147.  A closed    *)
(* record accounts for every call of its request: it names each model the  *)
(* request went out to, all of them feasible for it, the model that        *)
(* answered is one of them, and a failure without an error text means that *)
(* nothing was sent.                                                       *)
LedgerAccountsForCalls ==
  \A r \in Requests :
    LET d == ledger[r]
    IN  d # None /\ d.completed =>
          /\ sent[r] \subseteq d.attempted
          /\ d.attempted \subseteq d.eligible
          /\ d.final # None => d.final \in sent[r]
          /\ d.final = None /\ ~d.error => sent[r] = {}

(* docs/architecture.md:29-31; server.go:102-135.  Fallback keeps its      *)
(* order: a model is attempted only after every usable one before it, and  *)
(* a request fails without a refusal only when all of them were attempted. *)
Usable(r, i) ==
  LET m == AttemptOrder(decision[r].selected)[i]
  IN  m \in decision[r].eligible /\ ProviderOf[m] \in Configured

FallbackOrder ==
  \A r \in Requests :
    LET order == AttemptOrder(decision[r].selected)
        tried(i) == order[i] \in decision[r].attempted
        failed == /\ pc[r] = "answered"
                  /\ decision[r].final = None
                  /\ lastError[r] # "refused"
    IN  pc[r] # "idle" =>
          \A i \in DOMAIN order :
            /\ Usable(r, i) /\ ~tried(i) =>
                 \A j \in (i + 1)..Len(order) :
                   tried(j) => \E k \in 1..i : order[k] = order[j]
            /\ failed /\ Usable(r, i) => tried(i)

(* server.go:70-200, 320-349.  A shadow call is made only for a request    *)
(* that a model already answered, under a recorded decision, for another   *)
(* model that was feasible for it, and never for risky traffic             *)
(* (README.md:201).  Shadow records hang on such a parent too.             *)
ShadowsJustified ==
  \A s \in ShadowIds :
    shadow[s] # "none" \/ s \in shadowLedger =>
      LET d == decision[s[1]]
      IN  /\ ledger[s[1]] # None
          /\ d.final \notin {None, s[2]}
          /\ s[2] \in d.eligible
          /\ ~d.risky

(* server.go:385-394; docs/policy-spec.md:23.  Within one life of the      *)
(* process the shadows of a day cost no more than was reserved for them,   *)
(* and reservations stay within the budget.  Every restart may add one     *)
(* budget at most.                                                         *)
ShadowSpendBounded ==
  /\ spend <= Budget
  /\ launched <= restarts * Budget + spend

(* docs/policy-spec.md:23, "maximum estimated daily duplicate inference".  *)
DailyShadowCap == launched <= Budget

(* docs/architecture.md:29; client.go:142-148.  Once a model refused the   *)
(* request no other model gets it; once one answered neither; and no model *)
(* gets it twice.                                                          *)
CallsStop ==
  [][\A r \in Requests :
       /\ lastError[r] = "refused" \/ decision[r].final # None =>
            sent'[r] = sent[r]
       /\ pc[r] # "calling" /\ pc'[r] = "calling" => sent'[r] # sent[r]]_vars

(* server.go:70-200.  Whatever the providers do, every request that was    *)
(* routed gets an answer, or its process ends, or it hangs for good in one *)
(* save or in writing its answer: it does not circle in the attempt loop   *)
(* or in the shadow loop, and no call keeps it.                            *)
RequestsEnd ==
  \A r \in Requests :
    pc[r] = "routed" ~> (pc[r] \in Ended \/ []HandlerWaits(r))

(* server.go:333-381.  Every shadow goroutine ends, or hangs for good in   *)
(* the save of its record.                                                 *)
ShadowsEnd ==
  \A s \in ShadowIds :
    shadow[s] = "started" ~> (shadow[s] = "done" \/ []ShadowWaits(s))

(* The audit trail promised for production decisions.                      *)
Trail ==
  INSTANCE AuditTrail WITH
    Decisions <- Requests,
    recorded  <- {r \in Requests : ledger[r] # None},
    completed <- {r \in Requests : ledger[r] # None /\ ledger[r].completed}

TrailSpec == Trail!Spec

(* The provider client as its callers drive it: every handler and every    *)
(* goroutine is one of its calls.                                          *)
CallOf(c) ==
  IF c \in Requests
  THEN IF pc[c] = "calling" THEN ConfigOf(Turn(c)) ELSE None
  ELSE IF shadow[c] = "calling" THEN ConfigOf(c[2]) ELSE None

Client ==
  INSTANCE ProviderClient WITH
    Calls        <- Requests \cup ShadowIds,
    Configs      <- {Config[p] : p \in Configured},
    Idle         <- None,
    calls        <- [c \in Requests \cup ShadowIds |-> CallOf(c)]

ClientSpec == Client!Spec
=============================================================================
