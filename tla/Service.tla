------------------------------ MODULE Service -------------------------------
(***************************************************************************)
(* cmd/router/main.go: the process around an audit store, which is a       *)
(* FileStore or, with DATABASE_URL, a PostgresStore; the policy registry   *)
(* it loads and persists through that store; and the handlers that save:   *)
(* putPolicy, chatCompletions (with the policy it read before the policy   *)
(* was replaced) and outcomes.  Saves fail, and the process ends and       *)
(* starts again, between any two steps.                                    *)
(*                                                                         *)
(* The pc of a request:                                                    *)
(*   idle      not arrived                                                 *)
(*   routed    has its policy, initial SaveDecision to come                *)
(*   recorded  decision recorded; calls, shadows, and the second save      *)
(*   ended     answered, or rejected for want of an audit record           *)
(*   lost      the process ended first                                     *)
(***************************************************************************)
EXTENDS Naturals, Sequences

CONSTANTS
  Requests,    \* chat completion requests, each with a decision ID
  OutcomeIds,  \* IDs of outcomes: clock readings, two may coincide
  PolicyIds,
  Tenants,
  Budgets,     \* values of shadow_budget_usd_per_day, in shadows
  Configured,  \* cfg.Policies, the last one of each ID
  Long,        \* the records whose line is longer than 32 MB
  None,        \* no policy
  Torn, Lost,  \* see FileStore
  MaxSaves,    \* bound: how many saves are attempted
  MaxRestarts  \* bound: how often the process ends

Policies == [id : PolicyIds, tenant : Tenants, budget : Budgets]
Decisions == [id : Requests, policy : Policies, completed : BOOLEAN]
Outcomes == [id : OutcomeIds, tenant : Tenants, decision : Requests]

Tables == {"decisions", "outcomes", "policies"}
Upserted == {"decisions", "policies"}
Records == Policies \cup Decisions \cup Outcomes

ASSUME ServiceAssumption ==
  /\ Budgets \subseteq Nat
  /\ Configured \subseteq Policies
  /\ \A p, q \in Configured : p.id = q.id => p = q
  /\ Long \subseteq Records
  /\ None \notin Policies
  /\ Torn \notin Records
  /\ Lost \notin [Tables -> SUBSET Records]
  /\ MaxSaves \in Nat
  /\ MaxRestarts \in Nat

VARIABLES
  backend,   \* "file" or "postgres"
  up, files, open, memory, troubles,  \* see FileStore
  rows,      \* see PostgresStore
  registry,  \* Registry.policies
  pc,        \* where each chatCompletions handler is
  held,      \* the policy each handler read
  spend,     \* Server.shadowSpendUSD of today, by policy ID
  acked,     \* history: the newest acknowledged record of each ID
  failed,    \* history: records whose save reported an error since then ...
  loose,     \* ... and the same of earlier lives of the process
  granted,   \* history: the policies in force since the start
  saves,     \* history: how many saves were attempted
  restarts   \* history: how often the process ended

storeVars == <<files, open, memory, rows>>
handlerVars == <<pc, held>>
history == <<acked, failed, loose, saves>>
vars == <<backend, up, storeVars, troubles, registry, handlerVars, spend,
          history, granted, restarts>>

File == INSTANCE FileStore
Postgres == INSTANCE PostgresStore

Init ==
  /\ backend \in {"file", "postgres"}
  /\ File!Init
  /\ Postgres!Init
  /\ registry = {}
  /\ pc = [r \in Requests |-> "idle"]
  /\ held = [r \in Requests |-> None]
  /\ spend = [i \in PolicyIds |-> 0]
  /\ acked = [t \in Tables |-> {}]
  /\ failed = [t \in Tables |-> {}]
  /\ loose = [t \in Tables |-> {}]
  /\ granted = {}
  /\ saves = 0
  /\ restarts = 0
-----------------------------------------------------------------------------
(***************************************************************************)
(* The repository.                                                         *)
(***************************************************************************)

(* What readers get, and what the next start finds.                        *)
Seen == IF backend = "file" THEN memory ELSE Postgres!Visible
Kept == IF backend = "file" THEN File!Kept ELSE rows

Others(content, r) == {x \in content : x.id # r.id}

Saved(t, r) ==
  /\ saves < MaxSaves
  /\ saves' = saves + 1
  /\ \/ backend = "file" /\ File!Save(t, r) /\ UNCHANGED rows
     \/ /\ backend = "postgres"
        /\ Postgres!Save(t, r)
        /\ UNCHANGED <<files, open, memory>>
  /\ acked' = [acked EXCEPT ![t] = Others(@, r) \cup {r}]
  /\ failed' = [failed EXCEPT ![t] = Others(@, r)]
  /\ loose' = [loose EXCEPT ![t] = Others(@, r)]

Refused(t, r) ==
  /\ saves < MaxSaves
  /\ saves' = saves + 1
  /\ \/ backend = "file" /\ File!Break(t, r) /\ UNCHANGED rows
     \/ /\ backend = "postgres"
        /\ Postgres!Break(t, r)
        /\ UNCHANGED <<files, open, memory>>
  /\ failed' = [failed EXCEPT ![t] = @ \cup {r}]
  /\ UNCHANGED <<acked, loose>>
-----------------------------------------------------------------------------
(***************************************************************************)
(* Policies.                                                               *)
(***************************************************************************)

(* The policies of table t in the place of those they share an ID with.    *)
Overridden(policies, t) ==
  {p \in policies : \A q \in t : q.id # p.id} \cup t

(* Mutated: a policy may change hands.                                     *)
MovesFreely(p) == TRUE

StaysWithTenant(p) == \A q \in registry : q.id = p.id => q.tenant = p.tenant

(* Mutated: the registry takes the policy before the save.                 *)
PutBeforeSave(p) ==
  /\ StaysWithTenant(p)
  /\ Saved("policies", p) \/ Refused("policies", p)
  /\ registry' = Overridden(registry, {p})
  /\ granted' = granted \cup {p}
  /\ UNCHANGED <<backend, handlerVars, spend, restarts>>

(* Registry.Put, under its lock; what does not validate changes nothing.   *)
Put(p) ==
  /\ StaysWithTenant(p)
  /\ \/ /\ Saved("policies", p)
        /\ registry' = Overridden(registry, {p})
        /\ granted' = granted \cup {p}
     \/ /\ Refused("policies", p)
        /\ UNCHANGED <<registry, granted>>
  /\ UNCHANGED <<backend, handlerVars, spend, restarts>>
-----------------------------------------------------------------------------
(***************************************************************************)
(* Chat completions, as far as they meet the registry and the store.       *)
(***************************************************************************)

(* Mutated: a policy that is not found is used all the same.               *)
ArriveUnknown(r) ==
  /\ up
  /\ pc[r] = "idle"
  /\ \E p \in registry \cup {None} : held' = [held EXCEPT ![r] = p]
  /\ pc' = [pc EXCEPT ![r] = "routed"]
  /\ UNCHANGED <<backend, up, storeVars, troubles, registry, spend, history,
                 granted, restarts>>

(* Registry.Get: a copy of the policy, which the handler keeps.            *)
Arrive(r) ==
  /\ up
  /\ pc[r] = "idle"
  /\ \E p \in registry : held' = [held EXCEPT ![r] = p]
  /\ pc' = [pc EXCEPT ![r] = "routed"]
  /\ UNCHANGED <<backend, up, storeVars, troubles, registry, spend, history,
                 granted, restarts>>

DecisionOf(r, completed) ==
  [id |-> r, policy |-> held[r], completed |-> completed]

(* No inference without a record: an error ends the request.               *)
Record(r) ==
  /\ pc[r] = "routed"
  /\ \/ /\ Saved("decisions", DecisionOf(r, FALSE))
        /\ pc' = [pc EXCEPT ![r] = "recorded"]
     \/ /\ Refused("decisions", DecisionOf(r, FALSE))
        /\ pc' = [pc EXCEPT ![r] = "ended"]
  /\ UNCHANGED <<backend, registry, held, spend, granted, restarts>>

(* Mutated: nothing is compared.                                           *)
ReserveUnchecked(r) ==
  /\ pc[r] = "recorded"
  /\ spend[held[r].id] < 3
  /\ spend' = [spend EXCEPT ![held[r].id] = @ + 1]
  /\ UNCHANGED <<backend, up, storeVars, troubles, registry, handlerVars,
                 history, granted, restarts>>

(* A shadow is reserved against the budget of the policy the handler has,  *)
(* from an account that is kept by tenant and policy ID.                   *)
Reserve(r) ==
  /\ pc[r] = "recorded"
  /\ spend[held[r].id] + 1 <= held[r].budget
  /\ spend' = [spend EXCEPT ![held[r].id] = @ + 1]
  /\ UNCHANGED <<backend, up, storeVars, troubles, registry, handlerVars,
                 history, granted, restarts>>

(* An error of the second save is only logged.                             *)
Complete(r) ==
  /\ pc[r] = "recorded"
  /\ \/ Saved("decisions", DecisionOf(r, TRUE))
     \/ Refused("decisions", DecisionOf(r, TRUE))
  /\ pc' = [pc EXCEPT ![r] = "ended"]
  /\ UNCHANGED <<backend, registry, held, spend, granted, restarts>>
-----------------------------------------------------------------------------
(* Mutated: any decision_id is accepted.                                   *)
ReportAnything(o) ==
  /\ Saved("outcomes", o) \/ Refused("outcomes", o)
  /\ UNCHANGED <<backend, registry, handlerVars, spend, granted, restarts>>

(* The outcomes handler: GetDecision must find the decision, and find it a *)
(* decision of the caller's tenant.  The save comes later in the handler;  *)
(* both are one step, since a decision that was found is found, of the same*)
(* tenant, as long as the process lives.                                   *)
Report(o) ==
  /\ \E d \in Seen["decisions"] :
       d.id = o.decision /\ d.policy.tenant = o.tenant
  /\ Saved("outcomes", o) \/ Refused("outcomes", o)
  /\ UNCHANGED <<backend, registry, handlerVars, spend, granted, restarts>>
-----------------------------------------------------------------------------
(***************************************************************************)
(* The process.                                                            *)
(***************************************************************************)

Stop ==
  /\ restarts < MaxRestarts
  /\ restarts' = restarts + 1
  /\ File!Stop
  /\ registry' = {}
  /\ pc' = [r \in Requests |->
              IF pc[r] \in {"routed", "recorded"} THEN "lost" ELSE pc[r]]
  /\ held' = [r \in Requests |-> None]
  /\ spend' = [i \in PolicyIds |-> 0]
  /\ granted' = {}
  /\ loose' = [t \in Tables |-> loose[t] \cup failed[t]]
  /\ failed' = [t \in Tables |-> {}]
  /\ UNCHANGED <<backend, rows, acked, saves>>

(* main: the persisted policies are appended to the configured ones, and   *)
(* of two with one ID NewRegistry keeps the later.                         *)
Start ==
  /\ UNCHANGED <<backend, handlerVars, spend, history, restarts>>
  /\ \/ backend = "file" /\ File!Start /\ UNCHANGED rows
     \/ /\ backend = "postgres"
        /\ Postgres!Start
        /\ UNCHANGED <<files, open, memory>>
  /\ registry' = Overridden(Configured, Seen'["policies"])
  /\ granted' = registry'

Next ==
  \/ \E p \in Policies : Put(p)
  \/ \E r \in Requests : Arrive(r) \/ Record(r) \/ Reserve(r) \/ Complete(r)
  \/ \E o \in Outcomes : Report(o)
  \/ Stop
  \/ Start

Spec == Init /\ [][Next]_vars
-----------------------------------------------------------------------------
TypeOK ==
  /\ backend \in {"file", "postgres"}
  /\ File!TypeOK
  /\ rows \in [Tables -> SUBSET Records]
  /\ registry \subseteq Policies
  /\ pc \in [Requests -> {"idle", "routed", "recorded", "ended", "lost"}]
  /\ held \in [Requests -> Policies \cup {None}]
  /\ spend \in [PolicyIds -> Nat]
  /\ acked \in [Tables -> SUBSET Records]
  /\ failed \in [Tables -> SUBSET Records]
  /\ loose \in [Tables -> SUBSET Records]
  /\ granted \subseteq Policies
  /\ saves \in 0..MaxSaves
  /\ restarts \in 0..MaxRestarts

Contract == INSTANCE AuditStore WITH seen <- Seen, kept <- Kept

(* docs/architecture.md:54-56.  Whichever backend was chosen, the saves,   *)
(* errors, stops and starts of the process are those of the contract.      *)
ContractSpec == Contract!Spec

(* docs/architecture.md:54-56, store.go:38-85, 297-320.  As long as no     *)
(* save reported an error and, of a file store, none was of a record too   *)
(* long to be read back, readers see exactly what a restart would          *)
(* reconstruct, and nothing keeps the process from starting.               *)
Trustworthy == Contract!Trustworthy

(* docs/architecture.md:54, "append-only JSONL with latest-record          *)
(* reconstruction".  A process whose saves were all acknowledged without   *)
(* an error can be started again.                                          *)
Reconstructed == ~up /\ "error" \notin troubles => Kept # Lost

(* Records that readers may get although their save reported an error:     *)
(* memory takes none of this life, a table in PostgreSQL may have it.      *)
InDoubt(t) == IF backend = "file" THEN loose[t] ELSE loose[t] \cup failed[t]

(* What may stand where record r of table t was acknowledged: r, or a later*)
(* save of the same ID in doubt; of two outcomes with one ID, PostgreSQL   *)
(* has the first.                                                          *)
Stands(x, r, t) ==
  /\ x.id = r.id
  /\ x = r \/ x \in InDoubt(t) \/ t \notin Upserted

(* store.go:38-122, postgres.go:39-77.  What was acknowledged is what every*)
(* reader gets, in this life of the process and in every later one that    *)
(* starts: no older record of the decision comes back, and none whose save *)
(* just failed takes its place in memory.                                  *)
AckedSurvives ==
  up => \A t \in Tables : \A r \in acked[t] : \E x \in Seen[t] : Stands(x, r, t)

(* registry.go:59-75, main.go:58-64.  The policy in force under an ID is   *)
(* the one whose publication was acknowledged last, or the configured one  *)
(* where none was, or one whose publication reported an error before the   *)
(* process started: never one whose Put failed in this life.               *)
PublishedInForce ==
  up => \A p \in registry :
          p \in Overridden(Configured, acked["policies"]) \cup loose["policies"]

(* registry.go:65-67.  Once a tenant's policy was configured or            *)
(* acknowledged under an ID, no other tenant's policy ever gets into force *)
(* under that ID, across failing saves and restarts.                       *)
TenantFixed ==
  \A p \in registry, q \in Configured \cup acked["policies"] :
    p.id = q.id => p.tenant = q.tenant

(* server.go:222-227.  Every outcome that refers to a decision can be      *)
(* joined to it, by the tenant that reported it, also after a restart.     *)
OutcomesAttached ==
  \A o \in Seen["outcomes"] :
    \E d \in Seen["decisions"] :
      d.id = o.decision /\ d.policy.tenant = o.tenant

(* server.go:90, 385-394.  Handlers that hold a policy replaced since go on*)
(* reserving against it, but never beyond the highest budget in force under*)
(* the ID since the process started.                                       *)
SpendWithinGranted ==
  \A i \in PolicyIds :
    spend[i] > 0 => \E p \in granted : p.id = i /\ spend[i] <= p.budget
=============================================================================
