--------------------------- MODULE ProviderClient ---------------------------
(***************************************************************************)
(* provider.Client (internal/provider/client.go): concurrent Do calls that *)
(* share one circuit per provider ID.  Do reads the circuit under the      *)
(* mutex, releases it for the whole HTTP exchange and takes it again to    *)
(* record the result, so a result is recorded against a circuit that may   *)
(* have opened, expired or been reset since the call went out.             *)
(*                                                                         *)
(* A configuration is what one tenant says of one provider; configurations *)
(* of several tenants may name the same provider ID and then share its     *)
(* circuit while keeping their own limits.                                 *)
(*                                                                         *)
(* A call is in flight from the moment the circuit let it through, not     *)
(* from the moment its request is on the wire.                             *)
(***************************************************************************)
EXTENDS Circuit, FiniteSets

CONSTANTS
  Calls,      \* the Do calls that may be under way at the same time
  Providers,  \* provider IDs
  Configs,    \* providerConfig records, see ConfigType
  Idle        \* a call that is not under way

ASSUME ClientAssumption ==
  /\ IsFiniteSet(Calls)
  /\ Configs \subseteq ConfigType(Providers)
  /\ Idle \notin Configs

VARIABLES
  circuits,   \* Client.circuits
  calls       \* the configuration each call is waiting on, or Idle

vars == <<circuits, calls>>

InFlight(p) == {c \in Calls : calls[c] # Idle /\ calls[c].provider = p}

Init ==
  /\ circuits = [p \in Providers |-> Fresh]
  /\ calls = [c \in Calls |-> Idle]

(* Mutated: asking an open circuit counts as a failure and extends it. *)
ProbeExtends(P) ==
  /\ circuits' = [p \in Providers |->
                    IF p \in P /\ IsOpen(circuits[p])
                    THEN [circuits[p] EXCEPT !.timer = DefaultOpenTicks]
                    ELSE circuits[p]]
  /\ UNCHANGED calls

(* The routing engine asks Available for the providers of the models it    *)
(* considers; asking resets the circuits that have expired.                *)
Probe(P) ==
  /\ circuits' = [p \in Providers |->
                    IF p \in P THEN Refreshed(circuits[p]) ELSE circuits[p]]
  /\ UNCHANGED calls

(* Mutated: Do does not look at the circuit. *)
AdmitUnchecked(c, cfg) ==
  /\ calls[c] = Idle
  /\ calls' = [calls EXCEPT ![c] = cfg]
  /\ UNCHANGED circuits

(* Do asks the circuit and lets the call through.  From here on the call   *)
(* is in flight: the request is built, written and waited for without the  *)
(* mutex, and nothing another call does reaches it before it ends.  When   *)
(* its bytes leave is not a step, so that a call let through may well go   *)
(* out to a circuit that has opened since.                                 *)
Admit(c, cfg) ==
  /\ calls[c] = Idle
  /\ Available(circuits[cfg.provider])
  /\ circuits' = [circuits EXCEPT ![cfg.provider] = Refreshed(@)]
  /\ calls' = [calls EXCEPT ![c] = cfg]

(* Mutated: a success takes one failure back instead of forgetting all. *)
SucceedDecrements(c) ==
  /\ calls[c] # Idle
  /\ circuits' = [circuits EXCEPT ![calls[c].provider] =
                    [failures |-> @.failures - 1, timer |-> NotOpen]]
  /\ calls' = [calls EXCEPT ![c] = Idle]

(* A 2xx status: recordSuccess deletes the entry.                          *)
Succeed(c) ==
  /\ calls[c] # Idle
  /\ circuits' = [circuits EXCEPT ![calls[c].provider] = Fresh]
  /\ calls' = [calls EXCEPT ![c] = Idle]

(* A transport error, a timeout, a cancelled caller or a retryable status. *)
Fail(c) ==
  /\ calls[c] # Idle
  /\ circuits' = [circuits EXCEPT ![calls[c].provider] = Failed(@, calls[c])]
  /\ calls' = [calls EXCEPT ![c] = Idle]

(* Any other status says nothing about the provider's health.              *)
Refuse(c) ==
  /\ calls[c] # Idle
  /\ calls' = [calls EXCEPT ![c] = Idle]
  /\ UNCHANGED circuits

Tick ==
  /\ \E p \in Providers : IsOpen(circuits[p])
  /\ circuits' = [p \in Providers |-> Elapsed(circuits[p])]
  /\ UNCHANGED calls

(* The process ends and a new one starts: NewClient has no circuits.       *)
Restart ==
  /\ circuits' = [p \in Providers |-> Fresh]
  /\ calls' = [c \in Calls |-> Idle]

Next ==
  \/ \E P \in SUBSET Providers : Probe(P)
  \/ \E c \in Calls, cfg \in Configs : Admit(c, cfg)
  \/ \E c \in Calls : Succeed(c) \/ Fail(c) \/ Refuse(c)
  \/ Tick
  \/ Restart

Spec == Init /\ [][Next]_vars

(* Time passes, and every call ends: Do bounds it by context.WithTimeout.  *)
FairSpec ==
  /\ Spec
  /\ WF_vars(Tick)
  /\ \A c \in Calls : WF_vars(Succeed(c) \/ Fail(c) \/ Refuse(c))
-----------------------------------------------------------------------------
TypeOK ==
  /\ circuits \in [Providers -> CircuitType]
  /\ calls \in [Calls -> Configs \cup {Idle}]

(* client.go:150-171.  A circuit has openUntil set only after as many      *)
(* failures, with no success and no reset between them, as some tenant     *)
(* that uses the provider tolerates; and it is never left shut with a      *)
(* count that every tenant using it would have acted on.                   *)
Users(p) == {cfg \in Configs : cfg.provider = p}

OpenJustified ==
  \A p \in Providers :
    LET c == circuits[p]
    IN  /\ c.timer # NotOpen => \E cfg \in Users(p) : c.failures >= Limit(cfg)
        /\ c.timer = NotOpen /\ c.failures > 0 =>
             \E cfg \in Users(p) : c.failures < Limit(cfg)

(* client.go:70-72, 150-168.  Failures of calls that were let through      *)
(* before the circuit opened still count, wherever between the check and   *)
(* their answer they were, and each extends the open period; but there can *)
(* be no more of them than calls were let through: failures recorded and   *)
(* failures still to come stay below a limit some tenant set plus the      *)
(* number of concurrent calls.                                             *)
LateFailuresBounded ==
  \A p \in Providers :
    circuits[p].failures > 0 \/ InFlight(p) # {} =>
      \E cfg \in Users(p) :
        circuits[p].failures + Cardinality(InFlight(p)) <
          Limit(cfg) + Cardinality(Calls)

(* client.go:49-61.  An open circuit eventually lets calls through again,  *)
(* however many late failures extend it.                                   *)
Recovers ==
  \A p \in Providers : IsOpen(circuits[p]) ~> ~IsOpen(circuits[p])
=============================================================================
