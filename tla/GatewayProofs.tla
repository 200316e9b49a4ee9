--------------------------- MODULE GatewayProofs ---------------------------
(***************************************************************************)
(* Proofs about Gateway, for any set of requests, models and providers,    *)
(* any policy, any budget and any number of restarts.                      *)
(***************************************************************************)
EXTENDS Gateway, CircuitProofs

(* server.go:435-445.  The attempt order is a sequence of models that ends *)
(* in the incumbent.                                                       *)
LEMMA OrderType ==
  ASSUME NEW selected \in MaybeModel
  PROVE  /\ AttemptOrder(selected) \in Seq(MaybeModel)
         /\ Len(AttemptOrder(selected)) = Len(Fallbacks) + 2
         /\ AttemptOrder(selected)[1] = selected
<1>1. /\ Fallbacks \in Seq(MaybeModel)
      /\ <<Incumbent>> \in Seq(MaybeModel)
      /\ <<selected>> \in Seq(MaybeModel)
      /\ Len(<<selected>>) = 1 /\ Len(<<Incumbent>>) = 1
  BY GatewayAssumption DEF MaybeModel
<1>2. QED
  BY <1>1 DEF AttemptOrder

LEMMA NoDecisionType == NoDecision \in DecisionType
BY DEF NoDecision, DecisionType, MaybeModel

(* What Attempted, Answered and Finish do to a decision keeps its type.    *)
LEMMA DecisionUpdates ==
  ASSUME NEW d \in DecisionType
  PROVE  /\ \A m \in Models :
              [d EXCEPT !.attempted = @ \cup {m}] \in DecisionType
         /\ \A m \in Models : [d EXCEPT !.final = m] \in DecisionType
         /\ \A error \in BOOLEAN, charged \in MaybeModel :
              [d EXCEPT !.error = error, !.charged = charged,
                        !.completed = TRUE] \in DecisionType
BY DEF DecisionType, MaybeModel

-----------------------------------------------------------------------------
(***************************************************************************)
(* Types.  TypeOK alone is not inductive: the model a handler waits for    *)
(* has to be one of its eligible models, on a configured provider, and a   *)
(* shadow runs only on a configured provider.                              *)
(***************************************************************************)

CallsConfigured ==
  /\ \A r \in Requests :
       pc[r] = "calling" =>
         /\ Turn(r) \in decision[r].eligible
         /\ ProviderOf[Turn(r)] \in Configured
  /\ \A s \in ShadowIds :
       shadow[s] # "none" => ProviderOf[s[2]] \in Configured

Inv == TypeOK /\ CallsConfigured

LEMMA InitInv == Init => Inv
<1> SUFFICES ASSUME Init PROVE Inv
  OBVIOUS
<1>1. TypeOK
  BY NoDecisionType, GatewayAssumption DEF Init, TypeOK, Fresh, CircuitType, NotOpen, Ended, ShadowIds
<1>2. CallsConfigured
  BY DEF Init, CallsConfigured
<1>3. QED
  BY <1>1, <1>2 DEF Inv
(* What a handler that has its turn may rely on.                           *)
LEMMA TurnEligible ==
  ASSUME Inv, NEW r \in Requests
  PROVE  /\ decision[r] \in DecisionType
         /\ InLoop(r) /\ ~Passed(r) => Turn(r) \in decision[r].eligible
         /\ pc[r] = "calling" => /\ Turn(r) \in decision[r].eligible
                                 /\ ProviderOf[Turn(r)] \in Configured
         /\ decision[r].eligible \subseteq Models
BY DEF Inv, TypeOK, CallsConfigured, Passed, DecisionType

(* The circuit of a configured model is a circuit, and stays one whatever  *)
(* Do does to it.                                                          *)
LEMMA CircuitOfConfigured ==
  ASSUME Inv, NEW m \in Models, ProviderOf[m] \in Configured
  PROVE  LET p == ConfigOf(m).provider
         IN  /\ p \in Providers
             /\ CircuitOf(m) = circuits[p]
             /\ circuits[p] \in CircuitType
             /\ ConfigOf(m) \in ConfigType(Providers)
             /\ [circuits EXCEPT ![p] = Fresh] \in [Providers -> CircuitType]
             /\ [circuits EXCEPT ![p] = Refreshed(@)] \in [Providers -> CircuitType]
             /\ [circuits EXCEPT ![p] = Failed(@, ConfigOf(m))]
                  \in [Providers -> CircuitType]
<1> DEFINE p == ConfigOf(m).provider
<1>1. ConfigOf(m) \in ConfigType(Providers) /\ p \in Providers
  BY GatewayAssumption, SettingsPositive DEF ConfigOf
<1>2. circuits \in [Providers -> CircuitType]
  BY DEF Inv, TypeOK
<1>3. circuits[p] \in CircuitType
  BY <1>1, <1>2
<1>4. /\ Fresh \in CircuitType
      /\ Refreshed(circuits[p]) \in CircuitType
      /\ Failed(circuits[p], ConfigOf(m)) \in CircuitType
  BY <1>1, <1>3, CircuitOperations
<1>5. QED
  BY <1>1, <1>2, <1>3, <1>4 DEF CircuitOf

(* engine.go:26-139.  Routing starts the request's decision afresh, with a *)
(* model selected.                                                         *)
LEMMA RouteStep ==
  ASSUME NEW r, Route(r)
  PROVE  \E selected \in Models, eligible, shadows \in SUBSET Models,
            risky \in BOOLEAN :
           /\ shadows \subseteq eligible
           /\ decision' = [decision EXCEPT ![r] =
                [NoDecision EXCEPT !.selected = selected, !.eligible = eligible,
                                   !.shadows = shadows, !.risky = risky]]
<1>1. PICK fit \in Fits, risky \in BOOLEAN, observing \in BOOLEAN :
        LET eligible == {m \in fit \cap Considered :
                           Available(circuits[ProviderOf[m]])}
            capable == IF observing THEN {}
                       ELSE SeqRange(Candidates) \cap eligible
            shadows == IF Budget = 0 THEN {} ELSE capable
        IN  \E selected \in {Incumbent} \cup capable :
              decision' = [decision EXCEPT ![r] =
                [NoDecision EXCEPT !.selected = selected, !.eligible = eligible,
                                   !.shadows = shadows, !.risky = risky]]
  BY DEF Route
<1>2. fit \subseteq Models /\ Incumbent \in Models
  BY GatewayAssumption
<1> DEFINE eligible == {m \in fit \cap Considered :
                         Available(circuits[ProviderOf[m]])}
           capable == IF observing THEN {}
                      ELSE SeqRange(Candidates) \cap eligible
           shadows == IF Budget = 0 THEN {} ELSE capable
<1>3. /\ eligible \in SUBSET Models
      /\ capable \in SUBSET Models
      /\ shadows \in SUBSET Models
      /\ shadows \subseteq eligible
  BY <1>2
<1>4. PICK selected \in {Incumbent} \cup capable :
        decision' = [decision EXCEPT ![r] =
          [NoDecision EXCEPT !.selected = selected, !.eligible = eligible,
                             !.shadows = shadows, !.risky = risky]]
  BY <1>1
<1>5. selected \in Models
  BY <1>2, <1>3
<1> HIDE DEF eligible, capable, shadows
<1>6. QED
  BY <1>3, <1>4, <1>5

(* Engine.Route and the save that follows it.                              *)
LEMMA RouteInv ==
  ASSUME Inv, NEW r \in Requests, Route(r)
  PROVE  Inv'
<1> USE DEF Inv
<1>1. circuits' \in [Providers -> CircuitType]
  BY CircuitOperations DEF TypeOK, Route
<1>2. decision' \in [Requests -> DecisionType]
  <2>1. \A selected \in Models, eligible, shadows \in SUBSET Models,
           risky \in BOOLEAN :
          [NoDecision EXCEPT !.selected = selected, !.eligible = eligible,
                             !.shadows = shadows, !.risky = risky]
            \in DecisionType
    BY NoDecisionType DEF DecisionType, MaybeModel
  <2>2. PICK d \in DecisionType : decision' = [decision EXCEPT ![r] = d]
    BY <2>1, RouteStep
  <2>3. QED
    BY <2>2 DEF TypeOK
<1>3. TypeOK'
  BY <1>1, <1>2 DEF TypeOK, Route, shadowVars
<1>4. CallsConfigured'
  BY DEF TypeOK, CallsConfigured, Route, Turn, shadowVars
<1>5. QED
  BY <1>3, <1>4

LEMMA SaveInv ==
  ASSUME Inv, NEW r \in Requests, SaveInitial(r) \/ RejectUnaudited(r)
  PROVE  Inv'
<1>1. TypeOK'
  BY DEF Inv, TypeOK, SaveInitial, RejectUnaudited, Saved, SavedOrNot, shadowVars, Ended
<1>2. CallsConfigured'
  BY DEF Inv, TypeOK, CallsConfigured, SaveInitial, RejectUnaudited, Turn, shadowVars
<1>3. QED
  BY <1>1, <1>2 DEF Inv
(* The iterations of the attempt loop that send nothing.                   *)
LEMMA SkipInv ==
  ASSUME Inv, NEW r \in Requests,
         PassOver(r) \/ Unconfigured(r) \/ CircuitOpen(r)
  PROVE  Inv'
<1>1. at' = [at EXCEPT ![r] = @ + 1]
  BY DEF PassOver, Unconfigured, CircuitOpen, NextTurn
<1>2. decision' \in [Requests -> DecisionType]
  <2>1. CASE CircuitOpen(r)
    <3>1. Turn(r) \in Models
      BY <2>1, TurnEligible DEF CircuitOpen
    <3>2. [decision[r] EXCEPT !.attempted = @ \cup {Turn(r)}] \in DecisionType
      BY <3>1, TurnEligible, DecisionUpdates
    <3>3. QED
      BY <2>1, <3>2 DEF CircuitOpen, Attempted, Inv, TypeOK
  <2>2. CASE PassOver(r) \/ Unconfigured(r)
    BY <2>2 DEF PassOver, Unconfigured, Inv, TypeOK
  <2>3. QED
    BY <2>1, <2>2
<1>3. TypeOK'
  <2>1. UNCHANGED <<circuits, pc, sent, ledger, shadow, shadowLedger, spend,
                    launched, restarts>>
    BY DEF PassOver, Unconfigured, CircuitOpen, shadowVars
  <2>2. lastError' \in [Requests -> {"none", "retryable", "refused"}]
    BY DEF Inv, TypeOK, PassOver, Unconfigured, CircuitOpen
  <2>3. at' \in [Requests -> Nat \ {0}]
    BY <1>1 DEF Inv, TypeOK
  <2>4. QED
    BY <1>2, <2>1, <2>2, <2>3 DEF Inv, TypeOK
<1>4. CallsConfigured'
  <2>1. pc' = pc /\ shadow' = shadow /\ pc[r] = "trying"
    BY DEF PassOver, Unconfigured, CircuitOpen, InLoop, shadowVars
  <2>2. \A q \in Requests \ {r} : decision'[q] = decision[q] /\ at'[q] = at[q]
    BY DEF PassOver, Unconfigured, CircuitOpen, Attempted, NextTurn, Inv, TypeOK
  <2>3. QED
    BY <2>1, <2>2 DEF Inv, CallsConfigured, Turn
<1>5. QED
  BY <1>3, <1>4 DEF Inv

LEMMA SendInv ==
  ASSUME Inv, NEW r \in Requests, Send(r)
  PROVE  Inv'
<1>1. Turn(r) \in decision[r].eligible /\ Turn(r) \in Models
  BY TurnEligible DEF Send
<1>2. ProviderOf[Turn(r)] \in Configured
  BY DEF Send
<1>3. circuits' \in [Providers -> CircuitType]
  BY <1>1, <1>2, CircuitOfConfigured DEF Send
<1>4. /\ decision' \in [Requests -> DecisionType]
      /\ decision' = [decision EXCEPT ![r].attempted = @ \cup {Turn(r)}]
  <2>1. [decision[r] EXCEPT !.attempted = @ \cup {Turn(r)}] \in DecisionType
    BY <1>1, TurnEligible, DecisionUpdates
  <2>2. QED
    BY <2>1 DEF Send, Attempted, Inv, TypeOK
<1>5. TypeOK'
  BY <1>1, <1>3, <1>4 DEF Inv, TypeOK, Send, shadowVars
<1>6. CallsConfigured'
  <2>1. /\ decision'[r].eligible = decision[r].eligible
        /\ decision'[r].selected = decision[r].selected
    BY <1>4, TurnEligible DEF Inv, TypeOK, DecisionType
  <2>2. Turn(r)' = Turn(r)
    BY <2>1 DEF Turn, Send
  <2>3. \A q \in Requests \ {r} :
          decision'[q] = decision[q] /\ at'[q] = at[q] /\ pc'[q] = pc[q]
    BY <1>4 DEF Send, Inv, TypeOK
  <2>4. shadow' = shadow
    BY DEF Send, shadowVars
  <2>5. QED
    BY <1>1, <1>2, <2>1, <2>2, <2>3, <2>4 DEF Inv, CallsConfigured, Turn
<1>7. QED
  BY <1>5, <1>6 DEF Inv

(* The three ways a production call ends.                                  *)
LEMMA CallEndInv ==
  ASSUME Inv, NEW r \in Requests,
         Answered(r) \/ FailedRetryably(r) \/ Refused(r)
  PROVE  Inv'
<1>1. Turn(r) \in Models /\ ProviderOf[Turn(r)] \in Configured
  BY TurnEligible DEF Answered, FailedRetryably, Refused
<1>2. circuits' \in [Providers -> CircuitType]
  BY <1>1, CircuitOfConfigured DEF Answered, FailedRetryably, Refused, Inv, TypeOK
<1>3. decision' \in [Requests -> DecisionType]
  <2>1. [decision[r] EXCEPT !.final = Turn(r)] \in DecisionType
    BY <1>1, TurnEligible, DecisionUpdates
  <2>2. QED
    BY <2>1 DEF Answered, FailedRetryably, Refused, Inv, TypeOK
<1>4. at' \in [Requests -> Nat \ {0}]
  <2>1. Len(AttemptOrder(decision[r].selected)) = Len(Fallbacks) + 2
    BY TurnEligible, OrderType DEF DecisionType
  <2>2. Len(AttemptOrder(decision[r].selected)) + 1 \in Nat \ {0}
    BY <2>1, GatewayAssumption
  <2>3. \E i \in Nat \ {0} : at' = [at EXCEPT ![r] = i]
    BY <2>2 DEF Answered, FailedRetryably, Refused, NextTurn, Inv, TypeOK
  <2>4. QED
    BY <2>3 DEF Inv, TypeOK
<1>5. TypeOK'
  <2>1. UNCHANGED <<sent, ledger, shadow, shadowLedger, spend, launched, restarts>>
    BY DEF Answered, FailedRetryably, Refused, shadowVars
  <2>2. lastError' \in [Requests -> {"none", "retryable", "refused"}]
    BY DEF Inv, TypeOK, Answered, FailedRetryably, Refused
  <2>3. \E label \in {"launching", "trying"} : pc' = [pc EXCEPT ![r] = label]
    BY DEF Answered, FailedRetryably, Refused
  <2>4. QED
    BY <1>2, <1>3, <1>4, <2>1, <2>2, <2>3 DEF Inv, TypeOK
<1>6. CallsConfigured'
  <2>1. \A q \in Requests \ {r} :
          decision'[q] = decision[q] /\ at'[q] = at[q] /\ pc'[q] = pc[q]
    BY DEF Answered, FailedRetryably, Refused, NextTurn, Inv, TypeOK
  <2>2. pc'[r] # "calling" /\ shadow' = shadow
    BY DEF Answered, FailedRetryably, Refused, shadowVars, Inv, TypeOK
  <2>3. QED
    BY <2>1, <2>2 DEF Inv, CallsConfigured, Turn
<1>7. QED
  BY <1>5, <1>6 DEF Inv

(* The record is closed, however the request went.                         *)
LEMMA FinishStep ==
  ASSUME Inv, NEW r \in Requests,
         AllFailed(r) \/ Stream(r) \/ Buffer(r) \/ UnreadableAnswer(r)
  PROVE  /\ pc[r] \in {"trying", "launching"}
         /\ \E error \in BOOLEAN, charged \in MaybeModel :
              Finish(r, error, charged)
<1>1. decision[r].final \in MaybeModel /\ decision[r].selected \in MaybeModel
  BY TurnEligible DEF DecisionType
<1>2. None \in MaybeModel
  BY DEF MaybeModel
<1>3. QED
  BY <1>1, <1>2 DEF AllFailed, Stream, Buffer, UnreadableAnswer, Relaying

LEMMA FinishInv ==
  ASSUME Inv, NEW r \in Requests,
         NEW error \in BOOLEAN, NEW charged \in MaybeModel,
         Finish(r, error, charged)
  PROVE  Inv'
<1> DEFINE d == [decision[r] EXCEPT !.error = error, !.charged = charged,
                                    !.completed = TRUE]
<1>1. d \in DecisionType
  BY TurnEligible, DecisionUpdates
<1>2. /\ decision' = [decision EXCEPT ![r] = d]
      /\ ledger' = [ledger EXCEPT ![r] = d] \/ ledger' = ledger
      /\ pc' = [pc EXCEPT ![r] = "answered"]
      /\ UNCHANGED <<circuits, at, lastError, sent, shadowVars, restarts>>
  BY DEF Finish, SavedOrNot, Saved
<1> HIDE DEF d
<1>3. TypeOK'
  BY <1>1, <1>2 DEF Inv, TypeOK, shadowVars, Ended
<1>4. CallsConfigured'
  BY <1>2 DEF Inv, TypeOK, CallsConfigured, Turn, shadowVars
<1>5. QED
  BY <1>3, <1>4 DEF Inv
(* launchShadows.                                                          *)
LEMMA LaunchInv ==
  ASSUME Inv, NEW r \in Requests, PassShadow(r) \/ LaunchShadow(r)
  PROVE  Inv'
<1> DEFINE m == Candidates[at[r]]
<1>1. m \in Models
  BY GatewayAssumption
     DEF PassShadow, LaunchShadow, Launching, Inv, TypeOK
<1>2. /\ at' = [at EXCEPT ![r] = @ + 1]
      /\ UNCHANGED <<circuits, pc, decision, lastError, sent, ledger,
                     shadowLedger, restarts>>
      /\ pc[r] = "launching"
  BY DEF PassShadow, LaunchShadow, NextTurn, shadowVars, Launching
<1>3. \/ UNCHANGED <<shadow, launched>>
      \/ /\ ProviderOf[m] \in Configured
         /\ shadow' = [shadow EXCEPT ![<<r, m>>] = "started"]
         /\ launched' = launched + Cost[m]
  BY DEF PassShadow, LaunchShadow, shadowVars
<1>4. spend' = spend \/ spend' = spend + Cost[m]
  BY DEF PassShadow, LaunchShadow, shadowVars
<1>5. Cost[m] \in Nat
  BY <1>1, GatewayAssumption
<1>6. <<r, m>> \in ShadowIds
  BY <1>1 DEF ShadowIds
<1> HIDE DEF m
<1>7. TypeOK'
  BY <1>2, <1>3, <1>4, <1>5, <1>6 DEF Inv, TypeOK
<1>8. CallsConfigured'
  <2>1. \A q \in Requests : pc[q] = "calling" => at'[q] = at[q]
    BY <1>2 DEF Inv, TypeOK
  <2>2. \A s \in ShadowIds :
          shadow'[s] # "none" => ProviderOf[s[2]] \in Configured
    BY <1>3, <1>6 DEF Inv, TypeOK, CallsConfigured
  <2>3. QED
    BY <1>2, <2>1, <2>2 DEF Inv, CallsConfigured, Turn
<1>9. QED
  BY <1>7, <1>8 DEF Inv

(* The shadow goroutines.                                                  *)
LEMMA RunShadowInv ==
  ASSUME Inv, NEW s \in ShadowIds, RunShadow(s)
  PROVE  Inv'
<1>1. ProviderOf[s[2]] \in Configured /\ s[2] \in Models
  BY DEF RunShadow, ShadowBlocked, ShadowSend, ShadowReturn, ShadowSave, Inv,
         CallsConfigured, ShadowIds
<1>2. circuits' \in [Providers -> CircuitType]
  BY <1>1, CircuitOfConfigured
     DEF RunShadow, ShadowBlocked, ShadowSend, ShadowReturn, ShadowSave, Inv, TypeOK
<1>3. /\ UNCHANGED <<pc, at, decision, lastError, sent, ledger, spend, launched,
                     restarts>>
      /\ shadow[s] # "none"
  BY DEF RunShadow, ShadowBlocked, ShadowSend, ShadowReturn, ShadowSave, handlerVars
<1>4. \E label \in {"calling", "returned", "done"} :
        shadow' = [shadow EXCEPT ![s] = label]
  BY DEF RunShadow, ShadowBlocked, ShadowSend, ShadowReturn, ShadowSave
<1>5. shadowLedger' \subseteq ShadowIds
  BY DEF RunShadow, ShadowBlocked, ShadowSend, ShadowReturn, ShadowSave, Inv, TypeOK
<1>6. TypeOK'
  BY <1>2, <1>3, <1>4, <1>5 DEF Inv, TypeOK
<1>7. CallsConfigured'
  BY <1>1, <1>3, <1>4 DEF Inv, TypeOK, CallsConfigured, Turn
<1>8. QED
  BY <1>6, <1>7 DEF Inv

(* Time, and the end of the process.                                       *)
LEMMA EnvironmentInv ==
  ASSUME Inv, Tick \/ NewDay \/ Restart
  PROVE  Inv'
<1>0. Fresh \in CircuitType
  BY DEF Fresh, CircuitType, NotOpen
<1>1. circuits' \in [Providers -> CircuitType]
  BY <1>0, CircuitOperations
     DEF Tick, NewDay, Restart, Inv, TypeOK
<1>2. UNCHANGED <<at, decision, lastError, ledger, sent, shadowLedger>>
  BY DEF Tick, NewDay, Restart, handlerVars, shadowVars
<1>3. /\ spend' \in {0, spend}
      /\ launched' \in {0, launched}
      /\ restarts' \in 0..MaxRestarts
  BY GatewayAssumption DEF Tick, NewDay, Restart, handlerVars, shadowVars, Inv, TypeOK
<1>4. \/ pc' = pc /\ shadow' = shadow
      \/ /\ pc' = [r \in Requests |-> IF pc[r] \in Ended \cup {"idle"}
                                      THEN pc[r] ELSE "lost"]
         /\ shadow' = [s \in ShadowIds |->
                         IF shadow[s] = "none" THEN "none" ELSE "done"]
  BY DEF Tick, NewDay, Restart, handlerVars, shadowVars
<1>5. TypeOK'
  BY <1>1, <1>2, <1>3, <1>4 DEF Inv, TypeOK, Ended
<1>6. CallsConfigured'
  BY <1>2, <1>4 DEF Inv, TypeOK, CallsConfigured, Turn, Ended
<1>7. QED
  BY <1>5, <1>6 DEF Inv

LEMMA NextInv == Inv /\ [Next]_vars => Inv'
<1> SUFFICES ASSUME Inv, [Next]_vars PROVE Inv'
  OBVIOUS
<1>1. ASSUME NEW r \in Requests, Route(r) PROVE Inv'
  BY <1>1, RouteInv
<1>2. ASSUME NEW r \in Requests, Handle(r) PROVE Inv'
  <2>1. CASE SaveInitial(r) \/ RejectUnaudited(r)
    BY <2>1, SaveInv
  <2>2. CASE PassOver(r) \/ Unconfigured(r) \/ CircuitOpen(r)
    BY <2>2, SkipInv
  <2>3. CASE Send(r)
    BY <2>3, SendInv
  <2>4. CASE Answered(r) \/ FailedRetryably(r) \/ Refused(r)
    BY <2>4, CallEndInv
  <2>5. CASE AllFailed(r) \/ Stream(r) \/ Buffer(r) \/ UnreadableAnswer(r)
    BY <2>5, FinishStep, FinishInv
  <2>6. CASE PassShadow(r) \/ LaunchShadow(r)
    BY <2>6, LaunchInv
  <2>7. QED
    BY <1>2, <2>1, <2>2, <2>3, <2>4, <2>5, <2>6 DEF Handle
<1>3. ASSUME NEW s \in ShadowIds, RunShadow(s) PROVE Inv'
  BY <1>3, RunShadowInv
<1>4. CASE Tick \/ NewDay \/ Restart
  BY <1>4, EnvironmentInv
<1>5. CASE UNCHANGED vars
  <2>1. UNCHANGED <<circuits, pc, at, decision, lastError, ledger, shadow,
                    shadowLedger, spend, sent, launched, restarts>>
    BY <1>5 DEF vars, handlerVars, shadowVars
  <2>2. QED
    BY <2>1 DEF Inv, TypeOK, CallsConfigured, Turn
<1>6. QED
  BY <1>1, <1>2, <1>3, <1>4, <1>5 DEF Next

(* Types and configured calls are kept by every step (server.go:70-394).   *)
THEOREM InvHolds == Spec => []Inv
<1>1. Init => Inv
  BY InitInv
<1>2. Inv /\ [Next]_vars => Inv'
  BY NextInv
<1>3. QED
  BY <1>1, <1>2, PTL DEF Spec

(* server.go, client.go.  Every variable keeps its type, the circuits      *)
(* included, through any interleaving of handlers, shadows and restarts.   *)
THEOREM TypeCorrect == Spec => []TypeOK
<1>1. Inv => TypeOK
  BY DEF Inv
<1>2. QED
  BY <1>1, InvHolds, PTL

-----------------------------------------------------------------------------
(***************************************************************************)
(* The audit trail of production decisions: Gateway implements AuditTrail, *)
(* and a closed record accounts for the calls of its request.              *)
(*                                                                         *)
(* The argument follows one request r.  Its record exists from the moment  *)
(* the handler passes SaveInitial; it can be closed only by Finish, the    *)
(* last step of the handler, so while the handler can still send it is     *)
(* open; and at every pc the models it was sent to are among those noted   *)
(* in its decision.                                                        *)
(***************************************************************************)

Working == {"trying", "calling", "launching", "answered"}
Unanswered == {"idle", "routed", "trying", "calling"}

Recorded(r) ==
  /\ pc[r] \in Working => ledger[r] # None
  /\ pc[r] # "answered" =>
       /\ ~decision[r].completed
       /\ ledger[r] # None => ~ledger[r].completed
  /\ ledger[r] # None /\ ledger[r].completed => ledger[r] = decision[r]

Noted(r) ==
  /\ sent[r] \subseteq decision[r].attempted
  /\ decision[r].attempted \subseteq decision[r].eligible
  /\ pc[r] \in {"idle", "routed"} => sent[r] = {}
  /\ pc[r] = "calling" => Turn(r) \in sent[r]

Explained(r) ==
  /\ decision[r].final # None => decision[r].final \in sent[r]
  /\ pc[r] \in Unanswered => decision[r].final = None
  /\ pc[r] = "launching" => decision[r].final # None
  /\ pc[r] = "trying" /\ lastError[r] = "none" => sent[r] = {}
  /\ pc[r] = "answered" /\ decision[r].final = None /\ ~decision[r].error =>
       sent[r] = {}

Accounted(r) == Recorded(r) /\ Noted(r) /\ Explained(r)

AuditInv == \A r \in Requests : Accounted(r)

(* Nothing Accounted(q) speaks of has changed.                             *)
Untouched(q) ==
  /\ pc'[q] = pc[q]
  /\ at'[q] = at[q]
  /\ decision'[q] = decision[q]
  /\ lastError'[q] = lastError[q]
  /\ ledger'[q] = ledger[q]
  /\ sent'[q] = sent[q]

LEMMA UntouchedAccounted ==
  ASSUME NEW q \in Requests, Accounted(q), Untouched(q)
  PROVE  Accounted(q)'
BY DEF Accounted, Recorded, Noted, Explained, Untouched, Turn

(* A handler's step touches no other request.                              *)
LEMMA OthersUntouched ==
  ASSUME Inv, NEW r \in Requests, Route(r) \/ Handle(r),
         NEW q \in Requests \ {r}
  PROVE  Untouched(q)
<1> USE DEF Inv, TypeOK, Untouched
<1>1. CASE Route(r)
  BY <1>1 DEF Route
<1>2. CASE SaveInitial(r) \/ RejectUnaudited(r)
  BY <1>2 DEF SaveInitial, RejectUnaudited, Saved, SavedOrNot
<1>3. CASE PassOver(r) \/ Unconfigured(r) \/ CircuitOpen(r) \/ Send(r)
  BY <1>3 DEF PassOver, Unconfigured, CircuitOpen, Send, Attempted, NextTurn
<1>4. CASE Answered(r) \/ FailedRetryably(r) \/ Refused(r)
  BY <1>4 DEF Answered, FailedRetryably, Refused, NextTurn
<1>5. CASE AllFailed(r) \/ Stream(r) \/ Buffer(r) \/ UnreadableAnswer(r)
  <2>1. PICK error \in BOOLEAN, charged \in MaybeModel : Finish(r, error, charged)
    BY <1>5, FinishStep
  <2>2. QED
    BY <2>1 DEF Finish, SavedOrNot, Saved
<1>6. CASE PassShadow(r) \/ LaunchShadow(r)
  BY <1>6 DEF PassShadow, LaunchShadow, NextTurn
<1>7. QED
  BY <1>1, <1>2, <1>3, <1>4, <1>5, <1>6 DEF Handle
(* The steps of a handler keep its own request accounted for.              *)
LEMMA HandlerAccounted ==
  ASSUME Inv, NEW r \in Requests, Accounted(r), Route(r) \/ Handle(r)
  PROVE  Accounted(r)'
<1>1. /\ decision[r] \in DecisionType
      /\ pc \in [Requests -> {"idle", "routed", "trying", "calling", "launching"}
                                \cup Ended]
      /\ at \in [Requests -> Nat \ {0}]
      /\ decision \in [Requests -> DecisionType]
      /\ lastError \in [Requests -> {"none", "retryable", "refused"}]
      /\ ledger \in [Requests -> DecisionType \cup {None}]
      /\ sent \in [Requests -> SUBSET Models]
  BY DEF Inv, TypeOK
<1>2. CASE Route(r)
  <2>1. /\ decision'[r].attempted = {}
        /\ decision'[r].final = None
        /\ ~decision'[r].completed
    <3>1. PICK selected \in Models, eligible \in SUBSET Models,
               shadows \in SUBSET Models, risky \in BOOLEAN :
            /\ shadows \subseteq eligible
            /\ decision' = [decision EXCEPT ![r] =
                 [NoDecision EXCEPT !.selected = selected, !.eligible = eligible,
                                    !.shadows = shadows, !.risky = risky]]
      BY <1>2, RouteStep
    <3>2. decision'[r] =
            [NoDecision EXCEPT !.selected = selected, !.eligible = eligible,
                               !.shadows = shadows, !.risky = risky]
      BY <1>1, <3>1
    <3>3. QED
      BY <3>2 DEF NoDecision
  <2>2. /\ pc[r] = "idle" /\ pc'[r] = "routed"
        /\ sent' = sent /\ ledger' = ledger
    BY <1>1, <1>2 DEF Route
  <2>3. Recorded(r)'
    BY <2>1, <2>2 DEF Accounted, Recorded, Working
  <2>4. Noted(r)' /\ Explained(r)'
    BY <2>1, <2>2 DEF Accounted, Noted, Explained, Unanswered
  <2>5. QED
    BY <2>3, <2>4 DEF Accounted
<1>3. CASE SaveInitial(r) \/ RejectUnaudited(r)
  <2>1. /\ UNCHANGED <<decision, lastError, sent, at>>
        /\ pc[r] = "routed"
        /\ ledger'[r] \in {ledger[r], decision[r]}
        /\ \/ pc'[r] = "trying" /\ ledger'[r] = decision[r]
           \/ pc'[r] = "rejected"
    BY <1>1, <1>3 DEF SaveInitial, RejectUnaudited, Saved, SavedOrNot
  <2>2. decision[r] # None
    BY <1>1, NoneAssumption
  <2>3. Recorded(r)'
    BY <2>1, <2>2 DEF Accounted, Recorded, Working
  <2>4. Noted(r)' /\ Explained(r)'
    BY <2>1 DEF Accounted, Noted, Explained, Unanswered
  <2>5. QED
    BY <2>3, <2>4 DEF Accounted
<1>4. CASE PassOver(r) \/ Unconfigured(r)
  <2>1. /\ UNCHANGED <<decision, pc, sent, ledger>>
        /\ pc[r] = "trying"
        /\ lastError'[r] \in {lastError[r], "retryable"}
    BY <1>1, <1>4 DEF PassOver, Unconfigured, InLoop
  <2>2. QED
    BY <2>1 DEF Accounted, Recorded, Noted, Explained
<1>5. CASE CircuitOpen(r) \/ Send(r)
  <2>1. Turn(r) \in decision[r].eligible
    BY <1>5, TurnEligible DEF CircuitOpen, Send
  <2>2. /\ decision' = [decision EXCEPT ![r].attempted = @ \cup {Turn(r)}]
        /\ pc[r] = "trying"
        /\ ledger' = ledger
        /\ \/ /\ pc' = pc /\ sent' = sent
              /\ lastError'[r] = "retryable"
           \/ /\ pc'[r] = "calling" /\ at' = at
              /\ sent' = [sent EXCEPT ![r] = @ \cup {Turn(r)}]
    BY <1>1, <1>5 DEF CircuitOpen, Send, Attempted, InLoop
  <2>3. /\ decision'[r].attempted = decision[r].attempted \cup {Turn(r)}
        /\ decision'[r].eligible = decision[r].eligible
        /\ decision'[r].selected = decision[r].selected
        /\ decision'[r].final = decision[r].final
        /\ decision'[r].completed = decision[r].completed
        /\ decision'[r].error = decision[r].error
    BY <1>1, <2>2 DEF DecisionType
  <2>4. at' = at => Turn(r)' = Turn(r)
    BY <2>3 DEF Turn
  <2>5. Recorded(r)'
    BY <2>2, <2>3 DEF Accounted, Recorded, Working
  <2>6. Noted(r)'
    BY <1>1, <2>1, <2>2, <2>3, <2>4 DEF Accounted, Noted
  <2>7. Explained(r)'
    BY <1>1, <2>2, <2>3 DEF Accounted, Explained, Unanswered
  <2>8. QED
    BY <2>5, <2>6, <2>7 DEF Accounted
<1>6. CASE Answered(r)
  <2>1. /\ decision'[r] = [decision[r] EXCEPT !.final = Turn(r)]
        /\ pc[r] = "calling" /\ pc'[r] = "launching"
        /\ sent' = sent /\ ledger' = ledger
    BY <1>1, <1>6 DEF Answered
  <2>2. /\ decision'[r].attempted = decision[r].attempted
        /\ decision'[r].eligible = decision[r].eligible
        /\ decision'[r].final = Turn(r)
        /\ decision'[r].completed = decision[r].completed
    BY <1>1, <2>1 DEF DecisionType
  <2>3. Turn(r) \in sent[r] /\ Turn(r) # None
    BY <1>1, <2>1, GatewayAssumption DEF Accounted, Noted
  <2>4. Recorded(r)'
    BY <2>1, <2>2 DEF Accounted, Recorded, Working
  <2>5. Noted(r)' /\ Explained(r)'
    BY <2>1, <2>2, <2>3 DEF Accounted, Noted, Explained, Unanswered
  <2>6. QED
    BY <2>4, <2>5 DEF Accounted
<1>7. CASE FailedRetryably(r) \/ Refused(r)
  <2>1. /\ UNCHANGED <<decision, sent, ledger>>
        /\ pc[r] = "calling" /\ pc'[r] = "trying"
        /\ lastError'[r] # "none"
    BY <1>1, <1>7 DEF FailedRetryably, Refused
  <2>2. QED
    BY <2>1 DEF Accounted, Recorded, Noted, Explained, Working, Unanswered
<1>8. CASE AllFailed(r) \/ Stream(r) \/ Buffer(r) \/ UnreadableAnswer(r)
  <2>1. PICK error \in BOOLEAN, charged \in MaybeModel :
          /\ Finish(r, error, charged)
          /\ AllFailed(r) => error = (lastError[r] # "none")
    <3>1. \A error : AllFailed(r) /\ error = (lastError[r] # "none") =>
                       Finish(r, error, None)
      BY DEF AllFailed
    <3>2. pc[r] = "trying" => AllFailed(r)
      BY <1>8 DEF Stream, Buffer, UnreadableAnswer, Relaying
    <3>3. CASE AllFailed(r)
      BY <3>1, <3>3 DEF MaybeModel
    <3>4. CASE ~AllFailed(r)
      BY <1>8, <3>4, FinishStep
    <3>5. QED
      BY <3>3, <3>4
  <2>2. \/ pc[r] = "trying" /\ AllFailed(r)
        \/ pc[r] = "launching" /\ ~AllFailed(r)
    BY <1>8 DEF AllFailed, Stream, Buffer, UnreadableAnswer, Relaying
  <2> DEFINE d == [decision[r] EXCEPT !.error = error, !.charged = charged,
                                      !.completed = TRUE]
  <2>3. /\ decision'[r] = d
        /\ ledger'[r] \in {ledger[r], d}
        /\ pc'[r] = "answered"
        /\ sent' = sent
    BY <1>1, <2>1 DEF Finish, SavedOrNot, Saved
  <2>4. /\ d.attempted = decision[r].attempted
        /\ d.eligible = decision[r].eligible
        /\ d.final = decision[r].final
        /\ d.error = error
    BY <1>1 DEF DecisionType
  <2>5. d \in DecisionType
    BY <1>1, DecisionUpdates
  <2> HIDE DEF d
  <2>6. ledger[r] # None /\ ~ledger[r].completed
    BY <2>2 DEF Accounted, Recorded, Working
  <2>7. Recorded(r)'
    BY <2>3, <2>5, <2>6, NoneAssumption DEF Recorded, Working
  <2>8. Noted(r)'
    BY <2>3, <2>4 DEF Accounted, Noted
  <2>9. Explained(r)'
    BY <2>1, <2>2, <2>3, <2>4 DEF Accounted, Explained, Unanswered
  <2>10. QED
    BY <2>7, <2>8, <2>9 DEF Accounted
<1>9. CASE PassShadow(r) \/ LaunchShadow(r)
  <2>1. UNCHANGED <<pc, decision, lastError, sent, ledger>> /\ pc[r] = "launching"
    BY <1>9 DEF PassShadow, LaunchShadow, Launching
  <2>2. QED
    BY <2>1 DEF Accounted, Recorded, Noted, Explained
<1>10. QED
  BY <1>2, <1>3, <1>4, <1>5, <1>6, <1>7, <1>8, <1>9 DEF Handle

(* Nothing outside the handlers touches a request, but for the process     *)
(* ending, which turns a working handler into a lost one.                  *)
LEMMA OutsideAccounted ==
  ASSUME Inv, NEW r \in Requests, Accounted(r),
         \/ \E s \in ShadowIds : RunShadow(s)
         \/ Tick \/ NewDay \/ Restart
  PROVE  Accounted(r)'
<1>1. CASE \E s \in ShadowIds : RunShadow(s)
  <2>1. Untouched(r)
    BY <1>1 DEF RunShadow, ShadowBlocked, ShadowSend, ShadowReturn, ShadowSave,
                handlerVars, Untouched
  <2>2. QED
    BY <2>1, UntouchedAccounted
<1>2. CASE Tick \/ NewDay
  <2>1. Untouched(r)
    BY <1>2 DEF Tick, NewDay, handlerVars, Untouched
  <2>2. QED
    BY <2>1, UntouchedAccounted
<1>3. CASE Restart
  <2>1. /\ UNCHANGED <<at, decision, lastError, ledger, sent>>
        /\ pc'[r] \in {pc[r], "lost"}
        /\ pc[r] \in Ended => pc'[r] = pc[r]
    BY <1>3 DEF Restart
  <2>2. QED
    BY <2>1 DEF Accounted, Recorded, Noted, Explained, Working, Unanswered, Turn, Ended
<1>4. QED
  BY <1>1, <1>2, <1>3

LEMMA InitAudit == Init => AuditInv
BY NoneAssumption
   DEF Init, AuditInv, Accounted, Recorded, Noted, Explained, Working,
       Unanswered, NoDecision

LEMMA NextAudit == Inv /\ AuditInv /\ [Next]_vars => AuditInv'
<1> SUFFICES ASSUME Inv, AuditInv, [Next]_vars, NEW q \in Requests
             PROVE  Accounted(q)'
  BY DEF AuditInv
<1>1. Accounted(q)
  BY DEF AuditInv
<1>2. ASSUME NEW r \in Requests, Route(r) \/ Handle(r)
      PROVE  Accounted(q)'
  <2>1. CASE q = r
    BY <1>1, <1>2, <2>1, HandlerAccounted
  <2>2. CASE q # r
    <3>1. Untouched(q)
      BY <1>2, <2>2, OthersUntouched
    <3>2. QED
      BY <1>1, <3>1, UntouchedAccounted
  <2>3. QED
    BY <2>1, <2>2
<1>3. CASE \/ \E s \in ShadowIds : RunShadow(s)
           \/ Tick \/ NewDay \/ Restart
  BY <1>1, <1>3, OutsideAccounted
<1>4. CASE UNCHANGED vars
  <2>1. Untouched(q)
    BY <1>4 DEF vars, handlerVars, Untouched
  <2>2. QED
    BY <1>1, <2>1, UntouchedAccounted
<1>5. QED
  BY <1>2, <1>3, <1>4 DEF Next

(* What the record of a request says of its calls is kept by every step    *)
(* (server.go:70-200).                                                     *)
THEOREM AuditInvHolds == Spec => []AuditInv
<1>1. Init => AuditInv
  BY InitAudit
<1>2. Inv /\ AuditInv /\ [Next]_vars => AuditInv'
  BY NextAudit
<1>3. QED
  BY <1>1, <1>2, InvHolds, PTL DEF Spec

(* server.go:126-147, 173-197.  For any number of concurrent requests and  *)
(* restarts, and whichever saves fail, a closed record names every model   *)
(* its request went out to and explains a failure.                         *)
THEOREM RecordsAccount == Spec => []LedgerAccountsForCalls
<1>1. AuditInv => LedgerAccountsForCalls
  <2> SUFFICES ASSUME AuditInv, NEW r \in Requests,
                      ledger[r] # None, ledger[r].completed
               PROVE  /\ sent[r] \subseteq ledger[r].attempted
                      /\ ledger[r].attempted \subseteq ledger[r].eligible
                      /\ ledger[r].final # None => ledger[r].final \in sent[r]
                      /\ ledger[r].final = None /\ ~ledger[r].error => sent[r] = {}
    BY DEF LedgerAccountsForCalls
  <2>1. Recorded(r) /\ Noted(r) /\ Explained(r)
    BY DEF AuditInv, Accounted
  <2>2. ledger[r] = decision[r] /\ pc[r] = "answered"
    BY <2>1 DEF Recorded
  <2>3. QED
    BY <2>1, <2>2 DEF Noted, Explained
<1>2. QED
  BY <1>1, AuditInvHolds, PTL

-----------------------------------------------------------------------------
(***************************************************************************)
(* Gateway implements AuditTrail: a save of the initial record is Record,  *)
(* a send is Call, a save of the closed record is Complete, and every      *)
(* other step, failed saves and the end of the process included, changes   *)
(* nothing the abstract trail sees.                                        *)
(***************************************************************************)

recordedNow == {r \in Requests : ledger[r] # None}
completedNow == {r \in Requests : ledger[r] # None /\ ledger[r].completed}

LEMMA SaveIsRecord ==
  ASSUME Inv, AuditInv, NEW r \in Requests, SaveInitial(r) \/ RejectUnaudited(r)
  PROVE  Trail!Record(r) \/ UNCHANGED Trail!vars
<1>1. sent' = sent /\ pc[r] = "routed"
  BY DEF SaveInitial, RejectUnaudited
<1>2. ledger' = ledger \/ ledger' = [ledger EXCEPT ![r] = decision[r]]
  BY DEF SaveInitial, RejectUnaudited, Saved, SavedOrNot
<1>3. CASE ledger' = ledger
  BY <1>1, <1>3 DEF Trail!vars
<1>4. CASE ledger' = [ledger EXCEPT ![r] = decision[r]]
  <2>1. /\ decision[r] # None
        /\ ~decision[r].completed
        /\ ledger[r] # None => ~ledger[r].completed
    BY <1>1, TurnEligible, NoneAssumption DEF AuditInv, Accounted, Recorded
  <2>2. /\ ledger'[r] = decision[r]
        /\ \A q \in Requests \ {r} : ledger'[q] = ledger[q]
    BY <1>4 DEF Inv, TypeOK
  <2>3. recordedNow' = recordedNow \cup {r}
    BY <2>1, <2>2 DEF recordedNow
  <2>4. completedNow' = completedNow
    BY <2>1, <2>2 DEF completedNow
  <2>5. QED
    BY <1>1, <2>3, <2>4 DEF Trail!Record, recordedNow, completedNow
<1>5. QED
  BY <1>2, <1>3, <1>4

LEMMA SendIsCall ==
  ASSUME Inv, AuditInv, NEW r \in Requests, Send(r)
  PROVE  \E m \in Models : Trail!Call(r, m)
<1>1. Turn(r) \in Models
  BY TurnEligible DEF Send
<1>2. ledger[r] # None /\ ~ledger[r].completed
  BY DEF Send, InLoop, AuditInv, Accounted, Recorded, Working
<1>3. ledger' = ledger /\ sent' = [sent EXCEPT ![r] = @ \cup {Turn(r)}]
  BY DEF Send
<1>4. QED
  BY <1>1, <1>2, <1>3 DEF Trail!Call

LEMMA FinishIsComplete ==
  ASSUME Inv, AuditInv, NEW r \in Requests,
         AllFailed(r) \/ Stream(r) \/ Buffer(r) \/ UnreadableAnswer(r)
  PROVE  Trail!Complete(r) \/ UNCHANGED Trail!vars
<1>1. PICK error \in BOOLEAN, charged \in MaybeModel : Finish(r, error, charged)
  BY FinishStep
<1> DEFINE d == [decision[r] EXCEPT !.error = error, !.charged = charged,
                                    !.completed = TRUE]
<1>2. sent' = sent /\ (ledger' = ledger \/ ledger' = [ledger EXCEPT ![r] = d])
  BY <1>1 DEF Finish, SavedOrNot, Saved
<1>3. d \in DecisionType
  BY TurnEligible, DecisionUpdates
<1>4. d.completed
  BY TurnEligible DEF DecisionType
<1> HIDE DEF d
<1>5. pc[r] \in {"trying", "launching"}
  BY FinishStep
<1>6. ledger[r] # None /\ ~ledger[r].completed
  BY <1>5 DEF AuditInv, Accounted, Recorded, Working
<1>7. CASE ledger' = ledger
  BY <1>2, <1>7 DEF Trail!vars
<1>8. CASE ledger' = [ledger EXCEPT ![r] = d]
  <2>1. /\ ledger'[r] = d
        /\ \A q \in Requests \ {r} : ledger'[q] = ledger[q]
    BY <1>8 DEF Inv, TypeOK
  <2>2. recordedNow' = recordedNow
    BY <1>3, <1>6, <2>1, NoneAssumption DEF recordedNow
  <2>3. completedNow' = completedNow \cup {r}
    BY <1>3, <1>4, <1>6, <2>1, NoneAssumption DEF completedNow
  <2>4. QED
    BY <1>2, <1>6, <2>2, <2>3 DEF Trail!Complete, recordedNow, completedNow
<1>9. QED
  BY <1>2, <1>7, <1>8

LEMMA OtherStepsInvisible ==
  ASSUME \/ \E r \in Requests :
              \/ Route(r)
              \/ PassOver(r) \/ Unconfigured(r) \/ CircuitOpen(r)
              \/ Answered(r) \/ FailedRetryably(r) \/ Refused(r)
              \/ PassShadow(r) \/ LaunchShadow(r)
         \/ \E s \in ShadowIds : RunShadow(s)
         \/ Tick \/ NewDay \/ Restart
         \/ UNCHANGED vars
  PROVE  UNCHANGED Trail!vars
<1>1. ledger' = ledger /\ sent' = sent
  BY DEF Route, PassOver, Unconfigured, CircuitOpen, Answered, FailedRetryably,
         Refused, PassShadow, LaunchShadow, RunShadow, ShadowBlocked, ShadowSend,
         ShadowReturn, ShadowSave, Tick, NewDay, Restart, vars, handlerVars
<1>2. QED
  BY <1>1 DEF Trail!vars

LEMMA TrailInit == Init => Trail!Init
BY DEF Init, Trail!Init

LEMMA TrailNext == Inv /\ AuditInv /\ [Next]_vars => [Trail!Next]_(Trail!vars)
<1> SUFFICES ASSUME Inv, AuditInv, [Next]_vars
             PROVE  Trail!Next \/ UNCHANGED Trail!vars
  OBVIOUS
<1>1. ASSUME NEW r \in Requests, Handle(r)
      PROVE  Trail!Next \/ UNCHANGED Trail!vars
  <2>1. CASE SaveInitial(r) \/ RejectUnaudited(r)
    BY <2>1, SaveIsRecord DEF Trail!Next
  <2>2. CASE Send(r)
    BY <2>2, SendIsCall DEF Trail!Next
  <2>3. CASE AllFailed(r) \/ Stream(r) \/ Buffer(r) \/ UnreadableAnswer(r)
    BY <2>3, FinishIsComplete DEF Trail!Next
  <2>4. CASE \/ PassOver(r) \/ Unconfigured(r) \/ CircuitOpen(r)
             \/ Answered(r) \/ FailedRetryably(r) \/ Refused(r)
             \/ PassShadow(r) \/ LaunchShadow(r)
    BY <2>4, OtherStepsInvisible
  <2>5. QED
    BY <1>1, <2>1, <2>2, <2>3, <2>4 DEF Handle
<1>2. CASE \/ \E r \in Requests : Route(r)
           \/ \E s \in ShadowIds : RunShadow(s)
           \/ Tick \/ NewDay \/ Restart
           \/ UNCHANGED vars
  BY <1>2, OtherStepsInvisible
<1>3. QED
  BY <1>1, <1>2 DEF Next

(* docs/architecture.md:35-37, 70; server.go:95-100, 127, 143, 167, 195.   *)
(* The request path implements the audit trail: no production call without *)
(* a durable record, and none after the record is closed.                  *)
THEOREM TrailImplemented == Spec => TrailSpec
<1>1. Init => Trail!Init
  BY TrailInit
<1>2. Inv /\ AuditInv /\ [Next]_vars => [Trail!Next]_(Trail!vars)
  BY TrailNext
<1>3. Spec => Trail!Spec
  BY <1>1, <1>2, InvHolds, AuditInvHolds, PTL DEF Spec, Trail!Spec
<1>4. QED
  BY <1>3 DEF TrailSpec
=============================================================================
