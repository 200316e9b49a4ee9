------------------------- MODULE GatewayCallsProofs -------------------------
(***************************************************************************)
(* The calls of the request path, for any number of requests and restarts: *)
(*   - the attempt loop: fallback keeps its order and stops at the first   *)
(*     answer or refusal;                                                  *)
(*   - shadow traffic: what it may cost, what it is made for, and that a   *)
(*     request shadows a model once;                                       *)
(*   - both together: Gateway implements ProviderClient.                   *)
(***************************************************************************)
EXTENDS GatewayProofs

-----------------------------------------------------------------------------
(***************************************************************************)
(* The attempt loop.  A frontier n of the attempt order separates what was *)
(* decided from what was not: every model attempted so far stands before   *)
(* n, and every usable model before n was attempted.  In the loop the      *)
(* frontier is the loop index (one more while its call is on the wire),    *)
(* and after the loop there still is one; a refusal leaves the frontier    *)
(* behind and moves the index to the end.                                  *)
(***************************************************************************)

Order(r) == AttemptOrder(decision[r].selected)

Frontier(r, n) ==
  /\ \A m \in decision[r].attempted :
       \E j \in DOMAIN Order(r) : j < n /\ Order(r)[j] = m
  /\ \A i \in DOMAIN Order(r) :
       i < n /\ Usable(r, i) => Order(r)[i] \in decision[r].attempted

InTurn(r) ==
  /\ pc[r] \in {"idle", "routed"} =>
       /\ at[r] = 1
       /\ lastError[r] = "none"
       /\ decision[r].attempted = {}
  /\ pc[r] = "trying" => IF lastError[r] = "refused"
                         THEN at[r] > Len(Order(r))
                         ELSE Frontier(r, at[r])
  /\ pc[r] = "calling" => /\ at[r] \in DOMAIN Order(r)
                          /\ lastError[r] # "refused"
                          /\ Frontier(r, at[r] + 1)
  /\ pc[r] = "answered" /\ decision[r].final = None
                        /\ lastError[r] # "refused" =>
       Frontier(r, Len(Order(r)) + 1)
  /\ \E n \in Nat : Frontier(r, n)

LoopInv == \A r \in Requests : InTurn(r)

(* Nothing InTurn(q) speaks of has changed.                                *)
LEMMA UntouchedInTurn ==
  ASSUME NEW q \in Requests, InTurn(q), Untouched(q)
  PROVE  InTurn(q)'
BY DEF InTurn, Frontier, Usable, Order, Untouched

(* server.go:435-445.  The positions of the loop.                          *)
LEMMA OrderDomain ==
  ASSUME Inv, NEW r \in Requests
  PROVE  /\ Len(Order(r)) \in Nat
         /\ DOMAIN Order(r) = 1..Len(Order(r))
BY TurnEligible, OrderType DEF Order, DecisionType

(* server.go:102-110.  A position that is passed over was used before it   *)
(* or cannot be used.                                                      *)
LEMMA PassedFrontier ==
  ASSUME Inv, NEW r \in Requests, InLoop(r), Frontier(r, at[r]),
         \/ Passed(r)
         \/ ProviderOf[Turn(r)] \notin Configured
  PROVE  Frontier(r, at[r] + 1)
<1>1. at[r] \in Nat \ {0} /\ DOMAIN Order(r) \subseteq Nat
  BY OrderDomain DEF Inv, TypeOK
<1>2. \A m \in decision[r].attempted :
        \E j \in DOMAIN Order(r) : j < at[r] + 1 /\ Order(r)[j] = m
  <2> TAKE m \in decision[r].attempted
  <2>1. PICK j \in DOMAIN Order(r) : j < at[r] /\ Order(r)[j] = m
    BY DEF Frontier
  <2>2. j < at[r] + 1
    BY <1>1, <2>1
  <2>3. QED
    BY <2>1, <2>2
<1>3. Usable(r, at[r]) => Order(r)[at[r]] \in decision[r].attempted
  <2> SUFFICES ASSUME Usable(r, at[r])
               PROVE  Order(r)[at[r]] \in decision[r].attempted
    OBVIOUS
  <2>1. PICK j \in 1..(at[r] - 1) : Order(r)[j] = Order(r)[at[r]]
    BY DEF Usable, Passed, Repeated, Turn, Order
  <2>2. j \in DOMAIN Order(r) /\ j < at[r]
    BY <1>1, <2>1, OrderDomain DEF InLoop, Order
  <2>3. Usable(r, j)
    BY <2>1 DEF Usable, Order
  <2>4. QED
    BY <2>1, <2>2, <2>3 DEF Frontier
<1>4. \A i \in DOMAIN Order(r) : i < at[r] + 1 => i < at[r] \/ i = at[r]
  BY <1>1
<1>5. QED
  BY <1>2, <1>3, <1>4 DEF Frontier

(* server.go:111-135.  Noting the model of a position moves the frontier   *)
(* past it.                                                                *)
LEMMA AttemptedFrontier ==
  ASSUME Inv, NEW r \in Requests, InLoop(r), Frontier(r, at[r]),
         Turn(r) \in Models, Attempted(r),
         NEW n, n = at[r] + 1
  PROVE  Frontier(r, n)'
<1>1. /\ decision'[r].attempted = decision[r].attempted \cup {Turn(r)}
      /\ decision'[r].eligible = decision[r].eligible
      /\ decision'[r].selected = decision[r].selected
  BY DEF Attempted, Inv, TypeOK, DecisionType
<1>2. Order(r)' = Order(r) /\ Turn(r) = Order(r)[at[r]]
  BY <1>1 DEF Order, Turn
<1>3. /\ at[r] \in Nat \ {0}
      /\ DOMAIN Order(r) \subseteq Nat
      /\ at[r] \in DOMAIN Order(r)
  BY OrderDomain DEF Inv, TypeOK, InLoop, Order
<1>4. \A j \in DOMAIN Order(r) : j < n <=> j < at[r] \/ j = at[r]
  BY <1>3
<1>5. \A i : Usable(r, i)' <=> Usable(r, i)
  BY <1>1 DEF Usable
<1>6. QED
  BY <1>1, <1>2, <1>3, <1>4, <1>5 DEF Frontier

(* A step that leaves the choice and the attempts alone keeps a frontier.  *)
LEMMA FrontierKept ==
  ASSUME NEW r, NEW n, Frontier(r, n),
         decision'[r].attempted = decision[r].attempted,
         decision'[r].eligible = decision[r].eligible,
         decision'[r].selected = decision[r].selected
  PROVE  Frontier(r, n)' /\ Order(r)' = Order(r)
BY DEF Frontier, Order, Usable

-----------------------------------------------------------------------------
(***************************************************************************)
(* One lemma per kind of step of the handler.                              *)
(***************************************************************************)

(* engine.go:26-139; server.go:92-100.                                     *)
LEMMA StartInTurn ==
  ASSUME Inv, NEW r \in Requests, InTurn(r),
         Route(r) \/ SaveInitial(r) \/ RejectUnaudited(r)
  PROVE  InTurn(r)'
<1>1. /\ at' = at /\ lastError' = lastError
      /\ pc[r] \in {"idle", "routed"}
      /\ pc'[r] \in {"routed", "trying", "rejected"}
  BY DEF Route, SaveInitial, RejectUnaudited, Inv, TypeOK
<1>2. at[r] = 1 /\ lastError[r] = "none"
  BY <1>1 DEF InTurn
<1>3. decision'[r].attempted = {}
  <2>1. CASE Route(r)
    <3>1. PICK selected \in Models, eligible \in SUBSET Models,
               shadows \in SUBSET Models, risky \in BOOLEAN :
            /\ shadows \subseteq eligible
            /\ decision' = [decision EXCEPT ![r] =
                 [NoDecision EXCEPT !.selected = selected, !.eligible = eligible,
                                    !.shadows = shadows, !.risky = risky]]
      BY <2>1, RouteStep
    <3>2. QED
      BY <3>1 DEF NoDecision, Inv, TypeOK
  <2>2. CASE SaveInitial(r) \/ RejectUnaudited(r)
    BY <1>1, <2>2 DEF SaveInitial, RejectUnaudited, InTurn
  <2>3. QED
    BY <2>1, <2>2
<1>4. DOMAIN Order(r)' \subseteq Nat \ {0}
  BY RouteInv, SaveInv, OrderType DEF Inv, TypeOK, DecisionType, Order
<1>5. Frontier(r, 1)'
  BY <1>3, <1>4 DEF Frontier
<1>6. QED
  BY <1>1, <1>2, <1>3, <1>5 DEF InTurn

(* server.go:102-135.  The turns that send nothing.                        *)
LEMMA SkipInTurn ==
  ASSUME Inv, NEW r \in Requests, InTurn(r),
         PassOver(r) \/ Unconfigured(r) \/ CircuitOpen(r)
  PROVE  InTurn(r)'
<1>1. /\ InLoop(r)
      /\ pc' = pc /\ pc[r] = "trying"
      /\ at'[r] = at[r] + 1
      /\ lastError'[r] \in {lastError[r], "retryable"}
  BY DEF PassOver, Unconfigured, CircuitOpen, InLoop, NextTurn, Inv, TypeOK
<1>2. lastError[r] # "refused" /\ Frontier(r, at[r])
  BY <1>1, OrderDomain DEF InTurn, InLoop, Order, Inv, TypeOK
<1>3. at[r] + 1 \in Nat
  BY DEF Inv, TypeOK
<1>4. ASSUME NEW n, n = at[r] + 1
      PROVE  Frontier(r, n)'
  <2>1. CASE CircuitOpen(r)
    <3>1. Turn(r) \in Models /\ Attempted(r)
      BY <2>1, TurnEligible DEF CircuitOpen
    <3>2. QED
      BY <1>1, <1>2, <1>4, <3>1, AttemptedFrontier
  <2>2. CASE PassOver(r) \/ Unconfigured(r)
    <3>1. Frontier(r, n) /\ decision' = decision
      BY <1>1, <1>2, <1>4, <2>2, PassedFrontier DEF PassOver, Unconfigured
    <3>2. QED
      BY <3>1, FrontierKept
  <2>3. QED
    BY <2>1, <2>2
<1>5. Frontier(r, at[r])'
  BY <1>1, <1>4 DEF Frontier
<1>6. QED
  BY <1>1, <1>2, <1>3, <1>4, <1>5 DEF InTurn

(* server.go:119-128.  The call is noted, and on the wire.                 *)
LEMMA SendInTurn ==
  ASSUME Inv, NEW r \in Requests, InTurn(r), Send(r)
  PROVE  InTurn(r)'
<1>1. /\ InLoop(r) /\ Turn(r) \in Models /\ Attempted(r)
      /\ at' = at /\ lastError' = lastError
      /\ pc[r] = "trying" /\ pc'[r] = "calling"
  BY TurnEligible DEF Send, InLoop, Inv, TypeOK
<1>2. lastError[r] # "refused" /\ Frontier(r, at[r])
  BY <1>1, OrderDomain DEF InTurn, InLoop, Order, Inv, TypeOK
<1>3. ASSUME NEW n, n = at[r] + 1
      PROVE  Frontier(r, n)'
  BY <1>1, <1>2, <1>3, AttemptedFrontier
<1>4. at[r] \in DOMAIN Order(r) /\ at[r] + 1 \in Nat
  BY <1>1, OrderDomain DEF InLoop, Order, Inv, TypeOK
<1>5. Order(r)' = Order(r)
  BY <1>1 DEF Attempted, Order, Inv, TypeOK, DecisionType
<1>6. Frontier(r, at[r] + 1)'
  BY <1>1, <1>3 DEF Frontier
<1>7. QED
  BY <1>1, <1>2, <1>3, <1>4, <1>5, <1>6 DEF InTurn

(* server.go:128-147.  The answer, the failure and the refusal.            *)
LEMMA CallEndInTurn ==
  ASSUME Inv, NEW r \in Requests, InTurn(r),
         Answered(r) \/ FailedRetryably(r) \/ Refused(r)
  PROVE  InTurn(r)'
<1>1. /\ pc[r] = "calling"
      /\ Frontier(r, at[r] + 1)
      /\ decision'[r].attempted = decision[r].attempted
      /\ decision'[r].eligible = decision[r].eligible
      /\ decision'[r].selected = decision[r].selected
  BY DEF Answered, FailedRetryably, Refused, InTurn, Inv, TypeOK, DecisionType
<1>2. ASSUME NEW n, n = at[r] + 1
      PROVE  Frontier(r, n)' /\ Order(r)' = Order(r)
  BY <1>1, <1>2, FrontierKept
<1>3. at[r] + 1 \in Nat
  BY DEF Inv, TypeOK
<1>4. CASE Answered(r)
  BY <1>2, <1>3, <1>4 DEF Answered, InTurn, Inv, TypeOK
<1>5. CASE FailedRetryably(r)
  <2>1. /\ pc'[r] = "trying" /\ lastError'[r] = "retryable"
        /\ at'[r] = at[r] + 1
    BY <1>5 DEF FailedRetryably, NextTurn, Inv, TypeOK
  <2>2. Frontier(r, at[r])'
    BY <1>2, <2>1 DEF Frontier
  <2>3. QED
    BY <1>2, <1>3, <2>1, <2>2 DEF InTurn
<1>6. CASE Refused(r)
  <2>1. /\ pc'[r] = "trying" /\ lastError'[r] = "refused"
        /\ at'[r] = Len(Order(r)) + 1
    BY <1>6 DEF Refused, Order, Inv, TypeOK
  <2>2. Len(Order(r)) \in Nat /\ Order(r)' = Order(r)
    BY <1>2, OrderDomain
  <2>3. at'[r] > Len(Order(r)')
    BY <2>1, <2>2
  <2>4. QED
    BY <1>2, <1>3, <2>1, <2>3 DEF InTurn
<1>7. QED
  BY <1>4, <1>5, <1>6

(* The record is closed; the shadows are launched.                         *)
LEMMA EndInTurn ==
  ASSUME Inv, NEW r \in Requests, Accounted(r), InTurn(r),
         \/ AllFailed(r) \/ Stream(r) \/ Buffer(r) \/ UnreadableAnswer(r)
         \/ PassShadow(r) \/ LaunchShadow(r)
  PROVE  InTurn(r)'
<1>1. CASE AllFailed(r) \/ Stream(r) \/ Buffer(r) \/ UnreadableAnswer(r)
  <2>1. PICK error \in BOOLEAN, charged \in MaybeModel : Finish(r, error, charged)
    BY <1>1, FinishStep
  <2>2. /\ decision'[r].attempted = decision[r].attempted
        /\ decision'[r].eligible = decision[r].eligible
        /\ decision'[r].selected = decision[r].selected
        /\ decision'[r].final = decision[r].final
        /\ lastError' = lastError
        /\ pc'[r] = "answered"
    BY <2>1 DEF Finish, Inv, TypeOK, DecisionType
  <2>3. \A n : Frontier(r, n) => Frontier(r, n)'
    BY <2>2, FrontierKept
  <2>4. decision[r].final = None /\ lastError[r] # "refused" =>
          Frontier(r, Len(Order(r)) + 1)
    <3> SUFFICES ASSUME decision[r].final = None, lastError[r] # "refused"
                 PROVE  Frontier(r, Len(Order(r)) + 1)
      OBVIOUS
    <3>1. pc[r] = "trying" /\ AllFailed(r)
      BY <1>1 DEF Accounted, Explained, AllFailed, Stream, Buffer,
                  UnreadableAnswer, Relaying
    <3>2. at[r] > Len(Order(r)) /\ Frontier(r, at[r])
      BY <3>1, OrderDomain DEF AllFailed, InLoop, InTurn, Order, Inv, TypeOK
    <3>3. at[r] \in Nat
      BY DEF Inv, TypeOK
    <3>4. \A j \in DOMAIN Order(r) : j < at[r] /\ j < Len(Order(r)) + 1
      BY <3>2, <3>3, OrderDomain
    <3>5. QED
      BY <3>2, <3>4 DEF Frontier
  <2>5. Order(r)' = Order(r)
    BY <2>2 DEF Order
  <2>6. decision'[r].final = None /\ lastError'[r] # "refused" =>
          Frontier(r, Len(Order(r)) + 1)'
    <3>1. \A n : n = Len(Order(r)) + 1 /\ Frontier(r, n) => Frontier(r, n)'
      BY <2>3
    <3>2. QED
      BY <2>2, <2>4, <2>5, <3>1 DEF Frontier
  <2>7. \E n \in Nat : Frontier(r, n)'
    BY <2>3 DEF InTurn
  <2>8. QED
    BY <2>2, <2>6, <2>7 DEF InTurn
<1>2. CASE PassShadow(r) \/ LaunchShadow(r)
  <2>1. UNCHANGED <<pc, decision, lastError>> /\ pc[r] = "launching"
    BY <1>2 DEF PassShadow, LaunchShadow, Launching
  <2>2. QED
    BY <2>1 DEF InTurn, Frontier, Usable, Order
<1>3. QED
  BY <1>1, <1>2

(* The end of the process leaves the decision of a lost request as it was. *)
LEMMA OutsideInTurn ==
  ASSUME Inv, NEW r \in Requests, InTurn(r),
         \/ \E s \in ShadowIds : RunShadow(s)
         \/ Tick \/ NewDay \/ Restart
  PROVE  InTurn(r)'
<1>1. CASE \E s \in ShadowIds : RunShadow(s)
  <2>1. Untouched(r)
    BY <1>1 DEF RunShadow, ShadowBlocked, ShadowSend, ShadowReturn, ShadowSave,
                handlerVars, Untouched
  <2>2. QED
    BY <2>1, UntouchedInTurn
<1>2. CASE Tick \/ NewDay
  <2>1. Untouched(r)
    BY <1>2 DEF Tick, NewDay, handlerVars, Untouched
  <2>2. QED
    BY <2>1, UntouchedInTurn
<1>3. CASE Restart
  <2>1. /\ UNCHANGED <<at, decision, lastError>>
        /\ pc'[r] \in {pc[r], "lost"}
        /\ pc[r] \in Ended => pc'[r] = pc[r]
    BY <1>3 DEF Restart
  <2>2. QED
    BY <2>1 DEF InTurn, Frontier, Usable, Order
<1>4. QED
  BY <1>1, <1>2, <1>3

LEMMA InitLoop == Init => LoopInv
<1> SUFFICES ASSUME Init, NEW r \in Requests PROVE InTurn(r)
  BY DEF LoopInv
<1>1. /\ pc[r] = "idle" /\ at[r] = 1 /\ lastError[r] = "none"
      /\ decision[r].attempted = {}
  BY DEF Init, NoDecision
<1>2. DOMAIN Order(r) \subseteq Nat \ {0}
  BY InitInv, OrderDomain
<1>3. Frontier(r, 1)
  BY <1>1, <1>2 DEF Frontier
<1>4. QED
  BY <1>1, <1>3 DEF InTurn

LEMMA NextLoop == Inv /\ AuditInv /\ LoopInv /\ [Next]_vars => LoopInv'
<1> SUFFICES ASSUME Inv, AuditInv, LoopInv, [Next]_vars, NEW q \in Requests
             PROVE  InTurn(q)'
  BY DEF LoopInv
<1>1. InTurn(q) /\ Accounted(q)
  BY DEF LoopInv, AuditInv
<1>2. ASSUME NEW r \in Requests, Route(r) \/ Handle(r)
      PROVE  InTurn(q)'
  <2>1. CASE q = r
    BY <1>1, <1>2, <2>1, StartInTurn, SkipInTurn, SendInTurn, CallEndInTurn,
       EndInTurn DEF Handle
  <2>2. CASE q # r
    <3>1. Untouched(q)
      BY <1>2, <2>2, OthersUntouched
    <3>2. QED
      BY <1>1, <3>1, UntouchedInTurn
  <2>3. QED
    BY <2>1, <2>2
<1>3. CASE \/ \E s \in ShadowIds : RunShadow(s)
           \/ Tick \/ NewDay \/ Restart
  BY <1>1, <1>3, OutsideInTurn
<1>4. CASE UNCHANGED vars
  <2>1. Untouched(q)
    BY <1>4 DEF vars, handlerVars, Untouched
  <2>2. QED
    BY <1>1, <2>1, UntouchedInTurn
<1>5. QED
  BY <1>2, <1>3, <1>4 DEF Next

(* server.go:102-147.  Every handler, at every point, has a frontier.      *)
THEOREM LoopInvHolds == Spec => []LoopInv
<1>1. Init => LoopInv
  BY InitLoop
<1>2. Inv /\ AuditInv /\ LoopInv /\ [Next]_vars => LoopInv'
  BY NextLoop
<1>3. QED
  BY <1>1, <1>2, InvHolds, AuditInvHolds, PTL DEF Spec

(* docs/architecture.md:29-31; server.go:102-135.  Whatever the circuits   *)
(* do meanwhile, and for any attempt order, fallback keeps its order, and  *)
(* a request fails without a refusal only when every usable model was      *)
(* attempted.                                                              *)
THEOREM FallbackKeepsOrder == Spec => []FallbackOrder
<1>1. Inv /\ LoopInv => FallbackOrder
  <2> SUFFICES ASSUME Inv, LoopInv, NEW r \in Requests, pc[r] # "idle",
                      NEW i \in DOMAIN Order(r), Usable(r, i)
               PROVE  /\ Order(r)[i] \notin decision[r].attempted =>
                           \A j \in (i + 1)..Len(Order(r)) :
                             Order(r)[j] \in decision[r].attempted =>
                               \E k \in 1..i : Order(r)[k] = Order(r)[j]
                      /\ pc[r] = "answered" /\ decision[r].final = None
                                            /\ lastError[r] # "refused" =>
                           Order(r)[i] \in decision[r].attempted
    BY DEF FallbackOrder, Order
  <2>1. InTurn(r) /\ i \in 1..Len(Order(r)) /\ Len(Order(r)) \in Nat
    BY OrderDomain DEF LoopInv
  <2>2. ASSUME Order(r)[i] \notin decision[r].attempted,
               NEW j \in (i + 1)..Len(Order(r)),
               Order(r)[j] \in decision[r].attempted
        PROVE  \E k \in 1..i : Order(r)[k] = Order(r)[j]
    <3>1. PICK n \in Nat : Frontier(r, n)
      BY <2>1 DEF InTurn
    <3>2. ~(i < n)
      BY <2>2, <3>1 DEF Frontier
    <3>3. PICK k \in DOMAIN Order(r) : k < n /\ Order(r)[k] = Order(r)[j]
      BY <2>2, <3>1 DEF Frontier
    <3>4. k \in 1..i
      BY <2>1, <3>2, <3>3, OrderDomain
    <3>5. QED
      BY <3>3, <3>4
  <2>3. ASSUME pc[r] = "answered", decision[r].final = None,
               lastError[r] # "refused"
        PROVE  Order(r)[i] \in decision[r].attempted
    <3>1. Frontier(r, Len(Order(r)) + 1)
      BY <2>1, <2>3 DEF InTurn
    <3>2. i < Len(Order(r)) + 1
      BY <2>1
    <3>3. QED
      BY <3>1, <3>2 DEF Frontier
  <2>4. QED
    BY <2>2, <2>3
<1>2. QED
  BY <1>1, InvHolds, LoopInvHolds, PTL

(* server.go:102-147.  A handler that sends was neither refused nor        *)
(* answered, and never sent the request to this model before.              *)
LEMMA NoSecondCall ==
  ASSUME Inv, AuditInv, LoopInv, NEW r \in Requests, Send(r)
  PROVE  /\ lastError[r] # "refused"
         /\ decision[r].final = None
         /\ Turn(r) \notin sent[r]
<1>1. /\ pc[r] = "trying" /\ at[r] \in Nat
      /\ at[r] <= Len(Order(r))
      /\ InTurn(r) /\ Accounted(r)
  BY DEF Send, InLoop, Order, LoopInv, AuditInv, Inv, TypeOK
<1>2. lastError[r] # "refused" /\ Frontier(r, at[r])
  BY <1>1, OrderDomain DEF InTurn
<1>3. ASSUME Turn(r) \in decision[r].attempted PROVE FALSE
  <2>1. PICK j \in DOMAIN Order(r) : j < at[r] /\ Order(r)[j] = Turn(r)
    BY <1>2, <1>3 DEF Frontier
  <2>2. j \in 1..(at[r] - 1)
    BY <1>1, <2>1, OrderDomain
  <2>3. QED
    BY <2>1, <2>2 DEF Send, Passed, Repeated, Turn, Order
<1>4. QED
  BY <1>1, <1>2, <1>3 DEF Accounted, Noted, Explained, Unanswered

(* docs/architecture.md:29; client.go:142-148.  No step sends a request    *)
(* that a model refused or answered, and no step sends a request to a      *)
(* model that already got it.                                              *)
THEOREM CallsStopHolds == Spec => CallsStop
<1>1. Inv /\ AuditInv /\ LoopInv /\ [Next]_vars =>
        [\A r \in Requests :
           /\ lastError[r] = "refused" \/ decision[r].final # None =>
                sent'[r] = sent[r]
           /\ pc[r] # "calling" /\ pc'[r] = "calling" =>
                sent'[r] # sent[r]]_vars
  <2> SUFFICES ASSUME Inv, AuditInv, LoopInv, Next, NEW q \in Requests
               PROVE  /\ lastError[q] = "refused" \/ decision[q].final # None =>
                           sent'[q] = sent[q]
                      /\ pc[q] # "calling" /\ pc'[q] = "calling" =>
                           sent'[q] # sent[q]
    OBVIOUS
  <2>1. CASE Send(q)
    <3>1. sent'[q] = sent[q] \cup {Turn(q)}
      BY <2>1 DEF Send, Inv, TypeOK
    <3>2. QED
      BY <2>1, <3>1, NoSecondCall
  <2>2. CASE ~Send(q)
    <3>1. sent'[q] = sent[q] /\ (pc'[q] = "calling" => pc[q] = "calling")
      <4>1. ASSUME NEW r \in Requests \ {q}, Route(r) \/ Handle(r)
            PROVE  pc'[q] = pc[q] /\ sent'[q] = sent[q]
        BY <4>1, OthersUntouched DEF Untouched
      <4>2. ASSUME Route(q) \/ Handle(q)
            PROVE  sent'[q] = sent[q] /\ pc'[q] # "calling"
        <5>1. CASE Route(q) \/ SaveInitial(q) \/ RejectUnaudited(q)
          BY <5>1 DEF Route, SaveInitial, RejectUnaudited, Inv, TypeOK
        <5>2. CASE PassOver(q) \/ Unconfigured(q) \/ CircuitOpen(q)
          BY <5>2 DEF PassOver, Unconfigured, CircuitOpen, InLoop
        <5>3. CASE Answered(q) \/ FailedRetryably(q) \/ Refused(q)
          BY <5>3 DEF Answered, FailedRetryably, Refused, Inv, TypeOK
        <5>4. CASE AllFailed(q) \/ Stream(q) \/ Buffer(q) \/ UnreadableAnswer(q)
          BY <5>4, FinishStep DEF Finish, Inv, TypeOK
        <5>5. CASE PassShadow(q) \/ LaunchShadow(q)
          BY <5>5 DEF PassShadow, LaunchShadow, Launching
        <5>6. QED
          BY <2>2, <4>2, <5>1, <5>2, <5>3, <5>4, <5>5 DEF Handle
      <4>3. ASSUME NEW s \in ShadowIds, RunShadow(s)
            PROVE  pc' = pc /\ sent' = sent
        BY <4>3 DEF RunShadow, ShadowBlocked, ShadowSend, ShadowReturn,
                    ShadowSave, handlerVars
      <4>4. CASE Tick \/ NewDay
        BY <4>4 DEF Tick, NewDay, handlerVars
      <4>5. CASE Restart
        BY <4>5 DEF Restart, Ended
      <4>6. QED
        BY <4>1, <4>2, <4>3, <4>4, <4>5 DEF Next
    <3>2. QED
      BY <3>1
  <2>3. QED
    BY <2>1, <2>2
<1>2. QED
  BY <1>1, InvHolds, AuditInvHolds, LoopInvHolds, PTL DEF Spec, CallsStop

-----------------------------------------------------------------------------
(***************************************************************************)
(* Cost.  The history variable launched counts the shadows of a day across *)
(* restarts, spend forgets them; each life of the process adds at most one *)
(* budget to the difference.                                               *)
(***************************************************************************)

LEMMA InitSpend == Init => ShadowSpendBounded
<1> SUFFICES ASSUME Init PROVE ShadowSpendBounded
  OBVIOUS
<1>1. spend = 0 /\ launched = 0 /\ restarts = 0
  BY DEF Init
<1>2. Budget \in Nat
  BY GatewayAssumption
<1>3. QED
  BY <1>1, <1>2 DEF ShadowSpendBounded

LEMMA NextSpend ==
  Inv /\ ShadowSpendBounded /\ [Next]_vars => ShadowSpendBounded'
<1> SUFFICES ASSUME Inv, ShadowSpendBounded, [Next]_vars
             PROVE  ShadowSpendBounded'
  OBVIOUS
<1>1. /\ Budget \in Nat /\ spend \in Nat /\ launched \in Nat /\ restarts \in Nat
      /\ spend <= Budget
      /\ launched <= restarts * Budget + spend
  BY GatewayAssumption DEF Inv, TypeOK, ShadowSpendBounded
<1>2. restarts * Budget \in Nat
  BY <1>1
<1>3. CASE UNCHANGED <<spend, launched, restarts>>
  BY <1>3 DEF ShadowSpendBounded
<1>4. ASSUME NEW r \in Requests, LaunchShadow(r)
      PROVE  ShadowSpendBounded'
  <2> DEFINE c == Cost[Candidates[at[r]]]
  <2>1. c \in Nat
    BY <1>4, GatewayAssumption DEF LaunchShadow, Launching, Inv, TypeOK
  <2>2. /\ spend' = spend + c
        /\ spend + c <= Budget
        /\ launched' \in {launched, launched + c}
        /\ restarts' = restarts
    BY <1>4 DEF LaunchShadow, WithinBudget
  <2> HIDE DEF c
  <2>3. QED
    BY <1>1, <1>2, <2>1, <2>2 DEF ShadowSpendBounded
<1>5. CASE NewDay
  <2>1. spend' = 0 /\ launched' = 0 /\ restarts' = restarts
    BY <1>5 DEF NewDay
  <2>2. QED
    BY <1>1, <1>2, <2>1 DEF ShadowSpendBounded
<1>6. CASE Restart
  <2>1. spend' = 0 /\ launched' = launched /\ restarts' = restarts + 1
    BY <1>6 DEF Restart
  <2>2. (restarts + 1) * Budget = restarts * Budget + Budget
    BY <1>1
  <2>3. QED
    BY <1>1, <1>2, <2>1, <2>2 DEF ShadowSpendBounded
<1>7. ASSUME NEW r \in Requests, Route(r) \/ (Handle(r) /\ ~LaunchShadow(r))
      PROVE  UNCHANGED <<spend, launched, restarts>>
  BY <1>7, FinishStep
     DEF Handle, Route, SaveInitial, RejectUnaudited, PassOver, Unconfigured,
         CircuitOpen, Send, Answered, FailedRetryably, Refused, PassShadow,
         AllFailed, Stream, Buffer, UnreadableAnswer, Finish, shadowVars
<1>8. ASSUME NEW s \in ShadowIds, RunShadow(s)
      PROVE  UNCHANGED <<spend, launched, restarts>>
  BY <1>8 DEF RunShadow, ShadowBlocked, ShadowSend, ShadowReturn, ShadowSave
<1>9. CASE Tick \/ UNCHANGED vars
  BY <1>3, <1>9 DEF Tick, vars, shadowVars
<1>10. QED
  BY <1>3, <1>4, <1>5, <1>6, <1>7, <1>8, <1>9 DEF Next

(* server.go:385-394; docs/policy-spec.md:23.  Concurrent launches never   *)
(* reserve more than the budget, and the shadows of a day cost at most one *)
(* budget per life of the process.                                         *)
THEOREM ShadowSpend == Spec => []ShadowSpendBounded
<1>1. Init => ShadowSpendBounded
  BY InitSpend
<1>2. Inv /\ ShadowSpendBounded /\ [Next]_vars => ShadowSpendBounded'
  BY NextSpend
<1>3. QED
  BY <1>1, <1>2, InvHolds, PTL DEF Spec

-----------------------------------------------------------------------------
(***************************************************************************)
(* Justification.  A shadow is started from "launching" and its parent is  *)
(* never routed or called again, so what was checked at the launch stays   *)
(* true; "lost" keeps the decision as it was.                              *)
(***************************************************************************)

Parented(s) ==
  shadow[s] # "none" \/ s \in shadowLedger =>
    /\ pc[s[1]] \in {"launching", "answered", "lost"}
    /\ ledger[s[1]] # None
    /\ decision[s[1]].final \notin {None, s[2]}
    /\ s[2] \in decision[s[1]].eligible
    /\ ~decision[s[1]].risky

(* Shadow models are chosen among the eligible ones.                       *)
ShadowsEligible ==
  \A r \in Requests : decision[r].shadows \subseteq decision[r].eligible

ShadowInv == ShadowsEligible /\ \A s \in ShadowIds : Parented(s)

Parent == {"launching", "answered", "lost"}

(* What a parent is to its shadows never changes.                          *)
LEMMA ParentKept ==
  ASSUME Inv, AuditInv, [Next]_vars, NEW r \in Requests, pc[r] \in Parent,
         ledger[r] # None
  PROVE  /\ pc'[r] \in Parent
         /\ ledger'[r] # None
         /\ decision'[r].final = decision[r].final
         /\ decision'[r].eligible = decision[r].eligible
         /\ decision'[r].risky = decision[r].risky
<1>1. CASE Untouched(r)
  BY <1>1 DEF Untouched
<1>2. ASSUME NEW q \in Requests \ {r}, Route(q) \/ Handle(q)
      PROVE  Untouched(r)
  BY <1>2, OthersUntouched
<1>3. ~Route(r)
  BY DEF Route, Parent
<1>4. ASSUME Handle(r)
      PROVE  /\ pc'[r] \in Parent
             /\ ledger'[r] # None
             /\ decision'[r].final = decision[r].final
             /\ decision'[r].eligible = decision[r].eligible
             /\ decision'[r].risky = decision[r].risky
  <2>1. \/ PassShadow(r) \/ LaunchShadow(r)
        \/ AllFailed(r) \/ Stream(r) \/ Buffer(r) \/ UnreadableAnswer(r)
    BY <1>4 DEF Handle, SaveInitial, RejectUnaudited, PassOver, Unconfigured,
                CircuitOpen, Send, Answered, FailedRetryably, Refused, InLoop, Parent
  <2>2. CASE PassShadow(r) \/ LaunchShadow(r)
    BY <2>2 DEF PassShadow, LaunchShadow
  <2>3. CASE AllFailed(r) \/ Stream(r) \/ Buffer(r) \/ UnreadableAnswer(r)
    <3>1. PICK error \in BOOLEAN, charged \in MaybeModel : Finish(r, error, charged)
      BY <2>3, FinishStep
    <3> DEFINE d == [decision[r] EXCEPT !.error = error, !.charged = charged,
                                        !.completed = TRUE]
    <3>2. d \in DecisionType
      BY TurnEligible, DecisionUpdates
    <3>3. /\ decision'[r] = d
          /\ pc'[r] = "answered"
          /\ ledger'[r] \in {ledger[r], d}
      BY <3>1 DEF Finish, SavedOrNot, Saved, Inv, TypeOK
    <3>4. /\ d.final = decision[r].final
          /\ d.eligible = decision[r].eligible
          /\ d.risky = decision[r].risky
      BY TurnEligible DEF DecisionType
    <3> HIDE DEF d
    <3>5. QED
      BY <3>2, <3>3, <3>4, NoneAssumption DEF Parent
  <2>4. QED
    BY <2>1, <2>2, <2>3
<1>5. CASE \E s \in ShadowIds : RunShadow(s)
  BY <1>1, <1>5 DEF RunShadow, ShadowBlocked, ShadowSend, ShadowReturn, ShadowSave,
                    handlerVars, Untouched
<1>6. CASE Tick \/ NewDay \/ UNCHANGED vars
  BY <1>1, <1>6 DEF Tick, NewDay, vars, handlerVars, Untouched
<1>7. CASE Restart
  BY <1>7 DEF Restart, Parent
<1>8. QED
  BY <1>1, <1>2, <1>3, <1>4, <1>5, <1>6, <1>7 DEF Next

(* Only LaunchShadow brings a shadow into being.                           *)
LEMMA NewShadow ==
  ASSUME Inv, [Next]_vars, NEW s \in ShadowIds,
         shadow[s] = "none",
         \/ shadow'[s] # "none"
         \/ s \in shadowLedger' /\ s \notin shadowLedger
  PROVE  /\ LaunchShadow(s[1])
         /\ s[2] = Candidates[at[s[1]]]
<1>1. shadow \in [ShadowIds -> {"none", "started", "calling", "returned", "done"}]
  BY DEF Inv, TypeOK
<1>2. ~UNCHANGED <<shadow, shadowLedger>>
  OBVIOUS
<1>3. ASSUME NEW t \in ShadowIds, RunShadow(t)
      PROVE  FALSE
  BY <1>1, <1>3 DEF RunShadow, ShadowBlocked, ShadowSend, ShadowReturn, ShadowSave
<1>4. ~Restart /\ ~Tick /\ ~NewDay /\ ~UNCHANGED vars
  BY <1>1 DEF Restart, Tick, NewDay, vars, shadowVars
<1>5. ASSUME NEW r \in Requests, Route(r) \/ Handle(r)
      PROVE  LaunchShadow(r)
  BY <1>2, <1>5, FinishStep
     DEF Handle, Route, SaveInitial, RejectUnaudited, PassOver, Unconfigured,
         CircuitOpen, Send, Answered, FailedRetryably, Refused, PassShadow,
         AllFailed, Stream, Buffer, UnreadableAnswer, Finish, shadowVars
<1>6. PICK r \in Requests : LaunchShadow(r)
  BY <1>3, <1>4, <1>5 DEF Next
<1>7. shadow' = [shadow EXCEPT ![<<r, Candidates[at[r]]>>] = "started"]
      /\ shadowLedger' = shadowLedger
  BY <1>2, <1>6 DEF LaunchShadow
<1>8. s = <<r, Candidates[at[r]]>>
  BY <1>1, <1>7
<1>9. QED
  BY <1>6, <1>8

LEMMA NextShadowsEligible ==
  ASSUME Inv, ShadowsEligible, [Next]_vars
  PROVE  ShadowsEligible'
<1>1. ASSUME NEW r \in Requests, Route(r)
      PROVE  ShadowsEligible'
  <2>1. PICK selected \in Models, eligible \in SUBSET Models,
             shadows \in SUBSET Models, risky \in BOOLEAN :
          /\ shadows \subseteq eligible
          /\ decision' = [decision EXCEPT ![r] =
               [NoDecision EXCEPT !.selected = selected, !.eligible = eligible,
                                  !.shadows = shadows, !.risky = risky]]
    BY <1>1, RouteStep
  <2> DEFINE d == [NoDecision EXCEPT !.selected = selected, !.eligible = eligible,
                                     !.shadows = shadows, !.risky = risky]
  <2>2. d.shadows \subseteq d.eligible
    BY <2>1 DEF NoDecision
  <2>3. decision' = [decision EXCEPT ![r] = d]
    BY <2>1
  <2> HIDE DEF d
  <2>4. QED
    BY <2>2, <2>3 DEF ShadowsEligible, Inv, TypeOK
<1>2. ASSUME NEW r \in Requests, Handle(r), NEW q \in Requests
      PROVE  /\ decision'[q].shadows = decision[q].shadows
             /\ decision'[q].eligible = decision[q].eligible
  <2>1. CASE AllFailed(r) \/ Stream(r) \/ Buffer(r) \/ UnreadableAnswer(r)
    <3>1. PICK error \in BOOLEAN, charged \in MaybeModel : Finish(r, error, charged)
      BY <2>1, FinishStep
    <3>2. QED
      BY <3>1 DEF Finish, Inv, TypeOK, DecisionType
  <2>2. CASE CircuitOpen(r) \/ Send(r)
    BY <2>2 DEF CircuitOpen, Send, Attempted, Inv, TypeOK, DecisionType
  <2>3. CASE Answered(r)
    BY <2>3 DEF Answered, Inv, TypeOK, DecisionType
  <2>4. QED
    BY <1>2, <2>1, <2>2, <2>3
       DEF Handle, SaveInitial, RejectUnaudited, PassOver, Unconfigured,
           FailedRetryably, Refused, PassShadow, LaunchShadow
<1>3. CASE \/ \E s \in ShadowIds : RunShadow(s)
           \/ Tick \/ NewDay \/ Restart \/ UNCHANGED vars
  <2>1. decision' = decision
    BY <1>3 DEF RunShadow, ShadowBlocked, ShadowSend, ShadowReturn, ShadowSave,
                Tick, NewDay, Restart, vars, handlerVars
  <2>2. QED
    BY <2>1 DEF ShadowsEligible
<1>4. QED
  BY <1>1, <1>2, <1>3 DEF Next, ShadowsEligible

LEMMA NextShadow == Inv /\ AuditInv /\ ShadowInv /\ [Next]_vars => ShadowInv'
<1> SUFFICES ASSUME Inv, AuditInv, ShadowInv, [Next]_vars PROVE ShadowInv'
  OBVIOUS
<1>1. ShadowsEligible'
  BY NextShadowsEligible DEF ShadowInv
<1>2. ASSUME NEW s \in ShadowIds, shadow'[s] # "none" \/ s \in shadowLedger'
      PROVE  /\ pc'[s[1]] \in Parent
             /\ ledger'[s[1]] # None
             /\ decision'[s[1]].final \notin {None, s[2]}
             /\ s[2] \in decision'[s[1]].eligible
             /\ ~decision'[s[1]].risky
  <2> DEFINE r == s[1]
  <2>1. r \in Requests
    BY DEF ShadowIds
  <2>2. /\ pc[r] \in Parent
        /\ ledger[r] # None
        /\ decision[r].final \notin {None, s[2]}
        /\ s[2] \in decision[r].eligible
        /\ ~decision[r].risky
    <3>1. CASE shadow[s] # "none" \/ s \in shadowLedger
      BY <3>1 DEF ShadowInv, Parented, Parent
    <3>2. CASE shadow[s] = "none" /\ s \notin shadowLedger
      <4>1. LaunchShadow(r) /\ s[2] = Candidates[at[r]]
        BY <1>2, <3>2, NewShadow
      <4>2. /\ pc[r] = "launching" /\ ~decision[r].risky
            /\ s[2] \in decision[r].shadows /\ s[2] # decision[r].final
        BY <4>1 DEF LaunchShadow, Launching, Shadowed
      <4>3. Accounted(r)
        BY <2>1 DEF AuditInv
      <4>4. QED
        BY <2>1, <4>2, <4>3
           DEF Accounted, Recorded, Explained, Working, ShadowInv,
               ShadowsEligible, Parent
    <3>3. QED
      BY <3>1, <3>2
  <2> HIDE DEF r
  <2>3. QED
    BY <2>1, <2>2, ParentKept DEF r
<1>3. QED
  BY <1>1, <1>2 DEF ShadowInv, Parented, Parent

(* server.go:310-349.  The parent of a shadow was answered and stays so.   *)
THEOREM ShadowInvHolds == Spec => []ShadowInv
<1>1. Init => ShadowInv
  BY DEF Init, ShadowInv, ShadowsEligible, Parented, NoDecision
<1>2. Inv /\ AuditInv /\ ShadowInv /\ [Next]_vars => ShadowInv'
  BY NextShadow
<1>3. QED
  BY <1>1, <1>2, InvHolds, AuditInvHolds, PTL DEF Spec

(* server.go:147-155, 310-349; README.md:201.  For any number of requests  *)
(* and restarts: a shadow runs, and is recorded, only under a recorded     *)
(* decision that another model already answered, for a model that was      *)
(* feasible, and never for risky traffic.                                  *)
THEOREM ShadowsOnlyJustified == Spec => []ShadowsJustified
<1>1. ShadowInv => ShadowsJustified
  BY DEF ShadowInv, Parented, ShadowsJustified
<1>2. QED
  BY <1>1, ShadowInvHolds, PTL

-----------------------------------------------------------------------------
(***************************************************************************)
(* One goroutine per request and model.  launchShadows walks candidates    *)
(* that differ, so the model it launches has no goroutine yet.             *)
(***************************************************************************)

LaunchedBefore(s) ==
  shadow[s] # "none" /\ pc[s[1]] = "launching" =>
    \E j \in DOMAIN Candidates : j < at[s[1]] /\ Candidates[j] = s[2]

OnceInv == \A s \in ShadowIds : LaunchedBefore(s)

(* server.go:320-332; types.go:266-273.  A launch finds no goroutine of    *)
(* the request for the model.                                              *)
LEMMA LaunchIsFirst ==
  ASSUME Inv, OnceInv, NEW r \in Requests, LaunchShadow(r)
  PROVE  /\ <<r, Candidates[at[r]]>> \in ShadowIds
         /\ shadow[<<r, Candidates[at[r]]>>] = "none"
<1>1. /\ pc[r] = "launching"
      /\ at[r] \in DOMAIN Candidates
      /\ DOMAIN Candidates \subseteq Nat
  BY GatewayAssumption DEF LaunchShadow, Launching, Inv, TypeOK
<1>2. <<r, Candidates[at[r]]>> \in ShadowIds
  BY <1>1, GatewayAssumption DEF ShadowIds
<1>3. ASSUME shadow[<<r, Candidates[at[r]]>>] # "none"
      PROVE  FALSE
  <2>1. PICK j \in DOMAIN Candidates :
          j < at[r] /\ Candidates[j] = Candidates[at[r]]
    BY <1>1, <1>2, <1>3 DEF OnceInv, LaunchedBefore
  <2>2. j = at[r]
    BY <1>1, <2>1, GatewayAssumption
  <2>3. QED
    BY <1>1, <2>1, <2>2
<1>4. QED
  BY <1>2, <1>3

(* server.go:147-155, 320-332.  A handler comes to launching once, and its *)
(* loop index only grows there.                                            *)
LEMMA LaunchingAdvances ==
  ASSUME Inv, [Next]_vars, NEW r \in Requests,
         pc[r] \in Parent, pc'[r] = "launching"
  PROVE  pc[r] = "launching" /\ at'[r] \in {at[r], at[r] + 1}
<1>1. CASE Untouched(r)
  BY <1>1 DEF Untouched
<1>2. ASSUME NEW q \in Requests \ {r}, Route(q) \/ Handle(q)
      PROVE  Untouched(r)
  BY <1>2, OthersUntouched
<1>3. ~Route(r)
  BY DEF Route, Parent
<1>4. ASSUME Handle(r)
      PROVE  pc[r] = "launching" /\ at'[r] \in {at[r], at[r] + 1}
  <2>1. ~(AllFailed(r) \/ Stream(r) \/ Buffer(r) \/ UnreadableAnswer(r))
    BY FinishStep DEF Finish, Inv, TypeOK
  <2>2. PassShadow(r) \/ LaunchShadow(r)
    BY <1>4, <2>1
       DEF Handle, SaveInitial, RejectUnaudited, PassOver, Unconfigured,
           CircuitOpen, Send, Answered, FailedRetryably, Refused, InLoop, Parent
  <2>3. QED
    BY <2>2 DEF PassShadow, LaunchShadow, Launching, NextTurn, Inv, TypeOK
<1>5. CASE \E s \in ShadowIds : RunShadow(s)
  BY <1>1, <1>5 DEF RunShadow, ShadowBlocked, ShadowSend, ShadowReturn, ShadowSave,
                    handlerVars, Untouched
<1>6. CASE Tick \/ NewDay \/ UNCHANGED vars
  BY <1>1, <1>6 DEF Tick, NewDay, vars, handlerVars, Untouched
<1>7. CASE Restart
  BY <1>7 DEF Restart, Parent
<1>8. QED
  BY <1>1, <1>2, <1>3, <1>4, <1>5, <1>6, <1>7 DEF Next

LEMMA NextOnce == Inv /\ ShadowInv /\ OnceInv /\ [Next]_vars => OnceInv'
<1> SUFFICES ASSUME Inv, ShadowInv, OnceInv, [Next]_vars, NEW s \in ShadowIds,
                    shadow'[s] # "none", pc'[s[1]] = "launching"
             PROVE  \E j \in DOMAIN Candidates :
                      j < at'[s[1]] /\ Candidates[j] = s[2]
  BY DEF OnceInv, LaunchedBefore
<1>1. s[1] \in Requests /\ at[s[1]] \in Nat /\ DOMAIN Candidates \subseteq Nat
  BY GatewayAssumption DEF ShadowIds, Inv, TypeOK
<1>2. CASE shadow[s] = "none"
  <2>1. LaunchShadow(s[1]) /\ s[2] = Candidates[at[s[1]]]
    BY <1>2, NewShadow
  <2>2. at[s[1]] \in DOMAIN Candidates /\ at'[s[1]] = at[s[1]] + 1
    BY <1>1, <2>1, GatewayAssumption
       DEF LaunchShadow, Launching, NextTurn, Inv, TypeOK
  <2>3. QED
    BY <1>1, <2>1, <2>2
<1>3. CASE shadow[s] # "none"
  <2>1. pc[s[1]] \in Parent
    BY <1>3 DEF ShadowInv, Parented, Parent
  <2>2. pc[s[1]] = "launching" /\ at'[s[1]] \in {at[s[1]], at[s[1]] + 1}
    BY <1>1, <2>1, LaunchingAdvances
  <2>3. PICK j \in DOMAIN Candidates : j < at[s[1]] /\ Candidates[j] = s[2]
    BY <1>3, <2>2 DEF OnceInv, LaunchedBefore
  <2>4. QED
    BY <1>1, <2>2, <2>3
<1>4. QED
  BY <1>2, <1>3

(* server.go:320-332.  What has a goroutine stands before the loop index.  *)
THEOREM OnceInvHolds == Spec => []OnceInv
<1>1. Init => OnceInv
  BY DEF Init, OnceInv, LaunchedBefore
<1>2. Inv /\ ShadowInv /\ OnceInv /\ [Next]_vars => OnceInv'
  BY NextOnce
<1>3. QED
  BY <1>1, <1>2, InvHolds, ShadowInvHolds, PTL DEF Spec

-----------------------------------------------------------------------------
(***************************************************************************)
(* Gateway implements ProviderClient: the calls of the client are the      *)
(* handlers and the goroutines that are calling.  Routing is a probe, a    *)
(* send of either kind is Admit, the ends of a call are those of the       *)
(* client, time and restarts are its own, and no other step touches a      *)
(* circuit or a call.                                                      *)
(***************************************************************************)

Callers == Requests \cup ShadowIds
callsNow == [c \in Callers |-> CallOf(c)]

(* Nothing the client sees of caller c has changed.                        *)
SameCall(c) == CallOf(c)' = CallOf(c)

LEMMA CallerKinds ==
  /\ \A c \in Callers : c \in Requests \/ (c \in ShadowIds /\ c \notin Requests)
  /\ \A s \in ShadowIds : s \notin Requests
BY GatewayAssumption DEF Callers, ShadowIds

LEMMA UntouchedCall ==
  ASSUME NEW r \in Requests, Untouched(r)
  PROVE  SameCall(r)
BY DEF SameCall, CallOf, Untouched, Turn, ConfigOf

LEMMA SameShadowCall ==
  ASSUME NEW s \in ShadowIds,
         shadow'[s] = "calling" <=> shadow[s] = "calling"
  PROVE  SameCall(s)
BY CallerKinds DEF SameCall, CallOf, ConfigOf

(* What a call of the client is, for either kind of caller.                *)
LEMMA RequestCall ==
  ASSUME Inv, NEW r \in Requests
  PROVE  /\ pc[r] # "calling" => CallOf(r) = None
         /\ pc[r] = "calling" => /\ CallOf(r) = ConfigOf(Turn(r))
                                 /\ CallOf(r) # None
<1>1. pc[r] = "calling" => Turn(r) \in Models /\ ProviderOf[Turn(r)] \in Configured
  BY TurnEligible
<1>2. pc[r] = "calling" => ConfigOf(Turn(r)) \in ConfigType(Providers)
  BY <1>1, CircuitOfConfigured
<1>3. QED
  BY <1>2, NoneAssumption DEF CallOf

LEMMA ShadowCall ==
  ASSUME Inv, NEW s \in ShadowIds
  PROVE  /\ shadow[s] # "calling" => CallOf(s) = None
         /\ shadow[s] = "calling" => /\ CallOf(s) = ConfigOf(s[2])
                                     /\ CallOf(s) # None
<1>1. shadow[s] = "calling" => s[2] \in Models /\ ProviderOf[s[2]] \in Configured
  BY DEF Inv, CallsConfigured, ShadowIds
<1>2. shadow[s] = "calling" => ConfigOf(s[2]) \in ConfigType(Providers)
  BY <1>1, CircuitOfConfigured
<1>3. QED
  BY <1>2, NoneAssumption, CallerKinds DEF CallOf

(* A step of one handler is a step of its call only.                       *)
LEMMA HandlerCallsAlone ==
  ASSUME Inv, OnceInv, NEW r \in Requests, Route(r) \/ Handle(r)
  PROVE  \A c \in Callers \ {r} : SameCall(c)
<1>1. ASSUME NEW q \in Requests \ {r} PROVE SameCall(q)
  BY <1>1, OthersUntouched, UntouchedCall
<1>2. ASSUME NEW s \in ShadowIds PROVE SameCall(s)
  <2>1. CASE LaunchShadow(r)
    <3>1. \/ shadow' = shadow
          \/ shadow' = [shadow EXCEPT ![<<r, Candidates[at[r]]>>] = "started"]
      BY <2>1 DEF LaunchShadow
    <3>2. shadow'[s] = "calling" <=> shadow[s] = "calling"
      BY <2>1, <3>1, LaunchIsFirst DEF Inv, TypeOK
    <3>3. QED
      BY <3>2, SameShadowCall
  <2>2. CASE ~LaunchShadow(r)
    <3>1. shadow' = shadow
      BY <2>2, FinishStep
         DEF Handle, Route, SaveInitial, RejectUnaudited, PassOver, Unconfigured,
             CircuitOpen, Send, Answered, FailedRetryably, Refused, PassShadow,
             AllFailed, Stream, Buffer, UnreadableAnswer, Finish, shadowVars
    <3>2. QED
      BY <3>1, SameShadowCall
  <2>3. QED
    BY <2>1, <2>2
<1>3. QED
  BY <1>1, <1>2 DEF Callers

(* A step of one goroutine is a step of its call only.                     *)
LEMMA ShadowCallsAlone ==
  ASSUME Inv, NEW s \in ShadowIds, RunShadow(s)
  PROVE  \A c \in Callers \ {s} : SameCall(c)
<1>1. ASSUME NEW r \in Requests PROVE SameCall(r)
  <2>1. Untouched(r)
    BY DEF RunShadow, ShadowBlocked, ShadowSend, ShadowReturn, ShadowSave,
           handlerVars, Untouched
  <2>2. QED
    BY <2>1, UntouchedCall
<1>2. ASSUME NEW t \in ShadowIds \ {s} PROVE SameCall(t)
  <2>1. shadow'[t] = shadow[t]
    BY DEF RunShadow, ShadowBlocked, ShadowSend, ShadowReturn, ShadowSave, Inv, TypeOK
  <2>2. QED
    BY <2>1, SameShadowCall
<1>3. QED
  BY <1>1, <1>2 DEF Callers

(* If only caller c changed its call, callsNow changed at c.               *)
LEMMA CallsChange ==
  ASSUME NEW c \in Callers, NEW call, CallOf(c)' = call,
         \A d \in Callers \ {c} : SameCall(d)
  PROVE  callsNow' = [callsNow EXCEPT ![c] = call]
BY DEF callsNow, SameCall

LEMMA CallsStay ==
  ASSUME \A c \in Callers : SameCall(c)
  PROVE  callsNow' = callsNow
BY DEF callsNow, SameCall

(* client.go:62-110.  Do, called by a handler or by a goroutine.           *)
LEMMA SendIsSend ==
  ASSUME Inv, OnceInv, NEW r \in Requests, Send(r)
  PROVE  Client!Next
<1> DEFINE cfg == ConfigOf(Turn(r))
<1>1. /\ Turn(r) \in Models /\ ProviderOf[Turn(r)] \in Configured
      /\ Available(circuits[cfg.provider])
      /\ circuits' = [circuits EXCEPT ![cfg.provider] = Refreshed(@)]
      /\ pc[r] # "calling" /\ pc'[r] = "calling"
  BY TurnEligible DEF Send, InLoop, CircuitOf, Inv, TypeOK
<1>2. cfg \in {Config[p] : p \in Configured}
  BY <1>1 DEF ConfigOf
<1>3. Turn(r)' = Turn(r)
  BY DEF Send, Attempted, Turn, Inv, TypeOK, DecisionType
<1>4. CallOf(r) = None
  BY <1>1, RequestCall
<1>5. CallOf(r)' = cfg
  BY <1>1, <1>3 DEF CallOf, ConfigOf
<1> HIDE DEF cfg
<1>6. r \in Callers
  BY DEF Callers
<1>7. callsNow' = [callsNow EXCEPT ![r] = cfg]
  BY <1>5, <1>6, HandlerCallsAlone, CallsChange DEF Handle
<1>8. callsNow[r] = None
  BY <1>4, <1>6 DEF callsNow
<1>9. Client!Admit(r, cfg)
  BY <1>1, <1>7, <1>8
     DEF Client!Admit, Client!Available, Client!Refreshed, Client!NotOpen,
         Client!Fresh, Available, Refreshed, NotOpen, Fresh, callsNow, Callers
<1>10. QED
  BY <1>2, <1>6, <1>9 DEF Client!Next, Callers

LEMMA ShadowSendIsSend ==
  ASSUME Inv, NEW s \in ShadowIds, ShadowSend(s)
  PROVE  Client!Next
<1> DEFINE cfg == ConfigOf(s[2])
<1>1. /\ s[2] \in Models /\ ProviderOf[s[2]] \in Configured
      /\ Available(circuits[cfg.provider])
      /\ circuits' = [circuits EXCEPT ![cfg.provider] = Refreshed(@)]
      /\ shadow[s] = "started" /\ shadow'[s] = "calling"
  BY DEF ShadowSend, CircuitOf, Inv, TypeOK, CallsConfigured, ShadowIds
<1>2. cfg \in {Config[p] : p \in Configured}
  BY <1>1 DEF ConfigOf
<1>3. CallOf(s) = None
  BY <1>1, ShadowCall
<1>4. CallOf(s)' = cfg
  BY <1>1, CallerKinds DEF CallOf, ConfigOf
<1> HIDE DEF cfg
<1>5. s \in Callers
  BY DEF Callers
<1>6. callsNow' = [callsNow EXCEPT ![s] = cfg]
  BY <1>4, <1>5, ShadowCallsAlone, CallsChange DEF RunShadow
<1>7. callsNow[s] = None
  BY <1>3, <1>5 DEF callsNow
<1>8. Client!Admit(s, cfg)
  BY <1>1, <1>6, <1>7
     DEF Client!Admit, Client!Available, Client!Refreshed, Client!NotOpen,
         Client!Fresh, Available, Refreshed, NotOpen, Fresh, callsNow, Callers
<1>9. QED
  BY <1>2, <1>5, <1>8 DEF Client!Next, Callers

(* client.go:110-148.  The three ends of a call, of either kind.           *)
LEMMA CallEnds ==
  ASSUME NEW c \in Callers, NEW cfg, CallOf(c) = cfg, cfg # None,
         CallOf(c)' = None,
         \A d \in Callers \ {c} : SameCall(d),
         \/ circuits' = [circuits EXCEPT ![cfg.provider] = Fresh]
         \/ circuits' = [circuits EXCEPT ![cfg.provider] = Failed(@, cfg)]
         \/ UNCHANGED circuits
  PROVE  Client!Next
<1>1. callsNow' = [callsNow EXCEPT ![c] = None] /\ callsNow[c] = cfg
  BY CallsChange DEF callsNow
<1>2. CASE circuits' = [circuits EXCEPT ![cfg.provider] = Fresh]
  <2>1. Client!Succeed(c)
    BY <1>1, <1>2 DEF Client!Succeed, Client!Fresh, Client!NotOpen, Fresh, NotOpen,
                      callsNow, Callers
  <2>2. QED
    BY <2>1 DEF Client!Next, Callers
<1>3. CASE circuits' = [circuits EXCEPT ![cfg.provider] = Failed(@, cfg)]
  <2>1. Client!Fail(c)
    BY <1>1, <1>3 DEF Client!Fail, Client!Failed, Client!Limit, Client!OpenTicks,
                      Client!DefaultFailures, Client!DefaultOpenTicks, Failed,
                      Limit, OpenTicks, DefaultFailures, DefaultOpenTicks,
                      callsNow, Callers
  <2>2. QED
    BY <2>1 DEF Client!Next, Callers
<1>4. CASE UNCHANGED circuits
  <2>1. Client!Refuse(c)
    BY <1>1, <1>4 DEF Client!Refuse, callsNow, Callers
  <2>2. QED
    BY <2>1 DEF Client!Next, Callers
<1>5. QED
  BY <1>2, <1>3, <1>4

LEMMA EndIsEnd ==
  ASSUME Inv, OnceInv, NEW r \in Requests,
         Answered(r) \/ FailedRetryably(r) \/ Refused(r)
  PROVE  Client!Next
<1>1. /\ pc[r] = "calling" /\ pc'[r] # "calling"
      /\ \/ circuits' = [circuits EXCEPT ![ConfigOf(Turn(r)).provider] = Fresh]
         \/ circuits' = [circuits EXCEPT ![ConfigOf(Turn(r)).provider] =
                           Failed(@, ConfigOf(Turn(r)))]
         \/ UNCHANGED circuits
  BY DEF Answered, FailedRetryably, Refused, Inv, TypeOK
<1>2. CallOf(r) = ConfigOf(Turn(r)) /\ CallOf(r) # None
  BY <1>1, RequestCall
<1>3. CallOf(r)' = None
  BY <1>1 DEF CallOf
<1>4. r \in Callers
  BY DEF Callers
<1>5. \A c \in Callers \ {r} : SameCall(c)
  BY HandlerCallsAlone DEF Handle
<1>6. QED
  BY <1>1, <1>2, <1>3, <1>4, <1>5, CallEnds

LEMMA ShadowEndIsEnd ==
  ASSUME Inv, NEW s \in ShadowIds, ShadowReturn(s)
  PROVE  Client!Next
<1>1. /\ shadow[s] = "calling" /\ shadow'[s] # "calling"
      /\ \/ circuits' = [circuits EXCEPT ![ConfigOf(s[2]).provider] = Fresh]
         \/ circuits' = [circuits EXCEPT ![ConfigOf(s[2]).provider] =
                           Failed(@, ConfigOf(s[2]))]
         \/ UNCHANGED circuits
  BY DEF ShadowReturn, Inv, TypeOK
<1>2. CallOf(s) = ConfigOf(s[2]) /\ CallOf(s) # None
  BY <1>1, ShadowCall
<1>3. CallOf(s)' = None
  BY <1>1, CallerKinds DEF CallOf
<1>4. s \in Callers
  BY DEF Callers
<1>5. \A c \in Callers \ {s} : SameCall(c)
  BY ShadowCallsAlone DEF RunShadow
<1>6. QED
  BY <1>1, <1>2, <1>3, <1>4, <1>5, CallEnds

(* client.go:49-61.  Routing asks for the providers of what it considers.  *)
LEMMA RouteIsProbe ==
  ASSUME Inv, OnceInv, NEW r \in Requests, Route(r)
  PROVE  Client!Next
<1> DEFINE P == {p \in Providers : \E m \in Considered : ProviderOf[m] = p}
<1>1. circuits' = [p \in Providers |->
                     IF p \in P THEN Refreshed(circuits[p]) ELSE circuits[p]]
  BY DEF Route
<1>2. SameCall(r)
  BY DEF Route, SameCall, CallOf, Inv, TypeOK
<1>3. callsNow' = callsNow
  BY <1>2, HandlerCallsAlone, CallsStay
<1>4. P \in SUBSET Providers
  OBVIOUS
<1> HIDE DEF P
<1>5. Client!Probe(P)
  BY <1>1, <1>3 DEF Client!Probe, Client!Refreshed, Client!Fresh, Client!NotOpen,
                    Refreshed, Fresh, NotOpen, callsNow, Callers
<1>6. QED
  BY <1>4, <1>5 DEF Client!Next

LEMMA TimeIsTime ==
  ASSUME Inv, Tick \/ Restart
  PROVE  Client!Next
<1>1. CASE Tick
  <2>1. \A c \in Callers : SameCall(c)
    BY <1>1 DEF Tick, handlerVars, shadowVars, SameCall, CallOf, ConfigOf, Turn
  <2>2. callsNow' = callsNow
    BY <2>1, CallsStay
  <2>3. Client!Tick
    BY <1>1, <2>2 DEF Tick, Client!Tick, Client!Elapsed, Client!IsOpen, Elapsed,
                      IsOpen, callsNow, Callers
  <2>4. QED
    BY <2>3 DEF Client!Next
<1>2. CASE Restart
  <2>1. \A c \in Callers : CallOf(c)' = None
    BY <1>2, CallerKinds DEF Restart, CallOf, Ended, Callers
  <2>2. callsNow' = [c \in Callers |-> None]
    BY <2>1 DEF callsNow
  <2>3. Client!Restart
    BY <1>2, <2>2 DEF Restart, Client!Restart, Client!Fresh, Client!NotOpen, Fresh,
                      NotOpen, callsNow, Callers
  <2>4. QED
    BY <2>3 DEF Client!Next
<1>3. QED
  BY <1>1, <1>2

(* The steps between the calls touch no circuit and no call.               *)
LEMMA OtherStepsCallNothing ==
  ASSUME Inv, OnceInv,
         \/ \E r \in Requests :
              \/ SaveInitial(r) \/ RejectUnaudited(r)
              \/ PassOver(r) \/ Unconfigured(r) \/ CircuitOpen(r)
              \/ AllFailed(r) \/ Stream(r) \/ Buffer(r) \/ UnreadableAnswer(r)
              \/ PassShadow(r) \/ LaunchShadow(r)
         \/ \E s \in ShadowIds : ShadowBlocked(s) \/ ShadowSave(s)
         \/ NewDay
         \/ UNCHANGED vars
  PROVE  UNCHANGED Client!vars
<1>1. ASSUME NEW r \in Requests,
             \/ SaveInitial(r) \/ RejectUnaudited(r)
             \/ PassOver(r) \/ Unconfigured(r) \/ CircuitOpen(r)
             \/ AllFailed(r) \/ Stream(r) \/ Buffer(r) \/ UnreadableAnswer(r)
             \/ PassShadow(r) \/ LaunchShadow(r)
      PROVE  circuits' = circuits /\ \A c \in Callers : SameCall(c)
  <2>1. circuits' = circuits /\ pc[r] # "calling" /\ pc'[r] # "calling"
    BY <1>1, FinishStep
       DEF SaveInitial, RejectUnaudited, PassOver, Unconfigured, CircuitOpen,
           PassShadow, LaunchShadow, Finish, InLoop, Launching, Inv, TypeOK
  <2>2. SameCall(r)
    BY <2>1 DEF SameCall, CallOf
  <2>3. QED
    BY <1>1, <2>1, <2>2, HandlerCallsAlone DEF Handle
<1>2. ASSUME NEW s \in ShadowIds, ShadowBlocked(s) \/ ShadowSave(s)
      PROVE  circuits' = circuits /\ \A c \in Callers : SameCall(c)
  <2>1. /\ circuits' = circuits
        /\ shadow[s] # "calling" /\ shadow'[s] # "calling"
    BY <1>2 DEF ShadowBlocked, ShadowSave, Inv, TypeOK
  <2>2. SameCall(s)
    BY <2>1, SameShadowCall
  <2>3. QED
    BY <1>2, <2>1, <2>2, ShadowCallsAlone DEF RunShadow
<1>3. ASSUME NewDay \/ UNCHANGED vars
      PROVE  circuits' = circuits /\ \A c \in Callers : SameCall(c)
  BY <1>3 DEF NewDay, vars, handlerVars, shadowVars, SameCall, CallOf, ConfigOf, Turn
<1>4. circuits' = circuits /\ callsNow' = callsNow
  BY <1>1, <1>2, <1>3, CallsStay
<1>5. QED
  BY <1>4 DEF Client!vars, callsNow, Callers

LEMMA ClientInit == Init => Client!Init
BY CallerKinds
   DEF Init, Client!Init, CallOf, Client!Fresh, Client!NotOpen, Fresh, NotOpen

LEMMA ClientNext ==
  Inv /\ OnceInv /\ [Next]_vars => [Client!Next]_(Client!vars)
<1> SUFFICES ASSUME Inv, OnceInv, [Next]_vars
             PROVE  Client!Next \/ UNCHANGED Client!vars
  OBVIOUS
<1>1. ASSUME NEW r \in Requests, Route(r) \/ Handle(r)
      PROVE  Client!Next \/ UNCHANGED Client!vars
  BY <1>1, RouteIsProbe, SendIsSend, EndIsEnd, OtherStepsCallNothing DEF Handle
<1>2. ASSUME NEW s \in ShadowIds, RunShadow(s)
      PROVE  Client!Next \/ UNCHANGED Client!vars
  BY <1>2, ShadowSendIsSend, ShadowEndIsEnd, OtherStepsCallNothing DEF RunShadow
<1>3. CASE Tick \/ NewDay \/ Restart \/ UNCHANGED vars
  BY <1>3, TimeIsTime, OtherStepsCallNothing
<1>4. QED
  BY <1>1, <1>2, <1>3 DEF Next

(* client.go:40-176; server.go:119-135, 333-381.  For any number of        *)
(* handlers and goroutines, whatever they interleave with, the request     *)
(* path uses the provider client as the client's own specification says,   *)
(* so that what is proved of the client holds of the request path.         *)
THEOREM ClientImplemented == Spec => ClientSpec
<1>1. Init => Client!Init
  BY ClientInit
<1>2. Inv /\ OnceInv /\ [Next]_vars => [Client!Next]_(Client!vars)
  BY ClientNext
<1>3. Spec => Client!Spec
  BY <1>1, <1>2, InvHolds, OnceInvHolds, PTL DEF Spec, Client!Spec
<1>4. QED
  BY <1>3 DEF ClientSpec
=============================================================================
