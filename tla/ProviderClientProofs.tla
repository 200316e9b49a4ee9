------------------------ MODULE ProviderClientProofs ------------------------
(***************************************************************************)
(* Proofs about ProviderClient, for any finite set of concurrent calls,    *)
(* any providers and any configurations of any tenants.                    *)
(***************************************************************************)
EXTENDS ProviderClient, CircuitProofs, FiniteSetTheorems

(* A call under way has a configuration.                                   *)
LEMMA CallConfigured ==
  ASSUME TypeOK, NEW c \in Calls, calls[c] # Idle
  PROVE  /\ calls[c] \in Configs
         /\ calls[c] \in ConfigType(Providers)
         /\ calls[c].provider \in Providers
         /\ circuits[calls[c].provider] \in CircuitType
BY ClientAssumption, SettingsPositive DEF TypeOK

(* The calls out to a provider are finitely many, and no more than there   *)
(* are calls.                                                              *)
LEMMA InFlightFinite ==
  ASSUME NEW p
  PROVE  /\ IsFiniteSet(InFlight(p))
         /\ Cardinality(InFlight(p)) \in Nat
         /\ Cardinality(Calls) \in Nat
         /\ Cardinality(InFlight(p)) <= Cardinality(Calls)
<1>1. InFlight(p) \subseteq Calls /\ IsFiniteSet(Calls)
  BY ClientAssumption DEF InFlight
<1>2. QED
  BY <1>1, FS_Subset, FS_CardinalityType

LEMMA InFlightFinitePrimed ==
  ASSUME NEW p
  PROVE  /\ IsFiniteSet(InFlight(p)')
         /\ Cardinality(InFlight(p)') \in Nat
         /\ Cardinality(InFlight(p)') <= Cardinality(Calls)
<1>1. InFlight(p)' \subseteq Calls /\ IsFiniteSet(Calls)
  BY ClientAssumption DEF InFlight
<1>2. QED
  BY <1>1, FS_Subset, FS_CardinalityType

(* A call that ends leaves its own provider's set and no other.            *)
LEMMA CallLeaves ==
  ASSUME TypeOK, NEW c \in Calls, calls[c] # Idle,
         calls' = [calls EXCEPT ![c] = Idle],
         NEW p \in Providers
  PROVE  /\ p # calls[c].provider => InFlight(p)' = InFlight(p)
         /\ p = calls[c].provider =>
              /\ InFlight(p) # {}
              /\ Cardinality(InFlight(p)') = Cardinality(InFlight(p)) - 1
<1>1. p # calls[c].provider => InFlight(p)' = InFlight(p)
  BY DEF InFlight, TypeOK
<1>2. p = calls[c].provider => /\ c \in InFlight(p)
                               /\ InFlight(p)' = InFlight(p) \ {c}
  BY DEF InFlight, TypeOK
<1>3. QED
  BY <1>1, <1>2, InFlightFinite, FS_RemoveElement
-----------------------------------------------------------------------------
LEMMA NextType == TypeOK /\ [Next]_vars => TypeOK'
<1> SUFFICES ASSUME TypeOK, [Next]_vars PROVE TypeOK'
  OBVIOUS
<1>0. Fresh \in CircuitType
  BY DEF Fresh, CircuitType, NotOpen
<1>1. ASSUME NEW P \in SUBSET Providers, Probe(P) PROVE TypeOK'
  BY <1>1, CircuitOperations DEF TypeOK, Probe
<1>2. ASSUME NEW c \in Calls, NEW cfg \in Configs, Admit(c, cfg) PROVE TypeOK'
  <2>1. cfg.provider \in Providers
    BY ClientAssumption, SettingsPositive
  <2>2. Refreshed(circuits[cfg.provider]) \in CircuitType
    BY <2>1, CircuitOperations DEF TypeOK
  <2>3. QED
    BY <1>2, <2>1, <2>2 DEF TypeOK, Admit
<1>3. ASSUME NEW c \in Calls, Succeed(c) \/ Fail(c) \/ Refuse(c) PROVE TypeOK'
  <2>1. /\ calls[c] # Idle
        /\ calls' = [calls EXCEPT ![c] = Idle]
        /\ \/ circuits' = [circuits EXCEPT ![calls[c].provider] = Fresh]
           \/ circuits' = [circuits EXCEPT ![calls[c].provider] =
                             Failed(@, calls[c])]
           \/ circuits' = circuits
    BY <1>3 DEF Succeed, Fail, Refuse
  <2>2. Failed(circuits[calls[c].provider], calls[c]) \in CircuitType
    BY <2>1, CallConfigured, CircuitOperations
  <2>3. QED
    BY <1>0, <2>1, <2>2, CallConfigured DEF TypeOK
<1>4. CASE Tick
  BY <1>4, CircuitOperations DEF TypeOK, Tick
<1>5. CASE Restart
  BY <1>0, <1>5 DEF TypeOK, Restart
<1>6. CASE UNCHANGED vars
  BY <1>6 DEF TypeOK, vars
<1>7. QED
  BY <1>1, <1>2, <1>3, <1>4, <1>5, <1>6 DEF Next

(* client.go.  Types, for any number of concurrent calls.                  *)
THEOREM ClientTypeCorrect == Spec => []TypeOK
<1>1. Init => TypeOK
  BY DEF Init, TypeOK, Fresh, CircuitType, NotOpen
<1>2. QED
  BY <1>1, NextType, PTL DEF Spec

-----------------------------------------------------------------------------
(***************************************************************************)
(* When circuits open, and what may still come after.  The two properties  *)
(* are proved together, provider by provider: a call goes out only through *)
(* a closed circuit, which OpenJustified says is below some limit, and     *)
(* from then on every call out can raise the count by one at most, when it *)
(* stops being out.                                                        *)
(***************************************************************************)

Justified(p) ==
  /\ circuits[p].timer # NotOpen =>
       \E cfg \in Users(p) : circuits[p].failures >= Limit(cfg)
  /\ circuits[p].timer = NotOpen /\ circuits[p].failures > 0 =>
       \E cfg \in Users(p) : circuits[p].failures < Limit(cfg)

Bounded(p) ==
  circuits[p].failures > 0 \/ InFlight(p) # {} =>
    \E cfg \in Users(p) :
      circuits[p].failures + Cardinality(InFlight(p)) <
        Limit(cfg) + Cardinality(Calls)

LimitsInv == \A p \in Providers : Justified(p) /\ Bounded(p)

LEMMA LimitsMean == LimitsInv <=> OpenJustified /\ LateFailuresBounded
BY DEF LimitsInv, Justified, Bounded, OpenJustified, LateFailuresBounded

(* A circuit that is asked, that time passes for, or that is forgotten.    *)
LEMMA CircuitEases ==
  ASSUME TypeOK, NEW p \in Providers, Justified(p), Bounded(p),
         InFlight(p)' \subseteq InFlight(p),
         circuits'[p] \in {circuits[p], Refreshed(circuits[p]),
                          Elapsed(circuits[p]), Fresh}
  PROVE  Justified(p)' /\ Bounded(p)'
<1>1. circuits[p] \in CircuitType
  BY DEF TypeOK
<1>2. /\ circuits'[p].failures \in Nat
      /\ circuits'[p].failures <= circuits[p].failures
      /\ circuits[p].failures \in Nat
      /\ \/ circuits'[p].failures = 0 /\ circuits'[p].timer = NotOpen
         \/ /\ circuits'[p].failures = circuits[p].failures
            /\ circuits'[p].timer = NotOpen <=> circuits[p].timer = NotOpen
  BY <1>1 DEF Refreshed, Elapsed, IsOpen, Fresh, CircuitType, NotOpen
<1>3. Users(p)' = Users(p)
  BY DEF Users
<1>4. Justified(p)'
  BY <1>2, <1>3 DEF Justified
<1>5. /\ Cardinality(InFlight(p)') <= Cardinality(InFlight(p))
      /\ Cardinality(InFlight(p)') \in Nat
      /\ Cardinality(InFlight(p)) \in Nat
      /\ Cardinality(Calls) \in Nat
  BY InFlightFinite, InFlightFinitePrimed, FS_Subset
<1>6. \A cfg \in Users(p) : Limit(cfg) \in Nat
  BY ClientAssumption, SettingsPositive DEF Users
<1>7. Bounded(p)'
  BY <1>2, <1>3, <1>5, <1>6 DEF Bounded
<1>8. QED
  BY <1>4, <1>7

(* A call goes out.                                                        *)
LEMMA AdmitLimits ==
  ASSUME TypeOK, LimitsInv, NEW c \in Calls, NEW cfg \in Configs,
         Admit(c, cfg), NEW p \in Providers
  PROVE  Justified(p)' /\ Bounded(p)'
<1>1. /\ cfg.provider \in Providers /\ Limit(cfg) \in Nat \ {0}
      /\ Justified(p) /\ Bounded(p)
  BY ClientAssumption, SettingsPositive DEF LimitsInv
<1>2. CASE p # cfg.provider
  <2>1. circuits'[p] = circuits[p]
    BY <1>2 DEF Admit, TypeOK
  <2>2. InFlight(p)' \subseteq InFlight(p)
    BY <1>2 DEF Admit, TypeOK, InFlight
  <2>3. QED
    BY <1>1, <2>1, <2>2, CircuitEases
<1>3. CASE p = cfg.provider
  <2>1. /\ circuits'[p] = Refreshed(circuits[p])
        /\ circuits[p] \in CircuitType
        /\ circuits'[p].timer = NotOpen
        /\ circuits'[p].failures \in Nat
    <3>1. /\ circuits'[p] = Refreshed(circuits[p])
          /\ circuits[p] \in CircuitType
          /\ Available(circuits[p])
      BY <1>1, <1>3 DEF Admit, TypeOK
    <3>2. QED
      BY <3>1, AskedCircuit, CircuitOperations DEF CircuitType
  <2>2. \E u \in Users(p) : circuits'[p].failures < Limit(u)
    <3>1. CASE circuits'[p].failures = 0
      BY <1>1, <1>3, <3>1 DEF Users
    <3>2. CASE circuits'[p].failures > 0
      BY <1>1, <2>1, <3>2 DEF Refreshed, Fresh, Justified
    <3>3. QED
      BY <2>1, <3>1, <3>2
  <2>3. Users(p)' = Users(p)
    BY DEF Users
  <2>4. Justified(p)'
    BY <2>1, <2>2, <2>3 DEF Justified
  <2>5. /\ Cardinality(InFlight(p)') <= Cardinality(Calls)
        /\ Cardinality(InFlight(p)') \in Nat
        /\ Cardinality(Calls) \in Nat
    BY InFlightFinite, InFlightFinitePrimed
  <2>6. \A u \in Users(p) : Limit(u) \in Nat
    BY ClientAssumption, SettingsPositive DEF Users
  <2>7. Bounded(p)'
    BY <2>1, <2>2, <2>3, <2>5, <2>6 DEF Bounded
  <2>8. QED
    BY <2>4, <2>7
<1>4. QED
  BY <1>2, <1>3

(* A call ends: with a failure the count rises by the one call that left.  *)
LEMMA EndLimits ==
  ASSUME TypeOK, LimitsInv, NEW c \in Calls,
         Succeed(c) \/ Fail(c) \/ Refuse(c), NEW p \in Providers
  PROVE  Justified(p)' /\ Bounded(p)'
<1>1. /\ Justified(p) /\ Bounded(p)
      /\ calls[c] # Idle
      /\ calls' = [calls EXCEPT ![c] = Idle]
      /\ circuits[p] \in CircuitType
  BY DEF LimitsInv, Succeed, Fail, Refuse, TypeOK
<1>2. InFlight(p)' \subseteq InFlight(p)
  BY <1>1 DEF InFlight, TypeOK
<1>3. CASE Succeed(c) \/ Refuse(c) \/ p # calls[c].provider
  <2>1. circuits'[p] \in {circuits[p], Fresh}
    BY <1>3, CallConfigured DEF Succeed, Fail, Refuse, TypeOK
  <2>2. QED
    BY <1>1, <1>2, <2>1, CircuitEases
<1>4. CASE Fail(c) /\ p = calls[c].provider
  <2> DEFINE cfg == calls[c]
  <2>1. /\ cfg \in Users(p)
        /\ Limit(cfg) \in Nat \ {0} /\ OpenTicks(cfg) \in Nat \ {0}
    BY <1>1, <1>4, CallConfigured, SettingsPositive DEF Users
  <2>2. circuits'[p] = Failed(circuits[p], cfg)
    BY <1>1, <1>4 DEF Fail, TypeOK
  <2>3. /\ circuits'[p].failures = circuits[p].failures + 1
        /\ circuits[p].failures \in Nat
        /\ circuits'[p].timer =
             IF circuits[p].failures + 1 >= Limit(cfg) THEN OpenTicks(cfg)
             ELSE circuits[p].timer
    BY <1>1, <2>2 DEF Failed, CircuitType
  <2>4. Users(p)' = Users(p) /\ \A u \in Users(p) : Limit(u) \in Nat
    BY ClientAssumption, SettingsPositive DEF Users
  <2> HIDE DEF cfg
  <2>5. Justified(p)'
    <3>1. CASE circuits[p].failures + 1 >= Limit(cfg)
      BY <2>1, <2>3, <2>4, <3>1 DEF Justified, NotOpen
    <3>2. CASE circuits[p].failures + 1 < Limit(cfg)
      <4>1. /\ circuits'[p].timer = circuits[p].timer
            /\ circuits'[p].failures < Limit(cfg)
        BY <2>1, <2>3, <3>2
      <4>2. circuits[p].timer # NotOpen =>
              \E u \in Users(p) : circuits'[p].failures >= Limit(u)
        BY <1>1, <2>3, <2>4 DEF Justified
      <4>3. QED
        BY <2>1, <2>4, <4>1, <4>2 DEF Justified
    <3>3. QED
      BY <2>1, <2>3, <3>1, <3>2
  <2>6. /\ InFlight(p) # {}
        /\ Cardinality(InFlight(p)') = Cardinality(InFlight(p)) - 1
    BY <1>1, <1>4, CallLeaves
  <2>7. Cardinality(InFlight(p)) \in Nat /\ Cardinality(Calls) \in Nat
    BY InFlightFinite
  <2>8. Bounded(p)'
    BY <1>1, <2>3, <2>4, <2>6, <2>7 DEF Bounded
  <2>9. QED
    BY <2>5, <2>8
<1>5. QED
  BY <1>3, <1>4

LEMMA NextLimits == TypeOK /\ LimitsInv /\ [Next]_vars => LimitsInv'
<1> SUFFICES ASSUME TypeOK, LimitsInv, [Next]_vars, NEW p \in Providers
             PROVE  Justified(p)' /\ Bounded(p)'
  BY DEF LimitsInv
<1>1. Justified(p) /\ Bounded(p)
  BY DEF LimitsInv
<1>2. ASSUME NEW c \in Calls, NEW cfg \in Configs, Admit(c, cfg)
      PROVE  Justified(p)' /\ Bounded(p)'
  BY <1>2, AdmitLimits
<1>3. ASSUME NEW c \in Calls, Succeed(c) \/ Fail(c) \/ Refuse(c)
      PROVE  Justified(p)' /\ Bounded(p)'
  BY <1>3, EndLimits
<1>4. CASE \/ \E P \in SUBSET Providers : Probe(P)
           \/ Tick \/ Restart \/ UNCHANGED vars
  <2>1. circuits'[p] \in {circuits[p], Refreshed(circuits[p]),
                         Elapsed(circuits[p]), Fresh}
    BY <1>4 DEF Probe, Tick, Restart, vars
  <2>2. InFlight(p)' \subseteq InFlight(p)
    BY <1>4 DEF Probe, Tick, Restart, vars, InFlight
  <2>3. QED
    BY <1>1, <2>1, <2>2, CircuitEases
<1>5. QED
  BY <1>2, <1>3, <1>4 DEF Next

(* The counts of failures keep to what the limits allow                    *)
(* (client.go:150-176).                                                    *)
THEOREM LimitsHold == Spec => []LimitsInv
<1>1. Init => LimitsInv
  BY DEF Init, LimitsInv, Justified, Bounded, InFlight, Fresh
<1>2. TypeOK /\ LimitsInv /\ [Next]_vars => LimitsInv'
  BY NextLimits
<1>3. QED
  BY <1>1, <1>2, ClientTypeCorrect, PTL DEF Spec

(* client.go:150-168.  Whatever the tenants that share a provider          *)
(* configure, its circuit opens only on as many failures as one of them    *)
(* tolerates, and stays shut only below one of their limits.               *)
THEOREM OpensOnlyJustified == Spec => []OpenJustified
<1>1. LimitsInv => OpenJustified
  BY LimitsMean
<1>2. QED
  BY <1>1, LimitsHold, PTL

(* client.go:70-72, 150-168.  For any number of concurrent calls, late     *)
(* failures raise the count beyond the limit by fewer than there are       *)
(* calls.                                                                  *)
THEOREM LateFailures == Spec => []LateFailuresBounded
<1>1. LimitsInv => LateFailuresBounded
  BY LimitsMean
<1>2. QED
  BY <1>1, LimitsHold, PTL

=============================================================================
