--------------------------- MODULE CircuitProofs ---------------------------
(* What the operators of Circuit return, for every circuit and every       *)
(* configuration.                                                          *)
EXTENDS Circuit, TLAPS

(* client.go:159-167.  Whatever a tenant configures, zero and negative     *)
(* numbers included, a limit of at least one failure and a pause of at     *)
(* least one tick are in force.                                            *)
LEMMA SettingsPositive ==
  ASSUME NEW P, NEW cfg \in ConfigType(P)
  PROVE  /\ cfg.provider \in P
         /\ Limit(cfg) \in Nat \ {0}
         /\ OpenTicks(cfg) \in Nat \ {0}
BY DEF ConfigType, Limit, OpenTicks, DefaultFailures, DefaultOpenTicks

(* client.go:49-61, 150-176.  The circuit operations map circuits to       *)
(* circuits.                                                               *)
LEMMA CircuitOperations ==
  ASSUME NEW c \in CircuitType
  PROVE  /\ Fresh \in CircuitType
         /\ Refreshed(c) \in CircuitType
         /\ Elapsed(c) \in CircuitType
         /\ \A P : \A cfg \in ConfigType(P) : Failed(c, cfg) \in CircuitType
<1>1. Fresh \in CircuitType
  BY DEF Fresh, CircuitType, NotOpen
<1>2. Refreshed(c) \in CircuitType
  BY <1>1 DEF Refreshed
<1>3. Elapsed(c) \in CircuitType
  BY DEF Elapsed, IsOpen, CircuitType, NotOpen
<1>4. ASSUME NEW P, NEW cfg \in ConfigType(P)
      PROVE  Failed(c, cfg) \in CircuitType
  BY SettingsPositive DEF Failed, CircuitType
<1>5. QED
  BY <1>1, <1>2, <1>3, <1>4

(* client.go:49-61.  A circuit that lets a call through is closed after    *)
(* having been asked, and one that does not is left as it was.             *)
LEMMA AskedCircuit ==
  ASSUME NEW c \in CircuitType
  PROVE  /\ Available(c) => Refreshed(c).timer = NotOpen
         /\ Refreshed(c).failures <= c.failures
         /\ ~Available(c) => IsOpen(c) /\ Refreshed(c) = c
         /\ IsOpen(c) => ~Available(c)
BY DEF Available, Refreshed, IsOpen, CircuitType, Fresh, NotOpen
=============================================================================
