------------------------------ MODULE Circuit ------------------------------
(***************************************************************************)
(* The circuit breaker record that provider.Client keeps for one provider  *)
(* (internal/provider/client.go), and the three functions that read or     *)
(* write it under Client.mu.  A circuit is [failures, timer]:              *)
(*                                                                         *)
(*   timer = NotOpen   openUntil.IsZero()                                  *)
(*   timer = k > 0     openUntil lies k ticks ahead of time.Now()          *)
(*   timer = 0         time.Now().After(openUntil), not yet noticed        *)
(*                                                                         *)
(* A relative timer needs no bound on the clock.  A provider that has no   *)
(* entry in Client.circuits behaves exactly like one whose entry is Fresh. *)
(***************************************************************************)
EXTENDS Integers

NotOpen == -1

Fresh == [failures |-> 0, timer |-> NotOpen]

IsOpen(c) == c.timer > 0

(* Available: an expired circuit is closed, and its count forgotten, by    *)
(* whoever asks first.                                                     *)
Refreshed(c) == IF c.timer = 0 THEN Fresh ELSE c

Available(c) == Refreshed(c).timer = NotOpen

(* A non-positive setting means the client's own default.                  *)
DefaultFailures == 3
DefaultOpenTicks == 2

Limit(cfg) ==
  IF cfg.circuitFailures <= 0 THEN DefaultFailures ELSE cfg.circuitFailures

OpenTicks(cfg) ==
  IF cfg.circuitOpenTicks <= 0 THEN DefaultOpenTicks ELSE cfg.circuitOpenTicks

(* Mutated: opens one failure late. *)
FailedOneLate(c, cfg) ==
  LET n == c.failures + 1
  IN  [failures |-> n,
       timer    |-> IF n > Limit(cfg) THEN OpenTicks(cfg) ELSE c.timer]

(* recordFailure: every failure counts, also one that finds the circuit    *)
(* open already or expired and not yet noticed.                            *)
Failed(c, cfg) ==
  LET n == c.failures + 1
  IN  [failures |-> n,
       timer    |-> IF n >= Limit(cfg) THEN OpenTicks(cfg) ELSE c.timer]

(* One tick of the clock.                                                  *)
Elapsed(c) == IF IsOpen(c) THEN [c EXCEPT !.timer = @ - 1] ELSE c

CircuitType == [failures : Nat, timer : Nat \cup {NotOpen}]

ConfigType(Providers) ==
  [provider : Providers, circuitFailures : Int, circuitOpenTicks : Int]
=============================================================================
