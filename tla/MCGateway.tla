----------------------------- MODULE MCGateway -----------------------------
(* The incumbent has a provider of its own; the candidate and the fallback *)
(* share one, so that one of them failing closes the door for the other.   *)
EXTENDS Gateway, TLC

MCProviderOf ==
  [m \in {"big", "small", "mid"} |-> IF m = "big" THEN "p" ELSE "q"]

MCConfig ==
  [p \in {"p", "q"} |->
     [provider |-> p, circuitFailures |-> IF p = "p" THEN 2 ELSE 1,
      circuitOpenTicks |-> 1]]

MCCandidates == <<"small">>
MCFallbacks == <<"mid">>
MCFits == {{"big", "small", "mid"}, {"big", "mid"}, {"mid"}}
MCCost == [m \in {"big", "small", "mid"} |->
             CASE m = "big" -> 3 [] m = "mid" -> 2 [] m = "small" -> 1]

(* Shadow runs: two requests compete for a budget that one shadow uses up; *)
(* the tenant did not configure the provider of the second candidate, so   *)
(* that a reservation for it is not followed by a call.                    *)
MCShadowProviderOf ==
  [m \in {"big", "small", "tiny"} |->
     CASE m = "big" -> "p" [] m = "tiny" -> "x" [] m = "small" -> "q"]
MCShadowCandidates == <<"small", "tiny">>
MCNoFallbacks == <<>>
MCShadowFits == {{"big", "tiny", "small"}}
MCShadowCost == [m \in {"big", "small", "tiny"} |-> IF m = "big" THEN 3 ELSE 1]

Symmetry == Permutations(Requests)
=============================================================================
