----------------------------- MODULE MCRouting -----------------------------
(* The incumbent "big" has its own provider; the candidates "mid" and      *)
(* "small" share one.  "small" reaches the quality floor on low-risk       *)
(* traffic only, and there exactly.                                        *)
EXTENDS Routing

MCCatalog ==
  [m \in {"big", "mid", "small"} |->
     CASE m = "big" ->
            [provider |-> "p", region |-> "us", privacy |-> "zdr",
             contextWindow |-> 4, supports |-> Capabilities, price |-> 5,
             latency |-> 9, prior |-> 920, enabled |-> TRUE]
       [] m = "mid" ->
            [provider |-> "q", region |-> "us", privacy |-> "zdr",
             contextWindow |-> 4, supports |-> Capabilities, price |-> 2,
             latency |-> 7, prior |-> 910, enabled |-> TRUE]
       [] m = "small" ->
            [provider |-> "q", region |-> "us", privacy |-> "standard",
             contextWindow |-> 2, supports |-> Capabilities \ {"vision"},
             price |-> 1, latency |-> 4, prior |-> 850, enabled |-> TRUE]]

Score(low, other, uncertainty) ==
  [rate |-> [k \in RiskClasses |-> IF k = "low" THEN low ELSE other],
   uncertainty |-> uncertainty, samples |-> 100]

MCSnapshot ==
  [global |-> [m \in {"big", "mid", "small"} |->
                 CASE m = "big" -> Score(920, 920, 4)
                   [] m = "mid" -> Score(910, 910, 5)
                   [] m = "small" -> Score(910, 900, 10)],
   byWorkflow |-> [w \in {} |-> <<>>]]

Base ==
  [version |-> "v1", mode |-> "canary", incumbent |-> "big",
   candidates |-> <<"mid", "small">>, fallbacks |-> <<"big">>,
   tolerance |-> 30, confidenceZ |-> 2, minimumSamples |-> 100,
   control |-> 10, canary |-> 50, exploration |-> 3, shadowBudget |-> 1,
   regions |-> {"us"}, privacy |-> "standard", maxCost |-> 0,
   maxLatency |-> 9, snapshot |-> MCSnapshot, drifted |-> FALSE]

MCPolicies ==
  { Base,
    [Base EXCEPT !.drifted = TRUE],
    [Base EXCEPT !.version = "v2", !.mode = "active", !.control = 20],
    [Base EXCEPT !.mode = "shadow", !.shadowBudget = 0],
    [Base EXCEPT !.version = "v2", !.mode = "active", !.control = 20,
                 !.exploration = 4] }

Ask(trace, risk) ==
  [trace |-> trace, workflow |-> "w", risk |-> risk, needs |-> {}, tokens |-> 1,
   region |-> None, privacy |-> "", deadline |-> 0, maxCost |-> 0]

MCRequests ==
  { Ask("t1", "low"),
    [Ask("t1", "normal") EXCEPT !.needs = {"vision"}],
    Ask("t2", "low"),
    [Ask("t2", "normal") EXCEPT !.maxCost = 4],
    [Ask("t3", "low") EXCEPT !.privacy = "zdr"] }

(* t1 is held out by either version; t2 is the first that is not held out  *)
(* by v1, and is explored; t3 is explored only if a policy goes beyond 3%. *)
MCHash ==
  [bucket |-> [x \in {"t1", "t2", "t3"} \X {"v1", "v2"} |->
                 CASE x[1] = "t1" -> 9 [] x[1] = "t2" -> 10 [] x[1] = "t3" -> 59],
   explore |-> [x \in {"t1", "t2", "t3"} \X {"v1", "v2"} |->
                 IF x[1] = "t3" THEN 3 ELSE 2],
   arm |-> [t \in {"t1", "t2", "t3"} |-> 99]]

MCWhole == {{"big", "mid", "small"}}

(* A version published again with another control percentage.              *)
MCReused == {Base, [Base EXCEPT !.control = 20]}

(* A catalog without the incumbent, under a policy that lists others only. *)
MCNoIncumbent == {{"big", "mid", "small"}, {"mid", "small"}}
MCModestPolicy ==
  [Base EXCEPT !.candidates = <<"small">>, !.fallbacks = <<"mid">>,
               !.mode = "active"]
MCModest == {MCModestPolicy}
MCNormalRisk == {Ask("t2", "normal"), Ask("t3", "normal")}
=============================================================================
