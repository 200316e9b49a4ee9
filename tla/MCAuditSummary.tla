--------------------------- MODULE MCAuditSummary ---------------------------
(* Two traces, one of which can get decisions of every arm, among them one *)
(* of another policy; outcomes by decision, by trace and by both, one of   *)
(* another type and one of another tenant.                                 *)
EXTENDS AuditSummary, TLC

Content(trace, bucket, selected, inScope) ==
  [trace |-> trace, bucket |-> bucket, selected |-> selected,
   incumbent |-> "big", final |-> None,
   estimated |-> IF selected = "big" THEN 3 ELSE 1, actual |-> 0,
   incumbentCost |-> 3, inScope |-> inScope]

MCContents ==
  {Content("t1", "treatment", "small", TRUE),
   Content("t1", "control", "big", TRUE),
   Content("t1", "incumbent", "big", FALSE),
   Content("t1", "shadow", "small", TRUE),
   Content("t2", "exploration", "small", TRUE)}

MCUsages == {[cost |-> 2, incumbent |-> 4]}

Outcome(decision, trace, value, occurred) ==
  [decision |-> decision, trace |-> trace, value |-> value,
   occurred |-> occurred, typed |-> TRUE, inScope |-> TRUE]

MCReports ==
  {Outcome(d, None, "true", 1) : d \in Ids}
    \cup {Outcome(d, "t2", "false", 1) : d \in Ids}
    \cup {Outcome(None, "t1", v, 1) : v \in {"false", "null", "two", "text"}}
    \cup {Outcome(None, None, "true", 1)}
    \cup {[Outcome(None, "t1", "true", 1) EXCEPT !.typed = FALSE],
          [Outcome(None, "t1", "true", 1) EXCEPT !.inScope = FALSE]}

MCTimedReports ==
  {Outcome(None, "t1", v, time) : v \in {"true", "false"}, time \in 1..2}

Symmetry == Permutations(Ids)
=============================================================================
