----------------------------- MODULE AuditTrail -----------------------------
(***************************************************************************)
(* What the router promises about its audit trail, whatever store keeps it *)
(* and whatever happens to the process: a production request reaches a     *)
(* model only after its decision was recorded (docs/architecture.md:35,    *)
(* 70); the decision is closed at most once, never reopens or disappears,  *)
(* and its request reaches no model after that.                            *)
(*                                                                         *)
(* Gateway implements this specification.                                  *)
(***************************************************************************)
CONSTANTS
  Decisions,  \* decision IDs
  Models      \* the models a decision's request may be sent to

VARIABLES
  recorded,   \* decisions with a durable record
  completed,  \* decisions whose durable record is final
  sent        \* the models each decision's request went out to

vars == <<recorded, completed, sent>>

Init ==
  /\ recorded = {}
  /\ completed = {}
  /\ sent = [d \in Decisions |-> {}]

Record(d) ==
  /\ recorded' = recorded \cup {d}
  /\ UNCHANGED <<completed, sent>>

Call(d, m) ==
  /\ d \in recorded \ completed
  /\ sent' = [sent EXCEPT ![d] = @ \cup {m}]
  /\ UNCHANGED <<recorded, completed>>

Complete(d) ==
  /\ d \in recorded \ completed
  /\ completed' = completed \cup {d}
  /\ UNCHANGED <<recorded, sent>>

Next ==
  \E d \in Decisions :
    \/ Record(d)
    \/ \E m \in Models : Call(d, m)
    \/ Complete(d)

Spec == Init /\ [][Next]_vars
=============================================================================
