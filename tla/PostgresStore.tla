--------------------------- MODULE PostgresStore ----------------------------
(***************************************************************************)
(* store.PostgresStore (internal/store/postgres.go): every save is one     *)
(* statement, which the database commits or not; the process keeps nothing *)
(* but the connection.  The error of a statement whose connection broke    *)
(* does not tell whether it was committed.                                 *)
(***************************************************************************)
CONSTANTS
  Tables,   \* routing_decisions, routing_outcomes, routing_policies
  Upserted, \* the tables with ON CONFLICT DO UPDATE; outcomes DO NOTHING
  Records,  \* what is saved: records with an id
  Long,     \* for the contract: no record is too long for a row
  Lost      \* for the contract: never the case here

VARIABLES
  up,       \* NewPostgresStore returned and the process lives
  rows,     \* the rows of each table, with ids unique
  troubles  \* history: "error", some statement reported one

vars == <<up, rows, troubles>>

Init ==
  /\ up = FALSE
  /\ rows = [t \in Tables |-> {}]
  /\ troubles = {}

Conflict(t, r) == \E x \in rows[t] : x.id = r.id

Inserted(t, r) ==
  IF Conflict(t, r) /\ t \notin Upserted
  THEN rows[t]
  ELSE {x \in rows[t] : x.id # r.id} \cup {r}

Commit(t, r) == rows' = [rows EXCEPT ![t] = Inserted(t, r)]

Save(t, r) ==
  /\ up
  /\ Commit(t, r)
  /\ UNCHANGED <<up, troubles>>

Break(t, r) ==
  /\ up
  /\ Commit(t, r) \/ UNCHANGED rows
  /\ troubles' = troubles \cup {"error"}
  /\ UNCHANGED up

Stop ==
  /\ up
  /\ up' = FALSE
  /\ UNCHANGED <<rows, troubles>>

Start ==
  /\ ~up
  /\ up' = TRUE
  /\ UNCHANGED <<rows, troubles>>

Next ==
  \/ \E t \in Tables, r \in Records : Save(t, r) \/ Break(t, r)
  \/ Stop
  \/ Start

Spec == Init /\ [][Next]_vars
-----------------------------------------------------------------------------
Visible == IF up THEN rows ELSE [t \in Tables |-> {}]

Contract == INSTANCE AuditStore WITH seen <- Visible, kept <- rows
=============================================================================
