----------------------------- MODULE AuditStore -----------------------------
(***************************************************************************)
(* What the router may count on from its audit store (store.Repository),   *)
(* whichever implementation keeps it.  A save takes effect for the readers *)
(* and for the next start at once, or it reports an error and may have     *)
(* taken effect or not.  Two things can cost the store its content: a save *)
(* that reported an error, and a record longer than a start can read,      *)
(* which is acknowledged all the same.  As long as there was neither,      *)
(* readers see what a restart would find, and a restart succeeds.          *)
(*                                                                         *)
(* FileStore and PostgresStore implement this specification.               *)
(***************************************************************************)
CONSTANTS
  Tables,   \* "decisions", "outcomes" and "policies"
  Upserted, \* the tables whose records replace each other: not "outcomes"
  Records,  \* what is saved: records with an id, and contents
  Long,     \* those that an implementation may fail to read back
  Lost      \* the content of a store that cannot be read back

VARIABLES
  up,       \* a process has the store open
  seen,     \* what its readers get, by table
  kept,     \* what the next start finds, by table, or Lost
  troubles  \* "error": some save reported one; "long": one was of a long record

vars == <<up, seen, kept, troubles>>

Empty == [t \in Tables |-> {}]

(* The content of table t after a save: upserted tables hold the newest    *)
(* record of an ID.                                                        *)
With(t, content, r) ==
  {x \in content : t \in Upserted => x.id # r.id} \cup {r}

(* All of them after a save to t; what is lost stays lost.                 *)
Saved(content, t, r) ==
  IF content = Lost THEN Lost ELSE [content EXCEPT ![t] = With(t, @, r)]

Init ==
  /\ up = FALSE
  /\ seen = Empty
  /\ kept = Empty
  /\ troubles = {}

(* An outcome whose ID is taken already may be dropped.                    *)
Taken(t, r) == t \notin Upserted /\ \E x \in seen[t] : x.id = r.id

Save(t, r) ==
  /\ up
  /\ \/ /\ seen' = Saved(seen, t, r)
        /\ \/ kept' = Saved(kept, t, r)
           \/ troubles # {} /\ kept' = Lost
     \/ Taken(t, r) /\ UNCHANGED <<seen, kept>>
  /\ UNCHANGED <<up, troubles>>

(* A long record is acknowledged, and costs the next start everything.     *)
SaveLong(t, r) ==
  /\ up
  /\ r \in Long
  /\ seen' = Saved(seen, t, r)
  /\ kept' = Lost
  /\ troubles' = troubles \cup {"long"}
  /\ UNCHANGED up

Fail(t, r) ==
  /\ up
  /\ seen' \in {seen, Saved(seen, t, r)}
  /\ kept' \in {kept, Saved(kept, t, r), Lost}
  /\ troubles' = troubles \cup {"error"}
  /\ UNCHANGED up

Stop ==
  /\ up
  /\ up' = FALSE
  /\ seen' = Empty
  /\ UNCHANGED <<kept, troubles>>

Start ==
  /\ ~up
  /\ kept # Lost
  /\ up' = TRUE
  /\ seen' = kept
  /\ UNCHANGED <<kept, troubles>>

Next ==
  \/ \E t \in Tables, r \in Records :
       Save(t, r) \/ SaveLong(t, r) \/ Fail(t, r)
  \/ Stop
  \/ Start

Spec == Init /\ [][Next]_vars
-----------------------------------------------------------------------------
(* docs/architecture.md:54-56.  A store none of whose saves reported an    *)
(* error or was of a long record shows its readers exactly what a restart  *)
(* would find.                                                             *)
Trustworthy ==
  troubles = {} => kept # Lost /\ (up => seen = kept)
=============================================================================
