----------------------------- MODULE FileStore ------------------------------
(***************************************************************************)
(* store.FileStore (internal/store/store.go): three append-only files of   *)
(* JSON lines, and the maps and the slice in memory that readers are       *)
(* served from.                                                            *)
(*                                                                         *)
(* The store's mutex is held from the first byte of a line to the update   *)
(* of the map, so that a save is one step.  A write may stop anywhere: at  *)
(* an error (a full disk), and then the save reports it and the process    *)
(* goes on, or because the process ends there, which leaves the files as   *)
(* Break followed by Stop does.  The process ends, not the machine: nothing*)
(* is synced, and what a power failure leaves is not modelled.             *)
(*                                                                         *)
(* A line of any length is written, and one longer than the scanner's      *)
(* buffer of 32 MB is not read back.                                       *)
(***************************************************************************)
EXTENDS Naturals, Sequences

CONSTANTS
  Tables,   \* "decisions", "outcomes" and "policies": one file each
  Upserted, \* the tables kept in a map by ID; outcomes are kept in a slice
  Records,  \* what is saved: records with an id
  Long,     \* those whose line is longer than the scanner's buffer
  Torn,     \* a line that does not decode, so not one of Records
  Lost      \* for the contract: a store that cannot be read back

VARIABLES
  up,       \* NewFileStore returned and the process lives
  files,    \* the lines of each file
  open,     \* the last line of the file has no newline yet
  memory,   \* decisions, policies: newest record by ID; outcomes: all
  troubles  \* history: "error", some save reported one; "long", one was of
            \* a record in Long

vars == <<up, files, open, memory, troubles>>

Init ==
  /\ up = FALSE
  /\ files = [t \in Tables |-> <<>>]
  /\ open = [t \in Tables |-> FALSE]
  /\ memory = [t \in Tables |-> {}]
  /\ troubles = {}
-----------------------------------------------------------------------------
(* O_APPEND: bytes behind a line without a newline lengthen that line, and *)
(* two records on one line do not decode.                                  *)
Added(t, line) ==
  IF open[t] THEN [files[t] EXCEPT ![Len(files[t])] = Torn]
             ELSE Append(files[t], line)

Updated(t, content, r) ==
  {x \in content : t \in Upserted => x.id # r.id} \cup {r}

Write(t, line, unfinished) ==
  /\ files' = [files EXCEPT ![t] = Added(t, line)]
  /\ open' = [open EXCEPT ![t] = unfinished]

(* Mutated: the map is updated although the append failed.                 *)
BreakUnchecked(t, r) ==
  /\ up
  /\ \E line \in {Torn, r} : Write(t, line, TRUE)
  /\ memory' = [memory EXCEPT ![t] = Updated(t, @, r)]
  /\ troubles' = troubles \cup {"error"}
  /\ UNCHANGED up

(* Nothing looks at the length of a line before it is written.             *)
Save(t, r) ==
  /\ up
  /\ Write(t, r, FALSE)
  /\ memory' = [memory EXCEPT ![t] = Updated(t, @, r)]
  /\ troubles' = troubles \cup (IF r \in Long THEN {"long"} ELSE {})
  /\ UNCHANGED up

(* The file cannot be opened; the line stops short, of its newline or of   *)
(* more; or it is whole and Close reports an error.                        *)
Break(t, r) ==
  /\ up
  /\ \/ UNCHANGED <<files, open>>
     \/ \E line \in {Torn, r} : Write(t, line, TRUE)
     \/ Write(t, r, FALSE)
  /\ troubles' = troubles \cup {"error"}
  /\ UNCHANGED <<up, memory>>

Stop ==
  /\ up
  /\ up' = FALSE
  /\ memory' = [t \in Tables |-> {}]
  /\ UNCHANGED <<files, open, troubles>>

(* loadJSONLines stops at a line it cannot decode and, as the scanner does,*)
(* at one that does not fit its buffer.                                    *)
Unreadable(line) == line = Torn \/ line \in Long

Readable == \A t \in Tables : \A i \in DOMAIN files[t] : ~Unreadable(files[t][i])

(* Mutated: the first line of an ID wins.                                  *)
OldestLines(t) ==
  {k \in DOMAIN files[t] :
     t \in Upserted =>
       \A j \in 1..(k - 1) : files[t][j].id # files[t][k].id}

(* The lines that are not replaced by a later one while the file is read.  *)
LastingLines(t) ==
  {k \in DOMAIN files[t] :
     t \in Upserted =>
       \A j \in DOMAIN files[t] : j > k => files[t][j].id # files[t][k].id}

Loaded(t) == {files[t][k] : k \in LastingLines(t)}

(* Mutated: lines that cannot be read are skipped.                         *)
StartOverTorn ==
  /\ ~up
  /\ up' = TRUE
  /\ memory' = [t \in Tables |-> {r \in Loaded(t) : ~Unreadable(r)}]
  /\ UNCHANGED <<files, open, troubles>>

(* NewFileStore: one line that cannot be read keeps the process down.      *)
Start ==
  /\ ~up
  /\ Readable
  /\ up' = TRUE
  /\ memory' = [t \in Tables |-> Loaded(t)]
  /\ UNCHANGED <<files, open, troubles>>

Next ==
  \/ \E t \in Tables, r \in Records : Save(t, r) \/ Break(t, r)
  \/ Stop
  \/ Start

Spec == Init /\ [][Next]_vars
-----------------------------------------------------------------------------
(* What a start would find.                                                *)
Kept == IF Readable THEN [t \in Tables |-> Loaded(t)] ELSE Lost

Contract == INSTANCE AuditStore WITH seen <- memory, kept <- Kept

TypeOK ==
  /\ up \in BOOLEAN
  /\ files \in [Tables -> Seq(Records \cup {Torn})]
  /\ open \in [Tables -> BOOLEAN]
  /\ memory \in [Tables -> SUBSET Records]
  /\ troubles \subseteq {"error", "long"}

(* store.go:87-122, 283-320.  The files and the maps implement the audit   *)
(* store the rest of the router relies on.                                 *)
ContractSpec == Contract!Spec
=============================================================================
