--------------------------- MODULE ServiceProofs ----------------------------
(***************************************************************************)
(* The process around either backend, for any number of requests, policies,*)
(* tenants, saves and restarts.  First every step is shown to be a step of *)
(* the audit store's contract (StoreInv); what the registry promises is    *)
(* then proved from the contract alone, so it holds for both backends.     *)
(***************************************************************************)
EXTENDS Service, TLAPS

Store == INSTANCE FileStoreProofs

StoreInv ==
  /\ backend \in {"file", "postgres"}
  /\ File!TypeOK
  /\ rows \in [Tables -> SUBSET Records]
  /\ backend = "file" => Store!StoreInv

LEMMA TypesApart == Store!Distinct
BY ServiceAssumption DEF Store!Distinct

(* The file store as the service and as its own proofs know it.            *)
LEMMA SameActions ==
  /\ \A t \in Tables, r \in Records :
       /\ File!Save(t, r) => Store!Save(t, r)
       /\ File!Break(t, r) => Store!Break(t, r)
  /\ File!Stop => Store!Stop
  /\ File!Start => Store!Start
<1>1. ASSUME NEW t \in Tables, NEW r \in Records
      PROVE  /\ File!Save(t, r) => Store!Save(t, r)
             /\ File!Break(t, r) => Store!Break(t, r)
  BY DEF File!Save, Store!Save, File!Break, Store!Break, File!Write,
         Store!Write, File!Added, Store!Added, File!Updated, Store!Updated
<1>2. /\ File!Readable <=> Store!Readable
      /\ \A t \in Tables : File!Loaded(t) = Store!Loaded(t)
  BY DEF File!Readable, Store!Readable, File!Unreadable, Store!Unreadable,
         File!Loaded, Store!Loaded, File!LastingLines, Store!LastingLines
<1>3. (File!Stop => Store!Stop) /\ (File!Start => Store!Start)
  BY <1>2 DEF File!Stop, Store!Stop, File!Start, Store!Start
<1>4. QED
  BY <1>1, <1>3

LEMMA SameKept ==
  /\ File!Kept = Store!Kept /\ File!Kept' = Store!Kept'
  /\ File!TypeOK <=> Store!TypeOK
  /\ File!TypeOK' <=> Store!TypeOK'
BY DEF File!Kept, Store!Kept, File!Readable, Store!Readable,
       File!Unreadable, Store!Unreadable, File!Loaded, Store!Loaded,
       File!LastingLines, Store!LastingLines, File!TypeOK, Store!TypeOK

(* What both backends hold is of the same kind.                            *)
LEMMA KeptType ==
  ASSUME StoreInv
  PROVE  /\ Seen \in [Tables -> SUBSET Records]
         /\ Kept \in [Tables -> SUBSET Records] \cup {Lost}
<1>1. CASE backend = "file"
  <2>1. Store!Kept \in [Tables -> SUBSET Records] \cup {Lost}
    <3>1. Store!StoreInv /\ Store!TypeOK
      BY <1>1, SameKept DEF StoreInv
    <3>2. CASE Store!Readable
      BY <3>1, <3>2, TypesApart, Store!LoadedType
    <3>3. CASE ~Store!Readable
      BY <3>3 DEF Store!Kept
    <3>4. QED
      BY <3>2, <3>3
  <2>2. QED
    BY <1>1, <2>1, SameKept DEF StoreInv, Seen, Kept, File!TypeOK
<1>2. CASE backend = "postgres"
  BY <1>2 DEF StoreInv, Seen, Kept, Postgres!Visible
<1>3. QED
  BY <1>1, <1>2 DEF StoreInv
-----------------------------------------------------------------------------
(***************************************************************************)
(* Every step of the repository is one of the contract.                    *)
(***************************************************************************)

(* What the contract calls a save without an error.                        *)
Acknowledge(t, r) == Contract!Save(t, r) \/ Contract!SaveLong(t, r)

(* store.go:87-122, postgres.go:39-77, 138-151.                            *)
LEMMA SavedStep ==
  ASSUME StoreInv, NEW t \in Tables, NEW r \in Records, Saved(t, r),
         backend' = backend
  PROVE  StoreInv' /\ up /\ up' /\ Acknowledge(t, r)
<1>1. CASE backend = "file"
  <2>1. File!Save(t, r) /\ rows' = rows
    BY <1>1 DEF Saved
  <2>2. /\ Store!StoreInv'
        /\ Store!Contract!Save(t, r) \/ Store!Contract!SaveLong(t, r)
    BY <1>1, <2>1, SameActions, TypesApart, Store!SaveStep DEF StoreInv
  <2>3. up /\ up' /\ File!TypeOK'
    <3>1. Store!TypeOK'
      BY <2>2 DEF Store!StoreInv
    <3>2. QED
      BY <2>1, <3>1, SameKept DEF File!Save
  <2>4. /\ Seen = memory /\ Seen' = memory'
        /\ Kept = Store!Kept /\ Kept' = Store!Kept'
    BY <1>1, SameKept DEF Seen, Kept
  <2>5. Acknowledge(t, r)
    <3>1. CASE Store!Contract!Save(t, r)
      BY <3>1, <2>4 DEF Acknowledge, Contract!Save, Store!Contract!Save,
         Contract!Saved, Store!Contract!Saved, Contract!With,
         Store!Contract!With, Contract!Taken, Store!Contract!Taken
    <3>2. CASE Store!Contract!SaveLong(t, r)
      BY <3>2, <2>4 DEF Acknowledge, Contract!SaveLong,
         Store!Contract!SaveLong, Contract!Saved, Store!Contract!Saved,
         Contract!With, Store!Contract!With
    <3>3. QED
      BY <2>2, <3>1, <3>2
  <2>6. QED
    BY <1>1, <2>1, <2>2, <2>3, <2>5 DEF StoreInv
<1>2. CASE backend = "postgres"
  <2>1. Postgres!Save(t, r) /\ UNCHANGED <<files, open, memory>>
    BY <1>2 DEF Saved
  <2>2. /\ up /\ up' = up /\ troubles' = troubles
        /\ rows' = [rows EXCEPT ![t] = Postgres!Inserted(t, r)]
    BY <2>1 DEF Postgres!Save, Postgres!Commit
  <2>3. rows \in [Tables -> SUBSET Records] /\ Lost # rows
    BY ServiceAssumption DEF StoreInv
  <2>4. StoreInv'
    BY <1>2, <2>1, <2>2, <2>3 DEF StoreInv, File!TypeOK, Postgres!Inserted
  <2>5. Seen = rows /\ Seen' = rows' /\ Kept = rows /\ Kept' = rows'
    BY <1>2, <2>2 DEF Seen, Kept, Postgres!Visible
  <2>6. \/ rows' = Contract!Saved(rows, t, r)
        \/ Contract!Taken(t, r) /\ rows' = rows
    BY <2>2, <2>3, <2>5 DEF Contract!Saved, Contract!With, Contract!Taken,
       Postgres!Inserted, Postgres!Conflict
  <2>7. QED
    BY <2>2, <2>4, <2>5, <2>6 DEF Acknowledge, Contract!Save
<1>3. QED
  BY <1>1, <1>2 DEF StoreInv
LEMMA RefusedStep ==
  ASSUME StoreInv, NEW t \in Tables, NEW r \in Records, Refused(t, r),
         backend' = backend
  PROVE  StoreInv' /\ up /\ up' /\ Contract!Fail(t, r)
<1>1. CASE backend = "file"
  <2>1. File!Break(t, r) /\ rows' = rows
    BY <1>1 DEF Refused
  <2>2. Store!StoreInv' /\ Store!Contract!Fail(t, r)
    BY <1>1, <2>1, SameActions, TypesApart, Store!BreakStep DEF StoreInv
  <2>3. up /\ up' /\ File!TypeOK'
    <3>1. Store!TypeOK'
      BY <2>2 DEF Store!StoreInv
    <3>2. QED
      BY <2>1, <3>1, SameKept DEF File!Break
  <2>4. /\ Seen = memory /\ Seen' = memory'
        /\ Kept = Store!Kept /\ Kept' = Store!Kept'
    BY <1>1, SameKept DEF Seen, Kept
  <2>5. Contract!Fail(t, r)
    BY <2>2, <2>4 DEF Contract!Fail, Store!Contract!Fail, Contract!Saved,
       Store!Contract!Saved, Contract!With, Store!Contract!With
  <2>6. QED
    BY <1>1, <2>1, <2>2, <2>3, <2>5 DEF StoreInv
<1>2. CASE backend = "postgres"
  <2>1. Postgres!Break(t, r) /\ UNCHANGED <<files, open, memory>>
    BY <1>2 DEF Refused
  <2>2. /\ up /\ up' = up /\ troubles' = troubles \cup {"error"}
        /\ \/ rows' = [rows EXCEPT ![t] = Postgres!Inserted(t, r)]
           \/ rows' = rows
    BY <2>1 DEF Postgres!Break, Postgres!Commit
  <2>3. rows \in [Tables -> SUBSET Records] /\ Lost # rows
    BY ServiceAssumption DEF StoreInv
  <2>4. StoreInv'
    BY <1>2, <2>1, <2>2, <2>3 DEF StoreInv, File!TypeOK, Postgres!Inserted
  <2>5. Seen = rows /\ Seen' = rows' /\ Kept = rows /\ Kept' = rows'
    BY <1>2, <2>2 DEF Seen, Kept, Postgres!Visible
  <2>6. rows' \in {rows, Contract!Saved(rows, t, r)}
    BY <2>2, <2>3 DEF Contract!Saved, Contract!With, Postgres!Inserted,
       Postgres!Conflict
  <2>7. QED
    BY <2>2, <2>4, <2>5, <2>6 DEF Contract!Fail
<1>3. QED
  BY <1>1, <1>2 DEF StoreInv

(* The process ends, and starts again with what was kept.                  *)
LEMMA StopStep ==
  ASSUME StoreInv, Stop
  PROVE  StoreInv' /\ up' = FALSE /\ Contract!Stop
<1>1. File!Stop /\ rows' = rows /\ backend' = backend
  BY DEF Stop
<1>2. up /\ up' = FALSE /\ troubles' = troubles /\ File!TypeOK'
  BY <1>1 DEF File!Stop, StoreInv, File!TypeOK
<1>3. CASE backend = "file"
  <2>1. Store!StoreInv' /\ Store!Contract!Stop
    BY <1>1, <1>3, SameActions, TypesApart, Store!StopStep DEF StoreInv
  <2>2. /\ Seen = memory /\ Seen' = memory'
        /\ Kept = Store!Kept /\ Kept' = Store!Kept'
    BY <1>1, <1>3, SameKept DEF Seen, Kept
  <2>3. Contract!Stop
    BY <2>1, <2>2 DEF Contract!Stop, Store!Contract!Stop, Contract!Empty,
       Store!Contract!Empty
  <2>4. QED
    BY <1>1, <1>2, <1>3, <2>1, <2>3 DEF StoreInv
<1>4. CASE backend = "postgres"
  <2>1. Kept' = Kept /\ Seen' = Contract!Empty
    BY <1>1, <1>2, <1>4 DEF Seen, Kept, Postgres!Visible, Contract!Empty
  <2>2. QED
    BY <1>1, <1>2, <1>4, <2>1 DEF StoreInv, Contract!Stop
<1>5. QED
  BY <1>3, <1>4 DEF StoreInv

LEMMA StartStep ==
  ASSUME StoreInv, Start
  PROVE  StoreInv' /\ up' = TRUE /\ Contract!Start
<1>1. backend' = backend
  BY DEF Start
<1>2. CASE backend = "file"
  <2>1. File!Start /\ rows' = rows
    BY <1>2 DEF Start
  <2>2. Store!StoreInv' /\ Store!Contract!Start
    BY <1>2, <2>1, SameActions, TypesApart, Store!StartStep DEF StoreInv
  <2>3. up' = TRUE /\ File!TypeOK'
    <3>1. Store!TypeOK'
      BY <2>2 DEF Store!StoreInv
    <3>2. QED
      BY <2>1, <3>1, SameKept DEF File!Start
  <2>4. /\ Seen = memory /\ Seen' = memory'
        /\ Kept = Store!Kept /\ Kept' = Store!Kept'
    BY <1>1, <1>2, SameKept DEF Seen, Kept
  <2>5. Contract!Start
    BY <2>2, <2>4 DEF Contract!Start, Store!Contract!Start
  <2>6. QED
    BY <1>1, <1>2, <2>1, <2>2, <2>3, <2>5 DEF StoreInv
<1>3. CASE backend = "postgres"
  <2>1. Postgres!Start /\ UNCHANGED <<files, open, memory>>
    BY <1>3 DEF Start
  <2>2. ~up /\ up' = TRUE /\ rows' = rows /\ troubles' = troubles
    BY <2>1 DEF Postgres!Start
  <2>3. rows # Lost
    BY ServiceAssumption DEF StoreInv
  <2>4. Kept = rows /\ Kept' = rows /\ Seen' = rows
    BY <1>1, <1>3, <2>2 DEF Seen, Kept, Postgres!Visible
  <2>5. QED
    BY <1>1, <1>3, <2>1, <2>2, <2>3, <2>4 DEF StoreInv, File!TypeOK, Contract!Start
<1>4. QED
  BY <1>2, <1>3 DEF StoreInv

(* Steps that leave the repository alone.                                  *)
LEMMA StoreIdle ==
  ASSUME StoreInv, UNCHANGED <<backend, up, storeVars, troubles>>
  PROVE  StoreInv' /\ UNCHANGED Contract!vars
<1>1. UNCHANGED <<backend, up, files, open, memory, rows, troubles>>
  BY DEF storeVars
<1>2. File!TypeOK' /\ rows' = rows
  BY <1>1 DEF StoreInv, File!TypeOK
<1>3. backend = "file" => Store!StoreInv' /\ Store!Kept' = Store!Kept
  <2>1. UNCHANGED Store!vars
    BY <1>1 DEF Store!vars
  <2>2. backend = "file" => Store!StoreInv' /\ UNCHANGED Store!Contract!vars
    BY <2>1, Store!IdleStep DEF StoreInv
  <2>3. QED
    BY <2>2 DEF Store!Contract!vars
<1>4. UNCHANGED <<Seen, Kept>>
  BY <1>1, <1>3, SameKept DEF Seen, Kept, Postgres!Visible, StoreInv
<1>5. QED
  BY <1>1, <1>2, <1>3, <1>4 DEF StoreInv, Contract!vars
-----------------------------------------------------------------------------
(***************************************************************************)
(* Types; and what the handlers hold: a policy that was in force in this   *)
(* life of the process, also while its successor is.                       *)
(***************************************************************************)

HandlerInv ==
  /\ registry \subseteq granted
  /\ ~up => granted = {}
  /\ \A r \in Requests : pc[r] \in {"routed", "recorded"} => held[r] \in granted
  /\ SpendWithinGranted

LEMMA SaveTypes ==
  ASSUME TypeOK, NEW t \in Tables, NEW r \in Records,
         Saved(t, r) \/ Refused(t, r)
  PROVE  /\ acked' \in [Tables -> SUBSET Records]
         /\ failed' \in [Tables -> SUBSET Records]
         /\ loose' \in [Tables -> SUBSET Records]
         /\ saves' \in 0..MaxSaves
<1>1. saves' \in 0..MaxSaves
  BY ServiceAssumption DEF Saved, Refused, TypeOK
<1>2. CASE Saved(t, r)
  BY <1>1, <1>2 DEF Saved, TypeOK, Others
<1>3. CASE Refused(t, r)
  BY <1>1, <1>3 DEF Refused, TypeOK
<1>4. QED
  BY <1>2, <1>3

LEMMA RecordTypes ==
  /\ Policies \subseteq Records /\ Outcomes \subseteq Records
  /\ "decisions" \in Tables /\ "outcomes" \in Tables /\ "policies" \in Tables
BY DEF Records, Tables
LEMMA DecisionType ==
  ASSUME TypeOK, HandlerInv, NEW r \in Requests,
         pc[r] \in {"routed", "recorded"}, NEW completed \in BOOLEAN
  PROVE  DecisionOf(r, completed) \in Records /\ held[r] \in Policies
<1>1. held[r] \in Policies
  BY DEF HandlerInv, TypeOK
<1>2. QED
  BY <1>1 DEF DecisionOf, Records, Decisions

(* A save for which no handler holds anything new.                         *)
LEMMA SaveKeepsHandlers ==
  ASSUME TypeOK, StoreInv, HandlerInv, NEW t \in Tables, NEW r \in Records,
         Saved(t, r) \/ Refused(t, r),
         UNCHANGED <<backend, registry, held, spend, granted, restarts>>,
         pc' \in [Requests -> {"idle", "routed", "recorded", "ended", "lost"}],
         \A q \in Requests : pc'[q] \in {"routed", "recorded"} =>
                               pc[q] \in {"routed", "recorded"}
  PROVE  TypeOK' /\ StoreInv' /\ HandlerInv'
<1>1. StoreInv' /\ up /\ up'
  BY SavedStep, RefusedStep
<1>2. TypeOK'
  BY <1>1, SaveTypes DEF TypeOK, StoreInv
<1>3. SpendWithinGranted'
  BY DEF HandlerInv, SpendWithinGranted
<1>4. QED
  BY <1>1, <1>2, <1>3 DEF HandlerInv

LEMMA PutTypes ==
  ASSUME TypeOK, StoreInv, HandlerInv, NEW p \in Policies, Put(p)
  PROVE  TypeOK' /\ StoreInv' /\ HandlerInv'
<1>1. p \in Records /\ "policies" \in Tables
  BY RecordTypes
<1>2. CASE /\ Saved("policies", p)
           /\ registry' = Overridden(registry, {p})
           /\ granted' = granted \cup {p}
  <2>1. StoreInv' /\ up /\ up'
    BY <1>1, <1>2, SavedStep DEF Put
  <2>2. /\ registry' = Overridden(registry, {p})
        /\ granted' = granted \cup {p}
        /\ UNCHANGED <<backend, pc, held, spend, restarts>>
    BY <1>2 DEF Put, handlerVars
  <2>3. TypeOK'
    BY <1>1, <1>2, <2>1, <2>2, SaveTypes DEF TypeOK, StoreInv, Overridden
  <2>4. SpendWithinGranted'
    BY <2>2 DEF HandlerInv, SpendWithinGranted
  <2>5. QED
    BY <2>1, <2>2, <2>3, <2>4 DEF HandlerInv, Overridden
<1>3. CASE Refused("policies", p) /\ UNCHANGED <<registry, granted>>
  BY <1>1, <1>3, SaveKeepsHandlers DEF Put, handlerVars, TypeOK
<1>4. QED
  BY <1>2, <1>3 DEF Put
LEMMA HandlersInit == Init => TypeOK /\ StoreInv /\ HandlerInv
<1> SUFFICES ASSUME Init PROVE TypeOK /\ StoreInv /\ HandlerInv
  OBVIOUS
<1>1. Store!StoreInv /\ Store!TypeOK
  <2>1. Store!Init
    BY DEF Init, File!Init, Store!Init
  <2>2. QED
    BY <2>1, TypesApart, Store!StoreInit DEF Store!StoreInv
<1>2. rows \in [Tables -> SUBSET Records] /\ ~up
  BY DEF Init, Postgres!Init
<1>3. StoreInv
  BY <1>1, <1>2, SameKept DEF Init, StoreInv
<1>4. TypeOK
  BY <1>2, <1>3, ServiceAssumption DEF Init, StoreInv, TypeOK
<1>5. QED
  BY <1>3, <1>4 DEF Init, HandlerInv, SpendWithinGranted

LEMMA ArriveTypes ==
  ASSUME TypeOK, StoreInv, HandlerInv, NEW r \in Requests, Arrive(r)
  PROVE  TypeOK' /\ StoreInv' /\ HandlerInv'
<1>1. StoreInv' /\ UNCHANGED <<backend, up, registry, spend, history, granted, restarts>>
  BY StoreIdle DEF Arrive
<1>2. PICK p \in registry : held' = [held EXCEPT ![r] = p]
  BY DEF Arrive
<1>3. p \in Policies /\ pc' = [pc EXCEPT ![r] = "routed"] /\ up
  BY DEF Arrive, TypeOK
<1>4. TypeOK'
  BY <1>1, <1>2, <1>3 DEF TypeOK, StoreInv, history
<1>5. HandlerInv'
  BY <1>1, <1>2, <1>3 DEF HandlerInv, SpendWithinGranted, TypeOK
<1>6. QED
  BY <1>1, <1>4, <1>5

LEMMA RecordTypesKept ==
  ASSUME TypeOK, StoreInv, HandlerInv, NEW r \in Requests, Record(r)
  PROVE  TypeOK' /\ StoreInv' /\ HandlerInv'
<1>1. DecisionOf(r, FALSE) \in Records
  BY DecisionType DEF Record
<1>2. pc' \in {[pc EXCEPT ![r] = "recorded"], [pc EXCEPT ![r] = "ended"]}
  BY DEF Record
<1>3. /\ pc' \in [Requests -> {"idle", "routed", "recorded", "ended", "lost"}]
      /\ \A q \in Requests : pc'[q] \in {"routed", "recorded"} =>
                               pc[q] \in {"routed", "recorded"}
  BY <1>2 DEF TypeOK, Record
<1>4. /\ Saved("decisions", DecisionOf(r, FALSE)) \/ Refused("decisions", DecisionOf(r, FALSE))
      /\ UNCHANGED <<backend, registry, held, spend, granted, restarts>>
  BY DEF Record
<1>5. QED
  BY <1>1, <1>3, <1>4, RecordTypes, SaveKeepsHandlers

LEMMA CompleteTypes ==
  ASSUME TypeOK, StoreInv, HandlerInv, NEW r \in Requests, Complete(r)
  PROVE  TypeOK' /\ StoreInv' /\ HandlerInv'
<1>1. DecisionOf(r, TRUE) \in Records
  BY DecisionType DEF Complete
<1>2. /\ pc' \in [Requests -> {"idle", "routed", "recorded", "ended", "lost"}]
      /\ \A q \in Requests : pc'[q] \in {"routed", "recorded"} =>
                               pc[q] \in {"routed", "recorded"}
  BY DEF TypeOK, Complete
<1>3. /\ Saved("decisions", DecisionOf(r, TRUE)) \/ Refused("decisions", DecisionOf(r, TRUE))
      /\ UNCHANGED <<backend, registry, held, spend, granted, restarts>>
  BY DEF Complete
<1>4. QED
  BY <1>1, <1>2, <1>3, RecordTypes, SaveKeepsHandlers

LEMMA ReserveTypes ==
  ASSUME TypeOK, StoreInv, HandlerInv, NEW r \in Requests, Reserve(r)
  PROVE  TypeOK' /\ StoreInv' /\ HandlerInv'
<1>1. /\ StoreInv'
      /\ UNCHANGED <<backend, up, registry, pc, held, history, granted, restarts>>
  BY StoreIdle DEF Reserve, handlerVars
<1>2. /\ held[r] \in Policies /\ held[r] \in granted
      /\ spend[held[r].id] + 1 <= held[r].budget
      /\ spend' = [spend EXCEPT ![held[r].id] = @ + 1]
  BY DecisionType DEF Reserve, HandlerInv
<1>3. held[r].id \in PolicyIds
  BY <1>2 DEF Policies
<1>4. TypeOK'
  BY <1>1, <1>2, <1>3 DEF TypeOK, StoreInv, history
<1>5. SpendWithinGranted'
  BY <1>1, <1>2, <1>3 DEF HandlerInv, SpendWithinGranted, TypeOK
<1>6. QED
  BY <1>1, <1>4, <1>5 DEF HandlerInv

LEMMA ReportTypes ==
  ASSUME TypeOK, StoreInv, HandlerInv, NEW o \in Outcomes, Report(o)
  PROVE  TypeOK' /\ StoreInv' /\ HandlerInv'
<1>1. /\ Saved("outcomes", o) \/ Refused("outcomes", o)
      /\ UNCHANGED <<backend, registry, pc, held, spend, granted, restarts>>
  BY DEF Report, handlerVars
<1>2. QED
  BY <1>1, RecordTypes, SaveKeepsHandlers DEF TypeOK

LEMMA StopTypes ==
  ASSUME TypeOK, StoreInv, HandlerInv, Stop
  PROVE  TypeOK' /\ StoreInv' /\ HandlerInv'
<1>1. StoreInv' /\ up' = FALSE
  BY StopStep
<1>2. TypeOK'
  <2>1. restarts' \in 0..MaxRestarts
    BY ServiceAssumption DEF Stop, TypeOK
  <2>2. loose' \in [Tables -> SUBSET Records] /\ failed' \in [Tables -> SUBSET Records]
    BY DEF Stop, TypeOK
  <2>3. pc' \in [Requests -> {"idle", "routed", "recorded", "ended", "lost"}]
    BY DEF Stop, TypeOK
  <2>4. QED
    BY <1>1, <2>1, <2>2, <2>3 DEF Stop, TypeOK, StoreInv
<1>3. HandlerInv'
  BY <1>1 DEF Stop, HandlerInv, SpendWithinGranted
<1>4. QED
  BY <1>1, <1>2, <1>3
-----------------------------------------------------------------------------
(***************************************************************************)
(* The registry, from the contract alone.  What is kept was acknowledged or*)
(* is in doubt, and keeps to the tenant of what was acknowledged; as the   *)
(* registry always has a policy under every ID that was, Put never lets    *)
(* another tenant in.                                                      *)
(***************************************************************************)

KeptPolicies == IF Kept = Lost THEN {} ELSE Kept["policies"]
Claims == Configured \cup acked["policies"]
InDoubtPolicies == failed["policies"] \cup loose["policies"]

RegistryInv ==
  /\ acked["policies"] \cup InDoubtPolicies \subseteq Policies
  /\ KeptPolicies \subseteq acked["policies"] \cup InDoubtPolicies
  /\ Kept # Lost => \A q \in acked["policies"] : \E p \in KeptPolicies : p.id = q.id
  /\ \A q \in Claims, p \in KeptPolicies : p.id = q.id => p.tenant = q.tenant
  /\ up => \A q \in Claims : \E p \in registry : p.id = q.id
  /\ ~up => registry = {} /\ failed["policies"] = {}
  /\ PublishedInForce
  /\ TenantFixed

LEMMA RegistryIdle ==
  ASSUME RegistryInv,
         UNCHANGED <<up, Kept, registry, acked, failed, loose>>
  PROVE  RegistryInv'
BY DEF RegistryInv, KeptPolicies, Claims, InDoubtPolicies, PublishedInForce,
       TenantFixed

(* A save elsewhere: the policies are kept, or lost with everything else.  *)
LEMMA OtherTable ==
  ASSUME TypeOK, StoreInv, RegistryInv, NEW t \in Tables, t # "policies",
         NEW r \in Records, Saved(t, r) \/ Refused(t, r),
         backend' = backend, registry' = registry
  PROVE  RegistryInv'
<1>1. /\ up /\ up'
      /\ Acknowledge(t, r) \/ Contract!Fail(t, r)
  BY SavedStep, RefusedStep
<1>2. /\ acked'["policies"] = acked["policies"]
      /\ failed'["policies"] = failed["policies"]
      /\ loose'["policies"] = loose["policies"]
  <2>1. CASE Saved(t, r)
    BY <2>1 DEF Saved, TypeOK, Tables
  <2>2. CASE Refused(t, r)
    BY <2>2 DEF Refused, TypeOK, Tables
  <2>3. QED
    BY <2>1, <2>2
<1>3. Kept' = Lost \/ (Kept # Lost /\ Kept'["policies"] = Kept["policies"])
  <2>1. Kept' \in {Kept, Contract!Saved(Kept, t, r), Lost}
    BY <1>1 DEF Acknowledge, Contract!Save, Contract!SaveLong, Contract!Fail
  <2>2. Kept # Lost => Contract!Saved(Kept, t, r)["policies"] = Kept["policies"]
    BY KeptType DEF Contract!Saved, Tables
  <2>3. Kept = Lost => Kept' = Lost
    BY <2>1 DEF Contract!Saved
  <2>4. QED
    BY <2>1, <2>2, <2>3
<1>4. KeptPolicies' \in {KeptPolicies, {}} /\ (Kept' # Lost => Kept # Lost /\ KeptPolicies' = KeptPolicies)
  BY <1>3 DEF KeptPolicies
<1>5. QED
  BY <1>1, <1>2, <1>4 DEF RegistryInv, Claims, InDoubtPolicies,
     PublishedInForce, TenantFixed

(* What a policy that may be put has in common with the claims to its ID.  *)
LEMMA StaysWithClaims ==
  ASSUME RegistryInv, up, NEW p \in Policies, StaysWithTenant(p),
         NEW q \in Claims, q.id = p.id
  PROVE  q.tenant = p.tenant
<1>1. PICK z \in registry : z.id = q.id
  BY DEF RegistryInv
<1>2. z.tenant = q.tenant /\ z.tenant = p.tenant
  BY <1>1 DEF RegistryInv, TenantFixed, Claims, StaysWithTenant
<1>3. QED
  BY <1>2

LEMMA PutSaved ==
  ASSUME TypeOK, StoreInv, RegistryInv, NEW p \in Policies, StaysWithTenant(p),
         Saved("policies", p), backend' = backend,
         registry' = Overridden(registry, {p})
  PROVE  RegistryInv'
<1>1. up /\ up' /\ Acknowledge("policies", p) /\ p \in Records
  BY SavedStep, RecordTypes
<1>2. /\ acked'["policies"] = Others(acked["policies"], p) \cup {p}
      /\ failed'["policies"] = Others(failed["policies"], p)
      /\ loose'["policies"] = Others(loose["policies"], p)
  BY DEF Saved, TypeOK, Tables
<1>3. Kept' = Lost \/ (Kept # Lost /\ Kept'["policies"] = Others(Kept["policies"], p) \cup {p})
  <2>1. "policies" \in Tables /\ "policies" \in Upserted
    BY DEF Tables, Upserted
  <2>2. Kept' \in {Contract!Saved(Kept, "policies", p), Lost}
    BY <1>1, <2>1 DEF Acknowledge, Contract!Save, Contract!SaveLong,
       Contract!Taken
  <2>3. CASE Kept = Lost
    BY <2>2, <2>3 DEF Contract!Saved
  <2>4. CASE Kept # Lost
    <3>1. Kept \in [Tables -> SUBSET Records]
      BY <2>4, KeptType
    <3>2. Contract!Saved(Kept, "policies", p)["policies"] = Others(Kept["policies"], p) \cup {p}
      BY <2>1, <2>4, <3>1 DEF Contract!Saved, Contract!With, Others
    <3>3. QED
      BY <2>2, <2>4, <3>2
  <2>5. QED
    BY <2>3, <2>4
<1>4. Kept' # Lost => Kept # Lost /\ KeptPolicies' = Others(KeptPolicies, p) \cup {p}
  BY <1>3 DEF KeptPolicies
<1>5. Kept' = Lost => KeptPolicies' = {}
  BY DEF KeptPolicies
<1>6. registry' = Others(registry, p) \cup {p}
  BY DEF Overridden, Others
<1>7. \A q \in Claims' : q = p \/ q \in Claims
  BY <1>2 DEF Claims, Others
<1>8. \A q \in Claims' : q.id = p.id => q.tenant = p.tenant
  BY <1>1, <1>7, StaysWithClaims
<1>9. PublishedInForce'
  <2> SUFFICES ASSUME NEW x \in Others(registry, p)
               PROVE  x \in Overridden(Configured, acked'["policies"]) \cup loose'["policies"]
    BY <1>2, <1>6 DEF PublishedInForce, Overridden
  <2>1. x \in registry /\ x.id # p.id
    BY DEF Others
  <2>2. x \in Overridden(Configured, acked["policies"]) \cup loose["policies"]
    BY <1>1, <2>1 DEF RegistryInv, PublishedInForce
  <2>3. QED
    BY <1>2, <2>1, <2>2 DEF Overridden, Others
<1>10. TenantFixed'
  <2> SUFFICES ASSUME NEW x \in registry', NEW q \in Claims', x.id = q.id
               PROVE  x.tenant = q.tenant
    BY DEF TenantFixed, Claims
  <2>1. CASE x = p
    BY <1>8, <2>1
  <2>2. CASE x # p
    BY <1>6, <1>7, <2>2 DEF RegistryInv, TenantFixed, Claims, Others
  <2>3. QED
    BY <2>1, <2>2
<1>11. /\ acked'["policies"] \cup InDoubtPolicies' \subseteq Policies
       /\ KeptPolicies' \subseteq acked'["policies"] \cup InDoubtPolicies'
  BY <1>2, <1>4, <1>5 DEF RegistryInv, InDoubtPolicies, Others
<1>12. Kept' # Lost => \A q \in acked'["policies"] : \E x \in KeptPolicies' : x.id = q.id
  BY <1>2, <1>4 DEF RegistryInv, Others
<1>13. \A q \in Claims', x \in KeptPolicies' : x.id = q.id => x.tenant = q.tenant
  BY <1>4, <1>5, <1>7, <1>8 DEF RegistryInv, Others
<1>14. \A q \in Claims' : \E x \in registry' : x.id = q.id
  <2> SUFFICES ASSUME NEW q \in Claims'
               PROVE  \E x \in registry' : x.id = q.id
    OBVIOUS
  <2>1. CASE q.id = p.id
    BY <1>6, <2>1
  <2>2. CASE q.id # p.id
    <3>1. PICK x \in registry : x.id = q.id
      BY <1>1, <1>7, <2>2 DEF RegistryInv
    <3>2. x \in registry'
      BY <1>6, <2>2, <3>1 DEF Others
    <3>3. QED
      BY <3>1, <3>2
  <2>3. QED
    BY <2>1, <2>2
<1>15. QED
  BY <1>1, <1>9, <1>10, <1>11, <1>12, <1>13, <1>14 DEF RegistryInv

LEMMA PutRefused ==
  ASSUME TypeOK, StoreInv, RegistryInv, NEW p \in Policies, StaysWithTenant(p),
         Refused("policies", p), backend' = backend, registry' = registry
  PROVE  RegistryInv'
<1>1. up /\ up' /\ Contract!Fail("policies", p) /\ p \in Records
  BY RefusedStep, RecordTypes
<1>2. /\ acked' = acked /\ loose' = loose
      /\ failed'["policies"] = failed["policies"] \cup {p}
  BY DEF Refused, TypeOK, Tables
<1>3. \/ Kept' = Lost
      \/ Kept # Lost /\ Kept' = Kept
      \/ Kept # Lost /\ Kept'["policies"] = Others(Kept["policies"], p) \cup {p}
  <2>1. "policies" \in Tables /\ "policies" \in Upserted
    BY DEF Tables, Upserted
  <2>2. Kept' \in {Kept, Contract!Saved(Kept, "policies", p), Lost}
    BY <1>1 DEF Contract!Fail
  <2>3. CASE Kept = Lost
    BY <2>2, <2>3 DEF Contract!Saved
  <2>4. CASE Kept # Lost
    <3>1. Kept \in [Tables -> SUBSET Records]
      BY <2>4, KeptType
    <3>2. Contract!Saved(Kept, "policies", p)["policies"] = Others(Kept["policies"], p) \cup {p}
      BY <2>1, <2>4, <3>1 DEF Contract!Saved, Contract!With, Others
    <3>3. QED
      BY <2>2, <2>4, <3>2
  <2>5. QED
    BY <2>3, <2>4
<1>4. /\ Kept' # Lost => Kept # Lost
      /\ KeptPolicies' \in {{}, KeptPolicies, Others(KeptPolicies, p) \cup {p}}
      /\ Kept' # Lost => KeptPolicies' \in {KeptPolicies, Others(KeptPolicies, p) \cup {p}}
  BY <1>3 DEF KeptPolicies
<1>5. Claims' = Claims
  BY <1>2 DEF Claims
<1>6. \A q \in Claims : q.id = p.id => q.tenant = p.tenant
  BY <1>1, StaysWithClaims
<1>7. /\ acked'["policies"] \cup InDoubtPolicies' \subseteq Policies
      /\ KeptPolicies' \subseteq acked'["policies"] \cup InDoubtPolicies'
  BY <1>2, <1>4 DEF RegistryInv, InDoubtPolicies, Others
<1>8. Kept' # Lost => \A q \in acked'["policies"] : \E x \in KeptPolicies' : x.id = q.id
  BY <1>2, <1>4 DEF RegistryInv, Others
<1>9. \A q \in Claims', x \in KeptPolicies' : x.id = q.id => x.tenant = q.tenant
  BY <1>4, <1>5, <1>6 DEF RegistryInv, Others
<1>10. QED
  BY <1>1, <1>2, <1>5, <1>7, <1>8, <1>9 DEF RegistryInv, PublishedInForce,
     TenantFixed
LEMMA RegistryStop ==
  ASSUME TypeOK, StoreInv, RegistryInv, Stop
  PROVE  RegistryInv'
<1>1. up' = FALSE /\ Kept' = Kept
  BY StopStep DEF Contract!Stop
<1>2. /\ acked' = acked /\ registry' = {}
      /\ failed'["policies"] = {}
      /\ loose'["policies"] = loose["policies"] \cup failed["policies"]
  BY DEF Stop, TypeOK, Tables
<1>3. QED
  BY <1>1, <1>2 DEF RegistryInv, KeptPolicies, Claims, InDoubtPolicies,
     PublishedInForce, TenantFixed

LEMMA RegistryStart ==
  ASSUME TypeOK, StoreInv, RegistryInv, Start
  PROVE  RegistryInv'
<1>1. ~up /\ up' /\ Kept # Lost /\ Kept' = Kept /\ Seen' = Kept
  BY StartStep DEF Contract!Start
<1>2. /\ UNCHANGED <<acked, failed, loose>>
      /\ registry' = Overridden(Configured, KeptPolicies)
  BY <1>1 DEF Start, history, KeptPolicies
<1>3. /\ KeptPolicies' = KeptPolicies /\ Claims' = Claims
      /\ InDoubtPolicies' = InDoubtPolicies
      /\ KeptPolicies \subseteq acked["policies"] \cup loose["policies"]
  BY <1>1, <1>2 DEF RegistryInv, KeptPolicies, Claims, InDoubtPolicies
<1>4. \A q \in acked["policies"] : \E p \in KeptPolicies : p.id = q.id
  BY <1>1 DEF RegistryInv
<1>5. PublishedInForce'
  <2> SUFFICES ASSUME NEW x \in registry'
               PROVE  x \in Overridden(Configured, acked["policies"]) \cup loose["policies"]
    BY <1>2 DEF PublishedInForce
  <2>1. CASE x \in KeptPolicies
    BY <1>3, <2>1 DEF Overridden
  <2>2. CASE x \in Configured /\ \A q \in KeptPolicies : q.id # x.id
    BY <1>4, <2>2 DEF Overridden
  <2>3. QED
    BY <1>2, <2>1, <2>2 DEF Overridden
<1>6. TenantFixed'
  <2> SUFFICES ASSUME NEW x \in registry', NEW q \in Claims, x.id = q.id
               PROVE  x.tenant = q.tenant
    BY <1>3 DEF TenantFixed, Claims
  <2>1. CASE x \in KeptPolicies
    BY <2>1 DEF RegistryInv
  <2>2. CASE x \in Configured /\ \A z \in KeptPolicies : z.id # x.id
    <3>1. q \in Configured
      BY <1>4, <2>2 DEF Claims
    <3>2. QED
      BY <2>2, <3>1, ServiceAssumption
  <2>3. QED
    BY <1>2, <2>1, <2>2 DEF Overridden
<1>7. \A q \in Claims : \E p \in registry' : p.id = q.id
  <2> SUFFICES ASSUME NEW q \in Claims
               PROVE  \E p \in registry' : p.id = q.id
    OBVIOUS
  <2>1. CASE \E p \in KeptPolicies : p.id = q.id
    BY <1>2, <2>1 DEF Overridden
  <2>2. CASE \A p \in KeptPolicies : p.id # q.id
    BY <1>2, <1>4, <2>2 DEF Overridden, Claims
  <2>3. QED
    BY <2>1, <2>2
<1>8. QED
  BY <1>1, <1>2, <1>3, <1>5, <1>6, <1>7 DEF RegistryInv

(* The policies that start loads are policies.                             *)
LEMMA StartTypes ==
  ASSUME TypeOK, StoreInv, HandlerInv, RegistryInv, Start
  PROVE  TypeOK' /\ StoreInv' /\ HandlerInv'
<1>1. StoreInv' /\ up' = TRUE /\ ~up /\ Kept # Lost /\ Seen' = Kept
  BY StartStep DEF Contract!Start
<1>2. registry' = Overridden(Configured, KeptPolicies) /\ granted' = registry'
  BY <1>1 DEF Start, KeptPolicies
<1>3. registry' \subseteq Policies
  BY <1>2, ServiceAssumption DEF RegistryInv, Overridden
<1>4. UNCHANGED <<backend, pc, held, spend, acked, failed, loose, saves, restarts>>
  BY DEF Start, handlerVars, history
<1>5. TypeOK'
  BY <1>1, <1>2, <1>3, <1>4 DEF TypeOK, StoreInv
<1>6. QED
  BY <1>1, <1>2, <1>4, <1>5 DEF HandlerInv, SpendWithinGranted, TypeOK

-----------------------------------------------------------------------------
Inv == TypeOK /\ StoreInv /\ HandlerInv /\ RegistryInv

LEMMA InvInit == Init => Inv /\ Contract!Init
<1> SUFFICES ASSUME Init PROVE Inv /\ Contract!Init
  OBVIOUS
<1>1. TypeOK /\ StoreInv /\ HandlerInv
  BY HandlersInit
<1>2. ~up /\ troubles = {}
  BY DEF Init, File!Init
<1>3. Seen = Contract!Empty /\ Kept = Contract!Empty
  <2>1. CASE backend = "file"
    <3>1. Store!Init
      BY DEF Init, File!Init, Store!Init
    <3>2. Store!Contract!Init
      BY <3>1, TypesApart, Store!StoreInit
    <3>3. QED
      BY <2>1, <3>2, SameKept DEF Seen, Kept, Store!Contract!Init,
         Store!Contract!Empty, Contract!Empty
  <2>2. CASE backend = "postgres"
    BY <1>2, <2>2 DEF Init, Postgres!Init, Seen, Kept, Postgres!Visible,
       Contract!Empty
  <2>3. QED
    BY <2>1, <2>2 DEF Init
<1>4. Contract!Init
  BY <1>2, <1>3 DEF Contract!Init
<1>5. KeptPolicies = {}
  BY <1>3 DEF KeptPolicies, Contract!Empty, Tables
<1>6. RegistryInv
  BY <1>2, <1>5 DEF Init, RegistryInv, Claims, InDoubtPolicies, Tables,
     PublishedInForce, TenantFixed
<1>7. QED
  BY <1>1, <1>4, <1>6 DEF Inv

LEMMA InvNext ==
  ASSUME Inv, [Next]_vars
  PROVE  Inv' /\ [Contract!Next]_(Contract!vars)
<1> USE DEF Inv
<1>1. ASSUME NEW p \in Policies, Put(p)
      PROVE  Inv' /\ Contract!Next
  <2>1. p \in Records /\ "policies" \in Tables
    BY RecordTypes
  <2>2. Contract!Next
    BY <1>1, <2>1, SavedStep, RefusedStep DEF Put, Acknowledge, Contract!Next
  <2>3. RegistryInv'
    BY <1>1, PutSaved, PutRefused DEF Put
  <2>4. QED
    BY <1>1, <2>2, <2>3, PutTypes
<1>2. ASSUME NEW r \in Requests, Arrive(r)
      PROVE  Inv' /\ UNCHANGED Contract!vars
  <2>1. UNCHANGED Contract!vars
    BY <1>2, StoreIdle DEF Arrive
  <2>2. RegistryInv'
    BY <1>2, <2>1, RegistryIdle DEF Arrive, history, Contract!vars
  <2>3. QED
    BY <1>2, <2>1, <2>2, ArriveTypes
<1>3. ASSUME NEW r \in Requests, NEW completed \in BOOLEAN,
             pc[r] \in {"routed", "recorded"},
             \/ Saved("decisions", DecisionOf(r, completed))
             \/ Refused("decisions", DecisionOf(r, completed)),
             backend' = backend, registry' = registry
      PROVE  RegistryInv' /\ Contract!Next
  <2>1. DecisionOf(r, completed) \in Records /\ "decisions" \in Tables
    BY <1>3, DecisionType, RecordTypes
  <2>2. Contract!Next
    BY <1>3, <2>1, SavedStep, RefusedStep DEF Acknowledge, Contract!Next
  <2>3. RegistryInv'
    BY <1>3, <2>1, OtherTable
  <2>4. QED
    BY <2>2, <2>3
<1>4. ASSUME NEW r \in Requests, Reserve(r)
      PROVE  Inv' /\ UNCHANGED Contract!vars
  <2>1. UNCHANGED Contract!vars
    BY <1>4, StoreIdle DEF Reserve
  <2>2. RegistryInv'
    BY <1>4, <2>1, RegistryIdle DEF Reserve, history, Contract!vars
  <2>3. QED
    BY <1>4, <2>1, <2>2, ReserveTypes
<1>5. ASSUME NEW o \in Outcomes, Report(o)
      PROVE  Inv' /\ Contract!Next
  <2>1. /\ Saved("outcomes", o) \/ Refused("outcomes", o)
        /\ backend' = backend /\ registry' = registry
        /\ o \in Records /\ "outcomes" \in Tables
    BY <1>5, RecordTypes DEF Report
  <2>2. Contract!Next
    BY <2>1, SavedStep, RefusedStep DEF Acknowledge, Contract!Next
  <2>3. RegistryInv'
    BY <2>1, OtherTable
  <2>4. QED
    BY <1>5, <2>2, <2>3, ReportTypes
<1>6. CASE Stop
  BY <1>6, StopStep, StopTypes, RegistryStop DEF Contract!Next
<1>7. CASE Start
  BY <1>7, StartStep, StartTypes, RegistryStart DEF Contract!Next
<1>8. CASE UNCHANGED vars
  <2>1. StoreInv' /\ UNCHANGED Contract!vars
    BY <1>8, StoreIdle DEF vars
  <2>2. RegistryInv'
    BY <1>8, <2>1, RegistryIdle DEF vars, history, Contract!vars
  <2>3. TypeOK' /\ HandlerInv'
    BY <1>8, <2>1 DEF vars, handlerVars, history, TypeOK, StoreInv, HandlerInv,
       SpendWithinGranted
  <2>4. QED
    BY <2>1, <2>2, <2>3
<1>9. ASSUME NEW r \in Requests, Record(r)
      PROVE  Inv' /\ Contract!Next
  <2>1. /\ pc[r] = "routed" /\ backend' = backend /\ registry' = registry
        /\ \/ Saved("decisions", DecisionOf(r, FALSE))
           \/ Refused("decisions", DecisionOf(r, FALSE))
    BY <1>9 DEF Record
  <2>2. QED
    BY <1>3, <1>9, <2>1, RecordTypesKept
<1>10. ASSUME NEW r \in Requests, Complete(r)
       PROVE  Inv' /\ Contract!Next
  <2>1. /\ pc[r] = "recorded" /\ backend' = backend /\ registry' = registry
        /\ \/ Saved("decisions", DecisionOf(r, TRUE))
           \/ Refused("decisions", DecisionOf(r, TRUE))
    BY <1>10 DEF Complete
  <2>2. QED
    BY <1>3, <1>10, <2>1, CompleteTypes
<1>11. QED
  BY <1>1, <1>2, <1>4, <1>5, <1>6, <1>7, <1>8, <1>9, <1>10 DEF Next

LEMMA InvHolds == Spec => []Inv
BY InvInit, InvNext, PTL DEF Spec

(* The process keeps its types, for any requests, policies and tenants.    *)
THEOREM ServiceTypeCorrect == Spec => []TypeOK
<1>1. Inv => TypeOK
  BY DEF Inv
<1>2. QED
  BY <1>1, InvHolds, PTL

(* store.go:87-122, postgres.go:39-77, 138-151, main.go:34-62.  Whichever  *)
(* backend was chosen, whatever fails, whichever records are too long for a*)
(* file store to read back, and however often the process restarts, the    *)
(* service's use of it implements the audit store.                         *)
THEOREM ServiceImplements == Spec => ContractSpec
<1>1. Init => Contract!Init
  BY InvInit
<1>2. Inv /\ [Next]_vars => [Contract!Next]_(Contract!vars)
  BY InvNext
<1>3. Spec => Contract!Spec
  BY <1>1, <1>2, InvHolds, PTL DEF Spec, Contract!Spec
<1>4. QED
  BY <1>3 DEF ContractSpec

(* store.go:38-85, 297-320.  As long as no save reported an error and, of a*)
(* file store, none was of a record too long to be read back, readers see  *)
(* what a restart would find, and nothing keeps the process down.          *)
THEOREM ServiceTrustworthy == Spec => []Trustworthy
<1>1. Inv => Trustworthy
  <2> SUFFICES ASSUME StoreInv PROVE Contract!Trustworthy
    BY DEF Inv, Trustworthy
  <2>1. CASE backend = "file"
    <3>1. Store!StoreInv
      BY <2>1 DEF StoreInv
    <3>2. troubles = {} => Store!Kept # Lost /\ (up => memory = Store!Kept)
      BY <3>1, TypesApart, Store!LoadedType DEF Store!StoreInv
    <3>3. QED
      BY <2>1, <3>2, SameKept DEF Contract!Trustworthy, Seen, Kept
  <2>2. CASE backend = "postgres"
    BY <2>2, ServiceAssumption DEF StoreInv, Contract!Trustworthy, Seen, Kept,
       Postgres!Visible
  <2>3. QED
    BY <2>1, <2>2 DEF StoreInv
<1>2. QED
  BY <1>1, InvHolds, PTL

(* server.go:90, 385-394.  However many handlers hold policies replaced    *)
(* since, no more is reserved than the highest budget in force allowed.    *)
THEOREM SpendStaysGranted == Spec => []SpendWithinGranted
<1>1. Inv => SpendWithinGranted
  BY DEF Inv, HandlerInv
<1>2. QED
  BY <1>1, InvHolds, PTL

(* registry.go:59-75, main.go:58-64.  A policy whose publication failed in *)
(* this life is never in force, and an acknowledged one is not displaced.  *)
THEOREM PublishedStaysInForce == Spec => []PublishedInForce
<1>1. Inv => PublishedInForce
  BY DEF Inv, RegistryInv
<1>2. QED
  BY <1>1, InvHolds, PTL

(* registry.go:65-67.  An ID stays with the tenant it was first configured *)
(* or acknowledged for, across failing saves and restarts.                 *)
THEOREM TenantStaysFixed == Spec => []TenantFixed
<1>1. Inv => TenantFixed
  BY DEF Inv, RegistryInv
<1>2. QED
  BY <1>1, InvHolds, PTL
-----------------------------------------------------------------------------
(***************************************************************************)
(* What the readers of the audit store get.  AckedInv adds to AckedSurvives *)
(* what the next start will find: whatever was acknowledged, or a save of   *)
(* the same ID in doubt, and no ID less than the readers have.              *)
(***************************************************************************)

StandsIn(x, r, t, doubtful) ==
  /\ x.id = r.id
  /\ x = r \/ x \in doubtful \/ t \notin Upserted

Holds(content, acks, doubt) ==
  \A t \in Tables : \A r \in acks[t] :
    \E x \in content[t] : StandsIn(x, r, t, doubt[t])

DoubtNow == [t \in Tables |-> InDoubt(t)]
DoubtNext == [t \in Tables |-> failed[t] \cup loose[t]]

AckedInv ==
  /\ up => Holds(Seen, acked, DoubtNow)
  /\ Kept # Lost => Holds(Kept, acked, DoubtNext)
  /\ up /\ Kept # Lost =>
       \A t \in Tables : \A x \in Seen[t] : \E y \in Kept[t] : y.id = x.id
  /\ ~up => \A t \in Tables : failed[t] = {}

Covered(content, t, r) == t \notin Upserted /\ \E x \in content[t] : x.id = r.id

(* From acks to acks2, and from doubt to doubt2, by an acknowledgement.    *)
Acknowledges(acks, acks2, t, r) ==
  \A u \in Tables :
    acks2[u] = IF u = t THEN Others(acks[u], r) \cup {r} ELSE acks[u]

Relieves(doubt, doubt2, t, r) ==
  \A u \in Tables :
    doubt2[u] = IF u = t THEN Others(doubt[u], r) ELSE doubt[u]

After(content, t, r) ==
  [content EXCEPT ![t] = {x \in @ : t \in Upserted => x.id # r.id} \cup {r}]

(* The contents after a save that reported no error, and after one that    *)
(* did: then the memory of a file store is as before (store.go:87-122),    *)
(* and a table of PostgreSQL is what a restart would find.                 *)
LEMMA SavedContents ==
  ASSUME StoreInv, NEW t \in Tables, NEW r \in Records, Saved(t, r),
         backend' = backend
  PROVE  /\ up /\ up'
         /\ \/ /\ Seen' = After(Seen, t, r)
               /\ Kept' = Lost \/ (Kept # Lost /\ Kept' = After(Kept, t, r))
            \/ Covered(Seen, t, r) /\ Seen' = Seen /\ Kept' = Kept
<1>1. up /\ up' /\ Acknowledge(t, r)
  BY SavedStep
<1>2. Seen # Lost
  BY KeptType, ServiceAssumption
<1>3. QED
  BY <1>1, <1>2 DEF Acknowledge, Contract!Save, Contract!SaveLong,
     Contract!Saved, Contract!With, Contract!Taken, After, Covered

LEMMA RefusedContents ==
  ASSUME StoreInv, NEW t \in Tables, NEW r \in Records, Refused(t, r),
         backend' = backend
  PROVE  /\ up /\ up'
         /\ Kept' = Lost \/ (Kept # Lost /\ Kept' \in {Kept, After(Kept, t, r)})
         /\ \/ Seen' = Seen
            \/ /\ backend = "postgres"
               /\ Seen' = After(Seen, t, r) /\ Seen' = Kept'
<1>1. up /\ up' /\ Contract!Fail(t, r)
  BY RefusedStep
<1>2. Seen # Lost
  BY KeptType, ServiceAssumption
<1>3. /\ Seen' \in {Seen, After(Seen, t, r)}
      /\ Kept' = Lost \/ (Kept # Lost /\ Kept' \in {Kept, After(Kept, t, r)})
  BY <1>1, <1>2 DEF Contract!Fail, Contract!Saved, Contract!With, After
<1>4. backend = "file" => Seen' = Seen
  BY DEF Refused, File!Break, Seen
<1>5. backend = "postgres" => Seen' = Kept'
  BY <1>1 DEF Seen, Kept, Postgres!Visible
<1>6. QED
  BY <1>1, <1>3, <1>4, <1>5 DEF StoreInv

LEMMA AfterAt ==
  ASSUME NEW c \in [Tables -> SUBSET Records], NEW t \in Tables,
         NEW r \in Records
  PROVE  \A u \in Tables :
           After(c, t, r)[u] =
             IF u = t THEN {x \in c[t] : t \in Upserted => x.id # r.id} \cup {r}
             ELSE c[u]
BY DEF After

(* A save stands for what it acknowledges, and takes only records of its ID*)
(* out of doubt.                                                           *)
LEMMA SaveHolds ==
  ASSUME NEW c \in [Tables -> SUBSET Records], NEW t \in Tables,
         NEW r \in Records, NEW a, NEW D, Holds(c, a, D),
         NEW cc, cc = After(c, t, r) \/ (cc = c /\ Covered(c, t, r)),
         NEW aa, Acknowledges(a, aa, t, r), NEW DD, Relieves(D, DD, t, r)
  PROVE  Holds(cc, aa, DD)
<1> USE DEF Covered, Acknowledges, Relieves
<1> SUFFICES ASSUME NEW u \in Tables, NEW s \in aa[u]
             PROVE  \E x \in cc[u] : StandsIn(x, s, u, DD[u])
  BY DEF Holds
<1>0. \A v \in Tables :
        After(c, t, r)[v] =
          IF v = t THEN {x \in c[t] : t \in Upserted => x.id # r.id} \cup {r}
          ELSE c[v]
  BY AfterAt
<1>1. CASE u # t
  <2>1. cc[u] = c[u] /\ aa[u] = a[u] /\ DD[u] = D[u]
    BY <1>0, <1>1
  <2>2. QED
    BY <2>1 DEF Holds
<1>2. CASE u = t /\ s = r
  BY <1>0, <1>2 DEF StandsIn
<1>3. CASE u = t /\ s # r
  <2>1. s \in a[t] /\ s.id # r.id
    BY <1>3 DEF Others
  <2>2. PICK x \in c[t] : StandsIn(x, s, t, D[t])
    BY <2>1 DEF Holds
  <2>3. x \in cc[t]
    BY <1>0, <2>1, <2>2 DEF StandsIn
  <2>4. StandsIn(x, s, t, DD[t])
    BY <2>1, <2>2 DEF StandsIn, Others
  <2>5. QED
    BY <1>3, <2>3, <2>4
<1>4. QED
  BY <1>1, <1>2, <1>3

(* A save that reported an error replaces a record at most by one in doubt.*)
LEMMA RefuseHolds ==
  ASSUME NEW c \in [Tables -> SUBSET Records], NEW t \in Tables,
         NEW r \in Records, NEW a, NEW D, Holds(c, a, D),
         NEW DD, \A u \in Tables : D[u] \subseteq DD[u],
         NEW cc, cc = c \/ (cc = After(c, t, r) /\ r \in DD[t])
  PROVE  Holds(cc, a, DD)
<1> SUFFICES ASSUME NEW u \in Tables, NEW s \in a[u]
             PROVE  \E x \in cc[u] : StandsIn(x, s, u, DD[u])
  BY DEF Holds
<1>0. \A v \in Tables :
        After(c, t, r)[v] =
          IF v = t THEN {x \in c[t] : t \in Upserted => x.id # r.id} \cup {r}
          ELSE c[v]
  BY AfterAt
<1>1. PICK x \in c[u] : StandsIn(x, s, u, D[u])
  BY DEF Holds
<1>2. StandsIn(x, s, u, DD[u])
  BY <1>1 DEF StandsIn
<1>3. CASE x \in cc[u]
  BY <1>2, <1>3
<1>4. CASE x \notin cc[u]
  <2>1. cc = After(c, t, r) /\ r \in DD[t]
    BY <1>4
  <2>2. u = t /\ x.id = r.id /\ r \in cc[u]
    BY <1>0, <1>4, <2>1
  <2>3. StandsIn(r, s, u, DD[u])
    BY <1>1, <2>1, <2>2 DEF StandsIn
  <2>4. QED
    BY <2>2, <2>3
<1>5. QED
  BY <1>3, <1>4

LEMMA SavedAcked ==
  ASSUME TypeOK, StoreInv, AckedInv, NEW t \in Tables, NEW r \in Records,
         Saved(t, r), backend' = backend
  PROVE  AckedInv'
<1>1. /\ up /\ up'
      /\ \/ /\ Seen' = After(Seen, t, r)
            /\ Kept' = Lost \/ (Kept # Lost /\ Kept' = After(Kept, t, r))
         \/ Covered(Seen, t, r) /\ Seen' = Seen /\ Kept' = Kept
  BY SavedContents
<1>2. /\ Seen \in [Tables -> SUBSET Records]
      /\ Kept # Lost => Kept \in [Tables -> SUBSET Records]
  BY KeptType
<1>3. /\ Acknowledges(acked, acked', t, r)
      /\ \A u \in Tables :
           /\ failed'[u] = IF u = t THEN Others(failed[u], r) ELSE failed[u]
           /\ loose'[u] = IF u = t THEN Others(loose[u], r) ELSE loose[u]
  BY DEF Saved, TypeOK, Acknowledges
<1>4. /\ Relieves(DoubtNow, DoubtNow', t, r)
      /\ Relieves(DoubtNext, DoubtNext', t, r)
  BY <1>3 DEF DoubtNow, DoubtNext, InDoubt, Others, Relieves
<1>5. Holds(Seen', acked', DoubtNow')
  <2>1. Holds(Seen, acked, DoubtNow)
    BY <1>1 DEF AckedInv
  <2>2. QED
    BY <1>1, <1>2, <1>3, <1>4, <2>1, SaveHolds
<1>6. ASSUME Kept' # Lost
      PROVE  Holds(Kept', acked', DoubtNext')
  <2>1. /\ Kept # Lost
        /\ Kept' = After(Kept, t, r) \/ (Kept' = Kept /\ Covered(Seen, t, r))
    BY <1>1, <1>6
  <2>2. Kept' = After(Kept, t, r) \/ (Kept' = Kept /\ Covered(Kept, t, r))
    BY <1>1, <2>1 DEF AckedInv, Covered
  <2>3. Holds(Kept, acked, DoubtNext)
    BY <2>1 DEF AckedInv
  <2>4. QED
    BY <1>2, <1>3, <1>4, <2>1, <2>2, <2>3, SaveHolds
<1>7. ASSUME Kept' # Lost, NEW u \in Tables, NEW x \in Seen'[u]
      PROVE  \E y \in Kept'[u] : y.id = x.id
  <2>1. Kept # Lost /\ \A z \in Seen[u] : \E y \in Kept[u] : y.id = z.id
    BY <1>1, <1>7 DEF AckedInv
  <2>2. CASE Seen' = After(Seen, t, r) /\ Kept' = After(Kept, t, r)
    <3>1. /\ Seen'[u] =
               IF u = t THEN {z \in Seen[t] : t \in Upserted => z.id # r.id} \cup {r}
               ELSE Seen[u]
          /\ Kept'[u] =
               IF u = t THEN {z \in Kept[t] : t \in Upserted => z.id # r.id} \cup {r}
               ELSE Kept[u]
      BY <1>2, <2>1, <2>2 DEF After
    <3>2. QED
      BY <1>7, <2>1, <3>1
  <2>3. CASE Seen' = Seen /\ Kept' = Kept
    BY <1>7, <2>1, <2>3
  <2>4. QED
    BY <1>1, <1>7, <2>1, <2>2, <2>3
<1>8. QED
  BY <1>1, <1>5, <1>6, <1>7 DEF AckedInv, Holds, StandsIn

LEMMA RefusedAcked ==
  ASSUME TypeOK, StoreInv, AckedInv, NEW t \in Tables, NEW r \in Records,
         Refused(t, r), backend' = backend
  PROVE  AckedInv'
<1>1. /\ up /\ up'
      /\ Kept' = Lost \/ (Kept # Lost /\ Kept' \in {Kept, After(Kept, t, r)})
      /\ \/ Seen' = Seen
         \/ /\ backend = "postgres"
            /\ Seen' = After(Seen, t, r) /\ Seen' = Kept'
  BY RefusedContents
<1>2. /\ Seen \in [Tables -> SUBSET Records]
      /\ Kept # Lost => Kept \in [Tables -> SUBSET Records]
  BY KeptType
<1>3. /\ acked' = acked /\ loose' = loose
      /\ \A u \in Tables : failed[u] \subseteq failed'[u]
      /\ r \in failed'[t]
  BY DEF Refused, TypeOK
<1>4. /\ \A u \in Tables : DoubtNow[u] \subseteq DoubtNow'[u]
      /\ \A u \in Tables : DoubtNext[u] \subseteq DoubtNext'[u]
      /\ backend = "postgres" => r \in DoubtNow'[t]
      /\ r \in DoubtNext'[t]
  BY <1>3 DEF DoubtNow, DoubtNext, InDoubt
<1>5. Holds(Seen', acked', DoubtNow')
  <2>1. Holds(Seen, acked, DoubtNow)
    BY <1>1 DEF AckedInv
  <2>2. QED
    BY <1>1, <1>2, <1>3, <1>4, <2>1, RefuseHolds
<1>6. ASSUME Kept' # Lost
      PROVE  Holds(Kept', acked', DoubtNext')
  <2>1. Kept # Lost /\ Kept' \in {Kept, After(Kept, t, r)}
    BY <1>1, <1>6
  <2>2. Holds(Kept, acked, DoubtNext)
    BY <2>1 DEF AckedInv
  <2>3. QED
    BY <1>2, <1>3, <1>4, <2>1, <2>2, RefuseHolds
<1>7. ASSUME Kept' # Lost, NEW u \in Tables, NEW x \in Seen'[u]
      PROVE  \E y \in Kept'[u] : y.id = x.id
  <2>1. CASE Seen' = Seen
    <3>1. Kept # Lost /\ \A z \in Seen[u] : \E y \in Kept[u] : y.id = z.id
      BY <1>1, <1>7 DEF AckedInv
    <3>2. Kept' \in {Kept, After(Kept, t, r)}
      BY <1>1, <1>7
    <3>3. Kept' = After(Kept, t, r) =>
            Kept'[u] =
              IF u = t THEN {z \in Kept[t] : t \in Upserted => z.id # r.id} \cup {r}
              ELSE Kept[u]
      BY <1>2, <3>1 DEF After
    <3>4. QED
      BY <1>7, <2>1, <3>1, <3>2, <3>3
  <2>2. CASE Seen' = Kept'
    BY <1>7, <2>2
  <2>3. QED
    BY <1>1, <2>1, <2>2
<1>8. QED
  BY <1>1, <1>5, <1>6, <1>7 DEF AckedInv, Holds, StandsIn

LEMMA IdleAcked ==
  ASSUME AckedInv,
         UNCHANGED <<backend, up, Seen, Kept, acked, failed, loose>>
  PROVE  AckedInv'
BY DEF AckedInv, Holds, StandsIn, DoubtNow, DoubtNext, InDoubt

(* What was in doubt stays in doubt when the process ends, and is all that *)
(* may stand for an acknowledged record when it starts (store.go:38-85).   *)
LEMMA StopAcked ==
  ASSUME TypeOK, StoreInv, AckedInv, Stop
  PROVE  AckedInv'
<1>1. up' = FALSE /\ Kept' = Kept
  BY StopStep DEF Contract!Stop
<1>2. /\ acked' = acked
      /\ \A t \in Tables : failed'[t] = {} /\ loose'[t] = loose[t] \cup failed[t]
  BY DEF Stop
<1>3. \A t \in Tables : DoubtNext'[t] = DoubtNext[t]
  BY <1>2 DEF DoubtNext
<1>4. Kept # Lost => Holds(Kept, acked, DoubtNext')
  BY <1>3 DEF AckedInv, Holds
<1>5. QED
  BY <1>1, <1>2, <1>4 DEF AckedInv, Holds, StandsIn

LEMMA StartAcked ==
  ASSUME TypeOK, StoreInv, AckedInv, Start
  PROVE  AckedInv'
<1>1. ~up /\ up' = TRUE /\ Kept # Lost /\ Kept' = Kept /\ Seen' = Kept
  BY StartStep DEF Contract!Start
<1>2. UNCHANGED <<backend, acked, failed, loose>>
  BY DEF Start, history
<1>3. \A t \in Tables : DoubtNext[t] \subseteq DoubtNow'[t]
  BY <1>1, <1>2 DEF AckedInv, DoubtNext, DoubtNow, InDoubt
<1>4. Holds(Kept, acked, DoubtNext)
  BY <1>1 DEF AckedInv
<1>5. Holds(Kept, acked, DoubtNow')
  BY <1>3, <1>4 DEF Holds, StandsIn
<1>6. DoubtNext' = DoubtNext
  BY <1>2 DEF DoubtNext
<1>7. QED
  BY <1>1, <1>2, <1>4, <1>5, <1>6 DEF AckedInv, Holds, StandsIn
-----------------------------------------------------------------------------
(***************************************************************************)
(* Outcomes and their decisions, in what readers get and in what the next  *)
(* start finds.  All records of one decision have the policy its handler   *)
(* held, so an outcome that could be joined once always can be.            *)
(***************************************************************************)

Active == {"routed", "recorded"}

Readings == {Seen, Kept} \ {Lost}

Attached(c) ==
  \A o \in c["outcomes"] : \E d \in c["decisions"] :
    d.id = o.decision /\ d.policy.tenant = o.tenant

JoinInv ==
  /\ \A c \in Readings : Attached(c)
  /\ \A b, c \in Readings : \A d \in b["decisions"], e \in c["decisions"] :
       d.id = e.id => d.policy = e.policy
  /\ \A c \in Readings : \A d \in c["decisions"], r \in Requests :
       d.id = r => /\ pc[r] # "idle"
                   /\ pc[r] \in Active => d.policy = held[r]

LEMMA ReadingsStep ==
  ASSUME StoreInv, NEW t \in Tables, NEW r \in Records,
         Saved(t, r) \/ Refused(t, r), backend' = backend
  PROVE  \A cc \in Readings' : \E c \in Readings : \A u \in Tables :
           \/ cc[u] = c[u]
           \/ /\ u = t
              /\ cc[u] = {x \in c[u] : u \in Upserted => x.id # r.id} \cup {r}
<1>1. /\ Seen \in [Tables -> SUBSET Records] /\ Seen \in Readings
      /\ Kept # Lost => /\ Kept \in [Tables -> SUBSET Records]
                        /\ Kept \in Readings
  BY KeptType, ServiceAssumption DEF Readings
<1>2. /\ Seen' \in {Seen, After(Seen, t, r)}
      /\ Kept' # Lost => Kept # Lost /\ Kept' \in {Kept, After(Kept, t, r)}
  <2>1. CASE Saved(t, r)
    BY <2>1, SavedContents
  <2>2. CASE Refused(t, r)
    BY <2>2, RefusedContents
  <2>3. QED
    BY <2>1, <2>2
<1>3. \A cc \in Readings' : \E c \in Readings :
        c \in [Tables -> SUBSET Records] /\ cc \in {c, After(c, t, r)}
  BY <1>1, <1>2 DEF Readings
<1>4. ASSUME NEW cc \in Readings', NEW c \in [Tables -> SUBSET Records],
             cc \in {c, After(c, t, r)}, NEW u \in Tables
      PROVE  \/ cc[u] = c[u]
             \/ /\ u = t
                /\ cc[u] = {x \in c[u] : u \in Upserted => x.id # r.id} \cup {r}
  BY <1>4 DEF After
<1>5. QED
  BY <1>3, <1>4

(* server.go:96, 143-195.  A handler that saves its decision.              *)
LEMMA DecisionJoins ==
  ASSUME TypeOK, StoreInv, HandlerInv, JoinInv, NEW r \in Requests,
         pc[r] \in Active, NEW completed \in BOOLEAN,
         \/ Saved("decisions", DecisionOf(r, completed))
         \/ Refused("decisions", DecisionOf(r, completed)),
         backend' = backend, held' = held,
         \A q \in Requests : /\ pc[q] # "idle" => pc'[q] # "idle"
                             /\ pc'[q] \in Active => pc[q] \in Active
  PROVE  JoinInv'
<1> DEFINE x == DecisionOf(r, completed)
<1>1. x \in Records /\ x.id = r /\ x.policy = held[r]
  BY DecisionType DEF DecisionOf, Active
<1>2. \A cc \in Readings' : \E c \in Readings :
        /\ cc["outcomes"] = c["outcomes"]
        /\ \/ cc["decisions"] = c["decisions"]
           \/ cc["decisions"] = {d \in c["decisions"] : d.id # r} \cup {x}
  <2>1. "decisions" \in Tables /\ "outcomes" \in Tables /\ "decisions" \in Upserted
    BY DEF Tables, Upserted
  <2>2. \A cc \in Readings' : \E c \in Readings : \A u \in Tables :
          \/ cc[u] = c[u]
          \/ /\ u = "decisions"
             /\ cc[u] = {d \in c[u] : u \in Upserted => d.id # x.id} \cup {x}
    BY <1>1, <2>1, ReadingsStep
  <2> HIDE DEF x
  <2>3. QED
    BY <1>1, <2>1, <2>2
<1> HIDE DEF x
<1>3. \A c \in Readings : \A d \in c["decisions"] :
        d.id = r => d.policy = held[r]
  BY DEF JoinInv
<1>4. \A cc \in Readings' : \A d \in cc["decisions"] :
        \/ d.id = r /\ d.policy = held[r]
        \/ d.id # r /\ \E c \in Readings : d \in c["decisions"]
  BY <1>1, <1>2, <1>3
<1>5. ASSUME NEW cc \in Readings'
      PROVE  Attached(cc)
  <2>1. PICK c \in Readings :
          /\ cc["outcomes"] = c["outcomes"]
          /\ \/ cc["decisions"] = c["decisions"]
             \/ cc["decisions"] = {d \in c["decisions"] : d.id # r} \cup {x}
    BY <1>2
  <2>2. Attached(c)
    BY DEF JoinInv
  <2>3. QED
    BY <1>1, <1>3, <2>1, <2>2 DEF Attached
<1>6. \A b, c \in Readings' : \A d \in b["decisions"], e \in c["decisions"] :
        d.id = e.id => d.policy = e.policy
  BY <1>4 DEF JoinInv
<1>7. \A c \in Readings' : \A d \in c["decisions"], q \in Requests :
        d.id = q => /\ pc'[q] # "idle"
                    /\ pc'[q] \in Active => d.policy = held'[q]
  BY <1>4 DEF JoinInv, Active
<1>8. QED
  BY <1>5, <1>6, <1>7 DEF JoinInv, Attached

(* server.go:222-227.  Anything else that is saved: an outcome is joined to*)
(* what its handler found, which every later start has a record of.        *)
LEMMA OtherJoins ==
  ASSUME StoreInv, JoinInv, NEW t \in Tables, t # "decisions",
         NEW x \in Records, Saved(t, x) \/ Refused(t, x),
         UNCHANGED <<backend, handlerVars>>,
         t = "outcomes" => \A c \in Readings : \E d \in c["decisions"] :
                             d.id = x.decision /\ d.policy.tenant = x.tenant
  PROVE  JoinInv'
<1>1. \A cc \in Readings' : \E c \in Readings :
        /\ cc["decisions"] = c["decisions"]
        /\ \/ cc["outcomes"] = c["outcomes"]
           \/ /\ cc["outcomes"] \subseteq c["outcomes"] \cup {x}
              /\ t = "outcomes"
  <2>1. "decisions" \in Tables /\ "outcomes" \in Tables
    BY DEF Tables
  <2>2. QED
    BY <2>1, ReadingsStep
<1>2. ASSUME NEW cc \in Readings'
      PROVE  Attached(cc)
  <2>1. PICK c \in Readings :
          /\ cc["decisions"] = c["decisions"]
          /\ \/ cc["outcomes"] = c["outcomes"]
             \/ /\ cc["outcomes"] \subseteq c["outcomes"] \cup {x}
                /\ t = "outcomes"
    BY <1>1
  <2>2. Attached(c)
    BY DEF JoinInv
  <2>3. QED
    BY <2>1, <2>2 DEF Attached
<1>3. \A cc \in Readings' : \A d \in cc["decisions"] :
        \E c \in Readings : d \in c["decisions"]
  BY <1>1
<1>4. \A b, c \in Readings' : \A d \in b["decisions"], e \in c["decisions"] :
        d.id = e.id => d.policy = e.policy
  BY <1>3 DEF JoinInv
<1>5. \A c \in Readings' : \A d \in c["decisions"], q \in Requests :
        d.id = q => /\ pc'[q] # "idle"
                    /\ pc'[q] \in Active => d.policy = held'[q]
  BY <1>3 DEF JoinInv, handlerVars
<1>6. QED
  BY <1>2, <1>4, <1>5 DEF JoinInv, Attached

(* Steps that save nothing: no decision of a request that has not arrived. *)
LEMMA ArriveJoins ==
  ASSUME TypeOK, JoinInv, UNCHANGED <<Seen, Kept>>,
         NEW r \in Requests, Arrive(r)
  PROVE  JoinInv'
<1>1. /\ \A q \in Requests : q # r => pc'[q] = pc[q] /\ held'[q] = held[q]
      /\ pc[r] = "idle"
  BY DEF Arrive, TypeOK
<1>2. Readings' = Readings
  BY DEF Readings
<1>3. \A c \in Readings' : \A d \in c["decisions"], q \in Requests :
        d.id = q => /\ pc'[q] # "idle"
                    /\ pc'[q] \in Active => d.policy = held'[q]
  BY <1>1, <1>2 DEF JoinInv
<1>4. QED
  BY <1>2, <1>3 DEF JoinInv, Attached

LEMMA IdleJoins ==
  ASSUME JoinInv, UNCHANGED <<Seen, Kept, pc, held>>
  PROVE  JoinInv'
<1>1. Readings' = Readings
  BY DEF Readings
<1>2. QED
  BY <1>1 DEF JoinInv, Attached

LEMMA StopJoins ==
  ASSUME TypeOK, StoreInv, JoinInv, Stop
  PROVE  JoinInv'
<1>1. Kept' = Kept /\ Seen' = Contract!Empty
  BY StopStep DEF Contract!Stop
<1>2. \A t \in Tables : Seen'[t] = {}
  BY <1>1 DEF Contract!Empty
<1>3. ASSUME NEW c \in Readings'
      PROVE  c \in Readings \/ (c["decisions"] = {} /\ c["outcomes"] = {})
  <2>1. c # Lost /\ (c = Kept \/ c = Seen')
    BY <1>1 DEF Readings
  <2>2. Seen'["decisions"] = {} /\ Seen'["outcomes"] = {}
    BY <1>2 DEF Tables
  <2>3. QED
    BY <2>1, <2>2 DEF Readings
<1>4. \A r \in Requests : /\ pc[r] # "idle" => pc'[r] # "idle"
                          /\ pc'[r] \notin Active
  BY DEF Stop, TypeOK, Active
<1>5. \A c \in Readings' : Attached(c)
  BY <1>3 DEF JoinInv, Attached
<1>6. \A b, c \in Readings' : \A d \in b["decisions"], e \in c["decisions"] :
        d.id = e.id => d.policy = e.policy
  BY <1>3 DEF JoinInv
<1>7. \A c \in Readings' : \A d \in c["decisions"], q \in Requests :
        d.id = q => /\ pc'[q] # "idle"
                    /\ pc'[q] \in Active => d.policy = held'[q]
  BY <1>3, <1>4 DEF JoinInv
<1>8. QED
  BY <1>5, <1>6, <1>7 DEF JoinInv, Attached

LEMMA StartJoins ==
  ASSUME StoreInv, JoinInv, Start
  PROVE  JoinInv'
<1>1. Kept # Lost /\ Kept' = Kept /\ Seen' = Kept
  BY StartStep DEF Contract!Start
<1>2. UNCHANGED <<pc, held>>
  BY DEF Start, handlerVars
<1>3. Readings' \subseteq Readings
  BY <1>1 DEF Readings
<1>4. QED
  BY <1>2, <1>3 DEF JoinInv, Attached

LEMMA ReportJoins ==
  ASSUME StoreInv, AckedInv, JoinInv, NEW o \in Outcomes, Report(o)
  PROVE  JoinInv'
<1>1. /\ Saved("outcomes", o) \/ Refused("outcomes", o)
      /\ UNCHANGED <<backend, handlerVars>>
      /\ o \in Records /\ "outcomes" \in Tables /\ "decisions" \in Tables
  BY RecordTypes DEF Report
<1>2. up
  BY <1>1, SavedStep, RefusedStep
<1>3. PICK d \in Seen["decisions"] : d.id = o.decision /\ d.policy.tenant = o.tenant
  BY DEF Report
<1>4. ASSUME NEW c \in Readings
      PROVE  \E e \in c["decisions"] :
               e.id = o.decision /\ e.policy.tenant = o.tenant
  <2>1. CASE c = Seen
    BY <1>3, <2>1
  <2>2. CASE c = Kept
    <3>1. Seen \in Readings /\ Kept # Lost
      BY <2>2, KeptType, ServiceAssumption DEF Readings
    <3>2. PICK e \in Kept["decisions"] : e.id = d.id
      BY <1>1, <1>2, <3>1 DEF AckedInv
    <3>3. e.policy = d.policy
      BY <2>2, <3>1, <3>2 DEF JoinInv
    <3>4. QED
      BY <1>3, <2>2, <3>2, <3>3
  <2>3. QED
    BY <2>1, <2>2 DEF Readings
<1>5. QED
  BY <1>1, <1>4, OtherJoins
-----------------------------------------------------------------------------
ReadInv == AckedInv /\ JoinInv

LEMMA ReadInit == Init => ReadInv
<1> SUFFICES ASSUME Init PROVE ReadInv
  OBVIOUS
<1>1. Contract!Init
  BY InvInit
<1>2. /\ ~up /\ Seen = Contract!Empty /\ Kept = Contract!Empty
      /\ \A t \in Tables : Contract!Empty[t] = {} /\ acked[t] = {} /\ failed[t] = {}
  BY <1>1 DEF Contract!Init, Contract!Empty, Init
<1>3. AckedInv
  BY <1>2 DEF AckedInv, Holds
<1>4. JoinInv
  BY <1>2 DEF JoinInv, Readings, Attached, Tables
<1>5. QED
  BY <1>3, <1>4 DEF ReadInv

LEMMA ReadNext ==
  ASSUME Inv, ReadInv, [Next]_vars
  PROVE  ReadInv'
<1> USE DEF ReadInv
<1>0. TypeOK /\ StoreInv /\ HandlerInv
  BY DEF Inv
<1>1. ASSUME NEW t \in Tables, NEW x \in Records, Saved(t, x) \/ Refused(t, x),
             backend' = backend
      PROVE  AckedInv'
  BY <1>0, <1>1, SavedAcked, RefusedAcked
<1>2. ASSUME NEW p \in Policies, Put(p)  PROVE ReadInv'
  <2>1. /\ Saved("policies", p) \/ Refused("policies", p)
        /\ UNCHANGED <<backend, handlerVars>>
        /\ p \in Records /\ "policies" \in Tables
    BY <1>2, RecordTypes DEF Put
  <2>2. QED
    BY <1>0, <1>1, <2>1, OtherJoins
<1>3. ASSUME NEW r \in Requests, Arrive(r)  PROVE ReadInv'
  <2>1. UNCHANGED <<backend, up, Seen, Kept, acked, failed, loose>>
    BY <1>0, <1>3, StoreIdle DEF Arrive, history, Contract!vars
  <2>2. QED
    BY <1>0, <1>3, <2>1, IdleAcked, ArriveJoins
<1>4. ASSUME NEW r \in Requests, Reserve(r)  PROVE ReadInv'
  <2>1. UNCHANGED <<backend, up, Seen, Kept, acked, failed, loose, pc, held>>
    BY <1>0, <1>4, StoreIdle DEF Reserve, history, handlerVars, Contract!vars
  <2>2. QED
    BY <2>1, IdleAcked, IdleJoins
<1>5. ASSUME NEW r \in Requests, NEW completed \in BOOLEAN, pc[r] \in Active,
             \/ Saved("decisions", DecisionOf(r, completed))
             \/ Refused("decisions", DecisionOf(r, completed)),
             backend' = backend, held' = held,
             \A q \in Requests : /\ pc[q] # "idle" => pc'[q] # "idle"
                                 /\ pc'[q] \in Active => pc[q] \in Active
      PROVE  ReadInv'
  <2>1. DecisionOf(r, completed) \in Records /\ "decisions" \in Tables
    BY <1>0, <1>5, DecisionType, RecordTypes DEF Active
  <2>2. AckedInv'
    BY <1>1, <1>5, <2>1
  <2>3. JoinInv'
    BY <1>0, <1>5, DecisionJoins
  <2>4. QED
    BY <2>2, <2>3
<1>6. ASSUME NEW r \in Requests, Record(r)  PROVE ReadInv'
  <2>1. /\ pc[r] \in Active /\ backend' = backend /\ held' = held
        /\ \/ Saved("decisions", DecisionOf(r, FALSE))
           \/ Refused("decisions", DecisionOf(r, FALSE))
        /\ \A q \in Requests : /\ pc[q] # "idle" => pc'[q] # "idle"
                               /\ pc'[q] \in Active => pc[q] \in Active
    BY <1>0, <1>6 DEF Record, TypeOK, Active
  <2>2. QED
    BY <1>5, <2>1
<1>7. ASSUME NEW r \in Requests, Complete(r)  PROVE ReadInv'
  <2>1. /\ pc[r] \in Active /\ backend' = backend /\ held' = held
        /\ \/ Saved("decisions", DecisionOf(r, TRUE))
           \/ Refused("decisions", DecisionOf(r, TRUE))
        /\ \A q \in Requests : /\ pc[q] # "idle" => pc'[q] # "idle"
                               /\ pc'[q] \in Active => pc[q] \in Active
    BY <1>0, <1>7 DEF Complete, TypeOK, Active
  <2>2. QED
    BY <1>5, <2>1
<1>8. ASSUME NEW o \in Outcomes, Report(o)  PROVE ReadInv'
  <2>1. /\ Saved("outcomes", o) \/ Refused("outcomes", o)
        /\ backend' = backend /\ o \in Records /\ "outcomes" \in Tables
    BY <1>8, RecordTypes DEF Report
  <2>2. QED
    BY <1>0, <1>1, <1>8, <2>1, ReportJoins
<1>9. CASE Stop
  BY <1>0, <1>9, StopAcked, StopJoins
<1>10. CASE Start
  BY <1>0, <1>10, StartAcked, StartJoins
<1>11. CASE UNCHANGED vars
  <2>1. UNCHANGED <<backend, up, Seen, Kept, acked, failed, loose, pc, held>>
    BY <1>0, <1>11, StoreIdle DEF vars, history, handlerVars, Contract!vars
  <2>2. QED
    BY <2>1, IdleAcked, IdleJoins
<1>12. QED
  BY <1>2, <1>3, <1>4, <1>6, <1>7, <1>8, <1>9, <1>10, <1>11 DEF Next

LEMMA ReadInvHolds == Spec => []ReadInv
BY ReadInit, ReadNext, InvHolds, PTL DEF Spec

(* store.go:38-122, postgres.go:39-77.  What was acknowledged is read back *)
(* in this life of the process and in every later one, from either backend,*)
(* whichever saves fail and however often the process restarts.            *)
THEOREM AckedStays == Spec => []AckedSurvives
<1>1. Inv /\ ReadInv => AckedSurvives
  <2> SUFFICES ASSUME ReadInv, up, NEW t \in Tables, NEW r \in acked[t]
               PROVE  \E x \in Seen[t] : Stands(x, r, t)
    BY DEF AckedSurvives
  <2>1. \E x \in Seen[t] : StandsIn(x, r, t, DoubtNow[t])
    BY DEF ReadInv, AckedInv, Holds
  <2>2. QED
    BY <2>1 DEF StandsIn, Stands, DoubtNow
<1>2. QED
  BY <1>1, InvHolds, ReadInvHolds, PTL

(* server.go:222-227.  Every outcome a reader finds can be joined to its   *)
(* decision, by the tenant that reported it, also after a restart.         *)
THEOREM OutcomesStayAttached == Spec => []OutcomesAttached
<1>1. Inv /\ ReadInv => OutcomesAttached
  <2> SUFFICES ASSUME Inv, ReadInv PROVE OutcomesAttached
    OBVIOUS
  <2>1. Seen \in Readings
    BY KeptType, ServiceAssumption DEF Inv, Readings
  <2>2. QED
    BY <2>1 DEF ReadInv, JoinInv, Attached, OutcomesAttached
<1>2. QED
  BY <1>1, InvHolds, ReadInvHolds, PTL
=============================================================================
