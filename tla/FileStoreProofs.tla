-------------------------- MODULE FileStoreProofs ---------------------------
(***************************************************************************)
(* The files and the maps implement the contract, for any tables and       *)
(* records.  What the maps and the files have in common is lost only       *)
(* through a line that cannot be read back, and every such line is too     *)
(* long, was left by a save that reported an error, or stands where such a *)
(* save left a line without its newline: hence StoreInv.                   *)
(***************************************************************************)
EXTENDS FileStore, TLAPS

(* What distinguishes the two error values from records and contents, and  *)
(* that the long lines are lines of records.                               *)
Distinct ==
  /\ Torn \notin Records
  /\ Long \subseteq Records
  /\ Lost \notin [Tables -> SUBSET Records]

StoreInv ==
  /\ TypeOK
  /\ \A t \in Tables : open[t] => troubles # {} /\ Len(files[t]) > 0
  /\ troubles = {} => Readable /\ (up => memory = [t \in Tables |-> Loaded(t)])

-----------------------------------------------------------------------------
(***************************************************************************)
(* What a line does to what a start would find.                            *)
(***************************************************************************)

(* store.go:283-320.  A whole line behind whole lines replaces the lines of *)
(* its ID, and no others.                                                  *)
LEMMA WholeLine ==
  ASSUME TypeOK, NEW t \in Tables, NEW r \in Records, NEW unfinished,
         ~open[t], Write(t, r, unfinished)
  PROVE  Loaded(t)' = Updated(t, Loaded(t), r)
<1> DEFINE n == Len(files[t])
           f == files[t]
           g == files'[t]
<1>1. f \in Seq(Records \cup {Torn}) /\ g = Append(f, r)
  BY DEF TypeOK, Write, Added
<1>2. /\ n \in Nat
      /\ DOMAIN f = 1..n
      /\ DOMAIN g = 1..(n + 1)
      /\ g[n + 1] = r
      /\ \A k \in 1..n : g[k] = f[k]
  BY <1>1
<1>3. LastingLines(t)' =
        {k \in LastingLines(t) : t \in Upserted => f[k].id # r.id} \cup {n + 1}
  <2> HIDE DEF n, f, g
  <2>1. LastingLines(t)' =
          {k \in 1..(n + 1) :
             t \in Upserted => \A j \in 1..(n + 1) : j > k => g[j].id # g[k].id}
    BY <1>2 DEF LastingLines, g
  <2>2. LastingLines(t) =
          {k \in 1..n : t \in Upserted => \A j \in 1..n : j > k => f[j].id # f[k].id}
    BY <1>2 DEF LastingLines, f
  <2>3. QED
    BY <1>2, <2>1, <2>2
<1>4. QED
  <2>1. Loaded(t)' = {g[k] : k \in LastingLines(t)'}
    BY DEF Loaded
  <2>2. Loaded(t) = {f[k] : k \in LastingLines(t)}
    BY DEF Loaded
  <2>3. LastingLines(t) \subseteq 1..n
    BY <1>2 DEF LastingLines
  <2> HIDE DEF n, f, g
  <2>4. QED
    BY <1>2, <1>3, <2>1, <2>2, <2>3 DEF Updated

(* store.go:297-320.  A file with a line that cannot be read stays one: it *)
(* is kept, or lengthened to one that does not decode.                     *)
LEMMA UnreadableStays ==
  ASSUME TypeOK, NEW t \in Tables, NEW line \in Records \cup {Torn},
         NEW unfinished, Write(t, line, unfinished), ~Readable
  PROVE  ~Readable'
<1>1. PICK s \in Tables : \E i \in DOMAIN files[s] : Unreadable(files[s][i])
  BY DEF Readable
<1>2. PICK i \in DOMAIN files[s] : Unreadable(files[s][i])
  BY <1>1
<1>3. /\ i \in DOMAIN files'[s]
      /\ files'[s][i] = files[s][i] \/ files'[s][i] = Torn
  <2>1. CASE s # t
    BY <1>2, <2>1 DEF Write, TypeOK
  <2>2. CASE s = t /\ open[t]
    <3>1. files'[t] = [files[t] EXCEPT ![Len(files[t])] = Torn]
      BY <2>2 DEF Write, Added, TypeOK
    <3>2. QED
      BY <1>2, <2>2, <3>1 DEF TypeOK
  <2>3. CASE s = t /\ ~open[t]
    <3>1. files'[t] = Append(files[t], line)
      BY <2>3 DEF Write, Added, TypeOK
    <3>2. QED
      BY <1>2, <2>3, <3>1 DEF TypeOK
  <2>4. QED
    BY <2>1, <2>2, <2>3
<1>4. QED
  BY <1>2, <1>3 DEF Readable, Unreadable

(* store.go:283-320.  Neither half a line, nor a line behind half a line,  *)
(* nor a line too long for the scanner can be read back.                   *)
LEMMA BrokenLine ==
  ASSUME StoreInv, NEW t \in Tables, NEW line \in Records \cup {Torn},
         NEW unfinished, Write(t, line, unfinished),
         open[t] \/ Unreadable(line)
  PROVE  ~Readable'
<1>1. CASE open[t]
  <2>1. files'[t] = [files[t] EXCEPT ![Len(files[t])] = Torn]
    BY <1>1 DEF Write, Added, StoreInv, TypeOK
  <2>2. Len(files[t]) \in DOMAIN files[t] /\ DOMAIN files'[t] = DOMAIN files[t]
    BY <1>1, <2>1 DEF StoreInv, TypeOK
  <2>3. QED
    BY <2>1, <2>2 DEF Readable, Unreadable
<1>2. CASE ~open[t]
  <2>1. files'[t] = Append(files[t], line) /\ files[t] \in Seq(Records \cup {Torn})
    BY <1>2 DEF Write, Added, StoreInv, TypeOK
  <2>2. Len(files[t]) + 1 \in DOMAIN files'[t] /\ files'[t][Len(files[t]) + 1] = line
    BY <2>1
  <2>3. QED
    BY <1>2, <2>2 DEF Readable
<1>3. QED
  BY <1>1, <1>2

(* A readable store holds records only, and is not mistaken for a lost one.*)
LEMMA LoadedType ==
  ASSUME Distinct, TypeOK, Readable
  PROVE  /\ \A t \in Tables : Loaded(t) \subseteq Records
         /\ Kept = [t \in Tables |-> Loaded(t)]
         /\ Kept \in [Tables -> SUBSET Records]
         /\ Kept # Lost
<1>1. \A t \in Tables : Loaded(t) \subseteq Records
  <2> SUFFICES ASSUME NEW t \in Tables, NEW k \in LastingLines(t)
               PROVE  files[t][k] \in Records
    BY DEF Loaded
  <2>1. k \in DOMAIN files[t] /\ files[t] \in Seq(Records \cup {Torn})
    BY DEF LastingLines, TypeOK
  <2>2. QED
    BY <2>1 DEF Readable, Unreadable, LastingLines
<1>2. Kept = [t \in Tables |-> Loaded(t)]
  BY DEF Kept
<1>3. QED
  BY <1>1, <1>2 DEF Distinct

(* store.go:87-122, 297-320.  A whole line behind whole lines that fits    *)
(* the buffer is to a start what the save is to the contract.              *)
LEMMA WholeLineKept ==
  ASSUME Distinct, TypeOK, NEW t \in Tables, NEW r \in Records,
         NEW unfinished, Write(t, r, unfinished), ~open[t], r \notin Long
  PROVE  /\ Kept' = Contract!Saved(Kept, t, r)
         /\ Readable => Readable'
<1>1. CASE ~Readable
  BY <1>1, UnreadableStays DEF Kept, Contract!Saved
<1>2. CASE Readable
  <2>1. /\ files'[t] = Append(files[t], r)
        /\ files[t] \in Seq(Records \cup {Torn})
        /\ \A s \in Tables : s # t => files'[s] = files[s]
    BY DEF Write, Added, TypeOK
  <2>2. Readable'
    <3> SUFFICES ASSUME NEW s \in Tables, NEW i \in DOMAIN files'[s]
                 PROVE  ~Unreadable(files'[s][i])
      BY DEF Readable
    <3>1. CASE s # t
      BY <1>2, <2>1, <3>1 DEF Readable
    <3>2. CASE s = t
      BY <1>2, <2>1, <3>2 DEF Readable, Unreadable, Distinct
    <3>3. QED
      BY <3>1, <3>2
  <2>3. \A s \in Tables : s # t => Loaded(s)' = Loaded(s)
    BY <2>1 DEF Loaded, LastingLines
  <2>4. Loaded(t)' = Contract!With(t, Loaded(t), r)
    BY WholeLine DEF Updated, Contract!With
  <2>5. Kept = [s \in Tables |-> Loaded(s)] /\ Kept # Lost
    BY <1>2, LoadedType
  <2>6. Kept' = [s \in Tables |-> Loaded(s)']
    BY <2>2 DEF Kept
  <2>7. QED
    BY <2>2, <2>3, <2>4, <2>5, <2>6 DEF Contract!Saved
<1>3. QED
  BY <1>1, <1>2
-----------------------------------------------------------------------------
(***************************************************************************)
(* One lemma per action: it keeps StoreInv and is a step of the contract.  *)
(***************************************************************************)

LEMMA StoreInit == ASSUME Distinct PROVE Init => StoreInv /\ Contract!Init
<1> SUFFICES ASSUME Init PROVE StoreInv /\ Contract!Init
  OBVIOUS
<1>1. \A t \in Tables : files[t] = <<>> /\ DOMAIN files[t] = {}
  <2>1. \A t \in Tables : files[t] = <<>>
    BY DEF Init
  <2>2. DOMAIN <<>> = {}
    OBVIOUS
  <2>3. QED
    BY <2>1, <2>2
<1>2. Readable /\ \A t \in Tables : Loaded(t) = {}
  BY <1>1 DEF Readable, Loaded, LastingLines
<1>3. TypeOK
  <2>1. <<>> \in Seq(Records \cup {Torn})
    OBVIOUS
  <2>2. QED
    BY <2>1 DEF Init, TypeOK
<1>4. QED
  BY <1>2, <1>3 DEF Init, StoreInv, Contract!Init, Contract!Empty, Kept

(* What a line does to the types, whatever becomes of the map.             *)
LEMMA WriteType ==
  ASSUME TypeOK, NEW t \in Tables, NEW line \in Records \cup {Torn},
         NEW unfinished \in BOOLEAN, Write(t, line, unfinished)
  PROVE  /\ files' \in [Tables -> Seq(Records \cup {Torn})]
         /\ open' \in [Tables -> BOOLEAN]
         /\ (open[t] => Len(files[t]) > 0) => Len(files'[t]) > 0
         /\ open'[t] = unfinished
         /\ \A s \in Tables : s # t => files'[s] = files[s] /\ open'[s] = open[s]
<1>1. files[t] \in Seq(Records \cup {Torn})
  BY DEF TypeOK
<1>2. Added(t, line) \in Seq(Records \cup {Torn})
  BY <1>1 DEF Added
<1>3. (open[t] => Len(files[t]) > 0) => Len(Added(t, line)) > 0
  <2>1. CASE open[t]
    BY <1>1, <2>1 DEF Added
  <2>2. CASE ~open[t]
    <3>1. Added(t, line) = Append(files[t], line)
      BY <2>2 DEF Added
    <3>2. Len(Added(t, line)) = Len(files[t]) + 1 /\ Len(files[t]) \in Nat
      BY <1>1, <3>1
    <3>3. QED
      BY <3>2
  <2>3. QED
    BY <2>1, <2>2
<1>4. QED
  BY <1>2, <1>3 DEF Write, TypeOK

LEMMA UpdatedType ==
  ASSUME TypeOK, NEW t \in Tables, NEW r \in Records
  PROVE  /\ [memory EXCEPT ![t] = Updated(t, @, r)] \in [Tables -> SUBSET Records]
         /\ Distinct => [memory EXCEPT ![t] = Updated(t, @, r)]
                          = Contract!Saved(memory, t, r)
<1>1. memory \in [Tables -> SUBSET Records]
  BY DEF TypeOK
<1>2. Updated(t, memory[t], r) \subseteq Records
  BY <1>1 DEF Updated
<1>3. QED
  BY <1>1, <1>2 DEF Distinct, Updated, Contract!Saved, Contract!With

LEMMA SaveStep ==
  ASSUME Distinct, StoreInv, NEW t \in Tables, NEW r \in Records, Save(t, r)
  PROVE  StoreInv' /\ (Contract!Save(t, r) \/ Contract!SaveLong(t, r))
<1>1. /\ up /\ up' = up
      /\ troubles' = troubles \cup (IF r \in Long THEN {"long"} ELSE {})
      /\ Write(t, r, FALSE)
      /\ memory' = [memory EXCEPT ![t] = Updated(t, @, r)]
      /\ TypeOK
  BY DEF Save, StoreInv
<1>2. TypeOK' /\ memory' = Contract!Saved(memory, t, r)
  BY <1>1, WriteType, UpdatedType DEF TypeOK
<1>3. \A s \in Tables : open'[s] => troubles' # {} /\ Len(files'[s]) > 0
  BY <1>1, WriteType DEF StoreInv
<1>4. CASE r \in Long
  <2>1. troubles' = troubles \cup {"long"} /\ ~Readable' /\ Kept' = Lost
    BY <1>1, <1>4, BrokenLine DEF Unreadable, Kept
  <2>2. QED
    BY <1>1, <1>2, <1>3, <1>4, <2>1 DEF StoreInv, Contract!SaveLong
<1>5. CASE r \notin Long /\ open[t]
  <2>1. troubles' = troubles /\ troubles # {} /\ Kept' = Lost
    BY <1>1, <1>5, BrokenLine DEF StoreInv, Kept
  <2>2. QED
    BY <1>1, <1>2, <1>3, <2>1 DEF StoreInv, Contract!Save
<1>6. CASE r \notin Long /\ ~open[t]
  <2>1. /\ Kept' = Contract!Saved(Kept, t, r)
        /\ Readable => Readable'
        /\ troubles' = troubles
    BY <1>1, <1>6, WholeLineKept
  <2>2. troubles = {} => memory' = [s \in Tables |-> Loaded(s)']
    <3> SUFFICES ASSUME troubles = {} PROVE memory' = Kept'
      BY <2>1, LoadedType DEF StoreInv, Kept
    <3>1. memory = Kept
      BY <1>1, LoadedType DEF StoreInv
    <3>2. QED
      BY <1>2, <2>1, <3>1
  <2>3. QED
    BY <1>1, <1>2, <1>3, <2>1, <2>2 DEF StoreInv, Contract!Save
<1>7. QED
  BY <1>4, <1>5, <1>6

LEMMA BreakStep ==
  ASSUME Distinct, StoreInv, NEW t \in Tables, NEW r \in Records, Break(t, r)
  PROVE  StoreInv' /\ Contract!Fail(t, r)
<1>1. /\ up /\ up' = up /\ memory' = memory /\ TypeOK
      /\ troubles' = troubles \cup {"error"} /\ troubles' # {}
  BY DEF Break, StoreInv
<1>2. CASE UNCHANGED <<files, open>>
  <2>1. Kept' = Kept
    BY <1>2 DEF Kept, Readable, Loaded, LastingLines
  <2>2. QED
    BY <1>1, <1>2, <2>1 DEF StoreInv, TypeOK, Contract!Fail
<1>3. ASSUME NEW line \in {Torn, r}, NEW unfinished \in BOOLEAN,
             Write(t, line, unfinished)
      PROVE  StoreInv' /\ Contract!Fail(t, r)
  <2>1. TypeOK'
    BY <1>1, <1>3, WriteType DEF TypeOK
  <2>2. \A s \in Tables : open'[s] => troubles' # {} /\ Len(files'[s]) > 0
    BY <1>1, <1>3, WriteType DEF StoreInv
  <2>3. Kept' \in {Contract!Saved(Kept, t, r), Lost}
    <3>1. CASE open[t] \/ Unreadable(line)
      BY <1>3, <3>1, BrokenLine DEF Kept
    <3>2. CASE ~open[t] /\ ~Unreadable(line) /\ line = r /\ r \notin Long
      BY <1>1, <1>3, <3>2, WholeLineKept
    <3>3. QED
      BY <1>3, <3>1, <3>2 DEF Unreadable
  <2>4. QED
    BY <1>1, <2>1, <2>2, <2>3 DEF StoreInv, Contract!Fail
<1>4. \/ UNCHANGED <<files, open>>
      \/ \E line \in {Torn, r}, unfinished \in BOOLEAN : Write(t, line, unfinished)
  BY DEF Break
<1>5. QED
  BY <1>2, <1>3, <1>4

LEMMA StopStep ==
  ASSUME Distinct, StoreInv, Stop
  PROVE  StoreInv' /\ Contract!Stop
<1>1. Kept' = Kept /\ (Readable <=> Readable')
  BY DEF Stop, Kept, Readable, Loaded, LastingLines
<1>2. QED
  BY <1>1 DEF Stop, StoreInv, TypeOK, Contract!Stop, Contract!Empty

LEMMA StartStep ==
  ASSUME Distinct, StoreInv, Start
  PROVE  StoreInv' /\ Contract!Start
<1>1. /\ Readable /\ ~up /\ up' = TRUE /\ TypeOK
      /\ memory' = [t \in Tables |-> Loaded(t)]
      /\ files' = files /\ open' = open /\ troubles' = troubles
  BY DEF Start, StoreInv
<1>2. Kept' = Kept /\ Readable' /\ \A t \in Tables : Loaded(t)' = Loaded(t)
  BY <1>1 DEF Kept, Readable, Loaded, LastingLines
<1>3. memory' = Kept /\ Kept # Lost /\ Kept \in [Tables -> SUBSET Records]
  BY <1>1, LoadedType
<1>4. TypeOK'
  BY <1>1, <1>3 DEF TypeOK
<1>5. QED
  BY <1>1, <1>2, <1>3, <1>4 DEF StoreInv, Contract!Start

(* A step that changes nothing of the store.                               *)
LEMMA IdleStep ==
  ASSUME StoreInv, UNCHANGED vars
  PROVE  StoreInv' /\ UNCHANGED Contract!vars
<1>1. Kept' = Kept /\ (Readable <=> Readable') /\ \A t \in Tables : Loaded(t)' = Loaded(t)
  BY DEF vars, Kept, Readable, Loaded, LastingLines
<1>2. QED
  BY <1>1 DEF vars, StoreInv, TypeOK, Contract!vars

LEMMA StoreNext ==
  ASSUME Distinct, StoreInv, [Next]_vars
  PROVE  StoreInv' /\ [Contract!Next]_(Contract!vars)
<1>1. ASSUME NEW t \in Tables, NEW r \in Records, Save(t, r)
      PROVE  StoreInv' /\ Contract!Next
  BY <1>1, SaveStep DEF Contract!Next
<1>2. ASSUME NEW t \in Tables, NEW r \in Records, Break(t, r)
      PROVE  StoreInv' /\ Contract!Next
  BY <1>2, BreakStep DEF Contract!Next
<1>3. CASE Stop
  BY <1>3, StopStep DEF Contract!Next
<1>4. CASE Start
  BY <1>4, StartStep DEF Contract!Next
<1>5. CASE UNCHANGED vars
  BY <1>5, IdleStep
<1>6. QED
  BY <1>1, <1>2, <1>3, <1>4, <1>5 DEF Next

(* store.go:38-133, 297-320.  A file store whose saves all succeeded, and  *)
(* none of whose lines outgrew the buffer they are read back with, can     *)
(* always be opened again and shows its readers what the next start would  *)
(* find.                                                                   *)
THEOREM StoreTrustworthy == ASSUME Distinct PROVE Spec => []Contract!Trustworthy
<1>1. Init => StoreInv
  BY StoreInit
<1>2. StoreInv /\ [Next]_vars => StoreInv'
  BY StoreNext
<1>3. StoreInv => Contract!Trustworthy
  BY LoadedType DEF StoreInv, Contract!Trustworthy
<1>4. QED
  BY <1>1, <1>2, <1>3, PTL DEF Spec

(* store.go:87-122, 283-320.  The file store implements the audit store,   *)
(* whichever of the records are too long for it to read back.              *)
THEOREM StoreImplements == ASSUME Distinct PROVE Spec => ContractSpec
<1>1. Init => StoreInv /\ Contract!Init
  BY StoreInit
<1>2. StoreInv /\ [Next]_vars => StoreInv' /\ [Contract!Next]_(Contract!vars)
  BY StoreNext
<1>3. Spec => Contract!Spec
  BY <1>1, <1>2, PTL DEF Spec, Contract!Spec
<1>4. QED
  BY <1>3 DEF ContractSpec
=============================================================================
