-------------------------- MODULE AgentStore_proofs --------------------------
(***************************************************************************)
(* Theorems about AgentStore, for any set of threads and any number of     *)
(* transactions, writes and process losses.                                *)
(***************************************************************************)
EXTENDS AgentStore, SequenceTheorems, TLAPS

\* A recorded migration was carried out, and so were those before it.
AppliedInv ==
    "other_family" \notin objects =>
        \A w \in versions \cap Versions : \A u \in 1 .. w : StatementsOf(u) \subseteq objects

\* Databases of other origin are refused or emptied before anything is migrated.
OriginInv ==
    /\ "other_family" \in objects =>
         phase \in {"down", "refused"} /\ rows = {} /\ "retired" \notin objects /\ 12 \notin versions
    /\ "retired" \in objects \/ 12 \in versions =>
         "family" \notin objects /\ phase \in {"down", "reset"}
    /\ phase = "reset" => "family" \notin objects
    /\ rows # {} => "family" \in objects

\* The versions before the current one are recorded, and the statements of the
\* current one before the next have run.
ProgressInv ==
    /\ at \in Nat \X Nat /\ at[1] \in 1 .. 6
    /\ phase = "reset" => at = <<1, 1>>
    /\ phase = "migrate" =>
         /\ "other_family" \notin objects
         /\ \A w \in Versions : w < at[1] => w \in versions
         /\ at[1] \in Versions /\ at[1] \notin versions =>
              \A j \in DOMAIN MIGRATIONS[at[1]] : j < at[2] => MIGRATIONS[at[1]][j] \in objects

\* The rows of the open transaction are new, and a callback is for one of them; a
\* callback that was taken over is for a durable row.
UnitInv ==
    /\ phase # "open" => lock = "none" /\ \A t \in Threads : todo[t] = <<>>
    /\ \A r \in rows : r[1] <= units
    /\ lock # "none" => units > 0 /\ \A r \in rows : r[1] < units
    /\ lock = "none" => written = <<>> /\ callbacks = <<>>
    /\ \A r \in Elements(written) : r[1] = units /\ r[2] \in 1 .. MaxWrites
    /\ Elements(callbacks) \subseteq Elements(written)
    /\ \A t \in Threads : Elements(todo[t]) \subseteq rows

Row == (0 .. MaxUnits) \X (1 .. (MaxWrites + 1))

\* The volatile state is well formed.
VolatileInv ==
    /\ written \in Seq(Row) /\ Len(written) <= MaxWrites
    /\ callbacks \in Seq(Row)
    /\ todo \in [Threads -> Seq(Row)]

IInv ==
    /\ OpenMeansComplete /\ AppliedInv /\ OriginInv /\ ProgressInv /\ VolatileInv /\ UnitInv

------------------------------------------------------------------------------
(***************************************************************************)
(* The migrations and sequences of rows                                    *)
(***************************************************************************)

\* Concatenation keeps the first elements.
LEMMA ConcatKeepsFirst ==
    ASSUME NEW S, NEW s \in Seq(S), NEW u \in Seq(S), Len(s) >= 7
    PROVE  s \o u \in Seq(S) /\ Len(s \o u) >= 7 /\ (s \o u)[1] = s[1] /\ (s \o u)[2] = s[2]
  <1>1. Len(u) \in Nat /\ Len(s) \in Nat
    BY LenProperties
  <1>2. s \o u \in Seq(S) /\ Len(s \o u) = Len(s) + Len(u)
    BY ConcatProperties
  <1>3. (s \o u)[1] = s[1] /\ (s \o u)[2] = s[2]
    BY <1>1, ConcatProperties
  <1>4. QED BY <1>1, <1>2, <1>3

\* There are five migrations, each a list of statements; the first one creates the
\* marker of the family, and none creates an object of another origin.
LEMMA MigrationFacts ==
    /\ Versions = 1 .. 5
    /\ \A v \in Versions :
         /\ Len(MIGRATIONS[v]) \in Nat
         /\ DOMAIN MIGRATIONS[v] = 1 .. Len(MIGRATIONS[v])
         /\ "retired" \notin StatementsOf(v) /\ "other_family" \notin StatementsOf(v)
    /\ "store_metadata" \in StatementsOf(1) /\ "family" \in StatementsOf(1)
  <1> DEFINE S == {"store_metadata", "family", "memory_items", "skill_index", "eval_runs",
                   "eval_results", "model_profiles", "contexts", "messages",
                   "route_decisions", "tasks", "task_events", "artifacts",
                   "registered_agents", "delegated_tasks", "pending_continuations",
                   "message_ingress", "queued_executions", "tool_invocations",
                   "error_retryable", "one_direct_retry", "task_revision",
                   "event_revision", "command_version"}
             First == <<"store_metadata", "family", "memory_items", "skill_index",
                        "eval_runs", "eval_results", "model_profiles">>
  <1>1. Versions = 1 .. 5
    BY DEF Versions, MIGRATIONS
  <1>2. /\ First \in Seq(S) /\ Len(First) >= 7 /\ First[1] = "store_metadata"
        /\ First[2] = "family"
        /\ CoreTables \in Seq(S) /\ AgentTables \in Seq(S) /\ ControlTables \in Seq(S)
        /\ SchemaV2 \in Seq(S) /\ SchemaV3 \in Seq(S) /\ SchemaV4 \in Seq(S)
        /\ SchemaV5 \in Seq(S)
    <2>1. First \in Seq(S) /\ Len(First) >= 7 /\ First[1] = "store_metadata" /\ First[2] = "family"
      OBVIOUS
    <2>2. CoreTables \in Seq(S) /\ AgentTables \in Seq(S) /\ ControlTables \in Seq(S)
      BY DEF CoreTables, AgentTables, ControlTables
    <2>3. /\ SchemaV2 \in Seq(S) /\ SchemaV3 \in Seq(S) /\ SchemaV4 \in Seq(S)
          /\ SchemaV5 \in Seq(S)
      BY DEF SchemaV2, SchemaV3, SchemaV4, SchemaV5
    <2>4. QED BY <2>1, <2>2, <2>3
  <1>3. SchemaV1 = ((First \o CoreTables) \o AgentTables) \o ControlTables
    BY DEF SchemaV1
  <1> HIDE DEF S, First
  <1>4. First \o CoreTables \in Seq(S) /\ Len(First \o CoreTables) >= 7
        /\ (First \o CoreTables)[1] = "store_metadata"
        /\ (First \o CoreTables)[2] = "family"
    BY <1>2, ConcatKeepsFirst
  <1>5. /\ (First \o CoreTables) \o AgentTables \in Seq(S)
        /\ Len((First \o CoreTables) \o AgentTables) >= 7
        /\ ((First \o CoreTables) \o AgentTables)[1] = "store_metadata"
        /\ ((First \o CoreTables) \o AgentTables)[2] = "family"
    BY <1>2, <1>4, ConcatKeepsFirst
  <1>6. /\ SchemaV1 \in Seq(S) /\ Len(SchemaV1) >= 7
        /\ SchemaV1[1] = "store_metadata" /\ SchemaV1[2] = "family"
    BY <1>2, <1>3, <1>5, ConcatKeepsFirst
  <1>7. ASSUME NEW v \in 1 .. 5 PROVE MIGRATIONS[v] \in Seq(S)
    <2>1. v = 1 \/ v = 2 \/ v = 3 \/ v = 4 \/ v = 5
      OBVIOUS
    <2>2. /\ MIGRATIONS[1] = SchemaV1 /\ MIGRATIONS[2] = SchemaV2
          /\ MIGRATIONS[3] = SchemaV3 /\ MIGRATIONS[4] = SchemaV4
          /\ MIGRATIONS[5] = SchemaV5
      BY DEF MIGRATIONS
    <2>3. QED BY <2>1, <2>2, <1>2, <1>6
  <1>8. ASSUME NEW v \in 1 .. 5
        PROVE  /\ Len(MIGRATIONS[v]) \in Nat
               /\ DOMAIN MIGRATIONS[v] = 1 .. Len(MIGRATIONS[v])
               /\ \A i \in DOMAIN MIGRATIONS[v] : MIGRATIONS[v][i] \in S
    BY <1>7, LenProperties
  <1>9. "store_metadata" \in StatementsOf(1) /\ "family" \in StatementsOf(1)
    <2>1. 1 \in DOMAIN SchemaV1 /\ 2 \in DOMAIN SchemaV1
      BY <1>6, LenProperties
    <2>2. MIGRATIONS[1] = SchemaV1
      BY DEF MIGRATIONS
    <2>3. QED BY <2>1, <2>2, <1>6 DEF StatementsOf
  <1>10. QED BY <1>1, <1>8, <1>9 DEF StatementsOf, S

LEMMA ElementsOfAppend ==
    ASSUME NEW S, NEW s \in Seq(S), NEW e \in S
    PROVE  Elements(Append(s, e)) = Elements(s) \cup {e} /\ Append(s, e) \in Seq(S)
  <1>1. /\ Append(s, e) \in Seq(S) /\ Len(s) \in Nat /\ DOMAIN s = 1 .. Len(s)
        /\ DOMAIN Append(s, e) = 1 .. Len(s) + 1 /\ Append(s, e)[Len(s) + 1] = e
        /\ \A i \in 1 .. Len(s) : Append(s, e)[i] = s[i]
    BY AppendProperties, LenProperties
  <1>2. QED BY <1>1 DEF Elements

LEMMA ElementsOfConcat ==
    ASSUME NEW S, NEW s \in Seq(S), NEW u \in Seq(S)
    PROVE  Elements(s \o u) \subseteq Elements(s) \cup Elements(u) /\ s \o u \in Seq(S)
  <1>1. /\ s \o u \in Seq(S) /\ Len(s) \in Nat /\ Len(u) \in Nat
        /\ DOMAIN s = 1 .. Len(s) /\ DOMAIN u = 1 .. Len(u)
        /\ DOMAIN (s \o u) = 1 .. Len(s) + Len(u)
        /\ \A i \in 1 .. Len(s) + Len(u) :
             (s \o u)[i] = IF i <= Len(s) THEN s[i] ELSE u[i - Len(s)]
    BY ConcatProperties, LenProperties
  <1>2. QED BY <1>1 DEF Elements

LEMMA ElementsOfTail ==
    ASSUME NEW S, NEW s \in Seq(S), s # <<>>
    PROVE  /\ Head(s) \in Elements(s) /\ Elements(Tail(s)) \subseteq Elements(s)
           /\ Tail(s) \in Seq(S)
  <1>1. /\ Len(s) \in Nat /\ DOMAIN s = 1 .. Len(s) /\ Len(s) > 0 /\ Head(s) = s[1]
        /\ Tail(s) \in Seq(S) /\ Len(Tail(s)) = Len(s) - 1
        /\ DOMAIN Tail(s) = 1 .. Len(s) - 1
        /\ \A i \in 1 .. Len(s) - 1 : Tail(s)[i] = s[i + 1]
    BY HeadTailProperties, LenProperties, EmptySeq
  <1>2. QED BY <1>1 DEF Elements

LEMMA NoElements == Elements(<<>>) = {} /\ \A S : <<>> \in Seq(S)
  BY EmptySeq DEF Elements

\* What the migrations create altogether.
LEMMA CompleteFacts ==
    /\ \A v \in 1 .. 5 : StatementsOf(v) \subseteq Complete
    /\ "retired" \notin Complete /\ "other_family" \notin Complete
    /\ "family" \in Complete /\ "store_metadata" \in Complete
    /\ \A O : (\A v \in 1 .. 5 : StatementsOf(v) \subseteq O) => Complete \subseteq O
  <1>1. Versions = 1 .. 5
    BY MigrationFacts
  <1>2. QED BY <1>1, MigrationFacts DEF Complete

\* A statement of a migration, by its place.
LEMMA StatementFacts ==
    ASSUME NEW v \in 1 .. 5
    PROVE  /\ \A i \in DOMAIN MIGRATIONS[v] : MIGRATIONS[v][i] \in StatementsOf(v)
           /\ \A o \in StatementsOf(v) : \E i \in DOMAIN MIGRATIONS[v] : MIGRATIONS[v][i] = o
  BY DEF StatementsOf

------------------------------------------------------------------------------
(***************************************************************************)
(* The invariant                                                           *)
(***************************************************************************)

LEMMA InitInv == Init => IInv
  <1> SUFFICES ASSUME Init PROVE IInv
    OBVIOUS
  <1> USE StoreBounds
  <1>1. OpenMeansComplete
    <2>1. {"store_metadata", "other_family"} \subseteq Complete \cup {"other_family"}
          /\ StatementsOf(1) \subseteq Complete /\ StatementsOf(2) \subseteq Complete
      BY CompleteFacts
    <2>2. objects \subseteq Complete \cup {"retired", "other_family"}
      BY <2>1 DEF Init
    <2>3. versions \subseteq Versions \cup {12}
      BY MigrationFacts DEF Init
    <2>4. rows \subseteq (0 .. MaxUnits) \X (1 .. (MaxWrites + 1))
      BY DEF Init
    <2>5. QED BY <2>2, <2>3, <2>4 DEF Init, OpenMeansComplete, TypeOK
  <1>2. AppliedInv
    <2>1. CASE objects = {"retired"} /\ versions \in {{}, {12}}
      BY <2>1, MigrationFacts DEF AppliedInv
    <2>2. CASE objects = StatementsOf(1) \cup StatementsOf(2) /\ versions = {1, 2}
      <3> SUFFICES ASSUME NEW w \in {1, 2}, NEW u \in 1 .. w
                   PROVE  StatementsOf(u) \subseteq objects
        BY <2>2 DEF AppliedInv
      <3>1. u = 1 \/ u = 2
        OBVIOUS
      <3>2. QED BY <2>2, <3>1
    <2>3. QED BY <2>1, <2>2 DEF Init, AppliedInv
  <1>3. OriginInv
    <2>1. CASE objects = StatementsOf(1) \cup StatementsOf(2) /\ versions = {1, 2}
      <3>1. 1 \in Versions /\ 2 \in Versions
        BY MigrationFacts
      <3>2. /\ "retired" \notin objects /\ "other_family" \notin objects
            /\ "family" \in objects /\ 12 \notin versions
        BY <2>1, <3>1, MigrationFacts
      <3>3. QED BY <3>2 DEF Init, OriginInv
    <2>2. CASE objects = {} /\ versions = {} /\ rows = {}
      BY <2>2 DEF Init, OriginInv
    <2>3. CASE objects = {"retired"} /\ rows = {}
      BY <2>3 DEF Init, OriginInv
    <2>4. CASE objects = {"store_metadata", "other_family"} /\ versions = {1} /\ rows = {}
      BY <2>4 DEF Init, OriginInv
    <2>5. QED BY <2>1, <2>2, <2>3, <2>4 DEF Init
  <1>4. ProgressInv
    BY DEF Init, ProgressInv
  <1>5. VolatileInv
    BY NoElements, EmptySeq DEF Init, VolatileInv, Row
  <1>6. UnitInv
    BY NoElements DEF Init, UnitInv
  <1>7. QED BY <1>1, <1>2, <1>3, <1>4, <1>5, <1>6 DEF IInv

\* Opening touches nothing of the working state.
LEMMA StartingKeepsWork ==
    ASSUME IInv, Starting, rows' = rows, UNCHANGED <<tx, todo, units, crashes>>,
           phase \in {"down", "reset", "migrate"}
    PROVE  VolatileInv' /\ UnitInv'
  <1>1. VolatileInv'
    BY DEF IInv, VolatileInv, tx
  <1>2. UnitInv'
    BY DEF IInv, UnitInv, tx
  <1>3. QED BY <1>1, <1>2

LEMMA OpenInv == IInv /\ Open => IInv' /\ rows' = rows
  <1> SUFFICES ASSUME IInv, Open PROVE IInv' /\ rows' = rows
    OBVIOUS
  <1>0. /\ UNCHANGED <<objects, versions, rows, lock, depth, written, callbacks, todo, units,
                       announced, crashes>>
        /\ phase = "down" /\ at' = <<1, 1>>
        /\ phase' = IF "other_family" \in objects THEN "refused"
                    ELSE IF RequiresReset THEN "reset" ELSE "migrate"
    BY DEF Open, disk, tx
  <1>1. VolatileInv' /\ UnitInv'
    BY <1>0, StartingKeepsWork DEF Starting, tx
  <1>2. OpenMeansComplete'
    BY <1>0 DEF IInv, OpenMeansComplete, TypeOK
  <1>3. AppliedInv'
    BY <1>0 DEF IInv, AppliedInv
  <1>4. OriginInv'
    BY <1>0 DEF IInv, OriginInv, RequiresReset
  <1>5. ProgressInv'
    <2>1. at'[1] = 1 /\ at'[2] = 1
      BY <1>0
    <2>2. \A v \in 1 .. 5 : \A j \in DOMAIN MIGRATIONS[v] : ~(j < 1)
      BY MigrationFacts, SMTT(30)
    <2>3. QED BY <1>0, <2>1, <2>2, MigrationFacts DEF ProgressInv
  <1>6. QED BY <1>0, <1>1, <1>2, <1>3, <1>4, <1>5 DEF IInv

LEMMA ResetInv == IInv /\ ResetStep => IInv' /\ rows' = rows
  <1> SUFFICES ASSUME IInv, ResetStep PROVE IInv' /\ rows' = rows
    OBVIOUS
  <1>0. /\ UNCHANGED <<at, lock, depth, written, callbacks, todo, units, announced, crashes>>
        /\ phase = "reset" /\ objects' \subseteq objects /\ versions' \subseteq versions
        /\ phase' \in {"reset", "migrate"}
        /\ phase' = "migrate" => objects = {} /\ versions = {}
        /\ rows' \in {{}, rows}
    BY DEF ResetStep, disk, tx
  <1>1. rows = {} /\ rows' = rows /\ "family" \notin objects /\ "other_family" \notin objects
    BY <1>0 DEF IInv, OriginInv
  <1>2. versions \cap Versions = {}
    BY <1>1, MigrationFacts DEF IInv, AppliedInv
  <1>3. VolatileInv' /\ UnitInv'
    BY <1>0, <1>1, StartingKeepsWork DEF Starting, tx
  <1>4. OpenMeansComplete'
    BY <1>0, <1>1 DEF IInv, OpenMeansComplete, TypeOK
  <1>5. AppliedInv'
    BY <1>0, <1>2 DEF AppliedInv
  <1>6. OriginInv'
    BY <1>0, <1>1 DEF OriginInv
  <1>7. ProgressInv'
    <2>1. at = <<1, 1>> /\ at' = at /\ at'[1] = 1 /\ at'[2] = 1
      BY <1>0 DEF IInv, ProgressInv
    <2>2. \A v \in 1 .. 5 : \A j \in DOMAIN MIGRATIONS[v] : ~(j < 1)
      BY MigrationFacts, SMTT(30)
    <2>3. QED BY <1>0, <1>1, <2>1, <2>2, MigrationFacts DEF ProgressInv
  <1>8. QED BY <1>1, <1>3, <1>4, <1>5, <1>6, <1>7 DEF IInv

LEMMA MigrateInv == IInv /\ Migrate => IInv' /\ rows' = rows
  <1> SUFFICES ASSUME IInv, Migrate PROVE IInv' /\ rows' = rows
    OBVIOUS
  <1> DEFINE v == at[1]
             i == at[2]
             Skip == /\ v \in versions /\ at' = <<v + 1, 1>>
                     /\ UNCHANGED <<objects, versions, phase>>
             Run == /\ v \notin versions /\ i \in DOMAIN MIGRATIONS[v]
                    /\ objects' = objects \cup {MIGRATIONS[v][i]}
                    /\ at' = <<v, i + 1>> /\ UNCHANGED <<versions, phase>>
             Refuse == phase' = "refused" /\ UNCHANGED <<objects, versions, at>>
             Record == /\ v \notin versions /\ i = Len(MIGRATIONS[v]) + 1
                       /\ versions' = versions \cup {v} /\ at' = <<v + 1, 1>>
                       /\ UNCHANGED <<objects, phase>>
  <1>0. /\ UNCHANGED <<rows, lock, depth, written, callbacks, todo, units, announced, crashes>>
        /\ phase = "migrate" /\ v \in Versions
    BY DEF Migrate, tx
  <1>1. Skip \/ Run \/ Refuse \/ Record
    BY DEF Migrate
  <1>2. /\ Versions = 1 .. 5 /\ v \in 1 .. 5 /\ i \in Nat
        /\ \A j \in DOMAIN MIGRATIONS[v] : j \in Nat /\ j >= 1
        /\ Len(MIGRATIONS[v]) \in Nat /\ DOMAIN MIGRATIONS[v] = 1 .. Len(MIGRATIONS[v])
    BY <1>0, MigrationFacts DEF IInv, ProgressInv
  <1>3. /\ "other_family" \notin objects /\ "retired" \notin objects /\ 12 \notin versions
        /\ \A w \in 1 .. 5 : w < v => w \in versions
        /\ v \notin versions => \A j \in DOMAIN MIGRATIONS[v] : j < i => MIGRATIONS[v][j] \in objects
    BY <1>0, <1>2 DEF IInv, ProgressInv, OriginInv
  <1>4. VolatileInv' /\ UnitInv'
    BY <1>0, StartingKeepsWork DEF Starting, tx
  <1>5. CASE Skip
    <2>1. OpenMeansComplete' /\ AppliedInv' /\ OriginInv'
      BY <1>5, <1>0 DEF IInv, OpenMeansComplete, TypeOK, AppliedInv, OriginInv
    <2>2. ProgressInv'
      <3>1. at' \in Nat \X Nat /\ at'[1] = v + 1 /\ at'[2] = 1
        BY <1>5, <1>2
      <3>2. \A w \in 1 .. 5 : w < v + 1 => w \in versions
        BY <1>5, <1>2, <1>3
      <3>3. \A u \in 1 .. 5 : \A j \in DOMAIN MIGRATIONS[u] : ~(j < 1)
        BY MigrationFacts, SMTT(30)
      <3>4. QED BY <1>5, <1>0, <1>2, <1>3, <3>1, <3>2, <3>3 DEF ProgressInv
    <2>3. QED BY <1>0, <1>4, <2>1, <2>2 DEF IInv
  <1>6. CASE Refuse
    <2>1. QED BY <1>0, <1>3, <1>4, <1>6 DEF IInv, OpenMeansComplete, TypeOK, AppliedInv, OriginInv,
                                              ProgressInv
  <1>7. CASE Run
    <2> DEFINE o == MIGRATIONS[v][i]
    <2>1. o \in StatementsOf(v) /\ o \notin {"retired", "other_family"} /\ o \in Complete
      <3>1. i \in DOMAIN MIGRATIONS[v]
        BY <1>7
      <3>2. o \in StatementsOf(v)
        BY <3>1, <1>2, StatementFacts
      <3>3. QED BY <3>2, <1>2, MigrationFacts, CompleteFacts
    <2>2. objects' = objects \cup {o} /\ UNCHANGED <<versions, phase>>
      BY <1>7
    <2>3. OpenMeansComplete'
      BY <1>0, <2>1, <2>2 DEF IInv, OpenMeansComplete, TypeOK
    <2>4. AppliedInv'
      BY <1>3, <2>2 DEF IInv, AppliedInv
    <2>5. OriginInv'
      BY <1>0, <1>3, <2>1, <2>2 DEF IInv, OriginInv
    <2>6. ProgressInv'
      <3>1. at' \in Nat \X Nat /\ at'[1] = v /\ at'[2] = i + 1
        BY <1>7, <1>2
      <3>2. \A j \in DOMAIN MIGRATIONS[v] : j < i + 1 => MIGRATIONS[v][j] \in objects'
        BY <1>7, <1>2, <1>3
      <3>3. QED BY <1>0, <1>2, <1>3, <2>1, <2>2, <3>1, <3>2, SMTT(30) DEF ProgressInv
    <2>7. QED BY <1>0, <1>4, <2>3, <2>4, <2>5, <2>6 DEF IInv
  <1>8. CASE Record
    <2>1. StatementsOf(v) \subseteq objects
      <3>1. \A j \in DOMAIN MIGRATIONS[v] : MIGRATIONS[v][j] \in objects
        BY <1>8, <1>2, <1>3
      <3>2. QED BY <3>1, <1>2, StatementFacts, SMTT(30)
    <2>2. versions' = versions \cup {v} /\ UNCHANGED <<objects, phase>>
      BY <1>8
    <2>3. OpenMeansComplete'
      BY <1>0, <2>2 DEF IInv, OpenMeansComplete, TypeOK
    <2>4. AppliedInv'
      <3> SUFFICES ASSUME NEW w \in versions' \cap Versions, NEW u \in 1 .. w
                   PROVE  StatementsOf(u) \subseteq objects
        BY <2>2 DEF AppliedInv
      <3>1. CASE w \in versions
        BY <3>1, <1>3 DEF IInv, AppliedInv
      <3>2. CASE w = v /\ u < v
        <4>1. u \in versions \cap Versions /\ u \in 1 .. u
          BY <3>2, <1>2, <1>3
        <4>2. QED BY <4>1, <1>3 DEF IInv, AppliedInv
      <3>3. CASE w = v /\ u = v
        BY <3>3, <2>1
      <3>4. QED BY <2>2, <3>1, <3>2, <3>3, <1>2
    <2>5. OriginInv'
      BY <1>0, <1>2, <1>3, <2>2 DEF IInv, OriginInv
    <2>6. ProgressInv'
      <3>1. at' \in Nat \X Nat /\ at'[1] = v + 1 /\ at'[2] = 1
        BY <1>8, <1>2
      <3>2. \A w \in 1 .. 5 : w < v + 1 => w \in versions'
        BY <2>2, <1>2, <1>3
      <3>3. \A u \in 1 .. 5 : \A j \in DOMAIN MIGRATIONS[u] : ~(j < 1)
        BY MigrationFacts, SMTT(30)
      <3>4. QED BY <2>2, <1>0, <1>2, <1>3, <3>1, <3>2, <3>3 DEF ProgressInv
    <2>7. QED BY <1>0, <1>4, <2>3, <2>4, <2>5, <2>6 DEF IInv
  <1>9. QED BY <1>1, <1>5, <1>6, <1>7, <1>8

LEMMA OpenedInv == IInv /\ Opened => IInv' /\ rows' = rows
  <1> SUFFICES ASSUME IInv, Opened PROVE IInv' /\ rows' = rows
    OBVIOUS
  <1>0. /\ UNCHANGED <<objects, versions, rows, at, lock, depth, written, callbacks, todo,
                       units, announced, crashes>>
        /\ phase = "migrate" /\ at[1] \notin Versions /\ phase' = "open"
    BY DEF Opened, disk, tx
  <1>1. Versions = 1 .. 5 /\ at[1] = 6
    BY <1>0, MigrationFacts DEF IInv, ProgressInv
  <1>2. "other_family" \notin objects /\ "retired" \notin objects /\ 12 \notin versions
    BY <1>0 DEF IInv, OriginInv
  <1>3. versions = Versions
    <2>1. \A w \in Versions : w < 6 => w \in versions
      BY <1>0, <1>1 DEF IInv, ProgressInv
    <2>2. versions \subseteq Versions \cup {12}
      BY DEF IInv, OpenMeansComplete, TypeOK
    <2>3. \A w \in Versions : w < 6
      BY <1>1
    <2>4. QED BY <2>1, <2>2, <2>3, <1>2
  <1>4. objects = Complete
    <2>1. \A u \in 1 .. 5 : StatementsOf(u) \subseteq objects
      BY <1>1, <1>2, <1>3 DEF IInv, AppliedInv
    <2>2. Complete \subseteq objects
      BY <2>1, CompleteFacts
    <2>3. QED BY <2>2, <1>2 DEF IInv, OpenMeansComplete, TypeOK
  <1>5. OpenMeansComplete'
    BY <1>0, <1>3, <1>4 DEF IInv, OpenMeansComplete, TypeOK
  <1>6. AppliedInv' /\ OriginInv' /\ ProgressInv'
    BY <1>0, <1>2 DEF IInv, AppliedInv, OriginInv, ProgressInv
  <1>7. VolatileInv' /\ UnitInv'
    BY <1>0, StartingKeepsWork DEF Starting, tx
  <1>8. QED BY <1>0, <1>5, <1>6, <1>7 DEF IInv

\* The schema of an open store does not change under it.
LEMMA WorkKeepsSchema ==
    ASSUME IInv, phase = "open", UNCHANGED setup, TypeOK'
    PROVE  OpenMeansComplete' /\ AppliedInv' /\ OriginInv' /\ ProgressInv'
  <1>1. /\ UNCHANGED <<objects, versions, phase, at>>
        /\ objects = Complete /\ versions = Versions
    BY DEF IInv, OpenMeansComplete, setup
  <1>2. "family" \in objects /\ "other_family" \notin objects
    BY <1>1, CompleteFacts
  <1>3. OpenMeansComplete'
    BY <1>1 DEF OpenMeansComplete
  <1>4. AppliedInv'
    BY <1>1 DEF IInv, AppliedInv
  <1>5. OriginInv'
    BY <1>1, <1>2 DEF IInv, OriginInv
  <1>6. ProgressInv'
    BY <1>1 DEF IInv, ProgressInv
  <1>7. QED BY <1>3, <1>4, <1>5, <1>6

LEMMA BeginInv ==
    ASSUME IInv, NEW t \in Threads, Begin(t) PROVE IInv' /\ UNCHANGED <<rows, announced>>
  <1> USE StoreBounds
  <1>0. /\ UNCHANGED <<objects, versions, rows, phase, at, written, todo, announced, crashes>>
        /\ phase = "open" /\ depth' = depth + 1 /\ lock' = t /\ t # "none"
        /\ \/ lock = "none" /\ units < MaxUnits /\ units' = units + 1 /\ callbacks' = <<>>
           \/ lock = t /\ depth = 1 /\ UNCHANGED <<units, callbacks>>
    BY DEF Begin, disk
  <1>1. TypeOK /\ units \in Nat
    BY DEF IInv, OpenMeansComplete, TypeOK
  <1>2. TypeOK'
    BY <1>0, <1>1 DEF TypeOK
  <1>3. OpenMeansComplete' /\ AppliedInv' /\ OriginInv' /\ ProgressInv'
    BY <1>0, <1>2, WorkKeepsSchema DEF setup
  <1>4. VolatileInv'
    BY <1>0, EmptySeq DEF IInv, VolatileInv
  <1>5. UnitInv'
    <2>1. \A r \in rows : r[1] \in Nat
      BY <1>1 DEF TypeOK
    <2>2. CASE lock = "none" /\ units' = units + 1 /\ callbacks' = <<>>
      <3>1. written' = <<>> /\ Elements(written') = {} /\ Elements(callbacks') = {}
        BY <1>0, <2>2, NoElements DEF IInv, UnitInv
      <3>2. QED BY <1>0, <1>1, <2>1, <2>2, <3>1 DEF IInv, UnitInv
    <2>3. CASE lock = t /\ UNCHANGED <<units, callbacks>>
      BY <1>0, <2>3 DEF IInv, UnitInv
    <2>4. QED BY <1>0, <2>2, <2>3
  <1>6. QED BY <1>0, <1>3, <1>4, <1>5 DEF IInv

LEMMA WriteInv ==
    ASSUME IInv, NEW t \in Threads, Write(t) PROVE IInv' /\ UNCHANGED <<rows, announced>>
  <1> USE StoreBounds
  <1> DEFINE row == <<units, Len(written) + 1>>
  <1>0. /\ UNCHANGED <<objects, versions, rows, phase, at, lock, depth, todo, units, announced,
                       crashes>>
        /\ phase = "open" /\ lock = t /\ t # "none" /\ Len(written) < MaxWrites
        /\ written' = Append(written, row)
        /\ callbacks' = callbacks \/ callbacks' = Append(callbacks, row)
    BY DEF Write, disk
  <1>1. TypeOK /\ units \in 0 .. MaxUnits /\ written \in Seq(Row) /\ callbacks \in Seq(Row)
    BY DEF IInv, OpenMeansComplete, TypeOK, VolatileInv
  <1>2. Len(written) \in Nat /\ row \in Row /\ row[1] = units /\ row[2] \in 1 .. MaxWrites
    BY <1>0, <1>1, LenProperties DEF Row
  <1>3. TypeOK'
    BY <1>0, <1>1 DEF TypeOK
  <1>4. OpenMeansComplete' /\ AppliedInv' /\ OriginInv' /\ ProgressInv'
    BY <1>0, <1>3, WorkKeepsSchema DEF setup
  <1> HIDE DEF row
  <1>5. /\ written' \in Seq(Row) /\ Elements(written') = Elements(written) \cup {row}
        /\ Len(written') = Len(written) + 1
    BY <1>0, <1>1, <1>2, ElementsOfAppend, AppendProperties
  <1>6. callbacks' \in Seq(Row) /\ Elements(callbacks') \subseteq Elements(callbacks) \cup {row}
    <2>1. /\ Append(callbacks, row) \in Seq(Row)
          /\ Elements(Append(callbacks, row)) = Elements(callbacks) \cup {row}
      BY <1>1, <1>2, ElementsOfAppend
    <2>2. CASE callbacks' = callbacks
      BY <2>2, <1>1
    <2>3. CASE callbacks' = Append(callbacks, row)
      BY <2>3, <2>1
    <2>4. QED BY <1>0, <2>2, <2>3
  <1>7. VolatileInv'
    BY <1>0, <1>2, <1>5, <1>6 DEF IInv, VolatileInv, Row
  <1>8. UnitInv'
    <2>1. Elements(callbacks') \subseteq Elements(written')
      BY <1>5, <1>6 DEF IInv, UnitInv
    <2>2. \A r \in Elements(written') : r[1] = units' /\ r[2] \in 1 .. MaxWrites
      BY <1>0, <1>2, <1>5 DEF IInv, UnitInv
    <2>3. QED BY <1>0, <2>1, <2>2 DEF IInv, UnitInv
  <1>9. QED BY <1>0, <1>4, <1>7, <1>8 DEF IInv

LEMMA LeaveNestedInv ==
    ASSUME IInv, NEW t \in Threads, LeaveNested(t) PROVE IInv' /\ UNCHANGED <<rows, announced>>
  <1> USE StoreBounds
  <1>0. /\ UNCHANGED setup
        /\ UNCHANGED <<rows, phase, lock, written, callbacks, todo, units, announced, crashes>>
        /\ phase = "open" /\ lock = t /\ t # "none" /\ depth' = 1
    BY DEF LeaveNested, setup
  <1>1. TypeOK'
    BY <1>0 DEF IInv, OpenMeansComplete, TypeOK, setup
  <1>2. OpenMeansComplete' /\ AppliedInv' /\ OriginInv' /\ ProgressInv'
    BY <1>0, <1>1, WorkKeepsSchema
  <1>3. VolatileInv' /\ UnitInv'
    BY <1>0 DEF IInv, VolatileInv, UnitInv
  <1>4. QED BY <1>0, <1>2, <1>3 DEF IInv

\* What the transaction wrote belongs to a unit without a durable row.
LEMMA CommitInv ==
    ASSUME IInv, NEW t \in Threads, Commit(t)
    PROVE  /\ IInv' /\ announced' = announced /\ units \in 0 .. MaxUnits
           /\ \A r \in rows : r[1] # units
           /\ rows \subseteq rows' /\ \A r \in rows' \ rows : r[1] = units
  <1> USE StoreBounds
  <1>0. /\ UNCHANGED setup /\ UNCHANGED <<phase, units, announced, crashes>>
        /\ phase = "open" /\ lock = t /\ t # "none"
        /\ rows' = rows \cup Elements(written)
        /\ todo' = [todo EXCEPT ![t] = callbacks \o @]
        /\ lock' = "none" /\ depth' = 0 /\ written' = <<>> /\ callbacks' = <<>>
    BY DEF Commit, setup
  <1>1. /\ TypeOK /\ units \in 0 .. MaxUnits /\ written \in Seq(Row) /\ callbacks \in Seq(Row)
        /\ todo \in [Threads -> Seq(Row)] /\ rows \subseteq Row
    BY DEF IInv, OpenMeansComplete, TypeOK, VolatileInv, Row
  <1>2. Elements(written) \subseteq Row
    BY <1>1, LenProperties DEF Elements
  <1>3. TypeOK'
    BY <1>0, <1>1, <1>2 DEF TypeOK, setup, Row
  <1>4. OpenMeansComplete' /\ AppliedInv' /\ OriginInv' /\ ProgressInv'
    BY <1>0, <1>3, WorkKeepsSchema
  <1>5. /\ callbacks \o todo[t] \in Seq(Row)
        /\ Elements(callbacks \o todo[t]) \subseteq Elements(callbacks) \cup Elements(todo[t])
    BY <1>1, ElementsOfConcat
  <1>6. /\ todo'[t] = callbacks \o todo[t] /\ \A u \in Threads : u # t => todo'[u] = todo[u]
        /\ todo' \in [Threads -> Seq(Row)]
    BY <1>0, <1>1, <1>5
  <1>7. VolatileInv'
    BY <1>0, <1>6, EmptySeq DEF VolatileInv, Row
  <1>8. UnitInv'
    <2>1. /\ Elements(callbacks) \subseteq Elements(written)
          /\ \A u \in Threads : Elements(todo[u]) \subseteq rows
          /\ \A r \in Elements(written) : r[1] = units
          /\ \A r \in rows : r[1] <= units
      BY DEF IInv, UnitInv
    <2>2. \A u \in Threads : Elements(todo'[u]) \subseteq rows'
      BY <1>0, <1>5, <1>6, <2>1
    <2>3. Elements(written') = {} /\ Elements(callbacks') = {}
      BY <1>0, NoElements
    <2>4. \A r \in rows' : r[1] <= units'
      BY <1>0, <1>1, <2>1
    <2>5. QED BY <1>0, <2>2, <2>3, <2>4 DEF UnitInv
  <1>9. \A r \in rows : r[1] # units
    BY <1>0, <1>1 DEF IInv, UnitInv, Row
  <1>10. \A r \in rows' \ rows : r[1] = units
    BY <1>0 DEF IInv, UnitInv
  <1>11. QED BY <1>0, <1>1, <1>4, <1>7, <1>8, <1>9, <1>10 DEF IInv

LEMMA RollbackInv ==
    ASSUME IInv, NEW t \in Threads, Rollback(t) PROVE IInv' /\ UNCHANGED <<rows, announced>>
  <1> USE StoreBounds
  <1>0. /\ UNCHANGED <<objects, versions, rows, phase, at, todo, units, announced, crashes>>
        /\ phase = "open" /\ lock' = "none" /\ depth' = 0 /\ written' = <<>>
        /\ callbacks' = <<>>
    BY DEF Rollback, disk
  <1>1. TypeOK'
    BY <1>0 DEF IInv, OpenMeansComplete, TypeOK
  <1>2. OpenMeansComplete' /\ AppliedInv' /\ OriginInv' /\ ProgressInv'
    BY <1>0, <1>1, WorkKeepsSchema DEF setup
  <1>3. VolatileInv'
    BY <1>0, EmptySeq DEF IInv, VolatileInv, Row
  <1>4. UnitInv'
    BY <1>0, NoElements DEF IInv, UnitInv
  <1>5. QED BY <1>0, <1>2, <1>3, <1>4 DEF IInv

\* A row written alone is a unit of its own.
LEMMA WriteAloneInv ==
    ASSUME IInv, NEW t \in Threads, WriteAlone(t)
    PROVE  /\ IInv' /\ announced' = announced /\ units + 1 \in 0 .. MaxUnits
           /\ \A r \in rows : r[1] # units + 1
           /\ rows \subseteq rows' /\ \A r \in rows' \ rows : r[1] = units + 1
  <1> USE StoreBounds
  <1> DEFINE row == <<units + 1, 1>>
  <1>0. /\ UNCHANGED setup
        /\ UNCHANGED <<phase, lock, depth, written, callbacks, announced, crashes>>
        /\ phase = "open" /\ lock = "none" /\ units < MaxUnits /\ units' = units + 1
        /\ rows' = rows \cup {row}
        /\ todo' = [todo EXCEPT ![t] = <<row>> \o @]
    BY DEF WriteAlone, setup, tx
  <1>1. /\ TypeOK /\ units \in 0 .. MaxUnits /\ todo \in [Threads -> Seq(Row)]
        /\ rows \subseteq Row
    BY DEF IInv, OpenMeansComplete, TypeOK, VolatileInv, Row
  <1>2. units + 1 \in 0 .. MaxUnits /\ row \in Row /\ row[1] = units + 1
    BY <1>0, <1>1 DEF Row
  <1>3. TypeOK'
    BY <1>0, <1>1, <1>2 DEF TypeOK, setup, Row
  <1>4. OpenMeansComplete' /\ AppliedInv' /\ OriginInv' /\ ProgressInv'
    BY <1>0, <1>3, WorkKeepsSchema
  <1> HIDE DEF row
  <1>5. <<row>> \in Seq(Row) /\ Elements(<<row>>) = {row}
    BY <1>2 DEF Elements
  <1>6. /\ <<row>> \o todo[t] \in Seq(Row)
        /\ Elements(<<row>> \o todo[t]) \subseteq {row} \cup Elements(todo[t])
    BY <1>1, <1>5, ElementsOfConcat
  <1>7. /\ todo'[t] = <<row>> \o todo[t] /\ \A u \in Threads : u # t => todo'[u] = todo[u]
        /\ todo' \in [Threads -> Seq(Row)]
    BY <1>0, <1>1, <1>6
  <1>8. VolatileInv'
    BY <1>0, <1>7 DEF IInv, VolatileInv, Row
  <1>9. \A r \in rows : r[1] \in Nat /\ r[1] <= units
    BY <1>1 DEF IInv, UnitInv, Row
  <1>10. UnitInv'
    <2>1. \A u \in Threads : Elements(todo'[u]) \subseteq rows'
      BY <1>0, <1>6, <1>7 DEF IInv, UnitInv
    <2>2. Elements(written') = {} /\ Elements(callbacks') = {} /\ written' = <<>> /\ callbacks' = <<>>
      BY <1>0, NoElements DEF IInv, UnitInv
    <2>3. \A r \in rows' : r[1] <= units'
      BY <1>0, <1>1, <1>2, <1>9
    <2>4. QED BY <1>0, <2>1, <2>2, <2>3 DEF UnitInv
  <1>11. \A r \in rows : r[1] # units + 1
    BY <1>1, <1>9
  <1>12. QED BY <1>0, <1>2, <1>4, <1>8, <1>10, <1>11 DEF IInv

\* A callback is for a durable row.
LEMMA RunCallbackInv ==
    ASSUME IInv, NEW t \in Threads, RunCallback(t)
    PROVE  IInv' /\ rows' = rows /\ \E r \in rows : announced' = announced \cup {r}
  <1> USE StoreBounds
  <1>0. /\ UNCHANGED <<objects, versions, rows, phase, at, lock, depth, written, callbacks,
                       units, crashes>>
        /\ phase = "open" /\ todo[t] # <<>> /\ announced' = announced \cup {Head(todo[t])}
        /\ todo' = [todo EXCEPT ![t] = Tail(@)]
    BY DEF RunCallback, disk, tx
  <1>1. TypeOK /\ todo \in [Threads -> Seq(Row)]
    BY DEF IInv, OpenMeansComplete, TypeOK, VolatileInv
  <1>2. TypeOK'
    BY <1>0, <1>1 DEF TypeOK
  <1>3. OpenMeansComplete' /\ AppliedInv' /\ OriginInv' /\ ProgressInv'
    BY <1>0, <1>2, WorkKeepsSchema DEF setup
  <1>4. /\ Head(todo[t]) \in Elements(todo[t]) /\ Elements(Tail(todo[t])) \subseteq Elements(todo[t])
        /\ Tail(todo[t]) \in Seq(Row)
    BY <1>0, <1>1, ElementsOfTail
  <1>5. /\ todo'[t] = Tail(todo[t]) /\ \A u \in Threads : u # t => todo'[u] = todo[u]
        /\ todo' \in [Threads -> Seq(Row)]
    BY <1>0, <1>1, <1>4
  <1>6. VolatileInv'
    BY <1>0, <1>5 DEF IInv, VolatileInv, Row
  <1>7. UnitInv'
    <2>1. \A u \in Threads : Elements(todo'[u]) \subseteq rows'
      BY <1>0, <1>4, <1>5 DEF IInv, UnitInv
    <2>2. QED BY <1>0, <2>1 DEF IInv, UnitInv
  <1>8. Head(todo[t]) \in rows
    BY <1>4 DEF IInv, UnitInv
  <1>9. QED BY <1>0, <1>3, <1>6, <1>7, <1>8 DEF IInv

LEMMA CrashInv == IInv /\ Crash => IInv' /\ UNCHANGED <<rows, announced>>
  <1> SUFFICES ASSUME IInv, Crash PROVE IInv' /\ UNCHANGED <<rows, announced>>
    OBVIOUS
  <1> USE StoreBounds
  <1>0. /\ UNCHANGED <<objects, versions, rows, units, announced>>
        /\ phase' = "down" /\ at' = <<1, 1>> /\ lock' = "none" /\ depth' = 0
        /\ written' = <<>> /\ callbacks' = <<>> /\ todo' = [t \in Threads |-> <<>>]
    BY DEF Crash, disk
  <1>1. OpenMeansComplete'
    BY <1>0 DEF IInv, OpenMeansComplete, TypeOK
  <1>2. AppliedInv'
    BY <1>0 DEF IInv, AppliedInv
  <1>3. OriginInv'
    BY <1>0 DEF IInv, OriginInv
  <1>4. ProgressInv'
    BY <1>0 DEF ProgressInv
  <1>5. VolatileInv'
    BY <1>0, EmptySeq DEF VolatileInv, Row
  <1>6. UnitInv'
    BY <1>0, NoElements DEF IInv, UnitInv
  <1>7. QED BY <1>0, <1>1, <1>2, <1>3, <1>4, <1>5, <1>6 DEF IInv

------------------------------------------------------------------------------
(***************************************************************************)
(* The theorems                                                            *)
(***************************************************************************)

\* Every step preserves the invariant, and is a step the promise allows or leaves the
\* durable rows and the announced effects as they are.
LEMMA StepKeepsPromise ==
    IInv /\ [Next]_vars => IInv' /\ [Promise!Next]_<<rows, announced>>
  <1> SUFFICES ASSUME IInv, [Next]_vars PROVE IInv' /\ [Promise!Next]_<<rows, announced>>
    OBVIOUS
  <1>1. CASE Starting
    <2>1. announced' = announced
      BY <1>1 DEF Starting, Open, ResetStep, Migrate, Opened
    <2>2. QED BY <1>1, <2>1, OpenInv, ResetInv, MigrateInv, OpenedInv DEF Starting
  <1>2. CASE Crash
    BY <1>2, CrashInv
  <1>3. ASSUME NEW t \in Threads, Thread(t)
        PROVE  IInv' /\ [Promise!Next]_<<rows, announced>>
    <2>1. CASE Begin(t) \/ Write(t) \/ LeaveNested(t) \/ Rollback(t)
      BY <2>1, BeginInv, WriteInv, LeaveNestedInv, RollbackInv
    <2>2. CASE Commit(t)
      BY <2>2, CommitInv DEF Promise!Next, Promise!CommitUnit
    <2>3. CASE WriteAlone(t)
      BY <2>3, WriteAloneInv DEF Promise!Next, Promise!CommitUnit
    <2>4. CASE RunCallback(t)
      BY <2>4, RunCallbackInv DEF Promise!Next, Promise!Announce
    <2>5. QED BY <1>3, <2>1, <2>2, <2>3, <2>4 DEF Thread, Ending
  <1>4. CASE UNCHANGED vars
    <2>1. UNCHANGED <<objects, versions, rows, phase, at, lock, depth, written, callbacks, todo,
                      units, announced, crashes>>
      BY <1>4 DEF vars, disk, tx
    <2>2. OpenMeansComplete' /\ AppliedInv' /\ OriginInv' /\ ProgressInv'
      BY <2>1 DEF IInv, OpenMeansComplete, TypeOK, AppliedInv, OriginInv, ProgressInv
    <2>3. VolatileInv' /\ UnitInv'
      BY <2>1 DEF IInv, VolatileInv, UnitInv
    <2>4. QED BY <2>1, <2>2, <2>3 DEF IInv
  <1>5. QED BY <1>1, <1>2, <1>3, <1>4 DEF Next

\* The invariant holds in every reachable state.
THEOREM InductiveInvariant == Spec => []IInv
  <1>1. IInv /\ [Next]_vars => IInv'
    BY StepKeepsPromise
  <1>2. QED BY InitInv, <1>1, PTL DEF Spec

\* Whatever crashes interrupted earlier openings, a store that opens has the whole
\* schema of its version and nothing of another origin
\* (storage.py: _apply_pending_migrations, _reset_sqlite_schema).
THEOREM OpenStoreIsComplete == Spec => []OpenMeansComplete
  <1>1. IInv => OpenMeansComplete
    BY DEF IInv
  <1>2. QED BY <1>1, InductiveInvariant, PTL

\* The store implements AtomicStore: a transaction becomes durable as a whole and
\* once, no durable row is lost, and no after-commit effect runs for a row that is
\* not durable (storage.py: transaction, _run_after_commit_callbacks).
THEOREM StoreIsAtomic == Spec => KeepsPromise
  <1>1. Init => Promise!Init
    BY StoreBounds DEF Init, Promise!Init
  <1>2. IInv /\ [Next]_vars => [Promise!Next]_<<rows, announced>>
    BY StepKeepsPromise
  <1>3. QED BY <1>1, <1>2, InductiveInvariant, PTL DEF Spec, KeepsPromise, Promise!Spec
==============================================================================
