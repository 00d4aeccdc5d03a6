----------------------------- MODULE AgentStore ------------------------------
(***************************************************************************)
(* The SQLite store every other component writes through (storage.py) and  *)
(* the commit-then-effect runner above it (lifecycle_transactions.py).     *)
(*                                                                         *)
(* Opening: setup() discards a retired schema, then applies the pending    *)
(* migrations.  Their DDL runs outside a transaction (executescript and    *)
(* ALTER TABLE commit by themselves), so a crash may fall between any two  *)
(* statements and before the version is recorded.                          *)
(*                                                                         *)
(* Working: one connection behind a re-entrant lock that is held for a     *)
(* whole outermost transaction.  Nested scopes join it.  After-commit      *)
(* callbacks and the lifecycle runner's post-commit action run when the    *)
(* lock has been released.                                                 *)
(***************************************************************************)
EXTENDS Naturals, Sequences, FiniteSets

CONSTANTS Threads,    \* threads that use the store
          MaxUnits,   \* bound: transactions and single statements
          MaxWrites,  \* bound: writes in one transaction
          MaxCrashes  \* bound: process losses

ASSUME StoreBounds ==
    /\ {MaxUnits, MaxWrites, MaxCrashes} \subseteq Nat
    /\ "none" \notin Threads

\* The statements of the migrations as the objects they create, in order; a
\* table stands for its indexes too.  "family" is the marker row of
\* store_metadata.
CoreTables == <<"contexts", "messages", "route_decisions", "tasks", "task_events",
                "artifacts">>
AgentTables == <<"registered_agents", "delegated_tasks">>
ControlTables == <<"pending_continuations", "message_ingress", "queued_executions">>

SchemaV1 ==
    <<"store_metadata", "family", "memory_items", "skill_index", "eval_runs",
      "eval_results", "model_profiles">>
    \o CoreTables \o AgentTables \o ControlTables

SchemaV2 == <<"tool_invocations">>
SchemaV3 == <<"error_retryable", "one_direct_retry">>
SchemaV4 == <<"task_revision", "event_revision">>
SchemaV5 == <<"command_version">>

MIGRATIONS == <<SchemaV1, SchemaV2, SchemaV3, SchemaV4, SchemaV5>>

\* ALTER TABLE ... ADD COLUMN has no IF NOT EXISTS.
AddColumn == {"error_retryable", "task_revision", "event_revision", "command_version"}

Versions == DOMAIN MIGRATIONS
StatementsOf(v) == {MIGRATIONS[v][i] : i \in DOMAIN MIGRATIONS[v]}
Complete == UNION {StatementsOf(v) : v \in Versions}

VARIABLES
    objects,    \* durable: schema objects, "retired" for those of an old family
    versions,   \* durable: rows of schema_migrations
    rows,       \* durable: data rows <<unit, index>>
    phase,      \* "down", "reset", "migrate", "open", "refused"
    at,         \* <<version, statement>> of the migration in progress
    lock,       \* the thread that holds the lock, or "none"
    depth,      \* _transaction_depth
    written,    \* rows of the open transaction
    callbacks,  \* _after_commit_callbacks
    todo,       \* thread -> callbacks it has taken over and not run yet
    units,      \* units of work begun
    announced,  \* ghost: rows whose callback has run
    crashes

disk == <<objects, versions, rows>>
setup == <<objects, versions, phase, at>>
tx == <<lock, depth, written, callbacks>>
vars == <<disk, phase, at, tx, todo, units, announced, crashes>>

\* The databases a process may find: none, one of this family at version 2
\* with data in it, one of the retired runtime, one of an unknown family.
Init ==
    /\ \/ objects = {} /\ versions = {} /\ rows = {}
       \/ /\ objects = StatementsOf(1) \cup StatementsOf(2)
          /\ versions = {1, 2} /\ rows = {<<0, 1>>}
       \/ objects = {"retired"} /\ versions \in {{}, {12}} /\ rows = {}
       \/ objects = {"store_metadata", "other_family"} /\ versions = {1} /\ rows = {}
    /\ phase = "down" /\ at = <<1, 1>>
    /\ lock = "none" /\ depth = 0 /\ written = <<>> /\ callbacks = <<>>
    /\ todo = [t \in Threads |-> <<>>]
    /\ units = 0 /\ announced = {} /\ crashes = 0

------------------------------------------------------------------------------
(* Opening.                                                                *)

\* _requires_clean_slate_reset, for a database without a foreign family.
RequiresReset ==
    /\ "family" \notin objects
    /\ versions # {} \/ objects # {}

\* AgentStore.__post_init__ up to the choice setup() makes.
Open ==
    /\ phase = "down"
    /\ phase' = IF "other_family" \in objects THEN "refused"
                ELSE IF RequiresReset THEN "reset" ELSE "migrate"
    /\ at' = <<1, 1>>
    /\ UNCHANGED <<disk, tx, todo, units, announced, crashes>>

\* _reset_sqlite_schema drops one object after the other, the version table
\* among them; the tables take their rows along.
ResetStep ==
    /\ phase = "reset"
    /\ \/ \E o \in objects :
            /\ objects' = objects \ {o}
            /\ rows' = IF o = "contexts" THEN {} ELSE rows
            /\ UNCHANGED <<versions, phase>>
       \/ versions # {} /\ versions' = {} /\ UNCHANGED <<objects, rows, phase>>
       \/ /\ objects = {} /\ versions = {} /\ phase' = "migrate"
          /\ UNCHANGED disk
    /\ UNCHANGED <<at, tx, todo, units, announced, crashes>>

\* mutant: the version is recorded before the migration's statements
MigrateRecordFirst ==
    /\ phase = "migrate" /\ at[1] \in Versions
    /\ LET v == at[1] i == at[2] IN
         \/ /\ v \in versions /\ i = 1 /\ at' = <<v + 1, 1>>
            /\ UNCHANGED <<objects, versions, phase>>
         \/ /\ v \notin versions /\ i = 1 /\ versions' = versions \cup {v}
            /\ at' = <<v, 2>> /\ UNCHANGED <<objects, phase>>
         \/ /\ i > 1 /\ i <= Len(MIGRATIONS[v]) + 1
            /\ objects' = objects \cup {MIGRATIONS[v][i - 1]}
            /\ at' = IF i = Len(MIGRATIONS[v]) + 1 THEN <<v + 1, 1>> ELSE <<v, i + 1>>
            /\ UNCHANGED <<versions, phase>>
    /\ UNCHANGED <<rows, tx, todo, units, announced, crashes>>

\* _apply_pending_migrations: skip an applied version, else run its next
\* statement, else record it.  Adding a column that a lost process had
\* already added raises, and the store does not open.
Migrate ==
    /\ phase = "migrate" /\ at[1] \in Versions
    /\ LET v == at[1] i == at[2] IN
         \/ /\ v \in versions /\ at' = <<v + 1, 1>>
            /\ UNCHANGED <<objects, versions, phase>>
         \/ /\ v \notin versions /\ i \in DOMAIN MIGRATIONS[v]
            /\ IF MIGRATIONS[v][i] \in AddColumn \cap objects
               THEN phase' = "refused" /\ UNCHANGED <<objects, at>>
               ELSE /\ objects' = objects \cup {MIGRATIONS[v][i]}
                    /\ at' = <<v, i + 1>> /\ UNCHANGED phase
            /\ UNCHANGED versions
         \/ /\ v \notin versions /\ i = Len(MIGRATIONS[v]) + 1
            /\ versions' = versions \cup {v}
            /\ at' = <<v + 1, 1>>
            /\ UNCHANGED <<objects, phase>>
    /\ UNCHANGED <<rows, tx, todo, units, announced, crashes>>

Opened ==
    /\ phase = "migrate" /\ at[1] \notin Versions
    /\ phase' = "open"
    /\ UNCHANGED <<disk, at, tx, todo, units, announced, crashes>>

------------------------------------------------------------------------------
(* Working.                                                                *)

Elements(s) == {s[i] : i \in DOMAIN s}

\* AgentStore.transaction entered: the outermost scope takes the lock, a
\* nested one joins it.  A post-commit action may open one of its own.
Begin(t) ==
    /\ phase = "open"
    /\ \/ /\ lock = "none" /\ units < MaxUnits
          /\ lock' = t /\ units' = units + 1
          /\ callbacks' = <<>>
       \/ lock = t /\ depth = 1 /\ UNCHANGED <<lock, units, callbacks>>
    /\ depth' = depth + 1
    /\ UNCHANGED <<disk, phase, at, written, todo, announced, crashes>>

\* execute inside a transaction, with or without registering a callback for
\* the row.
Write(t) ==
    /\ phase = "open" /\ lock = t /\ Len(written) < MaxWrites
    /\ LET row == <<units, Len(written) + 1>> IN
         /\ written' = Append(written, row)
         /\ callbacks' \in {callbacks, Append(callbacks, row)}
    /\ UNCHANGED <<disk, phase, at, lock, depth, todo, units, announced, crashes>>

\* mutant: a nested scope commits
LeaveNestedCommits(t) ==
    /\ phase = "open" /\ lock = t /\ depth = 2
    /\ depth' = 1
    /\ rows' = rows \cup Elements(written)
    /\ UNCHANGED <<setup, lock, written, callbacks, todo, units, announced, crashes>>

\* A nested scope ends.  When it ends with an exception that its caller
\* catches, its writes and callbacks stay: it is not a savepoint.
LeaveNested(t) ==
    /\ phase = "open" /\ lock = t /\ depth = 2
    /\ depth' = 1
    /\ UNCHANGED <<setup, rows, lock, written, callbacks, todo, units, announced,
                   crashes>>

\* The outermost scope ends: commit, then release the lock with the
\* callbacks taken over; they run before what is left of an outer list.
Commit(t) ==
    /\ phase = "open" /\ lock = t /\ depth = 1
    /\ rows' = rows \cup Elements(written)
    /\ todo' = [todo EXCEPT ![t] = callbacks \o @]
    /\ lock' = "none" /\ depth' = 0 /\ written' = <<>> /\ callbacks' = <<>>
    /\ UNCHANGED <<setup, units, announced, crashes>>

\* An exception leaves the outermost scope, from a nested one or not, or the
\* commit itself fails.
Rollback(t) ==
    /\ phase = "open" /\ lock = t
    /\ lock' = "none" /\ depth' = 0 /\ written' = <<>> /\ callbacks' = <<>>
    /\ UNCHANGED <<disk, phase, at, todo, units, announced, crashes>>

\* execute outside a transaction commits by itself; register_after_commit
\* then runs its callback at once.
WriteAlone(t) ==
    /\ phase = "open" /\ lock = "none" /\ units < MaxUnits
    /\ units' = units + 1
    /\ rows' = rows \cup {<<units + 1, 1>>}
    /\ todo' = [todo EXCEPT ![t] = <<<<units + 1, 1>>>> \o @]
    /\ UNCHANGED <<setup, tx, announced, crashes>>

\* mutant: a callback that raises ends the loop
RunCallbackStops(t) ==
    /\ phase = "open" /\ lock # t /\ todo[t] # <<>>
    /\ \/ /\ announced' = announced \cup {Head(todo[t])}
          /\ todo' = [todo EXCEPT ![t] = Tail(@)]
       \/ /\ announced' = announced \cup {Head(todo[t])}
          /\ todo' = [todo EXCEPT ![t] = <<>>]
    /\ UNCHANGED <<disk, phase, at, tx, units, crashes>>

\* _run_after_commit_callbacks: one callback after the other; one that
\* raises is logged.  LifecycleTransactionRunner's post-commit action is the
\* last of them.
RunCallback(t) ==
    /\ phase = "open" /\ lock # t /\ todo[t] # <<>>
    /\ announced' = announced \cup {Head(todo[t])}
    /\ todo' = [todo EXCEPT ![t] = Tail(@)]
    /\ UNCHANGED <<disk, phase, at, tx, units, crashes>>

\* The process is lost, or one that could not open the store has ended; the
\* uncommitted transaction and the callbacks go with it.
Crash ==
    /\ phase # "down" /\ crashes < MaxCrashes
    /\ crashes' = crashes + 1
    /\ phase' = "down" /\ at' = <<1, 1>>
    /\ lock' = "none" /\ depth' = 0 /\ written' = <<>> /\ callbacks' = <<>>
    /\ todo' = [t \in Threads |-> <<>>]
    /\ UNCHANGED <<disk, units, announced>>

Starting == Open \/ ResetStep \/ Migrate \/ Opened
Ending(t) == Commit(t) \/ Rollback(t) \/ RunCallback(t)
Thread(t) == Begin(t) \/ Write(t) \/ LeaveNested(t) \/ WriteAlone(t) \/ Ending(t)

Next == Starting \/ Crash \/ \E t \in Threads : Thread(t)

Spec == Init /\ [][Next]_vars

\* A starting process goes on starting; a thread inside a transaction leaves
\* it and runs the callbacks it has taken over.
FairSpec == Spec /\ WF_vars(Starting) /\ \A t \in Threads : WF_vars(Ending(t))

------------------------------------------------------------------------------
TypeOK ==
    /\ objects \subseteq Complete \cup {"retired", "other_family"}
    /\ versions \subseteq Versions \cup {12}
    /\ rows \subseteq (0..MaxUnits) \X (1..(MaxWrites + 1))
    /\ phase \in {"down", "reset", "migrate", "open", "refused"}
    /\ lock \in Threads \cup {"none"} /\ depth \in 0..2
    /\ (depth = 0) <=> (lock = "none")
    /\ units \in 0..MaxUnits 

\* A store that opens has the whole schema of its version, whatever crashes
\* came before: no migration is recorded that was not carried out, nothing
\* of a retired schema is left, and an unknown family is never opened
\* (storage.py:449-475,628-692).
OpenMeansComplete ==
    /\ TypeOK
    /\ phase = "open" => objects = Complete /\ versions = Versions

Promise == INSTANCE AtomicStore WITH Units <- 0..MaxUnits

\* The store keeps the promise of AtomicStore: a transaction with all its
\* nested scopes becomes durable at once or not at all, opening the store
\* again never loses rows of this family, and no after-commit effect runs
\* for a row that is not durable (storage.py:455-459,494-537;
\* lifecycle_transactions.py:68-82).
KeepsPromise == Promise!Spec

\* Every after-commit effect a committed transaction registered runs, also
\* when an earlier one raises, unless the process is lost first
\* (storage.py:514,531-537).
CommittedIsAnnounced ==
    \A t \in Threads : \A r \in (1..MaxUnits) \X (1..MaxWrites) :
      (r \in Elements(todo[t])) ~> (r \in announced \/ phase # "open")

==============================================================================
