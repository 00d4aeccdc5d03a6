-------------------------- MODULE TaskEventStream --------------------------
(***************************************************************************)
(* The durable event log of one local Task, the wake-up hint that follows  *)
(* each commit, and the SSE streams that replay the log to their clients:  *)
(* message/stream after a Task was accepted, and tasks/resubscribe with    *)
(* the last event id the client has.                                       *)
(*                                                                         *)
(* A transaction is one step; its notifications run later, one by one, on  *)
(* the thread that committed. Event ids grow in commit order, because the  *)
(* database has one writer at a time: an event is its position in the log. *)
(***************************************************************************)
EXTENDS TaskLifecycle, Integers, Sequences, SequencesExt

CONSTANTS
    Streams,    \* SSE streams, each with its client
    MaxEvents,  \* bound: events of the Task
    MaxDrops,   \* bound: connections that are lost or renewed
    MaxFaults   \* bound: reads that raise

ASSUME StreamAssumption ==
    /\ MaxEvents \in Nat \ {0, 1}
    /\ MaxDrops \in Nat
    /\ MaxFaults \in Nat

VARIABLES
    status,   \* main_agent_tasks.status
    log,      \* main_agent_task_events of the Task, in event_id order
    pending,  \* notifications of committed events that have not run yet
    version,  \* the notifier's version of the Task
    pc,       \* where each stream is
    kind,     \* message/stream or tasks/resubscribe
    cursor,   \* last_event_id of the stream
    observed, \* the version it waits on
    batch,    \* event ids read and not yet sent: they go out in their order
    got,      \* event ids the client received
    ended,    \* reached_end_state
    mark,     \* history: length of the log when the end state was read
    drops,
    faults

task   == <<status, log, pending, version>>
stream == <<pc, kind, cursor, observed, batch, got, ended, mark>>
vars   == <<task, stream, drops, faults>>

\* A lifecycle event carries its status; an artifact event has none; an audit event
\* has none either and is not projected to A2A.
Event      == TaskStatus \cup {"artifact", "audit"}
Visible(e) == e # "audit"

\* _STREAM_END_STATES
EndStates == TerminalStatus \cup WaitingStatus

StreamPc ==
    {"list", "observe", "relist", "check", "asleep", "send", "status",
     "trailing", "flush", "stopped", "errored", "gone"}

\* The log, the notifier and the streams have the shape the code gives them.
TypeOK ==
    /\ status \in TaskStatus
    /\ log \in Seq(Event) /\ Len(log) <= MaxEvents
    /\ pending \in 0 .. MaxEvents
    /\ version \in 0 .. MaxEvents
    /\ pc \in [Streams -> StreamPc]
    /\ kind \in [Streams -> {"message", "resubscribe"}]
    /\ cursor \in [Streams -> 0 .. MaxEvents]
    /\ observed \in [Streams -> 0 .. MaxEvents]
    /\ batch \in [Streams -> SUBSET (1 .. MaxEvents)]
    /\ got \in [Streams -> Seq(1 .. MaxEvents)]
    /\ ended \in [Streams -> BOOLEAN]
    /\ mark \in [Streams -> 0 .. MaxEvents]
    /\ drops \in 0 .. MaxDrops
    /\ faults \in 0 .. MaxFaults

\* The Task was just accepted.
Init ==
    /\ status = "queued"
    /\ log = <<"created", "queued">>
    /\ pending = 2
    /\ version = 0
    /\ pc = [s \in Streams |-> "list"]
    /\ kind = [s \in Streams |-> "message"]
    /\ cursor = [s \in Streams |-> 0]
    /\ observed = [s \in Streams |-> 0]
    /\ batch = [s \in Streams |-> {}]
    /\ got = [s \in Streams |-> <<>>]
    /\ ended = [s \in Streams |-> FALSE]
    /\ mark = [s \in Streams |-> 0]
    /\ drops = 0
    /\ faults = 0

-----------------------------------------------------------------------------
(***************************************************************************)
(* Writers and the notifier                                                *)
(***************************************************************************)

\* The transaction of append_task_event: the events with the status they report.
AppendEvents(events) ==
    /\ Len(log) + Len(events) <= MaxEvents
    /\ log' = log \o events
    /\ pending' = pending + Len(events)
    /\ UNCHANGED <<version, stream, drops, faults>>

\* The events stored with a transition: an accepted continuation first records who
\* answered, an outcome may first record its observations.
Companions(target) ==
    IF status \in WaitingStatus /\ target = "queued" THEN {<<"audit">>}
    ELSE IF status = "running" /\ target \in {"completed", "input_required", "failed"}
      THEN {<<>>, <<"artifact">>}
      ELSE {<<>>}

\* transition_local_task: status and lifecycle event in one transaction.
Transition ==
    \E target \in TaskStatus : \E first \in Companions(target) :
        /\ <<status, target>> \in LOCAL_TASK_TRANSITIONS
        /\ status' = target
        /\ AppendEvents(first \o <<target>>)

\* complete_tool_invocation_success stores an artifact while the Task runs.
StoreArtifact ==
    /\ status = "running"
    /\ AppendEvents(<<"artifact">>)
    /\ UNCHANGED status

\* Mutant of Notify: the callbacks of a commit are not cleared once they ran.
NotifyUncleared ==
    /\ pending > 0
    /\ version' = version + 1
    /\ pc' = [s \in Streams |-> IF pc[s] = "asleep" THEN "relist" ELSE pc[s]]
    /\ observed' = [s \in Streams |-> IF pc[s] = "asleep" THEN version + 1 ELSE observed[s]]
    /\ UNCHANGED <<status, log, pending, kind, cursor, batch, got, ended, mark, drops, faults>>

\* The after-commit callback: notify wakes everyone who waits.
Notify ==
    /\ pending > 0
    /\ pending' = pending - 1
    /\ version' = version + 1
    /\ pc' = [s \in Streams |-> IF pc[s] = "asleep" THEN "relist" ELSE pc[s]]
    /\ observed' = [s \in Streams |-> IF pc[s] = "asleep" THEN version + 1 ELSE observed[s]]
    /\ UNCHANGED <<status, log, kind, cursor, batch, got, ended, mark, drops, faults>>

-----------------------------------------------------------------------------
(***************************************************************************)
(* wait_for_task_events                                                    *)
(***************************************************************************)

Goto(s, p) == pc' = [pc EXCEPT ![s] = p]

\* Mutant of NewEvents: the newest event alone is read.
NewEventsFromNext(s) == IF Len(log) > cursor[s] THEN {Len(log)} ELSE {}

\* list_task_events after the cursor.
NewEvents(s) == cursor[s] + 1 .. Len(log)

\* What the adapter makes of a batch: the cursor passes all of it, audit events
\* included, and the others are to be sent.
Take(s, events) ==
    /\ batch' = [batch EXCEPT ![s] = {i \in events : Visible(log[i])}]
    /\ cursor' = [cursor EXCEPT ![s] = Len(log)]

FirstList(s) ==
    /\ pc[s] = "list"
    /\ \/ /\ Len(log) > cursor[s]
          /\ Take(s, NewEvents(s))
          /\ Goto(s, "send")
       \/ Len(log) = cursor[s] /\ Goto(s, "observe") /\ UNCHANGED <<batch, cursor>>
    /\ UNCHANGED <<task, kind, observed, got, ended, mark, drops, faults>>

\* Mutant of Observe: the version is observed after the last look at the log.
ObserveLate(s) ==
    /\ pc[s] = "observe"
    /\ observed' = [observed EXCEPT ![s] = version]
    /\ Goto(s, "check")
    /\ UNCHANGED <<task, kind, cursor, batch, got, ended, mark, drops, faults>>

\* The version is observed before the log is read again.
Observe(s) ==
    /\ pc[s] = "observe"
    /\ observed' = [observed EXCEPT ![s] = version]
    /\ Goto(s, "relist")
    /\ UNCHANGED <<task, kind, cursor, batch, got, ended, mark, drops, faults>>

Relist(s) ==
    /\ pc[s] = "relist"
    /\ \/ /\ Len(log) > cursor[s]
          /\ Take(s, NewEvents(s))
          /\ Goto(s, "send")
       \/ Len(log) = cursor[s] /\ Goto(s, "check") /\ UNCHANGED <<batch, cursor>>
    /\ UNCHANGED <<task, kind, observed, got, ended, mark, drops, faults>>

\* wait_for_change, under the condition's lock: it sleeps only if the version has
\* not moved.
WaitForChange(s) ==
    /\ pc[s] = "check"
    /\ \/ version <= observed[s] /\ Goto(s, "asleep") /\ UNCHANGED observed
       \/ /\ version > observed[s]
          /\ Goto(s, "relist")
          /\ observed' = [observed EXCEPT ![s] = version]
    /\ UNCHANGED <<task, kind, cursor, batch, got, ended, mark, drops, faults>>

\* The one-second timeout: an empty batch.
Timeout(s) ==
    /\ pc[s] = "asleep"
    /\ Goto(s, "status")
    /\ UNCHANGED <<task, kind, cursor, observed, batch, got, ended, mark, drops, faults>>

-----------------------------------------------------------------------------
(***************************************************************************)
(* The stream                                                              *)
(***************************************************************************)

\* The next event of the batch goes to the client, which is the one with the least id;
\* after the last one the Task is looked at, or, if it was the trailing batch, the
\* stream stops.
Send(s) ==
    /\ pc[s] \in {"send", "flush"}
    /\ \/ \E i \in batch[s] :
          /\ \A j \in batch[s] : i <= j
          /\ got' = [got EXCEPT ![s] = Append(@, i)]
          /\ batch' = [batch EXCEPT ![s] = @ \ {i}]
          /\ ended' = [ended EXCEPT ![s] = @ \/ log[i] \in EndStates]
          /\ UNCHANGED pc
       \/ /\ batch[s] = {}
          /\ Goto(s, IF pc[s] = "send" THEN "status" ELSE "stopped")
          /\ UNCHANGED <<got, batch, ended>>
    /\ UNCHANGED <<task, kind, cursor, observed, mark, drops, faults>>

\* Mutant of ReadStatus: the stream stops without the trailing batch.
ReadStatusAndStop(s) ==
    /\ pc[s] = "status"
    /\ Goto(s, IF status \in EndStates THEN "stopped" ELSE "list")
    /\ mark' = [mark EXCEPT ![s] = Len(log)]
    /\ UNCHANGED <<task, kind, cursor, observed, batch, got, ended, drops, faults>>

\* Mutant of ReadStatus: only the terminal states end a stream.
ReadStatusTerminal(s) ==
    /\ pc[s] = "status"
    /\ Goto(s, IF status \in TerminalStatus \ {"canceled"} THEN "trailing" ELSE "list")
    /\ mark' = [mark EXCEPT ![s] = Len(log)]
    /\ UNCHANGED <<task, kind, cursor, observed, batch, got, ended, drops, faults>>

\* adapter.get_task: an end state makes the next batch the last one.
ReadStatus(s) ==
    /\ pc[s] = "status"
    /\ Goto(s, IF status \in EndStates THEN "trailing" ELSE "list")
    /\ mark' = [mark EXCEPT ![s] = Len(log)]
    /\ UNCHANGED <<task, kind, cursor, observed, batch, got, ended, drops, faults>>

\* The trailing batch, read without waiting.
ReadTrailing(s) ==
    /\ pc[s] = "trailing"
    /\ Take(s, NewEvents(s))
    /\ Goto(s, "flush")
    /\ UNCHANGED <<task, kind, observed, got, ended, mark, drops, faults>>

\* A read raises: an error event, unless a message/stream already sent an end state.
Raise(s) ==
    /\ pc[s] \in {"list", "relist", "status", "trailing"}
    /\ faults < MaxFaults
    /\ faults' = faults + 1
    /\ Goto(s, IF kind[s] = "message" /\ ended[s] THEN "stopped" ELSE "errored")
    /\ UNCHANGED <<task, kind, cursor, observed, batch, got, ended, mark, drops>>

\* The connection is lost.
Disconnect(s) ==
    /\ pc[s] \notin {"stopped", "errored", "gone"}
    /\ drops < MaxDrops
    /\ drops' = drops + 1
    /\ Goto(s, "gone")
    /\ UNCHANGED <<task, kind, cursor, observed, batch, got, ended, mark, faults>>

\* The last event id a client has.
LastGot(s) == IF got[s] = <<>> THEN 0 ELSE Last(got[s])

\* tasks/resubscribe with the id of the last event the client received.
Resubscribe(s) ==
    /\ pc[s] \in {"stopped", "errored", "gone"}
    /\ drops < MaxDrops
    /\ drops' = drops + 1
    /\ kind' = [kind EXCEPT ![s] = "resubscribe"]
    /\ cursor' = [cursor EXCEPT ![s] = LastGot(s)]
    /\ batch' = [batch EXCEPT ![s] = {}]
    /\ ended' = [ended EXCEPT ![s] = FALSE]
    /\ Goto(s, "list")
    /\ UNCHANGED <<task, observed, got, mark, faults>>

-----------------------------------------------------------------------------
Writer == Transition \/ StoreArtifact

Reader(s) ==
    \/ FirstList(s)
    \/ Observe(s)
    \/ Relist(s)
    \/ WaitForChange(s)
    \/ Timeout(s)
    \/ Send(s)
    \/ ReadStatus(s)
    \/ ReadTrailing(s)

Next ==
    \/ Writer
    \/ Notify
    \/ \E s \in Streams : Reader(s) \/ Raise(s) \/ Disconnect(s) \/ Resubscribe(s)

Spec == Init /\ [][Next]_vars

\* A connected stream keeps reading: its thread runs, and its wait times out.
FairSpec == Spec /\ \A s \in Streams : WF_vars(Reader(s))

-----------------------------------------------------------------------------
(***************************************************************************)
(* Properties                                                              *)
(***************************************************************************)

\* Over any number of connections, a client receives exactly the events that are
\* projected, in their order: no gap behind the last one and no repetition. A stream
\* that stops by itself first sent every event there was when it read the end state:
\* the trailing batch closes the gap between its last wait and that read.
DeliveredWithoutGap ==
    /\ TypeOK
    /\ \A s \in Streams :
         /\ \A j, k \in DOMAIN got[s] : j < k => got[s][j] < got[s][k]
         /\ ToSet(got[s]) = {i \in 1 .. LastGot(s) : Visible(log[i])}
         /\ pc[s] = "stopped" /\ faults = 0
              => \A i \in 1 .. mark[s] : Visible(log[i]) => i <= LastGot(s)

\* No stream sleeps on an event it has not read, unless the notification of a commit
\* is still to come: the order observe, list, wait loses no wake-up.
NoLostWakeup ==
    \A s \in Streams : pc[s] = "asleep" /\ Len(log) > cursor[s] => pending > 0

\* Once the Task is terminal, every stream that stays connected ends.
TerminalEndsStreams ==
    \A s \in Streams :
        status \in TerminalStatus ~> pc[s] \in {"stopped", "errored", "gone"}
=============================================================================
