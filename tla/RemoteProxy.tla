---------------------------- MODULE RemoteProxy ----------------------------
(***************************************************************************)
(* One delegation to a child A2A agent: the message is sent, the child     *)
(* answers with a message or a Task, and the local proxy of that Task is   *)
(* advanced by snapshots that several threads fetch and record in any      *)
(* order, while the child works on, the registration of the agent is       *)
(* edited, disabled or deleted, and the Context may be deleted.            *)
(*                                                                         *)
(* A remote call is a step between two steps of its caller: what the       *)
(* caller read before it, and the snapshot it brings back, may be stale.   *)
(***************************************************************************)
EXTENDS TaskLifecycle, Integers, Sequences, FiniteSets

CONSTANTS
    Readers,    \* threads that refresh or cancel the proxy
    Stream,     \* the one among them that serves an SSE stream of the proxy
    Endpoints,  \* where agent cards may point
    WireStates, \* the A2A states the child may report
    MaxEdits    \* bound: edits of the registration

Terminal  == {"completed", "canceled", "cancelled", "failed", "rejected"}
WireState == {"submitted", "working", "input-required", "auth-required",
              "unknown", "missing"} \cup Terminal

ASSUME RemoteAssumption ==
    /\ Stream \in Readers
    /\ WireStates \subseteq WireState
    /\ "working" \in WireStates
    /\ MaxEdits \in Nat

VARIABLES
    \* the child agent
    child,      \* state of its Task, "absent" before the message arrives
    childParts, \* its Task has an artifact with usable parts
    home,       \* the endpoint that received the message
    \* registered_agents
    agent,      \* "absent", "disabled", "enabled"
    endpoint,   \* where its card points
    \* durable rows of the delegation
    ingress,    \* "in_progress", "resolved", "failed"
    proxy,      \* status of the proxy Task, "absent" without a row
    delegation, \* delegated_tasks.status, "absent" without a row
    answers,    \* final-answer messages stored for the proxy
    events,     \* status, or "artifact", of its task events
    \* threads
    sender,     \* where _handle_remote_agent is
    reply,      \* the reply it got: "none", "message" or a wire state
    pc,         \* where each reader is
    url,        \* the endpoint it took from the registration
    snapshot,   \* what the child answered
    streaming,  \* the SSE stream is open
    deleting,   \* delete_registered_agent found no delegation
    \* history and bounds
    edits

remote   == <<child, childParts, home>>
registry == <<agent, endpoint, deleting, edits>>
rows     == <<ingress, proxy, delegation, answers, events>>
sending  == <<sender, reply>>
reading  == <<pc, url, snapshot, streaming>>
vars     == <<remote, registry, rows, sending, reading>>

Snapshot  == [mine : BOOLEAN, wire : WireStates, parts : BOOLEAN]
NoSnapshot == [mine |-> FALSE, wire |-> "none", parts |-> FALSE]

\* The child, the registration, the rows and the threads have the shape the code
\* gives them.
TypeOK ==
    /\ child \in WireStates \cup {"absent"}
    /\ childParts \in BOOLEAN
    /\ home \in Endpoints
    /\ agent \in {"absent", "disabled", "enabled"}
    /\ endpoint \in Endpoints
    /\ ingress \in {"in_progress", "resolved", "failed"}
    /\ proxy \in TaskStatus \cup {"absent"}
    /\ delegation \in WireState \cup TaskStatus \cup {"absent", "message"}
    /\ answers \in Nat
    /\ events \in Seq(TaskStatus \cup {"artifact"})
    /\ sender \in {"start", "send", "record", "done"}
    /\ reply \in WireStates \cup {"none", "message"}
    /\ pc \in [Readers -> {"idle", "get", "cancel", "record"}]
    /\ url \in [Readers -> Endpoints]
    /\ snapshot \in [Readers -> Snapshot \cup {NoSnapshot}]
    /\ streaming \in BOOLEAN
    /\ deleting \in BOOLEAN
    /\ edits \in 0 .. MaxEdits

Init ==
    /\ child = "absent"
    /\ childParts = FALSE
    /\ endpoint \in Endpoints
    /\ home = endpoint
    /\ agent = "enabled"
    /\ ingress = "in_progress"
    /\ proxy = "absent"
    /\ delegation = "absent"
    /\ answers = 0
    /\ events = <<>>
    /\ sender = "start"
    /\ reply = "none"
    /\ pc = [r \in Readers |-> "idle"]
    /\ url = [r \in Readers |-> endpoint]
    /\ snapshot = [r \in Readers |-> NoSnapshot]
    /\ streaming = FALSE
    /\ deleting = FALSE
    /\ edits = 0

-----------------------------------------------------------------------------
(***************************************************************************)
(* Child states and local statuses                                         *)
(***************************************************************************)

\* Mutant of RemoteTaskStatus: a state that is not known is passed on.
RemoteTaskStatusRaw(wire, fallback) ==
    IF wire = "working" THEN "running"
    ELSE IF wire = "input-required" THEN "input_required" ELSE wire

\* remote_task_status: a state that is not known, or none at all, is the fallback.
RemoteTaskStatus(wire, fallback) ==
    IF wire \in {"submitted", "created", "queued"} THEN "queued"
    ELSE IF wire \in {"working", "running"} THEN "running"
    ELSE IF wire = "completed" THEN "completed"
    ELSE IF wire \in {"canceled", "cancelled"} THEN "canceled"
    ELSE IF wire \in {"failed", "rejected"} THEN "failed"
    ELSE IF wire = "input-required" THEN "input_required"
    ELSE IF wire = "auth-required" THEN "auth_required"
    ELSE fallback

\* What the delegation row keeps of a state: the state, or the status when there is
\* none.
StoredState(wire, status) == IF wire = "missing" THEN status ELSE wire

-----------------------------------------------------------------------------
(***************************************************************************)
(* The child agent                                                         *)
(***************************************************************************)

\* The child works on: it may wait, go on and report states nobody knows, but it
\* does not leave a terminal state.
ChildMoves ==
    /\ child \notin Terminal \cup {"absent"}
    /\ child' \in WireStates \ {"submitted"}
    /\ UNCHANGED <<childParts, home, registry, rows, sending, reading>>

\* It publishes its answer, perhaps after it completed.
ChildPublishes ==
    /\ child # "absent"
    /\ childParts' = TRUE
    /\ UNCHANGED <<child, home, registry, rows, sending, reading>>

-----------------------------------------------------------------------------
(***************************************************************************)
(* Registrations                                                           *)
(***************************************************************************)

\* upsert_registered_agent and refresh_registered_agent_card: nothing looks at the
\* delegations of the agent.
UpsertAgent ==
    /\ edits < MaxEdits
    /\ edits' = edits + 1
    /\ agent' \in {"disabled", "enabled"}
    /\ endpoint' \in Endpoints
    /\ UNCHANGED <<deleting, remote, rows, sending, reading>>

\* delete_registered_agent looks for delegations, active or not ...
CheckAgentUnused ==
    /\ agent # "absent"
    /\ delegation = "absent"
    /\ deleting' = TRUE
    /\ UNCHANGED <<agent, endpoint, edits, remote, rows, sending, reading>>

\* Mutant of DeleteAgent: the delegation row has no foreign key.
DeleteAgentUnreferenced ==
    /\ deleting
    /\ deleting' = FALSE
    /\ agent' = "absent"
    /\ UNCHANGED <<endpoint, edits, remote, rows, sending, reading>>

\* ... and deletes the row, which the foreign key of a delegation committed in
\* between refuses.
DeleteAgent ==
    /\ deleting
    /\ deleting' = FALSE
    /\ agent' = IF delegation = "absent" THEN "absent" ELSE agent
    /\ UNCHANGED <<endpoint, edits, remote, rows, sending, reading>>

-----------------------------------------------------------------------------
(***************************************************************************)
(* _handle_remote_agent                                                    *)
(***************************************************************************)

Fail ==
    /\ ingress' = "failed"
    /\ sender' = "done"

\* The agent is looked up, then the route decision commits.
BeginDelegation ==
    /\ sender = "start"
    /\ \/ /\ agent # "enabled"
          /\ Fail
          /\ UNCHANGED home
       \/ /\ agent = "enabled"
          /\ sender' = "send"
          /\ home' = endpoint
          /\ UNCHANGED ingress
    /\ UNCHANGED <<child, childParts, registry, proxy, delegation, answers, events,
                   reply, reading>>

\* send_message: the call fails before or after the child took the message, or the
\* child answers with a message or a Task in some state.
SendMessage ==
    /\ sender = "send"
    /\ \/ /\ Fail
          /\ child' \in {"absent", "working"}
          /\ UNCHANGED reply
       \/ /\ sender' = "record"
          /\ reply' = "message"
          /\ UNCHANGED <<child, ingress>>
       \/ /\ sender' = "record"
          /\ child' \in WireStates
          /\ reply' = child'
          /\ UNCHANGED ingress
    /\ UNCHANGED <<childParts, home, registry, proxy, delegation, answers, events,
                   reading>>

\* One transaction: the message, or the proxy with its event, the delegation and the
\* ingress; the foreign key refuses a delegation to a deleted agent. A message/stream
\* then follows the proxy.
RecordDelegation ==
    /\ sender = "record"
    /\ \/ /\ agent = "absent"
          /\ Fail
          /\ UNCHANGED <<proxy, delegation, events, streaming>>
       \/ /\ agent # "absent"
          /\ sender' = "done"
          /\ ingress' = "resolved"
          /\ \/ /\ reply = "message"
                /\ delegation' = "message"
                /\ UNCHANGED <<proxy, events, streaming>>
             \/ /\ reply # "message"
                /\ proxy' = RemoteTaskStatus(reply, "failed")
                /\ delegation' = StoredState(reply, RemoteTaskStatus(reply, "failed"))
                /\ events' = <<RemoteTaskStatus(reply, "failed")>>
                /\ streaming' \in BOOLEAN
    /\ UNCHANGED <<remote, registry, answers, reply, pc, url, snapshot>>

-----------------------------------------------------------------------------
(***************************************************************************)
(* Readers of the proxy                                                    *)
(***************************************************************************)

Goto(r, p) == pc' = [pc EXCEPT ![r] = p]

\* An exception ends an SSE stream with an error event.
Raised(r) == streaming' = (streaming /\ r # Stream)

\* The thread is between two calls; the stream thread has work while it is open.
Ready(r) == pc[r] = "idle" /\ (r = Stream => streaming)

\* _sync_remote_proxy_task up to the call: a disabled agent is not asked.
Refresh(r) ==
    /\ Ready(r)
    /\ proxy # "absent"
    /\ agent = "enabled"
    /\ Goto(r, "get")
    /\ url' = [url EXCEPT ![r] = endpoint]
    /\ UNCHANGED <<remote, registry, rows, sending, snapshot, streaming>>

\* _cancel_task and _cancel_remote_proxy_task up to the call.
Cancel(r) ==
    /\ Ready(r) /\ r # Stream
    /\ proxy \notin TerminalStatus \cup {"absent"}
    /\ agent = "enabled"
    /\ Goto(r, "cancel")
    /\ url' = [url EXCEPT ![r] = endpoint]
    /\ UNCHANGED <<remote, registry, rows, sending, snapshot, streaming>>

\* The answer of the agent at url[r] to a call about a child in state wire: the
\* snapshot of the Task, or, from an agent that never had it, of another one.
Answer(r, wire) ==
    /\ snapshot' =
         [snapshot EXCEPT ![r] = [mine |-> url[r] = home, wire |-> wire, parts |-> childParts]]
    /\ Goto(r, "record")
    /\ UNCHANGED streaming

\* The call fails, or returns an error.
CallRaises(r) ==
    /\ Goto(r, "idle")
    /\ Raised(r)
    /\ UNCHANGED snapshot

GetTask(r) ==
    /\ pc[r] = "get"
    /\ \/ CallRaises(r)
       \/ url[r] = home /\ Answer(r, child)
       \/ url[r] # home /\ \E wire \in WireStates : Answer(r, wire)
    /\ UNCHANGED <<remote, registry, rows, sending, url>>

\* The child stops at once, later or not at all; the call may be lost after it did.
CancelTask(r) ==
    /\ pc[r] = "cancel"
    /\ child' \in {child} \cup
         (IF url[r] = home /\ child \notin Terminal THEN WireStates \cap {"canceled"} ELSE {})
    /\ \/ CallRaises(r)
       \/ url[r] = home /\ Answer(r, child')
       \/ url[r] # home /\ \E wire \in WireStates : Answer(r, wire)
    /\ UNCHANGED <<childParts, home, registry, rows, sending, url>>

-----------------------------------------------------------------------------
(***************************************************************************)
(* record_remote_snapshot                                                  *)
(***************************************************************************)

\* Mutant of Valid: identities are not compared.
AnyIdentity(s) == s \in Snapshot

\* _validate_remote_proxy_snapshot: the Task and Context ids match the delegation.
Valid(s) == s.mine

\* Mutant of NewAnswer: a stored answer is not looked for.
NewAnswerAgain(s, next) == next = "completed" /\ s.parts

\* _materialize_remote_final_answer: once, from a completed snapshot with parts.
NewAnswer(s, next) == next = "completed" /\ s.parts /\ answers = 0

\* Mutant of Accepted: the newest snapshot to arrive wins.
AcceptedAlways(s) == proxy # "absent" /\ Valid(s)

Accepted(s) ==
    /\ proxy # "absent"
    /\ Valid(s)
    /\ AcceptsSnapshot(proxy, RemoteTaskStatus(s.wire, proxy))

\* Mutant of Advance: the delegation row is not updated.
AdvanceProxyAlone(s) ==
    LET next == RemoteTaskStatus(s.wire, proxy) IN
    /\ proxy' = next
    /\ answers' = answers + (IF NewAnswer(s, next) THEN 1 ELSE 0)
    /\ events' = events \o (IF NewAnswer(s, next) THEN <<"artifact">> ELSE <<>>)
                        \o (IF next # proxy THEN <<next>> ELSE <<>>)
    /\ UNCHANGED delegation

\* The transaction: delegation, answer, status and event together.
Advance(s) ==
    LET next == RemoteTaskStatus(s.wire, proxy) IN
    /\ delegation' = StoredState(s.wire, next)
    /\ proxy' = next
    /\ answers' = answers + (IF NewAnswer(s, next) THEN 1 ELSE 0)
    /\ events' = events \o (IF NewAnswer(s, next) THEN <<"artifact">> ELSE <<>>)
                        \o (IF next # proxy THEN <<next>> ELSE <<>>)

\* Mutant of StreamEnds: a canceled proxy keeps its stream.
StreamEndsAtCompletion(status) == status = "completed"

\* _STREAM_END_STATES: the refreshed status at which a stream stops.
StreamEnds(status) == status \in TerminalStatus \cup WaitingStatus

\* A snapshot is recorded, ignored as stale, or refused: for a Task that is gone or
\* is not the delegated one, which raises.
RecordSnapshot(r) ==
    /\ pc[r] = "record"
    /\ Goto(r, "idle")
    /\ snapshot' = [snapshot EXCEPT ![r] = NoSnapshot]
    /\ \/ Accepted(snapshot[r]) /\ Advance(snapshot[r])
       \/ ~ Accepted(snapshot[r]) /\ UNCHANGED <<proxy, delegation, answers, events>>
    /\ streaming' = (streaming /\ ~ (/\ r = Stream
                                    /\ \/ proxy = "absent" \/ ~ Valid(snapshot[r])
                                       \/ StreamEnds(proxy')))
    /\ UNCHANGED <<ingress, remote, registry, sending, url>>

\* The stream finds its Task gone, or, with an agent that is not asked, at its end.
EndStream ==
    /\ Ready(Stream)
    /\ \/ proxy = "absent"
       \/ agent # "enabled" /\ StreamEnds(proxy)
    /\ streaming' = FALSE
    /\ UNCHANGED <<remote, registry, rows, sending, pc, url, snapshot>>

\* delete_context of a Context whose proxy is terminal: every row goes, the
\* delegation with them.
DeleteContext ==
    /\ proxy \in TerminalStatus \/ delegation = "message"
    /\ proxy' = "absent"
    /\ delegation' = "absent"
    /\ answers' = 0
    /\ events' = <<>>
    /\ UNCHANGED <<ingress, remote, registry, sending, reading>>

-----------------------------------------------------------------------------
StreamStep ==
    \/ EndStream
    \/ Refresh(Stream)
    \/ GetTask(Stream)
    \/ RecordSnapshot(Stream)

Next ==
    \/ ChildMoves \/ ChildPublishes
    \/ UpsertAgent \/ CheckAgentUnused \/ DeleteAgent
    \/ BeginDelegation \/ SendMessage \/ RecordDelegation
    \/ \E r \in Readers : Refresh(r) \/ Cancel(r) \/ GetTask(r) \/ CancelTask(r) \/ RecordSnapshot(r)
    \/ EndStream
    \/ DeleteContext

Spec == Init /\ [][Next]_vars

\* An open stream asks the child again after every wait of at most a second, and a
\* call ends by its timeout. Nobody else has to ask.
FairSpec == Spec /\ WF_vars(StreamStep)

-----------------------------------------------------------------------------
(***************************************************************************)
(* Properties                                                              *)
(***************************************************************************)

\* A terminal proxy says what its child says, whoever fetched the deciding snapshot,
\* from wherever the card pointed, and however late it was recorded. The exception is
\* a child whose reply named no known state: its proxy is failed from the start.
TerminalMatchesChild ==
    /\ proxy \in TerminalStatus
    /\ RemoteTaskStatus(reply, "missing") # "missing"
    => RemoteTaskStatus(child, "missing") = proxy

\* How far a proxy has come.
Rank(status) ==
    IF status \in TerminalStatus THEN 4
    ELSE IF status \in WaitingStatus THEN 3
    ELSE IF status = "running" THEN 2 ELSE 1

\* The events that report a status.
StatusEvents == {i \in DOMAIN events : events[i] # "artifact"}

\* What clients replay is a history: the status events of a proxy advance strictly
\* and end with its status, stale and repeated snapshots leave no trace in it, and
\* however many threads record a completed snapshot, the answer of the child is
\* stored once, with one artifact event, and only for a completed proxy.
HistoryAdvances ==
    /\ \A i, j \in StatusEvents : i < j => Rank(events[i]) < Rank(events[j])
    /\ proxy # "absent" =>
         \E i \in StatusEvents : events[i] = proxy /\ \A j \in StatusEvents : j <= i
    /\ answers = Cardinality(DOMAIN events \ StatusEvents)
    /\ answers > 0 => answers = 1 /\ proxy = "completed"

\* Proxy, delegation, answer and events exist together or not at all, and only for a
\* resolved ingress and a registered agent: a snapshot that arrives after the Context
\* was deleted, or a send that lost its agent, leaves nothing behind, and
\* "Registrations with any historical reference stay intact", also when the
\* delegation commits between the look for references and the deletion. The
\* delegation never tells another story than the proxy: neither a stale snapshot nor
\* a reply without a known state moves one without the other.
RowsStandTogether ==
    /\ TypeOK
    /\ delegation \in {"absent", "message"} <=> proxy = "absent"
    /\ proxy = "absent" => answers = 0 /\ events = <<>>
    /\ delegation # "absent" => ingress = "resolved" /\ agent # "absent"
    /\ proxy # "absent" => RemoteTaskStatus(delegation, proxy) = proxy

\* The stream of a proxy whose child is done ends, unless the agent is disabled or
\* gone: the stream itself brings the state of the child home.
ChildEndReachesStream ==
    <>[](agent = "enabled") => (streaming /\ child \in Terminal ~> ~ streaming)
=============================================================================
