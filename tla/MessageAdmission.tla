-------------------------- MODULE MessageAdmission --------------------------
(***************************************************************************)
(* Durable message ingress: concurrent deliveries of the same messageId,   *)
(* the router, the three dispatch routes, aborted streams, a restarted     *)
(* process, and the deletion of the Context under all of them.             *)
(*                                                                         *)
(* A store transaction is one step. Every message opens a Context of its   *)
(* own; a Context id is never reused, so the lives of a Context are        *)
(* numbered. A Request is one delivery, served by one request thread. The  *)
(* rows of the message, its Context and its ingress are inserted and       *)
(* deleted together, so an absent ingress stands for all of them.          *)
(***************************************************************************)
EXTENDS Naturals, FiniteSets

CONSTANTS
    Requests,      \* deliveries of messages, each on its own thread
    Messages,      \* messageIds
    NoOutcome,     \* the NULL outcome of an ingress row
    NoDelivery,    \* a request thread that has no request
    MaxDeletions,  \* bound: calls of delete_context
    MaxRestarts,   \* bound: process restarts
    MaxFaults      \* bound: store transactions that raise

ASSUME AdmissionAssumption ==
    /\ IsFiniteSet(Requests)
    /\ MaxDeletions \in Nat
    /\ MaxRestarts \in Nat
    /\ MaxFaults \in Nat

VARIABLES
    ingress,   \* main_agent_message_ingress row of each message
    outcomes,  \* the agent Messages, Tasks and delegations stored for a message
    task,      \* the Task a delivery created: its process and its worker callback
    pc,        \* where the request thread is
    delivery,  \* what the request asks: the messageId, its fingerprint, streaming
    life,      \* the Context life the thread works in
    choice,    \* the outcome kind the thread is about to persist
    reply,     \* what the client was told
    deletion,  \* the delete_context call on each message's Context
    routed,    \* history: deliveries for which the router was invoked
    sent,      \* history: deliveries that reached the child agent
    deletions, \* bounds
    restarts,
    faults

threads == <<pc, delivery, life, choice, reply>>
bounds  == <<deletions, restarts, faults>>
vars    == <<ingress, outcomes, task, threads, deletion, routed, sent, bounds>>

RouteDecisionKind   == {"local_message", "local_task", "remote_agent"}
MessageIngressState == {"in_progress", "resolved", "failed"}
OutcomeKind == {"message", "task", "delegated_message", "delegated_task"}
Outcomes    == OutcomeKind \X Requests
Fingerprint == {"first", "other"}
\* not_yet: before the Task; active: not terminal; ending: terminal, its worker
\* callback still scheduled or active; idle: neither.
TaskPhase   == {"not_yet", "active", "ending", "idle"}
Lives       == 0 .. MaxDeletions + 1
Deliveries  == [msg : Messages, body : Fingerprint, stream : BOOLEAN]
ThreadPc    == {"idle", "received", "decide", "record", "respond", "accept", "send",
                "resolve", "yielded", "fail", "done"}
\* "nothing": the client has no answer, or the process was lost before it.
Reply == [is : {"nothing", "in_progress", "failed", "conflict", "error"},
          outcome : {NoOutcome}]
         \cup [is : {"result"}, outcome : Outcomes]
DeletePc    == {"none", "checked", "listed"}

NoReply    == [is |-> "nothing", outcome |-> NoOutcome]
Told(what) == [is |-> what, outcome |-> NoOutcome]
Given(o)   == [is |-> "result", outcome |-> o]
NoIngress  == [state |-> "absent", body |-> "first", life |-> 0,
               route |-> "none", outcome |-> NoOutcome]

\* The kinds of outcome that _result_from_message_ingress accepts for a route.
KindsOf(route) ==
    {k \in OutcomeKind :
        \/ route = "local_message" /\ k = "message"
        \/ route = "local_task" /\ k = "task"
        \/ route = "remote_agent" /\ k \in {"delegated_message", "delegated_task"}}

\* Every row, thread and history variable has the shape the code gives it.
TypeOK ==
    /\ ingress \in [Messages ->
         [state : MessageIngressState \cup {"absent"}, body : Fingerprint, life : Lives,
          route : RouteDecisionKind \cup {"none"}, outcome : Outcomes \cup {NoOutcome}]]
    /\ outcomes \in [Messages -> SUBSET Outcomes]
    /\ task \in [Requests -> TaskPhase]
    /\ pc \in [Requests -> ThreadPc]
    /\ delivery \in [Requests -> Deliveries \cup {NoDelivery}]
    /\ life \in [Requests -> Lives]
    /\ choice \in [Requests -> OutcomeKind]
    /\ reply \in [Requests -> Reply]
    /\ deletion \in [Messages -> [pc : DeletePc, tasks : SUBSET Requests]]
    /\ routed \subseteq Requests
    /\ sent \subseteq Requests
    /\ deletions \in 0 .. MaxDeletions
    /\ restarts \in 0 .. MaxRestarts
    /\ faults \in 0 .. MaxFaults

Init ==
    /\ ingress = [m \in Messages |-> NoIngress]
    /\ outcomes = [m \in Messages |-> {}]
    /\ task = [r \in Requests |-> "not_yet"]
    /\ pc = [r \in Requests |-> "idle"]
    /\ delivery = [r \in Requests |-> NoDelivery]
    /\ life = [r \in Requests |-> 0]
    /\ choice = [r \in Requests |-> "message"]
    /\ reply = [r \in Requests |-> NoReply]
    /\ deletion = [m \in Messages |-> [pc |-> "none", tasks |-> {}]]
    /\ routed = {}
    /\ sent = {}
    /\ deletions = 0
    /\ restarts = 0
    /\ faults = 0

Msg(r)      == delivery[r].msg
Goto(r, p)  == pc' = [pc EXCEPT ![r] = p]
\* A store transaction of the thread raises (a locked or full database).
Fault       == faults < MaxFaults /\ faults' = faults + 1

-----------------------------------------------------------------------------
(***************************************************************************)
(* Ingress writes                                                          *)
(***************************************************************************)

\* resolve_message_ingress inside the transaction that stores outcome o.
ResolveIngress(m, route, o) ==
    /\ outcomes' = [outcomes EXCEPT ![m] = @ \cup {o}]
    /\ ingress' = [ingress EXCEPT ![m].state = "resolved", ![m].outcome = o,
                                  ![m].route = route]

\* Mutant of OwnsIngress: the Context is not looked at.
OwnsIngressById(r) == ingress[Msg(r)].state = "in_progress"

\* The rows a transaction of thread r needs: its own Context still exists (the
\* foreign key, append_message and create_delegated_task refuse another one) and
\* the ingress, named by its messageId alone, is in progress.
OwnsIngress(r) ==
    /\ ingress[Msg(r)].life = life[r]
    /\ ingress[Msg(r)].state = "in_progress"

\* Mutant of FailIngress: the update has no condition on the state.
FailIngressAlways(m) ==
    ingress' = IF ingress[m].state = "absent" THEN ingress
               ELSE [ingress EXCEPT ![m].state = "failed"]

\* fail_message_ingress: a row that is not in progress stays as it is.
FailIngress(m) ==
    ingress' = IF ingress[m].state = "in_progress"
                 THEN [ingress EXCEPT ![m].state = "failed"]
                 ELSE ingress
-----------------------------------------------------------------------------
(***************************************************************************)
(* The request thread                                                      *)
(***************************************************************************)

\* _result_from_message_ingress: the stored outcome, if its rows are consistent.
StoredResult(m) ==
    LET row == ingress[m] IN
    IF row.outcome \in outcomes[m] /\ row.outcome[1] \in KindsOf(row.route)
      THEN Given(row.outcome)
      ELSE Told("error")

\* _prepared_existing_message_ingress: a duplicate is answered, never routed.
ExistingReply(r) ==
    LET row == ingress[Msg(r)] IN
    IF row.body # delivery[r].body THEN Told("conflict")
    ELSE IF row.state = "resolved" THEN StoredResult(Msg(r))
    ELSE Told(row.state)

\* A message/send or message/stream request arrives.
Receive(r) ==
    /\ pc[r] = "idle"
    /\ \E d \in Deliveries : delivery' = [delivery EXCEPT ![r] = d]
    /\ Goto(r, "received")
    /\ UNCHANGED <<ingress, outcomes, task, life, choice, reply, deletion, routed, sent, bounds>>

\* append_message and reserve_message_ingress for a new Context.
Reserve(r) ==
    LET next == ingress[Msg(r)].life + 1 IN
    /\ ingress' = [ingress EXCEPT ![Msg(r)] =
         [NoIngress EXCEPT !.state = "in_progress", !.body = delivery[r].body,
                           !.life = next]]
    /\ life' = [life EXCEPT ![r] = next]
    /\ Goto(r, "decide")
    /\ UNCHANGED reply

AnswerDuplicate(r) ==
    /\ life' = [life EXCEPT ![r] = ingress[Msg(r)].life]
    /\ reply' = [reply EXCEPT ![r] = ExistingReply(r)]
    /\ Goto(r, "done")
    /\ UNCHANGED ingress

\* Mutant of PrepareMessageRoute: a failed ingress is reserved again.
PrepareAgain(r) ==
    /\ pc[r] = "received"
    /\ \/ ingress[Msg(r)].state \in {"absent", "failed"} /\ Reserve(r)
       \/ ingress[Msg(r)].state \in {"in_progress", "resolved"} /\ AnswerDuplicate(r)
    /\ UNCHANGED <<outcomes, task, delivery, choice, deletion, routed, sent, bounds>>

\* Mutant of PrepareMessageRoute: a duplicate joins the delivery in progress.
PrepareJoining(r) ==
    /\ pc[r] = "received"
    /\ \/ ingress[Msg(r)].state = "absent" /\ Reserve(r)
       \/ /\ ingress[Msg(r)].state = "in_progress"
          /\ life' = [life EXCEPT ![r] = ingress[Msg(r)].life]
          /\ Goto(r, "decide")
          /\ UNCHANGED <<ingress, reply>>
       \/ ingress[Msg(r)].state \in {"failed", "resolved"} /\ AnswerDuplicate(r)
    /\ UNCHANGED <<outcomes, task, delivery, choice, deletion, routed, sent, bounds>>

\* The transaction of _prepare_message_route: the first delivery of a messageId
\* stores the message and reserves its ingress; every other one is answered.
PrepareMessageRoute(r) ==
    /\ pc[r] = "received"
    /\ \/ ingress[Msg(r)].state = "absent" /\ Reserve(r)
       \/ ingress[Msg(r)].state # "absent" /\ AnswerDuplicate(r)
    /\ UNCHANGED <<outcomes, task, delivery, choice, deletion, routed, sent, bounds>>

\* router.decide, outside any transaction, and the first checks of the dispatch.
\* It raises on a router error, an unknown or disabled agent, a deleted Context.
Decide(r) ==
    /\ pc[r] = "decide"
    /\ routed' = routed \cup {r}
    /\ \/ /\ choice' = [choice EXCEPT ![r] = "message"]
          /\ Goto(r, "record")
       \/ /\ choice' = [choice EXCEPT ![r] = "task"]
          /\ Goto(r, "accept")
       \/ /\ choice' = [choice EXCEPT ![r] = "delegated_message"]
          /\ Goto(r, "record")
       \/ UNCHANGED choice /\ Goto(r, "fail")
    /\ UNCHANGED <<ingress, outcomes, task, delivery, life, reply, deletion, sent, bounds>>

RouteOf(r) ==
    CHOOSE route \in RouteDecisionKind : choice[r] \in KindsOf(route)

Raise(r) ==
    /\ Goto(r, "fail")
    /\ UNCHANGED <<ingress, outcomes, task, reply>>

\* _record_message_ingress_route: the decision and its reference commit together.
RecordRoute(r) ==
    /\ pc[r] = "record"
    /\ \/ /\ OwnsIngress(r)
          /\ ingress' = [ingress EXCEPT ![Msg(r)].route = RouteOf(r)]
          /\ Goto(r, IF choice[r] = "message" THEN "respond" ELSE "send")
          /\ UNCHANGED <<outcomes, task, reply, faults>>
       \/ ~OwnsIngress(r) /\ Raise(r) /\ UNCHANGED faults
       \/ Raise(r) /\ Fault
    /\ UNCHANGED <<delivery, life, choice, deletion, routed, sent, deletions, restarts>>

\* local_message_responder: the model answers, or raises; deltas are ephemeral.
Respond(r) ==
    /\ pc[r] = "respond"
    /\ pc' \in {[pc EXCEPT ![r] = p] : p \in {"resolve", "fail"}}
    /\ UNCHANGED <<ingress, outcomes, task, delivery, life, choice, reply, deletion,
                   routed, sent, bounds>>

\* Mutant of SendRemoteMessage: a result of any kind is taken for a delegation.
SendRemoteMessageAnyKind(r) ==
    /\ pc[r] = "send"
    /\ sent' = sent \cup {r}
    /\ choice' = [choice EXCEPT ![r] = "unsupported"]
    /\ Goto(r, "resolve")
    /\ UNCHANGED <<ingress, outcomes, task, delivery, life, reply, deletion, routed, bounds>>

\* remote_agent_client.send_message after the route committed: the child may get
\* the message and its answer still be lost or unusable.
SendRemoteMessage(r) ==
    /\ pc[r] = "send"
    /\ \/ \* a message or a task comes back
          /\ sent' = sent \cup {r}
          /\ \E kind \in KindsOf("remote_agent") : choice' = [choice EXCEPT ![r] = kind]
          /\ Goto(r, "resolve")
       \/ \* delivered, then a transport or protocol error
          sent' = sent \cup {r} /\ Goto(r, "fail") /\ UNCHANGED choice
       \/ \* never delivered
          UNCHANGED <<sent, choice>> /\ Goto(r, "fail")
    /\ UNCHANGED <<ingress, outcomes, task, delivery, life, reply, deletion, routed, bounds>>

\* The result leaves: a stream yields it and waits for its consumer.
Answer(r, o) ==
    /\ reply' = [reply EXCEPT ![r] = Given(o)]
    /\ Goto(r, IF delivery[r].stream THEN "yielded" ELSE "done")

StartTask(r) ==
    task' = IF choice[r] \in {"task", "delegated_task"}
              THEN [task EXCEPT ![r] = "active"] ELSE task

\* The closing transaction of a local answer or a delegation: the outcome rows
\* and the resolved ingress commit together.
ResolveMessage(r) ==
    /\ pc[r] = "resolve"
    /\ \/ /\ OwnsIngress(r)
          /\ ResolveIngress(Msg(r), ingress[Msg(r)].route, <<choice[r], r>>)
          /\ StartTask(r)
          /\ Answer(r, <<choice[r], r>>)
          /\ UNCHANGED faults
       \/ ~OwnsIngress(r) /\ Raise(r) /\ UNCHANGED faults
       \/ Raise(r) /\ Fault
    /\ UNCHANGED <<delivery, life, choice, deletion, routed, sent, deletions, restarts>>

\* accept_local_task_from_message: decision, route, Task, queue and ingress in one
\* transaction.
AcceptLocalTask(r) ==
    /\ pc[r] = "accept"
    /\ \/ /\ OwnsIngress(r)
          /\ ResolveIngress(Msg(r), RouteOf(r), <<choice[r], r>>)
          /\ StartTask(r)
          /\ Answer(r, <<choice[r], r>>)
          /\ UNCHANGED faults
       \/ ~OwnsIngress(r) /\ Raise(r) /\ UNCHANGED faults
       \/ Raise(r) /\ Fault
    /\ UNCHANGED <<delivery, life, choice, deletion, routed, sent, deletions, restarts>>

\* The consumer took the last item of the stream.
FinishStream(r) ==
    /\ pc[r] = "yielded"
    /\ Goto(r, "done")
    /\ UNCHANGED <<ingress, outcomes, task, delivery, life, choice, reply, deletion,
                   routed, sent, bounds>>

\* Mutant of AbortStream: only Exception is caught, which GeneratorExit is not.
AbortStreamUncaught(r) ==
    /\ pc[r] \in {"respond", "yielded"}
    /\ delivery[r].stream
    /\ Goto(r, "done")
    /\ UNCHANGED <<ingress, outcomes, task, delivery, life, choice, reply, deletion,
                   routed, sent, bounds>>

\* The client is gone and the generator is closed where it yielded: after a delta
\* or after the final result. GeneratorExit enters the failure handler.
AbortStream(r) ==
    /\ pc[r] \in {"respond", "yielded"}
    /\ delivery[r].stream
    /\ Goto(r, "fail")
    /\ UNCHANGED <<ingress, outcomes, task, delivery, life, choice, reply, deletion,
                   routed, sent, bounds>>

\* _record_message_ingress_failure, then the exception reaches the client. The row
\* is named by its messageId: a missing one makes the handler itself raise.
RecordFailure(r) ==
    /\ pc[r] = "fail"
    /\ \/ FailIngress(Msg(r)) /\ UNCHANGED faults
       \/ UNCHANGED ingress /\ Fault
    /\ reply' = [reply EXCEPT ![r] = IF @ = NoReply THEN Told("error") ELSE @]
    /\ Goto(r, "done")
    /\ UNCHANGED <<outcomes, task, delivery, life, choice, deletion, routed, sent,
                   deletions, restarts>>

-----------------------------------------------------------------------------
(***************************************************************************)
(* Tasks, restart and Context deletion                                     *)
(***************************************************************************)

\* The Task of request r reaches a terminal status; a local one still has its
\* worker callback (the LocalExecution module), a remote proxy has none.
EndTask(r) ==
    /\ task[r] = "active"
    /\ task' = [task EXCEPT ![r] = IF choice[r] = "task" THEN "ending" ELSE "idle"]
    /\ UNCHANGED <<ingress, outcomes, threads, deletion, routed, sent, bounds>>

\* The worker callback returns and is forgotten.
EndCallback(r) ==
    /\ task[r] = "ending"
    /\ task' = [task EXCEPT ![r] = "idle"]
    /\ UNCHANGED <<ingress, outcomes, threads, deletion, routed, sent, bounds>>

\* The process is lost with every thread, stream, callback and deletion; the next
\* one fails the ingresses left in progress before it serves a request.
Restart ==
    /\ restarts < MaxRestarts
    /\ restarts' = restarts + 1
    /\ pc' = [r \in Requests |-> IF pc[r] = "idle" THEN "idle" ELSE "done"]
    /\ task' = [r \in Requests |-> IF task[r] = "ending" THEN "idle" ELSE task[r]]
    /\ deletion' = [m \in Messages |-> [pc |-> "none", tasks |-> {}]]
    /\ ingress' = [m \in Messages |->
         IF ingress[m].state = "in_progress"
           THEN [ingress[m] EXCEPT !.state = "failed"] ELSE ingress[m]]
    /\ UNCHANGED <<outcomes, delivery, life, choice, reply, routed, sent, deletions, faults>>

\* The Tasks of a message's Context.
TasksOf(m) == {o[2] : o \in {x \in outcomes[m] : x[1] \in {"task", "delegated_task"}}}

\* The checks of core.delete_context: every Task terminal, no live callback.
DeleteCheck(m) ==
    /\ deletion[m].pc = "none"
    /\ deletions < MaxDeletions
    /\ ingress[m].state # "absent"
    /\ \A r \in TasksOf(m) : task[r] = "idle"
    /\ deletion' = [deletion EXCEPT ![m].pc = "checked"]
    /\ deletions' = deletions + 1
    /\ UNCHANGED <<ingress, outcomes, task, threads, routed, sent, restarts, faults>>

\* delete_terminal_context lists the Tasks again and checks their status alone.
DeleteList(m) ==
    /\ deletion[m].pc = "checked"
    /\ deletion' = [deletion EXCEPT ![m] =
         IF \E r \in TasksOf(m) : task[r] = "active"
           THEN [pc |-> "none", tasks |-> {}]
           ELSE [pc |-> "listed", tasks |-> TasksOf(m)]]
    /\ UNCHANGED <<ingress, outcomes, task, threads, routed, sent, bounds>>

\* Mutant of DeletableRows: no foreign key protects a Task accepted meanwhile.
DeletableRowsUnkeyed(m) == TRUE

\* The foreign keys of main_agent_task_events and main_agent_queued_executions
\* refuse to delete a Task whose own rows were not listed for deletion.
DeletableRows(m) == TasksOf(m) \subseteq deletion[m].tasks

\* The transaction of delete_terminal_context; it rolls back on a foreign key.
DeleteRows(m) ==
    /\ deletion[m].pc = "listed"
    /\ deletion' = [deletion EXCEPT ![m] = [pc |-> "none", tasks |-> {}]]
    /\ \/ /\ DeletableRows(m)
          /\ outcomes' = [outcomes EXCEPT ![m] = {}]
          /\ ingress' = [ingress EXCEPT ![m] = [NoIngress EXCEPT !.life = ingress[m].life]]
       \/ ~DeletableRows(m) /\ UNCHANGED <<ingress, outcomes>>
    /\ UNCHANGED <<task, threads, routed, sent, bounds>>

-----------------------------------------------------------------------------
Thread(r) ==
    \/ PrepareMessageRoute(r)
    \/ Decide(r)
    \/ RecordRoute(r)
    \/ Respond(r)
    \/ SendRemoteMessage(r)
    \/ ResolveMessage(r)
    \/ AcceptLocalTask(r)
    \/ FinishStream(r)
    \/ AbortStream(r)
    \/ RecordFailure(r)

Deleter(m) ==
    \/ DeleteCheck(m)
    \/ DeleteList(m)
    \/ DeleteRows(m)

Next ==
    \/ \E r \in Requests : Receive(r) \/ Thread(r) \/ EndTask(r) \/ EndCallback(r)
    \/ \E m \in Messages : Deleter(m)
    \/ Restart

Spec == Init /\ [][Next]_vars

\* A request thread, once it has a request, runs to its end: the model and the
\* child agent answer or time out, and a stream is consumed or dropped.
FairSpec ==
    Spec /\ \A r \in Requests : WF_vars(Thread(r))

-----------------------------------------------------------------------------
(***************************************************************************)
(* Properties                                                              *)
(***************************************************************************)

SameAdmission(r, q) ==
    /\ life[r] > 0
    /\ life[q] = life[r]
    /\ Msg(q) = Msg(r)

\* However often a message is delivered, one delivery per admission is routed and
\* so reaches the model or the child agent. What is stored for the message is
\* exactly what its ingress refers to: one outcome when it is resolved, none when
\* it failed, is in progress or was deleted, whatever duplicates, late aborts and
\* restarts do; and a thread whose Context was deleted while it waited stores
\* nothing under the messageId when a new Context reuses it.
OneOutcomePerMessage ==
    /\ TypeOK
    /\ sent \subseteq routed
    /\ \A r, q \in routed : SameAdmission(r, q) => r = q
    /\ \A m \in Messages :
         /\ outcomes[m] = IF ingress[m].state = "resolved" THEN {ingress[m].outcome} ELSE {}
         /\ \A o \in outcomes[m] : life[o[2]] = ingress[m].life

\* Deliveries of one message agree: clients that got a result got the same one, and
\* none of them got one while another was told that the message failed.
RepliesAgree ==
    \A r, q \in Requests :
        SameAdmission(r, q) /\ reply[r].is = "result"
            => reply[q] = reply[r] \/ reply[q].is \notin {"result", "failed", "error"}

\* Deletion never removes a Task that is not terminal: one accepted between the
\* checks and the delete is kept by the foreign keys of its event and queue rows.
LiveTaskIsKept ==
    \A r \in Requests : task[r] = "active" => r \in TasksOf(Msg(r))

\* A resolved or failed ingress changes no more until its Context is deleted: a
\* late abort, a late answer or a resend cannot turn it around.
IngressIsFinal ==
    [][\A m \in Messages :
         ingress[m].state \in {"resolved", "failed"}
             => ingress'[m] = ingress[m] \/ ingress'[m].state = "absent"]_vars

\* An admitted message is resolved or failed in the end (or deleted), unless the
\* store refused a write: no delivery leaves duplicates with "in progress" for good.
AdmittedIsSettled ==
    \A m \in Messages :
        ingress[m].state = "in_progress" ~> ingress[m].state # "in_progress" \/ faults > 0
=============================================================================
