----------------------------- MODULE ToolLedger -----------------------------
(***************************************************************************)
(* The Tool Invocation Ledger of one local Task, and the graph slice that  *)
(* drives it: the model answers with a batch of side-effecting calls, the  *)
(* permission node gives each call a durable identity, the operator decides *)
(* on the calls that need approval, the ToolNode threads execute the batch *)
(* concurrently, and the Task ends, is canceled or loses its process.      *)
(*                                                                         *)
(* A ledger write is one transaction and one step. An invocation is named  *)
(* by its loop index and its position in the batch: the deterministic      *)
(* identity of _invocation_id, since the Task, the runtime thread and the  *)
(* arguments of a checkpointed call never change and the model adapters    *)
(* give every call of a response its own id. Read-only calls have no       *)
(* ledger record and are left out.                                         *)
(***************************************************************************)
EXTENDS TaskLifecycle, Integers, Sequences

CONSTANTS
    Effects,        \* a tool with its arguments: what the arguments digest tells apart
    NeedsApproval,  \* effects for which the permission gate asks the operator
    Forbidden,      \* effects the permission gate denies
    MaxLoops,       \* max_loop_steps of the execution policy
    MaxCalls,       \* bound: calls in one model response
    MaxFaults       \* bound: store writes that raise

ASSUME LedgerAssumption ==
    /\ NeedsApproval \subseteq Effects
    /\ Forbidden \subseteq Effects
    /\ NeedsApproval \cap Forbidden = {}
    /\ MaxLoops \in Nat \ {0}
    /\ MaxCalls \in Nat \ {0}
    /\ MaxFaults \in Nat

VARIABLES
    \* durable rows
    status,     \* main_agent_tasks.status
    waitingFor, \* the invocation an approval continuation is bound to
    answer,     \* payload of the queued continuation command
    record,     \* status of each main_agent_tool_invocations row
    approval,   \* its approval_status
    \* the worker slice and the graph state it works on
    slice,      \* where the worker is
    node,       \* the graph node that runs next
    loop,       \* loop_index
    calls,      \* the tool calls of each model response
    decisions,  \* permission["decisions"] of the current batch
    asked,      \* position of the last approval interrupt the operator answered
    phase,      \* where each ToolNode thread is in tool_call_wrapper
    outcome,    \* what the slice returned
    \* cancellation
    signaling,  \* a request thread still has to signal the registry
    signal,     \* the cancellation event of the activated execution
    \* history and bounds
    performed,  \* how often each invocation entered its external call
    granted,    \* invocations the operator approved
    faults

rows     == <<status, waitingFor, answer>>
ledger   == <<record, approval>>
graph    == <<node, loop, calls, decisions, asked, phase>>
control  == <<signaling, signal>>
history  == <<performed, granted, faults>>
vars     == <<rows, ledger, slice, graph, outcome, control, history>>

Loops        == 1 .. MaxLoops
Positions    == 1 .. MaxCalls
Invocations  == Loops \X Positions
NoInvocation == <<0, 0>>
Batches      == UNION {[1 .. n -> Effects] : n \in Positions}

ToolInvocationStatus   == {"prepared", "running", "succeeded", "uncertain", "canceled"}
ToolInvocationApproval == {"not_required", "pending", "approved", "rejected"}
Verdict    == {"allowed", "approval_required", "denied"}
Node       == {"call_model", "check_permission", "prepare", "approval_required",
               "user_input_required", "reject_tool", "tools"}
\* A worker claims the command, activates the registry entry, runs the graph,
\* releases the entry, leaves the active set and records the outcome.
SlicePc    == {"none", "claimed", "running", "finished", "inactive"}
CallPhase  == {"waiting", "begin", "execute", "ok", "failed", "raised", "done"}
Outcome    == {"none", "completed", "failed", "approval_required", "user_input_required"}
Answer     == {"none", "initial", "approved", "rejected", "input"}

Current(i)  == <<loop, i>>
Batch       == calls[loop]
EffectOf(v) == calls[v[1]][v[2]]

\* The approval interrupt that comes next in approval_required_node.
NeedsAnswer(i)  == i > asked /\ decisions[i].verdict = "approval_required"
NextApproval(i) ==
    /\ NeedsAnswer(i)
    /\ \A j \in DOMAIN decisions : NeedsAnswer(j) => i <= j

\* Everything the ledger, the graph state and the worker hold has the shape the
\* code gives it; the loop index passes its limit by at most one.
TypeOK ==
    /\ status \in TaskStatus
    /\ waitingFor \in Invocations \cup {NoInvocation}
    /\ answer \in Answer
    /\ record \in [Invocations -> ToolInvocationStatus \cup {"absent"}]
    /\ approval \in [Invocations -> ToolInvocationApproval]
    /\ slice \in SlicePc
    /\ node \in Node
    /\ loop \in 1 .. MaxLoops + 1
    /\ calls \in [Loops -> Batches \cup {<<>>}]
    /\ Len(decisions) <= MaxCalls
    /\ \A i \in DOMAIN decisions :
         decisions[i] \in [verdict : Verdict, ref : Invocations]
    /\ asked \in 0 .. MaxCalls
    /\ phase \in [Positions -> CallPhase]
    /\ outcome \in Outcome
    /\ signaling \in BOOLEAN
    /\ signal \in BOOLEAN
    /\ performed \in [Invocations -> Nat]
    /\ granted \in SUBSET Invocations
    /\ faults \in 0 .. MaxFaults

Init ==
    /\ status = "queued"
    /\ waitingFor = NoInvocation
    /\ answer = "initial"
    /\ record = [v \in Invocations |-> "absent"]
    /\ approval = [v \in Invocations |-> "not_required"]
    /\ slice = "none"
    /\ node = "call_model"
    /\ loop = 1
    /\ calls = [l \in Loops |-> <<>>]
    /\ decisions = <<>>
    /\ asked = 0
    /\ phase = [i \in Positions |-> "done"]
    /\ outcome = "none"
    /\ signaling = FALSE
    /\ signal = FALSE
    /\ performed = [v \in Invocations |-> 0]
    /\ granted = {}
    /\ faults = 0

\* A store write raises (a locked or full database).
Fault ==
    /\ faults < MaxFaults
    /\ faults' = faults + 1

-----------------------------------------------------------------------------
(***************************************************************************)
(* Ledger writes                                                           *)
(***************************************************************************)

\* cancel_tool_invocation: only a prepared record is canceled.
CancelInvocations(V) ==
    record' = [v \in Invocations |->
                 IF v \in V /\ record[v] = "prepared" THEN "canceled" ELSE record[v]]

\* mark_tool_invocation_uncertain: a settled record is left alone.
MarkUncertain(v) ==
    record' = [record EXCEPT ![v] = IF @ \in {"prepared", "running"} THEN "uncertain" ELSE @]

\* complete_tool_invocation_success: the artifact and the status commit together.
CompleteSuccess(v) == record' = [record EXCEPT ![v] = "succeeded"]

\* Mutant of CloseLedger: running records are canceled like prepared ones.
CloseLedgerCancelsRunning ==
    record' = [v \in Invocations |->
                 IF record[v] \in {"prepared", "running"} THEN "canceled" ELSE record[v]]

\* Mutant of CloseLedger: the update has no status filter.
CloseLedgerUnfiltered ==
    record' = [v \in Invocations |-> IF record[v] = "absent" THEN "absent" ELSE "uncertain"]

\* The ledger half of _close_unresolved_execution
\* (mark_running_tool_invocations_uncertain, cancel_prepared_tool_invocations).
CloseLedger ==
    record' = [v \in Invocations |->
                 IF record[v] = "running" THEN "uncertain"
                 ELSE IF record[v] = "prepared" THEN "canceled" ELSE record[v]]

-----------------------------------------------------------------------------
(***************************************************************************)
(* Control plane: claim, cancellation, outcome, operator, process loss     *)
(***************************************************************************)

EndTask(s) ==
    /\ status' = s
    /\ waitingFor' = NoInvocation
    /\ answer' = "none"

\* The worker claims the queued command.
ClaimCommand ==
    /\ status = "queued" /\ slice = "none"
    /\ status' = "running"
    /\ slice' = "claimed"
    /\ UNCHANGED <<waitingFor, answer, ledger, graph, outcome, control, history>>

\* ExecutionContextRegistry.activate: a fresh cancellation event.
ActivateSlice ==
    /\ slice = "claimed"
    /\ slice' = "running"
    /\ signal' = FALSE
    /\ UNCHANGED <<rows, ledger, graph, outcome, signaling, history>>

\* The worker leaves the active set before the outcome is recorded.
LeaveActive ==
    /\ slice = "finished"
    /\ slice' = "inactive"
    /\ UNCHANGED <<rows, ledger, graph, outcome, control, history>>

\* Mutant of CancelTask: prepared records survive the cancellation.
CancelTaskKeepsPrepared ==
    /\ status \notin TerminalStatus \cup {"cancel_requested"}
    /\ slice \notin {"claimed", "running", "finished"}
    /\ EndTask("canceled")
    /\ UNCHANGED <<signaling, ledger, slice, graph, outcome, signal, history>>

\* _cancel_task: a Task whose worker is active only gets a request; any other
\* live Task is closed here, and only its prepared records with it.
CancelTask ==
    /\ status \notin TerminalStatus
    /\ \/ /\ status \in {"running", "cancel_requested"}
          /\ slice \in {"claimed", "running", "finished"}
          /\ status' = "cancel_requested"
          /\ signaling' = TRUE
          /\ UNCHANGED <<waitingFor, answer, record>>
       \/ /\ status # "cancel_requested"
          /\ ~ (status = "running" /\ slice \in {"claimed", "running", "finished"})
          /\ EndTask("canceled")
          /\ CancelInvocations(Invocations)
          /\ UNCHANGED signaling
    /\ UNCHANGED <<approval, slice, graph, outcome, signal, history>>

\* _signal_committed_cancellation: lost unless the execution is activated.
SignalCancellation ==
    /\ signaling
    /\ signaling' = FALSE
    /\ signal' = (signal \/ slice = "running")
    /\ UNCHANGED <<rows, ledger, slice, graph, outcome, history>>

\* _record_local_execution_outcome with the recorder methods behind it. A
\* completed result leaves the ledger as it is; every other end closes it.
RecordOutcome ==
    /\ slice = "inactive"
    /\ slice' = "none"
    /\ outcome' = "none"
    /\ \/ status \in TerminalStatus /\ UNCHANGED <<rows, record>>
       \/ /\ status = "cancel_requested"
          /\ EndTask("canceled") /\ CloseLedger
       \/ /\ status = "running" /\ outcome = "completed"
          /\ EndTask("completed") /\ UNCHANGED record
       \/ /\ status = "running" /\ outcome = "failed"
          /\ EndTask("failed") /\ CloseLedger
       \/ /\ status = "running" /\ outcome = "approval_required"
          /\ status' = "auth_required"
          /\ \E i \in DOMAIN decisions : NextApproval(i) /\ waitingFor' = decisions[i].ref
          /\ answer' = "none"
          /\ UNCHANGED record
       \/ /\ status = "running" /\ outcome = "user_input_required"
          /\ status' = "input_required"
          /\ answer' = "none"
          /\ UNCHANGED <<waitingFor, record>>
    /\ UNCHANGED <<approval, graph, control, history>>

\* _resolve_approval: the continuation is consumed, the decision is bound to the
\* exact prepared record, a rejected record is canceled, and the Task is queued.
ResolveApproval(approved) ==
    LET v == waitingFor IN
    /\ status = "auth_required"
    /\ approval[v] = "pending" /\ record[v] = "prepared"
    /\ status' = "queued"
    /\ waitingFor' = NoInvocation
    /\ answer' = IF approved THEN "approved" ELSE "rejected"
    /\ approval' = [approval EXCEPT ![v] = IF approved THEN "approved" ELSE "rejected"]
    /\ record' = IF approved THEN record ELSE [record EXCEPT ![v] = "canceled"]
    /\ granted' = IF approved THEN granted \cup {v} ELSE granted
    /\ UNCHANGED <<slice, graph, outcome, control, performed, faults>>

\* _submit_task_input
SubmitInput ==
    /\ status = "input_required"
    /\ status' = "queued"
    /\ answer' = "input"
    /\ UNCHANGED <<waitingFor, ledger, slice, graph, outcome, control, history>>

\* The process is lost and reconciled before it serves again: the worker and
\* its ToolNode threads are gone, a Task with a claimed slice is failed and its
\* ledger closed (record_runtime_recovery_failure), any other Task keeps its
\* rows, its checkpoint and its queued command.
ProcessLoss ==
    /\ slice' = "none"
    /\ outcome' = "none"
    /\ signaling' = FALSE
    /\ signal' = FALSE
    /\ \/ /\ status \in {"running", "cancel_requested"}
          /\ EndTask("failed")
          /\ CloseLedger
       \/ /\ status \notin {"running", "cancel_requested"}
          /\ UNCHANGED <<rows, record>>
    /\ UNCHANGED <<approval, graph, history>>

-----------------------------------------------------------------------------
(***************************************************************************)
(* The graph slice                                                         *)
(***************************************************************************)

Running(n) == slice = "running" /\ node = n

\* The graph invocation returns: the registry entry is released.
Return(result) ==
    /\ slice' = "finished"
    /\ outcome' = result
    /\ signal' = FALSE

\* The graph goes on to node n.
GoTo(n) ==
    /\ node' = n
    /\ UNCHANGED <<slice, outcome, signal>>

\* call_model_node. A requested cancellation or an exhausted budget stops the
\* slice, a provider error escapes from it, a final answer completes it.
CallModel ==
    /\ Running("call_model")
    /\ \/ Return("failed") /\ UNCHANGED <<node, calls>>
       \/ ~ signal /\ Return("completed") /\ UNCHANGED <<node, calls>>
       \/ /\ ~ signal
          /\ \E b \in Batches : calls' = [calls EXCEPT ![loop] = b]
          /\ GoTo("check_permission")
    /\ UNCHANGED <<rows, ledger, loop, decisions, asked, phase, signaling, history>>

\* check_permission_node up to its loop over the calls: cancellation, a request
\* for user input (which defers the whole batch), and the tool-call budget.
CheckPermission ==
    /\ Running("check_permission")
    /\ \/ Return("failed") /\ UNCHANGED <<node, decisions, asked>>
       \/ /\ ~ signal
          /\ node' = "user_input_required"
          /\ Return("user_input_required")
          /\ UNCHANGED <<decisions, asked>>
       \/ /\ ~ signal
          /\ decisions' = <<>>
          /\ asked' = 0
          /\ GoTo("prepare")
    /\ UNCHANGED <<rows, ledger, loop, calls, phase, signaling, history>>

\* Records of the same tool and arguments, newest first by loop and position:
\* find_latest_tool_invocation_for_effect.
Recorded(e)  == {v \in Invocations : record[v] # "absent" /\ EffectOf(v) = e}
Newer(u, v)  == u[1] > v[1] \/ (u[1] = v[1] /\ u[2] > v[2])
Latest(v, e) == v \in Recorded(e) /\ \A u \in Recorded(e) \ {v} : Newer(v, u)

NotRepeatable == {"running", "succeeded", "uncertain"}

\* PermissionGate.check
GateVerdict(e) ==
    IF e \in NeedsApproval THEN "approval_required"
    ELSE IF e \in Forbidden THEN "denied" ELSE "allowed"

\* create_or_get_tool_invocation: a prepared record; approval is bound to it when
\* the gate asks for it.
CreateInvocation(v, e) ==
    /\ record' = [record EXCEPT ![v] = "prepared"]
    /\ approval' = [approval EXCEPT ![v] =
                      IF e \in NeedsApproval THEN "pending" ELSE "not_required"]

\* Mutant of PrepareInvocation: only the record of the current loop is looked up.
PrepareWithoutHistory(i) ==
    LET e == Batch[i] v == Current(i) IN
    /\ CreateInvocation(v, e)
    /\ decisions' = Append(decisions, [verdict |-> GateVerdict(e), ref |-> v])

\* Mutant of PrepareInvocation: the record does not wait for the operator.
PrepareWithoutApproval(i) ==
    LET e == Batch[i] v == Current(i) IN
    /\ record' = [record EXCEPT ![v] = "prepared"]
    /\ approval' = [approval EXCEPT ![v] = "not_required"]
    /\ decisions' = Append(decisions, [verdict |-> "allowed", ref |-> v])

\* ToolInvocationLedger.prepare and _attach_invocation_reference for one call: a
\* matching effect that ran or may have run denies the call, any other call gets
\* a prepared record, also a call the gate denies.
PrepareInvocation(i) ==
    LET e == Batch[i] v == Current(i) IN
    \/ \E prior \in Invocations :
         /\ Latest(prior, e) /\ record[prior] \in NotRepeatable
         /\ decisions' = Append(decisions, [verdict |-> "denied", ref |-> prior])
         /\ UNCHANGED ledger
    \/ /\ ~ \E prior \in Invocations :
              Latest(prior, e) /\ record[prior] \in NotRepeatable
       /\ CreateInvocation(v, e)
       /\ decisions' = Append(decisions, [verdict |-> GateVerdict(e), ref |-> v])

\* One turn of the loop in check_permission_node; a write that raises ends the
\* slice.
PrepareCall ==
    /\ Running("prepare")
    /\ Len(decisions) < Len(Batch)
    /\ \/ /\ PrepareInvocation(Len(decisions) + 1)
          /\ UNCHANGED <<slice, outcome, signal, faults>>
       \/ Fault /\ Return("failed") /\ UNCHANGED <<ledger, decisions>>
    /\ UNCHANGED <<rows, node, loop, calls, asked, phase, signaling, performed, granted>>

Has(verdict) == \E i \in DOMAIN decisions : decisions[i].verdict = verdict

\* The ToolNode starts one thread per call.
StartTools == phase' = [i \in Positions |-> IF i <= Len(Batch) THEN "waiting" ELSE "done"]

\* Mutant of RoutePermission: the calls that were not denied go ahead.
RoutePermissionPartly ==
    /\ Running("prepare")
    /\ Len(decisions) = Len(Batch)
    /\ IF Has("approval_required")
         THEN GoTo("approval_required") /\ UNCHANGED phase
         ELSE /\ phase' = [i \in Positions |->
                   IF i <= Len(Batch) /\ decisions[i].verdict = "allowed"
                   THEN "waiting" ELSE "done"]
              /\ GoTo("tools")
    /\ UNCHANGED <<rows, ledger, loop, calls, decisions, asked, signaling, history>>

\* The end of check_permission_node and route_after_permission: one denied call
\* rejects the batch, one approval holds it.
RoutePermission ==
    /\ Running("prepare")
    /\ Len(decisions) = Len(Batch)
    /\ \/ Has("denied") /\ GoTo("reject_tool") /\ UNCHANGED phase
       \/ /\ ~ Has("denied") /\ Has("approval_required")
          /\ GoTo("approval_required") /\ UNCHANGED phase
       \/ /\ ~ Has("denied") /\ ~ Has("approval_required")
          /\ StartTools /\ GoTo("tools")
    /\ UNCHANGED <<rows, ledger, loop, calls, decisions, asked, signaling, history>>

\* approval_required_node, replayed from its start on every resume: the answered
\* interrupts return their answers, the next open one interrupts the graph. A
\* rejection skips the rest.
AskApproval ==
    /\ Running("approval_required")
    /\ \E i \in DOMAIN decisions :
         /\ NextApproval(i)
         /\ \/ /\ answer \notin {"approved", "rejected"}
               /\ Return("approval_required")
               /\ UNCHANGED <<answer, node, asked, phase>>
            \/ /\ answer = "rejected"
               /\ GoTo("reject_tool")
               /\ UNCHANGED <<answer, asked, phase>>
            \/ /\ answer = "approved"
               /\ asked' = i
               /\ answer' = "none"
               /\ IF \E j \in DOMAIN decisions : j > i /\ NeedsAnswer(j)
                    THEN UNCHANGED <<node, slice, outcome, signal, phase>>
                    ELSE StartTools /\ GoTo("tools")
    /\ UNCHANGED <<status, waitingFor, ledger, loop, calls, decisions, signaling, history>>

\* reject_tool_node: the batch's prepared records are canceled and the rejection
\* is the final answer.
RejectTool ==
    /\ Running("reject_tool")
    /\ CancelInvocations({decisions[i].ref : i \in DOMAIN decisions})
    /\ Return("completed")
    /\ UNCHANGED <<rows, approval, graph, signaling, history>>

\* Mutant of NextLoop: the stop reason is returned untranslated.
NextLoopStopReason ==
    /\ loop' = loop + 1
    /\ \/ Return("max_loops") /\ UNCHANGED node
       \/ loop + 1 <= MaxLoops /\ GoTo("call_model")

\* increment_loop_node and route_loop_limit; an elapsed or failure budget may
\* stop the slice as well.
NextLoop ==
    /\ loop' = loop + 1
    /\ \/ Return("failed") /\ UNCHANGED node
       \/ loop + 1 <= MaxLoops /\ GoTo("call_model")

\* user_input_required_node after the input arrived.
TakeInput ==
    /\ Running("user_input_required")
    /\ NextLoop
    /\ UNCHANGED <<rows, ledger, calls, decisions, asked, phase, signaling, history>>

\* record_tool_messages_node once every ToolNode thread returned its message.
RecordToolMessages ==
    /\ Running("tools")
    /\ \A i \in Positions : phase[i] = "done"
    /\ NextLoop
    /\ UNCHANGED <<rows, ledger, calls, decisions, asked, phase, signaling, history>>

-----------------------------------------------------------------------------
(***************************************************************************)
(* tool_call_wrapper: one thread of the ToolNode. An exception that leaves *)
(* the wrapper becomes an error message of the ToolNode.                   *)
(***************************************************************************)

At(i, p) == Running("tools") /\ phase[i] = p

Go(i, p) ==
    /\ phase' = [phase EXCEPT ![i] = p]
    /\ UNCHANGED <<rows, approval, slice, node, loop, calls, decisions, asked,
                   outcome, control, granted>>

\* The thread writes the ledger and calls nothing.
WriteStep(i, p) == Go(i, p) /\ UNCHANGED <<performed, faults>>

\* The thread's ledger write raises.
FaultStep(i, p) == Go(i, p) /\ Fault /\ UNCHANGED <<record, performed>>

\* The cancellation checks before the execution boundary.
CheckCancellation(i) ==
    /\ At(i, "waiting")
    /\ \/ ~ signal /\ WriteStep(i, "begin") /\ UNCHANGED record
       \/ signal /\ WriteStep(i, "done") /\ CancelInvocations({decisions[i].ref})
       \/ signal /\ FaultStep(i, "done")

\* begin_tool_invocation starts a prepared record that needs no approval or has it.
MayBegin(v) == record[v] = "prepared" /\ approval[v] \in {"not_required", "approved"}

\* begin_execution: the record crosses to running, or the call is not executed;
\* a record that runs already is executed.
BeginExecution(i) ==
    LET v == decisions[i].ref IN
    /\ At(i, "begin")
    /\ \/ IF MayBegin(v) \/ record[v] = "running"
            THEN WriteStep(i, "execute") /\ record' = [record EXCEPT ![v] = "running"]
            ELSE WriteStep(i, "done") /\ UNCHANGED record
       \/ FaultStep(i, "done")

\* The external call: it succeeds, answers with a structured failure, or raises.
Execute(i) ==
    /\ At(i, "execute")
    /\ \E result \in {"ok", "failed", "raised"} : Go(i, result)
    /\ performed' = [performed EXCEPT ![decisions[i].ref] = @ + 1]
    /\ UNCHANGED <<record, faults>>

\* finish_execution: complete_tool_invocation_success, which raises for a record
\* that is no longer running, or the mark of a structured failure.
FinishExecution(i) ==
    LET v == decisions[i].ref IN
    \/ /\ At(i, "ok")
       /\ IF record[v] \in {"running", "succeeded"}
            THEN WriteStep(i, "done") /\ CompleteSuccess(v)
            ELSE WriteStep(i, "raised") /\ UNCHANGED record
    \/ At(i, "failed") /\ WriteStep(i, "done") /\ MarkUncertain(v)
    \/ (At(i, "ok") \/ At(i, "failed")) /\ FaultStep(i, "raised")

\* Mutant of SettleRaised: the exception leaves the record as it is.
RaiseUnsettled(i) ==
    At(i, "raised") /\ WriteStep(i, "done") /\ UNCHANGED record

\* mark_execution_uncertain in the wrapper's exception handlers.
SettleRaised(i) ==
    /\ At(i, "raised")
    /\ \/ WriteStep(i, "done") /\ MarkUncertain(decisions[i].ref)
       \/ FaultStep(i, "done")

-----------------------------------------------------------------------------

CallStep(i) ==
    \/ CheckCancellation(i)
    \/ BeginExecution(i)
    \/ Execute(i)
    \/ FinishExecution(i)
    \/ SettleRaised(i)

GraphStep ==
    \/ CallModel
    \/ CheckPermission
    \/ PrepareCall
    \/ RoutePermission
    \/ AskApproval
    \/ RejectTool
    \/ TakeInput
    \/ RecordToolMessages

WorkerStep ==
    \/ ClaimCommand
    \/ ActivateSlice
    \/ LeaveActive
    \/ RecordOutcome

Next ==
    \/ WorkerStep
    \/ GraphStep
    \/ \E i \in Positions : CallStep(i)
    \/ CancelTask
    \/ SignalCancellation
    \/ \E approved \in BOOLEAN : ResolveApproval(approved)
    \/ SubmitInput
    \/ ProcessLoss

Spec == Init /\ [][Next]_vars

\* The worker thread and the threads of the ToolNode keep running while the
\* process lives; requests, operators and process losses owe nothing.
Fairness ==
    /\ WF_vars(WorkerStep)
    /\ WF_vars(GraphStep)
    /\ \A i \in Positions : WF_vars(CallStep(i))

FairSpec == Spec /\ Fairness

-----------------------------------------------------------------------------
(***************************************************************************)
(* Properties                                                              *)
(***************************************************************************)

\* An effect that entered its external call is on record as running, succeeded
\* or uncertain, whatever cancellation, rejection, failure or process loss does to
\* the Task; begin_execution lets one identity through once, although it also
\* answers "execute" for a record that is running already; and while store writes
\* succeed, prepare keeps an effect that ran in one turn of the loop from running
\* again in a later one. (prepare only looks at the newest matching record: a twin
\* call left prepared by a write that raised would hide the one that ran.)
StartedEffectIsOnRecord ==
    /\ \A v \in Invocations :
         performed[v] > 0 => record[v] \in NotRepeatable /\ performed[v] = 1
    /\ faults = 0 => \A u, v \in Invocations :
         performed[u] > 0 /\ performed[v] > 0 /\ EffectOf(u) = EffectOf(v) => u[1] = v[1]

\* An effect the gate holds back only runs after the operator approved exactly
\* its record, an effect the gate denies never runs, and a batch is executed as a
\* whole: once one of its calls runs, none was denied, rejected or is undecided.
OperatorDecides ==
    /\ TypeOK
    /\ \A v \in Invocations : performed[v] > 0 =>
         /\ EffectOf(v) \in NeedsApproval => v \in granted
         /\ \A i \in 1 .. Len(calls[v[1]]) :
              /\ record[<<v[1], i>>] # "absent"
              /\ approval[<<v[1], i>>] \in {"not_required", "approved"}
              /\ calls[v[1]][i] \notin Forbidden

\* The end of a Task leaves no record prepared or running: a failed Task even when
\* store writes of its tool threads raised; while store writes succeed also the ends
\* that do not touch what is running (a completed result, a cancellation without an
\* active worker).
EndSettlesLedger ==
    status \in TerminalStatus /\ (status = "failed" \/ faults = 0) =>
        \A v \in Invocations : record[v] \notin {"prepared", "running"}

\* A settled record is never rewritten: an uncertain effect does not become
\* succeeded, a succeeded one does not become uncertain, a canceled one does not
\* start.
SettledIsFinal ==
    [][\A v \in Invocations :
         record[v] \in {"succeeded", "uncertain", "canceled"} => record'[v] = record[v]]_vars

\* A started effect is settled in the end, by its thread, by the outcome of the
\* Task or by reconciliation, unless the store refused a write.
StartedEffectIsSettled ==
    \A v \in Invocations :
        record[v] = "running" ~> record[v] \in {"succeeded", "uncertain"} \/ faults > 0
=============================================================================
