------------------------------ MODULE GraphLoop ------------------------------
(***************************************************************************)
(* One local Task's LangGraph run: the ReAct loop of langgraph_runtime     *)
(* (call_model, check_permission, approval_required, user_input_required,  *)
(* tools, record_tool_messages, increment_loop), the execution budgets of  *)
(* execution.py, and the slices LangGraphAgentRuntime cuts it into: start  *)
(* and every resume run the graph to END, to an interrupt, or to an        *)
(* exception.  The graph state is the checkpoint, so counters survive a    *)
(* pause; the tool ledger behind the wrapper is the ToolLedger module.     *)
(*                                                                         *)
(* A model response is the sequence of its tool calls, each named by what  *)
(* the gate says of it; the empty response is a final answer.  Wall-clock  *)
(* time is abstracted to whether max_elapsed_seconds has passed.           *)
(***************************************************************************)
EXTENDS Naturals, Sequences, FiniteSets

CONSTANTS Policies,      \* the ExecutionPolicy values a Task may be given
          MaxBatch       \* bound: tool calls in one model response

\* ExecutionPolicy: the limits and what __post_init__ demands of them; a
\* Task without a deadline has max_elapsed_seconds None.
ExecutionPolicy ==
    [max_model_calls: Nat \ {0}, max_tool_calls: Nat, max_failures: Nat \ {0},
     max_tool_argument_corrections: Nat, max_loop_steps: Nat \ {0},
     has_deadline: BOOLEAN]

ASSUME PolicyAssumption == Policies \subseteq ExecutionPolicy
ASSUME BatchAssumption == MaxBatch \in Nat \ {0}

\* What check_permission finds of one call: the request_user_input tool, or
\* the gate's verdict.
CallKind == {"request_user_input", "allowed", "approval_required", "denied"}

\* What the ToolMessage of one call is normalized to.
Observation == {"ok", "tool_argument_error", "tool_execution_error"}

StopReason == {"completed", "input_required", "approval_required",
               "budget_exhausted", "repeated_failure", "policy_blocked",
               "canceled", "tool_argument_error"}

Node == {"call_model", "model_call", "check_permission", "approval_required",
         "user_input_required", "reject_tool", "tools", "increment_loop", "END"}

VARIABLES
    policy,        \* state["execution_policy"]
    node,          \* the node about to run (model_call: inside the provider call)
    slice,         \* "running", "interrupted", "finished", "raised"
    batch,         \* tool calls of the latest AI message
    answers,       \* observations of the batch's ToolMessages so far
    replies,       \* interrupts of the current node that have been answered
    rejected,      \* approval["approved"] is False
    model_calls, tool_calls, failure_count, argument_rounds, loop_index,
    evidence,      \* observations of the whole run that are ok
    stop_reason,   \* "none" or a StopReason
    final_answer,  \* a final answer is set
    expired,       \* max_elapsed_seconds has passed since execution_started_at
    canceled,      \* the registry holds a cancellation request for the thread
    invoked,       \* ghost: model invocations started
    executed       \* ghost: tool bodies run

counters == <<model_calls, tool_calls, failure_count, argument_rounds,
              loop_index, evidence>>
env == <<expired, canceled>>
ghost == <<invoked, executed>>
vars == <<policy, node, slice, batch, answers, replies, rejected, counters,
          stop_reason, final_answer, env, ghost>>

------------------------------------------------------------------------------
(* execution.py: the limits, None when the work may go on.                 *)

ElapsedLimit == policy.has_deadline /\ expired

ModelCallLimit ==
    IF ElapsedLimit \/ model_calls >= policy.max_model_calls THEN "budget_exhausted"
    ELSE IF failure_count >= policy.max_failures THEN "repeated_failure"
    ELSE "none"

ToolCallLimit ==
    IF ElapsedLimit \/ tool_calls + Len(batch) > policy.max_tool_calls
    THEN "budget_exhausted" ELSE "none"

LoopStepLimit ==
    IF ElapsedLimit \/ loop_index + 1 > policy.max_loop_steps
    THEN "budget_exhausted" ELSE "none"

\* _cancellation_limit(...) or the limit: a requested cancellation wins.
CancellationOr(limit) == IF canceled THEN "canceled" ELSE limit

------------------------------------------------------------------------------
(* build_initial_state and the runner.                                     *)

Init ==
    /\ policy \in Policies
    /\ node = "call_model" /\ slice = "running"
    /\ batch = <<>> /\ answers = <<>> /\ replies = 0 /\ rejected = FALSE
    /\ model_calls = 0 /\ tool_calls = 0 /\ failure_count = 0
    /\ argument_rounds = 0 /\ loop_index = 1 /\ evidence = 0
    /\ stop_reason = "none" /\ final_answer = FALSE
    /\ expired = FALSE /\ canceled = FALSE
    /\ invoked = 0 /\ executed = 0

\* _execution_stop_updates followed by an edge to END: the slice is over and
\* _to_run_result reports it.
StopWith(reason) ==
    /\ stop_reason' = reason
    /\ node' = "END" /\ slice' = "finished"
    /\ UNCHANGED <<policy, batch, answers, replies, rejected, counters,
                   final_answer, env>>

\* mutant: the counters start again with the new slice
ResumeFresh ==
    /\ slice = "interrupted" /\ ~canceled
    /\ \E approved \in BOOLEAN :
         rejected' = (node = "approval_required" /\ ~approved)
    /\ slice' = "running" /\ replies' = replies + 1 /\ model_calls' = 0
    /\ UNCHANGED <<policy, node, batch, answers, tool_calls, failure_count,
                   argument_rounds, loop_index, evidence, stop_reason,
                   final_answer, env, ghost>>

\* LangGraphAgentRuntime.resume and resume_input: Command(resume=payload)
\* re-enters the node that interrupted, with one more answer for it.  The
\* control plane continues no Task whose cancellation was requested.
Resume ==
    /\ slice = "interrupted" /\ ~canceled
    /\ \E approved \in BOOLEAN :
         rejected' = (node = "approval_required" /\ ~approved)
    /\ slice' = "running" /\ replies' = replies + 1
    /\ UNCHANGED <<policy, node, batch, answers, counters, stop_reason,
                   final_answer, env, ghost>>

------------------------------------------------------------------------------
(* The nodes.                                                              *)

\* call_model up to the provider call.
CallModel ==
    /\ slice = "running" /\ node = "call_model"
    /\ LET limit == CancellationOr(ModelCallLimit) IN
         \/ limit # "none" /\ StopWith(limit) /\ UNCHANGED ghost
         \/ /\ limit = "none"
            /\ node' = "model_call" /\ invoked' = invoked + 1
            /\ UNCHANGED <<policy, slice, batch, answers, replies, rejected,
                           counters, stop_reason, final_answer, env, executed>>

\* An exception that leaves the graph: the runner does not catch it.
Raise ==
    /\ slice' = "raised"
    /\ UNCHANGED <<policy, node, batch, answers, replies, rejected, counters,
                   stop_reason, final_answer, env, ghost>>

\* The provider call raises ModelProviderError: the limits are read again,
\* and the error is propagated when none explains it.
ModelFails ==
    /\ slice = "running" /\ node = "model_call"
    /\ LET limit == CancellationOr(ModelCallLimit) IN
         \/ limit # "none" /\ StopWith(limit) /\ UNCHANGED ghost
         \/ limit = "none" /\ Raise

\* The provider call returns: a limit read after it discards the response,
\* a final answer that narrates a tool call is a ModelProtocolError, a
\* response with tool calls goes to check_permission.
ModelAnswers ==
    /\ slice = "running" /\ node = "model_call"
    /\ LET limit == CancellationOr(ModelCallLimit) IN
         \/ limit # "none" /\ StopWith(limit) /\ UNCHANGED ghost
         \/ limit = "none" /\ Raise
         \/ /\ limit = "none"
            /\ \E n \in 0..MaxBatch : \E calls \in [1..n -> CallKind] :
                 /\ batch' = calls /\ answers' = <<>>
                 /\ replies' = 0
                 /\ IF n = 0
                    THEN /\ final_answer' = TRUE /\ stop_reason' = "completed"
                         /\ node' = "END" /\ slice' = "finished"
                    ELSE /\ node' = "check_permission"
                         /\ UNCHANGED <<slice, final_answer, stop_reason>>
            /\ model_calls' = model_calls + 1
            /\ UNCHANGED <<policy, rejected, tool_calls, failure_count,
                           argument_rounds, loop_index, evidence, env, ghost>>

Goto(n) ==
    /\ node' = n
    /\ UNCHANGED <<policy, slice, batch, answers, replies, rejected, counters,
                   final_answer, env, ghost>>

Asked(kind) == \E i \in DOMAIN batch : batch[i] = kind

\* check_permission and route_after_permission: a request for user input
\* holds the whole batch back before any budget is looked at; one denied
\* call rejects the batch; one call to approve pauses it.
CheckPermission ==
    /\ slice = "running" /\ node = "check_permission"
    /\ \/ canceled /\ StopWith("canceled") /\ UNCHANGED ghost
       \/ /\ ~canceled /\ Asked("request_user_input")
          /\ Goto("user_input_required") /\ stop_reason' = "input_required"
       \/ /\ ~canceled /\ ~Asked("request_user_input")
          /\ LET limit == ToolCallLimit IN
               \/ limit # "none" /\ StopWith(limit) /\ UNCHANGED ghost
               \/ limit = "none" /\ Asked("denied")
                  /\ Goto("reject_tool") /\ UNCHANGED stop_reason
               \/ limit = "none" /\ ~Asked("denied") /\ Asked("approval_required")
                  /\ Goto("approval_required") /\ stop_reason' = "approval_required"
               \/ limit = "none" /\ ~Asked("denied") /\ ~Asked("approval_required")
                  /\ Goto("tools") /\ UNCHANGED stop_reason

Approvable == {i \in DOMAIN batch : batch[i] = "approval_required"}

\* interrupt(): the slice ends with the question, the checkpoint keeps the node.
Interrupt ==
    /\ slice' = "interrupted"
    /\ UNCHANGED <<policy, node, batch, answers, replies, rejected, counters,
                   stop_reason, final_answer, env, ghost>>

\* mutant: the first approval clears the batch
ApprovalRequiredOnce ==
    /\ slice = "running" /\ node = "approval_required"
    /\ \/ ~rejected /\ replies = 0 /\ Interrupt
       \/ rejected /\ Goto("reject_tool") /\ stop_reason' = "none"
       \/ ~rejected /\ replies > 0 /\ Goto("tools") /\ stop_reason' = "none"

\* approval_required: one interrupt per call to approve, in order; the node
\* starts over at every resume and its earlier interrupts return at once.
\* The first rejection, or the last approval, clears the pause.
ApprovalRequired ==
    /\ slice = "running" /\ node = "approval_required"
    /\ \/ ~rejected /\ replies < Cardinality(Approvable) /\ Interrupt
       \/ rejected /\ Goto("reject_tool") /\ stop_reason' = "none"
       \/ ~rejected /\ replies = Cardinality(Approvable)
          /\ Goto("tools") /\ stop_reason' = "none"

\* mutant: the pause's stop reason outlives the pause
UserInputRequiredKeepsReason ==
    /\ slice = "running" /\ node = "user_input_required"
    /\ \/ replies = 0 /\ Interrupt
       \/ replies > 0 /\ Goto("increment_loop") /\ UNCHANGED stop_reason

\* user_input_required: the answer becomes the ToolMessage of the request,
\* the other calls of the batch are answered as deferred; none is counted.
UserInputRequired ==
    /\ slice = "running" /\ node = "user_input_required"
    /\ \/ replies = 0 /\ Interrupt
       \/ replies > 0 /\ Goto("increment_loop") /\ stop_reason' = "none"

\* reject_tool: a denied or rejected batch ends the run with a final answer.
RejectTool ==
    /\ slice = "running" /\ node = "reject_tool"
    /\ final_answer' = TRUE /\ stop_reason' = "policy_blocked"
    /\ node' = "END" /\ slice' = "finished"
    /\ UNCHANGED <<policy, batch, answers, replies, rejected, counters, env, ghost>>

\* mutant: a blocked call returns no ToolMessage
RunToolSilentBlock ==
    /\ slice = "running" /\ node = "tools" /\ Len(answers) < Len(batch)
    /\ ~canceled
    /\ \E o \in Observation :
         /\ answers' = Append(answers, o)
         /\ executed' = IF o = "tool_argument_error" THEN executed ELSE executed + 1
    /\ UNCHANGED <<policy, node, slice, batch, replies, rejected, counters,
                   stop_reason, final_answer, env, invoked>>

\* ToolNode runs the calls of the batch, in any order, each in its wrapper.
\* A requested cancellation, or a ledger record that forbids execution,
\* answers with an error message; arguments that miss the tool's schema are
\* a structured argument error and the body does not run.
RunTool ==
    /\ slice = "running" /\ node = "tools" /\ Len(answers) < Len(batch)
    /\ \/ /\ answers' = Append(answers, "tool_execution_error")
          /\ UNCHANGED executed
       \/ /\ ~canceled
          /\ \E o \in Observation :
               /\ answers' = Append(answers, o)
               /\ executed' = IF o = "tool_argument_error" THEN executed
                                                           ELSE executed + 1
    /\ UNCHANGED <<policy, node, slice, batch, replies, rejected, counters,
                   stop_reason, final_answer, env, invoked>>

Answered(o) == {i \in DOMAIN answers : answers[i] = o}

\* record_tool_messages: argument errors of one round cost one correction
\* round, every other error one failure.
RecordToolMessages ==
    /\ slice = "running" /\ node = "tools" /\ Len(answers) = Len(batch)
    /\ tool_calls' = tool_calls + Len(answers)
    /\ evidence' = evidence + Cardinality(Answered("ok"))
    /\ failure_count' = failure_count + Cardinality(Answered("tool_execution_error"))
    /\ LET invalid == Answered("tool_argument_error") # {} IN
         /\ argument_rounds' = argument_rounds + (IF invalid THEN 1 ELSE 0)
         /\ stop_reason' =
              IF invalid /\ argument_rounds' > policy.max_tool_argument_corrections
              THEN "tool_argument_error"
              ELSE IF failure_count' >= policy.max_failures
                   THEN "repeated_failure" ELSE stop_reason
    /\ node' = "increment_loop"
    /\ UNCHANGED <<policy, slice, batch, answers, replies, rejected, model_calls,
                   loop_index, final_answer, env, ghost>>

\* increment_loop and route_loop_limit: the loop limit, or the deadline,
\* replaces a stop reason that record_tool_messages has just set.  The
\* max_loops node is never entered: max_loops is policy.max_loop_steps, so
\* the limit has stopped the run before the route compares them.
IncrementLoop ==
    /\ slice = "running" /\ node = "increment_loop"
    /\ loop_index' = loop_index + 1
    /\ stop_reason' = IF LoopStepLimit # "none" THEN LoopStepLimit ELSE stop_reason
    /\ IF stop_reason' # "none" THEN node' = "END" /\ slice' = "finished"
                                ELSE node' = "call_model" /\ UNCHANGED slice
    /\ UNCHANGED <<policy, batch, answers, replies, rejected, model_calls,
                   tool_calls, failure_count, argument_rounds, evidence,
                   final_answer, env, ghost>>

\* Time passes, also while the Task waits for the operator.
Expire ==
    /\ slice \in {"running", "interrupted"}
    /\ policy.has_deadline /\ ~expired
    /\ expired' = TRUE
    /\ UNCHANGED <<policy, node, slice, batch, answers, replies, rejected, counters,
                   stop_reason, final_answer, canceled, ghost>>

\* The control plane signals a running slice.
RequestCancellation ==
    /\ slice = "running" /\ ~canceled
    /\ canceled' = TRUE
    /\ UNCHANGED <<policy, node, slice, batch, answers, replies, rejected, counters,
                   stop_reason, final_answer, expired, ghost>>

Worker ==
    \/ CallModel \/ ModelFails \/ ModelAnswers \/ CheckPermission
    \/ ApprovalRequired \/ UserInputRequired \/ RejectTool
    \/ RunTool \/ RecordToolMessages \/ IncrementLoop

Next == Worker \/ Resume \/ Expire \/ RequestCancellation

Spec == Init /\ [][Next]_vars

\* The worker thread runs; provider calls and tools return or time out.
FairSpec == Spec /\ WF_vars(Worker)

------------------------------------------------------------------------------
TypeOK ==
    /\ policy \in Policies
    /\ node \in Node
    /\ slice \in {"running", "interrupted", "finished", "raised"}
    /\ batch \in Seq(CallKind) /\ Len(batch) <= MaxBatch
    /\ answers \in Seq(Observation) /\ Len(answers) <= Len(batch)
    /\ replies \in 0..MaxBatch
    /\ model_calls \in Nat /\ tool_calls \in Nat /\ failure_count \in Nat
    /\ argument_rounds \in Nat /\ loop_index \in Nat \ {0} /\ evidence \in Nat
    /\ stop_reason \in StopReason \cup {"none"}
    /\ {rejected, final_answer, expired, canceled} \subseteq BOOLEAN
    /\ invoked \in Nat /\ executed \in Nat

\* The work a Task really does stays within the policy it was given, however
\* often it pauses: provider calls started, tool bodies run, loop rounds and
\* correction rounds.  The limits are read before the work and the counters
\* written after it, so this needs every counter to survive a pause and to
\* keep up with the work (execution.py:132-206, nodes.py:205-208,675-681).
WorkWithinPolicy ==
    /\ TypeOK
    /\ invoked <= policy.max_model_calls
    /\ invoked <= policy.max_loop_steps
    /\ executed <= policy.max_tool_calls
    /\ tool_calls <= policy.max_tool_calls
    /\ loop_index <= policy.max_loop_steps + 1
    /\ argument_rounds <= policy.max_tool_argument_corrections + 1
    /\ invoked - model_calls \in {0, 1}
    /\ node \in {"check_permission", "approval_required", "user_input_required", "tools"}
         => invoked = model_calls /\ invoked = loop_index

\* RunResult.status of an ended slice.
RunStatus == IF slice = "interrupted" THEN "interrupted"
             ELSE IF final_answer THEN "completed" ELSE "stopped"

\* _stop_reason_from_state: what the slice's execution summary reports.
ReportedReason ==
    IF stop_reason # "none" THEN stop_reason
    ELSE IF final_answer THEN "completed" ELSE "environment_failure"

\* execution_summary: one residual risk per failed observation, one for an
\* answer no tool backs, one for a run that did not complete.
ResidualRisks ==
    (tool_calls - evidence)
    + (IF final_answer /\ tool_calls = 0 THEN 1 ELSE 0)
    + (IF ReportedReason \in {"completed", "policy_blocked"} THEN 0 ELSE 1)

\* A slice that ends says why, and the reason it gives is one that holds: a
\* limit that was really reached, an operator or gate that really refused, a
\* question that is really open.  A pause's reason does not outlive the
\* pause, a limit's reason is not reported early, and only an answer backed
\* by tool evidence is free of residual risk (nodes.py:776-794,
\* execution.py:205-307, runner.py:142-200).
StopIsDue ==
    slice \in {"interrupted", "finished"} =>
      LET reported(reason) == ReportedReason = reason IN
      /\ ~reported("environment_failure")
      /\ RunStatus = "completed" <=> reported("completed") \/ reported("policy_blocked")
      /\ RunStatus = "interrupted" <=>
           reported("input_required") \/ reported("approval_required")
      /\ ResidualRisks = 0 => RunStatus = "completed" /\ evidence = tool_calls /\ evidence > 0
      /\ reported("completed") => batch = <<>>
      /\ reported("policy_blocked") => rejected \/ Asked("denied")
      /\ reported("input_required") => Asked("request_user_input")
      /\ reported("approval_required") => replies < Cardinality(Approvable)
      /\ reported("canceled") => canceled
      /\ reported("repeated_failure") => failure_count >= policy.max_failures
      /\ reported("tool_argument_error") =>
           argument_rounds > policy.max_tool_argument_corrections
      /\ reported("budget_exhausted") =>
           \/ ElapsedLimit
           \/ model_calls = policy.max_model_calls
           \/ tool_calls + Len(batch) > policy.max_tool_calls
           \/ loop_index > policy.max_loop_steps

\* No provider call starts once a stop is due, and no tool body runs in a
\* batch that was not cleared as a whole: nothing in it denied or deferred
\* to the user, every approval granted, the tool budget large enough for all
\* of it, and no cancellation requested when the call starts
\* (nodes.py:163-165,269-406,555-558,66-93).
WorkOnlyWhenPermitted ==
    [][ /\ invoked' > invoked =>
             /\ ~canceled /\ ~ElapsedLimit
             /\ failure_count < policy.max_failures
             /\ argument_rounds <= policy.max_tool_argument_corrections
             /\ stop_reason = "none"
        /\ executed' > executed =>
             /\ ~canceled /\ ~rejected
             /\ ~Asked("denied") /\ ~Asked("request_user_input")
             /\ replies >= Cardinality(Approvable)
             /\ tool_calls + Len(batch) <= policy.max_tool_calls
             /\ stop_reason = "none" ]_vars

\* Every slice ends: whatever the model asks for, a running slice reaches an
\* interrupt, a result or an exception (the budgets bound the loop, and a
\* blocked call still answers; graph.py:39-84, nodes.py:60-117).
SliceEnds == (slice = "running") ~> (slice # "running")

==============================================================================
