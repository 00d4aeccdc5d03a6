-------------------------- MODULE GraphLoop_proofs ---------------------------
(***************************************************************************)
(* Theorems about GraphLoop, for every set of policies and every length of *)
(* a model response.                                                       *)
(***************************************************************************)
EXTENDS GraphLoop, FiniteSetTheorems, SequenceTheorems, TLAPS

\* Nodes between a model's answer and the end of its round.
InRound == {"check_permission", "approval_required", "user_input_required",
            "reject_tool", "tools", "increment_loop"}

\* A slice pauses only at a question, ends only at END, and raises only in
\* the provider call.
SliceInv ==
    /\ slice = "finished" <=> node = "END"
    /\ slice = "interrupted" => node \in {"approval_required", "user_input_required"}
    /\ slice = "raised" => node = "model_call"

\* The counters keep up with the model: one invocation per round, and the
\* counter is at most the invocation in progress behind.
ModelInv ==
    /\ model_calls <= policy.max_model_calls
    /\ node = "call_model" =>
         invoked = model_calls /\ loop_index = invoked + 1
           /\ loop_index <= policy.max_loop_steps
    /\ node = "model_call" =>
         invoked = model_calls + 1 /\ invoked <= policy.max_model_calls
           /\ loop_index = invoked /\ loop_index <= policy.max_loop_steps
    /\ node \in InRound =>
         invoked = model_calls /\ loop_index = invoked
           /\ loop_index <= policy.max_loop_steps
    /\ node = "END" =>
         invoked \in {model_calls, model_calls + 1}
           /\ invoked <= policy.max_model_calls /\ invoked <= policy.max_loop_steps
           /\ loop_index <= policy.max_loop_steps + 1

\* The counters keep up with the tools: a batch that is cleared fits into
\* the budget as a whole, and only its own answers are not counted yet.
ToolInv ==
    /\ tool_calls <= policy.max_tool_calls /\ evidence <= tool_calls
    /\ node \in {"approval_required", "tools"} =>
         tool_calls + Len(batch) <= policy.max_tool_calls
    /\ node = "tools" => executed <= tool_calls + Len(answers)
    /\ node # "tools" => executed <= tool_calls
    /\ node \in {"check_permission", "approval_required"} => answers = <<>>

\* Failures that are due to stop the run have set its reason by the time the
\* loop goes on.
FailureInv ==
    /\ argument_rounds <= policy.max_tool_argument_corrections + 1
    /\ node \notin {"increment_loop", "END"} =>
         /\ failure_count < policy.max_failures
         /\ argument_rounds <= policy.max_tool_argument_corrections
    /\ node = "increment_loop" /\ stop_reason = "none" =>
         /\ failure_count < policy.max_failures
         /\ argument_rounds <= policy.max_tool_argument_corrections
    /\ stop_reason = "repeated_failure" => failure_count >= policy.max_failures
    /\ stop_reason = "tool_argument_error" =>
         argument_rounds > policy.max_tool_argument_corrections

\* The reason a node leaves behind.
ReasonInv ==
    /\ node \in {"call_model", "model_call", "check_permission", "tools", "reject_tool"}
         => stop_reason = "none"
    /\ node = "approval_required" => stop_reason = "approval_required"
    /\ node = "user_input_required" => stop_reason = "input_required"
    /\ node = "increment_loop" =>
         stop_reason \in {"none", "repeated_failure", "tool_argument_error"}
    /\ node = "END" =>
         stop_reason \notin {"none", "approval_required", "input_required"}
    /\ final_answer <=>
         node = "END" /\ stop_reason \in {"completed", "policy_blocked"}
    /\ stop_reason = "completed" => batch = <<>>
    /\ stop_reason = "policy_blocked" => rejected \/ Asked("denied")
    /\ stop_reason = "canceled" => canceled
    /\ stop_reason = "budget_exhausted" =>
         \/ ElapsedLimit
         \/ model_calls = policy.max_model_calls
         \/ tool_calls + Len(batch) > policy.max_tool_calls
         \/ loop_index > policy.max_loop_steps

\* What check_permission and the operator have said of the batch.
ClearedInv ==
    /\ rejected => node \in {"approval_required", "reject_tool", "END"}
    /\ node = "reject_tool" => rejected \/ Asked("denied")
    /\ node = "user_input_required" =>
         Asked("request_user_input") /\ (slice = "interrupted" => replies = 0)
    /\ node \in {"approval_required", "tools"} =>
         ~Asked("denied") /\ ~Asked("request_user_input")
    /\ node = "approval_required" =>
         /\ replies <= Cardinality(Approvable)
         /\ slice = "interrupted" => replies < Cardinality(Approvable)
    /\ node = "tools" => replies >= Cardinality(Approvable)
    /\ node = "check_permission" => replies = 0

IInv == /\ TypeOK /\ SliceInv /\ ModelInv /\ ToolInv /\ FailureInv
        /\ ReasonInv /\ ClearedInv

------------------------------------------------------------------------------
\* The limits a policy names are numbers (ExecutionPolicy.__post_init__).
LEMMA PolicyType ==
    ASSUME TypeOK
    PROVE  /\ policy.max_model_calls \in Nat \ {0} /\ policy.max_tool_calls \in Nat
           /\ policy.max_failures \in Nat \ {0}
           /\ policy.max_tool_argument_corrections \in Nat
           /\ policy.max_loop_steps \in Nat \ {0} /\ policy.has_deadline \in BOOLEAN
  BY PolicyAssumption DEF TypeOK, ExecutionPolicy

\* The positions of a sequence with some property are at most as many as it
\* is long.
LEMMA PositionsBound ==
    ASSUME NEW S, NEW q \in Seq(S), NEW P \in SUBSET DOMAIN q
    PROVE  Cardinality(P) \in Nat /\ Cardinality(P) <= Len(q)
  <1>1. IsFiniteSet(1..Len(q)) /\ Cardinality(1..Len(q)) = Len(q)
    <2> DEFINE n == Len(q)
    <2>1. n \in Nat
      BY LenProperties
    <2> HIDE DEF n
    <2>2. IsFiniteSet(1..n) /\ Cardinality(1..n) = IF 1 > n THEN 0 ELSE n - 1 + 1
      BY <2>1, FS_Interval
    <2>3. Cardinality(1..n) = n
      BY <2>1, <2>2
    <2>4. QED BY <2>2, <2>3 DEF n
  <1>2. P \in SUBSET (1..Len(q))
    OBVIOUS
  <1>3. IsFiniteSet(P) /\ Cardinality(P) <= Cardinality(1..Len(q))
    BY <1>1, <1>2, FS_Subset
  <1>4. QED BY <1>1, <1>3, FS_CardinalityType

\* Calls to approve, and answers of each kind, in a batch.
LEMMA BatchBounds ==
    ASSUME TypeOK
    PROVE  /\ Cardinality(Approvable) \in Nat /\ Cardinality(Approvable) <= Len(batch)
           /\ \A o : Cardinality(Answered(o)) \in Nat
                       /\ Cardinality(Answered(o)) <= Len(answers)
           /\ ~Asked("approval_required") => Cardinality(Approvable) = 0
  <1>1. Cardinality(Approvable) \in Nat /\ Cardinality(Approvable) <= Len(batch)
    BY PositionsBound DEF TypeOK, Approvable
  <1>2. ASSUME NEW o
        PROVE  Cardinality(Answered(o)) \in Nat
                 /\ Cardinality(Answered(o)) <= Len(answers)
    <2>1. Answered(o) \in SUBSET DOMAIN answers
      BY DEF Answered
    <2>2. QED BY <2>1, PositionsBound DEF TypeOK
  <1>3. ~Asked("approval_required") => Cardinality(Approvable) = 0
    <2>1. ~Asked("approval_required") => Approvable = {}
      BY DEF Asked, Approvable
    <2>2. QED BY <2>1, FS_EmptySet
  <1>4. QED BY <1>1, <1>2, <1>3

\* A response of n calls.
LEMMA ResponseType ==
    ASSUME NEW n \in Nat, NEW calls \in [1..n -> CallKind]
    PROVE  calls \in Seq(CallKind) /\ Len(calls) = n /\ (n = 0 => calls = <<>>)
  <1>1. calls \in Seq(CallKind)
    BY SeqDef
  <1>2. Len(calls) = n
    BY <1>1, LenProperties
  <1>3. QED BY <1>1, <1>2, EmptySeq

------------------------------------------------------------------------------
\* What is said of a batch stays true as long as the batch does.
LEMMA SameBatch ==
    ASSUME UNCHANGED batch
    PROVE  Approvable' = Approvable /\ \A k : Asked(k)' <=> Asked(k)
  BY DEF Approvable, Asked

\* A reason to stop that holds.
Due(reason) ==
    \/ reason = "canceled" /\ canceled
    \/ reason = "repeated_failure" /\ failure_count >= policy.max_failures
    \/ /\ reason = "budget_exhausted"
       /\ \/ ElapsedLimit \/ model_calls = policy.max_model_calls
          \/ tool_calls + Len(batch) > policy.max_tool_calls

\* A limit that stops the model holds (model_call_limit).
LEMMA ModelLimitIsDue ==
    ASSUME IInv, CancellationOr(ModelCallLimit) # "none"
    PROVE  Due(CancellationOr(ModelCallLimit))
  <1>1. CASE canceled
    BY <1>1 DEF Due, CancellationOr
  <1>2. CASE ~canceled /\ (ElapsedLimit \/ model_calls >= policy.max_model_calls)
    BY <1>2, PolicyType
       DEF Due, CancellationOr, ModelCallLimit, IInv, ModelInv, TypeOK
  <1>3. CASE /\ ~canceled /\ ~ElapsedLimit /\ ~(model_calls >= policy.max_model_calls)
    BY <1>3 DEF Due, CancellationOr, ModelCallLimit
  <1>4. QED BY <1>1, <1>2, <1>3

\* Stopping for a reason that holds (_execution_stop_updates).
LEMMA StopStep ==
    ASSUME IInv, NEW reason, Due(reason), slice = "running",
           node \in {"call_model", "model_call", "check_permission"},
           StopWith(reason), UNCHANGED ghost
    PROVE  IInv'
  <1> USE PolicyType DEF IInv, counters, env, ghost, StopWith
  <1>1. reason \in {"canceled", "repeated_failure", "budget_exhausted"}
    BY DEF Due
  <1>2. TypeOK'
    BY <1>1 DEF TypeOK, Node, StopReason
  <1>3. SliceInv'
    BY DEF SliceInv
  <1>4. ModelInv'
    BY DEF ModelInv, InRound, TypeOK
  <1>5. ToolInv'
    BY DEF ToolInv
  <1>6. FailureInv'
    BY <1>1 DEF FailureInv, Due
  <1>7. ReasonInv'
    BY <1>1 DEF ReasonInv, Due, ElapsedLimit
  <1>8. ClearedInv'
    BY SameBatch DEF ClearedInv
  <1>9. QED BY <1>2, <1>3, <1>4, <1>5, <1>6, <1>7, <1>8

\* The budget is read before the provider is asked.
LEMMA CallModelStep ==
    ASSUME IInv, CallModel
    PROVE  IInv'
  <1> DEFINE limit == CancellationOr(ModelCallLimit)
  <1>1. CASE limit # "none" /\ StopWith(limit) /\ UNCHANGED ghost
    BY <1>1, ModelLimitIsDue, StopStep DEF CallModel
  <1>2. CASE /\ limit = "none"
             /\ node' = "model_call" /\ invoked' = invoked + 1
             /\ UNCHANGED <<policy, slice, batch, answers, replies, rejected,
                            counters, stop_reason, final_answer, env, executed>>
    <2> USE <1>2, PolicyType DEF IInv, CallModel, counters, env
    <2>1. TypeOK' /\ SliceInv'
      BY DEF TypeOK, Node, SliceInv
    <2>2. model_calls < policy.max_model_calls
      BY DEF CancellationOr, ModelCallLimit, TypeOK
    <2>3. ModelInv'
      BY <2>2 DEF ModelInv, TypeOK, InRound
    <2>4. ToolInv' /\ FailureInv'
      BY DEF ToolInv, FailureInv
    <2>5. ReasonInv' /\ ClearedInv'
      BY SameBatch DEF ReasonInv, ElapsedLimit, ClearedInv
    <2>6. QED BY <2>1, <2>3, <2>4, <2>5
  <1>3. QED BY <1>1, <1>2 DEF CallModel

\* An exception of the provider leaves the graph's state as it is.
LEMMA RaiseStep ==
    ASSUME IInv, slice = "running", node = "model_call", Raise
    PROVE  IInv'
  <1> USE DEF IInv, Raise, counters, env, ghost
  <1>1. TypeOK' /\ SliceInv' /\ ModelInv' /\ ToolInv' /\ FailureInv'
    BY DEF TypeOK, SliceInv, ModelInv, ToolInv, FailureInv
  <1>2. ReasonInv' /\ ClearedInv'
    BY SameBatch DEF ReasonInv, ElapsedLimit, ClearedInv
  <1>3. QED BY <1>1, <1>2

\* A provider that fails.
LEMMA ModelFailsStep ==
    ASSUME IInv, ModelFails
    PROVE  IInv'
  BY ModelLimitIsDue, StopStep, RaiseStep DEF ModelFails

\* A provider that answers: a final text, or a batch for the gate.
LEMMA ModelAnswersStep ==
    ASSUME IInv, ModelAnswers
    PROVE  IInv'
  <1> DEFINE limit == CancellationOr(ModelCallLimit)
  <1>1. CASE limit # "none" /\ StopWith(limit) /\ UNCHANGED ghost
    BY <1>1, ModelLimitIsDue, StopStep DEF ModelAnswers
  <1>2. CASE limit = "none" /\ Raise
    BY <1>2, RaiseStep DEF ModelAnswers
  <1>3. ASSUME NEW n \in 0..MaxBatch, NEW calls \in [1..n -> CallKind],
               batch' = calls, answers' = <<>>, replies' = 0,
               IF n = 0
               THEN /\ final_answer' = TRUE /\ stop_reason' = "completed"
                    /\ node' = "END" /\ slice' = "finished"
               ELSE /\ node' = "check_permission"
                    /\ UNCHANGED <<slice, final_answer, stop_reason>>,
               model_calls' = model_calls + 1,
               UNCHANGED <<policy, rejected, tool_calls, failure_count,
                           argument_rounds, loop_index, evidence, env, ghost>>
        PROVE  IInv'
    <2> USE <1>3, PolicyType DEF IInv, ModelAnswers, env, ghost
    <2>1. /\ batch' \in Seq(CallKind) /\ Len(batch') = n
          /\ n = 0 => batch' = <<>>
      BY ResponseType, BatchAssumption
    <2>2. TypeOK'
      <3>1. answers' \in Seq(Observation) /\ Len(answers') = 0
        BY EmptySeq
      <3>2. /\ node' \in Node /\ slice' \in {"running", "interrupted", "finished", "raised"}
            /\ stop_reason' \in StopReason \cup {"none"} /\ final_answer' \in BOOLEAN
        BY DEF TypeOK, Node, StopReason
      <3>3. Len(batch') <= MaxBatch /\ replies' \in 0..MaxBatch /\ model_calls' \in Nat
        BY <2>1, BatchAssumption DEF TypeOK
      <3>4. QED BY <2>1, <3>1, <3>2, <3>3 DEF TypeOK
    <2>3. SliceInv'
      BY DEF SliceInv
    <2>4. ModelInv'
      BY DEF ModelInv, TypeOK, InRound
    <2>5. ToolInv'
      BY DEF ToolInv
    <2>6. FailureInv'
      BY DEF FailureInv, ReasonInv
    <2>7. ReasonInv'
      BY <2>1 DEF ReasonInv, SliceInv
    <2>8. ClearedInv'
      BY DEF ClearedInv
    <2>9. QED BY <2>2, <2>3, <2>4, <2>5, <2>6, <2>7, <2>8
  <1>4. QED BY <1>1, <1>2, <1>3 DEF ModelAnswers

\* The batch goes on to the next node with the stop reason it needs.
LEMMA GateStep ==
    ASSUME IInv, slice = "running", node = "check_permission", NEW n, Goto(n),
           \/ /\ n = "user_input_required" /\ stop_reason' = "input_required"
              /\ Asked("request_user_input")
           \/ n = "reject_tool" /\ stop_reason' = stop_reason /\ Asked("denied")
           \/ /\ n = "approval_required" /\ stop_reason' = "approval_required"
              /\ ~Asked("denied") /\ ~Asked("request_user_input")
              /\ tool_calls + Len(batch) <= policy.max_tool_calls
           \/ /\ n = "tools" /\ stop_reason' = stop_reason
              /\ ~Asked("denied") /\ ~Asked("request_user_input")
              /\ ~Asked("approval_required")
              /\ tool_calls + Len(batch) <= policy.max_tool_calls
    PROVE  IInv'
  <1> USE PolicyType, BatchBounds DEF IInv, counters, env, ghost, Goto
  <1>1. TypeOK'
    BY DEF TypeOK, Node, StopReason
  <1>2. SliceInv'
    BY DEF SliceInv
  <1>3. ModelInv'
    BY DEF ModelInv, InRound
  <1>4. ToolInv'
    BY EmptySeq DEF ToolInv, TypeOK
  <1>5. FailureInv'
    BY DEF FailureInv, ReasonInv
  <1>6. ReasonInv'
    BY SameBatch DEF ReasonInv
  <1>7. ClearedInv'
    BY SameBatch DEF ClearedInv, SliceInv, TypeOK
  <1>8. QED BY <1>1, <1>2, <1>3, <1>4, <1>5, <1>6, <1>7

\* A gate that lets the batch through, asks or refuses.
LEMMA CheckPermissionStep ==
    ASSUME IInv, CheckPermission
    PROVE  IInv'
  <1>1. CASE canceled
    BY <1>1, StopStep DEF CheckPermission, Due
  <1>2. CASE ~canceled /\ Asked("request_user_input")
    BY <1>2, GateStep DEF CheckPermission
  <1>3. CASE ~canceled /\ ~Asked("request_user_input") /\ ToolCallLimit # "none"
    <2>1. Due("budget_exhausted") /\ ToolCallLimit = "budget_exhausted"
      BY <1>3 DEF Due, ToolCallLimit
    <2>2. QED BY <1>3, <2>1, StopStep DEF CheckPermission
  <1>4. CASE ~canceled /\ ~Asked("request_user_input") /\ ToolCallLimit = "none"
    <2>1. tool_calls + Len(batch) <= policy.max_tool_calls
      BY <1>4, PolicyType DEF ToolCallLimit, IInv, TypeOK
    <2>2. QED BY <1>4, <2>1, GateStep DEF CheckPermission
  <1>5. QED BY <1>1, <1>2, <1>3, <1>4

\* An operator is asked, or has answered.
LEMMA ApprovalRequiredStep ==
    ASSUME IInv, ApprovalRequired
    PROVE  IInv'
  <1> USE PolicyType, BatchBounds
      DEF IInv, counters, env, ghost, ApprovalRequired, Interrupt, Goto
  <1>1. TypeOK'
    BY DEF TypeOK, Node, StopReason
  <1>2. SliceInv'
    BY DEF SliceInv
  <1>3. ModelInv'
    BY DEF ModelInv, InRound
  <1>4. ToolInv'
    <2>1. /\ executed <= tool_calls /\ tool_calls \in Nat
          /\ tool_calls + Len(batch) <= policy.max_tool_calls /\ Len(answers) = 0
      BY EmptySeq DEF ToolInv, TypeOK
    <2>2. QED BY <2>1 DEF ToolInv
  <1>5. FailureInv'
    BY DEF FailureInv, ReasonInv
  <1>6. ReasonInv'
    BY SameBatch DEF ReasonInv
  <1>7. ClearedInv'
    BY SameBatch, SMTT(30) DEF ClearedInv, TypeOK
  <1>8. QED BY <1>1, <1>2, <1>3, <1>4, <1>5, <1>6, <1>7

\* A user is asked, or has answered.
LEMMA UserInputRequiredStep ==
    ASSUME IInv, UserInputRequired
    PROVE  IInv'
  <1> USE PolicyType, BatchBounds DEF IInv, counters, env, ghost
  <1>1. TypeOK'
    BY DEF UserInputRequired, Interrupt, Goto, TypeOK, Node, StopReason
  <1>2. SliceInv'
    BY DEF UserInputRequired, Interrupt, Goto, SliceInv, TypeOK
  <1>3. ModelInv'
    BY DEF UserInputRequired, Interrupt, Goto, ModelInv, TypeOK, InRound
  <1>4. ToolInv'
    BY DEF UserInputRequired, Interrupt, Goto, ToolInv, TypeOK
  <1>5. FailureInv'
    BY DEF UserInputRequired, Interrupt, Goto, FailureInv, ReasonInv, TypeOK
  <1>6. ReasonInv'
    BY SMTT(30) DEF UserInputRequired, Interrupt, Goto, ReasonInv, SliceInv, TypeOK, Asked,
           ElapsedLimit
  <1>7. ClearedInv'
    BY SMTT(30) DEF UserInputRequired, Interrupt, Goto, ClearedInv, TypeOK, Asked, Approvable
  <1>8. QED BY <1>1, <1>2, <1>3, <1>4, <1>5, <1>6, <1>7

\* A batch that is refused ends the run.
LEMMA RejectToolStep ==
    ASSUME IInv, RejectTool
    PROVE  IInv'
  <1> USE PolicyType, BatchBounds DEF IInv, counters, env, ghost
  <1>1. TypeOK'
    BY DEF RejectTool, TypeOK, Node, StopReason
  <1>2. SliceInv'
    BY DEF RejectTool, SliceInv, TypeOK
  <1>3. ModelInv'
    BY DEF RejectTool, ModelInv, TypeOK, InRound
  <1>4. ToolInv'
    BY DEF RejectTool, ToolInv, TypeOK
  <1>5. FailureInv'
    BY DEF RejectTool, FailureInv, ReasonInv, TypeOK
  <1>6. ReasonInv'
    BY DEF RejectTool, ClearedInv, ReasonInv, SliceInv, TypeOK, Asked, ElapsedLimit
  <1>7. ClearedInv'
    BY DEF RejectTool, ClearedInv, TypeOK, Asked, Approvable
  <1>8. QED BY <1>1, <1>2, <1>3, <1>4, <1>5, <1>6, <1>7

\* A call of a cleared batch.
LEMMA RunToolStep ==
    ASSUME IInv, RunTool
    PROVE  IInv'
  <1> USE PolicyType, BatchBounds DEF IInv, counters, env, ghost
  <1>1. TypeOK'
    <2>1. PICK o \in Observation : answers' = Append(answers, o)
      BY DEF RunTool, Observation
    <2>2. answers' \in Seq(Observation) /\ Len(answers') = Len(answers) + 1
      BY <2>1, AppendProperties DEF TypeOK
    <2>3. executed' \in Nat
      BY DEF RunTool, TypeOK
    <2>4. QED BY <2>2, <2>3 DEF RunTool, TypeOK
  <1>2. SliceInv'
    BY DEF RunTool, SliceInv, TypeOK
  <1>3. ModelInv'
    BY DEF RunTool, ModelInv, TypeOK, InRound
  <1>4. ToolInv'
    BY AppendProperties, SMTT(30) DEF RunTool, ToolInv, TypeOK, Observation
  <1>5. FailureInv'
    BY DEF RunTool, FailureInv, ReasonInv, TypeOK
  <1>6. ReasonInv'
    BY DEF RunTool, ReasonInv, SliceInv, TypeOK, Asked, ElapsedLimit
  <1>7. ClearedInv'
    BY DEF RunTool, ClearedInv, TypeOK, Asked, Approvable
  <1>8. QED BY <1>1, <1>2, <1>3, <1>4, <1>5, <1>6, <1>7

\* The answers of a batch are counted.
LEMMA RecordToolMessagesStep ==
    ASSUME IInv, RecordToolMessages
    PROVE  IInv'
  <1> USE PolicyType, BatchBounds DEF IInv, counters, env, ghost
  <1>1. TypeOK'
    <2>1. /\ tool_calls' \in Nat /\ evidence' \in Nat /\ failure_count' \in Nat
          /\ argument_rounds' \in Nat
      <3> DEFINE ok == Cardinality(Answered("ok"))
                 errors == Cardinality(Answered("tool_execution_error"))
                 n == Len(answers)
      <3>1. n \in Nat /\ ok \in Nat /\ errors \in Nat
        BY LenProperties DEF TypeOK
      <3>2. /\ tool_calls' = tool_calls + n /\ evidence' = evidence + ok
            /\ failure_count' = failure_count + errors
        BY DEF RecordToolMessages
      <3> HIDE DEF ok, errors, n
      <3>3. tool_calls' \in Nat /\ evidence' \in Nat /\ failure_count' \in Nat
        BY <3>1, <3>2 DEF TypeOK
      <3>4. argument_rounds' \in Nat
        BY DEF RecordToolMessages, TypeOK
      <3>5. QED BY <3>3, <3>4
    <2>2. stop_reason' \in StopReason \cup {"none"}
      BY DEF RecordToolMessages, TypeOK, StopReason
    <2>3. QED BY <2>1, <2>2 DEF RecordToolMessages, TypeOK, Node
  <1>2. SliceInv'
    BY DEF RecordToolMessages, SliceInv, TypeOK
  <1>3. ModelInv'
    BY DEF RecordToolMessages, ModelInv, TypeOK, InRound
  <1>4. ToolInv'
    BY DEF RecordToolMessages, ToolInv, TypeOK
  <1>5. FailureInv'
    <2> DEFINE invalid == Answered("tool_argument_error") # {}
    <2>1. /\ failure_count < policy.max_failures /\ stop_reason = "none"
          /\ argument_rounds <= policy.max_tool_argument_corrections
      BY DEF RecordToolMessages, FailureInv, ReasonInv
    <2>2. failure_count' \in Nat /\ argument_rounds' \in {argument_rounds, argument_rounds + 1}
      BY <1>1 DEF RecordToolMessages, TypeOK
    <2>3. argument_rounds' > policy.max_tool_argument_corrections => invalid
      BY <2>1, SMTT(30) DEF RecordToolMessages, TypeOK
    <2>4. stop_reason' = IF invalid /\ argument_rounds' > policy.max_tool_argument_corrections
                         THEN "tool_argument_error"
                         ELSE IF failure_count' >= policy.max_failures
                              THEN "repeated_failure" ELSE "none"
      BY <2>1 DEF RecordToolMessages
    <2>5. node' = "increment_loop" /\ UNCHANGED policy
      BY DEF RecordToolMessages
    <2> HIDE DEF invalid
    <2>6. QED BY <2>1, <2>2, <2>3, <2>4, <2>5, SMTT(30) DEF FailureInv, TypeOK
  <1>6. ReasonInv'
    BY DEF RecordToolMessages, ReasonInv, SliceInv, TypeOK, Asked, ElapsedLimit
  <1>7. ClearedInv'
    BY DEF RecordToolMessages, ClearedInv, TypeOK, Asked, Approvable
  <1>8. QED BY <1>1, <1>2, <1>3, <1>4, <1>5, <1>6, <1>7

\* The next round, or the end.
LEMMA IncrementLoopStep ==
    ASSUME IInv, IncrementLoop
    PROVE  IInv'
  <1> USE PolicyType, BatchBounds DEF IInv, counters, env, ghost
  <1>1. TypeOK'
    BY DEF IncrementLoop, LoopStepLimit, TypeOK, Node, StopReason
  <1>2. SliceInv'
    BY DEF IncrementLoop, LoopStepLimit, SliceInv, TypeOK
  <1>3. ModelInv'
    BY DEF IncrementLoop, LoopStepLimit, ModelInv, ReasonInv, TypeOK, InRound
  <1>4. ToolInv'
    BY DEF IncrementLoop, LoopStepLimit, ToolInv, TypeOK
  <1>5. FailureInv'
    BY DEF IncrementLoop, LoopStepLimit, FailureInv, ReasonInv, TypeOK
  <1>6. ReasonInv'
    BY DEF IncrementLoop, LoopStepLimit, FailureInv, ModelInv, ReasonInv, SliceInv,
           TypeOK, Asked, ElapsedLimit, InRound
  <1>7. ClearedInv'
    BY DEF IncrementLoop, LoopStepLimit, ClearedInv, TypeOK, Asked, Approvable
  <1>8. QED BY <1>1, <1>2, <1>3, <1>4, <1>5, <1>6, <1>7

\* An operator or a user answers: the checkpoint keeps the counters.
LEMMA ResumeStep ==
    ASSUME IInv, Resume
    PROVE  IInv'
  <1> USE PolicyType, BatchBounds DEF IInv, counters, env, ghost
  <1>1. TypeOK'
    <2>1. replies + 1 \in 0..MaxBatch
      BY BatchAssumption DEF Resume, TypeOK, SliceInv, ClearedInv
    <2>2. QED BY <2>1 DEF Resume, TypeOK
  <1>2. SliceInv'
    BY DEF Resume, SliceInv, TypeOK
  <1>3. ModelInv'
    BY DEF Resume, ModelInv, TypeOK, InRound
  <1>4. ToolInv'
    BY DEF Resume, ToolInv, TypeOK
  <1>5. FailureInv'
    BY DEF Resume, FailureInv, TypeOK
  <1>6. ReasonInv'
    BY DEF Resume, ReasonInv, SliceInv, TypeOK, Asked, ElapsedLimit
  <1>7. ClearedInv'
    BY DEF Resume, ClearedInv, SliceInv, TypeOK, Asked, Approvable
  <1>8. QED BY <1>1, <1>2, <1>3, <1>4, <1>5, <1>6, <1>7

\* The deadline passes.
LEMMA ExpireStep ==
    ASSUME IInv, Expire
    PROVE  IInv'
  <1> USE PolicyType, BatchBounds DEF IInv, counters, env, ghost
  <1>1. TypeOK'
    BY DEF Expire, TypeOK
  <1>2. SliceInv'
    BY DEF Expire, SliceInv, TypeOK
  <1>3. ModelInv'
    BY DEF Expire, ModelInv, TypeOK, InRound
  <1>4. ToolInv'
    BY DEF Expire, ToolInv, TypeOK
  <1>5. FailureInv'
    BY DEF Expire, FailureInv, TypeOK
  <1>6. ReasonInv'
    BY DEF Expire, ReasonInv, TypeOK, Asked, ElapsedLimit
  <1>7. ClearedInv'
    BY DEF Expire, ClearedInv, TypeOK, Asked, Approvable
  <1>8. QED BY <1>1, <1>2, <1>3, <1>4, <1>5, <1>6, <1>7

\* A cancellation is requested.
LEMMA RequestCancellationStep ==
    ASSUME IInv, RequestCancellation
    PROVE  IInv'
  <1> USE PolicyType, BatchBounds DEF IInv, counters, env, ghost
  <1>1. TypeOK'
    BY DEF RequestCancellation, TypeOK
  <1>2. SliceInv'
    BY DEF RequestCancellation, SliceInv, TypeOK
  <1>3. ModelInv'
    BY DEF RequestCancellation, ModelInv, TypeOK, InRound
  <1>4. ToolInv'
    BY DEF RequestCancellation, ToolInv, TypeOK
  <1>5. FailureInv'
    BY DEF RequestCancellation, FailureInv, TypeOK
  <1>6. ReasonInv'
    BY DEF RequestCancellation, ReasonInv, TypeOK, Asked, ElapsedLimit
  <1>7. ClearedInv'
    BY DEF RequestCancellation, ClearedInv, TypeOK, Asked, Approvable
  <1>8. QED BY <1>1, <1>2, <1>3, <1>4, <1>5, <1>6, <1>7

------------------------------------------------------------------------------
\* Every step preserves the invariant.
LEMMA Step ==
    ASSUME IInv, [Next]_vars
    PROVE  IInv'
  <1>1. CASE UNCHANGED vars
    <2> USE <1>1 DEF vars, counters, env, ghost, IInv
    <2>1. TypeOK' /\ SliceInv' /\ ModelInv' /\ ToolInv' /\ FailureInv'
      BY DEF TypeOK, SliceInv, ModelInv, ToolInv, FailureInv
    <2>2. ReasonInv' /\ ClearedInv'
      BY SameBatch DEF ReasonInv, ElapsedLimit, ClearedInv
    <2>3. QED BY <2>1, <2>2
  <1>2. QED
    BY <1>1, CallModelStep, ModelFailsStep, ModelAnswersStep, CheckPermissionStep,
       ApprovalRequiredStep, UserInputRequiredStep, RejectToolStep, RunToolStep,
       RecordToolMessagesStep, IncrementLoopStep, ResumeStep, ExpireStep,
       RequestCancellationStep
       DEF Next, Worker

\* The invariant of the loop holds of every behaviour.
THEOREM InductiveInvariant == Spec => []IInv
  <1>1. Init => IInv
    <2> SUFFICES ASSUME Init PROVE IInv
      OBVIOUS
    <2>1. TypeOK
      <3>1. batch \in Seq(CallKind) /\ answers \in Seq(Observation)
              /\ Len(batch) = 0 /\ Len(answers) = 0
        BY EmptySeq DEF Init
      <3>2. {rejected, final_answer, expired, canceled} \subseteq BOOLEAN
        BY DEF Init
      <3>3. node \in Node /\ stop_reason \in StopReason \cup {"none"}
        BY DEF Init, Node, StopReason
      <3>4. Len(batch) <= MaxBatch /\ Len(answers) <= Len(batch) /\ replies \in 0..MaxBatch
        BY <3>1, BatchAssumption DEF Init
      <3>5. QED BY <3>1, <3>2, <3>3, <3>4 DEF Init, TypeOK
    <2>2. SliceInv /\ ModelInv /\ ToolInv /\ FailureInv
      BY <2>1, PolicyType DEF Init, SliceInv, ModelInv, ToolInv, FailureInv, InRound
    <2>3. ReasonInv /\ ClearedInv
      BY DEF Init, ReasonInv, ClearedInv
    <2>4. QED BY <2>1, <2>2, <2>3 DEF IInv
  <1>2. QED BY <1>1, Step, PTL DEF Spec

\* The work a Task does stays within its policy, for every policy and every
\* sequence of pauses (execution.py, nodes.py).
THEOREM PolicyBoundsWork == Spec => []WorkWithinPolicy
  <1>1. IInv => WorkWithinPolicy
    <2> SUFFICES ASSUME IInv PROVE WorkWithinPolicy
      OBVIOUS
    <2> USE PolicyType DEF IInv, TypeOK
    <2>1. /\ invoked <= policy.max_model_calls /\ invoked <= policy.max_loop_steps
          /\ loop_index <= policy.max_loop_steps + 1 /\ invoked - model_calls \in {0, 1}
      BY DEF ModelInv, InRound, Node
    <2>2. executed <= policy.max_tool_calls /\ tool_calls <= policy.max_tool_calls
      BY LenProperties DEF ToolInv
    <2>3. argument_rounds <= policy.max_tool_argument_corrections + 1
      BY DEF FailureInv
    <2>4. node \in {"check_permission", "approval_required", "user_input_required", "tools"}
            => invoked = model_calls /\ invoked = loop_index
      BY DEF ModelInv, InRound
    <2>5. QED BY <2>1, <2>2, <2>3, <2>4 DEF WorkWithinPolicy
  <1>2. QED BY <1>1, InductiveInvariant, PTL

\* A slice that ends gives a reason that holds (_stop_reason_from_state).
THEOREM ReasonsHold == Spec => []StopIsDue
  <1>1. IInv => StopIsDue
    <2> SUFFICES ASSUME IInv, slice \in {"interrupted", "finished"} PROVE StopIsDue
      BY DEF StopIsDue
    <2>1. stop_reason # "none" /\ ReportedReason = stop_reason
      BY DEF IInv, ReasonInv, SliceInv, ReportedReason
    <2>2. RunStatus = "completed" <=> stop_reason \in {"completed", "policy_blocked"}
      BY DEF IInv, ReasonInv, SliceInv, RunStatus
    <2>3. RunStatus = "interrupted" <=>
            stop_reason \in {"input_required", "approval_required"}
      BY DEF IInv, ReasonInv, SliceInv, RunStatus
    <2>4. ResidualRisks = 0 =>
            RunStatus = "completed" /\ evidence = tool_calls /\ evidence > 0
      <3> SUFFICES ASSUME ResidualRisks = 0
                   PROVE  RunStatus = "completed" /\ evidence = tool_calls /\ evidence > 0
        OBVIOUS
      <3>1. evidence \in Nat /\ tool_calls \in Nat /\ evidence <= tool_calls
        BY DEF IInv, TypeOK, ToolInv
      <3>2. /\ evidence = tool_calls
            /\ stop_reason \in {"completed", "policy_blocked"}
            /\ ~(final_answer /\ tool_calls = 0)
        BY <2>1, <3>1 DEF ResidualRisks
      <3>3. final_answer
        BY <3>2 DEF IInv, ReasonInv, SliceInv
      <3>4. QED BY <2>2, <3>1, <3>2, <3>3
    <2>5. stop_reason = "input_required" => Asked("request_user_input")
      BY DEF IInv, ReasonInv, ClearedInv, SliceInv
    <2>6. stop_reason = "approval_required" => replies < Cardinality(Approvable)
      BY DEF IInv, ReasonInv, ClearedInv, SliceInv
    <2>7. QED
      BY <2>1, <2>2, <2>3, <2>4, <2>5, <2>6
         DEF StopIsDue, IInv, ReasonInv, FailureInv, TypeOK, StopReason
  <1>2. QED BY <1>1, InductiveInvariant, PTL

\* Work starts only in a round that has every permission (check_permission,
\* approval_required, tool_call_wrapper).
THEOREM WorkIsPermitted == Spec => WorkOnlyWhenPermitted
  <1> DEFINE Permitted ==
        /\ invoked' > invoked =>
             /\ ~canceled /\ ~ElapsedLimit
             /\ failure_count < policy.max_failures
             /\ argument_rounds <= policy.max_tool_argument_corrections
             /\ stop_reason = "none"
        /\ executed' > executed =>
             /\ ~canceled /\ ~rejected
             /\ ~Asked("denied") /\ ~Asked("request_user_input")
             /\ replies >= Cardinality(Approvable)
             /\ tool_calls + Len(batch) <= policy.max_tool_calls
             /\ stop_reason = "none"
  <1>1. ASSUME IInv, Next
        PROVE  Permitted
    <2>1. invoked \in Nat /\ executed \in Nat
      BY <1>1 DEF IInv, TypeOK
    <2>2. CASE CallModel
      <3>1. CASE UNCHANGED ghost
        BY <2>1, <3>1 DEF ghost
      <3>2. CASE CancellationOr(ModelCallLimit) = "none" /\ UNCHANGED executed
        <4>1. ~canceled /\ ~ElapsedLimit
          BY <3>2 DEF CancellationOr, ModelCallLimit
        <4>2. /\ failure_count < policy.max_failures /\ stop_reason = "none"
              /\ argument_rounds <= policy.max_tool_argument_corrections
          BY <1>1, <2>2 DEF CallModel, IInv, FailureInv, ReasonInv
        <4>3. QED BY <2>1, <3>2, <4>1, <4>2
      <3>3. QED BY <2>2, <3>1, <3>2 DEF CallModel
    <2>3. CASE RunTool
      <3>1. UNCHANGED invoked
        BY <2>3 DEF RunTool
      <3>2. executed' > executed => ~canceled
        BY <2>1, <2>3 DEF RunTool
      <3>3. /\ ~rejected /\ ~Asked("denied") /\ ~Asked("request_user_input")
            /\ replies >= Cardinality(Approvable)
            /\ tool_calls + Len(batch) <= policy.max_tool_calls
            /\ stop_reason = "none"
        BY <1>1, <2>3 DEF RunTool, IInv, ClearedInv, ToolInv, ReasonInv
      <3>4. QED BY <2>1, <3>1, <3>2, <3>3
    <2>4. CASE UNCHANGED ghost
      BY <2>1, <2>4 DEF ghost
    <2>5. CallModel \/ RunTool \/ UNCHANGED ghost
      BY <1>1 DEF Next, Worker, ModelFails, ModelAnswers, CheckPermission,
                  ApprovalRequired, UserInputRequired, RejectTool,
                  RecordToolMessages, IncrementLoop, Resume, Expire,
                  RequestCancellation, Raise, Goto, Interrupt, ghost
    <2>6. QED BY <2>2, <2>3, <2>4, <2>5
  <1>2. IInv /\ [Next]_vars => [Permitted]_vars
    BY <1>1
  <1>3. QED BY <1>2, InductiveInvariant, PTL DEF Spec, WorkOnlyWhenPermitted

==============================================================================
