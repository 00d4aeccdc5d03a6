------------------------ MODULE LocalExecution_proofs ------------------------
(***************************************************************************)
(* Theorems about LocalExecution, for every set of tasks, workers and      *)
(* request threads and every bound.                                        *)
(***************************************************************************)
EXTENDS LocalExecution, TLAPS

\* What a record_* transaction of TaskOutcomeRecorder can do to the rows of t.
RowEffect(t) ==
    \/ status[t] \in TerminalStatus /\ UNCHANGED durable
    \/ /\ status[t] \notin TerminalStatus
       /\ \E s \in TerminalStatus : Close(t, s)
    \/ /\ status[t] \notin TerminalStatus \cup {"cancel_requested"}
       /\ \E kind \in RequestKind : RecordInterrupted(t, kind)

\* Recording a failure leaves the rows alone or closes the Task.
LEMMA RecordFailureEffect ==
    ASSUME NEW t, RecordFailure(t) \/ RecordRecoveryFailure(t)
    PROVE  RowEffect(t)
  BY DEF RecordFailure, RecordRecoveryFailure, RowEffect, TerminalStatus

\* Recording a result leaves the rows alone, closes the Task, or stores a
\* continuation.
LEMMA RecordResultEffect ==
    ASSUME NEW t, NEW result, RecordResult(t, result)
    PROVE  RowEffect(t)
  <1>1. CASE RecordFailure(t)
    BY <1>1, RecordFailureEffect
  <1>2. CASE /\ status[t] \notin TerminalStatus \cup {"cancel_requested"}
             /\ result = "completed" /\ Close(t, "completed")
    BY <1>2 DEF RowEffect, TerminalStatus
  <1>3. CASE /\ status[t] \notin TerminalStatus \cup {"cancel_requested"}
             /\ result \in RequestKind /\ RecordInterrupted(t, result)
    BY <1>3 DEF RowEffect
  <1>4. QED BY <1>1, <1>2, <1>3 DEF RecordResult

\* The rows stay well typed when a Task is closed ...
LEMMA CloseType ==
    ASSUME RowsType, NEW t, NEW s \in TaskStatus, Close(t, s)
    PROVE  RowsType'
  BY DEF RowsType, Close

\* ... and under every effect of a recorded outcome.
LEMMA RowEffectType ==
    ASSUME RowsType, NEW t, RowEffect(t)
    PROVE  RowsType'
  <1>1. CASE UNCHANGED durable
    BY <1>1 DEF durable, RowsType
  <1>2. CASE \E s \in TerminalStatus : Close(t, s)
    BY <1>2, CloseType DEF TerminalStatus, TaskStatus
  <1>3. ASSUME NEW kind \in RequestKind, RecordInterrupted(t, kind)
        PROVE  RowsType'
    <2>1. WaitingFor(kind) \in TaskStatus
      BY DEF WaitingFor, TaskStatus
    <2>2. QED BY <1>3, <2>1 DEF RecordInterrupted, RowsType
  <1>4. QED BY <1>1, <1>2, <1>3 DEF RowEffect

\* A thread moves to a new place, with a task exactly when it is not idle.
LEMMA GotoType ==
    ASSUME RequestsType, NEW r \in Threads, NEW pc \in RequestPc,
           NEW t \in Tasks \cup {NoTask}, pc = "idle" <=> t = NoTask,
           Goto(r, pc, t)
    PROVE  RequestsType'
  BY DEF RequestsType, Goto

\* A thread that is not idle has a task.
LEMMA ThreadTask ==
    ASSUME RequestsType, NEW r \in Threads, rpc[r] # "idle"
    PROVE  rtask[r] \in Tasks
  BY DEF RequestsType

LEMMA WorkerTask ==
    ASSUME WorkersType, NEW w \in Workers, wpc[w] # "idle"
    PROVE  wtask[w] \in Tasks
  BY DEF WorkersType

\* A worker moves on with its task.
LEMMA StepToType ==
    ASSUME WorkersType, NEW w \in Workers, wpc[w] # "idle",
           NEW pc \in WorkerPc \ {"idle"}, NEW result \in WorkerResult,
           StepTo(w, pc, result)
    PROVE  WorkersType'
  BY DEF WorkersType, StepTo

\* A step that only moves a request thread.
LEMMA DoneType ==
    ASSUME RequestsType, NEW r \in Threads, Done(r)
    PROVE  RequestsType'
  BY GotoType DEF Done, RequestPc

-----------------------------------------------------------------------------
\* Type correctness of every step.
LEMMA TypeStep ==
    ASSUME TypeOK, [Next]_vars
    PROVE  TypeOK'
  <1> USE ConstantsAssumption
  <1> USE DEF durable, adapter, workers, requests, boot, history
  <1>1. ASSUME NEW r \in Requests, NEW t \in Tasks, AcceptTask(r, t)
        PROVE  TypeOK'
    <2>1. RowsType'
      BY <1>1 DEF AcceptTask, TypeOK, RowsType, TaskStatus, CommandKind
    <2>2. RequestsType'
      BY <1>1, GotoType DEF AcceptTask, TypeOK, Threads, RequestPc
    <2>3. WorkersType'
      BY <1>1 DEF AcceptTask, TypeOK, WorkersType
    <2>4. QED BY <1>1, <2>1, <2>2, <2>3 DEF AcceptTask, TypeOK
  <1>2. ASSUME NEW r \in Requests, NEW t \in Tasks, NEW kind \in RequestKind,
               AcceptContinuation(r, t, kind)
        PROVE  TypeOK'
    <2>1. RowsType'
      BY <1>2 DEF AcceptContinuation, TypeOK, RowsType, TaskStatus, CommandKind
    <2>2. RequestsType'
      BY <1>2, GotoType DEF AcceptContinuation, TypeOK, Threads, RequestPc
    <2>3. WorkersType'
      BY <1>2 DEF AcceptContinuation, TypeOK, WorkersType
    <2>4. QED BY <1>2, <2>1, <2>2, <2>3 DEF AcceptContinuation, TypeOK
  <1>3. ASSUME NEW r \in Requests, NEW t \in Tasks, CancelTask(r, t)
        PROVE  TypeOK'
    <2>1. RowsType'
      <3>1. CASE Close(t, "canceled")
        BY <3>1, CloseType DEF TypeOK, TaskStatus
      <3>2. CASE /\ status' = [status EXCEPT ![t] = "cancel_requested"]
                 /\ UNCHANGED <<queued, pending>>
        BY <3>2 DEF TypeOK, RowsType, TaskStatus
      <3>3. CASE UNCHANGED durable
        BY <3>3 DEF TypeOK, RowsType
      <3>4. QED BY <1>3, <3>1, <3>2, <3>3 DEF CancelTask
    <2>2. RequestsType'
      <3>1. CASE Goto(r, "signal", t)
        BY <3>1, GotoType DEF TypeOK, Threads, RequestPc
      <3>2. CASE UNCHANGED requests
        BY <3>2 DEF TypeOK, RequestsType
      <3>3. QED BY <1>3, <3>1, <3>2 DEF CancelTask
    <2>3. WorkersType'
      BY <1>3 DEF CancelTask, TypeOK, WorkersType
    <2>4. QED BY <1>3, <2>1, <2>2, <2>3 DEF CancelTask, TypeOK
  <1>4. ASSUME NEW r \in Threads, RequestStep(r)
        PROVE  TypeOK'
    <2>1. CASE Wake(r)
      <3>1. rtask[r] \in Tasks
        BY <2>1, ThreadTask DEF Wake, TypeOK
      <3>2. RequestsType'
        <4>1. CASE Done(r)
          BY <4>1, DoneType DEF TypeOK
        <4>2. CASE Goto(r, "submit", rtask[r])
          BY <3>1, <4>2, GotoType DEF TypeOK, RequestPc
        <4>3. QED BY <2>1, <4>1, <4>2 DEF Wake
      <3>3. RowsType' /\ WorkersType'
        BY <2>1 DEF Wake, TypeOK, RowsType, WorkersType
      <3>4. QED BY <2>1, <3>1, <3>2, <3>3 DEF Wake, TypeOK
    <2>2. CASE Submit(r)
      <3>1. rtask[r] \in Tasks
        BY <2>2, ThreadTask DEF Submit, TypeOK
      <3>2. RequestsType'
        BY <2>2, DoneType DEF Submit, TypeOK
      <3>3. RowsType' /\ WorkersType'
        BY <2>2 DEF Submit, TypeOK, RowsType, WorkersType
      <3>4. QED BY <2>2, <3>1, <3>2, <3>3 DEF Submit, TypeOK
    <2>3. CASE SubmitRaises(r)
      <3>1. rtask[r] \in Tasks
        BY <2>3, ThreadTask DEF SubmitRaises, TypeOK
      <3>2. RequestsType'
        BY <2>3, <3>1, GotoType DEF SubmitRaises, TypeOK, RequestPc
      <3>3. RowsType' /\ WorkersType'
        BY <2>3 DEF SubmitRaises, TypeOK, RowsType, WorkersType
      <3>4. QED BY <2>3, <3>2, <3>3 DEF SubmitRaises, TypeOK
    <2>4. CASE RecordSubmitFailure(r)
      <3>1. RowsType'
        BY <2>4, RecordFailureEffect, RowEffectType DEF RecordSubmitFailure, TypeOK
      <3>2. RequestsType'
        BY <2>4, DoneType DEF RecordSubmitFailure, TypeOK
      <3>3. WorkersType'
        BY <2>4 DEF RecordSubmitFailure, TypeOK, WorkersType
      <3>4. QED BY <2>4, <3>1, <3>2, <3>3 DEF RecordSubmitFailure, TypeOK
    <2>5. CASE SignalCancellation(r)
      <3>1. RequestsType'
        BY <2>5, DoneType DEF SignalCancellation, TypeOK
      <3>2. RowsType' /\ WorkersType'
        BY <2>5 DEF SignalCancellation, TypeOK, RowsType, WorkersType
      <3>3. QED BY <2>5, <3>1, <3>2 DEF SignalCancellation, TypeOK
    <2>6. QED BY <1>4, <2>1, <2>2, <2>3, <2>4, <2>5 DEF RequestStep
  <1>5. ASSUME NEW w \in Workers, WorkerStep(w)
        PROVE  TypeOK'
    <2> USE DEF WorkerPc, WorkerResult, SliceOutcome
    <2>1. CASE TakeJob(w)
      <3>1. Head(pool) \in Tasks /\ Tail(pool) \in Seq(Tasks)
        BY <2>1 DEF TakeJob, TypeOK
      <3>2. WorkersType'
        BY <2>1, <3>1 DEF TakeJob, TypeOK, WorkersType
      <3>3. RowsType' /\ RequestsType'
        BY <2>1 DEF TakeJob, TypeOK, RowsType, RequestsType
      <3>4. QED BY <2>1, <3>1, <3>2, <3>3 DEF TakeJob, TypeOK
    <2>2. CASE EnterActive(w)
      <3>1. wtask[w] \in Tasks /\ WorkersType'
        BY <2>2, WorkerTask, StepToType DEF EnterActive, TypeOK
      <3>2. RowsType' /\ RequestsType'
        BY <2>2 DEF EnterActive, TypeOK, RowsType, RequestsType
      <3>3. QED BY <2>2, <3>1, <3>2 DEF EnterActive, TypeOK
    <2>3. CASE Claim(w)
      <3>1. wtask[w] \in Tasks /\ WorkersType'
        BY <2>3, WorkerTask, StepToType DEF Claim, TypeOK
      <3>2. RowsType'
        BY <2>3, ZenonT(30) DEF Claim, TypeOK, RowsType, TaskStatus
      <3>3. RequestsType'
        BY <2>3 DEF Claim, TypeOK, RequestsType
      <3>4. claimed' \in [Tasks -> Nat]
        BY <2>3 DEF Claim, TypeOK
      <3>5. QED BY <2>3, <3>1, <3>2, <3>3, <3>4 DEF Claim, TypeOK
    <2>4. CASE RaiseBeforeRun(w)
      <3>1. WorkersType'
        BY <2>4, StepToType DEF RaiseBeforeRun, TypeOK
      <3>2. RowsType' /\ RequestsType'
        BY <2>4 DEF RaiseBeforeRun, TypeOK, RowsType, RequestsType
      <3>3. QED BY <2>4, <3>1, <3>2 DEF RaiseBeforeRun, TypeOK
    <2>5. CASE Activate(w)
      <3>1. WorkersType'
        BY <2>5, StepToType DEF Activate, TypeOK
      <3>2. RowsType' /\ RequestsType'
        BY <2>5 DEF Activate, TypeOK, RowsType, RequestsType
      <3>3. QED BY <2>5, <3>1, <3>2 DEF Activate, TypeOK
    <2>6. ASSUME NEW outcome \in SliceOutcome, FinishSlice(w, outcome)
          PROVE  TypeOK'
      <3>1. WorkersType'
        BY <2>6, StepToType DEF FinishSlice, TypeOK
      <3>2. RowsType' /\ RequestsType'
        BY <2>6 DEF FinishSlice, TypeOK, RowsType, RequestsType
      <3>3. QED BY <2>6, <3>1, <3>2 DEF FinishSlice, TypeOK
    <2>7. CASE ExitActive(w)
      <3>1. WorkersType'
        <4>1. wresult[w] \in WorkerResult
          BY DEF TypeOK, WorkersType
        <4>2. QED BY <2>7, <4>1, StepToType DEF ExitActive, TypeOK
      <3>2. RowsType' /\ RequestsType'
        BY <2>7 DEF ExitActive, TypeOK, RowsType, RequestsType
      <3>3. QED BY <2>7, <3>1, <3>2 DEF ExitActive, TypeOK
    <2>8. CASE RecordOutcome(w)
      <3>1. RowsType'
        BY <2>8, RecordFailureEffect, RecordResultEffect, RowEffectType
           DEF RecordOutcome, TypeOK
      <3>2. WorkersType'
        <4>1. wresult[w] \in WorkerResult
          BY DEF TypeOK, WorkersType
        <4>2. QED BY <2>8, <4>1, StepToType DEF RecordOutcome, TypeOK
      <3>3. RequestsType'
        BY <2>8 DEF RecordOutcome, TypeOK, RequestsType
      <3>4. QED BY <2>8, <3>1, <3>2, <3>3 DEF RecordOutcome, TypeOK
    <2>9. CASE ForgetScheduled(w)
      <3>1. WorkersType'
        BY <2>9 DEF ForgetScheduled, TypeOK, WorkersType
      <3>2. RowsType' /\ RequestsType'
        BY <2>9 DEF ForgetScheduled, TypeOK, RowsType, RequestsType
      <3>3. QED BY <2>9, <3>1, <3>2 DEF ForgetScheduled, TypeOK
    <2>10. QED
      BY <1>5, <2>1, <2>2, <2>3, <2>4, <2>5, <2>6, <2>7, <2>8, <2>9 DEF WorkerStep
  <1>6. CASE BootStep
    <2>1. CASE StartReconciliation
      BY <2>1 DEF StartReconciliation, TypeOK, RowsType, WorkersType, RequestsType, Phase
    <2>2. ASSUME NEW t \in Tasks, FailInterrupted(t)
          PROVE  TypeOK'
      <3>1. RowsType'
        BY <2>2, RecordFailureEffect, RowEffectType DEF FailInterrupted, TypeOK
      <3>2. WorkersType' /\ RequestsType'
        BY <2>2 DEF FailInterrupted, TypeOK, WorkersType, RequestsType
      <3>3. QED BY <2>2, <3>1, <3>2 DEF FailInterrupted, TypeOK
    <2>3. CASE ListQueued
      BY <2>3 DEF ListQueued, TypeOK, RowsType, WorkersType, RequestsType, Phase
    <2>4. ASSUME NEW t \in Tasks, RecoverQueued(t)
          PROVE  TypeOK'
      <3>1. RowsType'
        <4>1. CASE RecordRecoveryFailure(t)
          BY <4>1, RecordFailureEffect, RowEffectType DEF TypeOK
        <4>2. CASE UNCHANGED durable
          BY <4>2 DEF TypeOK, RowsType
        <4>3. QED BY <2>4, <4>1, <4>2 DEF RecoverQueued
      <3>2. RequestsType'
        <4>1. CASE Goto(Boot, "wake", t)
          BY <4>1, GotoType DEF TypeOK, Threads, RequestPc
        <4>2. CASE UNCHANGED requests
          BY <4>2 DEF TypeOK, RequestsType
        <4>3. QED BY <2>4, <4>1, <4>2 DEF RecoverQueued
      <3>3. WorkersType'
        BY <2>4 DEF RecoverQueued, TypeOK, WorkersType
      <3>4. QED BY <2>4, <3>1, <3>2, <3>3 DEF RecoverQueued, TypeOK
    <2>5. CASE Serve
      BY <2>5 DEF Serve, TypeOK, RowsType, WorkersType, RequestsType, Phase
    <2>6. QED BY <1>6, <2>1, <2>2, <2>3, <2>4, <2>5 DEF BootStep
  <1>7. CASE Crash
    BY <1>7 DEF Crash, TypeOK, RowsType, WorkersType, RequestsType, Phase, WorkerPc,
                WorkerResult, RequestPc
  <1>8. CASE UNCHANGED vars
    BY <1>8 DEF vars, TypeOK, RowsType, WorkersType, RequestsType
  <1>9. QED
    BY <1>1, <1>2, <1>3, <1>4, <1>5, <1>6, <1>7, <1>8 DEF Next, ClientStep

\* Every reachable state is well typed.
THEOREM TypeCorrect == Spec => []TypeOK
  <1>1. Init => TypeOK
    BY ConstantsAssumption DEF Init, TypeOK, RowsType, WorkersType, RequestsType,
       WorkerPc, WorkerResult, RequestPc, Phase
  <1>2. TypeOK /\ [Next]_vars => TypeOK'
    BY TypeStep
  <1>3. QED BY <1>1, <1>2, PTL DEF Spec

-----------------------------------------------------------------------------
(***************************************************************************)
(* The durable rows move together                                          *)
(***************************************************************************)

\* The rows of one Task agree with each other and with its history.
RowInv(t) ==
    /\ status[t] = "queued" <=> queued[t] # "none"
    /\ status[t] = "auth_required" <=> pending[t] = "approval_required"
    /\ status[t] = "input_required" <=> pending[t] = "user_input_required"
    /\ claimed[t] + (IF queued[t] = "none" THEN 0 ELSE 1) <= accepted[t]

RowsInv == QueuedIffCommand /\ WaitingIffPending /\ ClaimedAtMostOnce

LEMMA RowsInvPerTask == RowsInv <=> \A t \in Tasks : RowInv(t)
  BY DEF RowsInv, QueuedIffCommand, WaitingIffPending, ClaimedAtMostOnce, RowInv

\* Nothing but the rows of t changes.
OnlyRow(t) ==
    \A u \in Tasks \ {t} :
        /\ status'[u] = status[u]
        /\ queued'[u] = queued[u]
        /\ pending'[u] = pending[u]
        /\ accepted'[u] = accepted[u]
        /\ claimed'[u] = claimed[u]

LEMMA OnlyRowInv ==
    ASSUME RowsInv, NEW t, OnlyRow(t), t \in Tasks => RowInv(t)'
    PROVE  RowsInv'
  <1>1. \A u \in Tasks : RowInv(u)
    BY RowsInvPerTask
  <1>2. ASSUME NEW u \in Tasks PROVE RowInv(u)'
    <2>1. CASE u = t
      BY <2>1
    <2>2. CASE u # t
      BY <1>1, <2>2 DEF OnlyRow, RowInv
    <2>3. QED BY <2>1, <2>2
  <1>3. QED
    BY <1>2 DEF RowsInv, QueuedIffCommand, WaitingIffPending, ClaimedAtMostOnce, RowInv

\* Closing a Task, or storing a continuation for it, keeps its rows together.
LEMMA RowEffectInv ==
    ASSUME TypeOK, RowsInv, NEW t \in Tasks, RowEffect(t), UNCHANGED <<accepted, claimed>>
    PROVE  RowsInv'
  <1>1. RowInv(t)
    BY RowsInvPerTask
  <1>2. CASE UNCHANGED durable
    BY <1>2 DEF durable, RowsInv, QueuedIffCommand, WaitingIffPending, ClaimedAtMostOnce
  <1>3. ASSUME NEW s \in TerminalStatus, Close(t, s)
        PROVE  RowsInv'
    <2>1. OnlyRow(t)
      BY <1>3 DEF OnlyRow, Close, TypeOK, RowsType
    <2>2. status'[t] = s /\ queued'[t] = "none" /\ pending'[t] = "none"
      BY <1>3 DEF Close, TypeOK, RowsType
    <2>3. RowInv(t)'
      <3>1. claimed[t] \in Nat /\ accepted[t] \in Nat
        BY DEF TypeOK
      <3>2. QED BY <1>1, <1>3, <2>2, <3>1 DEF RowInv, TerminalStatus
    <2>4. QED BY <2>1, <2>3, OnlyRowInv
  <1>4. ASSUME NEW kind \in RequestKind, RecordInterrupted(t, kind)
        PROVE  RowsInv'
    <2>1. OnlyRow(t)
      BY <1>4 DEF OnlyRow, RecordInterrupted, TypeOK, RowsType
    <2>2. status'[t] = WaitingFor(kind) /\ queued'[t] = "none" /\ pending'[t] = kind
      BY <1>4 DEF RecordInterrupted, TypeOK, RowsType
    <2>3. RowInv(t)'
      <3>1. claimed[t] \in Nat /\ accepted[t] \in Nat
        BY DEF TypeOK
      <3>2. QED BY <1>1, <2>2, <3>1 DEF RowInv, WaitingFor, RequestKind
    <2>4. QED BY <2>1, <2>3, OnlyRowInv
  <1>5. QED BY <1>2, <1>3, <1>4 DEF RowEffect

\* Every step keeps the rows of every Task together.
LEMMA RowsStep ==
    ASSUME TypeOK, RowsInv, [Next]_vars
    PROVE  RowsInv'
  <1> USE DEF durable, adapter, workers, requests, boot, history
  <1>1. ASSUME NEW r \in Requests, NEW t \in Tasks, AcceptTask(r, t)
        PROVE  RowsInv'
    <2>1. OnlyRow(t)
      BY <1>1 DEF AcceptTask, OnlyRow, TypeOK, RowsType
    <2>2. RowInv(t) /\ claimed[t] \in Nat /\ accepted[t] \in Nat
      BY RowsInvPerTask DEF TypeOK
    <2>3. /\ status'[t] = "queued" /\ queued'[t] = "initial" /\ pending'[t] = pending[t]
          /\ accepted'[t] = accepted[t] + 1 /\ claimed'[t] = claimed[t]
          /\ status[t] = "absent"
      BY <1>1 DEF AcceptTask, TypeOK, RowsType
    <2>4. RowInv(t)'
      BY <2>2, <2>3 DEF RowInv
    <2>5. QED BY <2>1, <2>4, OnlyRowInv
  <1>2. ASSUME NEW r \in Requests, NEW t \in Tasks, NEW kind \in RequestKind,
               AcceptContinuation(r, t, kind)
        PROVE  RowsInv'
    <2>1. OnlyRow(t)
      BY <1>2 DEF AcceptContinuation, OnlyRow, TypeOK, RowsType
    <2>2. RowInv(t) /\ claimed[t] \in Nat /\ accepted[t] \in Nat
      BY RowsInvPerTask DEF TypeOK
    <2>3. /\ status'[t] = "queued" /\ queued'[t] # "none" /\ pending'[t] = "none"
          /\ accepted'[t] = accepted[t] + 1 /\ claimed'[t] = claimed[t]
          /\ status[t] \in WaitingStatus
      BY <1>2 DEF AcceptContinuation, TypeOK, RowsType
    <2>4. RowInv(t)'
      BY <2>2, <2>3 DEF RowInv, WaitingStatus
    <2>5. QED BY <2>1, <2>4, OnlyRowInv
  <1>3. ASSUME NEW r \in Requests, NEW t \in Tasks, CancelTask(r, t)
        PROVE  RowsInv'
    <2>1. UNCHANGED <<accepted, claimed>> /\ status[t] \notin TerminalStatus
      BY <1>3 DEF CancelTask
    <2>2. CASE Close(t, "canceled")
      <3>1. RowEffect(t)
        BY <2>1, <2>2 DEF RowEffect, TerminalStatus
      <3>2. QED BY <2>1, <3>1, RowEffectInv
    <2>3. CASE /\ status[t] = "running"
               /\ status' = [status EXCEPT ![t] = "cancel_requested"]
               /\ UNCHANGED <<queued, pending>>
      <3>1. OnlyRow(t)
        BY <2>1, <2>3 DEF OnlyRow, TypeOK, RowsType
      <3>2. RowInv(t)'
        BY <2>1, <2>3, RowsInvPerTask DEF RowInv, TypeOK, RowsType
      <3>3. QED BY <3>1, <3>2, OnlyRowInv
    <2>4. CASE UNCHANGED durable
      BY <2>1, <2>4 DEF RowsInv, QueuedIffCommand, WaitingIffPending, ClaimedAtMostOnce
    <2>5. QED BY <1>3, <2>2, <2>3, <2>4 DEF CancelTask
  <1>4. ASSUME UNCHANGED <<durable, accepted, claimed>>
        PROVE  RowsInv'
    BY <1>4 DEF RowsInv, QueuedIffCommand, WaitingIffPending, ClaimedAtMostOnce
  <1>5. ASSUME NEW r \in Threads, RequestStep(r)
        PROVE  RowsInv'
    <2>1. CASE RecordSubmitFailure(r)
      <3>1. rtask[r] \in Tasks
        BY <2>1, ThreadTask DEF RecordSubmitFailure, TypeOK
      <3>2. RowEffect(rtask[r]) /\ UNCHANGED <<accepted, claimed>>
        BY <2>1, RecordFailureEffect DEF RecordSubmitFailure
      <3>3. QED BY <3>1, <3>2, RowEffectInv
    <2>2. CASE ~ RecordSubmitFailure(r)
      BY <1>4, <1>5, <2>2 DEF RequestStep, Wake, Submit, SubmitRaises, SignalCancellation
    <2>3. QED BY <2>1, <2>2
  <1>6. ASSUME NEW w \in Workers, WorkerStep(w)
        PROVE  RowsInv'
    <2>1. CASE Claim(w)
      <3>1. PICK t \in Tasks : t = wtask[w]
        BY <2>1, WorkerTask DEF Claim, TypeOK
      <3>2. CASE status[t] = "queued" /\ queued[t] # "none"
        <4>1. OnlyRow(t)
          BY <2>1, <3>1, <3>2 DEF Claim, OnlyRow, TypeOK, RowsType
        <4>2. RowInv(t) /\ claimed[t] \in Nat /\ accepted[t] \in Nat
          BY <3>1, RowsInvPerTask DEF TypeOK
        <4>3. /\ status'[t] = "running" /\ queued'[t] = "none" /\ pending'[t] = pending[t]
              /\ claimed'[t] = claimed[t] + 1 /\ accepted'[t] = accepted[t]
          BY <2>1, <3>1, <3>2 DEF Claim, TypeOK, RowsType
        <4>4. RowInv(t)'
          BY <3>2, <4>2, <4>3 DEF RowInv
        <4>5. QED BY <4>1, <4>4, OnlyRowInv
      <3>3. CASE ~ (status[t] = "queued" /\ queued[t] # "none")
        BY <1>4, <2>1, <3>1, <3>3 DEF Claim
      <3>4. QED BY <3>2, <3>3
    <2>2. CASE RecordOutcome(w)
      <3>1. wtask[w] \in Tasks
        BY <2>2, WorkerTask DEF RecordOutcome, TypeOK
      <3>2. RowEffect(wtask[w]) /\ UNCHANGED <<accepted, claimed>>
        BY <2>2, RecordFailureEffect, RecordResultEffect DEF RecordOutcome
      <3>3. QED BY <3>1, <3>2, RowEffectInv
    <2>3. CASE ~ (Claim(w) \/ RecordOutcome(w))
      BY <1>4, <1>6, <2>3 DEF WorkerStep, TakeJob, EnterActive, RaiseBeforeRun, Activate,
                              FinishSlice, ExitActive, ForgetScheduled
    <2>4. QED BY <2>1, <2>2, <2>3
  <1>7. CASE BootStep
    <2>1. ASSUME NEW t \in Tasks, RecordRecoveryFailure(t), UNCHANGED <<accepted, claimed>>
          PROVE  RowsInv'
      BY <2>1, RecordFailureEffect, RowEffectInv
    <2>2. QED
      BY <1>4, <1>7, <2>1 DEF BootStep, StartReconciliation, FailInterrupted, ListQueued,
                              RecoverQueued, Serve
  <1>8. CASE Crash
    BY <1>4, <1>8 DEF Crash
  <1>9. CASE UNCHANGED vars
    BY <1>4, <1>9 DEF vars
  <1>10. QED
    BY <1>1, <1>2, <1>3, <1>5, <1>6, <1>7, <1>8, <1>9 DEF Next, ClientStep

-----------------------------------------------------------------------------
(***************************************************************************)
(* One job per task                                                        *)
(***************************************************************************)

Jobs == JobsInv /\ OneWorkerPerTask

\* A request thread that does not enter the submission changes no job.
LEMMA JobsGoto ==
    ASSUME TypeOK, Jobs, NEW r \in Threads, NEW pc \in RequestPc \ {"submit"}, NEW t,
           Goto(r, pc, t), UNCHANGED <<scheduled, pool, wpc, wtask>>
    PROVE  Jobs'
  BY DEF Jobs, JobsInv, OneWorkerPerTask, Goto, TypeOK, RequestsType, HasWorker, InPool

\* A worker that keeps its task changes no job.
LEMMA JobsStepTo ==
    ASSUME TypeOK, Jobs, NEW w \in Workers, wpc[w] # "idle", NEW pc, NEW result,
           StepTo(w, pc, result), UNCHANGED <<scheduled, pool, rpc, rtask>>
    PROVE  Jobs'
  BY DEF Jobs, JobsInv, OneWorkerPerTask, StepTo, TypeOK, WorkersType, HasWorker, InPool

LEMMA JobsUnchanged ==
    ASSUME Jobs, UNCHANGED <<scheduled, pool, wpc, wtask, rpc, rtask>>
    PROVE  Jobs'
  BY DEF Jobs, JobsInv, OneWorkerPerTask, HasWorker, InPool

LEMMA JobsStep ==
    ASSUME TypeOK, Jobs, [Next]_vars
    PROVE  Jobs'
  <1> USE DEF durable, adapter, workers, requests, boot, history
  <1>1. CASE ClientStep
    BY <1>1, JobsGoto, JobsUnchanged
       DEF ClientStep, AcceptTask, AcceptContinuation, CancelTask, Threads, RequestPc
  <1>2. ASSUME NEW r \in Threads, RequestStep(r)
        PROVE  Jobs'
    <2>1. CASE Wake(r)
      <3>1. CASE rtask[r] \in active \cup scheduled
        BY <2>1, <3>1, JobsGoto DEF Wake, Done, RequestPc
      <3>2. CASE rtask[r] \notin active \cup scheduled
        <4>1. PICK t \in Tasks : t = rtask[r]
          BY <2>1, ThreadTask DEF Wake, TypeOK
        <4>2. /\ scheduled' = scheduled \cup {t}
              /\ rpc' = [rpc EXCEPT ![r] = "submit"]
              /\ rtask' = rtask
              /\ UNCHANGED <<pool, wpc, wtask>>
          BY <2>1, <3>2, <4>1 DEF Wake, Goto, TypeOK, RequestsType
        <4>3. ~ HasWorker(t) /\ ~ InPool(t) /\ t # NoTask
          BY <3>2, <4>1, ConstantsAssumption
             DEF Jobs, JobsInv, HasWorker, InPool, TypeOK, WorkersType
        <4>4. \A q \in Threads : rpc[q] = "submit" => rtask[q] # t
          BY <3>2, <4>1 DEF Jobs, JobsInv
        <4>5. QED
          BY <4>1, <4>2, <4>3, <4>4
             DEF Jobs, JobsInv, OneWorkerPerTask, HasWorker, InPool, TypeOK, RequestsType
      <3>3. QED BY <3>1, <3>2
    <2>2. CASE Submit(r)
      <3>1. PICK t \in Tasks : t = rtask[r]
        BY <2>2, ThreadTask DEF Submit, TypeOK
      <3>2. t \in scheduled /\ ~ HasWorker(t) /\ ~ InPool(t)
        BY <2>2, <3>1 DEF Submit, Jobs, JobsInv
      <3>3. /\ pool' = Append(pool, t)
            /\ rpc' = [rpc EXCEPT ![r] = "idle"]
            /\ rtask' = [rtask EXCEPT ![r] = NoTask]
            /\ UNCHANGED <<scheduled, wpc, wtask>>
        BY <2>2, <3>1 DEF Submit, Done, Goto
      <3>4. /\ Len(pool) \in Nat
            /\ Len(pool') = Len(pool) + 1
            /\ pool'[Len(pool) + 1] = t
            /\ \A i \in 1..Len(pool) : pool'[i] = pool[i]
        BY <3>3 DEF TypeOK
      <3>5. \A i \in 1..Len(pool') : i \in 1..Len(pool) \/ i = Len(pool) + 1
        BY <3>4
      <3>6. \A i \in 1..Len(pool') : pool'[i] \in scheduled' /\ ~ HasWorker(pool[i])'
        BY <3>2, <3>3, <3>4, <3>5 DEF Jobs, JobsInv, HasWorker
      <3>7. \A i, j \in 1..Len(pool') : pool'[i] = pool'[j] => i = j
        BY <3>2, <3>4, <3>5 DEF Jobs, JobsInv, InPool
      <3>8. ASSUME NEW q \in Threads, rpc'[q] = "submit"
            PROVE  /\ rtask'[q] \in scheduled'
                   /\ ~ HasWorker(rtask[q])'
                   /\ ~ InPool(rtask[q])'
        <4>1. /\ rpc[q] = "submit" /\ q # r /\ rtask'[q] = rtask[q]
          BY <3>3, <3>8 DEF TypeOK, RequestsType
        <4>2. rtask[q] # t
          BY <2>2, <3>1, <4>1 DEF Submit, Jobs, JobsInv
        <4>3. QED
          BY <3>3, <3>4, <3>5, <4>1, <4>2 DEF Jobs, JobsInv, HasWorker, InPool
      <3>9. \A p, q \in Threads : rpc'[p] = "submit" /\ rpc'[q] = "submit"
                                   /\ rtask'[p] = rtask'[q] => p = q
        BY <3>3 DEF Jobs, JobsInv, TypeOK, RequestsType
      <3>10. QED
        BY <3>3, <3>6, <3>7, <3>8, <3>9 DEF Jobs, JobsInv, OneWorkerPerTask
    <2>3. CASE SubmitRaises(r)
      <3>1. PICK t \in Tasks : t = rtask[r]
        BY <2>3, ThreadTask DEF SubmitRaises, TypeOK
      <3>2. t \in scheduled /\ ~ HasWorker(t) /\ ~ InPool(t)
        BY <2>3, <3>1 DEF SubmitRaises, Jobs, JobsInv
      <3>3. \A q \in Threads \ {r} : rpc[q] = "submit" => rtask[q] # t
        BY <2>3, <3>1 DEF SubmitRaises, Jobs, JobsInv
      <3>4. /\ scheduled' = scheduled \ {t}
            /\ rpc' = [rpc EXCEPT ![r] = "submit_failed"]
            /\ rtask' = rtask
            /\ UNCHANGED <<pool, wpc, wtask>>
        BY <2>3, <3>1 DEF SubmitRaises, Goto, TypeOK, RequestsType
      <3>5. QED
        BY <3>2, <3>3, <3>4
           DEF Jobs, JobsInv, OneWorkerPerTask, HasWorker, InPool, TypeOK, RequestsType
    <2>4. CASE RecordSubmitFailure(r)
      BY <2>4, JobsGoto DEF RecordSubmitFailure, Done, RequestPc
    <2>5. CASE SignalCancellation(r)
      BY <2>5, JobsGoto DEF SignalCancellation, Done, RequestPc
    <2>6. QED BY <1>2, <2>1, <2>2, <2>3, <2>4, <2>5 DEF RequestStep
  <1>3. ASSUME NEW w \in Workers, WorkerStep(w)
        PROVE  Jobs'
    <2>1. CASE TakeJob(w)
      <3>1. /\ Len(pool) \in Nat \ {0}
            /\ Head(pool) = pool[1]
            /\ Len(pool') = Len(pool) - 1
            /\ \A i \in 1..Len(pool') : pool'[i] = pool[i + 1] /\ i + 1 \in 1..Len(pool)
            /\ 1 \in 1..Len(pool)
        BY <2>1 DEF TakeJob, TypeOK
      <3>2. PICK t \in Tasks : t = pool[1]
        BY <3>1 DEF TypeOK
      <3>3. t \in scheduled /\ ~ HasWorker(t)
        BY <3>1, <3>2 DEF Jobs, JobsInv
      <3>4. /\ wpc' = [wpc EXCEPT ![w] = "enter"]
            /\ wtask' = [wtask EXCEPT ![w] = t]
            /\ UNCHANGED <<scheduled, rpc, rtask>>
        BY <2>1, <3>1, <3>2 DEF TakeJob
      <3>5. \A i \in 1..Len(pool') : pool'[i] # t
        BY <3>1, <3>2 DEF Jobs, JobsInv
      <3>7. \A i \in 1..Len(pool') : pool'[i] \in scheduled' /\ ~ HasWorker(pool[i])'
        <4>1. ASSUME NEW i \in 1..Len(pool')
              PROVE  pool'[i] \in scheduled' /\ ~ HasWorker(pool[i])'
          <5>1. /\ pool'[i] = pool[i + 1]
                /\ pool[i + 1] \in scheduled /\ ~ HasWorker(pool[i + 1])
            BY <3>1 DEF Jobs, JobsInv
          <5>2. pool'[i] # t
            BY <3>5
          <5>3. QED BY <3>4, <5>1, <5>2 DEF HasWorker, TypeOK, WorkersType
        <4>2. QED BY <4>1
      <3>8. \A i, j \in 1..Len(pool') : pool'[i] = pool'[j] => i = j
        BY <3>1 DEF Jobs, JobsInv
      <3>9. \A q \in Threads : rpc'[q] = "submit" =>
                 rtask'[q] \in scheduled' /\ ~ HasWorker(rtask[q])' /\ ~ InPool(rtask[q])'
        <4>1. ASSUME NEW q \in Threads, rpc'[q] = "submit"
              PROVE  rtask'[q] \in scheduled' /\ ~ HasWorker(rtask[q])' /\ ~ InPool(rtask[q])'
          <5>1. /\ rtask'[q] = rtask[q]
                /\ rtask[q] \in scheduled /\ ~ HasWorker(rtask[q]) /\ ~ InPool(rtask[q])
            BY <3>4, <4>1 DEF Jobs, JobsInv
          <5>2. rtask[q] # t
            BY <3>1, <3>2, <5>1 DEF InPool
          <5>3. ~ HasWorker(rtask[q])'
            BY <3>4, <5>1, <5>2 DEF HasWorker, TypeOK, WorkersType
          <5>4. ~ InPool(rtask[q])'
            BY <3>1, <5>1 DEF InPool
          <5>5. QED BY <3>4, <5>1, <5>3, <5>4
        <4>2. QED BY <4>1
      <3>10. OneWorkerPerTask'
        BY <3>3, <3>4 DEF Jobs, OneWorkerPerTask, HasWorker, TypeOK, WorkersType
      <3>11. \A v \in Workers : wpc'[v] # "idle" => wtask'[v] \in scheduled'
        BY <3>3, <3>4 DEF Jobs, JobsInv, TypeOK, WorkersType
      <3>12. QED
        BY <3>4, <3>7, <3>8, <3>9, <3>10, <3>11 DEF Jobs, JobsInv
    <2>2. CASE ForgetScheduled(w)
      <3>1. PICK t \in Tasks : t = wtask[w]
        BY <2>2, WorkerTask DEF ForgetScheduled, TypeOK
      <3>2. \A v \in Workers \ {w} : wtask[v] # t
        BY <3>1, ConstantsAssumption DEF Jobs, OneWorkerPerTask
      <3>3. HasWorker(t)
        BY <3>1 DEF HasWorker
      <3>4. /\ scheduled' = scheduled \ {t}
            /\ wpc' = [wpc EXCEPT ![w] = "idle"]
            /\ wtask' = [wtask EXCEPT ![w] = NoTask]
            /\ UNCHANGED <<pool, rpc, rtask>>
        BY <2>2, <3>1 DEF ForgetScheduled
      <3>5. \A i \in 1..Len(pool) : pool[i] # t /\ pool[i] # NoTask
        BY <3>3, ConstantsAssumption DEF Jobs, JobsInv, TypeOK
      <3>6. \A q \in Threads : rpc[q] = "submit" => rtask[q] # t /\ rtask[q] # NoTask
        BY <3>3 DEF Jobs, JobsInv, TypeOK, RequestsType
      <3>7. QED
        BY <3>2, <3>4, <3>5, <3>6
           DEF Jobs, JobsInv, OneWorkerPerTask, HasWorker, InPool, TypeOK, WorkersType
    <2>3. CASE ~ (TakeJob(w) \/ ForgetScheduled(w))
      BY <1>3, <2>3, JobsStepTo
         DEF WorkerStep, EnterActive, Claim, RaiseBeforeRun, Activate, FinishSlice,
             ExitActive, RecordOutcome
    <2>4. QED BY <2>1, <2>2, <2>3
  <1>4. CASE BootStep
    BY <1>4, JobsGoto, JobsUnchanged
       DEF BootStep, StartReconciliation, FailInterrupted, ListQueued, RecoverQueued,
           Serve, Threads, RequestPc
  <1>5. CASE Crash
    BY <1>5, ConstantsAssumption
       DEF Crash, Jobs, JobsInv, OneWorkerPerTask, HasWorker, InPool
  <1>6. CASE UNCHANGED vars
    BY <1>6, JobsUnchanged DEF vars
  <1>7. QED
    BY <1>1, <1>2, <1>3, <1>4, <1>5, <1>6 DEF Next

-----------------------------------------------------------------------------
(***************************************************************************)
(* Phases of the process, and the owner of a running Task                  *)
(***************************************************************************)

\* A recorded outcome leaves no interrupted Task behind.
LEMMA RowEffectStatus ==
    ASSUME TypeOK, NEW t \in Tasks, RowEffect(t)
    PROVE  /\ status'[t] \notin {"running", "cancel_requested"}
           /\ \A u \in Tasks \ {t} : status'[u] = status[u]
  <1>1. CASE status[t] \in TerminalStatus /\ UNCHANGED durable
    BY <1>1 DEF durable, TerminalStatus
  <1>2. CASE \E s \in TerminalStatus : Close(t, s)
    BY <1>2 DEF Close, TerminalStatus, TypeOK, RowsType
  <1>3. CASE \E kind \in RequestKind : RecordInterrupted(t, kind)
    BY <1>3 DEF RecordInterrupted, WaitingFor, TypeOK, RowsType
  <1>4. QED BY <1>1, <1>2, <1>3 DEF RowEffect

\* Only a cancel request makes a Task cancel_requested, and only a claim makes
\* one running.
LEMMA InterruptedStatus ==
    ASSUME TypeOK, Next, NEW t \in Tasks,
           status'[t] \in {"running", "cancel_requested"}
    PROVE  \/ status[t] = status'[t]
           \/ \E r \in Requests : CancelTask(r, t) /\ status[t] = "running"
           \/ \E w \in Workers : Claim(w) /\ wtask[w] = t /\ status'[t] = "running"
                                 /\ wpc' = [wpc EXCEPT ![w] = "dispatch"]
                                 /\ wresult' = [wresult EXCEPT ![w] = "none"]
  <1> USE DEF durable, adapter, workers, requests, boot, history
  <1>1. ASSUME NEW r \in Requests, NEW u \in Tasks, AcceptTask(r, u)
        PROVE  status[t] = status'[t]
    BY <1>1 DEF AcceptTask, TypeOK, RowsType
  <1>2. ASSUME NEW r \in Requests, NEW u \in Tasks, NEW kind \in RequestKind,
               AcceptContinuation(r, u, kind)
        PROVE  status[t] = status'[t]
    BY <1>2 DEF AcceptContinuation, TypeOK, RowsType
  <1>3. ASSUME NEW r \in Requests, NEW u \in Tasks, CancelTask(r, u)
        PROVE  status[t] = status'[t] \/ (u = t /\ status[t] = "running")
    <2>1. CASE Close(u, "canceled")
      BY <2>1 DEF Close, TypeOK, RowsType
    <2>2. CASE /\ status[u] = "running"
               /\ status' = [status EXCEPT ![u] = "cancel_requested"]
      BY <2>2 DEF TypeOK, RowsType
    <2>3. CASE UNCHANGED durable
      BY <2>3
    <2>4. QED BY <1>3, <2>1, <2>2, <2>3 DEF CancelTask
  <1>4. ASSUME NEW u \in Tasks, RowEffect(u)
        PROVE  status[t] = status'[t]
    BY <1>4, RowEffectStatus
  <1>5. ASSUME NEW r \in Threads, RequestStep(r)
        PROVE  status[t] = status'[t]
    <2>1. CASE RecordSubmitFailure(r)
      BY <2>1, <1>4, ThreadTask, RecordFailureEffect DEF RecordSubmitFailure, TypeOK
    <2>2. QED
      BY <1>5, <2>1 DEF RequestStep, Wake, Submit, SubmitRaises, SignalCancellation
  <1>6. ASSUME NEW w \in Workers, WorkerStep(w)
        PROVE  \/ status[t] = status'[t]
               \/ Claim(w) /\ wtask[w] = t /\ status'[t] = "running"
                  /\ wpc' = [wpc EXCEPT ![w] = "dispatch"]
                  /\ wresult' = [wresult EXCEPT ![w] = "none"]
    <2>1. CASE Claim(w)
      BY <2>1 DEF Claim, StepTo, TypeOK, RowsType
    <2>2. CASE RecordOutcome(w)
      BY <2>2, <1>4, WorkerTask, RecordFailureEffect, RecordResultEffect
         DEF RecordOutcome, TypeOK
    <2>3. QED
      BY <1>6, <2>1, <2>2 DEF WorkerStep, TakeJob, EnterActive, RaiseBeforeRun, Activate,
                              FinishSlice, ExitActive, ForgetScheduled
  <1>7. CASE BootStep
    BY <1>4, <1>7, RecordFailureEffect
       DEF BootStep, StartReconciliation, FailInterrupted, ListQueued, RecoverQueued, Serve
  <1>8. CASE Crash
    BY <1>8 DEF Crash
  <1>9. QED
    BY <1>1, <1>2, <1>3, <1>5, <1>6, <1>7, <1>8 DEF Next, ClientStep

\* While the process is down, or fails interrupted Tasks, nothing else moves.
LEMMA QuietPhase ==
    ASSUME TypeOK, BootInv, phase \in {"down", "fail_interrupted"}
    PROVE  /\ ~ ClientStep
           /\ \A r \in Threads : ~ RequestStep(r)
           /\ \A w \in Workers : ~ WorkerStep(w)
  <1>1. ~ ClientStep
    BY DEF ClientStep, AcceptTask, AcceptContinuation, CancelTask, Ready
  <1>2. ASSUME NEW r \in Threads PROVE ~ RequestStep(r)
    BY DEF BootInv, RequestStep, Wake, Submit, SubmitRaises, RecordSubmitFailure,
           SignalCancellation
  <1>3. ASSUME NEW w \in Workers PROVE ~ WorkerStep(w)
    BY DEF BootInv, WorkerStep, TakeJob, EnterActive, Claim, RaiseBeforeRun, Activate,
           FinishSlice, ExitActive, RecordOutcome, ForgetScheduled
  <1>4. QED BY <1>1, <1>2, <1>3

LEMMA BootInvStep ==
    ASSUME TypeOK, BootInv, OwnerInv, [Next]_vars
    PROVE  BootInv'
  <1> USE ConstantsAssumption
  <1> USE DEF durable, adapter, workers, requests, boot, history
  <1>1. CASE ClientStep
    <2>1. phase = "serving" /\ phase' = phase
      BY <1>1 DEF ClientStep, AcceptTask, AcceptContinuation, CancelTask, Ready
    <2>2. rpc'[Boot] = rpc[Boot]
      BY <1>1 DEF ClientStep, AcceptTask, AcceptContinuation, CancelTask, Goto, TypeOK,
                  RequestsType, Threads
    <2>3. QED BY <2>1, <2>2 DEF BootInv
  <1>2. ASSUME NEW r \in Threads, RequestStep(r)
        PROVE  BootInv'
    <2>1. phase' = phase /\ phase \notin {"down", "fail_interrupted"}
      BY <1>2, QuietPhase
         DEF RequestStep, Wake, Submit, SubmitRaises, RecordSubmitFailure, SignalCancellation
    <2>2. rpc[r] # "idle" /\ \A q \in Threads \ {r} : rpc'[q] = rpc[q]
      BY <1>2 DEF RequestStep, Wake, Submit, SubmitRaises, RecordSubmitFailure,
                  SignalCancellation, Done, Goto, TypeOK, RequestsType
    <2>3. CASE phase = "serving"
      BY <2>1, <2>2, <2>3 DEF BootInv, Threads
    <2>4. CASE phase = "wake_queued"
      <3>1. \A t \in Tasks : status'[t] # "cancel_requested"
        <4>1. Next
          BY <1>2 DEF Next
        <4>2. \A q \in Requests, t \in Tasks : ~ CancelTask(q, t)
          BY <2>4 DEF CancelTask, Ready
        <4>3. QED BY <2>4, <4>1, <4>2, InterruptedStatus DEF BootInv
      <3>2. r = Boot
        BY <2>2, <2>4 DEF BootInv, Threads
      <3>3. QED BY <2>1, <2>2, <2>4, <3>1, <3>2 DEF BootInv, Threads
    <2>5. QED BY <2>1, <2>3, <2>4 DEF TypeOK, Phase
  <1>3. ASSUME NEW w \in Workers, WorkerStep(w)
        PROVE  BootInv'
    <2>1. phase' = phase /\ rpc' = rpc /\ phase \notin {"down", "fail_interrupted"}
      BY <1>3, QuietPhase
         DEF WorkerStep, TakeJob, EnterActive, Claim, RaiseBeforeRun, Activate,
             FinishSlice, ExitActive, RecordOutcome, ForgetScheduled
    <2>2. CASE phase = "wake_queued"
      <3>1. Next
        BY <1>3 DEF Next
      <3>2. \A q \in Requests, t \in Tasks : ~ CancelTask(q, t)
        BY <2>2 DEF CancelTask, Ready
      <3>3. \A t \in Tasks : status'[t] # "cancel_requested"
        BY <2>2, <3>1, <3>2, InterruptedStatus DEF BootInv
      <3>4. QED BY <2>1, <2>2, <3>3 DEF BootInv
    <2>3. QED BY <2>1, <2>2 DEF BootInv
  <1>4. CASE BootStep
    <2>1. CASE StartReconciliation
      BY <2>1 DEF StartReconciliation, BootInv
    <2>2. CASE \E t \in Tasks : FailInterrupted(t)
      BY <2>2 DEF FailInterrupted, BootInv
    <2>3. CASE ListQueued
      <3>1. \A t \in Tasks : status[t] # "cancel_requested"
        BY <2>3 DEF ListQueued, BootInv, OwnerInv, Owns
      <3>2. QED BY <2>3, <3>1 DEF ListQueued, BootInv, Threads
    <2>4. ASSUME NEW t \in Tasks, RecoverQueued(t)
          PROVE  BootInv'
      <3>1. Next
        BY <1>4 DEF Next
      <3>2. \A q \in Requests, u \in Tasks : ~ CancelTask(q, u)
        BY <2>4 DEF RecoverQueued, CancelTask, Ready
      <3>3. \A u \in Tasks : status'[u] # "cancel_requested"
        BY <2>4, <3>1, <3>2, InterruptedStatus DEF RecoverQueued, BootInv
      <3>4. \A q \in Requests : rpc'[q] = rpc[q]
        BY <2>4 DEF RecoverQueued, Goto, TypeOK, RequestsType, Threads
      <3>5. phase = "wake_queued" /\ phase' = phase
        BY <2>4 DEF RecoverQueued
      <3>6. QED BY <3>3, <3>4, <3>5 DEF BootInv
    <2>5. CASE Serve
      BY <2>5 DEF Serve, BootInv
    <2>6. QED BY <1>4, <2>1, <2>2, <2>3, <2>4, <2>5 DEF BootStep
  <1>5. CASE Crash
    BY <1>5 DEF Crash, BootInv
  <1>6. CASE UNCHANGED vars
    BY <1>6 DEF vars, BootInv
  <1>7. QED
    BY <1>1, <1>2, <1>3, <1>4, <1>5, <1>6 DEF Next

LEMMA OwnerInvStep ==
    ASSUME TypeOK, BootInv, OwnerInv, [Next]_vars
    PROVE  OwnerInv'
  <1> USE DEF durable, adapter, workers, requests, boot, history
  <1> SUFFICES ASSUME NEW t \in Tasks, status'[t] \in {"running", "cancel_requested"}
               PROVE  \/ \E w \in Workers : Owns(w, t)'
                      \/ phase' = "down"
                      \/ phase' = "fail_interrupted" /\ t \in todo'
    BY DEF OwnerInv
  <1>1. CASE UNCHANGED vars
    BY <1>1 DEF vars, OwnerInv, Owns
  <1>2. ASSUME Next, NEW w \in Workers, Claim(w), wtask[w] = t,
               wpc' = [wpc EXCEPT ![w] = "dispatch"],
               wresult' = [wresult EXCEPT ![w] = "none"]
        PROVE  Owns(w, t)'
    BY <1>2 DEF Claim, StepTo, Owns, TypeOK, WorkersType
  <1>3. ASSUME Next, status[t] \in {"running", "cancel_requested"}
        PROVE  \/ \E w \in Workers : Owns(w, t)'
               \/ phase' = "down"
               \/ phase' = "fail_interrupted" /\ t \in todo'
    <2>1. \/ \E w \in Workers : Owns(w, t)
          \/ phase = "down"
          \/ phase = "fail_interrupted" /\ t \in todo
      BY <1>3 DEF OwnerInv
    <2>2. ASSUME UNCHANGED workers, NEW w \in Workers, Owns(w, t)
          PROVE  Owns(w, t)'
      BY <2>2 DEF Owns
    <2>3. CASE ClientStep \/ \E r \in Threads : RequestStep(r)
      <3>1. UNCHANGED workers
        BY <2>3 DEF ClientStep, AcceptTask, AcceptContinuation, CancelTask, RequestStep,
                    Wake, Submit, SubmitRaises, RecordSubmitFailure, SignalCancellation
      <3>2. phase \notin {"down", "fail_interrupted"}
        BY <2>3, QuietPhase
      <3>3. QED BY <2>1, <2>2, <3>1, <3>2
    <2>4. ASSUME NEW v \in Workers, WorkerStep(v)
          PROVE  \E w \in Workers : Owns(w, t)'
      <3>1. PICK w \in Workers : Owns(w, t)
        BY <2>1, <2>4, QuietPhase
      <3>2. CASE v # w
        BY <2>4, <3>1, <3>2
           DEF WorkerStep, TakeJob, EnterActive, Claim, RaiseBeforeRun, Activate,
               FinishSlice, ExitActive, RecordOutcome, ForgetScheduled, StepTo, Owns,
               TypeOK, WorkersType
      <3>3. CASE v = w
        <4>1. CASE RecordOutcome(w)
          <5>1. RowEffect(t)
            BY <3>1, <4>1, RecordFailureEffect, RecordResultEffect DEF RecordOutcome, Owns
          <5>2. QED BY <5>1, RowEffectStatus
        <4>2. CASE RaiseBeforeRun(w) \/ Activate(w) \/ ExitActive(w)
          BY <3>1, <4>2 DEF RaiseBeforeRun, Activate, ExitActive, StepTo, Owns, TypeOK,
                            WorkersType
        <4>3. CASE \E outcome \in SliceOutcome : FinishSlice(w, outcome)
          BY <3>1, <4>3 DEF FinishSlice, SliceOutcome, StepTo, Owns, TypeOK, WorkersType
        <4>4. ~ (TakeJob(w) \/ EnterActive(w) \/ Claim(w) \/ ForgetScheduled(w))
          BY <3>1 DEF Owns, TakeJob, EnterActive, Claim, ForgetScheduled
        <4>5. QED BY <2>4, <3>3, <4>1, <4>2, <4>3, <4>4 DEF WorkerStep
      <3>4. QED BY <3>2, <3>3
    <2>5. CASE BootStep
      <3>1. CASE StartReconciliation
        BY <1>3, <3>1 DEF StartReconciliation
      <3>2. ASSUME NEW u \in Tasks, FailInterrupted(u)
            PROVE  \/ \E w \in Workers : Owns(w, t)'
                   \/ phase' = "fail_interrupted" /\ t \in todo'
        <4>1. u # t
          BY <3>2, RecordFailureEffect, RowEffectStatus DEF FailInterrupted
        <4>2. QED BY <2>1, <2>2, <3>2, <4>1 DEF FailInterrupted
      <3>3. CASE ListQueued
        BY <2>1, <3>3 DEF ListQueued, BootInv, Owns
      <3>4. CASE Serve \/ \E u \in Tasks : RecoverQueued(u)
        BY <2>1, <2>2, <3>4 DEF Serve, RecoverQueued
      <3>5. QED BY <2>5, <3>1, <3>2, <3>3, <3>4 DEF BootStep
    <2>6. CASE Crash
      BY <2>6 DEF Crash
    <2>7. QED BY <1>3, <2>3, <2>4, <2>5, <2>6 DEF Next
  <1>4. QED
    BY <1>1, <1>2, <1>3, InterruptedStatus

-----------------------------------------------------------------------------
(***************************************************************************)
(* Every known Task has a row, every active one a worker                   *)
(***************************************************************************)

\* A row never disappears, and no step leaves a row created.
LEMMA RowStays ==
    ASSUME TypeOK, AdmittedInv, Next, NEW t \in Tasks
    PROVE  status'[t] # "created" /\ (status[t] # "absent" => status'[t] # "absent")
  <1> DEFINE Goal == status'[t] # "created" /\ (status[t] # "absent" => status'[t] # "absent")
  <1> USE DEF durable, adapter, workers, requests, boot, history
  <1>0. status[t] # "created"
    BY DEF AdmittedInv
  <1>1. ASSUME UNCHANGED status PROVE Goal
    BY <1>0, <1>1
  <1>2. ASSUME NEW u \in Tasks, NEW s \in TaskStatus \ {"created"},
               status' = [status EXCEPT ![u] = s]
        PROVE  Goal
    BY <1>0, <1>2 DEF TypeOK, RowsType, TaskStatus
  <1>3. ASSUME NEW u \in Tasks, RowEffect(u)
        PROVE  Goal
    <2>1. CASE UNCHANGED durable
      BY <1>1, <2>1
    <2>2. CASE \E s \in TerminalStatus : Close(u, s)
      BY <1>2, <2>2 DEF Close, TerminalStatus, TaskStatus
    <2>3. CASE \E kind \in RequestKind : RecordInterrupted(u, kind)
      BY <1>2, <2>3 DEF RecordInterrupted, WaitingFor, TaskStatus
    <2>4. QED BY <1>3, <2>1, <2>2, <2>3 DEF RowEffect
  <1>4. CASE ClientStep
    BY <1>1, <1>2, <1>4 DEF ClientStep, AcceptTask, AcceptContinuation, CancelTask, Close,
                            TaskStatus
  <1>5. ASSUME NEW r \in Threads, RequestStep(r)
        PROVE  Goal
    <2>1. CASE RecordSubmitFailure(r)
      BY <1>3, <2>1, ThreadTask, RecordFailureEffect DEF RecordSubmitFailure, TypeOK
    <2>2. QED
      BY <1>1, <1>5, <2>1 DEF RequestStep, Wake, Submit, SubmitRaises, SignalCancellation
  <1>6. ASSUME NEW w \in Workers, WorkerStep(w)
        PROVE  Goal
    <2>1. CASE Claim(w)
      <3>1. wtask[w] \in Tasks
        BY <2>1, WorkerTask DEF Claim, TypeOK
      <3>2. UNCHANGED status \/ status' = [status EXCEPT ![wtask[w]] = "running"]
        BY <2>1 DEF Claim
      <3>3. QED BY <1>1, <1>2, <3>1, <3>2 DEF TaskStatus
    <2>2. CASE RecordOutcome(w)
      BY <1>3, <2>2, WorkerTask, RecordFailureEffect, RecordResultEffect
         DEF RecordOutcome, TypeOK
    <2>3. QED
      BY <1>1, <1>6, <2>1, <2>2
         DEF WorkerStep, TakeJob, EnterActive, RaiseBeforeRun, Activate, FinishSlice,
             ExitActive, ForgetScheduled
  <1>7. CASE BootStep
    BY <1>1, <1>3, <1>7, RecordFailureEffect
       DEF BootStep, StartReconciliation, FailInterrupted, ListQueued, RecoverQueued, Serve
  <1>8. CASE Crash
    BY <1>1, <1>8 DEF Crash
  <1>9. QED BY <1>4, <1>5, <1>6, <1>7, <1>8 DEF Next

LEMMA AdmittedInvStep ==
    ASSUME TypeOK, TypeOK', AdmittedInv, [Next]_vars
    PROVE  AdmittedInv'
  <1> USE DEF durable, adapter, workers, requests, boot, history
  <1>1. CASE UNCHANGED vars
    BY <1>1 DEF vars, AdmittedInv
  <1>2. CASE Next
    <2>1. \A t \in Tasks : status'[t] # "created" /\ (status[t] # "absent" => status'[t] # "absent")
      BY <1>2, RowStays
    <2>2. \A t \in (scheduled' \cup todo') : t \in Tasks
      BY DEF TypeOK
    <2>3. \A r \in Threads : rpc'[r] # "idle" => rtask'[r] \in Tasks
      BY ThreadTask DEF TypeOK, RequestsType
    <2>4. \A t \in scheduled' \cup todo' : status'[t] # "absent"
      <3>1. ASSUME scheduled' \subseteq scheduled, todo' \subseteq todo
            PROVE  \A t \in scheduled' \cup todo' : status'[t] # "absent"
        BY <2>1, <2>2, <3>1 DEF AdmittedInv
      <3>2. ASSUME NEW r \in Threads, RequestStep(r)
            PROVE  \A t \in scheduled' \cup todo' : status'[t] # "absent"
        <4>1. CASE Wake(r)
          BY <2>1, <2>2, <4>1 DEF Wake, AdmittedInv
        <4>2. QED
          BY <3>1, <3>2, <4>1 DEF RequestStep, Submit, SubmitRaises, RecordSubmitFailure,
                                  SignalCancellation
      <3>3. CASE StartReconciliation \/ ListQueued
        BY <2>1, <2>2, <3>3 DEF StartReconciliation, ListQueued, AdmittedInv
      <3>4. CASE ClientStep
        BY <3>1, <3>4 DEF ClientStep, AcceptTask, AcceptContinuation, CancelTask
      <3>5. ASSUME NEW w \in Workers, WorkerStep(w)
            PROVE  \A t \in scheduled' \cup todo' : status'[t] # "absent"
        BY <3>1, <3>5 DEF WorkerStep, TakeJob, EnterActive, Claim, RaiseBeforeRun, Activate,
                          FinishSlice, ExitActive, RecordOutcome, ForgetScheduled
      <3>6. CASE BootStep
        BY <3>1, <3>3, <3>6 DEF BootStep, FailInterrupted, RecoverQueued, Serve
      <3>7. CASE Crash
        BY <3>1, <3>7 DEF Crash
      <3>8. QED BY <1>2, <3>2, <3>4, <3>5, <3>6, <3>7 DEF Next
    <2>5. ASSUME NEW q \in Threads, rpc'[q] # "idle"
          PROVE  status'[rtask'[q]] # "absent"
      <3>1. CASE rtask'[q] = rtask[q] /\ rpc[q] # "idle"
        BY <2>1, <2>3, <2>5, <3>1 DEF AdmittedInv
      <3>2. ASSUME NEW t \in Tasks, rtask'[q] = t,
                   status[t] # "absent" \/ status'[t] = "queued"
            PROVE  status'[rtask'[q]] # "absent"
        BY <2>1, <3>2
      <3>3. CASE ClientStep
        <4>1. ASSUME NEW r \in Requests, NEW t \in Tasks, AcceptTask(r, t)
              PROVE  status'[rtask'[q]] # "absent"
          BY <2>5, <3>1, <3>2, <4>1 DEF AcceptTask, Goto, TypeOK, RowsType, RequestsType
        <4>2. ASSUME NEW r \in Requests, NEW t \in Tasks, NEW kind \in RequestKind,
                     AcceptContinuation(r, t, kind)
              PROVE  status'[rtask'[q]] # "absent"
          BY <2>5, <3>1, <3>2, <4>2
             DEF AcceptContinuation, Goto, TypeOK, RowsType, RequestsType
        <4>3. ASSUME NEW r \in Requests, NEW t \in Tasks, CancelTask(r, t)
              PROVE  status'[rtask'[q]] # "absent"
          BY <2>5, <3>1, <3>2, <4>3 DEF CancelTask, Goto, TypeOK, RequestsType
        <4>4. QED BY <3>3, <4>1, <4>2, <4>3 DEF ClientStep
      <3>4. ASSUME NEW r \in Threads, RequestStep(r)
            PROVE  status'[rtask'[q]] # "absent"
        BY <2>5, <3>1, <3>4, SMTT(30) DEF RequestStep, Wake, Submit, SubmitRaises, RecordSubmitFailure,
                      SignalCancellation, Done, Goto, TypeOK, RequestsType
      <3>5. ASSUME NEW w \in Workers, WorkerStep(w)
            PROVE  status'[rtask'[q]] # "absent"
        BY <2>5, <3>1, <3>5 DEF WorkerStep, TakeJob, EnterActive, Claim, RaiseBeforeRun,
                      Activate, FinishSlice, ExitActive, RecordOutcome, ForgetScheduled
      <3>6. CASE BootStep
        <4>1. ASSUME NEW t \in Tasks, RecoverQueued(t)
              PROVE  status'[rtask'[q]] # "absent"
          BY <2>5, <3>1, <3>2, <4>1
             DEF RecoverQueued, Goto, TypeOK, RequestsType, AdmittedInv
        <4>2. QED
          BY <2>5, <3>1, <3>6, <4>1
             DEF BootStep, StartReconciliation, FailInterrupted, ListQueued, Serve
      <3>7. CASE Crash
        BY <2>5, <3>7 DEF Crash
      <3>8. QED BY <1>2, <3>3, <3>4, <3>5, <3>6, <3>7 DEF Next
    <2>6. QED BY <2>1, <2>4, <2>5 DEF AdmittedInv
  <1>3. QED BY <1>1, <1>2

LEMMA ActiveInvStep ==
    ASSUME TypeOK, ActiveInv, [Next]_vars
    PROVE  ActiveInv'
  <1> USE DEF durable, adapter, workers, requests, boot, history
  <1>1. ASSUME UNCHANGED <<active, wpc, wtask>> PROVE ActiveInv'
    BY <1>1 DEF ActiveInv
  <1>2. CASE ClientStep
    BY <1>1, <1>2 DEF ClientStep, AcceptTask, AcceptContinuation, CancelTask
  <1>3. ASSUME NEW r \in Threads, RequestStep(r)
        PROVE  ActiveInv'
    BY <1>1, <1>3 DEF RequestStep, Wake, Submit, SubmitRaises, RecordSubmitFailure,
                      SignalCancellation
  <1>4. ASSUME NEW w \in Workers, WorkerStep(w)
        PROVE  ActiveInv'
    <2> USE DEF ActiveInv, StepTo, TypeOK, WorkersType
    <2>1. CASE TakeJob(w)
      BY <2>1 DEF TakeJob
    <2>2. CASE EnterActive(w)
      BY <2>2 DEF EnterActive
    <2>3. CASE Claim(w)
      <3>1. /\ UNCHANGED <<active, wtask>>
            /\ \E pc \in {"dispatch", "exit"} : wpc' = [wpc EXCEPT ![w] = pc]
        BY <2>3 DEF Claim
      <3>2. QED BY <3>1
    <2>4. CASE RaiseBeforeRun(w)
      BY <2>4 DEF RaiseBeforeRun
    <2>5. CASE Activate(w)
      BY <2>5 DEF Activate
    <2>6. CASE \E outcome \in SliceOutcome : FinishSlice(w, outcome)
      BY <2>6 DEF FinishSlice
    <2>7. CASE ExitActive(w)
      BY <2>7 DEF ExitActive
    <2>8. CASE RecordOutcome(w)
      BY <2>8 DEF RecordOutcome
    <2>9. CASE ForgetScheduled(w)
      BY <2>9 DEF ForgetScheduled
    <2>10. QED
      BY <1>4, <2>1, <2>2, <2>3, <2>4, <2>5, <2>6, <2>7, <2>8, <2>9 DEF WorkerStep
  <1>5. CASE BootStep
    BY <1>1, <1>5
       DEF BootStep, StartReconciliation, FailInterrupted, ListQueued, RecoverQueued, Serve
  <1>6. CASE Crash
    BY <1>6 DEF Crash, ActiveInv
  <1>7. CASE UNCHANGED vars
    BY <1>1, <1>7 DEF vars
  <1>8. QED BY <1>2, <1>3, <1>4, <1>5, <1>6, <1>7 DEF Next

\* Only the admission of a new Task stores an initial command.
LEMMA InitialIsAdmitted ==
    ASSUME TypeOK, Next, NEW t \in Tasks, queued'[t] = "initial"
    PROVE  \/ queued[t] = "initial"
           \/ status[t] = "absent" /\ \E r \in Requests : AcceptTask(r, t)
  <1> USE DEF durable, adapter, workers, requests, boot, history
  <1>1. ASSUME UNCHANGED queued PROVE queued[t] = "initial"
    BY <1>1
  <1>2. ASSUME NEW u, NEW k \in {"none", "approval", "user_input"},
               queued' = [queued EXCEPT ![u] = k]
        PROVE  queued[t] = "initial"
    BY <1>2 DEF TypeOK, RowsType
  <1>3. ASSUME NEW u, RowEffect(u)
        PROVE  queued[t] = "initial"
    BY <1>1, <1>2, <1>3 DEF RowEffect, Close, RecordInterrupted
  <1>4. CASE ClientStep
    <2>1. ASSUME NEW r \in Requests, NEW u \in Tasks, AcceptTask(r, u)
          PROVE  queued[t] = "initial" \/ (u = t /\ status[t] = "absent")
      BY <2>1 DEF AcceptTask, TypeOK, RowsType
    <2>2. QED
      BY <1>1, <1>2, <1>4, <2>1 DEF ClientStep, AcceptContinuation, CancelTask, Close
  <1>5. ASSUME NEW r \in Threads, RequestStep(r)
        PROVE  queued[t] = "initial"
    BY <1>1, <1>3, <1>5, RecordFailureEffect
       DEF RequestStep, Wake, Submit, SubmitRaises, RecordSubmitFailure, SignalCancellation
  <1>6. ASSUME NEW w \in Workers, WorkerStep(w)
        PROVE  queued[t] = "initial"
    BY <1>1, <1>2, <1>3, <1>6, RecordFailureEffect, RecordResultEffect
       DEF WorkerStep, TakeJob, EnterActive, Claim, RaiseBeforeRun, Activate, FinishSlice,
           ExitActive, RecordOutcome, ForgetScheduled
  <1>7. CASE BootStep
    BY <1>1, <1>3, <1>7, RecordFailureEffect
       DEF BootStep, StartReconciliation, FailInterrupted, ListQueued, RecoverQueued, Serve
  <1>8. CASE Crash
    BY <1>1, <1>8 DEF Crash
  <1>9. QED BY <1>4, <1>5, <1>6, <1>7, <1>8 DEF Next

\* A recorded outcome leaves no command behind.
LEMMA RowEffectCommand ==
    ASSUME TypeOK, QueuedIffCommand, NEW t \in Tasks, RowEffect(t)
    PROVE  queued'[t] = "none"
  BY DEF RowEffect, Close, RecordInterrupted, QueuedIffCommand, TerminalStatus, durable,
         TypeOK, RowsType

\* The worker's past-the-claim condition of WatchInv.
PastClaim(w) ==
    \/ wpc[w] \in {"dispatch", "run", "forget"}
    \/ wpc[w] \in {"exit", "record"} /\ wresult[w] # "exception"

LEMMA PastClaimStep ==
    ASSUME IInv, TypeOK', Next, NEW w \in Workers, PastClaim(w)'
    PROVE  queued'[wtask'[w]] # "initial"
  <1> USE DEF durable, adapter, workers, requests, boot, history
  <1>0. TypeOK /\ QueuedIffCommand /\ JobsInv /\ AdmittedInv /\ WatchInv
    BY DEF IInv
  <1>1. wtask'[w] \in Tasks
    BY DEF PastClaim, TypeOK, WorkersType
  <1>2. PICK t \in Tasks : t = wtask'[w]
    BY <1>1
  <1>3. ASSUME wtask[w] = t, PastClaim(w)
        PROVE  queued'[t] # "initial"
    <2>1. queued[t] # "initial"
      BY <1>0, <1>3 DEF WatchInv, PastClaim
    <2>2. status[t] # "absent"
      BY <1>0, <1>3 DEF PastClaim, JobsInv, AdmittedInv
    <2>3. QED BY <1>0, <2>1, <2>2, InitialIsAdmitted
  <1>4. ASSUME NEW v \in Workers, WorkerStep(v)
        PROVE  queued'[t] # "initial"
    <2>1. CASE v # w
      <3>1. wpc'[w] = wpc[w] /\ wtask'[w] = wtask[w] /\ wresult'[w] = wresult[w]
        BY <1>0, <1>4, <2>1
           DEF WorkerStep, TakeJob, EnterActive, Claim, RaiseBeforeRun, Activate, FinishSlice,
               ExitActive, RecordOutcome, ForgetScheduled, StepTo, TypeOK, WorkersType
      <3>2. QED BY <1>2, <1>3, <3>1 DEF PastClaim
    <2>2. CASE v = w
      <3>1. CASE Claim(w)
        <4>1. wtask[w] = t
          BY <1>2, <3>1 DEF Claim, StepTo
        <4>2. CASE status[t] = "queued" /\ queued[t] # "none"
          BY <1>0, <3>1, <4>1, <4>2 DEF Claim, TypeOK, RowsType
        <4>3. CASE ~ (status[t] = "queued" /\ queued[t] # "none")
          BY <1>0, <3>1, <4>1, <4>3 DEF Claim, QueuedIffCommand
        <4>4. QED BY <4>2, <4>3
      <3>2. CASE RecordOutcome(w)
        <4>1. wtask[w] = t
          BY <1>2, <3>2 DEF RecordOutcome, StepTo
        <4>2. RowEffect(t)
          BY <3>2, <4>1, RecordFailureEffect, RecordResultEffect DEF RecordOutcome
        <4>3. QED BY <1>0, <4>2, RowEffectCommand
      <3>3. CASE \/ Activate(w)
                 \/ \E outcome \in SliceOutcome : FinishSlice(w, outcome)
                 \/ ExitActive(w)
        <4>1. wtask[w] = t /\ PastClaim(w)
          BY <1>0, <1>2, <3>3 DEF Activate, FinishSlice, ExitActive, StepTo, PastClaim,
                                  TypeOK, WorkersType
        <4>2. QED BY <1>3, <4>1
      <3>4. CASE TakeJob(w) \/ EnterActive(w) \/ RaiseBeforeRun(w) \/ ForgetScheduled(w)
        BY <1>0, <3>4 DEF TakeJob, EnterActive, RaiseBeforeRun, ForgetScheduled, StepTo,
                          PastClaim, TypeOK, WorkersType
      <3>5. QED BY <1>4, <2>2, <3>1, <3>2, <3>3, <3>4 DEF WorkerStep
    <2>3. QED BY <2>1, <2>2
  <1>5. ASSUME UNCHANGED workers PROVE queued'[t] # "initial"
    BY <1>2, <1>3, <1>5 DEF PastClaim
  <1>6. CASE Crash
    BY <1>6 DEF Crash, PastClaim
  <1>7. CASE ClientStep \/ \E r \in Threads : RequestStep(r)
    BY <1>2, <1>5, <1>7 DEF ClientStep, AcceptTask, AcceptContinuation, CancelTask, RequestStep,
                      Wake, Submit, SubmitRaises, RecordSubmitFailure, SignalCancellation
  <1>8. CASE BootStep
    BY <1>2, <1>5, <1>8
       DEF BootStep, StartReconciliation, FailInterrupted, ListQueued, RecoverQueued, Serve
  <1>9. QED BY <1>2, <1>4, <1>6, <1>7, <1>8 DEF Next

\* The initial command of t has someone to start it.
Watched(t) ==
    \/ t \in scheduled
    \/ \E r \in Threads : rtask[r] = t /\ rpc[r] \in {"wake", "submit_failed"}
    \/ phase \in {"down", "fail_interrupted"}
    \/ phase = "wake_queued" /\ t \in todo

LEMMA WatchedStep ==
    ASSUME IInv, Next, NEW t \in Tasks, queued'[t] = "initial"
    PROVE  Watched(t)'
  <1> USE DEF durable, adapter, workers, requests, boot, history
  <1>0. /\ TypeOK /\ QueuedIffCommand /\ JobsInv /\ ActiveInv /\ WatchInv /\ BootInv
    BY DEF IInv
  <1>1. ASSUME NEW r \in Requests, AcceptTask(r, t)
        PROVE  Watched(t)'
    BY <1>0, <1>1 DEF AcceptTask, Goto, Watched, TypeOK, RequestsType, Threads
  <1>2. CASE queued[t] = "initial"
    <2>0. status[t] = "queued" /\ Watched(t)
      BY <1>0, <1>2 DEF QueuedIffCommand, WatchInv, Watched
    <2>1. ASSUME NEW r \in Threads, rtask[r] = t, rpc[r] \in {"wake", "submit_failed"},
                 rtask'[r] = rtask[r], rpc'[r] = rpc[r]
          PROVE  Watched(t)'
      BY <2>1 DEF Watched
    <2>2. CASE ClientStep
      <3>1. UNCHANGED <<scheduled, phase, todo>>
        BY <2>2 DEF ClientStep, AcceptTask, AcceptContinuation, CancelTask
      <3>2. \A r \in Threads : rpc[r] # "idle" => rtask'[r] = rtask[r] /\ rpc'[r] = rpc[r]
        BY <1>0, <2>2 DEF ClientStep, AcceptTask, AcceptContinuation, CancelTask, Ready,
                          Goto, TypeOK, RequestsType
      <3>3. QED BY <2>0, <2>1, <3>1, <3>2 DEF Watched
    <2>3. ASSUME NEW r \in Threads, RequestStep(r)
          PROVE  Watched(t)'
      <3>1. UNCHANGED <<phase, todo>>
        BY <2>3 DEF RequestStep, Wake, Submit, SubmitRaises, RecordSubmitFailure,
                    SignalCancellation
      <3>2. \A q \in Threads \ {r} : rtask'[q] = rtask[q] /\ rpc'[q] = rpc[q]
        BY <1>0, <2>3 DEF RequestStep, Wake, Submit, SubmitRaises, RecordSubmitFailure,
                          SignalCancellation, Done, Goto, TypeOK, RequestsType
      <3>3. CASE rtask[r] = t
        <4>1. CASE Wake(r)
          <5>1. active \subseteq scheduled
            BY <1>0 DEF ActiveInv, JobsInv
          <5>2. t \in scheduled'
            BY <3>3, <4>1, <5>1 DEF Wake
          <5>3. QED BY <5>2 DEF Watched
        <4>2. CASE Submit(r)
          BY <1>0, <3>3, <4>2 DEF Submit, JobsInv, Watched
        <4>3. CASE SubmitRaises(r)
          BY <1>0, <3>3, <4>3 DEF SubmitRaises, Goto, Watched, TypeOK, RequestsType
        <4>4. CASE RecordSubmitFailure(r)
          <5>1. RowEffect(t)
            BY <3>3, <4>4, RecordFailureEffect DEF RecordSubmitFailure
          <5>2. QED BY <1>0, <5>1, RowEffectCommand
        <4>5. CASE SignalCancellation(r)
          <5>1. scheduled' = scheduled /\ rpc[r] = "signal"
            BY <4>5 DEF SignalCancellation
          <5>2. QED BY <2>0, <2>1, <3>1, <3>2, <5>1 DEF Watched
        <4>6. QED BY <2>3, <4>1, <4>2, <4>3, <4>4, <4>5 DEF RequestStep
      <3>4. CASE rtask[r] # t
        <4>1. t \in scheduled => t \in scheduled'
          BY <2>3, <3>4 DEF RequestStep, Wake, Submit, SubmitRaises, RecordSubmitFailure,
                            SignalCancellation
        <4>2. QED BY <2>0, <2>1, <3>1, <3>2, <3>4, <4>1 DEF Watched
      <3>5. QED BY <3>3, <3>4
    <2>4. ASSUME NEW w \in Workers, WorkerStep(w)
          PROVE  Watched(t)'
      <3>1. UNCHANGED <<rpc, rtask, phase, todo>>
        BY <2>4 DEF WorkerStep, TakeJob, EnterActive, Claim, RaiseBeforeRun, Activate,
                    FinishSlice, ExitActive, RecordOutcome, ForgetScheduled
      <3>2. CASE ForgetScheduled(w)
        <4>1. wtask[w] # t
          BY <1>0, <1>2, <3>2 DEF ForgetScheduled, WatchInv
        <4>2. t \in scheduled => t \in scheduled'
          BY <3>2, <4>1 DEF ForgetScheduled
        <4>3. QED BY <2>0, <3>1, <4>2 DEF Watched
      <3>3. CASE ~ ForgetScheduled(w)
        <4>1. scheduled' = scheduled
          BY <2>4, <3>3 DEF WorkerStep, TakeJob, EnterActive, Claim, RaiseBeforeRun, Activate,
                            FinishSlice, ExitActive, RecordOutcome
        <4>2. QED BY <2>0, <3>1, <4>1 DEF Watched
      <3>4. QED BY <3>2, <3>3
    <2>5. CASE BootStep
      <3>1. CASE StartReconciliation \/ \E u \in Tasks : FailInterrupted(u)
        BY <3>1 DEF StartReconciliation, FailInterrupted, Watched
      <3>2. CASE ListQueued
        BY <2>0, <3>2 DEF ListQueued, Watched
      <3>3. ASSUME NEW u \in Tasks, RecoverQueued(u)
            PROVE  Watched(t)'
        <4>1. CASE u = t
          <5>1. rpc'[Boot] = "wake" /\ rtask'[Boot] = t
            BY <1>0, <1>2, <3>3, <4>1
               DEF RecoverQueued, Goto, TypeOK, RequestsType, Threads
          <5>2. QED BY <5>1 DEF Watched, Threads
        <4>2. CASE u # t
          <5>1. /\ UNCHANGED <<phase, scheduled>>
                /\ t \in todo => t \in todo'
            BY <3>3, <4>2 DEF RecoverQueued
          <5>2. \A r \in Threads : rpc[r] # "idle" => rtask'[r] = rtask[r] /\ rpc'[r] = rpc[r]
            BY <1>0, <3>3 DEF RecoverQueued, Goto, TypeOK, RequestsType
          <5>3. QED BY <2>0, <2>1, <5>1, <5>2 DEF Watched
        <4>3. QED BY <4>1, <4>2
      <3>4. CASE Serve
        BY <2>0, <3>4 DEF Serve, Watched
      <3>5. QED BY <2>5, <3>1, <3>2, <3>3, <3>4 DEF BootStep
    <2>6. CASE Crash
      BY <2>6 DEF Crash, Watched
    <2>7. QED BY <2>2, <2>3, <2>4, <2>5, <2>6 DEF Next
  <1>3. QED BY <1>0, <1>1, <1>2, InitialIsAdmitted

LEMMA WatchInvStep ==
    ASSUME IInv, TypeOK', [Next]_vars
    PROVE  WatchInv'
  <1>1. CASE UNCHANGED vars
    BY <1>1 DEF vars, adapter, workers, requests, boot, durable, IInv, WatchInv
  <1>2. CASE Next
    <2>1. \A w \in Workers : PastClaim(w)' => queued'[wtask'[w]] # "initial"
      BY <1>2, PastClaimStep
    <2>2. \A t \in Tasks : queued'[t] = "initial" => Watched(t)'
      BY <1>2, WatchedStep
    <2>3. QED BY <2>1, <2>2 DEF WatchInv, PastClaim, Watched
  <1>3. QED BY <1>1, <1>2

-----------------------------------------------------------------------------
(***************************************************************************)
(* The invariants                                                          *)
(***************************************************************************)

\* The inductive invariant holds of every reachable state: the durable rows
\* move together, a task has at most one job, and every interrupted Task has
\* an owner.
THEOREM InductiveInvariant == Spec => []IInv
  <1>1. Init => IInv
    <2> SUFFICES ASSUME Init PROVE IInv
      OBVIOUS
    <2> USE ConstantsAssumption DEF Init
    <2>1. TypeOK
      BY DEF TypeOK, RowsType, WorkersType, RequestsType, WorkerPc, WorkerResult,
             RequestPc, Phase
    <2>2. QueuedIffCommand /\ WaitingIffPending /\ ClaimedAtMostOnce
      BY DEF QueuedIffCommand, WaitingIffPending, ClaimedAtMostOnce
    <2>3. OneWorkerPerTask /\ JobsInv
      BY DEF OneWorkerPerTask, JobsInv, HasWorker, InPool
    <2>4. BootInv /\ OwnerInv
      BY DEF BootInv, OwnerInv, Threads
    <2>5. AdmittedInv /\ ActiveInv /\ WatchInv
      BY DEF AdmittedInv, ActiveInv, WatchInv
    <2>6. QED BY <2>1, <2>2, <2>3, <2>4, <2>5 DEF IInv
  <1>2. IInv /\ [Next]_vars => IInv'
    <2> SUFFICES ASSUME IInv, [Next]_vars PROVE IInv'
      OBVIOUS
    <2>1. TypeOK'
      BY TypeStep DEF IInv
    <2>2. RowsInv' /\ Jobs'
      BY RowsStep, JobsStep DEF IInv, RowsInv, Jobs
    <2>3. BootInv' /\ OwnerInv' /\ ActiveInv'
      BY BootInvStep, OwnerInvStep, ActiveInvStep DEF IInv
    <2>4. AdmittedInv' /\ WatchInv'
      BY <2>1, AdmittedInvStep, WatchInvStep DEF IInv
    <2>5. QED BY <2>1, <2>2, <2>3, <2>4 DEF IInv, RowsInv, Jobs
  <1>3. QED BY <1>1, <1>2, PTL DEF Spec

\* While requests are served, a running or cancel-requested Task is owned by a
\* worker that will record its outcome.
THEOREM RunningTasksAreOwned == Spec => []RunningHasWorker
  <1>1. IInv => RunningHasWorker
    BY DEF IInv, OwnerInv, RunningHasWorker
  <1>2. QED BY <1>1, InductiveInvariant, PTL

\* A Task has at most one worker, whatever wakes, resumes and restarts do.
THEOREM SingleWorker == Spec => []OneWorkerPerTask
  <1>1. IInv => OneWorkerPerTask
    BY DEF IInv
  <1>2. QED BY <1>1, InductiveInvariant, PTL

\* While requests are served, the initial command of every accepted Task has a
\* thread or a scheduled job left to run it.
THEOREM InitialCommandsAreWatched == Spec => []InitialCommandIsWatched
  <1>1. IInv => InitialCommandIsWatched
    BY DEF IInv, WatchInv, InitialCommandIsWatched
  <1>2. QED BY <1>1, InductiveInvariant, PTL

\* The status, the command row and the continuation row of a Task agree, and
\* no accepted command is claimed twice.
THEOREM RowsAgree == Spec => []RowsConsistent
  <1>1. IInv => RowsConsistent
    BY DEF IInv, RowsConsistent
  <1>2. QED BY <1>1, InductiveInvariant, PTL

-----------------------------------------------------------------------------
(***************************************************************************)
(* What a step may never do                                                *)
(***************************************************************************)

\* No step changes the status of a terminal Task.
LEMMA TerminalStep ==
    ASSUME TypeOK, Next, NEW t \in Tasks, status[t] \in TerminalStatus
    PROVE  status'[t] = status[t]
  <1> USE DEF durable, adapter, workers, requests, boot, history
  <1>1. CASE ClientStep
    <2>1. ASSUME NEW r \in Requests, NEW u \in Tasks, AcceptTask(r, u)
          PROVE  status'[t] = status[t]
      BY <2>1 DEF AcceptTask, TerminalStatus, TypeOK, RowsType
    <2>2. ASSUME NEW r \in Requests, NEW u \in Tasks, NEW kind \in RequestKind,
                 AcceptContinuation(r, u, kind)
          PROVE  status'[t] = status[t]
      BY <2>2 DEF AcceptContinuation, WaitingStatus, TerminalStatus, TypeOK, RowsType
    <2>3. ASSUME NEW r \in Requests, NEW u \in Tasks, CancelTask(r, u)
          PROVE  status'[t] = status[t]
      BY <2>3 DEF CancelTask, Close, TypeOK, RowsType
    <2>4. QED BY <1>1, <2>1, <2>2, <2>3 DEF ClientStep
  <1>2. ASSUME NEW u \in Tasks, RowEffect(u)
        PROVE  status'[t] = status[t]
    BY <1>2 DEF RowEffect, Close, RecordInterrupted, TypeOK, RowsType
  <1>3. ASSUME NEW r \in Threads, RequestStep(r)
        PROVE  status'[t] = status[t]
    <2>1. CASE RecordSubmitFailure(r)
      BY <1>2, <2>1, ThreadTask, RecordFailureEffect DEF RecordSubmitFailure, TypeOK
    <2>2. QED
      BY <1>3, <2>1 DEF RequestStep, Wake, Submit, SubmitRaises, SignalCancellation
  <1>4. ASSUME NEW w \in Workers, WorkerStep(w)
        PROVE  status'[t] = status[t]
    <2>1. CASE Claim(w)
      BY <2>1 DEF Claim, TerminalStatus, TypeOK, RowsType
    <2>2. CASE RecordOutcome(w)
      BY <1>2, <2>2, WorkerTask, RecordFailureEffect, RecordResultEffect
         DEF RecordOutcome, TypeOK
    <2>3. QED
      BY <1>4, <2>1, <2>2 DEF WorkerStep, TakeJob, EnterActive, RaiseBeforeRun, Activate,
                              FinishSlice, ExitActive, ForgetScheduled
  <1>5. CASE BootStep
    BY <1>2, <1>5, RecordFailureEffect
       DEF BootStep, StartReconciliation, FailInterrupted, ListQueued, RecoverQueued, Serve
  <1>6. CASE Crash
    BY <1>6 DEF Crash
  <1>7. QED BY <1>1, <1>3, <1>4, <1>5, <1>6 DEF Next

\* A late outcome, a repeated cancellation or a restart never moves a Task out
\* of a terminal status, nor stores a command or a continuation for it.
THEOREM TerminalTasksStay == Spec => TerminalIsFinal
  <1>1. IInv /\ IInv' /\ [Next]_vars =>
            [\A t \in Tasks : status[t] \in TerminalStatus =>
                /\ status'[t] = status[t]
                /\ queued'[t] = "none"
                /\ pending'[t] = "none"]_vars
    <2> SUFFICES ASSUME IInv, IInv', Next, NEW t \in Tasks, status[t] \in TerminalStatus
                 PROVE  /\ status'[t] = status[t]
                        /\ queued'[t] = "none"
                        /\ pending'[t] = "none"
      OBVIOUS
    <2>1. status'[t] = status[t]
      BY TerminalStep DEF IInv
    <2>2. queued'[t] = "none"
      BY <2>1 DEF IInv, QueuedIffCommand, TerminalStatus
    <2>3. pending'[t] = "none"
      BY <2>1 DEF IInv, WaitingIffPending, TerminalStatus, TypeOK, RowsType, RequestKind
    <2>4. QED BY <2>1, <2>2, <2>3
  <1>2. QED BY <1>1, InductiveInvariant, PTL DEF Spec, TerminalIsFinal

\* Whatever the slice of a cancel-requested Task returns, recording it cancels
\* the Task.
LEMMA CanceledOutcome ==
    ASSUME TypeOK, NEW u \in Tasks, NEW t \in Tasks, status[t] = "cancel_requested",
           RecordFailure(u) \/ \E result : RecordResult(u, result)
    PROVE  status'[t] \in {"cancel_requested", "canceled"}
  <1>1. CASE u = t
    <2>1. RecordFailure(t)
      BY <1>1 DEF RecordResult
    <2>2. QED BY <2>1 DEF RecordFailure, Close, TerminalStatus, TypeOK, RowsType
  <1>2. CASE u # t
    <2>1. RowEffect(u)
      BY RecordFailureEffect, RecordResultEffect
    <2>2. QED BY <1>2, <2>1, RowEffectStatus
  <1>3. QED BY <1>1, <1>2

LEMMA CancellationStep ==
    ASSUME IInv, Next, NEW t \in Tasks, status[t] = "cancel_requested"
    PROVE  status'[t] \in {"cancel_requested", "canceled"}
                \cup (IF phase = "fail_interrupted" THEN {"failed"} ELSE {})
  <1> DEFINE Allowed == {"cancel_requested", "canceled"}
                \cup (IF phase = "fail_interrupted" THEN {"failed"} ELSE {})
  <1> USE DEF durable, adapter, workers, requests, boot, history
  <1>0. TypeOK /\ BootInv
    BY DEF IInv
  <1>1. CASE ClientStep
    <2>1. ASSUME NEW r \in Requests, NEW u \in Tasks, AcceptTask(r, u)
          PROVE  status'[t] \in Allowed
      BY <1>0, <2>1 DEF AcceptTask, TypeOK, RowsType
    <2>2. ASSUME NEW r \in Requests, NEW u \in Tasks, NEW kind \in RequestKind,
                 AcceptContinuation(r, u, kind)
          PROVE  status'[t] \in Allowed
      BY <1>0, <2>2 DEF AcceptContinuation, WaitingStatus, TypeOK, RowsType
    <2>3. ASSUME NEW r \in Requests, NEW u \in Tasks, CancelTask(r, u)
          PROVE  status'[t] \in Allowed
      BY <1>0, <2>3 DEF CancelTask, Close, TypeOK, RowsType
    <2>4. QED BY <1>1, <2>1, <2>2, <2>3 DEF ClientStep
  <1>2. ASSUME NEW r \in Threads, RequestStep(r)
        PROVE  status'[t] \in Allowed
    <2>1. CASE RecordSubmitFailure(r)
      <3>1. rtask[r] \in Tasks
        BY <1>0, <2>1, ThreadTask DEF RecordSubmitFailure, TypeOK
      <3>2. r # Boot
        BY <1>0, <2>1 DEF RecordSubmitFailure, BootInv, TypeOK, Phase
      <3>3. RecordFailure(rtask[r])
        BY <2>1, <3>2 DEF RecordSubmitFailure
      <3>4. QED BY <1>0, <3>1, <3>3, CanceledOutcome
    <2>2. QED
      BY <1>2, <2>1 DEF RequestStep, Wake, Submit, SubmitRaises, SignalCancellation
  <1>3. ASSUME NEW w \in Workers, WorkerStep(w)
        PROVE  status'[t] \in Allowed
    <2>1. CASE Claim(w)
      BY <1>0, <2>1 DEF Claim, TypeOK, RowsType
    <2>2. CASE RecordOutcome(w)
      <3>1. wtask[w] \in Tasks
        BY <1>0, <2>2, WorkerTask DEF RecordOutcome, TypeOK
      <3>2. RecordFailure(wtask[w]) \/ \E result : RecordResult(wtask[w], result)
        BY <2>2 DEF RecordOutcome
      <3>3. QED BY <1>0, <3>1, <3>2, CanceledOutcome
    <2>3. QED
      BY <1>3, <2>1, <2>2 DEF WorkerStep, TakeJob, EnterActive, RaiseBeforeRun, Activate,
                              FinishSlice, ExitActive, ForgetScheduled
  <1>4. CASE BootStep
    <2>1. ASSUME NEW u \in Tasks, FailInterrupted(u)
          PROVE  status'[t] \in Allowed
      BY <1>0, <2>1 DEF FailInterrupted, RecordRecoveryFailure, Close, TypeOK, RowsType
    <2>2. ASSUME NEW u \in Tasks, RecoverQueued(u)
          PROVE  status'[t] \in Allowed
      BY <1>0, <2>2 DEF RecoverQueued, BootInv
    <2>3. QED
      BY <1>4, <2>1, <2>2 DEF BootStep, StartReconciliation, ListQueued, Serve
  <1>5. CASE Crash
    BY <1>5 DEF Crash
  <1>6. QED BY <1>1, <1>2, <1>3, <1>4, <1>5 DEF Next

\* A Task whose cancellation was accepted ends canceled; only startup
\* reconciliation may report it failed.
THEOREM CancellationPrevails == Spec => CancellationWins
  <1>1. IInv /\ [Next]_vars =>
            [\A t \in Tasks : status[t] = "cancel_requested" =>
                status'[t] \in {"cancel_requested", "canceled"}
                    \cup (IF phase = "fail_interrupted" THEN {"failed"} ELSE {})]_vars
    BY CancellationStep
  <1>2. QED BY <1>1, InductiveInvariant, PTL DEF Spec, CancellationWins

-----------------------------------------------------------------------------
(***************************************************************************)
(* Refinement                                                              *)
(***************************************************************************)

\* A recorded outcome of an admitted Task is a step of the abstract process, or
\* none.
LEMMA RowEffectRefines ==
    ASSUME TypeOK, NEW t \in Tasks, RowEffect(t), UNCHANGED <<accepted, claimed>>,
           status[t] \notin {"absent", "created"},
           status'[t] \in WaitingStatus => status[t] \in {"running", status'[t]}
    PROVE  [Process!Next]_(Process!vars)
  <1>1. CASE status[t] \in TerminalStatus /\ UNCHANGED durable
    BY <1>1 DEF Process!vars, durable
  <1>2. CASE /\ status[t] \notin TerminalStatus
             /\ status'[t] \in TerminalStatus \cup WaitingStatus
             /\ status'[t] # status[t]
             /\ \A u \in Tasks \ {t} : status'[u] = status[u]
    <2>1. ProcessState(status'[t]) \in {"blocked", "done"}
      BY <1>2 DEF ProcessState, TerminalStatus, WaitingStatus
    <2>2. ProcessState(status'[t]) = "blocked" => ProcessState(status[t]) = "busy"
      BY <1>2 DEF ProcessState, TerminalStatus, WaitingStatus
    <2>3. ProcessState(status[t]) \in {"ready", "busy", "blocked"}
      BY <1>2 DEF ProcessState, TerminalStatus, WaitingStatus, TypeOK, RowsType, TaskStatus
    <2>4. [u \in Tasks |-> ProcessState(status'[u])] =
            [[u \in Tasks |-> ProcessState(status[u])] EXCEPT ![t] = ProcessState(status'[t])]
      BY <1>2
    <2>5. Process!EndSlice(t) \/ Process!Abandon(t)
      BY <2>1, <2>2, <2>3, <2>4 DEF Process!EndSlice, Process!Abandon, Process!Move
    <2>6. QED BY <2>5 DEF Process!Next
  <1>3. CASE /\ status[t] \notin TerminalStatus
             /\ \E s \in TerminalStatus : Close(t, s)
    BY <1>2, <1>3 DEF Close, TypeOK, RowsType
  <1>4. CASE /\ status[t] \notin TerminalStatus
             /\ \E kind \in RequestKind : RecordInterrupted(t, kind)
    <2>1. /\ status'[t] \in WaitingStatus
          /\ \A u \in Tasks \ {t} : status'[u] = status[u]
      BY <1>4 DEF RecordInterrupted, WaitingFor, WaitingStatus, TypeOK, RowsType
    <2>2. CASE status'[t] = status[t]
      BY <2>1, <2>2 DEF Process!vars
    <2>3. QED BY <1>2, <1>4, <2>1, <2>2
  <1>5. QED BY <1>1, <1>3, <1>4 DEF RowEffect

\* Moving one task from one process state to another, with the counters.
LEMMA MoveRefines ==
    ASSUME TypeOK, NEW t \in Tasks, NEW s, status' = [status EXCEPT ![t] = s]
    PROVE  [u \in Tasks |-> ProcessState(status'[u])] =
             [[u \in Tasks |-> ProcessState(status[u])] EXCEPT ![t] = ProcessState(s)]
  BY DEF TypeOK, RowsType

LEMMA StepRefines ==
    ASSUME IInv, [Next]_vars
    PROVE  [Process!Next]_(Process!vars)
  <1> USE DEF durable, adapter, workers, requests, boot, history
  <1>0. /\ TypeOK /\ JobsInv /\ AdmittedInv
        /\ \A t \in Tasks : status[t] # "created"
    BY DEF IInv, AdmittedInv
  <1>1. ASSUME UNCHANGED <<status, accepted, claimed>>
        PROVE  [Process!Next]_(Process!vars)
    BY <1>1 DEF Process!vars
  <1>2. CASE ClientStep
    <2>1. ASSUME NEW r \in Requests, NEW t \in Tasks, AcceptTask(r, t)
          PROVE  Process!Grant(t)
      <3>1. [u \in Tasks |-> ProcessState(status'[u])] =
              [[u \in Tasks |-> ProcessState(status[u])] EXCEPT ![t] = "ready"]
        BY <1>0, <2>1, MoveRefines DEF AcceptTask, ProcessState
      <3>2. ProcessState(status[t]) = "absent"
        BY <2>1 DEF AcceptTask, ProcessState
      <3>3. QED BY <2>1, <3>1, <3>2 DEF AcceptTask, Process!Grant, Process!Move
    <2>2. ASSUME NEW r \in Requests, NEW t \in Tasks, NEW kind \in RequestKind,
                 AcceptContinuation(r, t, kind)
          PROVE  Process!Grant(t)
      <3>1. [u \in Tasks |-> ProcessState(status'[u])] =
              [[u \in Tasks |-> ProcessState(status[u])] EXCEPT ![t] = "ready"]
        BY <1>0, <2>2, MoveRefines DEF AcceptContinuation, ProcessState
      <3>2. ProcessState(status[t]) = "blocked"
        BY <2>2 DEF AcceptContinuation, ProcessState, WaitingStatus
      <3>3. QED BY <2>2, <3>1, <3>2 DEF AcceptContinuation, Process!Grant, Process!Move
    <2>3. ASSUME NEW r \in Requests, NEW t \in Tasks, CancelTask(r, t)
          PROVE  [Process!Next]_(Process!vars)
      <3>1. UNCHANGED <<accepted, claimed>>
        BY <2>3 DEF CancelTask
      <3>2. CASE /\ status[t] = "running"
                 /\ status' = [status EXCEPT ![t] = "cancel_requested"]
        <4>1. [u \in Tasks |-> ProcessState(status'[u])] =
                [u \in Tasks |-> ProcessState(status[u])]
          BY <1>0, <3>2 DEF ProcessState, TypeOK, RowsType
        <4>2. QED BY <3>1, <4>1 DEF Process!vars
      <3>3. CASE UNCHANGED durable
        BY <1>1, <3>1, <3>3
      <3>4. CASE Close(t, "canceled")
        <4>1. /\ RowEffect(t)
              /\ status[t] \notin {"absent", "created"}
              /\ status'[t] \notin WaitingStatus
          BY <1>0, <2>3, <3>4 DEF CancelTask, RowEffect, TerminalStatus, WaitingStatus,
                                  Close, TypeOK, RowsType
        <4>2. QED BY <1>0, <3>1, <4>1, RowEffectRefines
      <3>5. QED BY <2>3, <3>2, <3>3, <3>4 DEF CancelTask
    <2>4. QED BY <1>2, <2>1, <2>2, <2>3 DEF ClientStep, Process!Next
  <1>3. ASSUME NEW t \in Tasks, RecordFailure(t) \/ RecordRecoveryFailure(t),
               status[t] # "absent", UNCHANGED <<accepted, claimed>>
        PROVE  [Process!Next]_(Process!vars)
    <2>1. RowEffect(t)
      BY <1>3, RecordFailureEffect
    <2>2. status'[t] \in WaitingStatus => status[t] = status'[t]
      BY <1>0, <1>3 DEF RecordFailure, RecordRecoveryFailure, Close, WaitingStatus,
                        TypeOK, RowsType
    <2>3. QED BY <1>0, <1>3, <2>1, <2>2, RowEffectRefines
  <1>4. ASSUME NEW r \in Threads, RequestStep(r)
        PROVE  [Process!Next]_(Process!vars)
    <2>1. CASE RecordSubmitFailure(r)
      <3>1. rtask[r] \in Tasks /\ status[rtask[r]] # "absent"
        BY <1>0, <2>1, ThreadTask DEF RecordSubmitFailure, TypeOK, AdmittedInv
      <3>2. QED BY <1>3, <2>1, <3>1 DEF RecordSubmitFailure
    <2>2. QED
      BY <1>1, <1>4, <2>1 DEF RequestStep, Wake, Submit, SubmitRaises, SignalCancellation
  <1>5. ASSUME NEW w \in Workers, WorkerStep(w)
        PROVE  [Process!Next]_(Process!vars)
    <2>1. CASE Claim(w)
      <3>1. PICK t \in Tasks : t = wtask[w]
        BY <1>0, <2>1, WorkerTask DEF Claim, TypeOK
      <3>2. CASE status[t] = "queued" /\ queued[t] # "none"
        <4>1. /\ status' = [status EXCEPT ![t] = "running"]
              /\ claimed' = [claimed EXCEPT ![t] = @ + 1]
              /\ UNCHANGED accepted
          BY <2>1, <3>1, <3>2 DEF Claim
        <4>2. [u \in Tasks |-> ProcessState(status'[u])] =
                [[u \in Tasks |-> ProcessState(status[u])] EXCEPT ![t] = "busy"]
          BY <1>0, <4>1, MoveRefines DEF ProcessState
        <4>3. ProcessState(status[t]) = "ready"
          BY <3>2 DEF ProcessState
        <4>4. Process!Run(t)
          BY <4>1, <4>2, <4>3 DEF Process!Run, Process!Move
        <4>5. QED BY <4>4 DEF Process!Next
      <3>3. CASE ~ (status[t] = "queued" /\ queued[t] # "none")
        BY <1>1, <2>1, <3>1, <3>3 DEF Claim
      <3>4. QED BY <3>2, <3>3
    <2>2. CASE RecordOutcome(w)
      <3>1. PICK t \in Tasks : t = wtask[w]
        BY <1>0, <2>2, WorkerTask DEF RecordOutcome, TypeOK
      <3>2. status[t] # "absent" /\ UNCHANGED <<accepted, claimed>>
        BY <1>0, <2>2, <3>1 DEF RecordOutcome, JobsInv, AdmittedInv
      <3>3. ASSUME RecordResult(t, wresult[w])
            PROVE  [Process!Next]_(Process!vars)
        <4>1. CASE RecordFailure(t)
          BY <1>3, <3>2, <4>1
        <4>2. CASE ~ RecordFailure(t)
          <5>1. CanTransition(status[t], ResultStatus(wresult[w]))
            BY <3>3, <4>2 DEF RecordResult
          <5>2. status'[t] = ResultStatus(wresult[w])
            BY <1>0, <3>3, <4>2 DEF RecordResult, ResultStatus, Close, RecordInterrupted,
                                    RequestKind, TypeOK, RowsType
          <5>3. status'[t] \in WaitingStatus => status[t] \in {"running", status'[t]}
            BY <5>1, <5>2 DEF CanTransition, LOCAL_TASK_TRANSITIONS, WaitingStatus
          <5>4. QED BY <1>0, <3>2, <3>3, <5>3, RecordResultEffect, RowEffectRefines
        <4>3. QED BY <4>1, <4>2
      <3>4. QED BY <1>3, <2>2, <3>1, <3>2, <3>3 DEF RecordOutcome
    <2>3. QED
      BY <1>1, <1>5, <2>1, <2>2
         DEF WorkerStep, TakeJob, EnterActive, RaiseBeforeRun, Activate, FinishSlice,
             ExitActive, ForgetScheduled
  <1>6. CASE BootStep
    <2>1. ASSUME NEW t \in Tasks, FailInterrupted(t) \/ RecoverQueued(t)
          PROVE  [Process!Next]_(Process!vars)
      <3>1. status[t] # "absent"
        BY <1>0, <2>1 DEF FailInterrupted, RecoverQueued, AdmittedInv
      <3>2. QED BY <1>1, <1>3, <2>1, <3>1 DEF FailInterrupted, RecoverQueued
    <2>2. QED BY <1>1, <1>6, <2>1 DEF BootStep, StartReconciliation, ListQueued, Serve
  <1>7. CASE Crash
    BY <1>1, <1>7 DEF Crash
  <1>8. CASE UNCHANGED vars
    BY <1>1, <1>8 DEF vars
  <1>9. QED BY <1>2, <1>4, <1>5, <1>6, <1>7, <1>8 DEF Next

\* The execution path, with its threads, wake-up sets, cancellations and
\* restarts, takes only steps of the abstract Agent Process.
THEOREM ExecutionRefinesProcess == Spec => ImplementsProcessSafety
  <1>1. Init => Process!Init
    BY DEF Init, Process!Init, ProcessState
  <1>2. IInv /\ [Next]_vars => [Process!Next]_(Process!vars)
    BY StepRefines
  <1>3. QED
    BY <1>1, <1>2, InductiveInvariant, PTL
       DEF Spec, ImplementsProcessSafety, Process!Safety
=============================================================================
