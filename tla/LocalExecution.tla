--------------------------- MODULE LocalExecution ---------------------------
(***************************************************************************)
(* Bounded local execution of Agent Processes on one host: the durable     *)
(* Task, queued-command and pending-continuation rows, the request threads *)
(* of the API, the wake-up sets of InProcessLocalExecutionAdapter, the     *)
(* thread pool, the cancellation registry, process loss and startup        *)
(* reconciliation.                                                         *)
(*                                                                         *)
(* AgentStore runs every outer transaction under one lock, so a            *)
(* transaction is one step; everything the code does outside a transaction *)
(* is a step of its own.                                                   *)
(***************************************************************************)
EXTENDS TaskLifecycle, Integers, Sequences

CONSTANTS
    Tasks,      \* task identities
    NoTask,     \* the task of an idle thread
    Workers,    \* threads of InProcessTaskExecutor
    Requests,   \* request threads of the API
    Boot,       \* the thread that runs startup reconciliation
    MaxSlices,  \* bound: execution commands accepted per task
    MaxCrashes  \* bound: process losses

ASSUME ConstantsAssumption ==
    /\ NoTask \notin Tasks
    /\ Boot \notin Requests
    /\ MaxSlices \in Nat
    /\ MaxCrashes \in Nat

VARIABLES
    \* durable rows
    status,     \* main_agent_tasks.status, "absent" before the row exists
    queued,     \* kind of the main_agent_queued_executions row, or "none"
    pending,    \* kind of the pending continuation row, or "none"
    \* process-local state
    scheduled,  \* _scheduled_task_ids
    active,     \* _active_task_ids
    pool,       \* work queue of the ThreadPoolExecutor
    wpc,        \* where each worker is in _run_scheduled
    wtask,      \* the task each worker runs
    wresult,    \* what its slice produced so far
    rpc,        \* where each request thread is after its commit
    rtask,      \* the task it handles
    registry,   \* ExecutionContextRegistry entry: "absent", "clear", "set"
    phase,      \* "down", the two reconciliation loops, "serving"
    todo,       \* rows the current reconciliation loop still has to visit
    \* bounds and history
    accepted,   \* commands accepted for each task
    claimed,    \* commands claimed for each task
    crashes

durable   == <<status, queued, pending>>
adapter   == <<scheduled, active, pool>>
workers   == <<wpc, wtask, wresult>>
requests  == <<rpc, rtask>>
boot      == <<phase, todo>>
history   == <<accepted, claimed, crashes>>
vars      == <<durable, adapter, workers, requests, registry, boot, history>>

Threads      == Requests \cup {Boot}
CommandKind  == {"initial", "approval", "user_input"}
RequestKind  == {"approval_required", "user_input_required"}
WorkerPc     == {"idle", "enter", "claim", "dispatch", "run", "exit", "record", "forget"}
RequestPc    == {"idle", "wake", "submit", "submit_failed", "signal"}
\* "none" until the slice produced something, "unclaimed" when the claim found
\* no command; the others are the outcomes record_outcome distinguishes.
SliceOutcome == {"completed", "approval_required", "user_input_required",
                 "unsupported_interrupt", "failed", "exception"}
WorkerResult == SliceOutcome \cup {"none", "unclaimed"}
Phase        == {"down", "fail_interrupted", "wake_queued", "serving"}

RowsType ==
    /\ status \in [Tasks -> TaskStatus \cup {"absent"}]
    /\ queued \in [Tasks -> CommandKind \cup {"none"}]
    /\ pending \in [Tasks -> RequestKind \cup {"none"}]

WorkersType ==
    /\ wpc \in [Workers -> WorkerPc]
    /\ wtask \in [Workers -> Tasks \cup {NoTask}]
    /\ wresult \in [Workers -> WorkerResult]
    /\ \A w \in Workers : wpc[w] = "idle" <=> wtask[w] = NoTask

RequestsType ==
    /\ rpc \in [Threads -> RequestPc]
    /\ rtask \in [Threads -> Tasks \cup {NoTask}]
    /\ \A r \in Threads : rpc[r] = "idle" <=> rtask[r] = NoTask

\* Every row, set, queue and thread of the execution path has the shape the
\* code gives it; a thread handles a task exactly while it is not idle.
TypeOK ==
    /\ RowsType
    /\ scheduled \in SUBSET Tasks
    /\ active \in SUBSET Tasks
    /\ pool \in Seq(Tasks)
    /\ WorkersType
    /\ RequestsType
    /\ registry \in [Tasks -> {"absent", "clear", "set"}]
    /\ phase \in Phase
    /\ todo \in SUBSET Tasks
    /\ accepted \in [Tasks -> Nat]
    /\ claimed \in [Tasks -> Nat]
    /\ crashes \in Nat

Init ==
    /\ status = [t \in Tasks |-> "absent"]
    /\ queued = [t \in Tasks |-> "none"]
    /\ pending = [t \in Tasks |-> "none"]
    /\ scheduled = {}
    /\ active = {}
    /\ pool = <<>>
    /\ wpc = [w \in Workers |-> "idle"]
    /\ wtask = [w \in Workers |-> NoTask]
    /\ wresult = [w \in Workers |-> "none"]
    /\ rpc = [r \in Threads |-> "idle"]
    /\ rtask = [r \in Threads |-> NoTask]
    /\ registry = [t \in Tasks |-> "absent"]
    /\ phase = "serving"
    /\ todo = {}
    /\ accepted = [t \in Tasks |-> 0]
    /\ claimed = [t \in Tasks |-> 0]
    /\ crashes = 0

-----------------------------------------------------------------------------
(***************************************************************************)
(* Transactions on the durable rows                                        *)
(***************************************************************************)

\* Mutant of Close: the queued command is left behind.
CloseKeepsCommand(t, s) ==
    /\ status' = [status EXCEPT ![t] = s]
    /\ pending' = [pending EXCEPT ![t] = "none"]
    /\ UNCHANGED queued

\* The status a Task ends in when a row write moves it to s; the pending
\* continuation and the queued command go with it.
Close(t, s) ==
    /\ status' = [status EXCEPT ![t] = s]
    /\ queued' = [queued EXCEPT ![t] = "none"]
    /\ pending' = [pending EXCEPT ![t] = "none"]

\* TaskOutcomeRecorder.record_runtime_recovery_failure: a cancellation request
\* whose worker is gone is reported as a failure.
RecordRecoveryFailure(t) ==
    \/ status[t] \in TerminalStatus /\ UNCHANGED durable
    \/ status[t] \notin TerminalStatus /\ Close(t, "failed")

\* Mutants of RecordFailure: a cancellation request is treated as settled; a
\* terminal Task is closed again.
RecordFailureSkipsCancellation(t) ==
    \/ status[t] \in TerminalStatus \cup {"cancel_requested"} /\ UNCHANGED durable
    \/ status[t] \notin TerminalStatus \cup {"cancel_requested"} /\ Close(t, "failed")

RecordFailureOfTerminal(t) ==
    IF status[t] = "cancel_requested" THEN Close(t, "canceled") ELSE Close(t, "failed")

\* TaskOutcomeRecorder.record_failure
RecordFailure(t) ==
    \/ status[t] \in TerminalStatus /\ UNCHANGED durable
    \/ status[t] = "cancel_requested" /\ Close(t, "canceled")
    \/ status[t] \notin TerminalStatus \cup {"cancel_requested"} /\ Close(t, "failed")

\* The pending continuation and the status of an interrupted slice
\* (local_process_status).
WaitingFor(kind) ==
    IF kind = "approval_required" THEN "auth_required" ELSE "input_required"

\* TaskOutcomeRecorder._record_interrupted_result
RecordInterrupted(t, kind) ==
    /\ status' = [status EXCEPT ![t] = WaitingFor(kind)]
    /\ pending' = [pending EXCEPT ![t] = kind]
    /\ queued' = [queued EXCEPT ![t] = "none"]

\* The status the result of a slice asks for.
ResultStatus(result) ==
    IF result = "completed" THEN "completed"
    ELSE IF result \in RequestKind THEN WaitingFor(result) ELSE "failed"

\* TaskOutcomeRecorder.record_local_result. A Task that is terminal or being
\* canceled ignores the result; a result the current status does not admit
\* raises and is recorded as a failure instead.
RecordResult(t, result) ==
    \/ /\ \/ status[t] \in TerminalStatus \cup {"cancel_requested"}
          \/ ~ CanTransition(status[t], ResultStatus(result))
          \/ ResultStatus(result) = "failed"
       /\ RecordFailure(t)
    \/ /\ status[t] \notin TerminalStatus \cup {"cancel_requested"}
       /\ CanTransition(status[t], ResultStatus(result))
       /\ \/ result = "completed" /\ Close(t, "completed")
          \/ result \in RequestKind /\ RecordInterrupted(t, result)

-----------------------------------------------------------------------------
(***************************************************************************)
(* Request threads: one lifecycle transaction, then one post-commit effect *)
(***************************************************************************)

Goto(r, pc, t) ==
    /\ rpc' = [rpc EXCEPT ![r] = pc]
    /\ rtask' = [rtask EXCEPT ![r] = t]

Done(r) == Goto(r, "idle", NoTask)

Ready(r) == phase = "serving" /\ rpc[r] = "idle"

\* _handle_local_task: the Task row, its transition to queued and the initial
\* command commit together.
AcceptTask(r, t) ==
    /\ Ready(r)
    /\ status[t] = "absent"
    /\ accepted[t] < MaxSlices
    /\ status' = [status EXCEPT ![t] = "queued"]
    /\ queued' = [queued EXCEPT ![t] = "initial"]
    /\ accepted' = [accepted EXCEPT ![t] = @ + 1]
    /\ Goto(r, "wake", t)
    /\ UNCHANGED <<pending, adapter, workers, registry, boot, claimed, crashes>>

\* Mutant of AcceptContinuation: the continuation is not consumed.
AcceptContinuationAgain(r, t, kind) ==
    /\ Ready(r)
    /\ status[t] \in WaitingStatus
    /\ pending[t] = kind
    /\ accepted[t] < MaxSlices
    /\ status' = [status EXCEPT ![t] = "queued"]
    /\ queued' = [queued EXCEPT ![t] =
                    IF kind = "approval_required" THEN "approval" ELSE "user_input"]
    /\ accepted' = [accepted EXCEPT ![t] = @ + 1]
    /\ Goto(r, "wake", t)
    /\ UNCHANGED <<pending, adapter, workers, registry, boot, claimed, crashes>>

\* _resolve_approval and _submit_task_input through
\* _accept_pending_continuation: the continuation is consumed, the Task is
\* queued and the continuation command is stored in one transaction.
AcceptContinuation(r, t, kind) ==
    /\ Ready(r)
    /\ status[t] \in WaitingStatus
    /\ pending[t] = kind
    /\ accepted[t] < MaxSlices
    /\ status' = [status EXCEPT ![t] = "queued"]
    /\ pending' = [pending EXCEPT ![t] = "none"]
    /\ queued' = [queued EXCEPT ![t] =
                    IF kind = "approval_required" THEN "approval" ELSE "user_input"]
    /\ accepted' = [accepted EXCEPT ![t] = @ + 1]
    /\ Goto(r, "wake", t)
    /\ UNCHANGED <<adapter, workers, registry, boot, claimed, crashes>>

\* _cancel_task: only a RUNNING Task whose worker is in the active set waits
\* for the worker; every other live Task is closed by the request itself. A
\* repeated request only repeats the signal, and once the worker has left the
\* active set it changes nothing.
CancelTask(r, t) ==
    /\ Ready(r)
    /\ status[t] \notin TerminalStatus \cup {"absent"}
    /\ \/ /\ status[t] = "running" /\ t \in active
          /\ status' = [status EXCEPT ![t] = "cancel_requested"]
          /\ UNCHANGED <<queued, pending>>
          /\ Goto(r, "signal", t)
       \/ /\ status[t] = "cancel_requested" /\ t \in active
          /\ UNCHANGED durable
          /\ Goto(r, "signal", t)
       \/ /\ status[t] # "cancel_requested"
          /\ ~ (status[t] = "running" /\ t \in active)
          /\ Close(t, "canceled")
          /\ UNCHANGED requests
    /\ UNCHANGED <<adapter, workers, registry, boot, history>>

\* Mutant of Wake: the scheduled set is not consulted.
WakeUnguarded(r) ==
    /\ rpc[r] = "wake"
    /\ scheduled' = scheduled \cup {rtask[r]}
    /\ Goto(r, "submit", rtask[r])
    /\ UNCHANGED <<durable, active, pool, workers, registry, boot, history>>

\* InProcessLocalExecutionAdapter.wake, the guarded part. A task that is still
\* active or scheduled is not submitted again.
Wake(r) ==
    LET t == rtask[r] IN
    /\ rpc[r] = "wake"
    /\ IF t \in active \cup scheduled
         THEN /\ Done(r)
              /\ UNCHANGED scheduled
         ELSE /\ scheduled' = scheduled \cup {t}
              /\ Goto(r, "submit", t)
    /\ UNCHANGED <<durable, active, pool, workers, registry, boot, history>>

\* submitter.submit succeeds, or raises and the task is forgotten again.
Submit(r) ==
    /\ rpc[r] = "submit"
    /\ pool' = Append(pool, rtask[r])
    /\ Done(r)
    /\ UNCHANGED <<durable, scheduled, active, workers, registry, boot, history>>

\* Mutant of SubmitRaises: the failed submission is swallowed.
SubmitSwallowed(r) ==
    /\ rpc[r] = "submit"
    /\ scheduled' = scheduled \ {rtask[r]}
    /\ Done(r)
    /\ UNCHANGED <<durable, active, pool, workers, registry, boot, history>>

SubmitRaises(r) ==
    /\ rpc[r] = "submit"
    /\ scheduled' = scheduled \ {rtask[r]}
    /\ Goto(r, "submit_failed", rtask[r])
    /\ UNCHANGED <<durable, active, pool, workers, registry, boot, history>>

\* _start_committed_local_task records the failure; the reconciliation loop
\* records a recovery failure.
RecordSubmitFailure(r) ==
    /\ rpc[r] = "submit_failed"
    /\ IF r = Boot THEN RecordRecoveryFailure(rtask[r]) ELSE RecordFailure(rtask[r])
    /\ Done(r)
    /\ UNCHANGED <<adapter, workers, registry, boot, history>>

\* _signal_committed_cancellation: the registry drops the request when no
\* execution is activated under the runtime thread.
SignalCancellation(r) ==
    LET t == rtask[r] IN
    /\ rpc[r] = "signal"
    /\ registry' = [registry EXCEPT ![t] = IF @ = "absent" THEN @ ELSE "set"]
    /\ Done(r)
    /\ UNCHANGED <<durable, adapter, workers, boot, history>>

RequestStep(r) ==
    \/ Wake(r)
    \/ Submit(r)
    \/ SubmitRaises(r)
    \/ RecordSubmitFailure(r)
    \/ SignalCancellation(r)

-----------------------------------------------------------------------------
(***************************************************************************)
(* Worker threads: _run_scheduled around _run_once                         *)
(***************************************************************************)

StepTo(w, pc, result) ==
    /\ wpc' = [wpc EXCEPT ![w] = pc]
    /\ wresult' = [wresult EXCEPT ![w] = result]
    /\ UNCHANGED wtask

TakeJob(w) ==
    /\ wpc[w] = "idle"
    /\ pool # <<>>
    /\ wpc' = [wpc EXCEPT ![w] = "enter"]
    /\ wtask' = [wtask EXCEPT ![w] = Head(pool)]
    /\ pool' = Tail(pool)
    /\ UNCHANGED <<wresult, durable, scheduled, active, requests, registry, boot, history>>

\* _ActiveLocalExecution.__enter__
EnterActive(w) ==
    /\ wpc[w] = "enter"
    /\ active' = active \cup {wtask[w]}
    /\ StepTo(w, "claim", "none")
    /\ UNCHANGED <<durable, scheduled, pool, requests, registry, boot, history>>

\* Mutant of Claim: the command is not deleted.
ClaimKeepsCommand(w) ==
    LET t == wtask[w] IN
    /\ wpc[w] = "claim"
    /\ IF status[t] = "queued" /\ queued[t] # "none"
         THEN /\ status' = [status EXCEPT ![t] = "running"]
              /\ claimed' = [claimed EXCEPT ![t] = @ + 1]
              /\ StepTo(w, "dispatch", "none")
         ELSE /\ StepTo(w, "exit", "unclaimed")
              /\ UNCHANGED <<status, claimed>>
    /\ UNCHANGED <<queued, pending, adapter, requests, registry, boot, accepted, crashes>>

\* _claim_local_execution: deletes the command and moves the Task to running
\* in one transaction, or finds nothing to run.
Claim(w) ==
    LET t == wtask[w] IN
    /\ wpc[w] = "claim"
    /\ IF status[t] = "queued" /\ queued[t] # "none"
         THEN /\ status' = [status EXCEPT ![t] = "running"]
              /\ queued' = [queued EXCEPT ![t] = "none"]
              /\ claimed' = [claimed EXCEPT ![t] = @ + 1]
              /\ StepTo(w, "dispatch", "none")
         ELSE /\ StepTo(w, "exit", "unclaimed")
              /\ UNCHANGED <<status, queued, claimed>>
    /\ UNCHANGED <<pending, adapter, requests, registry, boot, accepted, crashes>>

\* The claim transaction, or the dispatch before the runtime is activated,
\* raises: the claim is rolled back, the exception becomes the outcome.
RaiseBeforeRun(w) ==
    /\ wpc[w] \in {"claim", "dispatch"}
    /\ StepTo(w, "exit", "exception")
    /\ UNCHANGED <<durable, adapter, requests, registry, boot, history>>

\* ExecutionContextRegistry.activate: a fresh, unset cancellation.
Activate(w) ==
    /\ wpc[w] = "dispatch"
    /\ registry' = [registry EXCEPT ![wtask[w]] = "clear"]
    /\ StepTo(w, "run", "none")
    /\ UNCHANGED <<durable, adapter, requests, boot, history>>

\* The runtime returns or raises, and the activation ends.
FinishSlice(w, outcome) ==
    /\ wpc[w] = "run"
    /\ registry' = [registry EXCEPT ![wtask[w]] = "absent"]
    /\ StepTo(w, "exit", outcome)
    /\ UNCHANGED <<durable, adapter, requests, boot, history>>

\* _ActiveLocalExecution.__exit__; an unclaimed job records nothing.
ExitActive(w) ==
    /\ wpc[w] = "exit"
    /\ active' = active \ {wtask[w]}
    /\ StepTo(w, IF wresult[w] = "unclaimed" THEN "forget" ELSE "record", wresult[w])
    /\ UNCHANGED <<durable, scheduled, pool, requests, registry, boot, history>>

\* Mutant of RecordOutcome: an exception of the slice is not recorded.
RecordOutcomeDropsException(w) ==
    /\ wpc[w] = "record"
    /\ IF wresult[w] = "exception" THEN UNCHANGED durable ELSE RecordResult(wtask[w], wresult[w])
    /\ StepTo(w, "forget", wresult[w])
    /\ UNCHANGED <<adapter, requests, registry, boot, history>>

\* _record_local_execution_outcome: the typed outcome in one transaction; a
\* result that cannot be stored becomes a failure.
RecordOutcome(w) ==
    /\ wpc[w] = "record"
    /\ \/ wresult[w] # "exception" /\ RecordResult(wtask[w], wresult[w])
       \/ RecordFailure(wtask[w])
    /\ StepTo(w, "forget", wresult[w])
    /\ UNCHANGED <<adapter, requests, registry, boot, history>>

\* Mutant of ForgetScheduled: the worker keeps its task.
ForgetKeepsTask(w) ==
    /\ wpc[w] = "forget"
    /\ scheduled' = scheduled \ {wtask[w]}
    /\ StepTo(w, "idle", "none")
    /\ UNCHANGED <<durable, active, pool, requests, registry, boot, history>>

\* _forget_scheduled, in the finally block of _run_scheduled.
ForgetScheduled(w) ==
    /\ wpc[w] = "forget"
    /\ scheduled' = scheduled \ {wtask[w]}
    /\ wpc' = [wpc EXCEPT ![w] = "idle"]
    /\ wtask' = [wtask EXCEPT ![w] = NoTask]
    /\ wresult' = [wresult EXCEPT ![w] = "none"]
    /\ UNCHANGED <<durable, active, pool, requests, registry, boot, history>>

WorkerStep(w) ==
    \/ TakeJob(w)
    \/ EnterActive(w)
    \/ Claim(w)
    \/ RaiseBeforeRun(w)
    \/ Activate(w)
    \/ \E outcome \in SliceOutcome : FinishSlice(w, outcome)
    \/ ExitActive(w)
    \/ RecordOutcome(w)
    \/ ForgetScheduled(w)

-----------------------------------------------------------------------------
(***************************************************************************)
(* Process loss and startup reconciliation                                 *)
(***************************************************************************)

\* Everything but the SQLite rows is lost.
Crash ==
    /\ phase # "down"
    /\ crashes < MaxCrashes
    /\ crashes' = crashes + 1
    /\ phase' = "down"
    /\ todo' = {}
    /\ scheduled' = {}
    /\ active' = {}
    /\ pool' = <<>>
    /\ wpc' = [w \in Workers |-> "idle"]
    /\ wtask' = [w \in Workers |-> NoTask]
    /\ wresult' = [w \in Workers |-> "none"]
    /\ rpc' = [r \in Threads |-> "idle"]
    /\ rtask' = [r \in Threads |-> NoTask]
    /\ registry' = [t \in Tasks |-> "absent"]
    /\ UNCHANGED <<durable, accepted, claimed>>

\* _reconcile_startup reads the interrupted Tasks ...
StartReconciliation ==
    /\ phase = "down"
    /\ phase' = "fail_interrupted"
    /\ todo' = {t \in Tasks : status[t] \in {"running", "cancel_requested"}}
    /\ UNCHANGED <<durable, adapter, workers, requests, registry, history>>

\* ... fails them one transaction at a time ...
FailInterrupted(t) ==
    /\ phase = "fail_interrupted"
    /\ t \in todo
    /\ RecordRecoveryFailure(t)
    /\ todo' = todo \ {t}
    /\ UNCHANGED <<phase, adapter, workers, requests, registry, history>>

\* Mutant of ListQueued: queued work is left for later.
ListNothing ==
    /\ phase = "fail_interrupted"
    /\ todo = {}
    /\ phase' = "wake_queued"
    /\ UNCHANGED <<todo, durable, adapter, workers, requests, registry, history>>

\* ... then reads the queued Tasks ...
ListQueued ==
    /\ phase = "fail_interrupted"
    /\ todo = {}
    /\ phase' = "wake_queued"
    /\ todo' = {t \in Tasks : status[t] = "queued"}
    /\ UNCHANGED <<durable, adapter, workers, requests, registry, history>>

\* ... and wakes each one that still has its command.
RecoverQueued(t) ==
    /\ phase = "wake_queued"
    /\ rpc[Boot] = "idle"
    /\ t \in todo
    /\ todo' = todo \ {t}
    /\ IF queued[t] = "none"
         THEN RecordRecoveryFailure(t) /\ UNCHANGED requests
         ELSE Goto(Boot, "wake", t) /\ UNCHANGED durable
    /\ UNCHANGED <<phase, adapter, workers, registry, history>>

\* The lifespan handler yields and requests are served.
Serve ==
    /\ phase = "wake_queued"
    /\ rpc[Boot] = "idle"
    /\ todo = {}
    /\ phase' = "serving"
    /\ UNCHANGED <<todo, durable, adapter, workers, requests, registry, history>>

BootStep ==
    \/ StartReconciliation
    \/ \E t \in Tasks : FailInterrupted(t)
    \/ ListQueued
    \/ \E t \in Tasks : RecoverQueued(t)
    \/ Serve

-----------------------------------------------------------------------------
ClientStep ==
    \E r \in Requests, t \in Tasks :
        \/ AcceptTask(r, t)
        \/ \E kind \in RequestKind : AcceptContinuation(r, t, kind)
        \/ CancelTask(r, t)

Next ==
    \/ ClientStep
    \/ \E r \in Threads : RequestStep(r)
    \/ \E w \in Workers : WorkerStep(w)
    \/ BootStep
    \/ Crash

Spec == Init /\ [][Next]_vars

\* A started thread keeps running: request threads finish their post-commit
\* effect, the pool serves its queue, every slice is bounded by budgets and
\* timeouts, and a lost process is restarted. Clients and crashes owe nothing.
Fairness ==
    /\ \A r \in Threads : WF_vars(RequestStep(r))
    /\ \A w \in Workers : WF_vars(WorkerStep(w))
    /\ WF_vars(BootStep)

FairSpec == Spec /\ Fairness

-----------------------------------------------------------------------------
(***************************************************************************)
(* Properties                                                              *)
(***************************************************************************)

\* A Task is queued exactly while its execution command is stored: admission,
\* continuation, claim, failure and cancellation each move the two rows
\* together, so a restart never meets queued work it cannot run, nor a stale
\* command of a Task that moved on.
QueuedIffCommand ==
    \A t \in Tasks : status[t] = "queued" <=> queued[t] # "none"

\* A Task waits for approval or input exactly while the continuation of that
\* kind is stored, so a blocked Task can always be resumed by the matching
\* request and a consumed or canceled continuation can never be resumed again.
WaitingIffPending ==
    \A t \in Tasks :
        /\ status[t] = "auth_required" <=> pending[t] = "approval_required"
        /\ status[t] = "input_required" <=> pending[t] = "user_input_required"

\* The worker holds a claimed slice whose outcome it has still to record.
Owns(w, t) ==
    /\ wtask[w] = t
    /\ wpc[w] \in {"dispatch", "run", "exit", "record"}
    /\ wresult[w] # "unclaimed"

\* Duplicate wake-ups, resumes and restarts never put two workers on one Task:
\* the scheduled set admits one job per Task until that job has ended.
OneWorkerPerTask ==
    \A v, w \in Workers : wtask[v] = wtask[w] /\ wtask[v] # NoTask => v = w

\* While requests are served, a running or cancel-requested Task is owned by a
\* worker that will record its outcome: neither a cancellation that finds the
\* worker inactive, nor a failed submission, nor a restart leaves an orphan.
RunningHasWorker ==
    phase = "serving" =>
        \A t \in Tasks : status[t] \in {"running", "cancel_requested"} =>
            \E w \in Workers : Owns(w, t)

\* An accepted command is claimed at most once, over duplicate wake-ups,
\* cancellation races and any number of restarts ("at most one worker can
\* delete the command and transition the Task to running").
ClaimedAtMostOnce ==
    \A t \in Tasks :
        claimed[t] + (IF queued[t] = "none" THEN 0 ELSE 1) <= accepted[t]

\* The durable rows of a Task tell one story over every race and restart: status,
\* command and continuation agree, and no accepted command is claimed twice.
RowsConsistent ==
    TypeOK /\ QueuedIffCommand /\ WaitingIffPending /\ ClaimedAtMostOnce

\* A late outcome, a repeated cancellation or startup reconciliation never
\* moves a Task out of completed, canceled or failed, and never stores a
\* command or a continuation for it.
TerminalIsFinal ==
    [][\A t \in Tasks : status[t] \in TerminalStatus =>
            /\ status'[t] = status[t]
            /\ queued'[t] = "none"
            /\ pending'[t] = "none"]_vars

\* A Task whose cancellation was accepted ends canceled whatever its slice
\* returns; only startup reconciliation may report it failed.
CancellationWins ==
    [][\A t \in Tasks : status[t] = "cancel_requested" =>
            status'[t] \in {"cancel_requested", "canceled"}
                \cup (IF phase = "fail_interrupted" THEN {"failed"} ELSE {})]_vars

\* The initial command of an accepted Task always has someone left to run it
\* while requests are served: its request thread or a scheduled job.
InitialCommandIsWatched ==
    phase = "serving" =>
        \A t \in Tasks : queued[t] = "initial" =>
            \/ t \in scheduled
            \/ \E r \in Threads : rtask[r] = t /\ rpc[r] \in {"wake", "submit_failed"}

\* The initial command of every accepted Task is eventually claimed or the Task
\* is closed; and queued work that survives a process loss does not stay queued,
\* because startup reconciliation wakes it or fails it.
QueuedWorkIsStarted ==
    \A t \in Tasks :
        /\ queued[t] = "initial" ~> queued[t] # "initial"
        /\ phase = "down" /\ status[t] = "queued" ~> status[t] # "queued"

\* Every stored execution command is eventually claimed or closed: the
\* scheduled and active sets "are wake-up optimizations only".
CommandProgress ==
    \A t \in Tasks : queued[t] # "none" ~> queued[t] = "none"

-----------------------------------------------------------------------------
(***************************************************************************)
(* The inductive invariant behind the safety properties                    *)
(***************************************************************************)

InPool(t)     == \E i \in 1..Len(pool) : pool[i] = t
HasWorker(t)  == \E w \in Workers : wtask[w] = t

\* A job for t exists in at most one place: the thread that is about to submit
\* it, the pool, or one worker; and t is in the scheduled set as long as it
\* does.
JobsInv ==
    /\ \A w \in Workers : wpc[w] # "idle" => wtask[w] \in scheduled
    /\ \A i \in 1..Len(pool) : pool[i] \in scheduled /\ ~ HasWorker(pool[i])
    /\ \A i, j \in 1..Len(pool) : pool[i] = pool[j] => i = j
    /\ \A r \in Threads : rpc[r] = "submit" =>
            rtask[r] \in scheduled /\ ~ HasWorker(rtask[r]) /\ ~ InPool(rtask[r])
    /\ \A q, r \in Threads :
            rpc[q] = "submit" /\ rpc[r] = "submit" /\ rtask[q] = rtask[r] => q = r

\* Who may be doing what in each phase of the process.
BootInv ==
    /\ phase \in {"down", "fail_interrupted"} =>
            /\ scheduled = {} /\ pool = <<>>
            /\ \A w \in Workers : wpc[w] = "idle"
            /\ \A r \in Threads : rpc[r] = "idle"
    /\ phase = "wake_queued" =>
            /\ \A t \in Tasks : status[t] # "cancel_requested"
            /\ \A r \in Requests : rpc[r] = "idle"
    /\ phase = "serving" => rpc[Boot] = "idle"

\* A running or cancel-requested Task is owned by a worker, or the process is
\* down, or reconciliation has it on its list.
OwnerInv ==
    \A t \in Tasks : status[t] \in {"running", "cancel_requested"} =>
        \/ \E w \in Workers : Owns(w, t)
        \/ phase = "down"
        \/ phase = "fail_interrupted" /\ t \in todo

\* A Task that a thread, the scheduled set or reconciliation knows of has a row,
\* and no committed row is still created.
AdmittedInv ==
    /\ \A t \in Tasks : status[t] # "created"
    /\ \A t \in scheduled \cup todo : status[t] # "absent"
    /\ \A r \in Threads : rpc[r] # "idle" => status[rtask[r]] # "absent"

\* The active set holds only tasks whose worker is inside _ActiveLocalExecution.
ActiveInv ==
    \A t \in active :
        \E w \in Workers : wtask[w] = t /\ wpc[w] \in {"claim", "dispatch", "run", "exit"}

\* A worker past its claim leaves no initial command behind, unless it failed and
\* has still to record it; every initial command has a thread, a scheduled job
\* or reconciliation to start it.
WatchInv ==
    /\ \A w \in Workers :
            \/ wpc[w] \in {"dispatch", "run", "forget"}
            \/ wpc[w] \in {"exit", "record"} /\ wresult[w] # "exception"
            => queued[wtask[w]] # "initial"
    /\ \A t \in Tasks : queued[t] = "initial" =>
            \/ t \in scheduled
            \/ \E r \in Threads : rtask[r] = t /\ rpc[r] \in {"wake", "submit_failed"}
            \/ phase \in {"down", "fail_interrupted"}
            \/ phase = "wake_queued" /\ t \in todo

\* The strengthening of the safety properties that every step preserves.
IInv ==
    /\ TypeOK
    /\ QueuedIffCommand
    /\ WaitingIffPending
    /\ ClaimedAtMostOnce
    /\ OneWorkerPerTask
    /\ JobsInv
    /\ BootInv
    /\ OwnerInv
    /\ AdmittedInv
    /\ ActiveInv
    /\ WatchInv

-----------------------------------------------------------------------------
(***************************************************************************)
(* Refinement                                                              *)
(***************************************************************************)

\* The abstract process state a durable status stands for.
ProcessState(s) ==
    IF s \in {"absent", "created"} THEN "absent"
    ELSE IF s = "queued" THEN "ready"
    ELSE IF s \in {"running", "cancel_requested"} THEN "busy"
    ELSE IF s \in WaitingStatus THEN "blocked"
    ELSE "done"

Process == INSTANCE AgentProcess WITH
    state  <- [t \in Tasks |-> ProcessState(status[t])],
    grants <- accepted,
    runs   <- claimed

\* The execution path with its threads, wake-up sets and restarts implements
\* the Agent Process promised to clients: one slice per grant, no slice run
\* twice, and every started slice ends.
ImplementsProcess == Process!Spec

\* The part of ImplementsProcess without fairness.
ImplementsProcessSafety == Process!Safety
=============================================================================
