# A TLA+ model of the vermay control plane

vermay is an agent runtime. An HTTP/A2A server admits messages, routes each one
to a direct answer, a local Task or a child agent, runs local Tasks on a LangGraph
loop in a thread pool, records every side effect of a tool in a ledger, streams
Task events to clients, and keeps everything it may need after a restart in one
SQLite database. This directory models the parts whose correctness depends on the
order of steps of several threads, on restarts, and on late or repeated calls. The
source paths below are relative to the repository root.

## 1. The system

| Part | State it keeps | Operations | Talks to | What is hard |
|---|---|---|---|---|
| Task lifecycle (`vermay/main_agent/lifecycle.py`, `models.py`) | the status of a Task | two transition tables | everyone who writes a status | which late write is still accepted |
| Bounded local execution (`local_execution.py`, `executor.py`, `vermay/execution_context.py`, `lifecycle_transactions.py`) | scheduled and active sets, pool queue, cancellation registry | wake, submit, claim, activate, record, forget | core (callbacks), store | wake-ups and signals that race the start or the end of a slice; process loss |
| Core task commands (`core.py`, `task_outcomes.py`) | task, queued-command and continuation rows | accept, continue, cancel, record outcome, reconcile, retry | store, adapter, ledger | rows that must move together; outcomes of Tasks that moved on |
| Tool Invocation Ledger (`invocation_ledger.py`, `langgraph_runtime/nodes.py`, `permission.py`) | one record and one approval per side-effecting call | prepare, approve, begin, finish, mark uncertain, cancel | ToolNode threads, core, operator | calls of one response run concurrently; a crash between the effect and its record; replayed approval node |
| Message admission (`core.py`, `store.py`, `api/a2a/routes.py`) | ingress, route decision, outcome reference | reserve, route, dispatch, resolve, fail, abort, reconcile | router, responder, child agent | duplicate deliveries; aborted streams; Contexts deleted meanwhile |
| Context deletion (`core.py`, `store.py`) | all rows of a Context | check, list again, delete | admission, execution, proxies | checks and deletion are separate; foreign keys are the last line |
| Task events and SSE (`store.py`, `task_event_subscription.py`, `projection.py`, `routes.py`, `adapter.py`) | event log, notifier version, cursor of a stream | append, notify, observe, list, wait, send, resubscribe | every writer of a status; clients | lost wake-ups; status and events read separately; dropped connections |
| Remote delegation (`core.py`, `task_outcomes.py`, `remote_agent.py`) | proxy Task, delegation, registration | delegate, refresh, cancel, record snapshot, edit and delete a registration | child A2A agents | snapshots carry no order; cards change; the reply is lost |
| Manual retry (`core.py`, `store.py`) | lineage of attempts | retry | ledger, execution, deletion | simultaneous clicks; eligibility that changes; a restart before the wake-up |
| LangGraph loop and budgets (`langgraph_runtime/`) | graph state, counters, checkpoint | nodes, routing, limits, interrupt, resume | model, tools, ledger | off-by-one at a limit; what a resume replays |
| Storage (`vermay/storage.py`, `lifecycle_transactions.py`) | the database, its lock, after-commit callbacks | open, reset, migrate, transaction | everyone | a crash between two schema statements; nesting, rollback, callbacks that raise |
| Routing and context cut (`router*.py`, `context.py`) | none (pure) | decide, repair an answer, cut | admission, runner | precedence of rules; conversation and registrations that move between two reads |
| SSH, MCP, model clients (`vermay/infra/`, `mcp/`, `model_clients/`) | sessions, processes | call with timeout, read an answer | tools, graph | a timeout, a deadline and a cancellation against a late answer; children that ignore signals; text that only looks like an action |
| API, CLI, web console | none of their own, or presentation | parse, project, render | all | merging a snapshot with replayed events |

`PROJECT.json` lists every part with its status and, under `hazards`, each place
where this code is exposed to something a test would hardly reach, with the
properties aimed at it.

## 2. Modules

| Module | Models | Notes |
|---|---|---|
| `TaskLifecycle` | the two status tables | used by all modules with a Task status |
| `AgentProcess` | abstract: what a client is promised of a local Task | refined by `LocalExecution` |
| `LocalExecution` (+ `MCLocalExecution`) | local execution, core task commands, reconciliation | the core of the project |
| `ToolLedger` | the ledger of one Task with the graph slice that drives it | |
| `MessageAdmission` | ingress, routes, Context deletion | |
| `TaskEventStream` | event log, notifier, SSE streams | |
| `RemoteProxy` | one delegation, its proxy, its agent's registration | |
| `GraphLoop` (+ `MCGraphLoop`) | the nodes and edges of the graph, the budgets, pauses and resumes | |
| `AtomicStore` | abstract: what the other modules assume of a transaction | refined by `AgentStore` |
| `AgentStore` | opening and migrating the database, nested transactions, after-commit effects | |
| `TaskRetry` | manual retry and the lineage of attempts | |
| `CapabilityCalls` | ssh, MCP and model calls with explicit time | |
| `ContextCut`, `RouterDecision`, `ModelAction` | pure functions: the conversation cut, the route decision, the reading of a model's answer | |
| `FirstTurn` | composes the three from the arrival of a message to its first action | |
| `LocalExecution_proofs`, `ToolLedger_proofs`, `MessageAdmission_proofs`, `TaskEventStream_proofs`, `RemoteProxy_proofs`, `GraphLoop_proofs`, `AgentStore_proofs` | theorems about the module each is named after | checked by TLAPS |
| `TaskTurn_proofs` | theorems about `FirstTurn`, `CapabilityCalls` and `TaskRetry` | checked by TLAPS; the three share no variable |

Each module has one action per step between two points at which another thread can
get in. `AgentStore` runs an outer transaction under one lock, so a transaction is
one step in the other modules (the module `AgentStore` shows that this is sound); a
remote, model or tool call is a step between two steps of its caller. A definition
under a comment "mutant" is a deliberately wrong variant of the definition it
precedes, used to show that a property can fail; no specification uses it.

### LocalExecution

`status`, `queued` and `pending` are the three rows of a Task; `scheduled`,
`active` and `pool` are the adapter's sets and the work queue of the
`ThreadPoolExecutor`; `wpc` follows a worker through `_run_scheduled` (`enter`,
`claim`, `dispatch`, `run`, `exit`, `record`, `forget`), `rpc` a request thread
from its commit to its post-commit effect (`wake`, `submit`, `signal`), `phase` the
process through `_reconcile_startup`. `AcceptTask`, `AcceptContinuation` and
`CancelTask` are the lifecycle transactions, `Wake`/`Submit`/`SignalCancellation`
their effects, `Crash` loses everything but the rows, and `StartReconciliation` to
`Serve` are the startup. What a slice does is left open: it returns any outcome the
recorder distinguishes, or raises.

`AgentProcess` says the same without threads: a process is granted one slice at a
time, runs each granted slice at most once, ends every slice it starts and never
leaves *done*. `ImplementsProcess` maps `accepted` to grants, `claimed` to runs and
the status to a process state.

### ToolLedger

The records and approvals of one Task, the slice that runs the graph nodes
(`call_model`, `check_permission`, approval, user input, rejection, `tools`), one
thread per call in `tool_call_wrapper`, the operator, cancellation and process
loss. An effect is a tool with its arguments, which is what the arguments digest
tells apart; the permission gate is a partition of the effects into free, guarded
and forbidden. A record is named by loop and position: the model adapters give
every call of a response an id of its own. Read-only calls have no record and are
left out. An exception that leaves the wrapper becomes an error message of the
ToolNode, which is library code. Here the model-call, tool-call, failure and time
budgets are stops that may come at any time; `GraphLoop` has them exactly.

### MessageAdmission

Deliveries of a messageId, each on its own thread, go through reservation, router,
route decision and one of the three dispatches; a streamed answer may be dropped
before or after its last transaction; a restart fails the residual ingresses;
`delete_context` checks, lists again and deletes, where the foreign keys
(`PRAGMA foreign_keys=ON`, `vermay/storage.py`) of a Task's first event and queued
command refuse to lose a Task nobody listed. Every message opens a Context of its
own. Context ids are never reused, so the lives of a Context under one messageId are
numbered; that is how a late writer is recognised. The rows of a message, its
Context and its ingress come and go together and are one value.

### TaskEventStream

`log` is the event table of one Task; event ids grow in commit order because SQLite
has one writer, so an event is its position. The notifications of a commit
(`pending`) run later, on the thread that committed. A stream follows
`wait_for_task_events` (list, observe, list, wait) and `_stream_message_result_events`
(send, read status, trailing batch). A batch is the set of projected events that were
read, sent least id first, which is the order of the query. Audit events advance the cursor and are not
sent, so the client's last id may lag behind it. Clients lose connections and
resubscribe. The task payload that precedes the first batch is left out.

### RemoteProxy

`_handle_remote_agent` with the call in the middle, two threads that refresh the
proxy (one of them an SSE stream, which polls after every wait) or cancel it, and
the registration, which may be redirected to another endpoint, disabled or deleted
meanwhile. `snapshot[r]` is what a thread brought back and has not recorded yet: by
then the child, the proxy or the Context may have moved on. The child is external:
it may go back and forth between waiting and working, report states vermay does not
know, and publish its answer after it completed, but it does not leave a terminal
state. A call may raise before or after the child acted on it. An endpoint that
never had the Task answers with an error or with some other Task.

### GraphLoop

One action per node of the graph, with the edges of `graph.py` in the node that
decides them: `CallModel`, the provider call that answers (`ModelAnswers`) or fails
(`ModelFails`), `CheckPermission`, `ApprovalRequired`, `UserInputRequired`,
`RejectTool`, one `RunTool` per call of the batch, `RecordToolMessages` and
`IncrementLoop`. The comparisons of `execution.py` are exact, each at the place
where the code reads it, a cancellation before the limit. A response is the sequence
of what the gate says of its calls; an observation is what a ToolMessage is
normalized to. The policy is chosen at the start and may be any in `Policies`. Time
is the one fact the code asks for: has the deadline passed. It passes at any moment,
also while the Task waits for an operator. A resume re-enters the node that
interrupted with the counters of the checkpoint; `invoked` and `executed` count what
was really started, independently of the counters the code keeps.

### AgentStore and AtomicStore

`AgentStore` begins with a database that is new, of an older version, of a retired
family or not vermay's at all, and goes through `setup()` statement by statement:
DDL commits by itself, so a process loss may fall between any two statements and
before the version row. Once open, threads run transactions with nested scopes under
the re-entrant lock, single statements outside a transaction, rollbacks from any
depth, and the callbacks that run after the lock is released, each of which may
raise. `KeepsPromise` states that this is `AtomicStore`: a unit becomes durable at
once or not at all, and an effect is announced only after its rows are durable.

### TaskRetry

A click reads the source, checks that it is a failed, retryable local Task without
side effects, looks for an earlier retry, and creates the next attempt in a
transaction that checks again; the attempt is woken after the commit. Clicks of two
operators, the two steps of a Context deletion and a process loss interleave with
it. How a Task runs is reduced to claim, side effect and end.

### CapabilityCalls

The three kinds of blocking call with a clock. The ssh client polls its child, the
cancellation signal and the deadline; it terminates, waits for the grace period and
kills. The MCP client runs a session under `asyncio.wait_for` and knows neither the
deadline nor the signal. The model client reads both once, then passes a timeout
that the HTTP library applies to each socket wait. A thread that is not blocked goes
on before time passes; a child, a server and a provider do what they like, including
nothing.

### FirstTurn

The input is appended to its conversation; the router is shown one cut of it and
decides; the responder or the worker is shown another, after further messages have
arrived; the worker's model answers and the answer becomes a final text, tool calls
or an error. `ContextCut` goes through the window from the newest message as
`_bound_history` does, a recursive function of the steps, with the lengths of the
texts as data. `RouterDecision` takes
the model's answer as the record of the fields the classifier reads plus the words
found in the raw text, and tells a `ValueError`, which leads to the raw text
(`Unusable`), from the exceptions that leave `classify` (`Failed`): the `TypeError` of
a route that is a list or an object, the `OverflowError` of an integer confidence that
is no float, the `RecursionError` of too deep a nesting. The metadata of a message can
raise the first two as well. `ModelAction` takes a text as a sequence of pieces: prose,
tags of a reasoning block, broken objects, objects told apart by their action. The
reference definitions in the properties are stated without the loop and the repairs: which
messages must be shown, what a route must rest on, what the author of an action must
have written.

## 3. Runs

`tlc -config <cfg> <module>`; the runs check no deadlock, because a system whose
Tasks are all terminal and whose clients are silent rightly stops.

| Run | Bounds | Shows |
|---|---|---|
| `execution_safety` | 2 Tasks, 2 workers, 2 request threads, 3 slices per Task, 2 process losses, symmetry | rows agree and no command is claimed twice; one worker per Task; no running Task without an owner while serving; terminal is final; cancellation prevails |
| `execution_liveness` | 2 Tasks, 1 worker, 2 slices, 1 loss | initial commands and recovered work make progress; `AgentProcess` with its liveness is implemented |
| `execution_lost_wakeup` (violation) | 1 Task, 1 worker, 2 slices | a continuation accepted between the recorded outcome and `_forget_scheduled` is stored and never started in this process |
| `tool_ledger` | 2 loops of 2 calls over a free, a guarded and a forbidden effect, 1 failing write | no started effect is on record as not started and each identity runs once; operator and gate prevail, a batch goes as a whole; every end settles the ledger; settled records stay; a started effect is settled in the end |
| `admission` | 2 deliveries of one messageId, 1 deletion, 1 restart, 1 failing write | one routing and one outcome per message, the one the ingress names; clients are never told contradictory things; deletion keeps live Tasks; a settled ingress stays; an admitted message is settled |
| `event_stream` | 1 stream, 6 events, 2 connections lost or renewed, 1 failing read | projected events arrive in order, without gap or repetition, all of them when the stream stops; no sleep on an unread event whose notification has run; streams of terminal Tasks end |
| `remote_proxy` | 1 stream and 1 other thread, 2 endpoints, 6 child states, 1 edit of the registration | the proxy never contradicts its child; its history only advances and has one answer; delegation, proxy and registration stand together; the stream of a finished child ends |
| `graph_loop` | 144 policies, responses of up to 2 calls | model and tool work stay within the policy over pauses and resumes; a reported stop reason holds; nothing runs in a batch that was not cleared; every slice ends |
| `agent_store` | 2 threads, 2 units of up to 2 writes, 2 process losses | a store that opens has its whole schema; transactions are atomic and effects follow commits (`AtomicStore`); committed effects are announced |
| `task_retry` | 3 attempts, 2 operators, 1 process loss | the lineage is a chain of safe retries; all clicks are told of the same attempt; an accepted attempt is run, or failed by a restart |
| `capability_calls` | 1 ssh, 1 MCP and 1 model call, timeout 2, grace 1, 1 further piece of an answer, time 2 | calls stop when they must and leave no child behind; the reported outcome is what happened; every call returns |
| `first_turn` | 1 agent and 1 unknown id, text lengths 0, 2 and 5, up to 3 earlier messages and 1 later, texts of up to 4 pieces | the context is the cut at the input; the route has a sound reason; a tool call was written by the model outside its reasoning |

Why the bounds are enough to mean something. Two Tasks are needed because workers
and the pool are shared; three slices let an approval follow an input; two losses
let the second hit reconciliation. In the ledger a second loop is where a repeated
effect would show, and a second call where concurrency inside a batch would. Two
deliveries are an owner and a duplicate, or one delivery in each of two lives of the
Context. Streams only read and never meet, so one stream is as good as several;
six events hold a wait, a resume with its audit event and an end. Snapshots of two
threads are the least that can be recorded in the wrong order; one edit of the
registration redirects, disables or re-registers it, and the six child states
include each local status class, a second terminal state and an unknown one
(`auth-required`, `failed`, `rejected` and a missing state take the same branches).
The policies of `graph_loop` put each limit below, at and above what two rounds of
two calls need, so that each is the one that stops the run in some behaviour. Two
losses let the second hit the reopening of a half-migrated store. Three attempts
make a retry of a retry. The three times of `capability_calls` order timeout,
deadline and cancellation in every way, and one further piece is enough for an
answer to outlive a timeout that restarts with each piece. In `first_turn` the three
policies are scaled down with their order kept; the lengths are an empty text, one
that fits and one that does not; four pieces hold a reasoning block and an object on
either side. A behaviour varies either the conversation or the answers (`focus`),
because the cut reads no answer and the answers read no conversation.

The violation run states what a document of the repository says and shows a behaviour
of the code that departs from it; `findings` in `PROJECT.json` quotes both.

## 4. Fairness

Only threads that have been started owe anything.

- `LocalExecution`: request threads finish their post-commit effect, pool threads
  serve their queue (a slice is bounded by its budgets and timeouts), and a lost
  process is restarted and reconciled. Clients and crashes owe nothing.
- `ToolLedger`: the worker, and each ToolNode thread while the process lives.
- `MessageAdmission`: a request thread runs to its end; the model and the child
  answer or time out; a stream is consumed, or dropped, in which case its generator
  is closed. `AdmittedIsSettled` makes an exception for a failing write: the code
  then leaves the ingress to the next restart.
- `TaskEventStream`: the reader alone. Its wait times out after a second, so nothing
  is assumed of the notifications.
- `RemoteProxy`: the open stream alone, which asks the child again after every wait.
  Nobody polls a proxy without a stream, so nothing is claimed about one.
- `GraphLoop`: the worker; a provider call and a tool return or time out. Operators,
  deadlines and cancellations owe nothing.
- `AgentStore`: a starting process goes on starting, and a thread inside a
  transaction leaves it and runs the callbacks it took over.
- `TaskRetry`: operators' request threads, and the pool for the Tasks it was woken
  for.
- `CapabilityCalls`: time passes, and a thread that began a call goes on with it.
  Nothing is assumed of ssh children, MCP servers and providers.
- `FirstTurn` has no liveness property and no fairness.

## 5. Proofs

`tlapm <module>_proofs.tla` checks the proofs of a component, for any values of its
constants under the assumption named in the table (the runs evaluate it). Each
module proves `InductiveInvariant`, that is `Spec => []IInv`, and from it what the
table lists. `TaskTurn_proofs` does so for three components whose names are kept
apart (`RetryInvariant` for `Spec` of `TaskRetry`, `CallsInvariant` for `CallsSpec`,
`RouteInv` for `TurnSpec`).

| Component and assumption | Theorem | Property |
|---|---|---|
| `LocalExecution`: `NoTask` is no Task, `Boot` no request thread, the bounds are naturals (`ConstantsAssumption`) | `TypeCorrect` | `TypeOK` |
| | `RowsAgree`, `SingleWorker`, `RunningTasksAreOwned` | `RowsConsistent`, `OneWorkerPerTask`, `RunningHasWorker` |
| | `InitialCommandsAreWatched` | the initial command of an accepted Task always has a thread or a job left to run it |
| | `TerminalTasksStay`, `CancellationPrevails` | `TerminalIsFinal`, `CancellationWins` |
| | `ExecutionRefinesProcess` | `Spec` implements `AgentProcess!Safety` |
| `ToolLedger`: guarded and forbidden effects are disjoint sets of effects, the bounds are naturals and the loop and call bounds positive (`LedgerAssumption`) | `EffectsAreRecorded`, `NothingRunsUnapproved`, `EndOfTaskSettles` | `StartedEffectIsOnRecord`, `OperatorDecides`, `EndSettlesLedger` |
| | `SettledRecordsStay` | `SettledIsFinal` |
| `MessageAdmission`: finitely many deliveries, the bounds are naturals (`AdmissionAssumption`) | `MessageIsAdmittedOnce`, `ClientsAgree`, `DeletionSparesLiveTasks` | `OneOutcomePerMessage`, `RepliesAgree`, `LiveTaskIsKept` |
| | `SettledIngressStays` | `IngressIsFinal` |
| `TaskEventStream`: room for the first two events, the bounds are naturals (`StreamAssumption`) | `ClientsMissNothing`, `WakeUpsAreKept` | `DeliveredWithoutGap`, `NoLostWakeup` |
| `RemoteProxy`: the stream is a reader, the states a child reports are wire states and include `working` (`RemoteAssumption`) | `RowsAgree`, `ProxyEndsAsChild`, `HistoryIsMonotonic` | `RowsStandTogether`, `TerminalMatchesChild`, `HistoryAdvances` |
| `GraphLoop`: policies are well formed, a response has room for a call (`PolicyAssumption`, `BatchAssumption`) | `PolicyBoundsWork`, `ReasonsHold` | `WorkWithinPolicy`, `StopIsDue` |
| | `WorkIsPermitted` | `WorkOnlyWhenPermitted` |
| `AgentStore`: the bounds are naturals, the free lock's owner is no thread (`StoreBounds`) | `OpenStoreIsComplete` | `OpenMeansComplete` |
| | `StoreIsAtomic` | `KeepsPromise`: `Spec` implements `AtomicStore` |
| `TaskRetry`: room for a Task, the bounds are naturals (`RetryBounds`) | `RetriesFormSafeChains`, `OperatorsAgree` | `LineageIsSafe`, `ClicksConverge` |
| `CapabilityCalls`: timeout and grace period are positive (`CallBounds`), a call goes through one adapter (`OneAdapter`) | `CallsStopInTime`, `CallsAreTruthful` | `StopsInTime`, `ResultIsTruthful` |
| `FirstTurn`: an agent's id is a string that is present (`AgentIds`), lengths are naturals (`LengthsAssumption`, `SuffixAssumption`) | `RoutesAreSound`, `ActionsAreAuthored`, `ContextsAreCuts` | `RouteIsSound`, `ActionIsAuthored`, `ContextIsTheInputCut` |

None of the safety properties is inductive by itself. What had to be found, and why:

- `LocalExecution`. That a running Task has an owner depends on there being at most
  one job per Task; `JobsInv` says that a job is in exactly one of three places (a
  thread about to submit it, the pool, one worker) and that its Task is in the
  scheduled set as long. That a restart leaves nothing running depends on what each
  phase of reconciliation has already visited (`BootInv`, `OwnerInv`). That a command
  is never stranded needs to know which worker positions are past the claim
  (`WatchInv`). `AdmittedInv` and `ActiveInv` say that whatever a thread or a set
  mentions has a row, and that the active set has its workers. The effect of a row
  transaction on one Task (`RowEffect...`) is stated once and used for all of them;
  refinement then takes one lemma per step.
- `ToolLedger`. Approval is asked for a whole batch before any of it runs, and the
  approval node runs again from its beginning after every answer; `ApprovalInv`
  says which records the answers taken so far belong to, and `BatchInv` that each
  decision is about the call's own record. `ToolInv` follows one thread through
  begin, effect and finish: a record is running exactly while its thread is between
  the two. `HistoryInv` says that earlier turns left only settled effects, so that a
  new preparation, which looks for the newest record of the same effect, cannot start
  it again; that a newest record exists is the least-number principle.
- `MessageAdmission`. `OwnerInv` says that an admission in progress has one delivery
  that may still settle it, `ThreadInv` what each delivery holds at each place,
  including that its life is the current one or an earlier one: a late writer either
  owns the ingress or finds it gone. `LifeInv` counts lives against deletions.
  `DeletionInv` says that the Tasks a deletion has listed are terminal and stay so.
  `StoredInv` and `ReplyInv` tie stored outcome and replies to the ingress row.
- `TaskEventStream`. `NotifierInv`: version plus pending notifications is the length
  of the log. `Wake`: the observed version is no newer than the cursor once the log
  has been read again, so a sleeper that is behind has a notification to come.
  `Position`: the projected events between the client's last one and the cursor are
  exactly the batch, which makes a resubscription from the client's last id, not
  from the cursor, lose nothing.
- `RemoteProxy`. `SettledInv`: a terminal state that some thread holds in its hands
  is the state of the child, because a child does not leave it; so it does not
  matter which of several snapshots is recorded last. `StageInv` says what sender
  and readers hold at each place.
- `GraphLoop`. The counters are written after the work and the limits read before
  it; `ModelInv` and `ToolInv` say by how much a counter lags at each node,
  `FailureInv` and `ReasonInv` that a limit reached earlier in the round has left
  its reason, `ClearedInv` what the gate and the operator have said of the batch.
- `AgentStore`. `ProgressInv`: the statements before the current one have run and the
  versions before the current one are recorded; `AppliedInv` is its durable part,
  which survives a crash; `OriginInv`: nothing is migrated before a database of
  other origin is refused or emptied. `UnitInv`: rows of the open transaction are
  new, and callbacks taken over are for durable rows. Refinement maps every
  statement before the outermost commit to a stutter.
- `TaskRetry`. `CommandsInv`: only a queued Task has a command, so a failed Task is
  not moved again; `UniqueInv` extends uniqueness to rows that a deletion removed;
  `KnownInv` relates what the operators' threads have read to the rows.
- `CapabilityCalls`. A bound on the time a call has taken is not preserved by the
  step that lets time pass unless the bound on the current wait is known as well.
  `SshTimes` carries, from place to place, that the limit lies within the deadline,
  that a wait lies within the limit and within one poll, that a stop lies within the
  grace period after either, and how old a cancellation can be at each of them;
  `McpTimes` and `ModelTimes` do the same for the other adapters, where every piece of
  an answer adds one limit. `SshPlace`, `McpPlace` and `ModelPlace` say what process
  a call has at each place. Steps that return and steps that go on are treated by two
  lemmas (`ReturnKeeps`, `GotoKeeps`).
- `FirstTurn`. `RouteInv` says that the router model is asked only where the metadata
  leaves the route open and that nothing is heard of it before. The rest is about
  operators: a usable payload names its route and agent (`PayloadIsReasoned`), a
  complete reply is usable (`CompleteIsUsed`), another exception has one of its two
  causes (`RaisedPayload`), and the search of the raw text finds no delegation
  (`RawTextIsReasoned`). For the action, `ReasoningIsTheBlock` shows that
  the non-greedy expression for a block and the declarative notion of being inside a
  block agree at every position, by the least-number principle; `DecisionIsAuthored`
  follows the three attempts of `parse_json_decision`.
- `FirstTurn`, the context. `CutInv`: the conversation is numbered without a gap, the
  input is one of its messages once it has arrived, and a context on display is the
  cut through it (`IsCut`). The work is in `ContextIsCut`, which holds for every
  conversation and every policy with room for a message. The library's induction
  theorems cannot be used here, since they take an operator; `Stepwise` is induction
  over a set of numbers, from the least-number principle, and `StepwiseExists` shows
  with it that a function defined step by step exists, so that `BoundHistory` and
  `Characters` satisfy their recursion. The induction hypothesis of the loop is
  `Through(k, ...)`: what the selection and the remaining characters are after the `k`
  newest messages, and that a message with text is passed over only when nothing
  remains (`FirstKept`, `NextKept`). `WindowIs` shows that the query returns the run
  of messages that ends with the input.

Each conjunct was checked by TLC with the constants of the run before it was proved.
The proofs have one lemma or step per action and in it one step per conjunct that the
action can disturb.

Only model-checked: liveness and the fairness-dependent part of `ImplementsProcess`
(the prover has no rule for fairness here). Every other property of the passing runs is
proved.

## 6. Observations

Behaviours of the code met while modelling that a maintainer may want to know. The
models contain them; the properties are stated so that they hold in spite of them.

- *Execution.* A cancellation signalled between the claim of a command and the
  activation of its context finds no active execution and is dropped
  (`vermay/execution_context.py:126`): the slice runs on, and its outcome is then
  recorded as canceled (compare `docs/components/backend/runtime/governed-execution-kernel.md:57`).
- *Ledger.* Two equal calls of one response are prepared before either runs, so both
  run (`vermay/main_agent/invocation_ledger.py:89`; compare
  `docs/components/backend/runtime/tool-invocation-ledger.md:70`). A record whose settling
  writes are refused by the store stays `running` (`core.py:1040`; compare line 64 of
  the same document). A provider that repeats a tool-call id in a later response
  meets the earlier record (`invocation_ledger.py:73`).
- *Admission.* A Task accepted after the check of `delete_context` and terminal
  before the store's listing is deleted under its live callback (`store.py:2141`;
  compare `docs/architecture/lifecycle-and-state.md:204`). The failure handler names
  the ingress by messageId alone (`core.py:503`).
- *Streams.* A stream that read `input-required` stops after its trailing batch
  without looking again (`api/a2a/routes.py:192`); a client that wants what follows
  resubscribes.
- *Proxies.* A reply whose state is unknown makes the proxy failed while the child
  works (`core.py:1487`); a call that raised after the child accepted leaves an
  orphaned child Task (`core.py:1480`).
- *Graph loop.* In the last permitted round `increment_loop` replaces
  `tool_argument_error` and `repeated_failure` by `budget_exhausted` (compare
  `governed-execution-kernel.md:89`). After an approval the tools run without a
  further look at the deadline (compare line 26). The `max_loops` node is never
  entered.
- *Storage.* A process lost between an `ADD COLUMN` and the row that records its
  version leaves a database that refuses to open: the column exists and the
  migration runs again.
- *Retry.* The handler of `IntegrityError` in `_retry_failed_task` cannot be entered
  by one process: the store lock puts the check first.
- *Routing.* `classify` falls back for an answer it cannot use only when that shows as
  a `ValueError` raised inside its `try` (`router_classifier.py:79`). These answers fail
  the message instead: one whose `route` is a list or an object (`TypeError`, line 221),
  one whose `confidence` is an integer too large for a float (`OverflowError`, lines 247
  and 320), one nested too deeply to decode (`RecursionError`, line 198), and one that
  is not usable and whose raw text names `remote_agent` alone (`ValueError` from the
  repair, line 82). A message whose metadata has such a `route` or `routeConfidence`
  fails in `decide` (`router.py:150,214`), after it was admitted.
- *Calls.* The timeout of a model request counts per socket wait, so a provider that
  sends slowly outlasts the Task's deadline; MCP calls see neither deadline nor
  cancellation. The last `communicate` after a kill has no timeout (`ssh.py:158`): the
  model takes the pipes of the killed child to close with it, which a descendant that
  holds them open would delay. A text limit no longer than the truncation suffix cuts without the
  suffix. The text of an unclosed reasoning block is still searched for an action.

## 7. Not modelled

- The web console and the CLI, progress, traces and evaluation present or report
  what the runtime did and keep no state the control plane depends on.
- Prompt and payload building, the MCP catalogues, selections and adapters, tool and
  skill registries, schemas and row mapping are data and conversions between data
  representations without steps of their own.
- Memory and runtime context are files read into the prompt. The parsing of API
  requests and the projection of records to A2A objects are stateless.
- A worker's answer whose decoding raises (nested too deeply, an integer of too many
  digits: `json_decision.py:22-25` catches `JSONDecodeError` only) is no piece of
  `ModelAction`; no action results from it.
- The LangGraph checkpointer, the HTTP library, asyncio and SQLite are external and
  modelled by how the code uses them.
- A store that refuses the transaction that records an outcome (`core.py:1331`) is
  outside the model of local execution: the worker ends and the Task waits for the
  next restart.

## 8. Plan

The modelling is complete up to section 7, and every safety property the runs check is
proved. Open:

1. A composition of `MessageAdmission` with `LocalExecution` at the acceptance of a
   Task, so that deletion is checked against the execution of the Task and not
   against a summary of it.
