--------------------------- MODULE CapabilityCalls ---------------------------
(***************************************************************************)
(* The blocking calls a Task makes: an ssh child process polled by         *)
(* SshClient.run, a stdio session with an MCP server under                 *)
(* asyncio.wait_for, and an HTTP request to a model provider.  The three   *)
(* adapters see the Task's cancellation signal and deadline to different   *)
(* degrees: ssh polls both, a model request reads both once before it      *)
(* starts, an MCP session sees neither and has only its own timeout.       *)
(*                                                                         *)
(* Time is explicit.  A thread that waits does so until until[c], the      *)
(* expiry of the timeout it passed to the call it is blocked in, and a     *)
(* thread that does not wait takes its next step before time passes: one   *)
(* tick is longer than the scheduling of a thread and than the polling     *)
(* interval of ssh.                                                        *)
(***************************************************************************)
EXTENDS Integers

CONSTANTS SshCalls, McpCalls, ModelCalls,  \* the calls, by adapter
          Timeout,      \* timeout_seconds of the adapters, in ticks
          Grace,        \* ticks a child gets between terminate and kill
          MaxChunks,    \* bound: pieces in which a provider sends its answer
          MaxTime       \* bound: ticks

ASSUME CallBounds ==
    /\ {Timeout, Grace, MaxTime} \subseteq Nat \ {0} /\ MaxChunks \in Nat

\* A call goes through one adapter.
ASSUME OneAdapter ==
    /\ SshCalls \cap McpCalls = {} /\ SshCalls \cap ModelCalls = {}
    /\ McpCalls \cap ModelCalls = {}

Calls == SshCalls \cup McpCalls \cup ModelCalls
NoDeadline == -1
NoCode == -1
Outcome == {"none", "ok", "failed", "timed_out", "canceled"}

VARIABLES
    now, deadline,  \* time.monotonic(), and the Task's deadline_monotonic
    cancel,         \* the cancellation signal of the active execution is set
    cancelled_at,   \* ghost: when it was set
    at,             \* call -> step
    frame,          \* call -> its locals: the effective timeout, when the wait
                    \*   started, when the current blocking operation expires,
                    \*   and the pieces of an answer received
    process,        \* call -> its process: "none", "running", "exited"
    code,           \* call -> exit code of the process, or how the server answered
    outcome, retryable  \* call -> what the caller is given

clock == <<now, deadline, cancel, cancelled_at>>
call_vars == <<clock, at, frame, process, code, outcome, retryable>>

NoFrame == [limit |-> 0, started |-> 0, until |-> 0, chunks |-> 0]

\* Places where a thread is blocked; everywhere else it goes on at once.
Blocked == {"wait", "term_canceled", "term_timed_out", "session", "templates",
            "closing", "cleanup", "request"}
Places == Blocked \cup {"idle", "spawn", "loop", "stop_canceled", "stop_timed_out",
                       "kill_canceled", "kill_timed_out", "done"}

CallsInit ==
    /\ now = 0 /\ deadline \in {NoDeadline} \cup 0..MaxTime
    /\ cancel = FALSE /\ cancelled_at = 0
    /\ at = [c \in Calls |-> "idle"] /\ frame = [c \in Calls |-> NoFrame]
    /\ process = [c \in Calls |-> "none"] /\ code = [c \in Calls |-> NoCode]
    /\ outcome = [c \in Calls |-> "none"] /\ retryable = [c \in Calls |-> FALSE]

Underway(c) == at[c] \notin {"idle", "done"}
Expired(c) == now >= frame[c].until

\* The graph's model node and tool node alternate; one batch runs in parallel.
ModelTurn == \A c \in SshCalls \cup McpCalls : ~Underway(c)
ToolTurn == \A c \in ModelCalls : ~Underway(c)

------------------------------------------------------------------------------
(* The context bound around a call.                                        *)

Least(a, b) == IF a < b THEN a ELSE b

\* remaining_seconds of the bound context.
Remaining == IF deadline > now THEN deadline - now ELSE 0

\* _effective_timeout_seconds: the Task can only shorten the adapter's bound.
EffectiveTimeout == IF deadline = NoDeadline THEN Timeout ELSE Least(Timeout, Remaining)

\* The operator's signal reaches the registry of active executions.
RequestCancellation ==
    /\ ~cancel /\ cancel' = TRUE /\ cancelled_at' = now
    /\ UNCHANGED <<now, deadline, at, frame, process, code, outcome, retryable>>

\* The call returns a result to its caller, or raises it.
Return(c, o, r) ==
    /\ at' = [at EXCEPT ![c] = "done"]
    /\ frame' = [frame EXCEPT ![c] = NoFrame]
    /\ outcome' = [outcome EXCEPT ![c] = o]
    /\ retryable' = [retryable EXCEPT ![c] = r]

\* The call goes on at a place, with its locals.
Goto(c, place, f) ==
    /\ at' = [at EXCEPT ![c] = place] /\ frame' = [frame EXCEPT ![c] = f]
    /\ UNCHANGED <<outcome, retryable>>

\* The call blocks for up to t ticks.
Block(c, place, t) == Goto(c, place, [frame[c] EXCEPT !.until = now + t])

------------------------------------------------------------------------------
(* ssh: one child process, polled.                                         *)

\* The timeout is computed, then cancellation and the deadline are looked at.
SshBegin(c) ==
    /\ at[c] = "idle" /\ ToolTurn
    /\ IF cancel THEN Return(c, "canceled", FALSE)
       ELSE IF EffectiveTimeout <= 0 THEN Return(c, "timed_out", TRUE)
       ELSE Goto(c, "spawn", [NoFrame EXCEPT !.limit = EffectiveTimeout])
    /\ UNCHANGED <<clock, process, code>>

\* Popen starts the child or raises OSError.
SshSpawn(c) ==
    /\ at[c] = "spawn"
    /\ \/ Return(c, "failed", TRUE) /\ UNCHANGED process
       \/ /\ process' = [process EXCEPT ![c] = "running"]
          /\ Goto(c, "loop", [frame[c] EXCEPT !.started = now])
    /\ UNCHANGED <<clock, code>>

\* mutant: the time of day is taken for the time elapsed
SshLoopFromZero(c) ==
    /\ at[c] = "loop"
    /\ LET left == frame[c].limit - now IN
         IF cancel THEN Goto(c, "stop_canceled", frame[c])
         ELSE IF left <= 0 THEN Goto(c, "stop_timed_out", frame[c])
         ELSE Block(c, "wait", Least(1, left))
    /\ UNCHANGED <<clock, process, code>>

\* mutant: the signal is looked at only before the process is started
SshLoopDeaf(c) ==
    /\ at[c] = "loop"
    /\ LET left == frame[c].limit - (now - frame[c].started) IN
         IF left <= 0 THEN Goto(c, "stop_timed_out", frame[c])
         ELSE Block(c, "wait", Least(1, left))
    /\ UNCHANGED <<clock, process, code>>

\* The top of the loop: cancellation first, then the time that is left, then
\* communicate for at most the polling interval.
SshLoop(c) ==
    /\ at[c] = "loop"
    /\ LET left == frame[c].limit - (now - frame[c].started) IN
         IF cancel THEN Goto(c, "stop_canceled", frame[c])
         ELSE IF left <= 0 THEN Goto(c, "stop_timed_out", frame[c])
         ELSE Block(c, "wait", Least(1, left))
    /\ UNCHANGED <<clock, process, code>>

\* communicate returns the exited child's output, or its timeout expires and
\* the loop goes round.
SshWait(c) ==
    /\ at[c] = "wait"
    /\ \/ /\ process[c] = "exited"
          /\ IF code[c] = 0 THEN Return(c, "ok", FALSE)
             ELSE Return(c, "failed", code[c] = 255)
       \/ process[c] # "exited" /\ Expired(c) /\ Goto(c, "loop", frame[c])
    /\ UNCHANGED <<clock, process, code>>

\* The reason for the stop survives in the place the thread is at.
Canceling(c) == at[c] \in {"stop_canceled", "term_canceled", "kill_canceled"}

Stopped(c) ==
    IF Canceling(c) THEN Return(c, "canceled", FALSE) ELSE Return(c, "timed_out", TRUE)

\* _stop_process: a child that is gone needs only its output collected, one
\* that is alive is asked to terminate and given the grace period.
SshStop(c) ==
    /\ at[c] \in {"stop_canceled", "stop_timed_out"}
    /\ IF process[c] = "exited" THEN Stopped(c)
       ELSE Block(c, IF Canceling(c) THEN "term_canceled" ELSE "term_timed_out", Grace)
    /\ UNCHANGED <<clock, process, code>>

\* mutant: the grace period ends without a kill
SshTerminateOnly(c) ==
    /\ at[c] \in {"term_canceled", "term_timed_out"}
    /\ (process[c] = "exited" \/ Expired(c)) /\ Stopped(c)
    /\ UNCHANGED <<clock, process, code>>

\* The child ends in its grace period, or it is killed after it.
SshTerminate(c) ==
    /\ at[c] \in {"term_canceled", "term_timed_out"}
    /\ \/ process[c] = "exited" /\ Stopped(c)
       \/ /\ process[c] # "exited" /\ Expired(c)
          /\ Goto(c, IF Canceling(c) THEN "kill_canceled" ELSE "kill_timed_out", frame[c])
    /\ UNCHANGED <<clock, process, code>>

\* The last communicate has no timeout: the killed child is waited for.
SshKill(c) ==
    /\ at[c] \in {"kill_canceled", "kill_timed_out"}
    /\ process' = [process EXCEPT ![c] = "exited"] /\ Stopped(c)
    /\ UNCHANGED <<clock, code>>

\* The child ends, by itself or on the terminate it was sent; it need not.
SshChild(c) ==
    /\ process[c] = "running" /\ process' = [process EXCEPT ![c] = "exited"]
    /\ \E e \in {0, 1, 255} : code' = [code EXCEPT ![c] = e]
    /\ UNCHANGED <<clock, at, frame, outcome, retryable>>

SshStep(c) ==
    SshSpawn(c) \/ SshLoop(c) \/ SshWait(c) \/ SshStop(c) \/ SshTerminate(c) \/ SshKill(c)

------------------------------------------------------------------------------
(* MCP: one stdio session for every call.                                  *)

\* A missing command or SDK raises; otherwise the server is started and
\* everything that follows runs under wait_for, which looks at neither the
\* Task's deadline nor its cancellation.
McpBegin(c) ==
    /\ at[c] = "idle" /\ ToolTurn
    /\ \/ Return(c, "failed", FALSE) /\ UNCHANGED process
       \/ /\ process' = [process EXCEPT ![c] = "running"]
          /\ Goto(c, "session", [limit |-> Timeout, started |-> now,
                                 until |-> now + Timeout, chunks |-> 0])
    /\ UNCHANGED <<clock, code>>

\* The server answers or fails the request; a listing of resources goes on
\* to ask for templates.  The result waits for the session to be closed.
McpAnswer(c) ==
    /\ at[c] = "session" /\ ~Expired(c)
    /\ \/ Goto(c, "templates", frame[c]) /\ UNCHANGED code
       \/ /\ \E e \in {0, 1} : code' = [code EXCEPT ![c] = e]
          /\ Goto(c, "closing", frame[c])
    /\ UNCHANGED <<clock, process>>

\* A server that does not know templates is no failure of the listing.
McpTemplates(c) ==
    /\ at[c] = "templates" /\ ~Expired(c)
    /\ code' = [code EXCEPT ![c] = 0] /\ Goto(c, "closing", frame[c])
    /\ UNCHANGED <<clock, process>>

\* Leaving stdio_client ends the server, and only then the call returns.
McpClose(c) ==
    /\ at[c] = "closing" /\ ~Expired(c)
    /\ process' = [process EXCEPT ![c] = "exited"]
    /\ Return(c, IF code[c] = 0 THEN "ok" ELSE "failed", FALSE)
    /\ UNCHANGED <<clock, code>>

\* mutant: the timeout covers the requests and not the end of the session
McpExpireBeforeClose(c) ==
    /\ at[c] \in {"session", "templates"} /\ Expired(c)
    /\ Block(c, "cleanup", Grace)
    /\ UNCHANGED <<clock, process, code>>

\* wait_for expires anywhere in the session: the coroutine is canceled and
\* its context managers still have to end the server.
McpExpire(c) ==
    /\ at[c] \in {"session", "templates", "closing"} /\ Expired(c)
    /\ Block(c, "cleanup", Grace)
    /\ UNCHANGED <<clock, process, code>>

\* MCPTransportTimeout is raised after the cleanup.
McpCleanup(c) ==
    /\ at[c] = "cleanup"
    /\ process' = [process EXCEPT ![c] = "exited"] /\ Return(c, "timed_out", FALSE)
    /\ UNCHANGED <<clock, code>>

McpStep(c) ==
    McpAnswer(c) \/ McpTemplates(c) \/ McpClose(c) \/ McpExpire(c) \/ McpCleanup(c)

------------------------------------------------------------------------------
(* A model provider: one HTTP request, whose timeout bounds each wait for   *)
(* the socket and not the answer as a whole.                               *)

\* _execution_timeout_seconds and _effective_timeout_seconds, then urlopen.
ModelBegin(c) ==
    /\ at[c] = "idle" /\ ModelTurn
    /\ IF cancel THEN Return(c, "canceled", FALSE)
       ELSE IF EffectiveTimeout <= 0 THEN Return(c, "timed_out", TRUE)
       ELSE Goto(c, "request", [limit |-> EffectiveTimeout, started |-> now,
                                until |-> now + EffectiveTimeout, chunks |-> 0])
    /\ UNCHANGED <<clock, process, code>>

\* A piece of the answer: the next wait has the whole timeout again.
ModelChunk(c) ==
    /\ at[c] = "request" /\ ~Expired(c) /\ frame[c].chunks < MaxChunks
    /\ LET f == frame[c] IN
         Goto(c, "request", [limit |-> f.limit, started |-> f.started,
                             until |-> now + f.limit, chunks |-> f.chunks + 1])
    /\ UNCHANGED <<clock, process, code>>

\* The answer is complete and parses; or it is refused as a protocol error;
\* or the provider, the connection or an HTTP status fails the request.
ModelAnswer(c) ==
    /\ at[c] = "request" /\ ~Expired(c)
    /\ \/ Return(c, "ok", FALSE)
       \/ \E r \in BOOLEAN : Return(c, "failed", r)
    /\ UNCHANGED <<clock, process, code>>

\* The socket times out.
ModelExpire(c) ==
    /\ at[c] = "request" /\ Expired(c) /\ Return(c, "timed_out", TRUE)
    /\ UNCHANGED <<clock, process, code>>

ModelStep(c) == ModelChunk(c) \/ ModelAnswer(c) \/ ModelExpire(c)

------------------------------------------------------------------------------
\* Time passes when every call under way is blocked and none has expired.
Tick ==
    /\ now < MaxTime \/ \E c \in Calls : Underway(c)
    /\ \A c \in Calls : Underway(c) => at[c] \in Blocked /\ ~Expired(c)
    /\ now' = now + 1
    /\ UNCHANGED <<deadline, cancel, cancelled_at, at, frame, process, code, outcome,
                   retryable>>

CallsNext ==
    \/ Tick \/ RequestCancellation
    \/ \E c \in SshCalls : SshBegin(c) \/ SshStep(c) \/ SshChild(c)
    \/ \E c \in McpCalls : McpBegin(c) \/ McpStep(c)
    \/ \E c \in ModelCalls : ModelBegin(c) \/ ModelStep(c)

CallsSpec == CallsInit /\ [][CallsNext]_call_vars

\* Threads that have begun a call go on with it, and time passes.  Nothing is
\* assumed of ssh children, MCP servers and providers.
FairCalls ==
    /\ CallsSpec
    /\ WF_call_vars(Tick)
    /\ \A c \in SshCalls : WF_call_vars(SshStep(c))
    /\ \A c \in McpCalls : WF_call_vars(McpExpire(c)) /\ WF_call_vars(McpCleanup(c))
    /\ \A c \in ModelCalls : WF_call_vars(ModelExpire(c))

------------------------------------------------------------------------------
CallsTypeOK ==
    /\ {now, cancelled_at} \subseteq Nat /\ deadline \in Nat \cup {NoDeadline}
    /\ cancel \in BOOLEAN /\ at \in [Calls -> Places]
    /\ frame \in [Calls -> [limit : Nat, started : Nat, until : Nat, chunks : Nat]]
    /\ process \in [Calls -> {"none", "running", "exited"}]
    /\ code \in [Calls -> {NoCode, 0, 1, 255}]
    /\ outcome \in [Calls -> Outcome] /\ retryable \in [Calls -> BOOLEAN]
    /\ \A c \in Calls : (at[c] = "done") <=> (outcome[c] # "none")

\* Cancellation and the deadline bound the wait: an ssh call is over within the
\* grace period after its limit, its Task's deadline or the first poll that sees
\* the cancellation; an MCP call within its own timeout and the cleanup; a model
\* request outlasts the deadline only while the provider keeps sending.  And a call
\* that is over leaves no process behind, whatever the child ignored (ssh.py:78-159,
\* transport.py:251-261, ollama.py:62-68,299-308).
StopsInTime ==
    /\ CallsTypeOK
    /\ \A c \in Calls : at[c] = "done" => process[c] # "running"
    /\ \A c \in Calls : Underway(c) =>
         LET f == frame[c] IN
           /\ c \in SshCalls /\ process[c] # "none" =>
                /\ now <= f.started + f.limit + Grace
                /\ deadline # NoDeadline => now <= deadline + Grace
                /\ cancel => now <= cancelled_at + 1 + Grace
           /\ c \in McpCalls => now <= f.started + Timeout + Grace
           /\ c \in ModelCalls =>
                /\ now <= f.started + (f.chunks + 1) * Timeout
                /\ deadline # NoDeadline => now <= deadline + f.chunks * f.limit

\* What the caller of c is told at the end of a step is so at its beginning.
TruthfulReturn(c) ==
    /\ outcome'[c] = "ok" /\ c \notin ModelCalls => code[c] = 0
    /\ outcome'[c] = "canceled" => cancel /\ ~retryable'[c] /\ c \notin McpCalls
    /\ outcome'[c] = "timed_out" =>
         IF at[c] = "idle" THEN deadline # NoDeadline /\ now >= deadline
         ELSE now >= frame[c].started + frame[c].limit
    /\ outcome'[c] = "failed" /\ c \in SshCalls =>
         (retryable'[c] <=> code[c] \in {255, NoCode})

\* What the caller is told is so when it is told: success means an exit code
\* or an answer, a cancellation was requested, a timeout was due, and a failed
\* ssh command is offered for a retry only when it may not have reached the
\* host (ssh.py:37-139, model_adapters.py:111-128).
ResultIsTruthful ==
    [][\A c \in Calls :
         at[c] # "done" /\ at'[c] = "done" => TruthfulReturn(c)]_call_vars

\* Every call that is begun returns, whatever hangs at the other end.
EveryCallReturns == \A c \in Calls : Underway(c) ~> at[c] = "done"

==============================================================================
