------------------------------ MODULE TaskRetry ------------------------------
(***************************************************************************)
(* Manual retry of failed local Tasks (MainAgentCore._retry_failed_task):  *)
(* an operator's click checks the source, looks for an earlier retry, and  *)
(* creates one new attempt in a transaction that checks both again; the    *)
(* new attempt is woken after the commit.  Clicks race one another, the    *)
(* deletion of the Context and the loss of the process.  How a Task runs   *)
(* is the LocalExecution module; here it is claimed, may use a             *)
(* side-effecting tool, and ends.                                          *)
(*                                                                         *)
(* The unique index on retry_of_task_id backs the check inside the         *)
(* transaction up: with one process and one store lock the check is always *)
(* first, so the handler of IntegrityError is never entered and is not an  *)
(* action here.                                                            *)
(***************************************************************************)
EXTENDS Naturals, FiniteSets

CONSTANTS MaxTasks,    \* bound: attempts that can be created
          Operators,   \* request threads of operators
          MaxCrashes   \* bound: process losses

ASSUME RetryBounds == MaxTasks \in Nat \ {0} /\ MaxCrashes \in Nat

Tasks == 1..MaxTasks
NoTask == 0

VARIABLES
    status,     \* task -> "absent", "queued", "running", "completed", "failed"
    local,      \* task -> owned here (assigned_agent_id is None)
    error_retryable,  \* task -> whether its failure may be retried
    effects,    \* task -> its ledger holds a record that is not level "none"
    retry_of,   \* task -> the Task it retries, or NoTask
    attempt,    \* task -> attempt number
    commands,   \* tasks with a queued execution command
    woken,      \* tasks the local execution adapter has been woken for
    pc, src, child,  \* operator -> step, Task clicked, Task accepted
    doomed,     \* the Tasks a deletion of the Context has listed; {} if none
    answers,    \* ghost: pairs <<source, retry>> operators were told
    crashes

rows == <<status, local, error_retryable, effects, retry_of, attempt, commands>>
ops == <<pc, src, child>>
vars == <<rows, woken, ops, doomed, answers, crashes>>

Created == {t \in Tasks : status[t] # "absent"}
Terminal == {"completed", "failed"}

\* A Task of this process or the proxy of a child agent's Task is at work.
Init ==
    /\ status = [t \in Tasks |-> IF t = 1 THEN "running" ELSE "absent"]
    /\ local \in {[t \in Tasks |-> TRUE], [t \in Tasks |-> t # 1]}
    /\ error_retryable = [t \in Tasks |-> FALSE]
    /\ effects = [t \in Tasks |-> FALSE]
    /\ retry_of = [t \in Tasks |-> NoTask]
    /\ attempt = [t \in Tasks |-> 1]
    /\ commands = {} /\ woken = {}
    /\ pc = [o \in Operators |-> "idle"]
    /\ src = [o \in Operators |-> NoTask] /\ child = [o \in Operators |-> NoTask]
    /\ doomed = {} /\ answers = {} /\ crashes = 0

------------------------------------------------------------------------------
(* A Task's life, as far as a retry depends on it.                         *)

\* The worker claims the command of a Task it was woken for.
Claim(t) ==
    /\ t \in commands \cap woken
    /\ status' = [status EXCEPT ![t] = "running"]
    /\ commands' = commands \ {t} /\ woken' = woken \ {t}
    /\ UNCHANGED <<local, error_retryable, effects, retry_of, attempt, ops, doomed,
                   answers, crashes>>

\* A call that is not read-only is recorded before it runs.
UseTool(t) ==
    /\ status[t] = "running" /\ ~effects[t]
    /\ effects' = [effects EXCEPT ![t] = TRUE]
    /\ UNCHANGED <<status, local, error_retryable, retry_of, attempt, commands, woken,
                   ops, doomed, answers, crashes>>

\* record_local_result, record_failure: the failure's retryability is stored
\* with the status.
End(t) ==
    /\ status[t] = "running"
    /\ \/ status' = [status EXCEPT ![t] = "completed"] /\ UNCHANGED error_retryable
       \/ /\ status' = [status EXCEPT ![t] = "failed"]
          /\ \E r \in BOOLEAN : error_retryable' = [error_retryable EXCEPT ![t] = r]
    /\ UNCHANGED <<local, effects, retry_of, attempt, commands, woken, ops,
                   doomed, answers, crashes>>

------------------------------------------------------------------------------
(* An operator's click.                                                    *)

\* mutant: what the tools may have done is not looked at
RetryableAnyEffect(t) ==
    /\ status[t] = "failed" /\ local[t] /\ error_retryable[t]

\* _retryable_failed_local_task returns the Task instead of raising.
Retryable(t) ==
    /\ status[t] = "failed" /\ local[t] /\ error_retryable[t]
    /\ ~effects[t]

\* get_direct_task_retry, NoTask when there is none.
DirectRetry(t) ==
    LET found == {u \in Created : retry_of[u] = t} IN
      IF found = {} THEN NoTask ELSE CHOOSE u \in found : \A w \in found : u <= w

Answer(o, t) ==
    /\ answers' = answers \cup {<<src[o], t>>}
    /\ pc' = [pc EXCEPT ![o] = "idle"]
    /\ UNCHANGED <<src, child>>

GiveUp(o) ==
    /\ pc' = [pc EXCEPT ![o] = "idle"] /\ UNCHANGED <<src, child, answers>>

\* The click: a source that is not eligible is refused at once.
Click(o, t) ==
    /\ pc[o] = "idle" /\ Retryable(t)
    /\ pc' = [pc EXCEPT ![o] = "look"] /\ src' = [src EXCEPT ![o] = t]
    /\ UNCHANGED <<rows, woken, child, doomed, answers, crashes>>

\* An earlier retry is the answer; without one the input message is read,
\* which a deletion may have removed.
LookForRetry(o) ==
    /\ pc[o] = "look"
    /\ LET found == DirectRetry(src[o]) IN
         \/ found # NoTask /\ Answer(o, found)
         \/ found = NoTask /\ status[src[o]] = "absent" /\ GiveUp(o)
         \/ /\ found = NoTask /\ status[src[o]] # "absent"
            /\ pc' = [pc EXCEPT ![o] = "accept"] /\ UNCHANGED <<src, child, answers>>
    /\ UNCHANGED <<rows, woken, doomed, crashes>>

\* accept_local_task_from_message: the new attempt, its lineage and its
\* initial command are inserted together.
CreateAttempt(o, t) ==
    /\ status' = [status EXCEPT ![t] = "queued"]
    /\ retry_of' = [retry_of EXCEPT ![t] = src[o]]
    /\ attempt' = [attempt EXCEPT ![t] = attempt[src[o]] + 1]
    /\ local' = [local EXCEPT ![t] = TRUE]
    /\ commands' = commands \cup {t}
    /\ child' = [child EXCEPT ![o] = t]
    /\ pc' = [pc EXCEPT ![o] = "start"]
    /\ UNCHANGED <<error_retryable, effects, src, answers>>

\* mutant: the transaction trusts the reads made before it
AcceptStale(o) ==
    /\ pc[o] = "accept"
    /\ \/ ~Retryable(src[o]) /\ GiveUp(o) /\ UNCHANGED rows
       \/ /\ Retryable(src[o])
          /\ \E t \in Tasks \ Created :
               (\A u \in Tasks \ Created : t <= u) /\ CreateAttempt(o, t)
    /\ UNCHANGED <<woken, doomed, crashes>>

\* accept_retry in its transaction: eligibility and the earlier retry are
\* checked again; or the store raises and everything is rolled back.
Accept(o) ==
    /\ pc[o] = "accept"
    /\ \/ GiveUp(o) /\ UNCHANGED rows
       \/ /\ Retryable(src[o]) /\ DirectRetry(src[o]) # NoTask
          /\ Answer(o, DirectRetry(src[o])) /\ UNCHANGED rows
       \/ /\ Retryable(src[o]) /\ DirectRetry(src[o]) = NoTask
          /\ \E t \in Tasks \ Created :
               (\A u \in Tasks \ Created : t <= u) /\ CreateAttempt(o, t)
    /\ UNCHANGED <<woken, doomed, crashes>>

\* mutant: the new attempt is left for somebody else to wake
StartNothing(o) ==
    /\ pc[o] = "start" /\ Answer(o, child[o])
    /\ UNCHANGED <<rows, woken, doomed, crashes>>

\* The post-commit action: wake the attempt, or record that it could not be
\* submitted; either way the operator gets the new Task.
Start(o) ==
    /\ pc[o] = "start"
    /\ LET t == child[o] IN
         /\ \/ /\ woken' = IF t \in commands THEN woken \cup {t} ELSE woken
               /\ UNCHANGED rows
            \/ /\ t \in commands \ woken
               /\ status' = [status EXCEPT ![t] = "failed"]
               /\ \E r \in BOOLEAN : error_retryable' = [error_retryable EXCEPT ![t] = r]
               /\ commands' = commands \ {t}
               /\ UNCHANGED <<local, effects, retry_of, attempt, woken>>
         /\ Answer(o, t)
    /\ UNCHANGED <<doomed, crashes>>

------------------------------------------------------------------------------
(* Deletion of the Context and loss of the process.                        *)

\* delete_context and the store's second listing: every Task is terminal.
DeleteList ==
    /\ doomed = {} /\ Created # {}
    /\ \A t \in Created : status[t] \in Terminal
    /\ doomed' = Created
    /\ UNCHANGED <<rows, woken, ops, answers, crashes>>

\* The deletion commits, or a Task accepted meanwhile has events and a
\* command that still reference it and the foreign keys roll it back.
DeleteRows ==
    /\ doomed # {} /\ doomed' = {}
    /\ IF Created \subseteq doomed
       THEN status' = [t \in Tasks |-> "absent"]
       ELSE UNCHANGED status
    /\ UNCHANGED <<local, error_retryable, effects, retry_of, attempt, commands, woken,
                   ops, answers, crashes>>

\* The process is lost and started again: running local Tasks fail as
\* retryable, queued ones are woken, clicks and deletions are gone.
Restart ==
    /\ crashes < MaxCrashes /\ crashes' = crashes + 1
    /\ LET interrupted == {t \in Created : status[t] = "running" /\ local[t]} IN
         /\ status' = [t \in Tasks |-> IF t \in interrupted THEN "failed" ELSE status[t]]
         /\ error_retryable' = [t \in Tasks |-> t \in interrupted \/ error_retryable[t]]
    /\ woken' = commands
    /\ pc' = [o \in Operators |-> "idle"]
    /\ doomed' = {}
    /\ UNCHANGED <<local, effects, retry_of, attempt, commands, src, child, answers>>

Operator(o) == LookForRetry(o) \/ Accept(o) \/ Start(o)

Next ==
    \/ \E t \in Tasks : Claim(t) \/ UseTool(t) \/ End(t)
    \/ \E o \in Operators : Operator(o) \/ \E t \in Tasks : Click(o, t)
    \/ DeleteList \/ DeleteRows \/ Restart

Spec == Init /\ [][Next]_vars

\* Request threads go on, and the pool runs what it was woken for.
FairSpec ==
    /\ Spec
    /\ \A o \in Operators : WF_vars(Operator(o))
    /\ \A t \in Tasks : WF_vars(Claim(t))

------------------------------------------------------------------------------
TypeOK ==
    /\ status \in [Tasks -> {"absent", "queued", "running", "completed", "failed"}]
    /\ {local, error_retryable, effects} \subseteq [Tasks -> BOOLEAN]
    /\ retry_of \in [Tasks -> Tasks \cup {NoTask}] /\ attempt \in [Tasks -> Nat]
    /\ commands \subseteq Tasks /\ woken \subseteq commands
    /\ pc \in [Operators -> {"idle", "look", "accept", "start"}]
    /\ {src, child} \subseteq [Operators -> Tasks \cup {NoTask}]
    /\ doomed \subseteq Tasks

\* Attempts form chains: a Task is retried at most once, by the attempt that
\* follows it, and only a local Task that failed for good, retryably and
\* without any possibly side-effecting tool work is retried, however clicks,
\* deletion and restarts interleave (core.py:776-831,856-870).
LineageIsSafe ==
    /\ TypeOK
    /\ \A t \in Created : retry_of[t] # NoTask =>
         LET s == retry_of[t] IN
           /\ status[s] = "failed" /\ error_retryable[s] /\ ~effects[s]
           /\ local[s] /\ local[t]
           /\ attempt[t] = attempt[s] + 1
           /\ \A u \in Created : retry_of[u] = s => u = t

\* Everyone who retries a Task is told of the same attempt, and it is the
\* one recorded as its retry (core.py:761-763,780-782,833-854).
ClicksConverge ==
    \A a \in answers :
      /\ retry_of[a[2]] = a[1]
      /\ \A b \in answers : a[1] = b[1] => a[2] = b[2]

\* An accepted attempt is run, or recorded as failed: the wake-up follows
\* the commit, and a restart between the two makes up for it
\* (core.py:834-844,648-697,1260-1269).
RetryIsExecuted ==
    \A t \in Tasks : (status[t] = "queued") ~> (status[t] # "queued")

==============================================================================
