--------------------------- MODULE TaskLifecycle ---------------------------
(***************************************************************************)
(* The two status tables of vermay/main_agent/lifecycle.py: what a locally *)
(* owned Agent Process may do next, and which child-agent snapshots a      *)
(* remote proxy accepts.                                                   *)
(***************************************************************************)

TaskStatus ==
    {"created", "queued", "running", "cancel_requested", "input_required",
     "auth_required", "completed", "canceled", "failed"}

\* is_terminal_task_status
TerminalStatus == {"completed", "canceled", "failed"}

\* The statuses in which a Task holds a pending continuation.
WaitingStatus == {"input_required", "auth_required"}

\* The allowed <<current, target>> pairs of a locally owned Task.
LOCAL_TASK_TRANSITIONS ==
    ({"created"} \X {"queued", "running", "canceled", "failed"})
    \cup ({"queued"} \X {"running", "canceled", "failed"})
    \cup ({"running"} \X {"input_required", "auth_required", "cancel_requested",
                          "completed", "failed"})
    \cup ({"cancel_requested"} \X {"canceled", "failed"})
    \cup (WaitingStatus \X {"queued", "canceled", "failed"})

\* validate_local_task_transition: an unchanged status is a no-op, every other
\* target must be in the table; the code raises where this is FALSE.
CanTransition(current, target) ==
    \/ target = current
    \/ <<current, target>> \in LOCAL_TASK_TRANSITIONS

\* The allowed <<current, target>> pairs of a remote proxy.
REMOTE_PROXY_SNAPSHOT_TRANSITIONS ==
    ({"created"} \X ({"queued", "running"} \cup WaitingStatus \cup TerminalStatus))
    \cup ({"queued"} \X ({"running"} \cup WaitingStatus \cup TerminalStatus))
    \cup ({"running"} \X (WaitingStatus \cup TerminalStatus))
    \cup (WaitingStatus \X TerminalStatus)
    \cup ({"cancel_requested"} \X {"canceled", "failed"})

\* accepts_remote_proxy_snapshot
AcceptsSnapshot(current, target) ==
    \/ target = current
    \/ <<current, target>> \in REMOTE_PROXY_SNAPSHOT_TRANSITIONS
=============================================================================
