---------------------------- MODULE AgentProcess ----------------------------
(***************************************************************************)
(* What the control plane promises of a locally owned Agent Process,       *)
(* without threads, queues, crashes or wake-ups: a process is granted one  *)
(* execution slice at a time (its admission, or one accepted               *)
(* continuation), runs a granted slice at most once, leaves the busy state *)
(* of every slice it starts, and never leaves done.                        *)
(***************************************************************************)
EXTENDS Naturals

CONSTANT Tasks

VARIABLES
    state,   \* "absent", "ready", "busy", "blocked", "done"
    grants,  \* slices granted so far
    runs     \* slices started so far

vars == <<state, grants, runs>>

Init ==
    /\ state = [t \in Tasks |-> "absent"]
    /\ grants = [t \in Tasks |-> 0]
    /\ runs = [t \in Tasks |-> 0]

Move(t, from, to) ==
    /\ state[t] \in from
    /\ state' = [state EXCEPT ![t] = to]

Grant(t) ==
    /\ Move(t, {"absent", "blocked"}, "ready")
    /\ grants' = [grants EXCEPT ![t] = @ + 1]
    /\ UNCHANGED runs

Run(t) ==
    /\ Move(t, {"ready"}, "busy")
    /\ runs' = [runs EXCEPT ![t] = @ + 1]
    /\ UNCHANGED grants

\* The slice ends: the process blocks on its client or is done.
EndSlice(t) ==
    /\ \E to \in {"blocked", "done"} : Move(t, {"busy"}, to)
    /\ UNCHANGED <<grants, runs>>

\* Cancellation, or a failure before the slice starts.
Abandon(t) ==
    /\ Move(t, {"ready", "blocked"}, "done")
    /\ UNCHANGED <<grants, runs>>

Next == \E t \in Tasks : Grant(t) \/ Run(t) \/ EndSlice(t) \/ Abandon(t)

Safety == Init /\ [][Next]_vars

\* Every started slice ends.
Spec == Safety /\ \A t \in Tasks : WF_vars(EndSlice(t))
=============================================================================
