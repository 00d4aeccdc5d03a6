-------------------------- MODULE ToolLedger_proofs --------------------------
(***************************************************************************)
(* Theorems about ToolLedger, for any set of effects and any number of     *)
(* turns of the loop, calls in a batch and failed store writes.            *)
(***************************************************************************)
EXTENDS ToolLedger, SequenceTheorems, WellFoundedInduction, TLAPS

Decision == [verdict : Verdict, ref : Invocations]

\* The slice will not go on: the Task has ended or is about to.
Ended == status \in TerminalStatus \/ outcome \in {"completed", "failed"}

\* decisions belong to the batch of the current turn.
InBatch ==
    node \in {"prepare", "approval_required", "reject_tool"} \/ Running("tools")

\* Worker, Task status and graph agree on who may move next.
SliceInv ==
    /\ decisions \in Seq(Decision)
    /\ slice \in {"claimed", "running", "finished"} => status \in {"running", "cancel_requested"}
    /\ slice = "inactive" => status \in {"running", "cancel_requested"} \cup TerminalStatus
    /\ slice = "none" => status \notin {"running", "cancel_requested"}
    /\ outcome = "none" <=> slice \notin {"finished", "inactive"}
    /\ loop > MaxLoops => Ended /\ node \in {"tools", "user_input_required"}
    /\ slice \in {"none", "claimed"} /\ ~ Ended =>
         node \in {"call_model", "approval_required", "user_input_required"}
    /\ status = "auth_required" \/ outcome = "approval_required" => node = "approval_required"
    /\ status = "input_required" \/ outcome = "user_input_required" =>
         node = "user_input_required"

\* Where records exist: for calls of the turns so far, and in the current turn for
\* the calls that were decided on.
RecordInv ==
    /\ \A v \in Invocations : record[v] # "absent" => v[1] <= loop /\ v[2] \in DOMAIN calls[v[1]]
    /\ node \in {"call_model", "check_permission", "user_input_required"} =>
         \A v \in Invocations : record[v] # "absent" => v[1] < loop
    /\ InBatch =>
         \A v \in Invocations : v[1] = loop /\ record[v] # "absent" =>
           v[2] \in DOMAIN decisions /\ decisions[v[2]].ref = v
    /\ node \in {"prepare", "approval_required", "reject_tool"} =>
         \A v \in Invocations : v[1] = loop => record[v] \in {"absent", "prepared", "canceled"}

\* A decision that is not a denial is about the call's own record.
BatchInv ==
    /\ node = "check_permission" \/ InBatch => calls[loop] \in Batches
    /\ InBatch =>
         /\ Len(decisions) <= Len(calls[loop])
         /\ \A i \in DOMAIN decisions : decisions[i].verdict # "denied" =>
              /\ decisions[i].ref = <<loop, i>>
              /\ decisions[i].verdict = GateVerdict(calls[loop][i])
              /\ record[<<loop, i>>] # "absent"
              /\ decisions[i].verdict = "allowed" => approval[<<loop, i>>] = "not_required"
    /\ node = "approval_required" \/ Running("tools") =>
         /\ Len(decisions) = Len(calls[loop])
         /\ \A i \in DOMAIN decisions : decisions[i].verdict # "denied"

Approved(v) == approval[v] = "approved" /\ v \in granted

\* The answers the approval node has taken are approvals of exactly those records, and
\* nothing but a rejection cancels a record of a batch that is still being decided on.
ApprovalInv ==
    /\ answer = "approved" => node = "approval_required"
    /\ status = "auth_required" => answer = "none"
    /\ outcome = "approval_required" => answer \notin {"approved", "rejected"}
    /\ node = "prepare" => asked = 0
    /\ ~ Ended /\ (node = "prepare" \/ (node = "approval_required" /\ answer # "rejected")) =>
         \A v \in Invocations : v[1] = loop => record[v] \in {"absent", "prepared"}
    /\ status = "auth_required" =>
         \E i \in DOMAIN decisions : NextApproval(i) /\ waitingFor = decisions[i].ref
    /\ node = "approval_required" =>
         /\ \A i \in DOMAIN decisions :
              decisions[i].verdict = "approval_required" /\ i <= asked => Approved(<<loop, i>>)
         /\ answer = "approved" =>
              \A i \in DOMAIN decisions : NextApproval(i) => Approved(<<loop, i>>)

\* Every call of turn l may run.
Cleared(l) ==
    \A i \in DOMAIN calls[l] :
      /\ record[<<l, i>>] # "absent"
      /\ approval[<<l, i>>] \in {"not_required", "approved"}
      /\ calls[l][i] \notin Forbidden
      /\ calls[l][i] \in NeedsApproval => <<l, i>> \in granted

\* What a ToolNode thread knows of the record it works on.
ThreadAt(i) ==
    /\ phase[i] # "done" => i \in DOMAIN calls[loop]
    /\ phase[i] \in {"waiting", "begin"} => record[<<loop, i>>] = "prepared"
    /\ phase[i] \in {"execute", "ok", "failed", "raised"} => record[<<loop, i>>] = "running"
    /\ phase[i] \in {"waiting", "begin", "execute"} => performed[<<loop, i>>] = 0
    /\ phase[i] = "done" /\ i \in DOMAIN calls[loop] /\ faults = 0 =>
         \/ record[<<loop, i>>] \in {"succeeded", "uncertain"}
         \/ record[<<loop, i>>] = "canceled" /\ signal

ToolInv == Running("tools") => Cleared(loop) /\ \A i \in Positions : ThreadAt(i)

PerformedInv ==
    \A v \in Invocations : performed[v] > 0 =>
      record[v] \in NotRepeatable /\ performed[v] = 1 /\ Cleared(v[1])

\* While store writes succeed, the turns before the current one left only settled
\* effects, unless a cancellation stopped them; no effect is recorded in two turns.
HistoryInv ==
    faults = 0 =>
      /\ ~ Ended => \A v \in Invocations : v[1] < loop /\ record[v] # "absent" =>
           record[v] \in {"succeeded", "uncertain"} \/ (Running("call_model") /\ signal)
      /\ \A u, v \in Invocations :
           record[u] # "absent" /\ record[v] # "absent" /\ EffectOf(u) = EffectOf(v) => u[1] = v[1]
      /\ \A v \in Invocations : record[v] = "running" => Running("tools") /\ v[1] = loop
      /\ outcome = "completed" =>
           \A v \in Invocations : record[v] \notin {"prepared", "running"}

IInv ==
    /\ TypeOK /\ SliceInv /\ RecordInv /\ BatchInv /\ ApprovalInv /\ ToolInv /\ PerformedInv
    /\ HistoryInv /\ EndSettlesLedger

------------------------------------------------------------------------------
(***************************************************************************)
(* Numbers, batches and the newest record of an effect                     *)
(***************************************************************************)

\* A non-empty set of natural numbers has a least element.
LEMMA LeastElement ==
    ASSUME NEW T, T \subseteq Nat, T # {}
    PROVE  \E x \in T : \A y \in T : x <= y
  <1> DEFINE R == {ss \in Nat \X Nat : ss[1] < ss[2]}
  <1>1. IsWellFoundedOn(R, Nat)
    BY NatLessThanWellFounded DEF OpToRel
  <1> HIDE DEF R
  <1>2. PICK x \in T : \A y \in T : ~ (<<y, x>> \in R)
    BY <1>1, WFMin
  <1>3. \A y \in T : ~ (y < x)
    BY <1>2 DEF R
  <1>4. QED BY <1>3

LEMMA GreatestElement ==
    ASSUME NEW n \in Nat, NEW T, T \subseteq 1 .. n, T # {}
    PROVE  \E x \in T : \A y \in T : y <= x
  <1> DEFINE U == {n - y : y \in T}
  <1>1. U \subseteq Nat /\ U # {}
    <2>1. \A y \in T : y \in Int /\ y <= n
      OBVIOUS
    <2>2. \A y \in T : n - y \in Nat
      BY <2>1
    <2>3. QED BY <2>2
  <1>2. PICK m \in U : \A k \in U : m <= k
    BY <1>1, LeastElement
  <1>3. PICK x \in T : m = n - x
    OBVIOUS
  <1>4. \A y \in T : n - y \in U /\ m <= n - y
    BY <1>2
  <1>5. QED BY <1>3, <1>4

\* A model response is a sequence of at most MaxCalls effects.
LEMMA BatchFacts ==
    ASSUME NEW b \in Batches \cup {<<>>}
    PROVE  /\ b \in Seq(Effects) /\ Len(b) \in 0 .. MaxCalls /\ DOMAIN b = 1 .. Len(b)
           /\ b \in Batches => Len(b) >= 1
  <1> USE LedgerAssumption
  <1>1. CASE b = <<>>
    <2>1. b \notin Batches
      BY <1>1 DEF Batches, Positions
    <2>2. QED BY <1>1, <2>1, EmptySeq, LenProperties
  <1>2. CASE b \in Batches
    <2>1. PICK n \in Positions : b \in [1 .. n -> Effects]
      BY <1>2 DEF Batches
    <2>2. n \in Nat /\ n >= 1 /\ n <= MaxCalls
      BY DEF Positions
    <2>3. b \in Seq(Effects)
      BY <2>1, <2>2, SeqDef
    <2>4. Len(b) = n
      BY <2>1, <2>2, <2>3, LenProperties
    <2>5. QED BY <2>1, <2>2, <2>3, <2>4
  <1>3. QED BY <1>1, <1>2

\* The shape of an invocation and of the graph state, in the form the proofs use.
LEMMA Shapes ==
    ASSUME TypeOK, decisions \in Seq(Decision)
    PROVE  /\ loop \in Nat /\ loop >= 1 /\ MaxLoops \in Nat /\ MaxCalls \in Nat
           /\ \A v \in Invocations : /\ v = <<v[1], v[2]>> /\ v[1] \in Nat /\ v[2] \in Nat
                                     /\ v[1] \in Loops /\ v[2] \in Positions
           /\ \A l \in Loops : l \in Nat /\ DOMAIN calls[l] = 1 .. Len(calls[l])
                              /\ Len(calls[l]) \in 0 .. MaxCalls /\ DOMAIN calls[l] \subseteq Positions
           /\ loop <= MaxLoops => loop \in Loops
           /\ \A l \in Loops, i \in Positions : <<l, i>> \in Invocations
           /\ Len(decisions) \in Nat /\ DOMAIN decisions = 1 .. Len(decisions)
           /\ DOMAIN decisions \subseteq Positions
           /\ \A i \in DOMAIN decisions : decisions[i].verdict \in Verdict /\ decisions[i].ref \in Invocations
  <1> USE LedgerAssumption
  <1>1. loop \in Nat /\ loop >= 1 /\ MaxLoops \in Nat /\ MaxCalls \in Nat
    BY DEF TypeOK
  <1>2. \A v \in Invocations : /\ v = <<v[1], v[2]>> /\ v[1] \in Nat /\ v[2] \in Nat
                               /\ v[1] \in Loops /\ v[2] \in Positions
    BY DEF Invocations, Loops, Positions
  <1>3. ASSUME NEW l \in Loops
        PROVE  /\ l \in Nat /\ DOMAIN calls[l] = 1 .. Len(calls[l])
               /\ Len(calls[l]) \in 0 .. MaxCalls /\ DOMAIN calls[l] \subseteq Positions
    <2>1. calls[l] \in Batches \cup {<<>>}
      BY DEF TypeOK
    <2>2. DOMAIN calls[l] = 1 .. Len(calls[l]) /\ Len(calls[l]) \in 0 .. MaxCalls
      BY <2>1, BatchFacts
    <2>3. QED BY <2>2, <1>1 DEF Loops, Positions
  <1>4. loop <= MaxLoops => loop \in Loops
    BY <1>1 DEF Loops
  <1>5. \A l \in Loops, i \in Positions : <<l, i>> \in Invocations
    BY DEF Invocations
  <1>6. /\ Len(decisions) \in Nat /\ DOMAIN decisions = 1 .. Len(decisions)
        /\ DOMAIN decisions \subseteq Positions
    BY LenProperties DEF TypeOK, Positions
  <1>7. \A i \in DOMAIN decisions : decisions[i].verdict \in Verdict /\ decisions[i].ref \in Invocations
    BY <1>6 DEF TypeOK
  <1>8. QED BY <1>1, <1>2, <1>3, <1>4, <1>5, <1>6, <1>7

\* An effect that is on record has a newest record.
LEMMA LatestExists ==
    ASSUME TypeOK, decisions \in Seq(Decision), NEW e, Recorded(e) # {}
    PROVE  \E w \in Recorded(e) : Latest(w, e)
  <1>1. Recorded(e) \subseteq Invocations
    BY DEF Recorded
  <1>2. \A v \in Recorded(e) : /\ v = <<v[1], v[2]>> /\ v[1] \in Nat /\ v[2] \in Nat
                               /\ v[1] \in 1 .. MaxLoops /\ v[2] \in 1 .. MaxCalls
    BY <1>1, Shapes DEF Loops, Positions
  <1>3. MaxLoops \in Nat /\ MaxCalls \in Nat
    BY Shapes
  <1> DEFINE T == {v[1] : v \in Recorded(e)}
  <1>4. PICK l \in T : \A k \in T : k <= l
    <2>1. T \subseteq 1 .. MaxLoops /\ T # {}
      BY <1>2
    <2>2. QED BY <2>1, <1>3, GreatestElement
  <1> DEFINE U == {v[2] : v \in {u \in Recorded(e) : u[1] = l}}
  <1>5. PICK i \in U : \A k \in U : k <= i
    <2>1. U \subseteq 1 .. MaxCalls /\ U # {}
      BY <1>2
    <2>2. QED BY <2>1, <1>3, GreatestElement
  <1>6. PICK w \in Recorded(e) : w[1] = l /\ w[2] = i
    OBVIOUS
  <1>7. ASSUME NEW u \in Recorded(e) \ {w} PROVE Newer(w, u)
    <2>1. u[1] \in Nat /\ w[1] \in Nat /\ u[2] \in Nat /\ w[2] \in Nat
      BY <1>2
    <2>2. u[1] <= w[1]
      BY <1>4, <1>6
    <2>3. CASE u[1] = w[1]
      <3>1. u[2] <= w[2]
        BY <1>5, <1>6, <2>3
      <3>2. u[2] # w[2]
        BY <1>2, <2>3
      <3>3. QED BY <2>1, <2>3, <3>1, <3>2 DEF Newer
    <2>4. QED BY <2>1, <2>2, <2>3 DEF Newer
  <1>8. QED BY <1>6, <1>7 DEF Latest

------------------------------------------------------------------------------
(***************************************************************************)
(* The invariant                                                           *)
(***************************************************************************)

LEMMA InitInv == Init => IInv
  <1> SUFFICES ASSUME Init PROVE IInv
    OBVIOUS
  <1> USE LedgerAssumption
  <1>1. decisions \in Seq(Decision) /\ Len(decisions) = 0 /\ DOMAIN decisions = {}
    BY EmptySeq DEF Init
  <1>2. TypeOK
    <2>1. calls \in [Loops -> Batches \cup {<<>>}]
      BY DEF Init
    <2>2. /\ record \in [Invocations -> ToolInvocationStatus \cup {"absent"}]
          /\ approval \in [Invocations -> ToolInvocationApproval]
          /\ phase \in [Positions -> CallPhase] /\ performed \in [Invocations -> Nat]
      BY DEF Init, ToolInvocationApproval, CallPhase
    <2>3. /\ status \in TaskStatus /\ answer \in Answer /\ slice \in SlicePc /\ node \in Node
          /\ outcome \in Outcome
      BY DEF Init, TaskStatus, Answer, SlicePc, Node, Outcome
    <2>4. /\ loop \in 1 .. MaxLoops + 1 /\ asked \in 0 .. MaxCalls /\ faults \in 0 .. MaxFaults
          /\ Len(decisions) <= MaxCalls
      BY <1>1 DEF Init
    <2>5. QED BY <1>1, <2>1, <2>2, <2>3, <2>4 DEF Init, TypeOK
  <1>3. SliceInv
    BY <1>1 DEF Init, SliceInv, Ended, TerminalStatus
  <1>4. RecordInv /\ BatchInv /\ ApprovalInv /\ ToolInv
    BY <1>1 DEF Init, RecordInv, BatchInv, ApprovalInv, ToolInv, InBatch, Running
  <1>5. PerformedInv /\ HistoryInv /\ EndSettlesLedger
    BY DEF Init, PerformedInv, HistoryInv, EndSettlesLedger, TerminalStatus
  <1>6. QED BY <1>2, <1>3, <1>4, <1>5 DEF IInv

\* What closing a ledger may do to a record.
Closing(v) ==
    \/ record'[v] = record[v]
    \/ record[v] = "prepared" /\ record'[v] = "canceled"
    \/ record[v] = "running" /\ record'[v] = "uncertain"

\* A step that leaves the graph state alone, and does not touch the records of a batch
\* that goes on running.
LEMMA GraphKept ==
    ASSUME IInv,
           UNCHANGED <<approval, node, loop, calls, decisions, asked, phase, performed, granted>>,
           faults' = 0 => faults = 0,
           \A v \in Invocations : Closing(v),
           slice' = "running" =>
             node # "tools" \/ (slice = "running" /\ record' = record /\ (signal => signal'))
    PROVE  RecordInv' /\ BatchInv' /\ ToolInv' /\ PerformedInv'
  <1>1. /\ loop \in Nat /\ MaxLoops \in Nat
        /\ loop <= MaxLoops => loop \in Loops
        /\ \A l \in Loops : DOMAIN calls[l] \subseteq Positions
        /\ \A l \in Loops, i \in Positions : <<l, i>> \in Invocations
        /\ \A v \in Invocations : v[1] \in Loops
        /\ DOMAIN decisions \subseteq Positions
    BY Shapes DEF IInv, SliceInv
  <1>2. \A v \in Invocations : record'[v] # "absent" <=> record[v] # "absent"
    BY DEF Closing
  <1>3. InBatch' => InBatch
    BY DEF InBatch, Running
  <1>4. \A l \in Loops : Cleared(l) => Cleared(l)'
    BY <1>1, <1>2 DEF Cleared
  <1>5. RecordInv'
    BY <1>2, <1>3 DEF IInv, RecordInv, Closing
  <1>6. InBatch => loop \in Loops
    BY <1>1 DEF IInv, SliceInv, InBatch, Running, Ended, TerminalStatus
  <1>7. BatchInv'
    BY <1>1, <1>2, <1>3, <1>6 DEF IInv, BatchInv, GateVerdict, Running
  <1>8. ToolInv'
    <2> SUFFICES ASSUME Running("tools")' PROVE Cleared(loop)' /\ \A i \in Positions : ThreadAt(i)'
      BY DEF ToolInv
    <2>1. Running("tools") /\ record' = record /\ (signal => signal') /\ loop \in Loops
      BY <1>6 DEF Running, InBatch
    <2>2. Cleared(loop)' /\ \A i \in Positions : ThreadAt(i)
      BY <2>1, <1>4 DEF IInv, ToolInv, Cleared
    <2>3. QED BY <2>1, <2>2 DEF ThreadAt
  <1>9. PerformedInv'
    <2>1. \A v \in Invocations : record[v] \in NotRepeatable => record'[v] \in NotRepeatable
      BY DEF Closing, NotRepeatable
    <2>2. \A v \in Invocations : Cleared(v[1]) => Cleared(v[1])'
      BY <1>1, <1>4
    <2>3. QED BY <2>1, <2>2 DEF IInv, PerformedInv, Cleared
  <1>10. QED BY <1>5, <1>7, <1>8, <1>9

(* The control plane. *)

LEMMA ClaimCommandInv == IInv /\ ClaimCommand => IInv'
  <1> SUFFICES ASSUME IInv, ClaimCommand PROVE IInv'
    OBVIOUS
  <1>0. /\ UNCHANGED <<record, approval, node, loop, calls, decisions, asked, phase, performed,
                       granted, faults, waitingFor, answer, outcome, signaling, signal>>
        /\ status = "queued" /\ slice = "none" /\ status' = "running" /\ slice' = "claimed"
    BY DEF ClaimCommand, ledger, graph, control, history
  <1>1. RecordInv' /\ BatchInv' /\ ToolInv' /\ PerformedInv'
    BY <1>0, GraphKept DEF Closing, IInv, SliceInv, Ended, TerminalStatus, Running
  <1>2. TypeOK'
    BY <1>0 DEF IInv, TypeOK, TaskStatus, SlicePc
  <1>3. SliceInv'
    BY <1>0 DEF IInv, SliceInv, Ended, TerminalStatus
  <1>4. ApprovalInv'
    BY <1>0
       DEF IInv, ApprovalInv, NextApproval, NeedsAnswer, Approved, Ended,
           TerminalStatus, SliceInv
  <1>5. HistoryInv'
    BY <1>0 DEF IInv, HistoryInv, Ended, TerminalStatus, Running, EffectOf, SliceInv
  <1>6. EndSettlesLedger'
    BY <1>0 DEF IInv, EndSettlesLedger, TerminalStatus, SliceInv
  <1>7. QED BY <1>1, <1>2, <1>3, <1>4, <1>5, <1>6 DEF IInv

LEMMA ActivateSliceInv == IInv /\ ActivateSlice => IInv'
  <1> SUFFICES ASSUME IInv, ActivateSlice PROVE IInv'
    OBVIOUS
  <1>0. /\ UNCHANGED <<record, approval, node, loop, calls, decisions, asked, phase, performed,
                       granted, faults, status, waitingFor, answer, outcome, signaling>>
        /\ slice = "claimed" /\ slice' = "running" /\ signal' = FALSE
    BY DEF ActivateSlice, rows, ledger, graph, history
  <1>1. RecordInv' /\ BatchInv' /\ ToolInv' /\ PerformedInv'
    BY <1>0, GraphKept DEF Closing, IInv, SliceInv, Ended, TerminalStatus, Running
  <1>2. TypeOK'
    BY <1>0 DEF IInv, TypeOK, SlicePc
  <1>3. SliceInv'
    BY <1>0 DEF IInv, SliceInv, Ended, TerminalStatus
  <1>4. ApprovalInv'
    BY <1>0
       DEF IInv, ApprovalInv, NextApproval, NeedsAnswer, Approved, Ended,
           TerminalStatus, SliceInv
  <1>5. HistoryInv'
    BY <1>0 DEF IInv, HistoryInv, Ended, TerminalStatus, Running, EffectOf, SliceInv
  <1>6. EndSettlesLedger'
    BY <1>0 DEF IInv, EndSettlesLedger, TerminalStatus, SliceInv
  <1>7. QED BY <1>1, <1>2, <1>3, <1>4, <1>5, <1>6 DEF IInv

LEMMA LeaveActiveInv == IInv /\ LeaveActive => IInv'
  <1> SUFFICES ASSUME IInv, LeaveActive PROVE IInv'
    OBVIOUS
  <1>0. /\ UNCHANGED <<record, approval, node, loop, calls, decisions, asked, phase, performed,
                       granted, faults, status, waitingFor, answer, outcome, signaling, signal>>
        /\ slice = "finished" /\ slice' = "inactive"
    BY DEF LeaveActive, rows, ledger, graph, control, history
  <1>1. RecordInv' /\ BatchInv' /\ ToolInv' /\ PerformedInv'
    BY <1>0, GraphKept DEF Closing, IInv, SliceInv, Ended, TerminalStatus, Running
  <1>2. TypeOK'
    BY <1>0 DEF IInv, TypeOK, SlicePc
  <1>3. SliceInv'
    BY <1>0 DEF IInv, SliceInv, Ended, TerminalStatus
  <1>4. ApprovalInv'
    BY <1>0
       DEF IInv, ApprovalInv, NextApproval, NeedsAnswer, Approved, Ended,
           TerminalStatus, SliceInv
  <1>5. HistoryInv'
    BY <1>0 DEF IInv, HistoryInv, Ended, TerminalStatus, Running, EffectOf, SliceInv
  <1>6. EndSettlesLedger'
    BY <1>0 DEF IInv, EndSettlesLedger, TerminalStatus, SliceInv
  <1>7. QED BY <1>1, <1>2, <1>3, <1>4, <1>5, <1>6 DEF IInv

LEMMA SignalCancellationInv == IInv /\ SignalCancellation => IInv'
  <1> SUFFICES ASSUME IInv, SignalCancellation PROVE IInv'
    OBVIOUS
  <1>0. /\ UNCHANGED <<record, approval, node, loop, calls, decisions, asked, phase, performed,
                       granted, faults, status, waitingFor, answer, slice, outcome>>
        /\ signaling' = FALSE /\ signal' = (signal \/ slice = "running")
    BY DEF SignalCancellation, rows, ledger, graph, history
  <1>1. RecordInv' /\ BatchInv' /\ ToolInv' /\ PerformedInv'
    BY <1>0, GraphKept DEF Closing, IInv, SliceInv, Ended, TerminalStatus, Running
  <1>2. TypeOK'
    BY <1>0 DEF IInv, TypeOK, SlicePc
  <1>3. SliceInv'
    BY <1>0 DEF IInv, SliceInv, Ended, TerminalStatus
  <1>4. ApprovalInv'
    BY <1>0
       DEF IInv, ApprovalInv, NextApproval, NeedsAnswer, Approved, Ended,
           TerminalStatus, SliceInv
  <1>5. HistoryInv'
    BY <1>0 DEF IInv, HistoryInv, Ended, TerminalStatus, Running, EffectOf, SliceInv
  <1>6. EndSettlesLedger'
    BY <1>0 DEF IInv, EndSettlesLedger, TerminalStatus, SliceInv
  <1>7. QED BY <1>1, <1>2, <1>3, <1>4, <1>5, <1>6 DEF IInv

LEMMA SubmitInputInv == IInv /\ SubmitInput => IInv'
  <1> SUFFICES ASSUME IInv, SubmitInput PROVE IInv'
    OBVIOUS
  <1>0. /\ UNCHANGED <<record, approval, node, loop, calls, decisions, asked, phase, performed,
                       granted, faults, waitingFor, slice, outcome, signaling, signal>>
        /\ status = "input_required" /\ status' = "queued" /\ answer' = "input"
    BY DEF SubmitInput, ledger, graph, control, history
  <1>1. RecordInv' /\ BatchInv' /\ ToolInv' /\ PerformedInv'
    BY <1>0, GraphKept DEF Closing, IInv, SliceInv, Ended, TerminalStatus, Running
  <1>2. TypeOK'
    BY <1>0 DEF IInv, TypeOK, TaskStatus, Answer
  <1>3. SliceInv'
    BY <1>0 DEF IInv, SliceInv, Ended, TerminalStatus
  <1>4. ApprovalInv'
    BY <1>0
       DEF IInv, ApprovalInv, NextApproval, NeedsAnswer, Approved, Ended,
           TerminalStatus, SliceInv
  <1>5. HistoryInv'
    BY <1>0 DEF IInv, HistoryInv, Ended, TerminalStatus, Running, EffectOf, SliceInv
  <1>6. EndSettlesLedger'
    BY <1>0 DEF IInv, EndSettlesLedger, TerminalStatus, SliceInv
  <1>7. QED BY <1>1, <1>2, <1>3, <1>4, <1>5, <1>6 DEF IInv

\* The end of a Task leaves the graph as it is and only settles records.
LEMMA EndedTask ==
    ASSUME IInv, \A v \in Invocations : Closing(v),
           record' \in [Invocations -> ToolInvocationStatus \cup {"absent"}],
           UNCHANGED <<approval, node, loop, calls, decisions, asked, phase, performed, granted,
                       faults>>,
           status' \in TerminalStatus, waitingFor' = NoInvocation, answer' = "none",
           \/ slice' = "none" /\ outcome' = "none"
           \/ slice' \in {"none", "inactive"} /\ slice' = slice /\ outcome' = outcome
                /\ (outcome = "completed" => record' = record \/ status' = "canceled"),
           signaling' \in BOOLEAN, signal' \in BOOLEAN,
           status' = "failed" \/ faults = 0 =>
             \A v \in Invocations : record'[v] \notin {"prepared", "running"}
    PROVE  IInv'
  <1>0. slice' # "running"
    OBVIOUS
  <1>1. RecordInv' /\ BatchInv' /\ ToolInv' /\ PerformedInv'
    BY <1>0, GraphKept
  <1>2. TypeOK'
    BY DEF IInv, TypeOK, TaskStatus, TerminalStatus, SlicePc, Answer, Outcome
  <1>3. SliceInv'
    BY DEF IInv, SliceInv, Ended, TerminalStatus
  <1>4. ApprovalInv'
    BY DEF IInv, ApprovalInv, NextApproval, NeedsAnswer, Approved, Ended,
           TerminalStatus
  <1>5. HistoryInv'
    <2>1. \A v \in Invocations : record'[v] # "absent" => record[v] # "absent"
      BY DEF Closing
    <2>2. QED BY <2>1 DEF IInv, HistoryInv, Ended, EffectOf
  <1>6. EndSettlesLedger'
    BY DEF EndSettlesLedger
  <1>7. QED BY <1>1, <1>2, <1>3, <1>4, <1>5, <1>6 DEF IInv

LEMMA CancelTaskInv == IInv /\ CancelTask => IInv'
  <1> SUFFICES ASSUME IInv, CancelTask PROVE IInv'
    OBVIOUS
  <1>0. /\ UNCHANGED <<approval, node, loop, calls, decisions, asked, phase, performed, granted,
                       faults, slice, outcome, signal>>
        /\ status \notin TerminalStatus
    BY DEF CancelTask, graph, history
  <1>1. CASE /\ status \in {"running", "cancel_requested"}
             /\ slice \in {"claimed", "running", "finished"}
             /\ status' = "cancel_requested"
             /\ signaling' = TRUE
             /\ UNCHANGED <<waitingFor, answer, record>>
    <2>1. RecordInv' /\ BatchInv' /\ ToolInv' /\ PerformedInv'
      BY <1>0, <1>1, GraphKept DEF Closing
    <2>2. TypeOK'
      BY <1>0, <1>1 DEF IInv, TypeOK, TaskStatus
    <2>3. SliceInv'
      BY <1>0, <1>1 DEF IInv, SliceInv, Ended, TerminalStatus
    <2>4. ApprovalInv'
      BY <1>0, <1>1
         DEF IInv, ApprovalInv, NextApproval, NeedsAnswer, Approved, Ended,
             TerminalStatus
    <2>5. HistoryInv'
      BY <1>0, <1>1 DEF IInv, HistoryInv, Ended, TerminalStatus, Running, EffectOf
    <2>6. EndSettlesLedger'
      BY <1>0, <1>1 DEF EndSettlesLedger, TerminalStatus
    <2>7. QED BY <2>1, <2>2, <2>3, <2>4, <2>5, <2>6 DEF IInv
  <1>2. CASE /\ status # "cancel_requested"
             /\ ~ (status = "running" /\ slice \in {"claimed", "running", "finished"})
             /\ EndTask("canceled")
             /\ CancelInvocations(Invocations)
             /\ UNCHANGED signaling
    <2>1. slice \in {"none", "inactive"}
      BY <1>0, <1>2 DEF IInv, TypeOK, SlicePc, SliceInv
    <2>2. /\ record' = [v \in Invocations |-> IF record[v] = "prepared" THEN "canceled" ELSE record[v]]
          /\ status' = "canceled" /\ waitingFor' = NoInvocation /\ answer' = "none"
          /\ signaling' \in BOOLEAN /\ signal' \in BOOLEAN
      BY <1>0, <1>2 DEF CancelInvocations, EndTask, IInv, TypeOK
    <2>3. /\ record' \in [Invocations -> ToolInvocationStatus \cup {"absent"}]
          /\ \A v \in Invocations : Closing(v)
      BY <2>2 DEF IInv, TypeOK, ToolInvocationStatus, Closing
    <2>4. faults = 0 => \A v \in Invocations : record'[v] \notin {"prepared", "running"}
      BY <2>1, <2>2 DEF IInv, HistoryInv, Running
    <2>5. QED BY <1>0, <2>1, <2>2, <2>3, <2>4, EndedTask DEF TerminalStatus
  <1>3. QED BY <1>1, <1>2 DEF CancelTask

\* CloseLedger settles every record.
LEMMA CloseLedgerSettles ==
    ASSUME IInv, CloseLedger
    PROVE  /\ record' \in [Invocations -> ToolInvocationStatus \cup {"absent"}]
           /\ \A v \in Invocations : Closing(v) /\ record'[v] \notin {"prepared", "running"}
  BY DEF IInv, TypeOK, CloseLedger, ToolInvocationStatus, Closing

LEMMA ProcessLossInv == IInv /\ ProcessLoss => IInv'
  <1> SUFFICES ASSUME IInv, ProcessLoss PROVE IInv'
    OBVIOUS
  <1>0. /\ UNCHANGED <<approval, node, loop, calls, decisions, asked, phase, performed, granted,
                       faults>>
        /\ slice' = "none" /\ outcome' = "none" /\ signaling' = FALSE /\ signal' = FALSE
    BY DEF ProcessLoss, graph, history
  <1>1. CASE EndTask("failed") /\ CloseLedger
    BY <1>0, <1>1, CloseLedgerSettles, EndedTask DEF EndTask, TerminalStatus
  <1>2. CASE status \notin {"running", "cancel_requested"} /\ UNCHANGED <<rows, record>>
    <2>0. UNCHANGED <<status, waitingFor, answer, record>> /\ slice \in {"none", "inactive"}
      BY <1>2 DEF rows, IInv, TypeOK, SlicePc, SliceInv
    <2>1. RecordInv' /\ BatchInv' /\ ToolInv' /\ PerformedInv'
      BY <1>0, <2>0, GraphKept DEF Closing
    <2>2. TypeOK'
      BY <1>0, <2>0 DEF IInv, TypeOK, SlicePc, Outcome
    <2>3. SliceInv'
      BY <1>0, <1>2, <2>0 DEF IInv, SliceInv, Ended, TerminalStatus
    <2>4. ApprovalInv'
      BY <1>0, <1>2, <2>0
         DEF IInv, SliceInv, ApprovalInv, NextApproval, NeedsAnswer, Approved, Ended,
             TerminalStatus
    <2>5. HistoryInv'
      BY <1>0, <1>2, <2>0
         DEF IInv, HistoryInv, SliceInv, Ended, TerminalStatus, Running, EffectOf
    <2>6. EndSettlesLedger'
      BY <1>0, <2>0 DEF IInv, EndSettlesLedger
    <2>7. QED BY <2>1, <2>2, <2>3, <2>4, <2>5, <2>6 DEF IInv
  <1>3. QED BY <1>1, <1>2 DEF ProcessLoss

LEMMA RecordOutcomeInv == IInv /\ RecordOutcome => IInv'
  <1> SUFFICES ASSUME IInv, RecordOutcome PROVE IInv'
    OBVIOUS
  <1>0. /\ UNCHANGED <<approval, node, loop, calls, decisions, asked, phase, performed, granted,
                       faults, signaling, signal>>
        /\ slice = "inactive" /\ slice' = "none" /\ outcome' = "none"
        /\ signaling' \in BOOLEAN /\ signal' \in BOOLEAN
    BY DEF RecordOutcome, graph, history, control, IInv, TypeOK
  <1>1. CASE status \in TerminalStatus /\ UNCHANGED <<rows, record>>
    <2>1. UNCHANGED <<status, waitingFor, answer, record>>
      BY <1>1 DEF rows
    <2>2. RecordInv' /\ BatchInv' /\ ToolInv' /\ PerformedInv'
      BY <1>0, <2>1, GraphKept DEF Closing
    <2>3. TypeOK'
      BY <1>0, <2>1 DEF IInv, TypeOK, SlicePc, Outcome
    <2>4. SliceInv'
      BY <1>0, <1>1, <2>1 DEF IInv, SliceInv, Ended, TerminalStatus
    <2>5. ApprovalInv'
      BY <1>0, <1>1, <2>1
         DEF IInv, ApprovalInv, NextApproval, NeedsAnswer, Approved, Ended,
             TerminalStatus
    <2>6. HistoryInv'
      BY <1>0, <1>1, <2>1
         DEF IInv, HistoryInv, Ended, TerminalStatus, Running, EffectOf
    <2>7. EndSettlesLedger'
      BY <1>0, <2>1 DEF IInv, EndSettlesLedger
    <2>8. QED BY <2>2, <2>3, <2>4, <2>5, <2>6, <2>7 DEF IInv
  <1>2. CASE (EndTask("canceled") \/ EndTask("failed")) /\ CloseLedger
    BY <1>0, <1>2, CloseLedgerSettles, EndedTask DEF EndTask, TerminalStatus
  <1>3. CASE outcome = "completed" /\ EndTask("completed") /\ UNCHANGED record
    <2>1. faults = 0 => \A v \in Invocations : record'[v] \notin {"prepared", "running"}
      BY <1>3 DEF IInv, HistoryInv
    <2>2. record' \in [Invocations -> ToolInvocationStatus \cup {"absent"}]
      BY <1>3 DEF IInv, TypeOK
    <2>3. QED BY <1>0, <1>3, <2>1, <2>2, EndedTask DEF EndTask, TerminalStatus, Closing
  <1>4. CASE /\ status = "running" /\ outcome \in {"approval_required", "user_input_required"}
             /\ answer' = "none" /\ UNCHANGED record
             /\ \/ /\ outcome = "approval_required" /\ status' = "auth_required"
                   /\ \E i \in DOMAIN decisions : NextApproval(i) /\ waitingFor' = decisions[i].ref
                \/ /\ outcome = "user_input_required" /\ status' = "input_required"
                   /\ UNCHANGED waitingFor
    <2>1. RecordInv' /\ BatchInv' /\ ToolInv' /\ PerformedInv'
      BY <1>0, <1>4, GraphKept DEF Closing
    <2>2. waitingFor' \in Invocations \cup {NoInvocation}
      <3>1. \A i \in DOMAIN decisions : decisions[i].ref \in Invocations
        BY Shapes DEF IInv, SliceInv
      <3>2. QED BY <1>4, <3>1 DEF IInv, TypeOK
    <2>3. TypeOK'
      BY <1>0, <1>4, <2>2 DEF IInv, TypeOK, SlicePc, Outcome, TaskStatus, Answer
    <2>4. SliceInv'
      BY <1>0, <1>4 DEF IInv, SliceInv, Ended, TerminalStatus
    <2>5. ApprovalInv'
      <3>1. status' = "auth_required" =>
              (\E i \in DOMAIN decisions : NextApproval(i) /\ waitingFor = decisions[i].ref)'
        BY <1>0, <1>4 DEF NextApproval, NeedsAnswer
      <3>2. QED BY <1>0, <1>4, <3>1 DEF IInv, SliceInv, ApprovalInv, Approved, Ended, TerminalStatus
    <2>6. HistoryInv'
      BY <1>0, <1>4 DEF IInv, HistoryInv, Ended, TerminalStatus, Running, EffectOf
    <2>7. EndSettlesLedger'
      BY <1>4 DEF EndSettlesLedger, TerminalStatus
    <2>8. QED BY <2>1, <2>3, <2>4, <2>5, <2>6, <2>7 DEF IInv
  <1>5. QED BY <1>1, <1>2, <1>3, <1>4 DEF RecordOutcome

LEMMA ResolveApprovalInv ==
    ASSUME IInv, NEW approved \in BOOLEAN, ResolveApproval(approved) PROVE IInv'
  <1> DEFINE v == waitingFor
  <1>0. /\ UNCHANGED <<slice, node, loop, calls, decisions, asked, phase, outcome, signaling, signal,
                       performed, faults>>
        /\ status = "auth_required" /\ status' = "queued" /\ waitingFor' = NoInvocation
        /\ approval[v] = "pending" /\ record[v] = "prepared"
        /\ answer' = IF approved THEN "approved" ELSE "rejected"
        /\ approval' = [approval EXCEPT ![v] = IF approved THEN "approved" ELSE "rejected"]
        /\ record' = IF approved THEN record ELSE [record EXCEPT ![v] = "canceled"]
        /\ granted' = IF approved THEN granted \cup {v} ELSE granted
    BY DEF ResolveApproval, graph, control
  <1>1. /\ slice = "none" /\ node = "approval_required" /\ loop \in Loops /\ InBatch /\ ~ Ended
        /\ outcome = "none"
    <2>1. slice = "none" /\ outcome = "none" /\ ~ Ended /\ node = "approval_required"
      BY <1>0 DEF IInv, TypeOK, SlicePc, SliceInv, Ended, TerminalStatus
    <2>2. QED BY <2>1, Shapes DEF IInv, SliceInv, InBatch
  <1>2. PICK i \in DOMAIN decisions : NextApproval(i) /\ v = decisions[i].ref
    BY <1>0 DEF IInv, ApprovalInv
  <1>3. /\ v = <<loop, i>> /\ v \in Invocations /\ v[1] = loop /\ i \in Nat
        /\ DOMAIN decisions \subseteq Nat /\ asked \in Nat
    <2>1. decisions[i].verdict # "denied" /\ v = <<loop, i>>
      BY <1>1, <1>2 DEF IInv, BatchInv
    <2>2. asked \in Nat
      BY LedgerAssumption DEF IInv, TypeOK
    <2>3. QED BY <1>1, <2>1, <2>2, Shapes DEF IInv, SliceInv, Positions
  <1> HIDE DEF v
  <1>4. /\ approval' \in [Invocations -> ToolInvocationApproval]
        /\ record' \in [Invocations -> ToolInvocationStatus \cup {"absent"}]
        /\ granted' \in SUBSET Invocations
        /\ \A u \in Invocations : u # v => approval'[u] = approval[u] /\ record'[u] = record[u]
        /\ approval'[v] = IF approved THEN "approved" ELSE "rejected"
        /\ record'[v] \in {"prepared", "canceled"} /\ (approved => record' = record)
        /\ approved => v \in granted' /\ granted \subseteq granted'
        /\ ~ approved => granted' = granted
    BY <1>0, <1>3 DEF IInv, TypeOK, ToolInvocationApproval, ToolInvocationStatus
  <1>5. TypeOK'
    <2>1. answer' \in Answer /\ status' \in TaskStatus
      BY <1>0 DEF Answer, TaskStatus
    <2>2. QED BY <1>0, <1>4, <2>1 DEF IInv, TypeOK
  <1>6. SliceInv'
    BY <1>0, <1>1 DEF IInv, SliceInv, Ended, TerminalStatus
  <1>7. \A u \in Invocations : record'[u] # "absent" <=> record[u] # "absent"
    BY <1>0, <1>3, <1>4
  <1>8. RecordInv'
    BY <1>0, <1>1, <1>3, <1>4, <1>7 DEF IInv, RecordInv, InBatch, Running
  <1>9. \A j \in DOMAIN decisions : <<loop, j>> \in Invocations /\ (j # i => <<loop, j>> # v)
    BY <1>1, <1>3, Shapes DEF IInv, SliceInv
  <1>10. BatchInv'
    <2>1. decisions[i].verdict = "approval_required"
      BY <1>2 DEF NextApproval, NeedsAnswer
    <2>2. \A j \in DOMAIN decisions : decisions[j].verdict = "allowed" =>
            approval'[<<loop, j>>] = approval[<<loop, j>>]
      BY <1>4, <1>9, <2>1
    <2>3. QED BY <1>0, <1>1, <1>7, <1>9, <2>2 DEF IInv, BatchInv, InBatch, Running, GateVerdict
  <1>11. ApprovalInv'
    <2>1. \A j \in DOMAIN decisions :
            decisions[j].verdict = "approval_required" /\ j <= asked => Approved(<<loop, j>>)'
      <3>1. i > asked
        BY <1>2 DEF NextApproval, NeedsAnswer
      <3>2. QED BY <1>0, <1>1, <1>3, <1>4, <1>9, <3>1 DEF IInv, ApprovalInv, Approved
    <2>2. \A j \in DOMAIN decisions : NextApproval(j) => j = i
      BY <1>2, <1>3 DEF NextApproval
    <2>3. \A j \in DOMAIN decisions : NextApproval(j)' => NextApproval(j)
      BY <1>0 DEF NextApproval, NeedsAnswer
    <2>4. approved => Approved(<<loop, i>>)'
      BY <1>0, <1>3, <1>4 DEF Approved
    <2>5. answer' = "approved" => \A u \in Invocations : u[1] = loop => record'[u] \in {"absent", "prepared"}
      BY <1>0, <1>1, <1>4 DEF IInv, ApprovalInv
    <2>6. QED BY <1>0, <1>1, <2>1, <2>2, <2>3, <2>4, <2>5 DEF ApprovalInv, Approved
  <1>12. ToolInv'
    BY <1>0, <1>1 DEF ToolInv, Running
  <1>13. PerformedInv'
    <2> SUFFICES ASSUME NEW u \in Invocations, performed'[u] > 0
                 PROVE  record'[u] \in NotRepeatable /\ performed'[u] = 1 /\ Cleared(u[1])'
      BY DEF PerformedInv, Cleared
    <2>1. record[u] \in NotRepeatable /\ performed'[u] = 1 /\ Cleared(u[1])
      BY <1>0 DEF IInv, PerformedInv
    <2>2. u[1] # loop
      BY <1>1, <2>1 DEF IInv, RecordInv, NotRepeatable
    <2>3. \A j \in DOMAIN calls[u[1]] : <<u[1], j>> \in Invocations /\ <<u[1], j>> # v
      BY <1>3, <2>2, Shapes DEF IInv, SliceInv
    <2>4. Cleared(u[1])'
      BY <1>0, <1>4, <2>1, <2>3 DEF Cleared
    <2>5. QED BY <1>3, <1>4, <2>1, <2>2, <2>4
  <1>14. HistoryInv'
    BY <1>0, <1>1, <1>3, <1>4, <1>7
       DEF IInv, HistoryInv, Ended, TerminalStatus, Running, EffectOf
  <1>15. EndSettlesLedger'
    BY <1>0 DEF EndSettlesLedger, TerminalStatus
  <1>16. QED BY <1>5, <1>6, <1>8, <1>10, <1>11, <1>12, <1>13, <1>14, <1>15 DEF IInv

(* The graph. *)

\* The graph returns without touching the ledger.
LEMMA ReturnStep ==
    ASSUME IInv, slice = "running", node # "tools",
           UNCHANGED <<status, waitingFor, answer, record, approval, node, loop, calls, decisions, asked,
                       phase, performed, granted, signaling>>,
           slice' = "finished", signal' = FALSE,
           outcome' \in {"failed", "completed", "approval_required"},
           faults' \in 0 .. MaxFaults, faults' = 0 => faults = 0,
           outcome' = "completed" /\ faults' = 0 =>
             \A v \in Invocations : record[v] \notin {"prepared", "running"},
           outcome' = "approval_required" =>
             node = "approval_required" /\ answer \notin {"approved", "rejected"}
    PROVE  IInv'
  <1>1. RecordInv' /\ BatchInv' /\ ToolInv' /\ PerformedInv'
    BY GraphKept DEF Closing
  <1>2. TypeOK'
    BY DEF IInv, TypeOK, SlicePc, Outcome
  <1>3. SliceInv'
    BY DEF IInv, SliceInv, Ended, TerminalStatus
  <1>4. ApprovalInv'
    BY DEF IInv, SliceInv, ApprovalInv, NextApproval, NeedsAnswer, Approved, Ended,
           TerminalStatus
  <1>5. HistoryInv'
    BY DEF IInv, SliceInv, HistoryInv, Ended, TerminalStatus, Running, EffectOf
  <1>6. EndSettlesLedger'
    BY DEF IInv, SliceInv, EndSettlesLedger, TerminalStatus
  <1>7. QED BY <1>1, <1>2, <1>3, <1>4, <1>5, <1>6 DEF IInv

LEMMA CallModelInv == IInv /\ CallModel => IInv'
  <1> SUFFICES ASSUME IInv, CallModel PROVE IInv'
    OBVIOUS
  <1>0. /\ UNCHANGED <<status, waitingFor, answer, record, approval, loop, decisions, asked, phase,
                       performed, granted, faults, signaling>>
        /\ slice = "running" /\ node = "call_model"
    BY DEF CallModel, rows, ledger, history, Running
  <1>1. /\ ~ Ended /\ loop \in Loops /\ outcome = "none" /\ faults \in 0 .. MaxFaults
        /\ status \notin TerminalStatus
    BY <1>0, Shapes DEF IInv, TypeOK, SliceInv, Ended, TerminalStatus
  <1>2. \A v \in Invocations : record[v] # "absent" => v[1] < loop
    BY <1>0 DEF IInv, RecordInv
  <1>3. CASE Return("failed") /\ UNCHANGED <<node, calls>>
    BY <1>0, <1>1, <1>3, ReturnStep DEF Return
  <1>4. CASE ~ signal /\ Return("completed") /\ UNCHANGED <<node, calls>>
    <2>1. faults = 0 => \A v \in Invocations : record[v] \notin {"prepared", "running"}
      BY <1>0, <1>1, <1>2, <1>4 DEF IInv, HistoryInv, Running
    <2>2. QED BY <1>0, <1>1, <1>4, <2>1, ReturnStep DEF Return
  <1>5. ASSUME ~ signal, NEW b \in Batches, calls' = [calls EXCEPT ![loop] = b],
               GoTo("check_permission")
        PROVE  IInv'
    <2>1. /\ calls' \in [Loops -> Batches \cup {<<>>}] /\ calls'[loop] = b
          /\ \A l \in Loops : l # loop => calls'[l] = calls[l]
          /\ node' = "check_permission" /\ UNCHANGED <<slice, outcome, signal>>
      BY <1>5, <1>1 DEF IInv, TypeOK, GoTo
    <2>2. \A v \in Invocations : record[v] # "absent" =>
            v[1] \in Loops /\ v[1] # loop /\ calls'[v[1]] = calls[v[1]] /\ v[1] < loop
      <3>1. \A v \in Invocations : v[1] \in Loops /\ v[1] \in Nat /\ loop \in Nat
        BY Shapes DEF IInv, SliceInv
      <3>2. QED BY <1>2, <2>1, <3>1
    <2>3. TypeOK'
      BY <1>0, <2>1 DEF IInv, TypeOK, Node
    <2>4. SliceInv'
      BY <1>0, <1>1, <2>1 DEF IInv, SliceInv, Ended, TerminalStatus
    <2>5. RecordInv'
      BY <1>0, <2>1, <2>2 DEF IInv, RecordInv, InBatch, Running
    <2>6. BatchInv'
      BY <1>0, <2>1 DEF BatchInv, InBatch, Running
    <2>7. ApprovalInv'
      BY <1>0, <1>1, <2>1 DEF IInv, SliceInv, ApprovalInv
    <2>8. ToolInv'
      BY <2>1 DEF ToolInv, Running
    <2>9. PerformedInv'
      <3> SUFFICES ASSUME NEW u \in Invocations, performed'[u] > 0
                   PROVE  record'[u] \in NotRepeatable /\ performed'[u] = 1 /\ Cleared(u[1])'
        BY DEF PerformedInv, Cleared
      <3>1. record[u] \in NotRepeatable /\ performed'[u] = 1 /\ Cleared(u[1])
        BY <1>0 DEF IInv, PerformedInv
      <3>2. calls'[u[1]] = calls[u[1]]
        BY <2>2, <3>1 DEF NotRepeatable
      <3>3. QED BY <1>0, <3>1, <3>2 DEF Cleared
    <2>10. HistoryInv'
      BY <1>0, <1>1, <1>2, <1>5, <2>1, <2>2
         DEF IInv, HistoryInv, Ended, TerminalStatus, Running,
                                             EffectOf
    <2>11. EndSettlesLedger'
      BY <1>0, <1>1 DEF EndSettlesLedger
    <2>12. QED BY <2>3, <2>4, <2>5, <2>6, <2>7, <2>8, <2>9, <2>10, <2>11 DEF IInv
  <1>6. QED BY <1>3, <1>4, <1>5 DEF CallModel

LEMMA CheckPermissionInv == IInv /\ CheckPermission => IInv'
  <1> SUFFICES ASSUME IInv, CheckPermission PROVE IInv'
    OBVIOUS
  <1>0. /\ UNCHANGED <<status, waitingFor, answer, record, approval, loop, calls, phase, performed,
                       granted, faults, signaling>>
        /\ slice = "running" /\ node = "check_permission"
    BY DEF CheckPermission, rows, ledger, history, Running
  <1>1. /\ ~ Ended /\ loop \in Loops /\ outcome = "none" /\ faults \in 0 .. MaxFaults
        /\ status \notin TerminalStatus /\ status \in {"running", "cancel_requested"}
    BY <1>0, Shapes DEF IInv, TypeOK, SliceInv, Ended, TerminalStatus
  <1>2. \A v \in Invocations : record[v] # "absent" => v[1] < loop
    BY <1>0 DEF IInv, RecordInv
  <1>3. PerformedInv'
    BY <1>0 DEF IInv, PerformedInv, Cleared
  <1>4. EndSettlesLedger'
    BY <1>0, <1>1 DEF EndSettlesLedger
  <1>5. CASE Return("failed") /\ UNCHANGED <<node, decisions, asked>>
    BY <1>0, <1>1, <1>5, ReturnStep DEF Return
  <1>6. CASE /\ node' = "user_input_required" /\ Return("user_input_required")
             /\ UNCHANGED <<decisions, asked>>
    <2>1. slice' = "finished" /\ outcome' = "user_input_required" /\ signal' = FALSE
      BY <1>6 DEF Return
    <2>2. TypeOK'
      BY <1>0, <1>6, <2>1 DEF IInv, TypeOK, Node, SlicePc, Outcome
    <2>3. SliceInv'
      BY <1>0, <1>1, <1>6, <2>1 DEF IInv, SliceInv, Ended, TerminalStatus
    <2>4. RecordInv' /\ BatchInv' /\ ToolInv'
      BY <1>0, <1>6, <2>1 DEF IInv, RecordInv, BatchInv, ToolInv, InBatch, Running
    <2>5. ApprovalInv'
      BY <1>0, <1>1, <1>6, <2>1 DEF IInv, ApprovalInv
    <2>6. HistoryInv'
      BY <1>0, <1>1, <1>6, <2>1
         DEF IInv, HistoryInv, Ended, TerminalStatus, Running, EffectOf
    <2>7. QED BY <1>3, <1>4, <2>2, <2>3, <2>4, <2>5, <2>6 DEF IInv
  <1>7. CASE decisions' = <<>> /\ asked' = 0 /\ GoTo("prepare")
    <2>1. /\ node' = "prepare" /\ UNCHANGED <<slice, outcome, signal>>
          /\ decisions' \in Seq(Decision) /\ Len(decisions') = 0 /\ DOMAIN decisions' = {}
      BY <1>7, EmptySeq DEF GoTo
    <2>2. TypeOK'
      <3>1. MaxCalls \in Nat
        BY LedgerAssumption
      <3>2. QED BY <1>0, <1>7, <2>1, <3>1 DEF IInv, TypeOK, Node
    <2>3. SliceInv'
      BY <1>0, <1>1, <1>7, <2>1 DEF IInv, SliceInv, Ended, TerminalStatus
    <2>4. \A v \in Invocations : v[1] = loop => record[v] = "absent"
      <3>1. \A v \in Invocations : v[1] \in Nat
        BY Shapes DEF IInv, SliceInv
      <3>2. QED BY <1>2, <3>1
    <2>5. RecordInv'
      BY <1>0, <2>1, <2>4 DEF IInv, RecordInv, InBatch, Running
    <2>6. BatchInv'
      <3>1. calls[loop] \in Batches /\ Len(calls[loop]) \in 0 .. MaxCalls
        BY <1>0, <1>1, Shapes DEF IInv, BatchInv, SliceInv
      <3>2. QED BY <1>0, <2>1, <3>1 DEF BatchInv, InBatch, Running
    <2>7. ToolInv'
      BY <2>1 DEF ToolInv, Running
    <2>8. ApprovalInv'
      BY <1>0, <1>1, <1>7, <2>1, <2>4 DEF IInv, ApprovalInv
    <2>9. HistoryInv'
      BY <1>0, <1>1, <1>7, <2>1
         DEF IInv, HistoryInv, Ended, TerminalStatus, Running, EffectOf
    <2>10. QED BY <1>3, <1>4, <2>2, <2>3, <2>5, <2>6, <2>7, <2>8, <2>9 DEF IInv
  <1>8. QED BY <1>5, <1>6, <1>7 DEF CheckPermission

LEMMA RejectToolInv == IInv /\ RejectTool => IInv'
  <1> SUFFICES ASSUME IInv, RejectTool PROVE IInv'
    OBVIOUS
  <1> DEFINE refs == {decisions[i].ref : i \in DOMAIN decisions}
  <1>0. /\ UNCHANGED <<status, waitingFor, answer, approval, node, loop, calls, decisions, asked, phase,
                       performed, granted, faults, signaling>>
        /\ slice = "running" /\ node = "reject_tool"
        /\ slice' = "finished" /\ outcome' = "completed" /\ signal' = FALSE
        /\ record' = [v \in Invocations |->
                        IF v \in refs /\ record[v] = "prepared" THEN "canceled" ELSE record[v]]
    BY DEF RejectTool, rows, graph, history, Running, Return, CancelInvocations
  <1>1. /\ \A v \in Invocations : Closing(v)
        /\ record' \in [Invocations -> ToolInvocationStatus \cup {"absent"}]
    BY <1>0 DEF Closing, IInv, TypeOK, ToolInvocationStatus
  <1>2. RecordInv' /\ BatchInv' /\ ToolInv' /\ PerformedInv'
    BY <1>0, <1>1, GraphKept
  <1>3. TypeOK'
    BY <1>0, <1>1 DEF IInv, TypeOK, SlicePc, Outcome
  <1>4. ~ Ended /\ status \notin TerminalStatus /\ status \in {"running", "cancel_requested"} /\ InBatch
    BY <1>0 DEF IInv, SliceInv, Ended, TerminalStatus, InBatch
  <1>5. SliceInv'
    BY <1>0, <1>4 DEF IInv, SliceInv, Ended, TerminalStatus
  <1>6. ApprovalInv'
    BY <1>0, <1>4 DEF IInv, ApprovalInv
  <1>7. HistoryInv'
    <2>1. ASSUME faults = 0, NEW v \in Invocations PROVE record'[v] \notin {"prepared", "running"}
      <3>1. CASE record[v] = "absent"
        BY <1>0, <3>1
      <3>2. CASE record[v] # "absent" /\ v[1] < loop
        BY <1>0, <1>4, <2>1, <3>2 DEF IInv, HistoryInv, Running
      <3>3. CASE record[v] # "absent" /\ v[1] = loop
        <4>1. v \in refs
          BY <1>4, <3>3 DEF IInv, RecordInv
        <4>2. record[v] \in {"prepared", "canceled"}
          BY <1>0, <3>3 DEF IInv, RecordInv
        <4>3. QED BY <1>0, <4>1, <4>2
      <3>4. QED
        <4>1. v[1] \in Nat /\ loop \in Nat
          BY Shapes DEF IInv, SliceInv
        <4>2. QED BY <3>1, <3>2, <3>3, <4>1 DEF IInv, RecordInv
    <2>2. \A v \in Invocations : record'[v] # "absent" => record[v] # "absent"
      BY <1>1 DEF Closing
    <2>3. QED BY <1>0, <2>1, <2>2 DEF IInv, HistoryInv, Ended, EffectOf
  <1>8. EndSettlesLedger'
    BY <1>0, <1>4 DEF EndSettlesLedger
  <1>9. QED BY <1>2, <1>3, <1>5, <1>6, <1>7, <1>8 DEF IInv

\* A turn of the loop ends: what it recorded is settled, or a cancellation or a failed
\* write stops the slice.
LEMMA NextLoopInv ==
    ASSUME IInv, slice = "running", node \in {"tools", "user_input_required"}, NextLoop,
           UNCHANGED <<status, waitingFor, answer, record, approval, calls, decisions, asked, phase,
                       performed, granted, faults, signaling>>,
           faults = 0 => \A v \in Invocations : v[1] = loop /\ record[v] # "absent" =>
             record[v] \in {"succeeded", "uncertain"} \/ (record[v] = "canceled" /\ signal)
    PROVE  IInv'
  <1>1. /\ ~ Ended /\ loop \in Loops /\ outcome = "none" /\ status \notin TerminalStatus
        /\ status \in {"running", "cancel_requested"} /\ loop \in Nat /\ loop <= MaxLoops
        /\ MaxLoops \in Nat /\ loop >= 1
    BY Shapes DEF IInv, SliceInv, Ended, TerminalStatus, Loops
  <1>2. \A v \in Invocations : v[1] \in Nat /\ (record[v] # "absent" => v[1] <= loop)
    BY Shapes DEF IInv, SliceInv, RecordInv
  <1>3. /\ loop' = loop + 1
        /\ \/ slice' = "finished" /\ outcome' = "failed" /\ signal' = FALSE /\ node' = node
           \/ loop + 1 <= MaxLoops /\ node' = "call_model" /\ UNCHANGED <<slice, outcome, signal>>
    BY DEF NextLoop, Return, GoTo
  <1>4. TypeOK'
    <2>1. loop' \in 1 .. MaxLoops + 1
      BY <1>1, <1>3
    <2>2. slice' \in SlicePc /\ outcome' \in Outcome /\ node' \in Node /\ signal' \in BOOLEAN
      BY <1>3 DEF IInv, TypeOK, Node, SlicePc, Outcome
    <2>3. QED BY <2>1, <2>2 DEF IInv, TypeOK
  <1>5. SliceInv'
    BY <1>1, <1>3 DEF IInv, SliceInv, Ended, TerminalStatus
  <1>6. ~ InBatch' /\ ~ Running("tools")' /\ node' \in {"tools", "user_input_required", "call_model"}
    BY <1>3 DEF InBatch, Running
  <1>7. RecordInv'
    <2>1. \A v \in Invocations : record'[v] # "absent" => v[1] < loop'
      BY <1>1, <1>2, <1>3
    <2>2. QED BY <1>2, <1>3, <1>6, <2>1 DEF IInv, RecordInv
  <1>8. BatchInv' /\ ToolInv'
    BY <1>6 DEF BatchInv, ToolInv
  <1>9. ApprovalInv'
    BY <1>1, <1>3, <1>6 DEF IInv, ApprovalInv
  <1>10. PerformedInv'
    BY DEF IInv, PerformedInv, Cleared
  <1>11. HistoryInv'
    <2> SUFFICES ASSUME faults = 0 PROVE HistoryInv'
      BY DEF HistoryInv
    <2>1. \A v \in Invocations : record[v] # "absent" =>
            record[v] \in {"succeeded", "uncertain"} \/ (record[v] = "canceled" /\ signal)
      BY <1>1, <1>2 DEF IInv, HistoryInv, Running
    <2>2. QED BY <1>1, <1>3, <2>1 DEF IInv, HistoryInv, Ended, TerminalStatus, Running, EffectOf
  <1>12. EndSettlesLedger'
    BY <1>1 DEF EndSettlesLedger
  <1>13. QED BY <1>4, <1>5, <1>7, <1>8, <1>9, <1>10, <1>11, <1>12 DEF IInv

LEMMA TakeInputInv == IInv /\ TakeInput => IInv'
  <1> SUFFICES ASSUME IInv, TakeInput PROVE IInv'
    OBVIOUS
  <1>0. /\ UNCHANGED <<status, waitingFor, answer, record, approval, calls, decisions, asked, phase,
                       performed, granted, faults, signaling>>
        /\ slice = "running" /\ node = "user_input_required" /\ NextLoop
    BY DEF TakeInput, rows, ledger, history, Running
  <1>1. \A v \in Invocations : record[v] # "absent" => v[1] # loop
    <2>1. loop \in Nat
      BY Shapes DEF IInv, SliceInv
    <2>2. QED BY <1>0, <2>1 DEF IInv, RecordInv
  <1>2. QED BY <1>0, <1>1, NextLoopInv

LEMMA RecordToolMessagesInv == IInv /\ RecordToolMessages => IInv'
  <1> SUFFICES ASSUME IInv, RecordToolMessages PROVE IInv'
    OBVIOUS
  <1>0. /\ UNCHANGED <<status, waitingFor, answer, record, approval, calls, decisions, asked, phase,
                       performed, granted, faults, signaling>>
        /\ slice = "running" /\ node = "tools" /\ NextLoop /\ Running("tools")
        /\ \A i \in Positions : phase[i] = "done"
    BY DEF RecordToolMessages, rows, ledger, history, Running
  <1>1. ASSUME faults = 0, NEW v \in Invocations, v[1] = loop, record[v] # "absent"
        PROVE  record[v] \in {"succeeded", "uncertain"} \/ (record[v] = "canceled" /\ signal)
    <2>1. v = <<loop, v[2]>> /\ v[2] \in Positions
      BY <1>1, Shapes DEF IInv, SliceInv
    <2>2. v[2] \in DOMAIN calls[loop]
      BY <1>1 DEF IInv, RecordInv
    <2>3. ThreadAt(v[2])
      BY <1>0, <2>1 DEF IInv, ToolInv
    <2>4. QED BY <1>0, <1>1, <2>1, <2>2, <2>3 DEF ThreadAt
  <1>2. QED BY <1>0, <1>1, NextLoopInv

\* The ToolNode starts on a batch in which every call is allowed or approved.
LEMMA ToolsStart ==
    ASSUME IInv, slice = "running",
           node = "prepare" \/ (node = "approval_required" /\ answer # "rejected"),
           Len(decisions) = Len(Batch),
           \A i \in DOMAIN decisions :
             /\ decisions[i].verdict # "denied"
             /\ decisions[i].verdict = "approval_required" => Approved(<<loop, i>>),
           StartTools, node' = "tools", answer' \in Answer \ {"approved"},
           asked' \in 0 .. MaxCalls,
           UNCHANGED <<status, waitingFor, record, approval, slice, loop, calls, decisions, outcome,
                       signaling, signal, performed, granted, faults>>
    PROVE  IInv'
  <1>1. /\ ~ Ended /\ loop \in Loops /\ outcome = "none" /\ status \notin TerminalStatus
        /\ status \in {"running", "cancel_requested"} /\ InBatch
    BY Shapes DEF IInv, SliceInv, Ended, TerminalStatus, InBatch
  <1>2. /\ DOMAIN calls[loop] = 1 .. Len(calls[loop]) /\ DOMAIN decisions = DOMAIN calls[loop]
        /\ DOMAIN calls[loop] \subseteq Positions /\ Len(calls[loop]) \in Nat
        /\ \A i \in Positions : <<loop, i>> \in Invocations /\ i \in Nat
    BY <1>1, Shapes DEF IInv, SliceInv, Batch, Positions
  <1>3. ASSUME NEW i \in DOMAIN calls[loop]
        PROVE  /\ decisions[i].ref = <<loop, i>> /\ record[<<loop, i>>] = "prepared"
               /\ approval[<<loop, i>>] \in {"not_required", "approved"}
               /\ calls[loop][i] \notin Forbidden
               /\ calls[loop][i] \in NeedsApproval => <<loop, i>> \in granted
               /\ performed[<<loop, i>>] = 0
    <2>1. /\ decisions[i].ref = <<loop, i>> /\ decisions[i].verdict = GateVerdict(calls[loop][i])
          /\ record[<<loop, i>>] # "absent"
          /\ decisions[i].verdict = "allowed" => approval[<<loop, i>>] = "not_required"
      BY <1>1, <1>2 DEF IInv, BatchInv
    <2>2. <<loop, i>> \in Invocations /\ <<loop, i>>[1] = loop
      BY <1>2
    <2>3. record[<<loop, i>>] = "prepared"
      BY <1>1, <2>1, <2>2 DEF IInv, ApprovalInv
    <2>4. performed[<<loop, i>>] = 0
      BY <2>2, <2>3, SMTT(30) DEF IInv, TypeOK, PerformedInv, NotRepeatable
    <2>5. QED BY <1>2, <2>1, <2>3, <2>4, LedgerAssumption DEF GateVerdict, Approved
  <1>4. Cleared(loop)
    BY <1>3 DEF Cleared
  <1>5. phase' = [i \in Positions |-> IF i <= Len(calls[loop]) THEN "waiting" ELSE "done"]
    BY DEF StartTools, Batch
  <1>6. TypeOK'
    BY <1>5 DEF IInv, TypeOK, Node, CallPhase
  <1>7. SliceInv'
    BY <1>1 DEF IInv, SliceInv, Ended, TerminalStatus
  <1>8. RecordInv'
    BY <1>1 DEF IInv, RecordInv, InBatch, Running
  <1>9. BatchInv'
    <2>1. /\ calls[loop] \in Batches
          /\ \A i \in DOMAIN decisions :
               /\ decisions[i].ref = <<loop, i>>
               /\ decisions[i].verdict = GateVerdict(calls[loop][i])
               /\ record[<<loop, i>>] # "absent"
               /\ decisions[i].verdict = "allowed" => approval[<<loop, i>>] = "not_required"
      BY <1>1 DEF IInv, BatchInv
    <2>2. Len(decisions) = Len(calls[loop]) /\ Len(decisions) <= Len(calls[loop])
      BY <1>2 DEF Batch
    <2>3. QED BY <2>1, <2>2 DEF BatchInv, GateVerdict
  <1>10. ApprovalInv'
    BY <1>1 DEF IInv, ApprovalInv
  <1>11. ToolInv'
    <2>1. Cleared(loop)'
      BY <1>4 DEF Cleared
    <2>2. ASSUME NEW i \in Positions PROVE ThreadAt(i)'
      <3>1. CASE i \in DOMAIN calls[loop]
        <4>1. phase'[i] = "waiting"
          BY <1>2, <1>5, <3>1
        <4>2. QED BY <1>3, <3>1, <4>1 DEF ThreadAt
      <3>2. CASE i \notin DOMAIN calls[loop]
        <4>1. phase'[i] = "done"
          BY <1>2, <1>5, <3>2 DEF Positions
        <4>2. QED BY <3>2, <4>1 DEF ThreadAt
      <3>3. QED BY <3>1, <3>2
    <2>3. QED BY <2>1, <2>2 DEF ToolInv
  <1>12. PerformedInv'
    BY DEF IInv, PerformedInv, Cleared
  <1>13. HistoryInv'
    BY <1>1 DEF IInv, HistoryInv, Ended, TerminalStatus, Running, EffectOf
  <1>14. EndSettlesLedger'
    BY <1>1 DEF EndSettlesLedger
  <1>15. QED BY <1>6, <1>7, <1>8, <1>9, <1>10, <1>11, <1>12, <1>13, <1>14 DEF IInv

\* The graph moves on inside the batch without touching anything else.
LEMMA MoveInBatch ==
    ASSUME IInv, slice = "running",
           \/ node = "prepare" /\ node' \in {"reject_tool", "approval_required"}
           \/ node = "approval_required" /\ node' = "reject_tool" /\ answer # "approved",
           node' = "approval_required" =>
             Len(decisions) = Len(calls[loop]) /\ \A i \in DOMAIN decisions : decisions[i].verdict # "denied",
           UNCHANGED <<status, waitingFor, answer, record, approval, slice, loop, calls, decisions, asked,
                       phase, outcome, signaling, signal, performed, granted, faults>>
    PROVE  IInv'
  <1>1. /\ ~ Ended /\ outcome = "none" /\ status \notin TerminalStatus /\ loop <= MaxLoops
        /\ status \in {"running", "cancel_requested"} /\ InBatch
        /\ DOMAIN decisions \subseteq Positions
    BY Shapes DEF IInv, SliceInv, Ended, TerminalStatus, InBatch
  <1>2. TypeOK'
    BY DEF IInv, TypeOK, Node
  <1>3. SliceInv'
    BY <1>1 DEF IInv, SliceInv, Ended, TerminalStatus
  <1>4. RecordInv'
    BY <1>1 DEF IInv, RecordInv, InBatch, Running
  <1>5. BatchInv'
    BY <1>1 DEF IInv, BatchInv, InBatch, Running, GateVerdict
  <1>6. ApprovalInv'
    <2>1. node' = "approval_required" => asked = 0 /\ answer # "approved"
      BY DEF IInv, ApprovalInv
    <2>2. \A i \in DOMAIN decisions : i >= 1
      BY <1>1 DEF Positions
    <2>3. QED BY <1>1, <2>1, <2>2 DEF IInv, ApprovalInv, Ended, TerminalStatus
  <1>7. ToolInv'
    BY DEF ToolInv, Running
  <1>8. PerformedInv'
    BY DEF IInv, PerformedInv, Cleared
  <1>9. HistoryInv'
    BY <1>1 DEF IInv, HistoryInv, Ended, TerminalStatus, Running, EffectOf
  <1>10. EndSettlesLedger'
    BY <1>1 DEF EndSettlesLedger
  <1>11. QED BY <1>2, <1>3, <1>4, <1>5, <1>6, <1>7, <1>8, <1>9, <1>10 DEF IInv

LEMMA RoutePermissionInv == IInv /\ RoutePermission => IInv'
  <1> SUFFICES ASSUME IInv, RoutePermission PROVE IInv'
    OBVIOUS
  <1>0. /\ UNCHANGED <<status, waitingFor, answer, record, approval, loop, calls, decisions, asked,
                       signaling, performed, granted, faults>>
        /\ slice = "running" /\ node = "prepare" /\ Len(decisions) = Len(Batch)
    BY DEF RoutePermission, rows, ledger, history, Running
  <1>1. CASE Has("denied") /\ GoTo("reject_tool") /\ UNCHANGED phase
    BY <1>0, <1>1, MoveInBatch DEF GoTo
  <1>2. CASE ~ Has("denied") /\ GoTo("approval_required") /\ UNCHANGED phase
    BY <1>0, <1>2, MoveInBatch DEF GoTo, Has, Batch
  <1>3. CASE ~ Has("denied") /\ ~ Has("approval_required") /\ StartTools /\ GoTo("tools")
    <2>1. answer' \in Answer \ {"approved"} /\ asked' \in 0 .. MaxCalls
      BY <1>0 DEF IInv, TypeOK, ApprovalInv
    <2>2. QED BY <1>0, <1>3, <2>1, ToolsStart DEF GoTo, Has
  <1>4. QED BY <1>1, <1>2, <1>3 DEF RoutePermission

LEMMA AskApprovalInv == IInv /\ AskApproval => IInv'
  <1> SUFFICES ASSUME IInv, AskApproval PROVE IInv'
    OBVIOUS
  <1>0. /\ UNCHANGED <<status, waitingFor, record, approval, loop, calls, decisions, signaling,
                       performed, granted, faults>>
        /\ slice = "running" /\ node = "approval_required"
    BY DEF AskApproval, ledger, history, Running
  <1>1. /\ ~ Ended /\ outcome = "none" /\ status \notin TerminalStatus /\ loop <= MaxLoops
        /\ status \in {"running", "cancel_requested"} /\ faults \in 0 .. MaxFaults /\ asked \in Nat
        /\ DOMAIN decisions \subseteq Positions /\ Positions \subseteq Nat
    <2>1. DOMAIN decisions \subseteq Positions /\ Positions \subseteq Nat
      BY Shapes DEF IInv, SliceInv, Positions
    <2>2. asked \in Nat
      BY LedgerAssumption DEF IInv, TypeOK
    <2>3. QED BY <1>0, <2>1, <2>2, Shapes DEF IInv, TypeOK, SliceInv, Ended, TerminalStatus
  <1>2. PICK i \in DOMAIN decisions :
          /\ NextApproval(i)
          /\ \/ /\ answer \notin {"approved", "rejected"}
                /\ Return("approval_required")
                /\ UNCHANGED <<answer, node, asked, phase>>
             \/ /\ answer = "rejected"
                /\ GoTo("reject_tool")
                /\ UNCHANGED <<answer, asked, phase>>
             \/ /\ answer = "approved"
                /\ asked' = i
                /\ answer' = "none"
                /\ IF \E j \in DOMAIN decisions : j > i /\ NeedsAnswer(j)
                     THEN UNCHANGED <<node, slice, outcome, signal, phase>>
                     ELSE StartTools /\ GoTo("tools")
    BY DEF AskApproval
  <1>3. CASE answer \notin {"approved", "rejected"} /\ Return("approval_required")
               /\ UNCHANGED <<answer, node, asked, phase>>
    BY <1>0, <1>1, <1>3, ReturnStep DEF Return
  <1>4. CASE answer = "rejected" /\ GoTo("reject_tool") /\ UNCHANGED <<answer, asked, phase>>
    BY <1>0, <1>4, MoveInBatch DEF GoTo
  <1>5. CASE answer = "approved" /\ asked' = i /\ answer' = "none"
    <2>1. ASSUME NEW j \in DOMAIN decisions, decisions[j].verdict = "approval_required", j <= i
          PROVE  Approved(<<loop, j>>)
      <3>0. i \in Nat /\ j \in Nat
        BY <1>1, <1>2
      <3>1. CASE j <= asked
        BY <1>0, <2>1, <3>1 DEF IInv, ApprovalInv
      <3>2. CASE j > asked
        <4>1. i <= j
          BY <1>2, <2>1, <3>2 DEF NextApproval, NeedsAnswer
        <4>2. j = i
          BY <2>1, <3>0, <4>1
        <4>3. QED BY <1>0, <1>2, <1>5, <4>2 DEF IInv, ApprovalInv
      <3>3. QED BY <1>1, <3>0, <3>1, <3>2
    <2>2. asked' \in 0 .. MaxCalls
      BY <1>1, <1>5 DEF Positions
    <2>3. CASE UNCHANGED <<node, slice, outcome, signal, phase>>
      <3>1. RecordInv' /\ BatchInv' /\ ToolInv' /\ PerformedInv'
        BY <1>0, <2>3
           DEF IInv, RecordInv, BatchInv, ToolInv, PerformedInv, Cleared, InBatch,
               Running,
                          GateVerdict
      <3>2. TypeOK'
        BY <1>0, <1>5, <2>2, <2>3 DEF IInv, TypeOK, Answer
      <3>3. SliceInv'
        BY <1>0, <1>1, <2>3 DEF IInv, SliceInv, Ended, TerminalStatus
      <3>4. ApprovalInv'
        BY <1>0, <1>1, <1>5, <2>1, <2>3
           DEF IInv, ApprovalInv, Approved, Ended, TerminalStatus
      <3>5. HistoryInv'
        BY <1>0, <1>1, <2>3
           DEF IInv, HistoryInv, Ended, TerminalStatus, Running, EffectOf
      <3>6. EndSettlesLedger'
        BY <1>0, <1>1 DEF EndSettlesLedger
      <3>7. QED BY <3>1, <3>2, <3>3, <3>4, <3>5, <3>6 DEF IInv
    <2>4. CASE /\ ~ \E j \in DOMAIN decisions : j > i /\ NeedsAnswer(j)
               /\ StartTools /\ GoTo("tools")
      <3>1. \A j \in DOMAIN decisions :
              /\ decisions[j].verdict # "denied"
              /\ decisions[j].verdict = "approval_required" => Approved(<<loop, j>>)
        <4> SUFFICES ASSUME NEW j \in DOMAIN decisions
                     PROVE  /\ decisions[j].verdict # "denied"
                            /\ decisions[j].verdict = "approval_required" => Approved(<<loop, j>>)
          OBVIOUS
        <4>1. decisions[j].verdict # "denied"
          BY <1>0 DEF IInv, BatchInv
        <4>2. decisions[j].verdict = "approval_required" => j <= i
          <5>1. asked < i /\ i \in Nat /\ j \in Nat
            BY <1>1, <1>2 DEF NextApproval, NeedsAnswer
          <5>2. QED BY <1>1, <2>4, <5>1 DEF NeedsAnswer
        <4>3. QED BY <2>1, <4>1, <4>2
      <3>2. Len(decisions) = Len(Batch)
        BY <1>0 DEF IInv, BatchInv, Batch
      <3>3. QED BY <1>0, <1>5, <2>2, <2>4, <3>1, <3>2, ToolsStart DEF GoTo, Answer
    <2>5. QED BY <1>2, <1>5, <2>3, <2>4
  <1>6. QED BY <1>2, <1>3, <1>4, <1>5

\* A call whose effect has no newest record that ran is about an effect that is on
\* record in no earlier turn, while store writes succeed.
LEMMA FreshEffect ==
    ASSUME IInv, faults = 0, Running("prepare"), NEW e,
           ~ \E prior \in Invocations : Latest(prior, e) /\ record[prior] \in NotRepeatable,
           NEW u \in Invocations, record[u] # "absent", EffectOf(u) = e
    PROVE  u[1] = loop
  <1>1. u \in Recorded(e)
    BY DEF Recorded
  <1>2. PICK w \in Recorded(e) : Latest(w, e)
    BY <1>1, LatestExists DEF IInv, SliceInv
  <1>3. w \in Invocations /\ record[w] # "absent" /\ EffectOf(w) = e /\ record[w] \notin NotRepeatable
    BY <1>2 DEF Recorded
  <1>4. ~ Ended /\ node = "prepare"
    BY DEF Running, IInv, SliceInv, Ended, TerminalStatus
  <1>5. ~ (w[1] < loop)
    BY <1>3, <1>4 DEF IInv, HistoryInv, Running, NotRepeatable
  <1>6. w[1] <= loop /\ w[1] \in Nat /\ loop \in Nat
    BY <1>3, Shapes DEF IInv, RecordInv, SliceInv
  <1>7. u[1] = w[1]
    BY <1>3 DEF IInv, HistoryInv
  <1>8. QED BY <1>5, <1>6, <1>7

LEMMA PrepareCallInv == IInv /\ PrepareCall => IInv'
  <1> SUFFICES ASSUME IInv, PrepareCall PROVE IInv'
    OBVIOUS
  <1> DEFINE i == Len(decisions) + 1
             v == <<loop, i>>
             e == calls[loop][i]
  <1>0. /\ UNCHANGED <<status, waitingFor, answer, node, loop, calls, asked, phase, signaling,
                       performed, granted>>
        /\ slice = "running" /\ node = "prepare" /\ Len(decisions) < Len(calls[loop])
    BY DEF PrepareCall, rows, Running, Batch
  <1>1. /\ ~ Ended /\ outcome = "none" /\ status \notin TerminalStatus /\ loop \in Loops
        /\ status \in {"running", "cancel_requested"} /\ InBatch /\ faults \in 0 .. MaxFaults
    BY <1>0, Shapes DEF IInv, TypeOK, SliceInv, Ended, TerminalStatus, InBatch
  <1>2. /\ Len(decisions) \in Nat /\ DOMAIN decisions = 1 .. Len(decisions)
        /\ Len(calls[loop]) \in 0 .. MaxCalls /\ MaxCalls \in Nat /\ i \in Positions
        /\ DOMAIN calls[loop] = 1 .. Len(calls[loop]) /\ i \in DOMAIN calls[loop]
        /\ v \in Invocations /\ v[1] = loop /\ v[2] = i /\ i \notin DOMAIN decisions
    <2>1. /\ Len(decisions) \in Nat /\ DOMAIN decisions = 1 .. Len(decisions)
          /\ Len(calls[loop]) \in 0 .. MaxCalls /\ MaxCalls \in Nat
          /\ DOMAIN calls[loop] = 1 .. Len(calls[loop])
      BY <1>1, Shapes DEF IInv, SliceInv
    <2>2. i \in Positions /\ i \in DOMAIN calls[loop] /\ i \notin DOMAIN decisions
      BY <1>0, <2>1 DEF Positions
    <2>3. QED BY <1>1, <2>1, <2>2 DEF Invocations
  <1>3. record[v] = "absent" /\ \A u \in Invocations : u[1] = loop => record[u] \in {"absent", "prepared"}
    BY <1>0, <1>1, <1>2 DEF IInv, RecordInv, ApprovalInv
  <1>4. CASE Fault /\ Return("failed") /\ UNCHANGED <<ledger, decisions>>
    <2>1. faults' \in 0 .. MaxFaults /\ faults' # 0 /\ UNCHANGED <<record, approval>>
      BY <1>1, <1>4, LedgerAssumption DEF Fault, ledger
    <2>2. QED BY <1>0, <1>4, <2>1, ReturnStep DEF Return
  <1>5. CASE PrepareInvocation(i) /\ UNCHANGED <<slice, outcome, signal, faults>>
    <2>1. e = Batch[i] /\ v = Current(i)
      BY DEF Batch, Current
    <2> HIDE DEF i, v, e
    <2>2. ASSUME NEW d \in Decision, decisions' = Append(decisions, d)
          PROVE  /\ decisions' \in Seq(Decision) /\ Len(decisions') = i /\ DOMAIN decisions' = 1 .. i
                 /\ DOMAIN decisions' = DOMAIN decisions \cup {i}
                 /\ \A j \in DOMAIN decisions : decisions'[j] = decisions[j]
                 /\ decisions'[i] = d
                 /\ Len(decisions') <= MaxCalls /\ Len(decisions') <= Len(calls[loop])
                 /\ \A j \in DOMAIN decisions' : decisions'[j] \in Decision
      <3>1. decisions \in Seq(Decision)
        BY DEF IInv, SliceInv
      <3>2. /\ Append(decisions, d) \in Seq(Decision) /\ Len(Append(decisions, d)) = Len(decisions) + 1
            /\ \A j \in 1 .. Len(decisions) : Append(decisions, d)[j] = decisions[j]
            /\ Append(decisions, d)[Len(decisions) + 1] = d
        BY <3>1, AppendProperties
      <3>3. /\ DOMAIN Append(decisions, d) = 1 .. Len(decisions) + 1
            /\ \A j \in 1 .. Len(decisions) + 1 : Append(decisions, d)[j] \in Decision
        BY <3>2, LenProperties
      <3>4. QED BY <1>0, <1>2, <2>2, <3>2, <3>3 DEF i
    <2>3. CASE \E prior \in Invocations :
                 /\ decisions' = Append(decisions, [verdict |-> "denied", ref |-> prior])
                 /\ UNCHANGED ledger
      <3>1. PICK prior \in Invocations : decisions' = Append(decisions, [verdict |-> "denied", ref |-> prior])
        BY <2>3
      <3>2. UNCHANGED <<record, approval, slice, outcome, signal, faults>>
        BY <1>5, <2>3 DEF ledger
      <3> DEFINE d == [verdict |-> "denied", ref |-> prior]
      <3>3. d \in Decision /\ d.verdict = "denied"
        BY DEF Decision, Verdict
      <3> HIDE DEF d
      <3>4. /\ decisions' \in Seq(Decision) /\ Len(decisions') = i
            /\ DOMAIN decisions' = DOMAIN decisions \cup {i}
            /\ \A j \in DOMAIN decisions : decisions'[j] = decisions[j]
            /\ decisions'[i] = d /\ Len(decisions') <= MaxCalls /\ Len(decisions') <= Len(calls[loop])
            /\ \A j \in DOMAIN decisions' : decisions'[j] \in Decision
        BY <2>2, <3>1, <3>3 DEF d
      <3>5. TypeOK'
        BY <1>0, <3>2, <3>4 DEF IInv, TypeOK, Decision
      <3>6. SliceInv'
        BY <1>0, <1>1, <3>2, <3>4 DEF IInv, SliceInv, Ended, TerminalStatus
      <3>7. RecordInv'
        BY <1>0, <1>1, <3>2, <3>4 DEF IInv, RecordInv, InBatch, Running
      <3>8. BatchInv'
        BY <1>0, <1>1, <3>2, <3>3, <3>4
           DEF IInv, BatchInv, InBatch, Running, GateVerdict
      <3>9. ApprovalInv'
        BY <1>0, <1>1, <3>2 DEF IInv, ApprovalInv, Ended, TerminalStatus
      <3>10. ToolInv' /\ PerformedInv'
        BY <1>0, <3>2 DEF IInv, ToolInv, Running, PerformedInv, Cleared
      <3>11. HistoryInv'
        BY <1>0, <1>1, <3>2
           DEF IInv, HistoryInv, Ended, TerminalStatus, Running, EffectOf
      <3>12. EndSettlesLedger'
        BY <1>0, <1>1 DEF EndSettlesLedger
      <3>13. QED BY <3>5, <3>6, <3>7, <3>8, <3>9, <3>10, <3>11, <3>12 DEF IInv
    <2>4. CASE /\ ~ \E prior \in Invocations : Latest(prior, e) /\ record[prior] \in NotRepeatable
               /\ CreateInvocation(v, e)
               /\ decisions' = Append(decisions, [verdict |-> GateVerdict(e), ref |-> v])
      <3>1. /\ UNCHANGED <<slice, outcome, signal, faults>>
            /\ record' = [record EXCEPT ![v] = "prepared"]
            /\ approval' = [approval EXCEPT ![v] =
                              IF e \in NeedsApproval THEN "pending" ELSE "not_required"]
        BY <1>5, <2>4 DEF CreateInvocation
      <3>2. /\ record' \in [Invocations -> ToolInvocationStatus \cup {"absent"}]
            /\ approval' \in [Invocations -> ToolInvocationApproval]
            /\ record'[v] = "prepared"
            /\ approval'[v] = IF e \in NeedsApproval THEN "pending" ELSE "not_required"
            /\ \A u \in Invocations : u # v => record'[u] = record[u] /\ approval'[u] = approval[u]
        BY <1>2, <3>1 DEF IInv, TypeOK, ToolInvocationStatus, ToolInvocationApproval
      <3> DEFINE d == [verdict |-> GateVerdict(e), ref |-> v]
      <3>3. d \in Decision /\ d.verdict = GateVerdict(e) /\ d.ref = v
        BY <1>2 DEF Decision, Verdict, GateVerdict
      <3> HIDE DEF d
      <3>4. /\ decisions' \in Seq(Decision) /\ Len(decisions') = i
            /\ DOMAIN decisions' = DOMAIN decisions \cup {i}
            /\ \A j \in DOMAIN decisions : decisions'[j] = decisions[j]
            /\ decisions'[i] = d /\ Len(decisions') <= MaxCalls /\ Len(decisions') <= Len(calls[loop])
            /\ \A j \in DOMAIN decisions' : decisions'[j] \in Decision
        BY <2>2, <2>4, <3>3 DEF d
      <3>5. TypeOK'
        BY <1>0, <3>1, <3>2, <3>4 DEF IInv, TypeOK, Decision
      <3>6. SliceInv'
        BY <1>0, <1>1, <3>1, <3>4 DEF IInv, SliceInv, Ended, TerminalStatus
      <3>7. \A u \in Invocations : record'[u] # "absent" => record[u] # "absent" \/ u = v
        BY <3>2
      <3>8. RecordInv'
        <4>1. \A u \in Invocations : record'[u] # "absent" => u[1] <= loop /\ u[2] \in DOMAIN calls[u[1]]
          BY <1>1, <1>2, <3>7, Shapes DEF IInv, RecordInv, Loops
        <4>2. \A u \in Invocations : u[1] = loop /\ record'[u] # "absent" =>
                u[2] \in DOMAIN decisions' /\ decisions'[u[2]].ref = u
          BY <1>1, <1>2, <3>3, <3>4, <3>7 DEF IInv, RecordInv
        <4>3. \A u \in Invocations : u[1] = loop => record'[u] \in {"absent", "prepared", "canceled"}
          BY <1>3, <3>2
        <4>4. QED BY <1>0, <3>1, <4>1, <4>2, <4>3 DEF RecordInv, InBatch, Running
      <3>9. BatchInv'
        <4>1. ASSUME NEW j \in DOMAIN decisions', decisions'[j].verdict # "denied"
              PROVE  /\ decisions'[j].ref = <<loop, j>>
                     /\ decisions'[j].verdict = GateVerdict(calls[loop][j])
                     /\ record'[<<loop, j>>] # "absent"
                     /\ decisions'[j].verdict = "allowed" => approval'[<<loop, j>>] = "not_required"
          <5>1. CASE j = i
            BY <3>2, <3>3, <3>4, <5>1 DEF v, e, GateVerdict
          <5>2. CASE j \in DOMAIN decisions
            <6>1. <<loop, j>> # v /\ <<loop, j>> \in Invocations
              BY <1>1, <1>2, <5>2, Shapes DEF v, IInv, SliceInv
            <6>2. QED BY <1>1, <3>2, <3>4, <4>1, <5>2, <6>1 DEF IInv, BatchInv
          <5>3. QED BY <3>4, <5>1, <5>2
        <4>2. calls[loop] \in Batches
          BY <1>1 DEF IInv, BatchInv
        <4>3. QED BY <1>0, <3>1, <3>4, <4>1, <4>2 DEF BatchInv, Running, GateVerdict
      <3>10. ApprovalInv'
        BY <1>0, <1>1, <1>3, <3>1, <3>2 DEF IInv, ApprovalInv
      <3>11. ToolInv'
        BY <1>0 DEF ToolInv, Running
      <3>12. PerformedInv'
        <4> SUFFICES ASSUME NEW u \in Invocations, performed'[u] > 0
                     PROVE  record'[u] \in NotRepeatable /\ performed'[u] = 1 /\ Cleared(u[1])'
          BY DEF PerformedInv, Cleared
        <4>1. record[u] \in NotRepeatable /\ performed'[u] = 1 /\ Cleared(u[1])
          BY <1>0 DEF IInv, PerformedInv
        <4>2. u[1] # loop
          BY <1>3, <4>1 DEF NotRepeatable
        <4>3. \A j \in DOMAIN calls[u[1]] : <<u[1], j>> \in Invocations /\ <<u[1], j>> # v
          BY <1>2, <4>2, Shapes DEF IInv, SliceInv
        <4>4. Cleared(u[1])'
          BY <1>0, <3>2, <4>1, <4>3 DEF Cleared
        <4>5. QED BY <1>2, <3>2, <4>1, <4>2, <4>4
      <3>13. HistoryInv'
        <4> SUFFICES ASSUME faults = 0 PROVE HistoryInv'
          BY <3>1 DEF HistoryInv
        <4>1. \A u \in Invocations : record[u] # "absent" /\ EffectOf(u) = e => u[1] = loop
          BY <1>0, <2>4, FreshEffect DEF Running
        <4>2. EffectOf(v) = e
          BY DEF EffectOf, v, e
        <4>3. \A u, w \in Invocations :
                record'[u] # "absent" /\ record'[w] # "absent" /\ EffectOf(u) = EffectOf(w) => u[1] = w[1]
          BY <1>2, <3>7, <4>1, <4>2 DEF IInv, HistoryInv
        <4>4. \A u \in Invocations : EffectOf(u)' = EffectOf(u)
          BY <1>0 DEF EffectOf
        <4>5. \A u \in Invocations : u[1] < loop /\ record'[u] # "absent" =>
                record'[u] \in {"succeeded", "uncertain"}
          <5>1. loop \in Nat /\ ~ (loop < loop)
            BY Shapes DEF IInv, SliceInv
          <5>2. QED BY <1>0, <1>1, <1>2, <3>2, <5>1 DEF IInv, HistoryInv, Running
        <4>6. \A u \in Invocations : record'[u] # "running"
          BY <1>0, <3>2 DEF IInv, HistoryInv, Running
        <4>7. QED BY <1>0, <1>1, <3>1, <4>3, <4>4, <4>5, <4>6 DEF HistoryInv
      <3>14. EndSettlesLedger'
        BY <1>0, <1>1 DEF EndSettlesLedger
      <3>15. QED BY <3>5, <3>6, <3>8, <3>9, <3>10, <3>11, <3>12, <3>13, <3>14 DEF IInv
    <2>5. QED BY <1>5, <2>1, <2>3, <2>4 DEF PrepareInvocation
  <1>6. QED BY <1>4, <1>5 DEF PrepareCall

(* The threads of the ToolNode. *)

\* A thread that is not done works on the record of its own call.
LEMMA ThreadFacts ==
    ASSUME IInv, Running("tools"), NEW i \in Positions, phase[i] # "done"
    PROVE  /\ decisions[i].ref = <<loop, i>> /\ <<loop, i>> \in Invocations
           /\ i \in DOMAIN calls[loop] /\ Cleared(loop) /\ ThreadAt(i) /\ loop \in Loops
           /\ record[<<loop, i>>] \in {"prepared", "running"}
  <1>1. Cleared(loop) /\ ThreadAt(i)
    BY DEF IInv, ToolInv
  <1>2. i \in DOMAIN calls[loop]
    BY <1>1 DEF ThreadAt
  <1>3. InBatch /\ loop \in Loops
    BY Shapes DEF IInv, SliceInv, InBatch, Running, Ended, TerminalStatus
  <1>4. DOMAIN decisions = DOMAIN calls[loop] /\ <<loop, i>> \in Invocations
    BY <1>3, Shapes DEF IInv, SliceInv, BatchInv
  <1>5. decisions[i].ref = <<loop, i>>
    BY <1>2, <1>3, <1>4 DEF IInv, BatchInv
  <1>6. phase[i] \in {"waiting", "begin", "execute", "ok", "failed", "raised"}
    BY DEF IInv, TypeOK, CallPhase
  <1>7. QED BY <1>1, <1>2, <1>3, <1>4, <1>5, <1>6 DEF ThreadAt

\* A step of thread i changes its own place, its own record and its own count.
LEMMA ThreadStep ==
    ASSUME IInv, Running("tools"), NEW i \in Positions, phase[i] # "done",
           NEW p \in CallPhase, NEW r \in ToolInvocationStatus, NEW n \in Nat,
           phase' = [phase EXCEPT ![i] = p],
           record' = [record EXCEPT ![<<loop, i>>] = r],
           performed' = [performed EXCEPT ![<<loop, i>>] = n],
           n > 0 => r \in NotRepeatable /\ n = 1,
           faults' \in 0 .. MaxFaults, faults' = 0 => faults = 0,
           UNCHANGED <<status, waitingFor, answer, approval, slice, node, loop, calls, decisions, asked,
                       outcome, signaling, signal, granted>>,
           p \in {"waiting", "begin"} => r = "prepared",
           p \in {"execute", "ok", "failed", "raised"} => r = "running",
           p \in {"waiting", "begin", "execute"} => n = 0,
           p = "done" /\ faults' = 0 => r \in {"succeeded", "uncertain"} \/ (r = "canceled" /\ signal)
    PROVE  IInv'
  <1> DEFINE v == <<loop, i>>
  <1>1. /\ v \in Invocations /\ v[1] = loop /\ i \in DOMAIN calls[loop] /\ Cleared(loop)
        /\ loop \in Loops /\ record[v] # "absent"
    BY ThreadFacts
  <1>2. /\ ~ Ended /\ outcome = "none" /\ status \notin TerminalStatus
        /\ status \in {"running", "cancel_requested"} /\ slice = "running" /\ node = "tools"
        /\ InBatch
    BY DEF IInv, SliceInv, Ended, TerminalStatus, Running, InBatch
  <1>3. /\ phase' \in [Positions -> CallPhase] /\ phase'[i] = p
        /\ \A j \in Positions : j # i => phase'[j] = phase[j]
        /\ record' \in [Invocations -> ToolInvocationStatus \cup {"absent"}] /\ record'[v] = r
        /\ \A u \in Invocations : u # v => record'[u] = record[u]
        /\ performed' \in [Invocations -> Nat] /\ performed'[v] = n
        /\ \A u \in Invocations : u # v => performed'[u] = performed[u]
    BY <1>1 DEF IInv, TypeOK
  <1>4. \A j \in Positions : j # i => <<loop, j>> # v /\ <<loop, j>> \in Invocations
    BY <1>1 DEF Invocations
  <1>5. r # "absent"
    BY DEF ToolInvocationStatus
  <1> HIDE DEF v
  <1>6. \A u \in Invocations : record'[u] # "absent" <=> record[u] # "absent"
    BY <1>1, <1>3, <1>5
  <1>7. \A l \in Loops : Cleared(l) => Cleared(l)'
    <2>1. \A l \in Loops : \A j \in DOMAIN calls[l] : <<l, j>> \in Invocations
      BY Shapes DEF IInv, SliceInv
    <2>2. QED BY <1>6, <2>1 DEF Cleared
  <1>8. TypeOK'
    BY <1>3 DEF IInv, TypeOK
  <1>9. SliceInv'
    BY <1>2 DEF IInv, SliceInv, Ended, TerminalStatus
  <1>10. RecordInv'
    BY <1>2, <1>6 DEF IInv, RecordInv, InBatch, Running
  <1>11. BatchInv'
    <2>1. \A j \in DOMAIN decisions : <<loop, j>> \in Invocations
      BY <1>1, Shapes DEF IInv, SliceInv
    <2>2. QED BY <1>2, <1>6, <2>1 DEF IInv, BatchInv, InBatch, Running, GateVerdict
  <1>12. ApprovalInv'
    BY <1>2 DEF IInv, ApprovalInv
  <1>13. ToolInv'
    <2>1. Cleared(loop)'
      BY <1>1, <1>7 DEF Cleared
    <2>2. ASSUME NEW j \in Positions PROVE ThreadAt(j)'
      <3>1. CASE j = i
        BY <1>1, <1>3, <3>1 DEF ThreadAt, v
      <3>2. CASE j # i
        <4>1. ThreadAt(j)
          BY DEF IInv, ToolInv
        <4>2. QED BY <1>3, <1>4, <3>2, <4>1 DEF ThreadAt
      <3>3. QED BY <3>1, <3>2
    <2>3. QED BY <2>1, <2>2 DEF ToolInv
  <1>14. PerformedInv'
    <2> SUFFICES ASSUME NEW u \in Invocations, performed'[u] > 0
                 PROVE  record'[u] \in NotRepeatable /\ performed'[u] = 1 /\ Cleared(u[1])'
      BY DEF PerformedInv, Cleared
    <2>1. CASE u = v
      <3>1. Cleared(u[1])'
        BY <1>1, <1>7, <2>1 DEF Cleared
      <3>2. QED BY <1>3, <2>1, <3>1
    <2>2. CASE u # v
      <3>1. u[1] \in Loops
        BY Shapes DEF IInv, SliceInv
      <3>2. record[u] \in NotRepeatable /\ performed[u] = 1 /\ Cleared(u[1])
        BY <1>3, <2>2 DEF IInv, PerformedInv
      <3>3. QED BY <1>3, <1>7, <2>2, <3>1, <3>2 DEF Cleared
    <2>3. QED BY <2>1, <2>2
  <1>15. HistoryInv'
    <2>1. loop \in Nat /\ ~ (loop < loop)
      BY Shapes DEF IInv, SliceInv
    <2>2. \A u \in Invocations : u[1] < loop => u # v
      BY <1>1, <2>1
    <2>3. QED BY <1>1, <1>2, <1>3, <1>6, <2>2 DEF IInv, HistoryInv, Ended, TerminalStatus, Running,
                                                EffectOf
  <1>16. EndSettlesLedger'
    BY <1>2 DEF EndSettlesLedger
  <1>17. QED BY <1>8, <1>9, <1>10, <1>11, <1>12, <1>13, <1>14, <1>15, <1>16 DEF IInv

\* A thread step that performs nothing: what is left to show is about its place and its
\* record.
LEMMA QuietStep ==
    ASSUME IInv, Running("tools"), NEW i \in Positions, phase[i] # "done",
           NEW p \in CallPhase, NEW r \in ToolInvocationStatus,
           Go(i, p), UNCHANGED performed,
           record' = [record EXCEPT ![<<loop, i>>] = r],
           faults' \in 0 .. MaxFaults, faults' = 0 => faults = 0,
           record[<<loop, i>>] = "running" => r \in NotRepeatable,
           p \in {"waiting", "begin"} => r = "prepared",
           p \in {"execute", "ok", "failed", "raised"} => r = "running",
           p \in {"waiting", "begin", "execute"} => performed[<<loop, i>>] = 0,
           p = "done" /\ faults' = 0 => r \in {"succeeded", "uncertain"} \/ (r = "canceled" /\ signal)
    PROVE  IInv'
  <1> DEFINE v == <<loop, i>>
             n == performed[v]
  <1>1. v \in Invocations /\ record[v] \in {"prepared", "running"}
    BY ThreadFacts
  <1>2. n \in Nat /\ performed' = [performed EXCEPT ![v] = n]
    BY <1>1 DEF IInv, TypeOK
  <1>3. n > 0 => r \in NotRepeatable /\ n = 1
    BY <1>1, <1>2 DEF IInv, PerformedInv, NotRepeatable
  <1>4. /\ phase' = [phase EXCEPT ![i] = p]
        /\ UNCHANGED <<status, waitingFor, answer, approval, slice, node, loop, calls, decisions, asked,
                       outcome, signaling, signal, granted>>
    BY DEF Go, rows, control
  <1> HIDE DEF n
  <1>5. QED BY <1>2, <1>3, <1>4, ThreadStep DEF n

\* A store write of a thread that raises leaves its record.
LEMMA FaultStepInv ==
    ASSUME IInv, Running("tools"), NEW i \in Positions, phase[i] # "done",
           NEW p \in {"done", "raised"}, FaultStep(i, p),
           p = "raised" => record[<<loop, i>>] = "running"
    PROVE  IInv'
  <1>1. <<loop, i>> \in Invocations /\ record[<<loop, i>>] \in {"prepared", "running"}
    BY ThreadFacts
  <1>2. record' = [record EXCEPT ![<<loop, i>>] = record[<<loop, i>>]]
    BY <1>1 DEF FaultStep, IInv, TypeOK
  <1>3. faults' \in 0 .. MaxFaults /\ faults' # 0
    BY LedgerAssumption DEF FaultStep, Fault, IInv, TypeOK
  <1>4. record[<<loop, i>>] \in ToolInvocationStatus /\ p \in CallPhase
    BY <1>1 DEF ToolInvocationStatus, CallPhase
  <1>5. Go(i, p) /\ UNCHANGED performed
    BY DEF FaultStep
  <1>6. QED BY <1>1, <1>2, <1>3, <1>4, <1>5, QuietStep DEF NotRepeatable

\* A store write of a thread that succeeds.
LEMMA WriteStepInv ==
    ASSUME IInv, Running("tools"), NEW i \in Positions, phase[i] # "done",
           NEW p \in CallPhase, NEW r \in ToolInvocationStatus, WriteStep(i, p),
           record' = [record EXCEPT ![<<loop, i>>] = r],
           record[<<loop, i>>] = "running" => r \in NotRepeatable,
           p \in {"waiting", "begin"} => r = "prepared",
           p \in {"execute", "ok", "failed", "raised"} => r = "running",
           p \in {"waiting", "begin", "execute"} => performed[<<loop, i>>] = 0,
           p = "done" /\ faults = 0 => r \in {"succeeded", "uncertain"} \/ (r = "canceled" /\ signal)
    PROVE  IInv'
  <1>1. faults' = faults /\ faults' \in 0 .. MaxFaults
    BY DEF WriteStep, IInv, TypeOK
  <1>2. Go(i, p) /\ UNCHANGED performed
    BY DEF WriteStep
  <1>3. QED BY <1>1, <1>2, QuietStep

LEMMA CallStepInv ==
    ASSUME IInv, NEW i \in Positions, CallStep(i) PROVE IInv'
  <1> DEFINE v == <<loop, i>>
  <1>1. Running("tools") /\ phase[i] # "done"
    BY DEF CallStep, CheckCancellation, BeginExecution, Execute, FinishExecution,
           SettleRaised, At
  <1>2. /\ decisions[i].ref = v /\ v \in Invocations /\ i \in DOMAIN calls[loop] /\ Cleared(loop)
        /\ ThreadAt(i) /\ record[v] \in {"prepared", "running"}
        /\ record \in [Invocations -> ToolInvocationStatus \cup {"absent"}]
    BY <1>1, ThreadFacts DEF IInv, TypeOK
  <1>3. /\ {"waiting", "begin", "execute", "ok", "failed", "raised", "done"} \subseteq CallPhase
        /\ {"prepared", "running", "succeeded", "uncertain", "canceled"} \subseteq ToolInvocationStatus
        /\ NotRepeatable = {"running", "succeeded", "uncertain"}
    BY DEF CallPhase, ToolInvocationStatus, NotRepeatable
  <1>4. /\ phase[i] \in {"waiting", "begin"} => record[v] = "prepared"
        /\ phase[i] \in {"execute", "ok", "failed", "raised"} => record[v] = "running"
        /\ phase[i] \in {"waiting", "begin", "execute"} => performed[v] = 0
    BY <1>2 DEF ThreadAt
  <1>5. record = [record EXCEPT ![v] = record[v]]
    BY <1>2
  <1>6. CASE CheckCancellation(i)
    <2>1. phase[i] = "waiting" /\ record[v] = "prepared" /\ performed[v] = 0
      BY <1>4, <1>6 DEF CheckCancellation, At
    <2>2. CASE WriteStep(i, "begin") /\ UNCHANGED record
      <3>1. record' = [record EXCEPT ![v] = "prepared"]
        BY <1>5, <2>1, <2>2
      <3>2. QED BY <1>1, <1>3, <2>1, <2>2, <3>1, WriteStepInv
    <2>3. CASE signal /\ WriteStep(i, "done") /\ CancelInvocations({decisions[i].ref})
      <3>1. record' = [record EXCEPT ![v] = "canceled"]
        BY <1>2, <2>1, <2>3 DEF CancelInvocations
      <3>2. QED BY <1>1, <1>3, <2>1, <2>3, <3>1, WriteStepInv
    <2>4. CASE FaultStep(i, "done")
      BY <1>1, <2>4, FaultStepInv
    <2>5. QED BY <1>6, <2>2, <2>3, <2>4 DEF CheckCancellation
  <1>7. CASE BeginExecution(i)
    <2>1. phase[i] = "begin" /\ record[v] = "prepared" /\ performed[v] = 0
      BY <1>4, <1>7 DEF BeginExecution, At
    <2>2. MayBegin(v)
      BY <1>2, <2>1 DEF MayBegin, Cleared
    <2>3. CASE WriteStep(i, "execute") /\ record' = [record EXCEPT ![decisions[i].ref] = "running"]
      BY <1>1, <1>2, <1>3, <2>1, <2>3, WriteStepInv
    <2>4. CASE FaultStep(i, "done")
      BY <1>1, <2>4, FaultStepInv
    <2>5. QED BY <1>2, <1>7, <2>2, <2>3, <2>4 DEF BeginExecution
  <1>8. CASE Execute(i)
    <2>1. phase[i] = "execute" /\ record[v] = "running" /\ performed[v] = 0
      BY <1>4, <1>8 DEF Execute, At
    <2>2. PICK p \in {"ok", "failed", "raised"} : Go(i, p)
      BY <1>8 DEF Execute
    <2>3. /\ phase' = [phase EXCEPT ![i] = p]
          /\ UNCHANGED <<status, waitingFor, answer, approval, slice, node, loop, calls, decisions,
                         asked, outcome, signaling, signal, granted>>
      BY <2>2 DEF Go, rows, control
    <2>4. performed' = [performed EXCEPT ![v] = 1]
      BY <1>2, <1>8, <2>1 DEF Execute
    <2>5. record' = [record EXCEPT ![v] = "running"]
      BY <1>5, <1>8, <2>1 DEF Execute
    <2>6. faults' \in 0 .. MaxFaults /\ faults' = faults
      BY <1>8 DEF Execute, IInv, TypeOK
    <2>7. QED BY <1>1, <1>3, <2>2, <2>3, <2>4, <2>5, <2>6, ThreadStep
  <1>9. CASE FinishExecution(i)
    <2>1. phase[i] \in {"ok", "failed"} /\ record[v] = "running"
      BY <1>4, <1>9 DEF FinishExecution, At
    <2>2. CASE WriteStep(i, "done") /\ CompleteSuccess(v)
      BY <1>1, <1>3, <2>1, <2>2, WriteStepInv DEF CompleteSuccess
    <2>3. CASE WriteStep(i, "done") /\ MarkUncertain(v)
      <3>1. record' = [record EXCEPT ![v] = "uncertain"]
        BY <1>2, <2>1, <2>3 DEF MarkUncertain
      <3>2. QED BY <1>1, <1>3, <2>1, <2>3, <3>1, WriteStepInv
    <2>4. CASE FaultStep(i, "raised")
      BY <1>1, <2>1, <2>4, FaultStepInv
    <2>5. QED BY <1>2, <1>9, <2>1, <2>2, <2>3, <2>4 DEF FinishExecution
  <1>10. CASE SettleRaised(i)
    <2>1. phase[i] = "raised" /\ record[v] = "running"
      BY <1>4, <1>10 DEF SettleRaised, At
    <2>2. CASE WriteStep(i, "done") /\ MarkUncertain(v)
      <3>1. record' = [record EXCEPT ![v] = "uncertain"]
        BY <1>2, <2>1, <2>2 DEF MarkUncertain
      <3>2. QED BY <1>1, <1>3, <2>1, <2>2, <3>1, WriteStepInv
    <2>3. CASE FaultStep(i, "done")
      BY <1>1, <2>3, FaultStepInv
    <2>4. QED BY <1>2, <1>10, <2>2, <2>3 DEF SettleRaised
  <1>11. QED BY <1>6, <1>7, <1>8, <1>9, <1>10 DEF CallStep

LEMMA NextInv == IInv /\ [Next]_vars => IInv'
  <1> SUFFICES ASSUME IInv, [Next]_vars PROVE IInv'
    OBVIOUS
  <1>1. CASE WorkerStep
    BY <1>1, ClaimCommandInv, ActivateSliceInv, LeaveActiveInv, RecordOutcomeInv
       DEF WorkerStep
  <1>2. CASE GraphStep
    BY <1>2, CallModelInv, CheckPermissionInv, PrepareCallInv, RoutePermissionInv, AskApprovalInv,
       RejectToolInv, TakeInputInv, RecordToolMessagesInv DEF GraphStep
  <1>3. CASE \E i \in Positions : CallStep(i)
    BY <1>3, CallStepInv
  <1>4. CASE CancelTask \/ SignalCancellation \/ SubmitInput \/ ProcessLoss
    BY <1>4, CancelTaskInv, SignalCancellationInv, SubmitInputInv, ProcessLossInv
  <1>5. CASE \E approved \in BOOLEAN : ResolveApproval(approved)
    BY <1>5, ResolveApprovalInv
  <1>6. CASE UNCHANGED vars
    <2>1. UNCHANGED <<status, waitingFor, answer, record, approval, slice, node, loop, calls, decisions,
                      asked, phase, outcome, signaling, signal, performed, granted, faults>>
      BY <1>6 DEF vars, rows, ledger, graph, control, history
    <2>2. RecordInv' /\ BatchInv' /\ ToolInv' /\ PerformedInv'
      BY <2>1, GraphKept DEF Closing
    <2>3. TypeOK' /\ SliceInv' /\ EndSettlesLedger'
      BY <2>1 DEF IInv, TypeOK, SliceInv, Ended, EndSettlesLedger
    <2>4. ApprovalInv'
      BY <2>1 DEF IInv, ApprovalInv, NextApproval, NeedsAnswer, Approved, Ended
    <2>5. HistoryInv'
      BY <2>1 DEF IInv, HistoryInv, Ended, Running, EffectOf
    <2>6. QED BY <2>2, <2>3, <2>4, <2>5 DEF IInv
  <1>7. QED BY <1>1, <1>2, <1>3, <1>4, <1>5, <1>6 DEF Next

------------------------------------------------------------------------------
(***************************************************************************)
(* The theorems                                                            *)
(***************************************************************************)

\* The invariant holds in every reachable state.
THEOREM InductiveInvariant == Spec => []IInv
  BY InitInv, NextInv, PTL DEF Spec

\* An effect that was started stays on record as started, runs once under its identity
\* and, while store writes succeed, in one turn of the loop only
\* (invocation_ledger.py: prepare, begin_execution, finish_execution).
THEOREM EffectsAreRecorded == Spec => []StartedEffectIsOnRecord
  <1>1. IInv => StartedEffectIsOnRecord
    <2> SUFFICES ASSUME IInv PROVE StartedEffectIsOnRecord
      OBVIOUS
    <2>1. \A v \in Invocations :
            performed[v] > 0 => record[v] \in NotRepeatable /\ performed[v] = 1 /\ record[v] # "absent"
      BY DEF IInv, PerformedInv, NotRepeatable
    <2>2. QED BY <2>1 DEF IInv, HistoryInv, StartedEffectIsOnRecord
  <1>2. QED BY <1>1, InductiveInvariant, PTL

\* Nothing runs that the gate denied or the operator did not approve, and a batch runs
\* as a whole (check_permission_node, approval_required_node, begin_tool_invocation).
THEOREM NothingRunsUnapproved == Spec => []OperatorDecides
  <1>1. IInv => OperatorDecides
    <2> SUFFICES ASSUME IInv PROVE OperatorDecides
      OBVIOUS
    <2>1. ASSUME NEW v \in Invocations, performed[v] > 0
          PROVE  /\ EffectOf(v) \in NeedsApproval => v \in granted
                 /\ \A i \in 1 .. Len(calls[v[1]]) :
                      /\ record[<<v[1], i>>] # "absent"
                      /\ approval[<<v[1], i>>] \in {"not_required", "approved"}
                      /\ calls[v[1]][i] \notin Forbidden
      <3>1. Cleared(v[1]) /\ record[v] \in NotRepeatable
        BY <2>1 DEF IInv, PerformedInv
      <3>2. v[2] \in DOMAIN calls[v[1]]
        BY <3>1 DEF IInv, RecordInv, NotRepeatable
      <3>3. v = <<v[1], v[2]>> /\ DOMAIN calls[v[1]] = 1 .. Len(calls[v[1]])
        BY Shapes DEF IInv, SliceInv
      <3>4. QED BY <3>1, <3>2, <3>3 DEF Cleared, EffectOf
    <2>2. QED BY <2>1 DEF OperatorDecides, IInv
  <1>2. QED BY <1>1, InductiveInvariant, PTL

\* The end of a Task settles its ledger (_close_unresolved_execution, _cancel_task,
\* record_runtime_recovery_failure).
THEOREM EndOfTaskSettles == Spec => []EndSettlesLedger
  <1>1. IInv => EndSettlesLedger
    BY DEF IInv
  <1>2. QED BY <1>1, InductiveInvariant, PTL

Settled(v) == record[v] \in {"succeeded", "uncertain", "canceled"}

\* Only a prepared or a running record is rewritten, and only an absent one is created.
LEMMA SettledStays ==
    ASSUME IInv, [Next]_vars, NEW v \in Invocations, Settled(v) PROVE record'[v] = record[v]
  <1>0. record \in [Invocations -> ToolInvocationStatus \cup {"absent"}]
    BY DEF IInv, TypeOK
  <1>1. CASE WorkerStep
    BY <1>0, <1>1
       DEF WorkerStep, ClaimCommand, ActivateSlice, LeaveActive, RecordOutcome,
           ledger,
                      CloseLedger, Settled
  <1>2. CASE GraphStep
    <2>1. CASE PrepareCall
      <3> DEFINE u == <<loop, Len(decisions) + 1>>
      <3>1. u = Current(Len(decisions) + 1)
        BY DEF Current
      <3>2. record[u] \in {"absent", "prepared"}
        <4>1. /\ node = "prepare" /\ slice = "running" /\ ~ Ended /\ loop \in Loops
              /\ Len(decisions) < Len(calls[loop])
          BY <2>1, Shapes
             DEF PrepareCall, Running, IInv, SliceInv, Ended, TerminalStatus, Batch
        <4>2. u \in Invocations /\ u[1] = loop
          <5>1. /\ Len(decisions) \in Nat /\ Len(calls[loop]) \in 0 .. MaxCalls /\ MaxCalls \in Nat
            BY <4>1, Shapes DEF IInv, SliceInv
          <5>2. Len(decisions) + 1 \in Positions
            BY <4>1, <5>1 DEF Positions
          <5>3. QED BY <4>1, <5>2 DEF Invocations
        <4>3. QED BY <4>1, <4>2 DEF IInv, ApprovalInv
      <3>3. record' = record \/ record' = [record EXCEPT ![u] = "prepared"]
        BY <2>1, <3>1 DEF PrepareCall, PrepareInvocation, CreateInvocation, ledger
      <3>4. QED BY <1>0, <3>2, <3>3 DEF Settled
    <2>2. CASE RejectTool
      BY <1>0, <2>2 DEF RejectTool, CancelInvocations, Settled
    <2>3. CASE CallModel \/ CheckPermission \/ RoutePermission \/ AskApproval \/ TakeInput
                 \/ RecordToolMessages
      BY <2>3 DEF CallModel, CheckPermission, RoutePermission, AskApproval, TakeInput,
                  RecordToolMessages, ledger
    <2>4. QED BY <1>2, <2>1, <2>2, <2>3 DEF GraphStep
  <1>3. ASSUME NEW i \in Positions, CallStep(i) PROVE record'[v] = record[v]
    <2>1. CASE CheckCancellation(i) \/ Execute(i) \/ SettleRaised(i)
      BY <1>0, <2>1
         DEF CheckCancellation, Execute, SettleRaised, FaultStep, CancelInvocations,
                        MarkUncertain, Settled
    <2>2. CASE BeginExecution(i)
      BY <1>0, <2>2 DEF BeginExecution, FaultStep, MayBegin, Settled
    <2>3. CASE FinishExecution(i)
      BY <1>0, <2>3
         DEF FinishExecution, FaultStep, CompleteSuccess, MarkUncertain, Settled
    <2>4. QED BY <1>3, <2>1, <2>2, <2>3 DEF CallStep
  <1>4. CASE CancelTask \/ SignalCancellation \/ SubmitInput \/ ProcessLoss
    BY <1>0, <1>4
       DEF CancelTask, SignalCancellation, SubmitInput, ProcessLoss,
           CancelInvocations,
                      CloseLedger, ledger, Settled
  <1>5. CASE \E approved \in BOOLEAN : ResolveApproval(approved)
    BY <1>0, <1>5 DEF ResolveApproval, Settled
  <1>6. CASE UNCHANGED vars
    BY <1>6 DEF vars, ledger
  <1>7. QED BY <1>1, <1>2, <1>3, <1>4, <1>5, <1>6 DEF Next

\* A settled record is never rewritten (the status filters of the ledger's updates).
THEOREM SettledRecordsStay == Spec => SettledIsFinal
  <1>1. IInv /\ [Next]_vars =>
          [\A v \in Invocations : record[v] \in {"succeeded", "uncertain", "canceled"} =>
             record'[v] = record[v]]_vars
    BY SettledStays DEF Settled
  <1>2. QED BY <1>1, InductiveInvariant, PTL DEF Spec, SettledIsFinal
==============================================================================
