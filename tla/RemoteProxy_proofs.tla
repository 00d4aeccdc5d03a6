------------------------- MODULE RemoteProxy_proofs --------------------------
(***************************************************************************)
(* Theorems about RemoteProxy, for any set of readers and endpoints, any   *)
(* states the child reports and any number of edits of its registration.   *)
(***************************************************************************)
EXTENDS RemoteProxy, FiniteSetTheorems, SequenceTheorems, TLAPS

\* The statuses that remote_task_status gives a proxy.
ProxyStatus ==
    {"queued", "running", "completed", "canceled", "failed"} \cup WaitingStatus

\* How far the delegation has come, and what its threads hold by then.
StageInv ==
    /\ proxy \in ProxyStatus \cup {"absent"}
    /\ sender \in {"start", "send"} => reply = "none" /\ child = "absent"
    /\ sender = "record" /\ reply # "message" => reply \in WireStates /\ child # "absent"
    /\ proxy # "absent" => child # "absent"
    /\ delegation # "absent" => sender = "done"
    /\ \A r \in Readers :
         /\ pc[r] # "idle" => sender = "done" /\ child # "absent"
         /\ pc[r] = "record" => snapshot[r] \in Snapshot

\* A terminal state that somebody holds is still the state of the child: it cannot
\* have been left since.
SettledInv ==
    /\ reply \in Terminal => child = reply
    /\ \A r \in Readers :
         pc[r] = "record" /\ snapshot[r].mine /\ snapshot[r].wire \in Terminal =>
           child = snapshot[r].wire

IInv ==
    /\ RowsStandTogether /\ StageInv /\ SettledInv
    /\ TerminalMatchesChild /\ HistoryAdvances

------------------------------------------------------------------------------
\* remote_task_status yields a proxy status, and the state the delegation row keeps
\* maps back to it (task_outcomes.py, store.py).
LEMMA StatusOfWire ==
    ASSUME NEW w \in WireState, NEW f \in ProxyStatus
    PROVE  /\ RemoteTaskStatus(w, f) \in ProxyStatus
           /\ LET n == RemoteTaskStatus(w, f)
              IN  /\ StoredState(w, n) \in WireState \cup ProxyStatus
                  /\ RemoteTaskStatus(StoredState(w, n), n) = n
  BY DEF WireState, Terminal, ProxyStatus, WaitingStatus, RemoteTaskStatus,
         StoredState

\* Only a terminal state of the child makes a terminal status, and each makes one.
LEMMA TerminalOfWire ==
    ASSUME NEW w \in WireState, NEW f \in ProxyStatus \cup {"missing"}
    PROVE  /\ w \in Terminal =>
                /\ RemoteTaskStatus(w, f) \in TerminalStatus
                /\ RemoteTaskStatus(w, "missing") = RemoteTaskStatus(w, f)
           /\ w \notin Terminal =>
                RemoteTaskStatus(w, f) \notin TerminalStatus \/ RemoteTaskStatus(w, f) = f
  BY DEF WireState, Terminal, ProxyStatus, WaitingStatus, RemoteTaskStatus,
         TerminalStatus

\* The table of accepted snapshots only leads forward (lifecycle.py,
\* accepts_remote_proxy_snapshot).
LEMMA SnapshotAdvances ==
    ASSUME NEW p \in ProxyStatus, NEW n \in ProxyStatus, AcceptsSnapshot(p, n), n # p
    PROVE  Rank(p) < Rank(n) /\ p \notin TerminalStatus
  BY DEF ProxyStatus, WaitingStatus, TerminalStatus, AcceptsSnapshot, Rank,
         REMOTE_PROXY_SNAPSHOT_TRANSITIONS

------------------------------------------------------------------------------
(***************************************************************************)
(* Histories of a proxy                                                    *)
(***************************************************************************)
Event == TaskStatus \cup {"artifact"}

Statuses(h) == {i \in DOMAIN h : h[i] # "artifact"}

\* The status events of h advance, up to status p.
Ordered(h, p) ==
    /\ \A i, j \in Statuses(h) : i < j => Rank(h[i]) < Rank(h[j])
    /\ \E i \in Statuses(h) : h[i] = p /\ \A j \in Statuses(h) : j <= i

Counted(h, a) == a = Cardinality(DOMAIN h \ Statuses(h))

LEMMA HistoryParts ==
    ASSUME TypeOK
    PROVE  HistoryAdvances <=>
             /\ proxy # "absent" => Ordered(events, proxy)
             /\ proxy = "absent" =>
                  \A i, j \in Statuses(events) : i < j => Rank(events[i]) < Rank(events[j])
             /\ Counted(events, answers)
             /\ answers > 0 => answers = 1 /\ proxy = "completed"
  BY DEF HistoryAdvances, StatusEvents, Statuses, Ordered, Counted

LEMMA AddStatus ==
    ASSUME NEW h \in Seq(Event), NEW p \in ProxyStatus, NEW n \in ProxyStatus, NEW a \in Nat,
           Ordered(h, p) \/ h = <<>>, Counted(h, a), h # <<>> => Rank(p) < Rank(n)
    PROVE  /\ Append(h, n) \in Seq(Event)
           /\ Ordered(Append(h, n), n)
           /\ Counted(Append(h, n), a)
  <1> DEFINE g == Append(h, n)
             k == Len(h) + 1
  <1>1. Len(h) \in Nat /\ DOMAIN h = 1 .. Len(h) /\ n \in Event /\ n # "artifact"
    BY LenProperties DEF ProxyStatus, WaitingStatus, Event, TaskStatus
  <1>2. /\ g \in Seq(Event) /\ DOMAIN g = 1 .. k /\ g[k] = n
        /\ \A i \in 1 .. Len(h) : g[i] = h[i]
    BY <1>1, AppendProperties, LenProperties
  <1> HIDE DEF g
  <1>3. Statuses(g) = Statuses(h) \cup {k} /\ \A i \in Statuses(h) : i \in 1 .. Len(h)
    BY <1>1, <1>2 DEF Statuses
  <1>4. DOMAIN g \ Statuses(g) = DOMAIN h \ Statuses(h)
    BY <1>1, <1>2, <1>3
  <1>5. \A i \in Statuses(h) : Rank(h[i]) < Rank(n)
    <2>1. CASE h = <<>>
      BY <2>1 DEF Statuses
    <2>2. CASE h # <<>>
      <3>1. PICK l \in Statuses(h) : h[l] = p /\ \A j \in Statuses(h) : j <= l
        BY <2>2 DEF Ordered
      <3>2. \A i \in Statuses(h) : i = l \/ Rank(h[i]) < Rank(p)
        BY <1>3, <2>2, <3>1 DEF Ordered
      <3>3. \A s : Rank(s) \in Nat
        BY DEF Rank
      <3>4. Rank(p) < Rank(n)
        BY <2>2
      <3> HIDE DEF g, k
      <3>5. QED BY <3>1, <3>2, <3>3, <3>4
    <2>3. QED BY <2>1, <2>2
  <1>6. ASSUME NEW i \in Statuses(g), NEW j \in Statuses(g), i < j
        PROVE  Rank(g[i]) < Rank(g[j])
    <2>1. i \in Statuses(h) /\ g[i] = h[i]
      BY <1>1, <1>2, <1>3, <1>6
    <2>2. CASE j = k
      BY <1>2, <1>5, <2>1, <2>2
    <2>3. CASE j \in Statuses(h)
      <3>1. h # <<>> /\ g[j] = h[j]
        BY <1>2, <1>3, <2>3 DEF Statuses
      <3>2. QED BY <1>6, <2>1, <2>3, <3>1 DEF Ordered
    <2>4. QED BY <1>3, <2>2, <2>3
  <1>7. k \in Statuses(g) /\ g[k] = n /\ \A j \in Statuses(g) : j <= k
    BY <1>1, <1>2, <1>3
  <1>8. QED BY <1>2, <1>4, <1>6, <1>7 DEF Ordered, Counted, g

LEMMA AddArtifact ==
    ASSUME NEW h \in Seq(Event), NEW p \in ProxyStatus, NEW a \in Nat,
           Ordered(h, p), Counted(h, a)
    PROVE  /\ Append(h, "artifact") \in Seq(Event)
           /\ Ordered(Append(h, "artifact"), p)
           /\ Counted(Append(h, "artifact"), a + 1)
  <1> DEFINE g == Append(h, "artifact")
             k == Len(h) + 1
             old == DOMAIN h \ Statuses(h)
  <1>1. Len(h) \in Nat /\ DOMAIN h = 1 .. Len(h) /\ "artifact" \in Event
    BY LenProperties DEF Event
  <1>2. /\ g \in Seq(Event) /\ DOMAIN g = 1 .. k /\ g[k] = "artifact"
        /\ \A i \in 1 .. Len(h) : g[i] = h[i]
    BY <1>1, AppendProperties, LenProperties
  <1> HIDE DEF g
  <1>3. Statuses(g) = Statuses(h) /\ \A i \in Statuses(h) : g[i] = h[i]
    BY <1>1, <1>2 DEF Statuses
  <1>4. Ordered(g, p)
    BY <1>3 DEF Ordered
  <1>5. DOMAIN g \ Statuses(g) = old \cup {k} /\ k \notin old
    BY <1>1, <1>2, <1>3 DEF Statuses
  <1>6. IsFiniteSet(old)
    <2>1. IsFiniteSet(1 .. Len(h)) /\ old \subseteq 1 .. Len(h)
      BY <1>1, FS_Interval
    <2> HIDE DEF old
    <2>2. QED BY <2>1, FS_Subset
  <1>7. Cardinality(old \cup {k}) = Cardinality(old) + 1
    <2> HIDE DEF old, k
    <2>1. QED BY <1>5, <1>6, FS_AddElement
  <1>8. QED BY <1>2, <1>4, <1>5, <1>7 DEF Counted, g

------------------------------------------------------------------------------
(***************************************************************************)
(* Steps that leave the rows alone                                         *)
(***************************************************************************)

\* What the invariant says of the rows alone is kept with the rows.
LEMMA RowsStay ==
    ASSUME IInv, UNCHANGED rows, TypeOK',
           agent' = "absent" => agent = "absent" \/ delegation = "absent"
    PROVE  RowsStandTogether' /\ HistoryAdvances'
  BY DEF IInv, RowsStandTogether, HistoryAdvances, StatusEvents, rows

LEMMA InitInv ==
    ASSUME Init
    PROVE  IInv
  <1>1. events = <<>> /\ <<>> \in Seq(TaskStatus \cup {"artifact"})
    BY EmptySeq DEF Init
  <1>2. TypeOK
    <2>1. edits \in 0 .. MaxEdits
      BY RemoteAssumption DEF Init
    <2>2. /\ pc \in [Readers -> {"idle", "get", "cancel", "record"}]
          /\ url \in [Readers -> Endpoints]
      BY DEF Init
    <2>3. snapshot \in [Readers -> Snapshot \cup {NoSnapshot}]
      BY DEF Init
    <2>4. QED BY <1>1, <2>1, <2>2, <2>3 DEF Init, TypeOK
  <1>3. RowsStandTogether
    BY <1>1, <1>2 DEF Init, RowsStandTogether
  <1>4. StageInv /\ SettledInv /\ TerminalMatchesChild
    <2>1. \A r \in Readers : pc[r] = "idle"
      BY DEF Init
    <2>2. QED
      BY <2>1
         DEF Init, StageInv, SettledInv, TerminalMatchesChild, TerminalStatus,
             Terminal
  <1>5. HistoryAdvances
    <2>1. DOMAIN events = {} /\ StatusEvents = {}
      BY <1>1 DEF StatusEvents
    <2>2. Cardinality(DOMAIN events \ StatusEvents) = 0
      BY <2>1, FS_EmptySet
    <2>3. QED BY <2>1, <2>2 DEF Init, HistoryAdvances
  <1>6. QED BY <1>3, <1>4, <1>5 DEF IInv

\* The child works on, but leaves no terminal state.
LEMMA ChildInv ==
    ASSUME IInv, ChildMoves \/ ChildPublishes
    PROVE  IInv'
  <1> USE DEF IInv, ChildMoves, ChildPublishes, rows, sending, reading, registry
  <1>1. TypeOK'
    BY ZenonT(30) DEF RowsStandTogether, TypeOK
  <1>2. RowsStandTogether' /\ HistoryAdvances'
    BY <1>1, RowsStay
  <1>3. StageInv'
    BY RemoteAssumption DEF StageInv, WireState, Terminal
  <1>4. SettledInv'
    BY RemoteAssumption DEF StageInv, SettledInv
  <1>5. TerminalMatchesChild'
    <2>1. CASE UNCHANGED child
      BY <2>1 DEF TerminalMatchesChild
    <2>2. CASE child \notin Terminal \cup {"absent"} /\ ChildMoves
      <3>1. child \in WireState
        BY <2>2, RemoteAssumption DEF RowsStandTogether, TypeOK
      <3>2. RemoteTaskStatus(child, "missing") \notin TerminalStatus
        BY <2>2, <3>1, TerminalOfWire DEF TerminalStatus
      <3>3. QED BY <2>2, <3>2 DEF TerminalMatchesChild
    <2>3. QED BY <2>1, <2>2
  <1>6. QED BY <1>2, <1>3, <1>4, <1>5

\* No edit of the registration reaches the rows; a deletion spares a referenced one.
LEMMA RegistryInv ==
    ASSUME IInv, UpsertAgent \/ CheckAgentUnused \/ DeleteAgent
    PROVE  IInv'
  <1> USE DEF IInv, UpsertAgent, CheckAgentUnused, DeleteAgent, remote, rows, sending, reading
  <1>1. TypeOK'
    <2>1. edits' \in 0 .. MaxEdits
      BY RemoteAssumption DEF RowsStandTogether, TypeOK
    <2>2. QED BY <2>1, ZenonT(30) DEF RowsStandTogether, TypeOK
  <1>2. RowsStandTogether' /\ HistoryAdvances'
    BY <1>1, RowsStay
  <1>3. StageInv' /\ SettledInv' /\ TerminalMatchesChild'
    BY DEF StageInv, SettledInv, TerminalMatchesChild
  <1>4. QED BY <1>2, <1>3

\* _handle_remote_agent up to and including the call.
LEMMA SendInv ==
    ASSUME IInv, BeginDelegation \/ SendMessage
    PROVE  IInv'
  <1> USE DEF IInv, BeginDelegation, SendMessage, Fail, registry, reading
  <1>1. TypeOK'
    BY RemoteAssumption DEF RowsStandTogether, TypeOK
  <1>2. delegation = "absent" /\ proxy = "absent" /\ UNCHANGED <<proxy, delegation, answers, events>>
    BY DEF StageInv, RowsStandTogether
  <1>3. RowsStandTogether' /\ HistoryAdvances'
    BY <1>1, <1>2 DEF RowsStandTogether, HistoryAdvances, StatusEvents
  <1>4. StageInv'
    BY <1>2, RemoteAssumption DEF StageInv, WireState, Terminal
  <1>5. SettledInv'
    BY RemoteAssumption DEF StageInv, SettledInv, WireState, Terminal
  <1>6. TerminalMatchesChild'
    BY <1>2 DEF TerminalMatchesChild, TerminalStatus
  <1>7. QED BY <1>3, <1>4, <1>5, <1>6

\* The rows of a delegation appear together, with the first event of its history.
LEMMA RecordDelegationInv ==
    ASSUME IInv, RecordDelegation
    PROVE  IInv'
  <1> USE DEF IInv, RecordDelegation, Fail, remote, registry
  <1> DEFINE p == RemoteTaskStatus(reply, "failed")
  <1>1. delegation = "absent" /\ proxy = "absent" /\ answers = 0 /\ events = <<>>
    BY DEF StageInv, RowsStandTogether
  <1>2. CASE UNCHANGED <<proxy, events, streaming>>
    <2>1. TypeOK' /\ RowsStandTogether'
      BY <1>1, <1>2 DEF RowsStandTogether, TypeOK
    <2>2. HistoryAdvances'
      BY <1>2 DEF HistoryAdvances, StatusEvents
    <2>3. StageInv' /\ SettledInv' /\ TerminalMatchesChild'
      BY <1>1, <1>2 DEF StageInv, SettledInv, TerminalMatchesChild, TerminalStatus
    <2>4. QED BY <2>1, <2>2, <2>3
  <1>3. CASE /\ agent # "absent" /\ sender' = "done" /\ ingress' = "resolved"
             /\ reply # "message" /\ proxy' = p /\ delegation' = StoredState(reply, p)
             /\ events' = <<p>> /\ streaming' \in BOOLEAN
    <2>1. reply \in WireState /\ child # "absent" /\ "failed" \in ProxyStatus
      BY <1>3, RemoteAssumption DEF StageInv, ProxyStatus
    <2>2. /\ p \in ProxyStatus
          /\ StoredState(reply, p) \in WireState \cup ProxyStatus
          /\ RemoteTaskStatus(StoredState(reply, p), p) = p
      BY <2>1, StatusOfWire
    <2>3. p # "absent" /\ p \in TaskStatus /\ p # "artifact"
      BY <2>2 DEF ProxyStatus, WaitingStatus, TaskStatus
    <2>4. StoredState(reply, p) \notin {"absent", "message"}
      BY <2>2 DEF ProxyStatus, WaitingStatus, WireState, Terminal
    <2>5. events' = Append(<<>>, p) /\ <<>> \in Seq(Event) /\ Counted(<<>>, 0)
      <3>1. events' = Append(<<>>, p)
        BY <1>3
      <3>2. DOMAIN <<>> \ Statuses(<<>>) = {}
        BY DEF Statuses
      <3>3. QED BY <3>1, <3>2, FS_EmptySet, EmptySeq DEF Counted
    <2>6. events' \in Seq(Event) /\ Ordered(events', p) /\ Counted(events', 0)
      <3> HIDE DEF p
      <3>1. QED BY <2>2, <2>5, AddStatus
    <2>7. delegation' \in WireState \cup TaskStatus
      BY <1>3, <2>2 DEF ProxyStatus, WaitingStatus, TaskStatus
    <2>8. TypeOK'
      <3> HIDE DEF p
      <3>1. QED BY <1>3, <2>3, <2>6, <2>7 DEF RowsStandTogether, TypeOK, Event
    <2>9. RowsStandTogether'
      <3> HIDE DEF p
      <3>1. QED BY <1>3, <2>2, <2>3, <2>4, <2>8 DEF RowsStandTogether
    <2>10. HistoryAdvances'
      <3> HIDE DEF p
      <3>1. answers' = 0
        BY <1>1
      <3>2. QED BY <1>3, <2>6, <3>1 DEF HistoryAdvances, StatusEvents, Statuses, Ordered, Counted
    <2>11. StageInv'
      <3> HIDE DEF p
      <3>1. QED BY <1>3, <2>1, <2>2 DEF StageInv
    <2>12. SettledInv'
      BY <1>3 DEF SettledInv
    <2>13. TerminalMatchesChild'
      <3>1. ASSUME p \in TerminalStatus, RemoteTaskStatus(reply, "missing") # "missing"
            PROVE  RemoteTaskStatus(child, "missing") = p
        <4>1. reply \in Terminal
          BY <2>1, <3>1 DEF RemoteTaskStatus, Terminal, TerminalStatus, WireState
        <4>2. child = reply
          BY <4>1 DEF SettledInv
        <4>3. QED BY <2>1, <4>1, <4>2, TerminalOfWire
      <3>2. QED BY <1>3, <3>1 DEF TerminalMatchesChild
    <2>14. QED BY <2>9, <2>10, <2>11, <2>12, <2>13
  <1>4. QED BY <1>2, <1>3

------------------------------------------------------------------------------
(***************************************************************************)
(* Readers                                                                 *)
(***************************************************************************)

\* A thread takes the endpoint and asks.
LEMMA AskInv ==
    ASSUME IInv, NEW r \in Readers, Refresh(r) \/ Cancel(r)
    PROVE  IInv'
  <1> USE DEF IInv, Refresh, Cancel, Ready, Goto, remote, registry, rows, sending
  <1>1. TypeOK'
    BY DEF RowsStandTogether, TypeOK
  <1>2. RowsStandTogether' /\ HistoryAdvances'
    BY <1>1, RowsStay
  <1>3. proxy # "absent" /\ delegation # "absent"
    BY DEF RowsStandTogether
  <1>4. StageInv'
    BY <1>3 DEF StageInv, RowsStandTogether, TypeOK
  <1>5. SettledInv'
    BY DEF SettledInv, RowsStandTogether, TypeOK
  <1>6. TerminalMatchesChild'
    BY DEF TerminalMatchesChild
  <1>7. QED BY <1>2, <1>4, <1>5, <1>6

\* A snapshot of the delegated Task shows the child as it is when it answers.
LEMMA AnswerInv ==
    ASSUME IInv, NEW r \in Readers, GetTask(r) \/ CancelTask(r)
    PROVE  IInv'
  <1> USE DEF IInv, registry, rows, sending
  <1>1. /\ UNCHANGED <<childParts, home, registry, rows, sending, url>>
        /\ pc[r] # "idle" /\ child # "absent" /\ sender = "done"
    BY DEF GetTask, CancelTask, remote, StageInv
  <1>2. /\ child' \in WireStates
        /\ child \in Terminal => child' = child
        /\ child' # child => child \notin Terminal
    BY <1>1 DEF GetTask, CancelTask, remote, RowsStandTogether, TypeOK
  <1>3. \/ CallRaises(r)
        \/ \E wire \in WireStates :
             Answer(r, wire) /\ ((url[r] = home /\ wire = child') \/ url[r] # home)
    BY <1>2 DEF GetTask, CancelTask, remote
  <1>4. \/ /\ pc' = [pc EXCEPT ![r] = "idle"] /\ UNCHANGED snapshot
           /\ streaming' \in BOOLEAN
        \/ /\ pc' = [pc EXCEPT ![r] = "record"] /\ UNCHANGED streaming
           /\ \E s \in Snapshot :
                snapshot' = [snapshot EXCEPT ![r] = s] /\ (s.mine => s.wire = child')
    <2>1. CASE CallRaises(r)
      BY <2>1 DEF CallRaises, Goto, Raised
    <2>2. ASSUME NEW wire \in WireStates,
                 Answer(r, wire), (url[r] = home /\ wire = child') \/ url[r] # home
          PROVE  \E s \in Snapshot :
                   snapshot' = [snapshot EXCEPT ![r] = s] /\ (s.mine => s.wire = child')
      <3> DEFINE s == [mine |-> url[r] = home, wire |-> wire, parts |-> childParts]
      <3>1. childParts \in BOOLEAN /\ (url[r] = home) \in BOOLEAN
        BY DEF RowsStandTogether, TypeOK
      <3>2. s \in Snapshot
        BY <3>1 DEF Snapshot
      <3>3. s.mine => s.wire = child'
        BY <2>2
      <3>4. snapshot' = [snapshot EXCEPT ![r] = s]
        BY <2>2 DEF Answer
      <3>5. QED BY <3>2, <3>3, <3>4
    <2>3. QED BY <1>3, <2>1, <2>2 DEF Answer, Goto
  <1>5. TypeOK'
    BY <1>1, <1>2, <1>4 DEF RowsStandTogether, TypeOK
  <1>6. RowsStandTogether' /\ HistoryAdvances'
    BY <1>1, <1>5, RowsStay
  <1>7. StageInv'
    BY <1>1, <1>2, <1>4, RemoteAssumption
       DEF StageInv, RowsStandTogether, TypeOK, WireState, Terminal
  <1>8. SettledInv'
    BY <1>1, <1>2, <1>4 DEF SettledInv, RowsStandTogether, TypeOK
  <1>9. TerminalMatchesChild'
    <2>1. CASE UNCHANGED child
      BY <1>1, <2>1 DEF TerminalMatchesChild
    <2>2. CASE child \notin Terminal
      <3>1. child \in WireState
        BY <1>1, RemoteAssumption DEF RowsStandTogether, TypeOK
      <3>2. RemoteTaskStatus(child, "missing") \notin TerminalStatus
        BY <2>2, <3>1, TerminalOfWire DEF TerminalStatus
      <3>3. QED BY <1>1, <3>2 DEF TerminalMatchesChild
    <2>3. QED BY <1>2, <2>1, <2>2
  <1>10. QED BY <1>6, <1>7, <1>8, <1>9

\* An accepted snapshot advances delegation, proxy, answer and history together.
LEMMA AdvanceInv ==
    ASSUME IInv, NEW s \in Snapshot, Accepted(s), Advance(s),
           s.wire \in Terminal => child = s.wire, UNCHANGED <<child, reply>>
    PROVE  /\ proxy' \in ProxyStatus
           /\ delegation' \in (WireState \cup TaskStatus) \ {"absent", "message"}
           /\ RemoteTaskStatus(delegation', proxy') = proxy'
           /\ answers' \in Nat /\ events' \in Seq(Event)
           /\ HistoryAdvances' /\ TerminalMatchesChild'
  <1> DEFINE n == RemoteTaskStatus(s.wire, proxy)
             new == NewAnswer(s, n)
             more == IF new THEN Append(events, "artifact") ELSE events
  <1>1. proxy \in ProxyStatus /\ proxy # "absent" /\ s.wire \in WireState /\ answers \in Nat
    BY RemoteAssumption
       DEF IInv, StageInv, Accepted, Snapshot, RowsStandTogether, TypeOK
  <1>2. /\ n \in ProxyStatus
        /\ StoredState(s.wire, n) \in WireState \cup ProxyStatus
        /\ RemoteTaskStatus(StoredState(s.wire, n), n) = n
    BY <1>1, StatusOfWire
  <1>3. n # proxy => Rank(proxy) < Rank(n) /\ proxy \notin TerminalStatus
    BY <1>1, <1>2, SnapshotAdvances DEF Accepted
  <1>4. /\ proxy' = n /\ delegation' = StoredState(s.wire, n)
        /\ answers' = IF new THEN answers + 1 ELSE answers
    BY <1>1 DEF Advance
  <1>5. /\ events \in Seq(Event) /\ Ordered(events, proxy) /\ Counted(events, answers)
        /\ answers > 0 => answers = 1 /\ proxy = "completed"
    <2>1. TypeOK /\ HistoryAdvances
      BY DEF IInv, RowsStandTogether
    <2>2. QED BY <1>1, <2>1, HistoryParts DEF TypeOK, Event
  <1>6. events' = IF n # proxy THEN Append(more, n) ELSE more
    <2>1. \A e \in Event : events \o <<e>> = Append(events, e) /\ Append(events, e) \o <<>> = Append(events, e)
      BY <1>5
    <2>2. events \o <<>> = events /\ "artifact" \in Event /\ n \in Event
      BY <1>2, <1>5 DEF Event, ProxyStatus, WaitingStatus, TaskStatus
    <2>3. \A g \in Seq(Event) : g \o <<n>> = Append(g, n) /\ g \o <<>> = g
      BY <2>2
    <2>4. Append(events, "artifact") \in Seq(Event)
      BY <1>5, <2>2, AppendProperties
    <2> HIDE DEF n
    <2>5. QED BY <1>5, <2>1, <2>2, <2>3, <2>4 DEF Advance, n
  <1> HIDE DEF n
  <1>7. more \in Seq(Event) /\ Ordered(more, proxy) /\ Counted(more, answers') /\ answers' \in Nat
    BY <1>1, <1>4, <1>5, AddArtifact
  <1>8. events' \in Seq(Event) /\ Ordered(events', n) /\ Counted(events', answers')
    <2>1. CASE n = proxy
      BY <1>6, <1>7, <2>1
    <2>2. CASE n # proxy
      <3> HIDE DEF more
      <3>1. QED BY <1>1, <1>2, <1>3, <1>6, <1>7, <2>2, AddStatus
    <2>3. QED BY <2>1, <2>2
  <1>9. answers' > 0 => answers' = 1 /\ n = "completed"
    <2>1. CASE new
      BY <1>4, <2>1 DEF NewAnswer
    <2>2. CASE ~ new
      BY <1>3, <1>4, <1>5, <2>2 DEF TerminalStatus
    <2>3. QED BY <2>1, <2>2
  <1>10. HistoryAdvances'
    BY <1>2, <1>4, <1>8, <1>9
       DEF HistoryAdvances, StatusEvents, Statuses, Ordered, Counted, ProxyStatus, WaitingStatus
  <1>11. TerminalMatchesChild'
    <2>1. CASE s.wire \in Terminal
      BY <1>1, <1>4, <2>1, TerminalOfWire DEF TerminalMatchesChild, n
    <2>2. CASE s.wire \notin Terminal /\ n \in TerminalStatus
      <3>1. n = proxy
        BY <1>1, <2>2, TerminalOfWire DEF n
      <3>2. QED BY <1>4, <3>1 DEF IInv, TerminalMatchesChild
    <2>3. QED BY <1>4, <2>1, <2>2 DEF TerminalMatchesChild
  <1>12. delegation' \in (WireState \cup TaskStatus) \ {"absent", "message"}
    BY <1>2, <1>4 DEF ProxyStatus, WaitingStatus, TaskStatus, WireState, Terminal
  <1>13. QED BY <1>2, <1>4, <1>7, <1>8, <1>10, <1>11, <1>12

\* A snapshot is recorded, ignored or refused.
LEMMA RecordSnapshotInv ==
    ASSUME IInv, NEW r \in Readers, RecordSnapshot(r)
    PROVE  IInv'
  <1> DEFINE s == snapshot[r]
  <1>1. /\ pc[r] = "record" /\ pc' = [pc EXCEPT ![r] = "idle"]
        /\ snapshot' = [snapshot EXCEPT ![r] = NoSnapshot]
        /\ UNCHANGED <<ingress, child, childParts, home, agent, endpoint, deleting, edits,
                       sender, reply, url>>
        /\ streaming' \in BOOLEAN
    BY DEF RecordSnapshot, Goto, remote, registry, sending
  <1>2. s \in Snapshot /\ child # "absent"
    BY <1>1 DEF IInv, StageInv
  <1>3. /\ proxy' \in ProxyStatus \cup {"absent"} /\ (proxy' = "absent" <=> proxy = "absent")
        /\ delegation' = "absent" <=> delegation = "absent"
        /\ delegation' \in {"absent", "message"} <=> delegation \in {"absent", "message"}
        /\ delegation' \in WireState \cup TaskStatus \cup {"absent", "message"}
        /\ proxy' # "absent" => RemoteTaskStatus(delegation', proxy') = proxy'
        /\ answers' \in Nat /\ events' \in Seq(Event)
        /\ proxy' = "absent" => answers' = 0 /\ events' = <<>>
        /\ HistoryAdvances' /\ TerminalMatchesChild'
    <2>1. CASE Accepted(s) /\ Advance(s)
      <3>1. s.wire \in Terminal => child = s.wire
        BY <1>1, <2>1 DEF IInv, SettledInv, Accepted, Valid
      <3>2. /\ proxy' \in ProxyStatus
            /\ delegation' \in (WireState \cup TaskStatus) \ {"absent", "message"}
            /\ RemoteTaskStatus(delegation', proxy') = proxy'
            /\ answers' \in Nat /\ events' \in Seq(Event)
            /\ HistoryAdvances' /\ TerminalMatchesChild'
        BY <1>1, <1>2, <2>1, <3>1, AdvanceInv
      <3>3. proxy # "absent" /\ delegation \notin {"absent", "message"} /\ proxy' # "absent"
        BY <2>1, <3>2
           DEF Accepted, IInv, RowsStandTogether, ProxyStatus, WaitingStatus
      <3>4. QED BY <3>2, <3>3
    <2>2. CASE UNCHANGED <<proxy, delegation, answers, events>>
      BY <1>1, <2>2
         DEF IInv, RowsStandTogether, TypeOK, StageInv, Event, HistoryAdvances,
                        StatusEvents, TerminalMatchesChild
    <2>3. QED BY <2>1, <2>2 DEF RecordSnapshot
  <1>4. TypeOK'
    BY <1>1, <1>3
       DEF IInv, RowsStandTogether, TypeOK, Event, ProxyStatus, WaitingStatus,
           TaskStatus
  <1>5. RowsStandTogether'
    BY <1>1, <1>3, <1>4 DEF IInv, RowsStandTogether
  <1>6. StageInv'
    BY <1>1, <1>2, <1>3 DEF IInv, StageInv, RowsStandTogether, TypeOK
  <1>7. SettledInv'
    BY <1>1 DEF IInv, SettledInv, RowsStandTogether, TypeOK
  <1>8. QED BY <1>3, <1>5, <1>6, <1>7 DEF IInv

LEMMA EndStreamInv ==
    ASSUME IInv, EndStream
    PROVE  IInv'
  <1> USE DEF IInv, EndStream, remote, registry, rows, sending
  <1>1. TypeOK'
    BY ZenonT(30) DEF RowsStandTogether, TypeOK
  <1>2. RowsStandTogether' /\ HistoryAdvances'
    BY <1>1, RowsStay
  <1>3. StageInv' /\ SettledInv' /\ TerminalMatchesChild'
    BY DEF StageInv, SettledInv, TerminalMatchesChild
  <1>4. QED BY <1>2, <1>3

\* The deletion of the Context takes all rows.
LEMMA DeleteContextInv ==
    ASSUME IInv, DeleteContext
    PROVE  IInv'
  <1> USE DEF IInv, DeleteContext, remote, registry, sending, reading
  <1>1. TypeOK'
    BY EmptySeq DEF RowsStandTogether, TypeOK
  <1>2. RowsStandTogether'
    BY <1>1 DEF RowsStandTogether
  <1>3. HistoryAdvances'
    <2>1. DOMAIN events' = {} /\ StatusEvents' = {}
      BY DEF StatusEvents
    <2>2. Cardinality(DOMAIN events' \ StatusEvents') = 0
      BY <2>1, FS_EmptySet
    <2>3. QED BY <2>1, <2>2 DEF HistoryAdvances
  <1>4. StageInv' /\ SettledInv' /\ TerminalMatchesChild'
    BY DEF StageInv, SettledInv, TerminalMatchesChild, TerminalStatus
  <1>5. QED BY <1>2, <1>3, <1>4

------------------------------------------------------------------------------
(***************************************************************************)
(* Theorems                                                                *)
(***************************************************************************)

\* Every reachable state of a delegation satisfies the inductive invariant.
THEOREM InductiveInvariant == Spec => []IInv
  <1>1. Init => IInv
    BY InitInv
  <1>2. IInv /\ [Next]_vars => IInv'
    <2> SUFFICES ASSUME IInv, [Next]_vars
                 PROVE  IInv'
      OBVIOUS
    <2>1. CASE ChildMoves \/ ChildPublishes
      BY <2>1, ChildInv
    <2>2. CASE UpsertAgent \/ CheckAgentUnused \/ DeleteAgent
      BY <2>2, RegistryInv
    <2>3. CASE BeginDelegation \/ SendMessage
      BY <2>3, SendInv
    <2>4. CASE RecordDelegation
      BY <2>4, RecordDelegationInv
    <2>5. ASSUME NEW r \in Readers,
                 Refresh(r) \/ Cancel(r) \/ GetTask(r) \/ CancelTask(r) \/ RecordSnapshot(r)
          PROVE  IInv'
      BY <2>5, AskInv, AnswerInv, RecordSnapshotInv
    <2>6. CASE EndStream
      BY <2>6, EndStreamInv
    <2>7. CASE DeleteContext
      BY <2>7, DeleteContextInv
    <2>8. CASE UNCHANGED vars
      BY <2>8
         DEF vars, remote, registry, rows, sending, reading, IInv, RowsStandTogether,
                  TypeOK, StageInv, SettledInv, TerminalMatchesChild, HistoryAdvances, StatusEvents
    <2>9. QED
      BY <2>1, <2>2, <2>3, <2>4, <2>5, <2>6, <2>7, <2>8 DEF Next
  <1>3. QED BY <1>1, <1>2, PTL DEF Spec

\* _handle_remote_agent, record_remote_snapshot and delete_context keep proxy,
\* delegation, answer and events together, and no registration that a delegation
\* references is deleted, however many readers, edits and deletions interleave.
THEOREM RowsAgree == Spec => []RowsStandTogether
  <1>1. IInv => RowsStandTogether
    BY DEF IInv
  <1>2. QED BY <1>1, InductiveInvariant, PTL

\* A terminal proxy agrees with its child, whichever of the concurrent refreshes and
\* cancellations decided it and wherever the card points by then.
THEOREM ProxyEndsAsChild == Spec => []TerminalMatchesChild
  <1>1. IInv => TerminalMatchesChild
    BY DEF IInv
  <1>2. QED BY <1>1, InductiveInvariant, PTL

\* The events clients replay advance strictly to the status of the proxy and hold
\* the answer once, in whatever order snapshots are recorded.
THEOREM HistoryIsMonotonic == Spec => []HistoryAdvances
  <1>1. IInv => HistoryAdvances
    BY DEF IInv
  <1>2. QED BY <1>1, InductiveInvariant, PTL
==============================================================================
