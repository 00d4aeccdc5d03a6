----------------------- MODULE MessageAdmission_proofs -----------------------
(***************************************************************************)
(* Theorems about MessageAdmission, for any set of deliveries and messages *)
(* and any number of deletions, restarts and refused writes.               *)
(***************************************************************************)
EXTENDS MessageAdmission, TLAPS

\* Where a thread is once the router was asked and the request is not over.
Working == {"record", "respond", "accept", "send", "resolve", "yielded", "fail"}

Over == {"yielded", "fail", "done"}

\* The delivery that reserved the ingress, while it may still route or did.
Owner(r) == r \in routed \/ pc[r] = "decide"

\* What a thread has by the time it is where it is. Its life is that of its Context
\* or of an earlier one.
ThreadInv ==
    \A r \in Requests :
        /\ pc[r] # "idle" => delivery[r] \in Deliveries
        /\ pc[r] \in {"idle", "received"} => life[r] = 0
        /\ Owner(r) => life[r] > 0
        /\ pc[r] = "decide" => r \notin routed
        /\ pc[r] \in Working => r \in routed
        /\ life[r] > 0 => pc[r] # "idle" /\ life[r] <= ingress[Msg(r)].life
        /\ reply[r] # NoReply => pc[r] \in Over /\ life[r] > 0
        /\ task[r] # "not_yet" => pc[r] \in Over /\ r \in routed

\* An admission has one owner.
OwnerInv ==
    /\ sent \subseteq routed
    /\ \A r, q \in Requests : Owner(r) /\ Owner(q) /\ SameAdmission(r, q) => r = q

\* The recorded route is the one of the outcome the owner is about to store.
RouteInv ==
    \A r \in Requests :
        /\ pc[r] = "record" => choice[r] \in {"message", "delegated_message"}
        /\ pc[r] = "send" => choice[r] = "delegated_message"
        /\ pc[r] \in {"respond", "send", "resolve"} /\ OwnsIngress(r) =>
             choice[r] \in KindsOf(ingress[Msg(r)].route)

\* A new life of a Context was paid for with a deletion.
LifeInv ==
    \A m \in Messages :
        /\ ingress[m].state = "absent" =>
             deletion[m].pc = "none" /\ ingress[m].life <= deletions
        /\ deletion[m].pc # "none" => ingress[m].life <= deletions
        /\ ingress[m].state # "absent" => ingress[m].life > 0
        /\ ingress[m].life <= deletions + 1

\* A Task that a deletion listed is terminal and stays so.
DeletionInv ==
    \A m \in Messages : deletion[m].pc = "listed" =>
        \A r \in deletion[m].tasks : task[r] \in {"ending", "idle"}

\* A resolved ingress refers to the one outcome of its owner, who was told of it.
StoredAt(m) ==
    /\ outcomes[m] = IF ingress[m].state = "resolved" THEN {ingress[m].outcome} ELSE {}
    /\ ingress[m].state = "resolved" =>
         LET o == ingress[m].outcome IN
         /\ o \in Outcomes
         /\ o[1] \in KindsOf(ingress[m].route)
         /\ o[2] \in routed /\ Msg(o[2]) = m /\ life[o[2]] = ingress[m].life
         /\ reply[o[2]] = Given(o)
         /\ o[1] \in {"task", "delegated_task"} => task[o[2]] # "not_yet"

StoredInv == \A m \in Messages : StoredAt(m)

\* A result comes from the owner, who has it too; where somebody was told of a
\* failure the owner has none and will get none.
ReplyAt(q) ==
    /\ reply[q].is = "result" =>
         /\ \E o \in routed : SameAdmission(q, o) /\ reply[o] = reply[q]
         /\ life[q] = ingress[Msg(q)].life => ingress[Msg(q)].state \in {"resolved", "absent"}
    /\ reply[q].is \in {"failed", "error"} =>
         /\ \A o \in routed : SameAdmission(q, o) => reply[o].is # "result"
         /\ \/ life[q] < ingress[Msg(q)].life
            \/ ingress[Msg(q)].state \in {"failed", "absent"}
            \/ q \in routed /\ pc[q] = "done"

ReplyInv == \A q \in Requests : ReplyAt(q)

IInv ==
    /\ TypeOK /\ ThreadInv /\ OwnerInv /\ RouteInv /\ LifeInv /\ DeletionInv
    /\ StoredInv /\ ReplyInv /\ LiveTaskIsKept

------------------------------------------------------------------------------
(***************************************************************************)
(* Operators                                                               *)
(***************************************************************************)
IngressRow ==
    [state : MessageIngressState \cup {"absent"}, body : Fingerprint, life : Lives,
     route : RouteDecisionKind \cup {"none"}, outcome : Outcomes \cup {NoOutcome}]

\* Every kind of outcome belongs to a route, and RouteOf finds it.
LEMMA RouteOfKind ==
    ASSUME TypeOK, NEW r \in Requests
    PROVE  RouteOf(r) \in RouteDecisionKind /\ choice[r] \in KindsOf(RouteOf(r))
  <1>1. choice[r] \in OutcomeKind
    BY DEF TypeOK
  <1>2. \E route \in RouteDecisionKind : choice[r] \in KindsOf(route)
    BY <1>1 DEF OutcomeKind, KindsOf, RouteDecisionKind
  <1>3. QED BY <1>2 DEF RouteOf

\* A stored outcome is always found consistent: no duplicate of a resolved message
\* is answered with an internal error (_result_from_message_ingress).
LEMMA StoredResultIsGiven ==
    ASSUME IInv, NEW m \in Messages, ingress[m].state = "resolved"
    PROVE  StoredResult(m) = Given(ingress[m].outcome)
  BY DEF IInv, StoredInv, StoredAt, StoredResult

\* The Tasks of a Context: at most the one of its resolved ingress.
LEMMA TasksOfContext ==
    ASSUME IInv, NEW m \in Messages, NEW r \in Requests
    PROVE  r \in TasksOf(m) <=>
             /\ ingress[m].state = "resolved"
             /\ ingress[m].outcome[1] \in {"task", "delegated_task"}
             /\ ingress[m].outcome[2] = r
  <1>1. r \in TasksOf(m) <=>
          \E o \in outcomes[m] : o[1] \in {"task", "delegated_task"} /\ o[2] = r
    BY DEF TasksOf
  <1>2. QED BY <1>1 DEF IInv, StoredInv, StoredAt

\* The invariant makes the properties of the runs true.
LEMMA InvImplies ==
    ASSUME IInv
    PROVE  OneOutcomePerMessage /\ RepliesAgree /\ LiveTaskIsKept
  <1>1. \A m \in Messages : \A o \in outcomes[m] : life[o[2]] = ingress[m].life
    BY DEF IInv, StoredInv, StoredAt
  <1>2. OneOutcomePerMessage
    BY <1>1
       DEF IInv, OneOutcomePerMessage, OwnerInv, Owner, TypeOK, StoredInv, StoredAt
  <1>3. ASSUME NEW r \in Requests, NEW q \in Requests, SameAdmission(r, q),
               reply[r].is = "result", reply[q].is \in {"result", "failed", "error"}
        PROVE  reply[q] = reply[r]
    <2>1. PICK o \in routed : SameAdmission(r, o) /\ reply[o] = reply[r]
      BY <1>3 DEF IInv, ReplyInv, ReplyAt
    <2>2. SameAdmission(q, o) /\ o \in Requests
      BY <1>3, <2>1 DEF SameAdmission, IInv, TypeOK
    <2>3. reply[q].is = "result"
      BY <1>3, <2>1, <2>2 DEF IInv, ReplyInv, ReplyAt
    <2>4. PICK u \in routed : SameAdmission(q, u) /\ reply[u] = reply[q]
      BY <2>3 DEF IInv, ReplyInv, ReplyAt
    <2>5. SameAdmission(o, u) /\ u \in Requests
      BY <2>2, <2>4 DEF SameAdmission, IInv, TypeOK
    <2>6. u = o
      BY <2>1, <2>2, <2>4, <2>5 DEF IInv, OwnerInv, Owner
    <2>7. QED BY <2>1, <2>4, <2>6
  <1>4. QED BY <1>2, <1>3 DEF RepliesAgree, IInv

------------------------------------------------------------------------------
(***************************************************************************)
(* Steps of a thread between its transactions                              *)
(***************************************************************************)
LEMMA InitInv ==
    ASSUME Init
    PROVE  IInv
  <1> USE DEF Init
  <1>1. TypeOK
    <2>1. NoIngress \in [state : MessageIngressState \cup {"absent"}, body : Fingerprint,
                         life : Lives, route : RouteDecisionKind \cup {"none"},
                         outcome : Outcomes \cup {NoOutcome}]
      BY AdmissionAssumption DEF NoIngress, Fingerprint, Lives
    <2>2. NoReply \in Reply
      BY DEF NoReply, Reply
    <2>3. life \in [Requests -> Lives]
      BY AdmissionAssumption DEF Lives
    <2>4. /\ deletions \in 0 .. MaxDeletions /\ restarts \in 0 .. MaxRestarts
          /\ faults \in 0 .. MaxFaults
      BY AdmissionAssumption
    <2>5. deletion \in [Messages -> [pc : DeletePc, tasks : SUBSET Requests]]
      BY DEF DeletePc
    <2>6. QED
      BY <2>1, <2>2, <2>3, <2>4, <2>5 DEF TypeOK, TaskPhase, ThreadPc, OutcomeKind
  <1>2. ThreadInv
    BY DEF ThreadInv, Owner, Working
  <1>3. OwnerInv /\ RouteInv
    BY DEF OwnerInv, RouteInv, Owner
  <1>4. LifeInv /\ DeletionInv /\ StoredInv
    BY AdmissionAssumption DEF LifeInv, DeletionInv, StoredInv, StoredAt, NoIngress
  <1>5. ReplyInv
    BY DEF ReplyInv, ReplyAt, NoReply
  <1>6. LiveTaskIsKept
    BY DEF LiveTaskIsKept
  <1>7. QED BY <1>1, <1>2, <1>3, <1>4, <1>5, <1>6 DEF IInv


\* A step that moves one routed thread on without touching a row, a reply or a
\* Task, and keeps what is known where it arrives.
LEMMA MoveInv ==
    ASSUME IInv, TypeOK', NEW r \in Requests,
           UNCHANGED <<ingress, outcomes, task, delivery, life, reply, deletion, deletions>>,
           \A q \in Requests \ {r} : pc'[q] = pc[q] /\ choice'[q] = choice[q],
           pc[r] \notin {"idle", "received", "done"}, pc'[r] \in Working \cup {"done"},
           pc[r] \in Over => pc'[r] \in Over,
           routed' = routed \cup {r}, sent' \subseteq routed',
           pc'[r] = "record" => choice'[r] \in {"message", "delegated_message"},
           pc'[r] = "send" => choice'[r] = "delegated_message",
           pc'[r] \in {"respond", "send", "resolve"} /\ OwnsIngress(r) =>
             choice'[r] \in KindsOf(ingress[Msg(r)].route)
    PROVE  IInv'
  <1>1. pc[r] = "decide" \/ r \in routed
    BY DEF IInv, TypeOK, ThreadInv, ThreadPc, Working
  <1>2. ThreadInv'
    BY <1>1 DEF IInv, TypeOK, ThreadInv, Owner, Msg, Working
  <1>3. OwnerInv'
    BY <1>1 DEF IInv, TypeOK, ThreadInv, OwnerInv, Owner, SameAdmission, Msg, Working
  <1>4. RouteInv'
    BY DEF IInv, RouteInv, OwnsIngress, Msg
  <1>5. LifeInv' /\ DeletionInv'
    BY DEF IInv, LifeInv, DeletionInv
  <1>6. StoredInv'
    BY DEF IInv, StoredInv, StoredAt, Msg
  <1>7. ReplyInv'
    <2>1. ASSUME NEW o \in routed' \ routed
          PROVE  reply[o] = NoReply
      BY <1>1, <2>1 DEF IInv, ThreadInv, Over
    <2>2. QED BY <2>1 DEF IInv, TypeOK, ReplyInv, ReplyAt, SameAdmission, Msg, NoReply, Over
  <1>8. LiveTaskIsKept'
    BY DEF IInv, LiveTaskIsKept, TasksOf, Msg
  <1>9. QED BY <1>2, <1>3, <1>4, <1>5, <1>6, <1>7, <1>8 DEF IInv

LEMMA ReceiveInv ==
    ASSUME IInv, NEW r \in Requests, Receive(r)
    PROVE  IInv'
  <1> USE DEF Receive, Goto, bounds
  <1>1. TypeOK'
    BY DEF IInv, TypeOK, ThreadPc
  <1>2. /\ \A q \in Requests \ {r} : pc'[q] = pc[q] /\ delivery'[q] = delivery[q]
        /\ pc[r] = "idle" /\ pc'[r] = "received" /\ delivery'[r] \in Deliveries
        /\ life[r] = 0 /\ reply[r] = NoReply /\ r \notin routed /\ task[r] = "not_yet"
        /\ UNCHANGED <<ingress, outcomes, task, life, choice, reply, deletion, routed, sent,
                       deletions, restarts, faults>>
    BY DEF IInv, TypeOK, ThreadInv, Owner, Over
  <1> USE DEF IInv
  <1>3. ThreadInv'
    BY <1>2 DEF ThreadInv, Owner, Msg, Working, Over
  <1>4. OwnerInv' /\ RouteInv'
    BY <1>2 DEF OwnerInv, RouteInv, Owner, OwnsIngress, SameAdmission, Msg
  <1>5. LifeInv' /\ DeletionInv'
    BY <1>2 DEF LifeInv, DeletionInv
  <1>6. StoredInv'
    BY <1>2 DEF StoredInv, StoredAt, Msg, TypeOK
  <1>7. ReplyInv'
    BY <1>2 DEF ReplyInv, ReplyAt, SameAdmission, Msg, NoReply, TypeOK
  <1>8. LiveTaskIsKept'
    BY <1>2 DEF LiveTaskIsKept, TasksOf, Msg
  <1>9. QED BY <1>1, <1>3, <1>4, <1>5, <1>6, <1>7, <1>8

LEMMA DecideInv ==
    ASSUME IInv, NEW r \in Requests, Decide(r)
    PROVE  IInv'
  <1> USE DEF Decide, Goto, bounds
  <1>1. TypeOK'
    <2>1. choice' \in [Requests -> OutcomeKind] /\ pc' \in [Requests -> ThreadPc]
      BY DEF IInv, TypeOK, ThreadPc, OutcomeKind
    <2>2. QED BY <2>1 DEF IInv, TypeOK
  <1>2. /\ \A q \in Requests \ {r} : pc'[q] = pc[q] /\ choice'[q] = choice[q]
        /\ pc'[r] \in {"record", "accept", "fail"}
        /\ pc'[r] = "record" => choice'[r] \in {"message", "delegated_message"}
    BY DEF IInv, TypeOK
  <1>3. sent' \subseteq routed'
    BY DEF IInv, OwnerInv
  <1>4. QED BY <1>1, <1>2, <1>3, MoveInv DEF Working, Over

LEMMA RespondInv ==
    ASSUME IInv, NEW r \in Requests, Respond(r)
    PROVE  IInv'
  <1> USE DEF Respond, bounds
  <1>1. PICK p \in {"resolve", "fail"} : pc' = [pc EXCEPT ![r] = p]
    OBVIOUS
  <1>2. TypeOK'
    BY <1>1 DEF IInv, TypeOK, ThreadPc
  <1>3. pc'[r] = p /\ \A q \in Requests \ {r} : pc'[q] = pc[q]
    BY <1>1 DEF IInv, TypeOK
  <1>4. OwnsIngress(r) => choice'[r] \in KindsOf(ingress[Msg(r)].route)
    BY DEF IInv, RouteInv
  <1>5. routed' = routed \cup {r} /\ sent' \subseteq routed'
    BY DEF IInv, ThreadInv, OwnerInv, Working
  <1>6. QED BY <1>2, <1>3, <1>4, <1>5, MoveInv DEF Working, Over

LEMMA SendRemoteMessageInv ==
    ASSUME IInv, NEW r \in Requests, SendRemoteMessage(r)
    PROVE  IInv'
  <1> USE DEF SendRemoteMessage, Goto, bounds
  <1>1. TypeOK'
    BY DEF IInv, TypeOK, ThreadPc, KindsOf
  <1>2. /\ \A q \in Requests \ {r} : pc'[q] = pc[q] /\ choice'[q] = choice[q]
        /\ pc'[r] \in {"resolve", "fail"}
        /\ pc'[r] = "resolve" => choice'[r] \in KindsOf("remote_agent")
    BY DEF IInv, TypeOK
  <1>3. ASSUME OwnsIngress(r), pc'[r] = "resolve"
        PROVE  choice'[r] \in KindsOf(ingress[Msg(r)].route)
    <2>1. "delegated_message" \in KindsOf(ingress[Msg(r)].route)
      BY <1>3 DEF IInv, RouteInv
    <2>2. ingress[Msg(r)].route = "remote_agent"
      BY <2>1 DEF KindsOf
    <2>3. QED BY <1>2, <1>3, <2>2
  <1>4. routed' = routed \cup {r} /\ sent' \subseteq routed'
    BY DEF IInv, ThreadInv, OwnerInv, Working
  <1>5. QED BY <1>1, <1>2, <1>3, <1>4, MoveInv DEF Working, Over

\* The end of a stream, drained or closed by its client.
LEMMA StreamInv ==
    ASSUME IInv, NEW r \in Requests, FinishStream(r) \/ AbortStream(r)
    PROVE  IInv'
  <1> USE DEF FinishStream, AbortStream, Goto, bounds
  <1>1. TypeOK'
    BY DEF IInv, TypeOK, ThreadPc
  <1>2. /\ \A q \in Requests \ {r} : pc'[q] = pc[q]
        /\ pc[r] \in {"respond", "yielded"} /\ pc'[r] \in {"done", "fail"}
    BY DEF IInv, TypeOK
  <1>3. routed' = routed \cup {r} /\ sent' \subseteq routed'
    BY DEF IInv, ThreadInv, OwnerInv, Working
  <1>4. QED BY <1>1, <1>2, <1>3, MoveInv DEF Working, Over

\* A transaction that raises leaves every row alone.
LEMMA RaiseInv ==
    ASSUME IInv, NEW r \in Requests, Raise(r), pc[r] \in {"record", "resolve", "accept"},
           UNCHANGED faults \/ Fault,
           UNCHANGED <<delivery, life, choice, deletion, routed, sent, deletions, restarts>>
    PROVE  IInv'
  <1> USE DEF Raise, Goto
  <1>1. TypeOK'
    <2>1. faults' \in 0 .. MaxFaults
      BY AdmissionAssumption DEF IInv, TypeOK, Fault
    <2>2. QED BY <2>1 DEF IInv, TypeOK, ThreadPc
  <1>2. pc'[r] = "fail" /\ \A q \in Requests \ {r} : pc'[q] = pc[q]
    BY DEF IInv, TypeOK
  <1>3. routed' = routed \cup {r} /\ sent' \subseteq routed'
    BY DEF IInv, ThreadInv, OwnerInv, Working
  <1>4. QED BY <1>1, <1>2, <1>3, MoveInv DEF Working, Over

------------------------------------------------------------------------------
(***************************************************************************)
(* Transactions of a thread                                                *)
(***************************************************************************)

\* A thread that owns the ingress it named is the only owner of the admission.
LEMMA OwnerIsAlone ==
    ASSUME IInv, NEW r \in Requests, pc[r] \in Working, OwnsIngress(r),
           NEW q \in Requests, Owner(q), life[q] = ingress[Msg(r)].life, Msg(q) = Msg(r)
    PROVE  q = r
  BY DEF IInv, ThreadInv, OwnerInv, Owner, SameAdmission, OwnsIngress

LEMMA ReserveInv ==
    ASSUME IInv, NEW r \in Requests, PrepareMessageRoute(r),
           ingress[Msg(r)].state = "absent", Reserve(r)
    PROVE  IInv'
  <1> USE DEF IInv
  <1> DEFINE m == Msg(r)
             next == ingress[m].life + 1
  <1>1. /\ m \in Messages /\ pc[r] = "received" /\ life[r] = 0 /\ r \notin routed
        /\ ingress[m].state = "absent" /\ delivery[r] \in Deliveries
    BY DEF PrepareMessageRoute, ThreadInv, Msg, Deliveries, Owner
  <1>2. /\ ingress[m].life \in Nat /\ next \in Lives /\ next \in Nat /\ next > 0
        /\ delivery[r].body \in Fingerprint
    BY <1>1, AdmissionAssumption
       DEF TypeOK, Lives, LifeInv, Deliveries, PrepareMessageRoute, ThreadInv
  <1>3. /\ life' = [life EXCEPT ![r] = next]
        /\ pc' = [pc EXCEPT ![r] = "decide"]
        /\ UNCHANGED <<outcomes, task, delivery, choice, reply, deletion, routed, sent,
                       deletions, restarts, faults>>
    BY DEF PrepareMessageRoute, Reserve, Goto, bounds
  <1>4. PICK row \in IngressRow :
          /\ row.state = "in_progress" /\ row.life = next
          /\ ingress' = [ingress EXCEPT ![m] = row]
    <2> DEFINE row == [NoIngress EXCEPT !.state = "in_progress", !.body = delivery[r].body,
                                        !.life = next]
    <2>1. row \in IngressRow /\ row.state = "in_progress" /\ row.life = next
      <3> HIDE DEF next
      <3>1. QED
        BY <1>2 DEF NoIngress, IngressRow, MessageIngressState, RouteDecisionKind
    <2>2. ingress' = [ingress EXCEPT ![m] = row]
      BY DEF Reserve
    <2> HIDE DEF row
    <2>3. QED BY <2>1, <2>2
  <1>5. /\ ingress'[m].life = next /\ ingress'[m].state = "in_progress" /\ life'[r] = next
        /\ pc'[r] = "decide"
        /\ \A k \in Messages \ {m} : ingress'[k] = ingress[k]
        /\ \A q \in Requests \ {r} : life'[q] = life[q] /\ pc'[q] = pc[q]
        /\ \A q \in Requests : Msg(q)' = Msg(q)
    BY <1>1, <1>3, <1>4 DEF TypeOK, Msg, IngressRow
  <1>6. TypeOK'
    <2> HIDE DEF next, m
    <2>1. QED BY <1>1, <1>2, <1>3, <1>4 DEF TypeOK, ThreadPc, IngressRow
  <1>7. \A q \in Requests : life[q] \in Nat /\ (life[q] > 0 /\ Msg(q) = m => life[q] < next)
    BY <1>1, <1>2, AdmissionAssumption DEF TypeOK, ThreadInv, Lives
  <1>8. /\ reply[r] = NoReply /\ task[r] = "not_yet"
    BY <1>1 DEF ThreadInv, Over
  <1> HIDE DEF next, m
  <1>9. ThreadInv'
    <2>1. \A q \in Requests : life[q] > 0 => Msg(q) \in Messages
      BY DEF ThreadInv, Msg, Deliveries
    <2>2. Msg(r) = m
      BY DEF m
    <2>3. ASSUME NEW q \in Requests, life'[q] > 0
          PROVE  life'[q] <= ingress'[Msg(q)].life
      <3>1. CASE q = r
        BY <1>2, <1>5, <2>2, <3>1
      <3>2. CASE q # r
        BY <1>2, <1>5, <1>7, <2>1, <2>3, <3>2 DEF ThreadInv
      <3>3. QED BY <3>1, <3>2
    <2>4. QED
      BY <1>1, <1>2, <1>3, <1>5, <1>8, <2>3 DEF ThreadInv, Owner, Working, TypeOK
  <1>10. OwnerInv'
    BY <1>1, <1>2, <1>3, <1>5, <1>7
       DEF OwnerInv, Owner, SameAdmission, ThreadInv, TypeOK, m
  <1>11. RouteInv'
    <2>1. \A q \in Requests : pc[q] \in {"respond", "send", "resolve"} => Msg(q) \in Messages /\ life[q] > 0
      BY DEF ThreadInv, Msg, Deliveries, Working, Owner
    <2>2. \A q \in Requests \ {r} : pc[q] \in {"respond", "send", "resolve"} /\ OwnsIngress(q)' =>
            OwnsIngress(q) /\ ingress'[Msg(q)] = ingress[Msg(q)]
      BY <1>1, <1>5, <1>7, <2>1 DEF OwnsIngress
    <2>3. QED BY <1>3, <1>5, <2>2 DEF RouteInv
  <1>12. LifeInv' /\ DeletionInv'
    <2>1. next <= deletions + 1 /\ deletion[m].pc = "none"
      BY <1>1, <1>2 DEF LifeInv, TypeOK, next
    <2>2. QED BY <1>1, <1>2, <1>3, <1>5, <2>1 DEF LifeInv, DeletionInv
  <1>13. StoredInv'
    <2>1. outcomes[m] = {}
      BY <1>1 DEF StoredInv, StoredAt, m
    <2>2. \A o \in routed : o # r
      BY <1>1
    <2>3. QED BY <1>3, <1>5, <2>1, <2>2, SMTT(30) DEF StoredInv, StoredAt, TypeOK
  <1>14. ReplyInv'
    <2>1. ASSUME NEW q \in Requests, reply[q] # NoReply
          PROVE  life[q] > 0 /\ Msg(q) \in Messages /\ q # r
      BY <1>8, <2>1 DEF ThreadInv, Msg, Deliveries, Over
    <2>2. ASSUME NEW q \in Requests, NEW o \in routed
          PROVE  q # r => (SameAdmission(q, o)' <=> SameAdmission(q, o))
      BY <1>1, <1>5 DEF SameAdmission, TypeOK
    <2>3. \A q \in Requests : reply[q].is \in {"result", "failed", "error"} => reply[q] # NoReply
      BY DEF NoReply
    <2>4. QED BY <1>1, <1>2, <1>3, <1>5, <1>7, <2>1, <2>2, <2>3 DEF ReplyInv, ReplyAt, TypeOK, m
  <1>15. LiveTaskIsKept'
    BY <1>3, <1>5 DEF LiveTaskIsKept, TasksOf
  <1>16. QED BY <1>6, <1>9, <1>10, <1>11, <1>12, <1>13, <1>14, <1>15

\* A duplicate is told what the ingress says: a result is the owner's, a failure is
\* final.
LEMMA AnswerDuplicateInv ==
    ASSUME IInv, NEW r \in Requests, PrepareMessageRoute(r),
           ingress[Msg(r)].state # "absent", AnswerDuplicate(r)
    PROVE  IInv'
  <1> USE DEF IInv
  <1> DEFINE m == Msg(r)
             row == ingress[m]
  <1>1. /\ m \in Messages /\ pc[r] = "received" /\ r \notin routed /\ delivery[r] \in Deliveries
        /\ row.state # "absent" /\ row.life \in Lives /\ row.life \in Nat /\ row.life > 0
        /\ task[r] = "not_yet" /\ reply[r] = NoReply
    <2>1. pc[r] = "received" /\ delivery[r] \in Deliveries /\ r \notin routed
      BY DEF PrepareMessageRoute, ThreadInv, Owner
    <2>2. m \in Messages
      BY <2>1 DEF Msg, Deliveries
    <2>3. QED BY <2>1, <2>2, AdmissionAssumption DEF TypeOK, LifeInv, Lives, ThreadInv, Over
  <1>2. /\ life' = [life EXCEPT ![r] = row.life]
        /\ reply' = [reply EXCEPT ![r] = ExistingReply(r)]
        /\ pc' = [pc EXCEPT ![r] = "done"]
        /\ UNCHANGED <<ingress, outcomes, task, delivery, choice, deletion, routed, sent,
                       deletions, restarts, faults>>
    BY DEF PrepareMessageRoute, AnswerDuplicate, Goto, bounds
  <1>3. /\ ExistingReply(r) \in Reply
        /\ ExistingReply(r).is = "result" =>
             row.state = "resolved" /\ ExistingReply(r) = Given(row.outcome)
        /\ ExistingReply(r).is \in {"failed", "error"} => row.state = "failed"
    <2>1. CASE row.state = "resolved"
      <3>1. StoredResult(m) = Given(row.outcome) /\ row.outcome \in Outcomes
        BY <1>1, <2>1, StoredResultIsGiven DEF StoredInv, StoredAt
      <3>2. Given(row.outcome) \in Reply /\ Given(row.outcome).is = "result"
        BY <3>1 DEF Given, Reply
      <3>3. Told("conflict") \in Reply /\ Told("conflict").is = "conflict"
        BY DEF Told, Reply
      <3>4. ExistingReply(r) \in {Given(row.outcome), Told("conflict")}
        BY <2>1, <3>1 DEF ExistingReply
      <3>5. QED BY <2>1, <3>2, <3>3, <3>4
    <2>2. CASE row.state \in {"in_progress", "failed"}
      <3>1. ExistingReply(r) \in {Told(row.state), Told("conflict")}
        BY <2>2 DEF ExistingReply
      <3>2. \A w \in {"in_progress", "failed", "conflict"} : Told(w) \in Reply /\ Told(w).is = w
        BY DEF Told, Reply
      <3>3. QED BY <2>2, <3>1, <3>2
    <2>3. QED BY <1>1, <2>1, <2>2 DEF TypeOK, MessageIngressState
  <1>4. /\ life'[r] = row.life /\ pc'[r] = "done" /\ reply'[r] = ExistingReply(r)
        /\ \A q \in Requests \ {r} : life'[q] = life[q] /\ pc'[q] = pc[q] /\ reply'[q] = reply[q]
        /\ \A q \in Requests : Msg(q)' = Msg(q)
    BY <1>2 DEF TypeOK, Msg
  <1>5. TypeOK'
    <2> HIDE DEF row
    <2>1. QED BY <1>1, <1>2, <1>3 DEF TypeOK, ThreadPc
  <1>6. ThreadInv'
    BY <1>1, <1>2, <1>4 DEF ThreadInv, Owner, Working, Over
  <1>7. OwnerInv' /\ RouteInv'
    BY <1>1, <1>2, <1>4 DEF OwnerInv, RouteInv, Owner, OwnsIngress, SameAdmission
  <1>8. LifeInv' /\ DeletionInv'
    BY <1>2 DEF LifeInv, DeletionInv
  <1>9. StoredInv'
    BY <1>1, <1>2, <1>4 DEF StoredInv, StoredAt, TypeOK
  <1>10. ReplyInv'
    <2>1. ASSUME NEW q \in Requests \ {r}, NEW o \in routed
          PROVE  /\ SameAdmission(q, o)' <=> SameAdmission(q, o)
                 /\ reply'[o] = reply[o]
      BY <1>1, <1>4 DEF SameAdmission, TypeOK
    <2>2. ASSUME reply'[r].is = "result"
          PROVE  \E o \in routed : SameAdmission(r, o)' /\ reply'[o] = reply'[r]
      <3> DEFINE o == row.outcome[2]
      <3>1. o \in routed /\ Msg(o) = m /\ life[o] = row.life /\ reply[o] = Given(row.outcome)
        BY <1>1, <1>3, <1>4, <2>2 DEF StoredInv, StoredAt
      <3>2. o # r /\ o \in Requests
        BY <1>1, <3>1 DEF TypeOK
      <3>3. QED BY <1>1, <1>3, <1>4, <2>2, <3>1, <3>2 DEF SameAdmission
    <2>3. ASSUME reply'[r].is \in {"failed", "error"}, NEW o \in routed, SameAdmission(r, o)'
          PROVE  reply'[o].is # "result"
      <3>1. o # r /\ o \in Requests
        BY <1>1 DEF TypeOK
      <3>2. life[o] = row.life /\ Msg(o) = m /\ row.state = "failed"
        BY <1>3, <1>4, <2>3, <3>1 DEF SameAdmission
      <3>3. reply[o].is # "result"
        BY <3>1, <3>2 DEF ReplyInv, ReplyAt
      <3>4. QED BY <1>4, <3>1, <3>3
    <2>4. ASSUME NEW q \in Requests \ {r}
          PROVE  ReplyAt(q)'
      BY <1>2, <1>4, <2>1, <2>4 DEF ReplyInv, ReplyAt
    <2>5. QED BY <1>2, <1>3, <1>4, <2>2, <2>3, <2>4 DEF ReplyInv, ReplyAt
  <1>11. LiveTaskIsKept'
    BY <1>2, <1>4 DEF LiveTaskIsKept, TasksOf
  <1>12. QED BY <1>5, <1>6, <1>7, <1>8, <1>9, <1>10, <1>11

LEMMA PrepareMessageRouteInv ==
    ASSUME IInv, NEW r \in Requests, PrepareMessageRoute(r)
    PROVE  IInv'
  BY ReserveInv, AnswerDuplicateInv DEF PrepareMessageRoute

LEMMA RecordRouteInv ==
    ASSUME IInv, NEW r \in Requests, RecordRoute(r)
    PROVE  IInv'
  <1> USE DEF IInv
  <1> DEFINE m == Msg(r)
  <1>1. CASE Raise(r)
    BY <1>1, RaiseInv DEF RecordRoute
  <1>2. CASE OwnsIngress(r) /\ ~ Raise(r)
    <2>1. /\ pc[r] = "record" /\ m \in Messages /\ r \in routed
          /\ pc' = [pc EXCEPT ![r] = IF choice[r] = "message" THEN "respond" ELSE "send"]
          /\ ingress' = [ingress EXCEPT ![m].route = RouteOf(r)]
          /\ UNCHANGED <<outcomes, task, delivery, life, choice, reply, deletion, routed, sent,
                         deletions, restarts, faults>>
      BY <1>2 DEF RecordRoute, Goto, ThreadInv, Msg, Deliveries, Working
    <2>2. RouteOf(r) \in RouteDecisionKind /\ choice[r] \in KindsOf(RouteOf(r))
      BY RouteOfKind
    <2>3. TypeOK'
      BY <2>1, <2>2, ZenonT(60) DEF TypeOK, ThreadPc
    <2>4. /\ \A k \in Messages : /\ ingress'[k].state = ingress[k].state
                                 /\ ingress'[k].life = ingress[k].life
                                 /\ ingress'[k].outcome = ingress[k].outcome
          /\ \A k \in Messages \ {m} : ingress'[k] = ingress[k]
          /\ ingress'[m].route = RouteOf(r) /\ ingress[m].state = "in_progress"
          /\ pc'[r] \in {"respond", "send"} /\ (pc'[r] = "send" => choice[r] # "message")
          /\ \A q \in Requests \ {r} : pc'[q] = pc[q]
          /\ \A q \in Requests : Msg(q)' = Msg(q) /\ (pc[q] # "idle" => Msg(q) \in Messages)
      BY <1>2, <2>1 DEF TypeOK, OwnsIngress, Msg, ThreadInv, Deliveries
    <2> HIDE DEF m
    <2>5. ThreadInv'
      BY <2>1, <2>4 DEF ThreadInv, Owner, Working, Over
    <2>6. OwnerInv'
      BY <2>1, <2>4 DEF OwnerInv, Owner, SameAdmission
    <2>7. RouteInv'
      <3>1. ASSUME NEW q \in Requests \ {r}, pc[q] \in {"respond", "send", "resolve"},
                   OwnsIngress(q)'
            PROVE  Msg(q) # m /\ OwnsIngress(q)
        <4>1. pc[q] # "idle" /\ Owner(q) /\ OwnsIngress(q)
          BY <2>1, <2>4, <3>1 DEF OwnsIngress, Owner, ThreadInv, Working
        <4>2. QED BY <1>2, <2>1, <3>1, <4>1, OwnerIsAlone DEF OwnsIngress, Working, m
      <3>2. Msg(r) = m
        BY DEF m
      <3>3. QED BY <2>1, <2>2, <2>4, <3>1, <3>2 DEF RouteInv, ThreadInv
    <2>8. LifeInv' /\ DeletionInv' /\ LiveTaskIsKept'
      BY <2>1, <2>4 DEF LifeInv, DeletionInv, LiveTaskIsKept, TasksOf
    <2>9. StoredInv'
      BY <2>1, <2>4 DEF StoredInv, StoredAt, TypeOK
    <2>10. ReplyInv'
      <3>1. \A q \in Requests : reply[q].is \in {"result", "failed", "error"} => Msg(q) \in Messages
        BY <2>4 DEF ThreadInv, NoReply, Over
      <3>2. QED BY <2>1, <2>4, <3>1 DEF ReplyInv, ReplyAt, SameAdmission, TypeOK
    <2>11. QED BY <2>3, <2>5, <2>6, <2>7, <2>8, <2>9, <2>10
  <1>3. QED BY <1>1, <1>2 DEF RecordRoute

LEMMA ResolvedRows ==
    ASSUME NEW f \in [Messages -> IngressRow], NEW m \in Messages, NEW o \in Outcomes,
           NEW route \in RouteDecisionKind \cup {"none"}
    PROVE  [f EXCEPT ![m].state = "resolved", ![m].outcome = o, ![m].route = route]
             \in [Messages -> IngressRow]
  <1> DEFINE states == MessageIngressState \cup {"absent"}
             routes == RouteDecisionKind \cup {"none"}
             outs   == Outcomes \cup {NoOutcome}
  <1>1. "resolved" \in states /\ route \in routes /\ o \in outs
    BY DEF MessageIngressState
  <1>2. IngressRow = [state : states, body : Fingerprint, life : Lives, route : routes,
                      outcome : outs]
    BY DEF IngressRow
  <1> HIDE DEF states, routes, outs
  <1>3. QED BY <1>1, <1>2

\* The transaction that stores the outcome of the owner and resolves its ingress.
LEMMA ResolveInv ==
    ASSUME IInv, NEW r \in Requests, pc[r] \in {"resolve", "accept"}, OwnsIngress(r),
           NEW route \in RouteDecisionKind \cup {"none"}, choice[r] \in KindsOf(route),
           ResolveIngress(Msg(r), route, <<choice[r], r>>), StartTask(r),
           Answer(r, <<choice[r], r>>),
           UNCHANGED <<faults, delivery, life, choice, deletion, routed, sent, deletions,
                       restarts>>
    PROVE  IInv'
  <1> USE DEF IInv
  <1>1. Msg(r) \in Messages /\ r \in routed /\ <<choice[r], r>> \in Outcomes
    BY DEF ThreadInv, Msg, Deliveries, Working, TypeOK, Outcomes
  <1>2. PICK m \in Messages : m = Msg(r)
    BY <1>1
  <1>3. PICK o \in Outcomes : o = <<choice[r], r>>
    BY <1>1
  <1>4. /\ m \in Messages /\ r \in routed /\ reply[r] = NoReply /\ task[r] = "not_yet"
        /\ o \in Outcomes /\ o[1] = choice[r] /\ o[2] = r
        /\ ingress[m].life = life[r] /\ ingress[m].state = "in_progress" /\ life[r] > 0
        /\ outcomes[m] = {}
    <2>1. reply[r] = NoReply /\ task[r] = "not_yet" /\ life[r] > 0
      BY <1>1 DEF ThreadInv, Over, Owner
    <2>2. QED BY <1>1, <1>2, <1>3, <2>1 DEF OwnsIngress, StoredInv, StoredAt
  <1>5. /\ outcomes' = [outcomes EXCEPT ![m] = @ \cup {o}]
        /\ ingress' = [ingress EXCEPT ![m].state = "resolved", ![m].outcome = o,
                                      ![m].route = route]
        /\ reply' = [reply EXCEPT ![r] = Given(o)]
        /\ pc' = [pc EXCEPT ![r] = IF delivery[r].stream THEN "yielded" ELSE "done"]
        /\ task' = IF o[1] \in {"task", "delegated_task"}
                     THEN [task EXCEPT ![r] = "active"] ELSE task
    BY <1>2, <1>3, <1>4 DEF ResolveIngress, StartTask, Answer, Goto
  <1>6. Given(o) \in Reply /\ Given(o).is = "result"
    BY <1>4 DEF Given, Reply
  <1>7. TypeOK'
    <2>1. ingress' \in [Messages -> IngressRow]
      <3>1. ingress \in [Messages -> IngressRow]
        BY DEF TypeOK, IngressRow
      <3>2. QED BY <1>4, <1>5, <3>1, ResolvedRows
    <2>2. outcomes' \in [Messages -> SUBSET Outcomes]
      BY <1>4, <1>5 DEF TypeOK
    <2>3. pc' \in [Requests -> ThreadPc] /\ task' \in [Requests -> TaskPhase]
      BY <1>5 DEF TypeOK, ThreadPc, TaskPhase
    <2>4. reply' \in [Requests -> Reply]
      BY <1>5, <1>6 DEF TypeOK
    <2>5. QED BY <2>1, <2>2, <2>3, <2>4 DEF TypeOK, IngressRow
  <1>8. /\ ingress'[m].state = "resolved" /\ ingress'[m].outcome = o
        /\ ingress'[m].route = route /\ outcomes'[m] = {o} /\ pc'[r] \in {"yielded", "done"}
        /\ \A k \in Messages \ {m} : ingress'[k] = ingress[k] /\ outcomes'[k] = outcomes[k]
        /\ \A k \in Messages : ingress'[k].life = ingress[k].life
        /\ reply'[r] = Given(o)
        /\ o[1] \in {"task", "delegated_task"} => task'[r] = "active"
        /\ o[1] \notin {"task", "delegated_task"} => task'[r] = "not_yet"
        /\ \A q \in Requests \ {r} : pc'[q] = pc[q] /\ reply'[q] = reply[q] /\ task'[q] = task[q]
        /\ \A q \in Requests : Msg(q)' = Msg(q) /\ (pc[q] # "idle" => Msg(q) \in Messages)
    BY <1>4, <1>5 DEF TypeOK, Msg, ThreadInv, Deliveries
  <1>9. ThreadInv'
    BY <1>4, <1>8 DEF ThreadInv, Owner, Working, Over
  <1>10. OwnerInv'
    BY <1>4, <1>8 DEF OwnerInv, Owner, SameAdmission
  <1>11. RouteInv'
    <2>1. ASSUME NEW q \in Requests \ {r}, pc[q] \in {"respond", "send", "resolve"},
                 OwnsIngress(q)'
          PROVE  Msg(q) # m /\ OwnsIngress(q)
      BY <1>8, <2>1 DEF OwnsIngress
    <2>2. QED BY <1>8, <2>1 DEF RouteInv
  <1>12. LifeInv'
    BY <1>4, <1>8 DEF LifeInv
  <1>13. DeletionInv'
    BY <1>4, <1>8 DEF DeletionInv, TypeOK
  <1>14. StoredInv'
    <2>1. \A k \in Messages \ {m} : ingress[k].state = "resolved" => ingress[k].outcome[2] # r
      BY <1>2 DEF StoredInv, StoredAt
    <2>2. ASSUME NEW k \in Messages \ {m}
          PROVE  StoredAt(k)'
      <3>1. ingress'[k] = ingress[k] /\ outcomes'[k] = outcomes[k] /\ StoredAt(k)
        BY <1>8, <2>2 DEF StoredInv
      <3>2. CASE ingress[k].state # "resolved"
        BY <3>1, <3>2 DEF StoredAt
      <3>3. CASE ingress[k].state = "resolved"
        <4>1. PICK w \in Requests : w = ingress[k].outcome[2] /\ w # r
          BY <2>1, <2>2, <3>1, <3>3 DEF StoredAt, TypeOK
        <4>2. Msg(w)' = Msg(w) /\ reply'[w] = reply[w] /\ task'[w] = task[w]
          BY <1>8, <4>1
        <4>3. QED BY <3>1, <3>3, <4>1, <4>2 DEF StoredAt, Msg
      <3>4. QED BY <3>2, <3>3
    <2>3. StoredAt(m)'
      BY <1>4, <1>8, <1>2 DEF StoredAt, Msg
    <2>4. QED BY <2>2, <2>3 DEF StoredInv
  <1>15. ReplyInv'
    <2>1. ASSUME NEW q \in Requests, reply[q].is \in {"result", "failed", "error"}
          PROVE  q # r /\ Msg(q) \in Messages /\ life[q] > 0
      BY <1>4, <1>8, <2>1 DEF ThreadInv, NoReply, Over
    <2>2. ASSUME NEW q \in Requests, SameAdmission(q, r)
          PROVE  reply[q].is \notin {"result", "failed", "error"}
      <3>1. CASE reply[q].is = "result"
        <4>1. PICK u \in routed : SameAdmission(q, u) /\ reply[u] = reply[q]
          BY <3>1 DEF ReplyInv, ReplyAt
        <4>2. u = r
          BY <1>4, <2>2, <4>1 DEF OwnerInv, Owner, SameAdmission, TypeOK
        <4>3. QED BY <1>4, <3>1, <4>1, <4>2 DEF NoReply
      <3>2. CASE reply[q].is \in {"failed", "error"}
        <4>1. life[q] = ingress[Msg(q)].life /\ ingress[Msg(q)].state = "in_progress"
          BY <1>4, <1>2, <2>2 DEF SameAdmission
        <4>2. life[q] \in Nat
          BY AdmissionAssumption DEF TypeOK, Lives
        <4>3. q \in routed /\ pc[q] = "done"
          BY <3>2, <4>1, <4>2 DEF ReplyInv, ReplyAt
        <4>4. q = r
          BY <1>4, <2>2, <4>3 DEF OwnerInv, Owner
        <4>5. QED BY <4>3, <4>4
      <3>3. QED BY <3>1, <3>2
    <2>3. ASSUME NEW q \in Requests, NEW u \in Requests
          PROVE  SameAdmission(q, u)' <=> SameAdmission(q, u)
      BY <1>8 DEF SameAdmission
    <2>4. ASSUME NEW q \in Requests, reply[q].is \in {"failed", "error"}
          PROVE  \/ life'[q] < ingress'[Msg(q)].life
                 \/ ingress'[Msg(q)].state \in {"failed", "absent"}
                 \/ q \in routed' /\ pc'[q] = "done"
      <3>1. CASE Msg(q) # m
        BY <1>8, <2>1, <2>4, <3>1 DEF ReplyInv, ReplyAt
      <3>2. CASE Msg(q) = m
        <4>1. life[q] # ingress[m].life
          BY <1>4, <1>2, <2>1, <2>2, <2>4, <3>2 DEF SameAdmission
        <4>2. life[q] <= ingress[m].life
          BY <2>1, <2>4, <3>2 DEF ThreadInv
        <4>3. life[q] \in Nat /\ ingress[m].life \in Nat
          BY <1>4, AdmissionAssumption DEF TypeOK, Lives
        <4>4. QED BY <1>4, <1>8, <3>2, <4>1, <4>2, <4>3
      <3>3. QED BY <3>1, <3>2
    <2>5. ASSUME NEW q \in Requests, reply[q].is = "result"
          PROVE  /\ \E u \in routed : SameAdmission(q, u)' /\ reply'[u] = reply[q]
                 /\ life'[q] = ingress'[Msg(q)].life =>
                      ingress'[Msg(q)].state \in {"resolved", "absent"}
      <3>1. PICK u \in routed : SameAdmission(q, u) /\ reply[u] = reply[q]
        BY <2>5 DEF ReplyInv, ReplyAt
      <3>2. u # r /\ u \in Requests
        BY <1>4, <2>5, <3>1 DEF NoReply, TypeOK
      <3>3. QED BY <1>8, <2>1, <2>3, <2>5, <3>1, <3>2 DEF ReplyInv, ReplyAt
    <2>6. ASSUME NEW q \in Requests, reply[q].is \in {"failed", "error"}, NEW u \in routed,
                 SameAdmission(q, u)
          PROVE  reply'[u].is # "result"
      BY <1>8, <2>2, <2>6 DEF ReplyInv, ReplyAt, TypeOK
    <2>7. \A q \in Requests : q # r => reply'[q] = reply[q]
      BY <1>8
    <2>8. SameAdmission(r, r)' /\ reply'[r].is = "result"
      BY <1>4, <1>6, <1>8 DEF SameAdmission
    <2>9. \A u \in routed : u \in Requests
      BY DEF TypeOK
    <2>10. ASSUME NEW q \in Requests \ {r}
           PROVE  ReplyAt(q)'
      BY <1>8, <2>3, <2>4, <2>5, <2>6, <2>7, <2>9, <2>10 DEF ReplyAt
    <2>11. ReplyAt(r)'
      BY <1>4, <1>8, <1>2, <2>8 DEF ReplyAt
    <2>12. QED BY <2>10, <2>11 DEF ReplyInv
  <1>16. LiveTaskIsKept'
    <2>1. ASSUME NEW q \in Requests, task'[q] = "active", q # r
          PROVE  Msg(q) \in Messages \ {m} /\ q \in TasksOf(Msg(q))
      <3>1. q \in TasksOf(Msg(q)) /\ Msg(q) \in Messages
        BY <1>8, <2>1 DEF LiveTaskIsKept, ThreadInv, Over
      <3>2. TasksOf(m) = {}
        BY <1>4 DEF TasksOf
      <3>3. QED BY <3>1, <3>2
    <2>2. ASSUME task'[r] = "active"
          PROVE  \E x \in outcomes'[m] : x[1] \in {"task", "delegated_task"} /\ x[2] = r
      BY <1>4, <1>8, <2>2
    <2>3. QED BY <1>8, <1>2, <2>1, <2>2 DEF LiveTaskIsKept, TasksOf
  <1>17. QED
    BY <1>7, <1>9, <1>10, <1>11, <1>12, <1>13, <1>14, <1>15, <1>16

LEMMA ResolveMessageInv ==
    ASSUME IInv, NEW r \in Requests, ResolveMessage(r)
    PROVE  IInv'
  <1>1. CASE Raise(r)
    BY <1>1, RaiseInv DEF ResolveMessage
  <1>2. CASE ~ Raise(r)
    <2>1. pc[r] = "resolve" /\ OwnsIngress(r)
      BY <1>2 DEF ResolveMessage
    <2>2. Msg(r) \in Messages /\ choice[r] \in KindsOf(ingress[Msg(r)].route)
      BY <2>1 DEF IInv, ThreadInv, RouteInv, Msg, Deliveries
    <2>3. ingress[Msg(r)].route \in RouteDecisionKind \cup {"none"}
      BY <2>2 DEF IInv, TypeOK
    <2>4. QED BY <1>2, <2>1, <2>2, <2>3, ResolveInv DEF ResolveMessage
  <1>3. QED BY <1>1, <1>2

LEMMA AcceptLocalTaskInv ==
    ASSUME IInv, NEW r \in Requests, AcceptLocalTask(r)
    PROVE  IInv'
  <1>1. CASE Raise(r)
    BY <1>1, RaiseInv DEF AcceptLocalTask
  <1>2. CASE ~ Raise(r)
    <2>1. RouteOf(r) \in RouteDecisionKind /\ choice[r] \in KindsOf(RouteOf(r))
      BY RouteOfKind DEF IInv
    <2>2. QED BY <1>2, <2>1, ResolveInv DEF AcceptLocalTask
  <1>3. QED BY <1>1, <1>2

\* A row may be failed; nothing else of it changes.
LEMMA FailedRow ==
    ASSUME NEW row \in IngressRow
    PROVE  LET new == [row EXCEPT !.state = "failed"]
           IN  new \in IngressRow /\ new.state = "failed" /\ new.life = row.life
  <1> DEFINE states == MessageIngressState \cup {"absent"}
             routes == RouteDecisionKind \cup {"none"}
             outs   == Outcomes \cup {NoOutcome}
  <1>1. "failed" \in states
    BY DEF MessageIngressState
  <1>2. IngressRow = [state : states, body : Fingerprint, life : Lives, route : routes,
                      outcome : outs]
    BY DEF IngressRow
  <1> HIDE DEF states, routes, outs
  <1>3. QED BY <1>1, <1>2

\* The row and the outcome of a message stand together as long as they stay, and the
\* owner keeps its result and its Task.
LEMMA StoredStays ==
    ASSUME IInv, NEW m \in Messages, UNCHANGED <<delivery, life, routed>>,
           \/ ingress'[m] = ingress[m]
           \/ ingress[m].state # "resolved" /\ ingress'[m].state # "resolved",
           outcomes'[m] = outcomes[m],
           \A w \in Requests : reply[w].is = "result" => reply'[w] = reply[w],
           \A w \in Requests : task[w] # "not_yet" => task'[w] # "not_yet"
    PROVE  StoredAt(m)'
  <1>1. CASE ingress[m].state # "resolved"
    BY <1>1 DEF IInv, StoredInv, StoredAt
  <1>2. CASE ingress[m].state = "resolved"
    <2>1. StoredAt(m) /\ ingress'[m] = ingress[m]
      BY <1>2 DEF IInv, StoredInv
    <2>2. PICK w \in Requests : w = ingress[m].outcome[2]
      BY <1>2, <2>1 DEF StoredAt, IInv, TypeOK
    <2>3. reply[w] = Given(ingress[m].outcome)
      BY <1>2, <2>1, <2>2 DEF StoredAt
    <2>4. reply[w].is = "result"
      BY <2>3 DEF Given
    <2>5. reply'[w] = reply[w] /\ Msg(w)' = Msg(w)
      BY <2>4 DEF Msg
    <2>6. QED BY <1>2, <2>1, <2>2, <2>5 DEF StoredAt, Msg
  <1>3. QED BY <1>1, <1>2

\* The failure handler: it may reach the ingress of a later Context, but no row that
\* is resolved, and the owner it belongs to has no result.
LEMMA RecordFailureInv ==
    ASSUME IInv, NEW r \in Requests, RecordFailure(r)
    PROVE  IInv'
  <1> USE DEF IInv
  <1>1. /\ pc[r] = "fail" /\ r \in routed /\ Msg(r) \in Messages /\ life[r] > 0
        /\ pc' = [pc EXCEPT ![r] = "done"]
        /\ reply' = [reply EXCEPT ![r] = IF @ = NoReply THEN Told("error") ELSE @]
        /\ UNCHANGED <<outcomes, task, delivery, life, choice, deletion, routed, sent,
                       deletions, restarts>>
    BY DEF RecordFailure, Goto, ThreadInv, Working, Owner, Msg, Deliveries
  <1>2. Told("error") \in Reply /\ Told("error").is = "error"
    BY DEF Told, Reply
  <1>3. TypeOK'
    <2>1. faults' \in 0 .. MaxFaults
      BY AdmissionAssumption DEF RecordFailure, Fault, TypeOK
    <2>2. ingress' \in [Messages -> IngressRow]
      <3>1. ingress \in [Messages -> IngressRow]
        BY DEF TypeOK, IngressRow
      <3>2. ingress' \in {ingress, [ingress EXCEPT ![Msg(r)].state = "failed"]}
        BY DEF RecordFailure, FailIngress
      <3>3. [ingress[Msg(r)] EXCEPT !.state = "failed"] \in IngressRow
        BY <1>1, <3>1, FailedRow
      <3>4. QED BY <1>1, <3>1, <3>2, <3>3
    <2>3. QED BY <1>1, <1>2, <2>1, <2>2 DEF TypeOK, IngressRow, ThreadPc
  <1>4. /\ \A k \in Messages :
             \/ ingress'[k] = ingress[k]
             \/ ingress[k].state = "in_progress" /\ ingress'[k].state = "failed"
        /\ \A k \in Messages : ingress'[k].life = ingress[k].life
        /\ \A q \in Requests \ {r} : pc'[q] = pc[q] /\ reply'[q] = reply[q]
        /\ pc'[r] = "done" /\ reply'[r] = IF reply[r] = NoReply THEN Told("error") ELSE reply[r]
        /\ \A q \in Requests : Msg(q)' = Msg(q) /\ (pc[q] # "idle" => Msg(q) \in Messages)
    <2>1. /\ \A k \in Messages :
               \/ ingress'[k] = ingress[k]
               \/ ingress[k].state = "in_progress" /\ ingress'[k].state = "failed"
          /\ \A k \in Messages : ingress'[k].life = ingress[k].life
      <3>1. \/ ingress' = ingress
            \/ /\ ingress' = [ingress EXCEPT ![Msg(r)].state = "failed"]
               /\ ingress[Msg(r)].state = "in_progress"
        BY DEF RecordFailure, FailIngress
      <3>2. ingress \in [Messages -> IngressRow]
        BY DEF TypeOK, IngressRow
      <3>3. \/ ingress' = ingress
            \/ /\ ingress'[Msg(r)] = [ingress[Msg(r)] EXCEPT !.state = "failed"]
               /\ ingress[Msg(r)].state = "in_progress"
               /\ \A k \in Messages \ {Msg(r)} : ingress'[k] = ingress[k]
        BY <1>1, <3>1, <3>2
      <3>4. /\ [ingress[Msg(r)] EXCEPT !.state = "failed"].state = "failed"
            /\ [ingress[Msg(r)] EXCEPT !.state = "failed"].life = ingress[Msg(r)].life
        BY <1>1, <3>2, FailedRow
      <3>5. QED BY <1>1, <3>3, <3>4
    <2>2. \A q \in Requests : Msg(q)' = Msg(q) /\ (pc[q] # "idle" => Msg(q) \in Messages)
      BY <1>1 DEF Msg, ThreadInv, Deliveries
    <2>3. QED BY <1>1, <2>1, <2>2 DEF TypeOK
  <1>5. ThreadInv'
    BY <1>1, <1>4 DEF ThreadInv, Owner, Working, Over
  <1>6. OwnerInv'
    BY <1>1, <1>4 DEF OwnerInv, Owner, SameAdmission
  <1>7. RouteInv'
    BY <1>1, <1>4 DEF RouteInv, OwnsIngress
  <1>8. LifeInv' /\ DeletionInv'
    BY <1>1, <1>4 DEF LifeInv, DeletionInv
  <1>9. LiveTaskIsKept'
    BY <1>1, <1>4 DEF LiveTaskIsKept, TasksOf
  <1>10. ASSUME NEW m \in Messages
         PROVE  StoredAt(m)'
    <2>1. \A w \in Requests : reply[w].is = "result" => reply'[w] = reply[w]
      BY <1>4 DEF NoReply
    <2>2. QED BY <1>1, <1>4, <2>1, StoredStays
  <1>11. ASSUME NEW q \in Requests
         PROVE  ReplyAt(q)'
    <2>1. ASSUME NEW u \in Requests
          PROVE  /\ SameAdmission(q, u)' <=> SameAdmission(q, u)
                 /\ reply[u].is = "result" => reply'[u] = reply[u]
                 /\ reply'[u].is = "result" => reply[u].is = "result"
      BY <1>1, <1>2, <1>4 DEF SameAdmission, NoReply
    <2>2. CASE reply'[q] = reply[q]
      <3>1. reply[q].is \in {"result", "failed", "error"} => Msg(q) \in Messages
        BY <1>4 DEF ThreadInv, NoReply, Over
      <3>2. \A u \in routed : u \in Requests
        BY DEF TypeOK
      <3>3. QED BY <1>1, <1>4, <2>1, <2>2, <3>1, <3>2 DEF ReplyInv, ReplyAt
    <2>3. CASE q = r /\ reply[r] = NoReply
      <3>1. ASSUME NEW u \in routed, SameAdmission(r, u)
            PROVE  reply'[u].is # "result"
        <4>1. u = r
          BY <1>1, <3>1 DEF OwnerInv, Owner, TypeOK
        <4>2. QED BY <1>2, <1>4, <2>3, <4>1
      <3>2. \A u \in routed : u \in Requests
        BY DEF TypeOK
      <3>3. QED BY <1>1, <1>2, <1>4, <2>1, <2>3, <3>1, <3>2 DEF ReplyAt
    <2>4. QED BY <1>4, <2>2, <2>3
  <1>12. QED
    BY <1>3, <1>5, <1>6, <1>7, <1>8, <1>9, <1>10, <1>11 DEF StoredInv, ReplyInv

------------------------------------------------------------------------------
(***************************************************************************)
(* Tasks, restart and Context deletion                                     *)
(***************************************************************************)
LEMMA TaskEndsInv ==
    ASSUME IInv, NEW r \in Requests, EndTask(r) \/ EndCallback(r)
    PROVE  IInv'
  <1> USE DEF IInv, EndTask, EndCallback, threads, bounds
  <1>1. TypeOK'
    BY DEF TypeOK, TaskPhase
  <1>2. /\ task[r] # "not_yet" /\ task'[r] \in {"ending", "idle"}
        /\ \A q \in Requests \ {r} : task'[q] = task[q]
    BY DEF TypeOK
  <1>3. ThreadInv' /\ OwnerInv' /\ RouteInv'
    BY <1>2 DEF ThreadInv, OwnerInv, RouteInv, Owner, OwnsIngress, SameAdmission, Msg
  <1>4. LifeInv' /\ DeletionInv'
    BY <1>2 DEF LifeInv, DeletionInv, TypeOK
  <1>5. StoredInv'
    BY <1>2, StoredStays DEF StoredInv
  <1>6. ReplyInv'
    BY DEF ReplyInv, ReplyAt, SameAdmission, Msg
  <1>7. LiveTaskIsKept'
    BY <1>2 DEF LiveTaskIsKept, TasksOf, Msg
  <1>8. QED BY <1>1, <1>3, <1>4, <1>5, <1>6, <1>7

LEMMA RestartInv ==
    ASSUME IInv, Restart
    PROVE  IInv'
  <1> USE DEF IInv
  <1>1. /\ \A k \in Messages :
             \/ ingress'[k] = ingress[k] /\ ingress[k].state # "in_progress"
             \/ ingress[k].state = "in_progress" /\ ingress'[k].state = "failed"
        /\ \A k \in Messages : ingress'[k].life = ingress[k].life
        /\ \A q \in Requests : pc'[q] = IF pc[q] = "idle" THEN "idle" ELSE "done"
        /\ \A q \in Requests : task'[q] = IF task[q] = "ending" THEN "idle" ELSE task[q]
        /\ \A k \in Messages : deletion'[k].pc = "none"
        /\ UNCHANGED <<outcomes, delivery, life, choice, reply, routed, sent, deletions, faults>>
    BY DEF Restart, TypeOK
  <1>2. TypeOK'
    <2>1. restarts' \in 0 .. MaxRestarts
      BY AdmissionAssumption DEF Restart, TypeOK
    <2>2. ingress' \in [Messages -> IngressRow]
      <3>1. ingress \in [Messages -> IngressRow]
        BY DEF TypeOK, IngressRow
      <3>2. \A k \in Messages : [ingress[k] EXCEPT !.state = "failed"] \in IngressRow
        BY <3>1, FailedRow
      <3>3. QED BY <3>1, <3>2 DEF Restart
    <2>3. deletion' \in [Messages -> [pc : DeletePc, tasks : SUBSET Requests]]
      BY DEF Restart, DeletePc
    <2>4. pc' \in [Requests -> ThreadPc] /\ task' \in [Requests -> TaskPhase]
      BY DEF Restart, TypeOK, ThreadPc, TaskPhase
    <2>5. QED BY <1>1, <2>1, <2>2, <2>3, <2>4 DEF TypeOK, IngressRow
  <1>3. \A q \in Requests : Msg(q)' = Msg(q) /\ (pc[q] # "idle" => Msg(q) \in Messages)
    BY <1>1 DEF Msg, ThreadInv, Deliveries
  <1>4. ThreadInv'
    BY <1>1, <1>3 DEF ThreadInv, Owner, Working, Over
  <1>5. OwnerInv' /\ RouteInv'
    BY <1>1, <1>3 DEF OwnerInv, RouteInv, Owner, SameAdmission
  <1>6. LifeInv' /\ DeletionInv'
    BY <1>1 DEF LifeInv, DeletionInv
  <1>7. LiveTaskIsKept'
    BY <1>1, <1>3 DEF LiveTaskIsKept, TasksOf
  <1>8. StoredInv'
    BY <1>1 DEF StoredInv, StoredAt, TypeOK, Msg
  <1>9. ReplyInv'
    <2>1. \A q \in Requests :
            reply[q].is \in {"result", "failed", "error"} => Msg(q) \in Messages
      BY <1>3 DEF ThreadInv, NoReply, Over
    <2>2. \A q, u \in Requests : SameAdmission(q, u)' <=> SameAdmission(q, u)
      BY <1>1, <1>3 DEF SameAdmission
    <2>3. \A u \in routed : u \in Requests
      BY DEF TypeOK
    <2>4. QED BY <1>1, <1>3, <2>1, <2>2, <2>3 DEF ReplyInv, ReplyAt
  <1>10. QED BY <1>2, <1>4, <1>5, <1>6, <1>7, <1>8, <1>9

\* The checks and the listing of a deletion change no row.
LEMMA DeleteLooksInv ==
    ASSUME IInv, NEW m \in Messages, DeleteCheck(m) \/ DeleteList(m)
    PROVE  IInv'
  <1> USE DEF IInv
  <1>1. /\ UNCHANGED <<ingress, outcomes, task, pc, delivery, life, choice, reply, routed, sent,
                       restarts, faults>>
        /\ \A k \in Messages \ {m} : deletion'[k] = deletion[k]
        /\ deletions' \in 0 .. MaxDeletions /\ deletions <= deletions'
        /\ deletion[m].pc = "none" =>
             ingress[m].state # "absent" /\ deletion'[m].pc = "checked" /\
             deletions' = deletions + 1
        /\ ingress[m].state # "absent"
    BY AdmissionAssumption
       DEF DeleteCheck, DeleteList, TypeOK, threads, bounds, LifeInv
  <1>2. TasksOf(m) \subseteq Requests
    BY DEF TasksOf, TypeOK, Outcomes
  <1>3. TypeOK'
    <2>1. deletion' \in [Messages -> [pc : DeletePc, tasks : SUBSET Requests]]
      <3>1. CASE DeleteCheck(m)
        BY <3>1, SMTT(30) DEF DeleteCheck, TypeOK, DeletePc
      <3>2. CASE DeleteList(m)
        BY <1>2, <3>2 DEF DeleteList, TypeOK, DeletePc
      <3>3. QED BY <3>1, <3>2
    <2>2. QED BY <1>1, <2>1 DEF TypeOK
  <1>4. ThreadInv' /\ OwnerInv' /\ RouteInv'
    BY <1>1 DEF ThreadInv, OwnerInv, RouteInv, Owner, OwnsIngress, SameAdmission, Msg
  <1>5. LifeInv'
    <2>1. \A k \in Messages : ingress[k].life \in Nat
      BY AdmissionAssumption DEF TypeOK, Lives
    <2>2. deletions \in Nat /\ deletions' \in Nat
      BY <1>1, AdmissionAssumption DEF TypeOK
    <2>3. QED BY <1>1, <2>1, <2>2 DEF LifeInv
  <1>6. DeletionInv'
    <2>1. ASSUME NEW w \in TasksOf(m)
          PROVE  task[w] # "not_yet"
      BY <1>2, <2>1, TasksOfContext DEF StoredInv, StoredAt
    <2>2. ASSUME deletion'[m].pc = "listed", NEW w \in deletion'[m].tasks
          PROVE  w \in TasksOf(m) /\ task[w] # "active"
      BY <2>2 DEF DeleteCheck, DeleteList, TypeOK
    <2>3. ASSUME deletion'[m].pc = "listed", NEW w \in deletion'[m].tasks
          PROVE  task[w] \in {"ending", "idle"}
      BY <1>2, <2>1, <2>2, <2>3 DEF TypeOK, TaskPhase
    <2>4. QED BY <1>1, <2>3 DEF DeletionInv
  <1>7. StoredInv'
    BY <1>1, StoredStays DEF StoredInv
  <1>8. ReplyInv'
    BY <1>1 DEF ReplyInv, ReplyAt, SameAdmission, Msg
  <1>9. LiveTaskIsKept'
    BY <1>1 DEF LiveTaskIsKept, TasksOf, Msg
  <1>10. QED BY <1>3, <1>4, <1>5, <1>6, <1>7, <1>8, <1>9

\* The deletion takes all rows of a Context, or none when a Task came in between.
LEMMA DeleteRowsInv ==
    ASSUME IInv, NEW m \in Messages, DeleteRows(m)
    PROVE  IInv'
  <1> USE DEF IInv
  <1>1. /\ UNCHANGED <<task, pc, delivery, life, choice, reply, routed, sent, deletions,
                       restarts, faults>>
        /\ \A k \in Messages \ {m} : ingress'[k] = ingress[k] /\ outcomes'[k] = outcomes[k] /\
                                     deletion'[k] = deletion[k]
        /\ deletion[m].pc = "listed" /\ deletion'[m].pc = "none"
        /\ ingress'[m].life = ingress[m].life
        /\ \/ ingress'[m] = ingress[m] /\ outcomes'[m] = outcomes[m]
           \/ ingress'[m].state = "absent" /\ outcomes'[m] = {} /\ DeletableRows(m)
    BY DEF DeleteRows, TypeOK, threads, bounds, NoIngress
  <1>2. TypeOK'
    <2>1. ingress' \in [Messages -> IngressRow]
      <3>1. \A n \in Lives : [NoIngress EXCEPT !.life = n] \in IngressRow
        BY DEF NoIngress, IngressRow, Fingerprint
      <3>2. ingress[m].life \in Lives /\ ingress \in [Messages -> IngressRow]
        BY DEF TypeOK, IngressRow
      <3>3. QED BY <3>1, <3>2 DEF DeleteRows
    <2>2. deletion' \in [Messages -> [pc : DeletePc, tasks : SUBSET Requests]]
      BY DEF DeleteRows, TypeOK, DeletePc
    <2>3. outcomes' \in [Messages -> SUBSET Outcomes]
      BY DEF DeleteRows, TypeOK
    <2>4. QED BY <1>1, <2>1, <2>2, <2>3 DEF TypeOK, IngressRow
  <1>3. \A q \in Requests : Msg(q)' = Msg(q) /\ (pc[q] # "idle" => Msg(q) \in Messages)
    BY <1>1 DEF Msg, ThreadInv, Deliveries
  <1>4. ThreadInv'
    BY <1>1, <1>3 DEF ThreadInv, Owner, Working, Over
  <1>5. OwnerInv'
    BY <1>1, <1>3 DEF OwnerInv, Owner, SameAdmission
  <1>6. RouteInv'
    BY <1>1, <1>3 DEF RouteInv, OwnsIngress
  <1>7. LifeInv' /\ DeletionInv'
    BY <1>1 DEF LifeInv, DeletionInv
  <1>8. LiveTaskIsKept'
    <2>1. ASSUME NEW q \in Requests, task[q] = "active"
          PROVE  Msg(q) \in Messages /\ outcomes'[Msg(q)] = outcomes[Msg(q)]
      <3>1. Msg(q) \in Messages /\ q \in TasksOf(Msg(q))
        BY <1>3, <2>1 DEF LiveTaskIsKept, ThreadInv, Over
      <3>2. CASE Msg(q) = m
        BY <1>1, <2>1, <3>1, <3>2 DEF DeletableRows, DeletionInv
      <3>3. QED BY <1>1, <3>1, <3>2
    <2>2. QED BY <1>1, <1>3, <2>1 DEF LiveTaskIsKept, TasksOf
  <1>9. StoredInv'
    <2>1. ASSUME NEW k \in Messages, ingress'[k] = ingress[k], outcomes'[k] = outcomes[k]
          PROVE  StoredAt(k)'
      BY <1>1, <2>1, StoredStays
    <2>2. ASSUME ingress'[m].state = "absent", outcomes'[m] = {}
          PROVE  StoredAt(m)'
      BY <2>2 DEF StoredAt
    <2>3. QED BY <1>1, <2>1, <2>2 DEF StoredInv
  <1>10. ReplyInv'
    <2>1. \A q \in Requests :
            reply[q].is \in {"result", "failed", "error"} => Msg(q) \in Messages
      BY <1>3 DEF ThreadInv, NoReply, Over
    <2>2. \A q, u \in Requests : SameAdmission(q, u)' <=> SameAdmission(q, u)
      BY <1>1, <1>3 DEF SameAdmission
    <2>3. \A u \in routed : u \in Requests
      BY DEF TypeOK
    <2>4. QED BY <1>1, <1>3, <2>1, <2>2, <2>3 DEF ReplyInv, ReplyAt
  <1>11. QED BY <1>2, <1>4, <1>5, <1>6, <1>7, <1>8, <1>9, <1>10

------------------------------------------------------------------------------
(***************************************************************************)
(* Theorems                                                                *)
(***************************************************************************)

LEMMA StepInv ==
    ASSUME IInv, Next
    PROVE  IInv'
  <1>1. ASSUME NEW r \in Requests, Thread(r)
        PROVE  IInv'
    BY <1>1, PrepareMessageRouteInv, DecideInv, RecordRouteInv, RespondInv,
       SendRemoteMessageInv, ResolveMessageInv, AcceptLocalTaskInv, StreamInv,
       RecordFailureInv DEF Thread
  <1>2. ASSUME NEW m \in Messages, Deleter(m)
        PROVE  IInv'
    BY <1>2, DeleteLooksInv, DeleteRowsInv DEF Deleter
  <1>3. QED BY <1>1, <1>2, ReceiveInv, TaskEndsInv, RestartInv DEF Next

\* Every reachable state of message admission satisfies the inductive invariant.
THEOREM InductiveInvariant == Spec => []IInv
  <1>1. Init => IInv
    BY InitInv
  <1>2. IInv /\ UNCHANGED vars => IInv'
    BY DEF vars, threads, bounds, IInv, TypeOK, ThreadInv, OwnerInv, RouteInv,
           LifeInv,
           DeletionInv, StoredInv, StoredAt, ReplyInv, ReplyAt, LiveTaskIsKept, Owner,
           OwnsIngress, SameAdmission, Msg, TasksOf
  <1>3. IInv /\ [Next]_vars => IInv'
    BY <1>2, StepInv
  <1>4. QED BY <1>1, <1>3, PTL DEF Spec

\* _prepare_message_route and the closing transactions of the routes admit a message
\* once: one delivery is routed, one outcome is stored, and it is the one the ingress
\* refers to, for any number of duplicates, aborts, restarts and deletions.
THEOREM MessageIsAdmittedOnce == Spec => []OneOutcomePerMessage
  <1>1. IInv => OneOutcomePerMessage
    BY InvImplies
  <1>2. QED BY <1>1, InductiveInvariant, PTL

\* No two clients of one message are told different things
\* (_prepared_existing_message_ingress, _record_message_ingress_failure).
THEOREM ClientsAgree == Spec => []RepliesAgree
  <1>1. IInv => RepliesAgree
    BY InvImplies
  <1>2. QED BY <1>1, InductiveInvariant, PTL

\* delete_terminal_context never removes a live Task, although it checks outside its
\* transaction.
THEOREM DeletionSparesLiveTasks == Spec => []LiveTaskIsKept
  <1>1. IInv => LiveTaskIsKept
    BY InvImplies
  <1>2. QED BY <1>1, InductiveInvariant, PTL

\* A settled ingress row is never turned around: resolve_message_ingress and
\* fail_message_ingress only touch a row in progress, and a resend only an absent one.
THEOREM SettledIngressStays == Spec => IngressIsFinal
  <1> DEFINE Final == \A m \in Messages :
               ingress[m].state \in {"resolved", "failed"}
                   => ingress'[m] = ingress[m] \/ ingress'[m].state = "absent"
  <1>1. ASSUME IInv, NEW r \in Requests, Receive(r) \/ Thread(r) \/ EndTask(r) \/ EndCallback(r)
        PROVE  Final
    <2>1. TypeOK
      BY <1>1 DEF IInv
    <2>2. CASE UNCHANGED ingress
      BY <2>2
    <2>3. CASE PrepareMessageRoute(r)
      BY <2>1, <2>3 DEF PrepareMessageRoute, Reserve, AnswerDuplicate, TypeOK
    <2>4. CASE RecordRoute(r)
      BY <2>1, <2>4 DEF RecordRoute, Raise, OwnsIngress, TypeOK
    <2>5. CASE ResolveMessage(r)
      BY <2>1, <2>5 DEF ResolveMessage, ResolveIngress, Raise, OwnsIngress, TypeOK
    <2>6. CASE AcceptLocalTask(r)
      BY <2>1, <2>6 DEF AcceptLocalTask, ResolveIngress, Raise, OwnsIngress, TypeOK
    <2>7. CASE RecordFailure(r)
      BY <2>1, <2>7 DEF RecordFailure, FailIngress, TypeOK
    <2>8. QED
      BY <1>1, <2>2, <2>3, <2>4, <2>5, <2>6, <2>7
         DEF Thread, Receive, Decide, Respond, SendRemoteMessage, FinishStream, AbortStream,
             EndTask, EndCallback
  <1>2. ASSUME IInv, NEW k \in Messages, Deleter(k)
        PROVE  Final
    BY <1>2 DEF Deleter, DeleteCheck, DeleteList, DeleteRows, IInv, TypeOK, NoIngress
  <1>3. ASSUME IInv, Restart
        PROVE  Final
    BY <1>3 DEF Restart, IInv, TypeOK
  <1>4. IInv /\ [Next]_vars => [Final]_vars
    BY <1>1, <1>2, <1>3 DEF Next
  <1>5. QED BY <1>4, InductiveInvariant, PTL DEF Spec, IngressIsFinal
==============================================================================
