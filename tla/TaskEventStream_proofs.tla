----------------------- MODULE TaskEventStream_proofs -----------------------
(***************************************************************************)
(* Proofs about the event streams: no stream sleeps on an event whose      *)
(* notification has run, and a client receives the projected events in     *)
(* order, without gap or repetition, over any number of connections, for   *)
(* any number of streams and events.                                       *)
(***************************************************************************)
EXTENDS TaskEventStream, SequenceTheorems, TLAPS

(***************************************************************************)
(* The inductive invariant                                                 *)
(***************************************************************************)

\* Every committed event is notified once: it was, or it is still pending.
NotifierInv == version + pending = Len(log)

\* The version a stream waits on was current when the stream last read the log, so
\* its cursor covers every event that had been notified by then.
Wake(s) ==
    /\ pc[s] \in {"relist", "check"} => observed[s] <= version
    /\ pc[s] \in {"check", "asleep"} => observed[s] <= cursor[s]
    /\ pc[s] = "asleep" => version <= observed[s]

\* Cursor and mark are positions of the log; the projected events between the last one
\* of the client and the cursor are exactly the batch, unless the connection was lost.
Position(s) ==
    /\ cursor[s] <= Len(log)
    /\ mark[s] <= Len(log)
    /\ LastGot(s) \in 0 .. cursor[s]
    /\ pc[s] # "gone"
         => batch[s] = {i \in 1 .. cursor[s] : i > LastGot(s) /\ Visible(log[i])}
    /\ pc[s] \notin {"send", "flush", "gone"} => batch[s] = {}

\* What a client received is a prefix of the projected events.
Received(s) ==
    /\ \A j, k \in DOMAIN got[s] : j < k => got[s][j] < got[s][k]
    /\ ToSet(got[s]) = {i \in 1 .. LastGot(s) : Visible(log[i])}

\* The trailing batch reaches the events that were there when the end state was read.
Trailing(s) ==
    pc[s] = "flush" \/ (pc[s] = "stopped" /\ faults = 0) => mark[s] <= cursor[s]

StreamInv(s) == Wake(s) /\ Position(s) /\ Received(s) /\ Trailing(s)

IInv ==
    /\ TypeOK
    /\ NotifierInv
    /\ \A s \in Streams : StreamInv(s)

-----------------------------------------------------------------------------
(***************************************************************************)
(* Sequences                                                               *)
(***************************************************************************)

\* What a client has after one more event.
LEMMA OneMore ==
    ASSUME NEW S, NEW q \in Seq(S), NEW e \in S
    PROVE  /\ Append(q, e) \in Seq(S)
           /\ Append(q, e) # <<>>
           /\ Last(Append(q, e)) = e
           /\ DOMAIN Append(q, e) = 1 .. Len(q) + 1
           /\ \A j \in 1 .. Len(q) : Append(q, e)[j] = q[j]
           /\ Append(q, e)[Len(q) + 1] = e
           /\ ToSet(Append(q, e)) = ToSet(q) \cup {e}
<1>1. /\ Append(q, e) \in Seq(S)
      /\ Append(q, e) # <<>>
      /\ Len(Append(q, e)) = Len(q) + 1
      /\ \A j \in 1 .. Len(q) : Append(q, e)[j] = q[j]
      /\ Append(q, e)[Len(q) + 1] = e
  BY AppendProperties
<1>2. Len(q) \in Nat /\ DOMAIN q = 1 .. Len(q) /\ DOMAIN Append(q, e) = 1 .. Len(q) + 1
  BY <1>1, LenProperties
<1>3. Last(Append(q, e)) = e
  BY <1>1 DEF Last
<1>4. ToSet(Append(q, e)) = ToSet(q) \cup {e}
  <2>1. ASSUME NEW x \in ToSet(Append(q, e)) PROVE x \in ToSet(q) \cup {e}
    BY <1>1, <1>2, <2>1 DEF ToSet
  <2>2. ASSUME NEW x \in ToSet(q) PROVE x \in ToSet(Append(q, e))
    BY <1>1, <1>2, <2>2 DEF ToSet
  <2>3. e \in ToSet(Append(q, e))
    BY <1>1, <1>2 DEF ToSet
  <2> QED
    BY <2>1, <2>2, <2>3
<1> QED
  BY <1>1, <1>2, <1>3, <1>4

\* What a client has is a sequence of positions, and the last of them is one of them.
LEMMA LastIsReceived ==
    ASSUME TypeOK, NEW s \in Streams
    PROVE  /\ Len(got[s]) \in Nat
           /\ DOMAIN got[s] = 1 .. Len(got[s])
           /\ got[s] = <<>> => LastGot(s) = 0
           /\ got[s] # <<>> => /\ Len(got[s]) > 0
                               /\ LastGot(s) = got[s][Len(got[s])]
                               /\ LastGot(s) \in 1 .. MaxEvents
           /\ LastGot(s) \in Nat
<1>1. got[s] \in Seq(1 .. MaxEvents)
  BY DEF TypeOK
<1>2. Len(got[s]) \in Nat /\ DOMAIN got[s] = 1 .. Len(got[s])
  BY <1>1, LenProperties
<1>3. CASE got[s] = <<>>
  BY <1>2, <1>3 DEF LastGot
<1>4. CASE got[s] # <<>>
  <2>1. Len(got[s]) > 0
    BY <1>1, <1>2, <1>4, EmptySeq
  <2>2. LastGot(s) = got[s][Len(got[s])]
    BY <1>4 DEF LastGot, Last
  <2>3. got[s][Len(got[s])] \in 1 .. MaxEvents
    <3>1. Len(got[s]) \in 1 .. Len(got[s])
      BY <1>2, <2>1
    <3> QED
      BY <1>1, <3>1, ElementOfSeq
  <2> QED
    BY <1>2, <1>4, <2>1, <2>2, <2>3, StreamAssumption
<1> QED
  BY <1>3, <1>4

-----------------------------------------------------------------------------
(***************************************************************************)
(* The streams a step leaves alone                                         *)
(***************************************************************************)

\* The log only grows.
Grows ==
    /\ Len(log') \in Nat
    /\ Len(log) <= Len(log')
    /\ \A i \in 1 .. Len(log) : log'[i] = log[i]

\* A step that lets the log grow, counts faults up and does not touch stream t, keeps
\* what the invariant says of it.
LEMMA Untouched ==
    ASSUME IInv, NEW t \in Streams, Grows,
           version' = version,
           pc'[t] = pc[t], cursor'[t] = cursor[t], observed'[t] = observed[t],
           batch'[t] = batch[t], got'[t] = got[t], mark'[t] = mark[t],
           faults' = 0 => faults = 0
    PROVE  StreamInv(t)'
<1>1. LastGot(t)' = LastGot(t)
  BY DEF LastGot
<1>2. /\ cursor[t] \in Nat
      /\ mark[t] \in Nat
      /\ Len(log) \in Nat
      /\ LastGot(t) \in Nat
      /\ batch[t] \subseteq 1 .. MaxEvents
  BY LastIsReceived, LenProperties, StreamAssumption DEF IInv, TypeOK
<1>3. StreamInv(t)
  BY DEF IInv
<1>4. Wake(t)'
  BY <1>3 DEF StreamInv, Wake
<1>5. Position(t)'
  <2>1. /\ cursor[t] <= Len(log)
        /\ mark[t] <= Len(log)
        /\ LastGot(t) \in 0 .. cursor[t]
        /\ pc[t] \notin {"send", "flush", "gone"} => batch[t] = {}
    BY <1>3 DEF StreamInv, Position
  <2>2. ASSUME NEW i \in 1 .. cursor[t] PROVE Visible(log'[i]) <=> Visible(log[i])
    <3>1. i \in 1 .. Len(log)
      BY <1>2, <2>1
    <3> QED
      BY <3>1 DEF Grows, Visible
  <2>3. pc[t] # "gone"
          => batch[t] = {i \in 1 .. cursor[t] : i > LastGot(t) /\ Visible(log[i])}
    BY <1>3 DEF StreamInv, Position
  <2>4. pc[t] # "gone"
          => batch[t] = {i \in 1 .. cursor[t] : i > LastGot(t) /\ Visible(log'[i])}
    BY <2>2, <2>3
  <2> QED
    BY <1>1, <1>2, <2>1, <2>4 DEF Position, Grows, Visible
<1>6. Received(t)'
  <2>1. /\ \A j, k \in DOMAIN got[t] : j < k => got[t][j] < got[t][k]
        /\ ToSet(got[t]) = {i \in 1 .. LastGot(t) : Visible(log[i])}
        /\ LastGot(t) <= Len(log)
    BY <1>2, <1>3 DEF StreamInv, Position, Received
  <2>2. ASSUME NEW i \in 1 .. LastGot(t) PROVE Visible(log'[i]) <=> Visible(log[i])
    <3>1. i \in 1 .. Len(log)
      BY <1>2, <2>1
    <3> QED
      BY <3>1 DEF Grows, Visible
  <2>3. ToSet(got[t]) = {i \in 1 .. LastGot(t) : Visible(log'[i])}
    BY <2>1, <2>2
  <2> QED
    BY <1>1, <2>1, <2>3 DEF Received, ToSet, Visible
<1>7. Trailing(t)'
  BY <1>3 DEF StreamInv, Trailing
<1> QED
  BY <1>4, <1>5, <1>6, <1>7 DEF StreamInv
-----------------------------------------------------------------------------
(***************************************************************************)
(* The invariant holds initially                                           *)
(***************************************************************************)

LEMMA InitHolds == Init => IInv
<1> SUFFICES ASSUME Init PROVE IInv
  OBVIOUS
<1>1. TypeOK
  <2>1. log \in Seq(Event) /\ Len(log) = 2
    BY DEF Init, Event, TaskStatus
  <2>2. got \in [Streams -> Seq(1 .. MaxEvents)]
    BY EmptySeq DEF Init
  <2>3. /\ status \in TaskStatus
        /\ pending \in 0 .. MaxEvents
        /\ version \in 0 .. MaxEvents
        /\ Len(log) <= MaxEvents
    BY <2>1, StreamAssumption DEF Init, TaskStatus
  <2>4. /\ pc \in [Streams -> StreamPc]
        /\ kind \in [Streams -> {"message", "resubscribe"}]
        /\ cursor \in [Streams -> 0 .. MaxEvents]
        /\ observed \in [Streams -> 0 .. MaxEvents]
        /\ batch \in [Streams -> SUBSET (1 .. MaxEvents)]
        /\ ended \in [Streams -> BOOLEAN]
        /\ mark \in [Streams -> 0 .. MaxEvents]
        /\ drops \in 0 .. MaxDrops
        /\ faults \in 0 .. MaxFaults
    BY StreamAssumption DEF Init, StreamPc
  <2> QED
    BY <2>1, <2>2, <2>3, <2>4 DEF TypeOK
<1>2. Len(log) = 2 /\ NotifierInv
  BY DEF Init, NotifierInv
<1>3. ASSUME NEW s \in Streams PROVE StreamInv(s)
  <2>1. LastGot(s) = 0 /\ got[s] = <<>> /\ DOMAIN got[s] = {} /\ ToSet(got[s]) = {}
    <3>1. got[s] = <<>>
      BY DEF Init
    <3>2. Len(got[s]) = 0 /\ DOMAIN got[s] = 1 .. 0
      BY <3>1
    <3> QED
      BY <3>1, <3>2 DEF LastGot, ToSet
  <2>2. /\ pc[s] = "list"
        /\ cursor[s] = 0
        /\ batch[s] = {}
        /\ mark[s] = 0
    BY DEF Init
  <2> QED
    BY <1>2, <2>1, <2>2 DEF StreamInv, Wake, Position, Received, Trailing
<1> QED
  BY <1>1, <1>2, <1>3 DEF IInv

-----------------------------------------------------------------------------
(***************************************************************************)
(* Writers and the notifier                                                *)
(***************************************************************************)

\* What every transaction of a writer does to the log.
LEMMA Committed ==
    ASSUME IInv, Writer
    PROVE  /\ status' \in TaskStatus
           /\ log' \in Seq(Event)
           /\ Len(log') <= MaxEvents
           /\ Grows
           /\ pending' = pending + (Len(log') - Len(log))
           /\ UNCHANGED <<version, stream, drops, faults>>
<1>1. PICK events \in Seq(Event) : status' \in TaskStatus /\ AppendEvents(events)
  <2>1. CASE Transition
    <3>0. PICK target \in TaskStatus : \E first \in Companions(target) :
              status' = target /\ AppendEvents(first \o <<target>>)
      BY <2>1 DEF Transition
    <3>1. PICK first \in Companions(target) :
              status' = target /\ AppendEvents(first \o <<target>>)
      BY <3>0
    <3>2. first \in Seq(Event) /\ <<target>> \in Seq(Event)
      <4>1. first \in {<<>>, <<"audit">>, <<"artifact">>}
        BY DEF Companions
      <4>2. "audit" \in Event /\ "artifact" \in Event /\ target \in Event
        BY DEF Event
      <4>3. /\ <<>> \in Seq(Event)
            /\ <<"audit">> \in Seq(Event)
            /\ <<"artifact">> \in Seq(Event)
            /\ <<target>> \in Seq(Event)
        BY <4>2
      <4> QED
        BY <4>1, <4>3
    <3>3. first \o <<target>> \in Seq(Event)
      BY <3>2, ConcatProperties
    <3> QED
      BY <3>1, <3>3
  <2>2. CASE StoreArtifact
    <3>1. <<"artifact">> \in Seq(Event)
      BY DEF Event
    <3>2. status' \in TaskStatus
      BY <2>2 DEF StoreArtifact, IInv, TypeOK
    <3> QED
      BY <2>2, <3>1, <3>2 DEF StoreArtifact
  <2> QED
    BY <2>1, <2>2 DEF Writer
<1>2. log \in Seq(Event)
  BY DEF IInv, TypeOK
<1>3. log' = log \o events
  BY <1>1 DEF AppendEvents
<1>4. /\ log' \in Seq(Event)
      /\ Len(log') = Len(log) + Len(events)
      /\ \A i \in 1 .. Len(log) + Len(events) :
           log'[i] = IF i <= Len(log) THEN log[i] ELSE events[i - Len(log)]
  BY <1>1, <1>2, <1>3, ConcatProperties
<1>5. Len(log) \in Nat /\ Len(events) \in Nat
  BY <1>1, <1>2, LenProperties
<1>6. Grows
  BY <1>4, <1>5 DEF Grows
<1>7. /\ Len(log') <= MaxEvents
      /\ pending' = pending + (Len(log') - Len(log))
  BY <1>1, <1>4, <1>5 DEF AppendEvents
<1> QED
  BY <1>1, <1>4, <1>6, <1>7 DEF AppendEvents

LEMMA WriterKeeps == IInv /\ Writer => IInv'
<1> SUFFICES ASSUME IInv, Writer PROVE IInv'
  OBVIOUS
<1>1. /\ status' \in TaskStatus
      /\ log' \in Seq(Event)
      /\ Len(log') <= MaxEvents
      /\ Grows
      /\ pending' = pending + (Len(log') - Len(log))
      /\ UNCHANGED <<version, stream, drops, faults>>
  BY Committed
<1>2. /\ version + pending = Len(log)
      /\ version \in Nat
      /\ pending \in Nat
      /\ Len(log) \in Nat
      /\ Len(log') \in Nat
  BY <1>1, LenProperties, StreamAssumption DEF IInv, TypeOK, NotifierInv
<1>3. NotifierInv'
  BY <1>1, <1>2 DEF NotifierInv
<1>4. TypeOK'
  <2>1. pending' \in 0 .. MaxEvents
    BY <1>1, <1>2, StreamAssumption DEF Grows
  <2> QED
    BY <1>1, <2>1 DEF IInv, TypeOK, stream
<1>5. ASSUME NEW t \in Streams PROVE StreamInv(t)'
  BY <1>1, Untouched DEF stream
<1> QED
  BY <1>3, <1>4, <1>5 DEF IInv

LEMMA NotifyKeeps == IInv /\ Notify => IInv'
<1> SUFFICES ASSUME IInv, Notify PROVE IInv'
  OBVIOUS
<1>1. /\ version + pending = Len(log)
      /\ version \in Nat
      /\ pending \in Nat
      /\ Len(log) \in Nat
      /\ Len(log) <= MaxEvents
      /\ MaxEvents \in Nat
  BY LenProperties, StreamAssumption DEF IInv, TypeOK, NotifierInv
<1>2. /\ pending > 0
      /\ pending' = pending - 1
      /\ version' = version + 1
      /\ pc' = [s \in Streams |-> IF pc[s] = "asleep" THEN "relist" ELSE pc[s]]
      /\ observed' = [s \in Streams |->
                        IF pc[s] = "asleep" THEN version + 1 ELSE observed[s]]
      /\ UNCHANGED <<status, log, kind, cursor, batch, got, ended, mark, drops, faults>>
  BY DEF Notify
<1>3. NotifierInv'
  BY <1>1, <1>2 DEF NotifierInv
<1>4. TypeOK'
  <2>1. pending' \in 0 .. MaxEvents /\ version' \in 0 .. MaxEvents
    BY <1>1, <1>2
  <2>2. pc' \in [Streams -> StreamPc]
    BY <1>2 DEF IInv, TypeOK, StreamPc
  <2>3. observed' \in [Streams -> 0 .. MaxEvents]
    <3>1. observed \in [Streams -> 0 .. MaxEvents] /\ version + 1 \in 0 .. MaxEvents
      BY <1>2, <2>1 DEF IInv, TypeOK
    <3> QED
      BY <1>2, <3>1
  <2> QED
    BY <1>2, <2>1, <2>2, <2>3 DEF IInv, TypeOK
<1>5. ASSUME NEW t \in Streams PROVE StreamInv(t)'
  <2>1. StreamInv(t)
    BY DEF IInv
  <2>2. LastGot(t)' = LastGot(t)
    BY <1>2 DEF LastGot
  <2>3. cursor[t] \in Nat /\ observed[t] \in Nat
    BY StreamAssumption DEF IInv, TypeOK
  <2>4. \/ pc[t] = "asleep" /\ pc'[t] = "relist" /\ observed'[t] = version'
        \/ pc[t] # "asleep" /\ pc'[t] = pc[t] /\ observed'[t] = observed[t]
    BY <1>2
  <2>5. Wake(t)'
    BY <1>1, <1>2, <2>1, <2>3, <2>4 DEF StreamInv, Wake
  <2>6. Position(t)'
    BY <1>2, <2>1, <2>2, <2>4 DEF StreamInv, Position
  <2>7. Received(t)'
    BY <1>2, <2>1, <2>2 DEF StreamInv, Received
  <2>8. Trailing(t)'
    BY <1>2, <2>1, <2>4 DEF StreamInv, Trailing
  <2> QED
    BY <2>5, <2>6, <2>7, <2>8 DEF StreamInv
<1> QED
  BY <1>3, <1>4, <1>5 DEF IInv
-----------------------------------------------------------------------------
(***************************************************************************)
(* The steps of a stream                                                   *)
(***************************************************************************)

\* A step of stream s changes neither the Task nor another stream.
StepOf(s) ==
    /\ UNCHANGED task
    /\ drops' \in 0 .. MaxDrops
    /\ faults' \in 0 .. MaxFaults
    /\ faults' = 0 => faults = 0
    /\ \A t \in Streams \ {s} :
         /\ pc'[t] = pc[t]
         /\ cursor'[t] = cursor[t]
         /\ observed'[t] = observed[t]
         /\ batch'[t] = batch[t]
         /\ got'[t] = got[t]
         /\ mark'[t] = mark[t]

\* It is enough to look at the stream that moves.
LEMMA OneStreamMoves ==
    ASSUME IInv, NEW s \in Streams, StepOf(s),
           pc' \in [Streams -> StreamPc],
           kind' \in [Streams -> {"message", "resubscribe"}],
           cursor' \in [Streams -> 0 .. MaxEvents],
           observed' \in [Streams -> 0 .. MaxEvents],
           batch' \in [Streams -> SUBSET (1 .. MaxEvents)],
           got' \in [Streams -> Seq(1 .. MaxEvents)],
           ended' \in [Streams -> BOOLEAN],
           mark' \in [Streams -> 0 .. MaxEvents],
           StreamInv(s)'
    PROVE  IInv'
<1>1. UNCHANGED <<status, log, pending, version>>
  BY DEF StepOf, task
<1>2. TypeOK'
  BY <1>1 DEF StepOf, IInv, TypeOK
<1>3. NotifierInv'
  BY <1>1 DEF IInv, NotifierInv
<1>4. Grows
  BY <1>1, LenProperties DEF Grows, IInv, TypeOK
<1>5. ASSUME NEW t \in Streams PROVE StreamInv(t)'
  <2>1. CASE t = s
    BY <2>1
  <2>2. CASE t # s
    BY <1>1, <1>4, <2>2, Untouched DEF StepOf
  <2> QED
    BY <2>1, <2>2
<1> QED
  BY <1>2, <1>3, <1>5 DEF IInv

\* The facts about a stream that its steps start from.
LEMMA Known ==
    ASSUME IInv, NEW s \in Streams
    PROVE  /\ StreamInv(s)
           /\ cursor[s] \in Nat /\ cursor[s] <= Len(log)
           /\ observed[s] \in Nat
           /\ mark[s] \in Nat /\ mark[s] <= Len(log)
           /\ LastGot(s) \in Nat /\ LastGot(s) <= cursor[s]
           /\ Len(log) \in Nat /\ Len(log) <= MaxEvents /\ MaxEvents \in Nat
           /\ version \in Nat /\ version <= Len(log)
<1>1. StreamInv(s) /\ TypeOK /\ NotifierInv
  BY DEF IInv
<1>2. /\ cursor[s] \in 0 .. MaxEvents
      /\ observed[s] \in 0 .. MaxEvents
      /\ mark[s] \in 0 .. MaxEvents
      /\ Len(log) \in Nat
      /\ Len(log) <= MaxEvents
      /\ version \in 0 .. MaxEvents
      /\ pending \in 0 .. MaxEvents
  BY <1>1, LenProperties DEF TypeOK
<1>3. LastGot(s) \in Nat
  BY <1>1, LastIsReceived
<1>4. cursor[s] <= Len(log) /\ mark[s] <= Len(log) /\ LastGot(s) \in 0 .. cursor[s]
  BY <1>1 DEF StreamInv, Position
<1> QED
  BY <1>1, <1>2, <1>3, <1>4, StreamAssumption DEF NotifierInv

\* Reading the log after the cursor makes the batch what the client lacks.
LEMMA TakeReads ==
    ASSUME IInv, NEW s \in Streams, pc[s] \in {"list", "relist", "trailing"},
           NEW p \in {"send", "flush"},
           Take(s, NewEvents(s)), Goto(s, p),
           UNCHANGED <<task, kind, observed, got, ended, mark, drops, faults>>
    PROVE  IInv'
<1>1. /\ batch' = [batch EXCEPT ![s] = {i \in cursor[s] + 1 .. Len(log) : Visible(log[i])}]
      /\ cursor' = [cursor EXCEPT ![s] = Len(log)]
      /\ pc' = [pc EXCEPT ![s] = p]
  BY DEF Take, NewEvents, Goto
<1>2. /\ cursor[s] \in Nat /\ cursor[s] <= Len(log)
      /\ mark[s] \in Nat /\ mark[s] <= Len(log)
      /\ LastGot(s) \in Nat /\ LastGot(s) <= cursor[s]
      /\ Len(log) \in Nat /\ Len(log) <= MaxEvents /\ MaxEvents \in Nat
      /\ StreamInv(s)
  BY Known
<1>3. /\ pc' \in [Streams -> StreamPc]
      /\ cursor' \in [Streams -> 0 .. MaxEvents]
  BY <1>1, <1>2 DEF IInv, TypeOK, StreamPc
<1>4. /\ pc'[s] = p
      /\ cursor'[s] = Len(log)
      /\ mark'[s] = mark[s]
      /\ log' = log
      /\ LastGot(s)' = LastGot(s)
    BY <1>1 DEF IInv, TypeOK, LastGot, task
<1>5. batch'[s] = {i \in cursor[s] + 1 .. Len(log) : Visible(log[i])}
  BY <1>1 DEF IInv, TypeOK
<1>6. StepOf(s)
  BY <1>1 DEF StepOf, IInv, TypeOK
<1>7. Wake(s)'
  BY <1>4 DEF Wake
<1>8. Position(s)'
  <2>1. {i \in 1 .. cursor[s] : i > LastGot(s) /\ Visible(log[i])} = {}
    BY <1>2 DEF StreamInv, Position
  <2>2. batch'[s] = {i \in 1 .. Len(log) : i > LastGot(s) /\ Visible(log[i])}
    <3>1. ASSUME NEW i \in cursor[s] + 1 .. Len(log)
          PROVE  i \in 1 .. Len(log) /\ i > LastGot(s)
      BY <1>2
    <3>2. ASSUME NEW i \in 1 .. Len(log), i > LastGot(s), Visible(log[i])
          PROVE  i \in cursor[s] + 1 .. Len(log)
      BY <1>2, <2>1, <3>2
    <3> QED
      BY <1>5, <3>1, <3>2
  <2> QED
    BY <1>2, <1>4, <2>2 DEF Position
<1>9. Received(s)'
  BY <1>2, <1>4 DEF StreamInv, Received
<1>10. Trailing(s)'
  BY <1>2, <1>4 DEF Trailing
<1>11. StreamInv(s)'
  BY <1>7, <1>8, <1>9, <1>10 DEF StreamInv
<1>12. batch' \in [Streams -> SUBSET (1 .. MaxEvents)]
  <2>1. {i \in cursor[s] + 1 .. Len(log) : Visible(log[i])} \in SUBSET (1 .. MaxEvents)
    BY <1>2
  <2> QED
    BY <1>1, <2>1 DEF IInv, TypeOK
<1>13. /\ kind' \in [Streams -> {"message", "resubscribe"}]
       /\ observed' \in [Streams -> 0 .. MaxEvents]
       /\ got' \in [Streams -> Seq(1 .. MaxEvents)]
       /\ ended' \in [Streams -> BOOLEAN]
       /\ mark' \in [Streams -> 0 .. MaxEvents]
  BY DEF IInv, TypeOK
<1> QED
  BY <1>3, <1>6, <1>11, <1>12, <1>13, OneStreamMoves
\* A step that moves a stream whose batch is empty, or that loses its connection.
LEMMA Moves ==
    ASSUME IInv, NEW s \in Streams, NEW p \in StreamPc, Goto(s, p),
           \/ p = "gone"
           \/ pc[s] # "gone" /\ batch[s] = {},
           observed' \in [Streams -> 0 .. MaxEvents],
           \A t \in Streams \ {s} : observed'[t] = observed[t],
           mark' \in [Streams -> 0 .. MaxEvents],
           \A t \in Streams \ {s} : mark'[t] = mark[t],
           mark'[s] <= Len(log),
           UNCHANGED <<task, kind, cursor, batch, got, ended>>,
           drops' \in 0 .. MaxDrops,
           faults' \in 0 .. MaxFaults,
           faults' = 0 => faults = 0,
           Wake(s)', Trailing(s)'
    PROVE  IInv'
<1>1. pc' = [pc EXCEPT ![s] = p] /\ log' = log
  BY DEF Goto, task
<1>2. pc' \in [Streams -> StreamPc] /\ pc'[s] = p
  BY <1>1 DEF IInv, TypeOK
<1>3. StepOf(s)
  BY <1>1 DEF StepOf, IInv, TypeOK
<1>4. LastGot(s)' = LastGot(s)
  BY DEF LastGot
<1>5. StreamInv(s)
  BY DEF IInv
<1>6. Position(s)'
  <2>1. CASE p = "gone"
    BY <1>1, <1>2, <1>4, <1>5, <2>1 DEF StreamInv, Position
  <2>2. CASE p # "gone"
    BY <1>1, <1>2, <1>4, <1>5, <2>2 DEF StreamInv, Position
  <2> QED
    BY <2>1, <2>2
<1>7. Received(s)'
  BY <1>1, <1>4, <1>5 DEF StreamInv, Received
<1>8. StreamInv(s)'
  BY <1>6, <1>7 DEF StreamInv
<1>9. /\ kind' \in [Streams -> {"message", "resubscribe"}]
      /\ cursor' \in [Streams -> 0 .. MaxEvents]
      /\ batch' \in [Streams -> SUBSET (1 .. MaxEvents)]
      /\ got' \in [Streams -> Seq(1 .. MaxEvents)]
      /\ ended' \in [Streams -> BOOLEAN]
  BY DEF IInv, TypeOK
<1> QED
  BY <1>2, <1>3, <1>8, <1>9, OneStreamMoves

\* The steps that leave the observed version and the mark alone.
LEMMA OnlyMoves ==
    ASSUME IInv, NEW s \in Streams, NEW p \in StreamPc, Goto(s, p),
           \/ p = "gone"
           \/ pc[s] # "gone" /\ batch[s] = {},
           UNCHANGED <<task, kind, cursor, observed, batch, got, ended, mark>>,
           drops' \in 0 .. MaxDrops,
           faults' \in 0 .. MaxFaults,
           faults' = 0 => faults = 0,
           Wake(s)', Trailing(s)'
    PROVE  IInv'
<1>1. /\ observed' \in [Streams -> 0 .. MaxEvents]
      /\ mark' \in [Streams -> 0 .. MaxEvents]
  BY DEF IInv, TypeOK
<1>2. mark'[s] <= Len(log)
  BY Known
<1> QED
  BY <1>1, <1>2, Moves

\* Outside send, flush and gone nothing is left to send.
LEMMA NothingLeft ==
    ASSUME IInv, NEW s \in Streams, pc[s] \notin {"send", "flush", "gone"}
    PROVE  batch[s] = {}
BY DEF IInv, StreamInv, Position

LEMMA Counters ==
    ASSUME IInv, UNCHANGED <<drops, faults>>
    PROVE  drops' \in 0 .. MaxDrops /\ faults' \in 0 .. MaxFaults /\ (faults' = 0 => faults = 0)
BY DEF IInv, TypeOK

LEMMA FirstListKeeps == ASSUME NEW s \in Streams PROVE IInv /\ FirstList(s) => IInv'
<1> SUFFICES ASSUME IInv, FirstList(s) PROVE IInv'
  OBVIOUS
<1>1. pc[s] = "list" /\ UNCHANGED <<task, kind, observed, got, ended, mark, drops, faults>>
  BY DEF FirstList
<1>2. CASE Take(s, NewEvents(s)) /\ Goto(s, "send")
  BY <1>1, <1>2, TakeReads
<1>3. CASE Goto(s, "observe") /\ UNCHANGED <<batch, cursor>>
  <2>1. pc'[s] = "observe"
    BY <1>3 DEF Goto, IInv, TypeOK
  <2>2. Wake(s)' /\ Trailing(s)'
    BY <2>1 DEF Wake, Trailing
  <2>3. "observe" \in StreamPc
    BY DEF StreamPc
  <2>4. batch[s] = {}
    BY <1>1, NothingLeft
  <2> QED
    BY <1>1, <1>3, <2>2, <2>3, <2>4, Counters, OnlyMoves
<1> QED
  BY <1>2, <1>3 DEF FirstList

LEMMA ObserveKeeps == ASSUME NEW s \in Streams PROVE IInv /\ Observe(s) => IInv'
<1> SUFFICES ASSUME IInv, Observe(s) PROVE IInv'
  OBVIOUS
<1>1. /\ pc[s] = "observe"
      /\ observed' = [observed EXCEPT ![s] = version]
      /\ Goto(s, "relist")
      /\ UNCHANGED <<task, kind, cursor, batch, got, ended, mark, drops, faults>>
  BY DEF Observe
<1>2. /\ pc'[s] = "relist"
      /\ observed'[s] = version
      /\ observed' \in [Streams -> 0 .. MaxEvents]
      /\ mark' \in [Streams -> 0 .. MaxEvents]
      /\ \A t \in Streams \ {s} : observed'[t] = observed[t]
  BY <1>1 DEF Goto, IInv, TypeOK
<1>3. version' = version /\ version \in Nat /\ mark'[s] <= Len(log)
  BY <1>1, Known DEF task
<1>4. Wake(s)' /\ Trailing(s)'
  BY <1>2, <1>3 DEF Wake, Trailing
<1>5. "relist" \in StreamPc
  BY DEF StreamPc
<1>6. batch[s] = {}
  BY <1>1, NothingLeft
<1> QED
  BY <1>1, <1>2, <1>3, <1>4, <1>5, <1>6, Counters, Moves

LEMMA RelistKeeps == ASSUME NEW s \in Streams PROVE IInv /\ Relist(s) => IInv'
<1> SUFFICES ASSUME IInv, Relist(s) PROVE IInv'
  OBVIOUS
<1>1. pc[s] = "relist" /\ UNCHANGED <<task, kind, observed, got, ended, mark, drops, faults>>
  BY DEF Relist
<1>2. CASE Take(s, NewEvents(s)) /\ Goto(s, "send")
  BY <1>1, <1>2, TakeReads
<1>3. CASE Len(log) = cursor[s] /\ Goto(s, "check") /\ UNCHANGED <<batch, cursor>>
  <2>1. pc'[s] = "check"
    BY <1>3 DEF Goto, IInv, TypeOK
  <2>2. /\ observed[s] \in Nat
        /\ version \in Nat
        /\ Len(log) \in Nat
        /\ version <= Len(log)
        /\ observed[s] <= version
    BY <1>1, Known DEF StreamInv, Wake
  <2>3. version' = version
    BY <1>1 DEF task
  <2>4. Wake(s)' /\ Trailing(s)'
    BY <1>1, <1>3, <2>1, <2>2, <2>3 DEF Wake, Trailing
  <2>5. "check" \in StreamPc
    BY DEF StreamPc
  <2>6. batch[s] = {}
    BY <1>1, NothingLeft
  <2> QED
    BY <1>1, <1>3, <2>4, <2>5, <2>6, Counters, OnlyMoves
<1> QED
  BY <1>2, <1>3 DEF Relist

LEMMA WaitForChangeKeeps ==
    ASSUME NEW s \in Streams PROVE IInv /\ WaitForChange(s) => IInv'
<1> SUFFICES ASSUME IInv, WaitForChange(s) PROVE IInv'
  OBVIOUS
<1>1. /\ pc[s] = "check"
      /\ UNCHANGED <<task, kind, cursor, batch, got, ended, mark, drops, faults>>
      /\ version' = version
  BY DEF WaitForChange, task
<1>2. /\ batch[s] = {}
      /\ "asleep" \in StreamPc
      /\ "relist" \in StreamPc
  BY <1>1, NothingLeft DEF StreamPc
<1>3. /\ observed[s] \in Nat
      /\ version \in Nat
      /\ observed[s] <= version
      /\ observed[s] <= cursor[s]
      /\ mark'[s] <= Len(log)
  BY <1>1, Known DEF StreamInv, Wake
<1>4. CASE version <= observed[s] /\ Goto(s, "asleep") /\ UNCHANGED observed
  <2>1. pc'[s] = "asleep"
    BY <1>4 DEF Goto, IInv, TypeOK
  <2>2. Wake(s)' /\ Trailing(s)'
    BY <1>1, <1>3, <1>4, <2>1 DEF Wake, Trailing
  <2> QED
    BY <1>1, <1>2, <1>4, <2>2, Counters, OnlyMoves
<1>5. CASE Goto(s, "relist") /\ observed' = [observed EXCEPT ![s] = version]
  <2>1. /\ pc'[s] = "relist"
        /\ observed'[s] = version
        /\ observed' \in [Streams -> 0 .. MaxEvents]
        /\ mark' \in [Streams -> 0 .. MaxEvents]
        /\ \A t \in Streams \ {s} : observed'[t] = observed[t]
    BY <1>1, <1>5 DEF Goto, IInv, TypeOK
  <2>2. Wake(s)' /\ Trailing(s)'
    BY <1>1, <1>3, <2>1 DEF Wake, Trailing
  <2> QED
    BY <1>1, <1>2, <1>3, <1>5, <2>1, <2>2, Counters, Moves
<1> QED
  BY <1>4, <1>5 DEF WaitForChange

LEMMA TimeoutKeeps == ASSUME NEW s \in Streams PROVE IInv /\ Timeout(s) => IInv'
<1> SUFFICES ASSUME IInv, Timeout(s) PROVE IInv'
  OBVIOUS
<1>1. /\ pc[s] = "asleep"
      /\ Goto(s, "status")
      /\ UNCHANGED <<task, kind, cursor, observed, batch, got, ended, mark, drops, faults>>
  BY DEF Timeout
<1>2. pc'[s] = "status"
  BY <1>1 DEF Goto, IInv, TypeOK
<1>3. Wake(s)' /\ Trailing(s)'
  BY <1>2 DEF Wake, Trailing
<1>4. batch[s] = {} /\ "status" \in StreamPc
  BY <1>1, NothingLeft DEF StreamPc
<1> QED
  BY <1>1, <1>3, <1>4, Counters, OnlyMoves
\* The next event of the batch: everything projected before it has been received.
LEMMA SendsNext ==
    ASSUME IInv, NEW s \in Streams, pc[s] \in {"send", "flush"},
           NEW e \in batch[s], \A j \in batch[s] : e <= j,
           got' = [got EXCEPT ![s] = Append(@, e)],
           batch' = [batch EXCEPT ![s] = @ \ {e}],
           ended' = [ended EXCEPT ![s] = @ \/ log[e] \in EndStates],
           UNCHANGED <<pc, task, kind, cursor, observed, mark, drops, faults>>
    PROVE  IInv'
<1>1. /\ got[s] \in Seq(1 .. MaxEvents)
      /\ got'[s] = Append(got[s], e)
      /\ batch'[s] = batch[s] \ {e}
      /\ log' = log
      /\ e \in 1 .. MaxEvents
  BY DEF IInv, TypeOK, task
<1>2. /\ cursor[s] \in Nat
      /\ LastGot(s) \in Nat
      /\ MaxEvents \in Nat
      /\ StreamInv(s)
  BY Known
<1>3. batch[s] = {i \in 1 .. cursor[s] : i > LastGot(s) /\ Visible(log[i])}
  BY <1>2 DEF StreamInv, Position
<1>4. e \in 1 .. cursor[s] /\ e > LastGot(s) /\ Visible(log[e])
  BY <1>3
<1>5. /\ got'[s] \in Seq(1 .. MaxEvents)
      /\ got'[s] # <<>>
      /\ Last(got'[s]) = e
      /\ DOMAIN got'[s] = 1 .. Len(got[s]) + 1
      /\ \A j \in 1 .. Len(got[s]) : got'[s][j] = got[s][j]
      /\ got'[s][Len(got[s]) + 1] = e
      /\ ToSet(got'[s]) = ToSet(got[s]) \cup {e}
  <2> DEFINE q == Append(got[s], e)
             S == 1 .. MaxEvents
  <2>0. got[s] \in Seq(S) /\ e \in S
    BY <1>1
  <2> HIDE DEF S
  <2>1. /\ q \in Seq(S)
        /\ q # <<>>
        /\ Last(q) = e
        /\ DOMAIN q = 1 .. Len(got[s]) + 1
        /\ \A j \in 1 .. Len(got[s]) : q[j] = got[s][j]
        /\ q[Len(got[s]) + 1] = e
        /\ ToSet(q) = ToSet(got[s]) \cup {e}
    BY <2>0, OneMore
  <2>2. got'[s] = q
    BY <1>1
  <2> HIDE DEF q
  <2> QED
    BY <2>1, <2>2 DEF S
<1>6. LastGot(s)' = e
  BY <1>5 DEF LastGot
<1>7. Position(s)'
  <2>1. batch'[s] = {i \in 1 .. cursor[s] : i > e /\ Visible(log[i])}
    <3>1. ASSUME NEW i \in batch[s], i # e
          PROVE  i \in 1 .. cursor[s] /\ i > e /\ Visible(log[i])
      BY <1>3, <1>4, <3>1
    <3>2. ASSUME NEW i \in 1 .. cursor[s], i > e, Visible(log[i])
          PROVE  i \in batch[s] /\ i # e
      BY <1>2, <1>3, <1>4, <3>2
    <3> QED
      BY <1>1, <3>1, <3>2
  <2> QED
    BY <1>1, <1>2, <1>4, <1>6, <2>1 DEF StreamInv, Position
<1>8. Received(s)'
  <2>1. /\ \A j, k \in DOMAIN got[s] : j < k => got[s][j] < got[s][k]
        /\ ToSet(got[s]) = {i \in 1 .. LastGot(s) : Visible(log[i])}
    BY <1>2 DEF StreamInv, Received
  <2>2. /\ Len(got[s]) \in Nat
        /\ DOMAIN got[s] = 1 .. Len(got[s])
        /\ got[s] # <<>> => LastGot(s) = got[s][Len(got[s])]
        /\ got[s] = <<>> => Len(got[s]) = 0
    <3>1. got[s] = <<>> => Len(got[s]) = 0
      OBVIOUS
    <3> QED
      BY <3>1, LastIsReceived DEF IInv
  <2>3. ASSUME NEW j \in 1 .. Len(got[s]) PROVE got[s][j] \in Nat /\ got[s][j] < e
    <3>1. got[s] # <<>> /\ Len(got[s]) \in 1 .. Len(got[s])
      BY <2>2, <2>3
    <3>2. got[s][j] \in 1 .. MaxEvents /\ got[s][Len(got[s])] \in 1 .. MaxEvents
      BY <1>1, <2>3, <3>1, ElementOfSeq
    <3>3. j = Len(got[s]) \/ got[s][j] < got[s][Len(got[s])]
      BY <2>1, <2>2, <2>3, <3>1
    <3> QED
      BY <1>1, <1>2, <1>4, <2>2, <3>1, <3>2, <3>3
  <2>4. ASSUME NEW j \in DOMAIN got'[s], NEW k \in DOMAIN got'[s], j < k
        PROVE  got'[s][j] < got'[s][k]
    <3>1. j \in 1 .. Len(got[s]) /\ (k \in 1 .. Len(got[s]) \/ k = Len(got[s]) + 1)
      BY <1>5, <2>2, <2>4
    <3>2. CASE k \in 1 .. Len(got[s])
      BY <1>5, <2>1, <2>2, <2>4, <3>1, <3>2
    <3>3. CASE k = Len(got[s]) + 1
      BY <1>5, <2>3, <3>1, <3>3
    <3> QED
      BY <3>1, <3>2, <3>3
  <2>5. ToSet(got'[s]) = {i \in 1 .. e : Visible(log[i])}
    <3>1. ASSUME NEW i \in ToSet(got'[s]) PROVE i \in 1 .. e /\ Visible(log[i])
      BY <1>2, <1>4, <1>5, <2>1, <3>1
    <3>2. ASSUME NEW i \in 1 .. e, Visible(log[i]) PROVE i \in ToSet(got'[s])
      <4>1. i <= LastGot(s) \/ i \in batch[s]
        BY <1>2, <1>3, <1>4, <3>2
      <4>2. i \in batch[s] => i = e
        BY <1>4, <3>2
      <4> QED
        BY <1>2, <1>5, <2>1, <3>2, <4>1, <4>2, SMTT(30)
    <3> QED
      BY <3>1, <3>2
  <2> QED
    BY <1>1, <1>6, <2>4, <2>5 DEF Received
<1>9. Wake(s)' /\ Trailing(s)'
  BY <1>2 DEF StreamInv, Wake, Trailing, task
<1>10. StreamInv(s)'
  BY <1>7, <1>8, <1>9 DEF StreamInv
<1>11. StepOf(s)
  BY DEF StepOf, IInv, TypeOK
<1>12. /\ pc' \in [Streams -> StreamPc]
       /\ kind' \in [Streams -> {"message", "resubscribe"}]
       /\ cursor' \in [Streams -> 0 .. MaxEvents]
       /\ observed' \in [Streams -> 0 .. MaxEvents]
       /\ mark' \in [Streams -> 0 .. MaxEvents]
  BY DEF IInv, TypeOK
<1>13. ended' \in [Streams -> BOOLEAN]
  BY DEF IInv, TypeOK
<1>14. batch' \in [Streams -> SUBSET (1 .. MaxEvents)]
  BY DEF IInv, TypeOK
<1>15. got' \in [Streams -> Seq(1 .. MaxEvents)]
  BY <1>1, <1>5 DEF IInv, TypeOK
<1> QED
  BY <1>10, <1>11, <1>12, <1>13, <1>14, <1>15, OneStreamMoves

LEMMA SendKeeps == ASSUME NEW s \in Streams PROVE IInv /\ Send(s) => IInv'
<1> SUFFICES ASSUME IInv, Send(s) PROVE IInv'
  OBVIOUS
<1>1. /\ pc[s] \in {"send", "flush"}
      /\ UNCHANGED <<task, kind, cursor, observed, mark, drops, faults>>
  BY DEF Send
<1>2. CASE \E i \in batch[s] :
             /\ \A j \in batch[s] : i <= j
             /\ got' = [got EXCEPT ![s] = Append(@, i)]
             /\ batch' = [batch EXCEPT ![s] = @ \ {i}]
             /\ ended' = [ended EXCEPT ![s] = @ \/ log[i] \in EndStates]
             /\ UNCHANGED pc
  <2>1. PICK i \in batch[s] :
             /\ \A j \in batch[s] : i <= j
             /\ got' = [got EXCEPT ![s] = Append(@, i)]
             /\ batch' = [batch EXCEPT ![s] = @ \ {i}]
             /\ ended' = [ended EXCEPT ![s] = @ \/ log[i] \in EndStates]
             /\ UNCHANGED pc
    BY <1>2
  <2> QED
    BY <1>1, <2>1, SendsNext
<1>3. CASE /\ batch[s] = {}
           /\ Goto(s, IF pc[s] = "send" THEN "status" ELSE "stopped")
           /\ UNCHANGED <<got, batch, ended>>
  <2> DEFINE p == IF pc[s] = "send" THEN "status" ELSE "stopped"
  <2>1. p \in StreamPc /\ Goto(s, p) /\ pc'[s] = p
    BY <1>3 DEF StreamPc, Goto, IInv, TypeOK
  <2>2. Wake(s)'
    BY <2>1 DEF Wake
  <2>3. Trailing(s)'
    BY <1>1, <2>1, Known DEF StreamInv, Trailing
  <2> QED
    BY <1>1, <1>3, <2>1, <2>2, <2>3, Counters, OnlyMoves
<1> QED
  BY <1>2, <1>3 DEF Send

LEMMA ReadStatusKeeps == ASSUME NEW s \in Streams PROVE IInv /\ ReadStatus(s) => IInv'
<1> SUFFICES ASSUME IInv, ReadStatus(s) PROVE IInv'
  OBVIOUS
<1> DEFINE p == IF status \in EndStates THEN "trailing" ELSE "list"
<1>1. /\ pc[s] = "status"
      /\ Goto(s, p)
      /\ mark' = [mark EXCEPT ![s] = Len(log)]
      /\ UNCHANGED <<task, kind, cursor, observed, batch, got, ended, drops, faults>>
  BY DEF ReadStatus
<1>2. p \in StreamPc /\ pc'[s] = p
  BY <1>1 DEF StreamPc, Goto, IInv, TypeOK
<1>3. Len(log) \in 0 .. MaxEvents
  BY Known
<1>4. /\ observed' \in [Streams -> 0 .. MaxEvents]
      /\ mark' \in [Streams -> 0 .. MaxEvents]
      /\ mark'[s] <= Len(log)
      /\ \A t \in Streams \ {s} : mark'[t] = mark[t] /\ observed'[t] = observed[t]
  BY <1>1, <1>3 DEF IInv, TypeOK
<1>5. Wake(s)' /\ Trailing(s)'
  BY <1>2 DEF Wake, Trailing
<1>6. batch[s] = {}
  BY <1>1, NothingLeft
<1> QED
  BY <1>1, <1>2, <1>4, <1>5, <1>6, Counters, Moves

LEMMA ReadTrailingKeeps == ASSUME NEW s \in Streams PROVE IInv /\ ReadTrailing(s) => IInv'
BY TakeReads DEF ReadTrailing

LEMMA RaiseKeeps == ASSUME NEW s \in Streams PROVE IInv /\ Raise(s) => IInv'
<1> SUFFICES ASSUME IInv, Raise(s) PROVE IInv'
  OBVIOUS
<1> DEFINE p == IF kind[s] = "message" /\ ended[s] THEN "stopped" ELSE "errored"
<1>1. /\ pc[s] \in {"list", "relist", "status", "trailing"}
      /\ faults < MaxFaults
      /\ faults' = faults + 1
      /\ Goto(s, p)
      /\ UNCHANGED <<task, kind, cursor, observed, batch, got, ended, mark, drops>>
  BY DEF Raise
<1>2. p \in StreamPc /\ pc'[s] = p
  BY <1>1 DEF StreamPc, Goto, IInv, TypeOK
<1>3. /\ drops' \in 0 .. MaxDrops
      /\ faults' \in 0 .. MaxFaults
      /\ faults' # 0
  BY <1>1, StreamAssumption DEF IInv, TypeOK
<1>4. Wake(s)' /\ Trailing(s)'
  BY <1>2, <1>3 DEF Wake, Trailing
<1>5. batch[s] = {}
  BY <1>1, NothingLeft
<1> QED
  BY <1>1, <1>2, <1>3, <1>4, <1>5, OnlyMoves

LEMMA DisconnectKeeps == ASSUME NEW s \in Streams PROVE IInv /\ Disconnect(s) => IInv'
<1> SUFFICES ASSUME IInv, Disconnect(s) PROVE IInv'
  OBVIOUS
<1>1. /\ drops < MaxDrops
      /\ drops' = drops + 1
      /\ Goto(s, "gone")
      /\ UNCHANGED <<task, kind, cursor, observed, batch, got, ended, mark, faults>>
  BY DEF Disconnect
<1>2. "gone" \in StreamPc /\ pc'[s] = "gone"
  BY <1>1 DEF StreamPc, Goto, IInv, TypeOK
<1>3. drops' \in 0 .. MaxDrops /\ faults' \in 0 .. MaxFaults
  BY <1>1, StreamAssumption DEF IInv, TypeOK
<1>4. Wake(s)' /\ Trailing(s)'
  BY <1>2 DEF Wake, Trailing
<1> QED
  BY <1>1, <1>2, <1>3, <1>4, OnlyMoves

\* A client that resubscribes starts behind the last event it has: nothing between
\* that event and the old cursor is lost.
LEMMA ResubscribeKeeps == ASSUME NEW s \in Streams PROVE IInv /\ Resubscribe(s) => IInv'
<1> SUFFICES ASSUME IInv, Resubscribe(s) PROVE IInv'
  OBVIOUS
<1>1. /\ drops < MaxDrops
      /\ drops' = drops + 1
      /\ kind' = [kind EXCEPT ![s] = "resubscribe"]
      /\ cursor' = [cursor EXCEPT ![s] = LastGot(s)]
      /\ batch' = [batch EXCEPT ![s] = {}]
      /\ ended' = [ended EXCEPT ![s] = FALSE]
      /\ pc' = [pc EXCEPT ![s] = "list"]
      /\ UNCHANGED <<task, observed, got, mark, faults>>
  BY DEF Resubscribe, Goto
<1>2. /\ cursor[s] \in Nat /\ cursor[s] <= Len(log)
      /\ LastGot(s) \in Nat /\ LastGot(s) <= cursor[s]
      /\ Len(log) \in Nat /\ Len(log) <= MaxEvents
      /\ MaxEvents \in Nat
      /\ mark[s] <= Len(log)
      /\ StreamInv(s)
  BY Known
<1>3. LastGot(s) \in 0 .. MaxEvents
  BY <1>2
<1>4. drops' \in 0 .. MaxDrops /\ faults' \in 0 .. MaxFaults
  BY <1>1, StreamAssumption DEF IInv, TypeOK
<1>5. /\ pc' \in [Streams -> StreamPc]
      /\ kind' \in [Streams -> {"message", "resubscribe"}]
      /\ observed' \in [Streams -> 0 .. MaxEvents]
      /\ batch' \in [Streams -> SUBSET (1 .. MaxEvents)]
      /\ got' \in [Streams -> Seq(1 .. MaxEvents)]
      /\ mark' \in [Streams -> 0 .. MaxEvents]
  BY <1>1 DEF IInv, TypeOK, StreamPc
<1>6. cursor' \in [Streams -> 0 .. MaxEvents]
  BY <1>1, <1>3 DEF IInv, TypeOK
<1>7. ended' \in [Streams -> BOOLEAN]
  BY <1>1 DEF IInv, TypeOK
<1>8. /\ pc'[s] = "list"
      /\ cursor'[s] = LastGot(s)
      /\ batch'[s] = {}
      /\ mark'[s] = mark[s]
      /\ log' = log
      /\ LastGot(s)' = LastGot(s)
  BY <1>1 DEF IInv, TypeOK, LastGot, task
<1>9. StepOf(s)
  BY <1>1, <1>4 DEF StepOf, IInv, TypeOK
<1>10. Wake(s)' /\ Trailing(s)'
  BY <1>8 DEF Wake, Trailing
<1>11. Position(s)'
  <2>1. {i \in 1 .. LastGot(s) : i > LastGot(s) /\ Visible(log[i])} = {}
    BY <1>2
  <2> QED
    BY <1>2, <1>8, <2>1 DEF Position
<1>12. Received(s)'
  BY <1>1, <1>2, <1>8 DEF StreamInv, Received
<1>13. StreamInv(s)'
  BY <1>10, <1>11, <1>12 DEF StreamInv
<1> QED
  BY <1>5, <1>6, <1>7, <1>9, <1>13, OneStreamMoves

-----------------------------------------------------------------------------
(***************************************************************************)
(* Theorems                                                                *)
(***************************************************************************)

LEMMA NextKeeps == IInv /\ [Next]_vars => IInv'
<1> SUFFICES ASSUME IInv, [Next]_vars PROVE IInv'
  OBVIOUS
<1>1. CASE Writer
  BY <1>1, WriterKeeps
<1>2. CASE Notify
  BY <1>2, NotifyKeeps
<1>3. ASSUME NEW s \in Streams, Reader(s) PROVE IInv'
  BY <1>3, FirstListKeeps, ObserveKeeps, RelistKeeps, WaitForChangeKeeps, TimeoutKeeps,
     SendKeeps, ReadStatusKeeps, ReadTrailingKeeps DEF Reader
<1>4. ASSUME NEW s \in Streams, Raise(s) \/ Disconnect(s) \/ Resubscribe(s) PROVE IInv'
  BY <1>4, RaiseKeeps, DisconnectKeeps, ResubscribeKeeps
<1>5. CASE UNCHANGED vars
  <2>1. UNCHANGED <<status, log, pending, version, pc, kind, cursor, observed, batch, got,
                    ended, mark, drops, faults>>
    BY <1>5 DEF vars, task, stream
  <2>2. TypeOK' /\ NotifierInv'
    BY <2>1 DEF IInv, TypeOK, NotifierInv
  <2>3. Grows
    BY <2>1, LenProperties DEF Grows, IInv, TypeOK
  <2>4. \A s \in Streams : StreamInv(s)'
    BY <2>1, <2>3, Untouched
  <2> QED
    BY <2>2, <2>4 DEF IInv
<1> QED
  BY <1>1, <1>2, <1>3, <1>4, <1>5 DEF Next

\* The invariant from which the properties of the streams follow holds in every
\* reachable state, for any number of streams, events, lost connections and faults.
THEOREM InductiveInvariant == Spec => []IInv
<1>1. Init => IInv
  BY InitHolds
<1>2. IInv /\ [Next]_vars => IInv'
  BY NextKeeps
<1> QED
  BY <1>1, <1>2, PTL DEF Spec

\* The order observe, list, wait loses no wake-up: a stream that sleeps behind the log
\* is woken by a notification that is still to run.
THEOREM WakeUpsAreKept == Spec => []NoLostWakeup
<1>1. IInv => NoLostWakeup
  <2> SUFFICES ASSUME IInv, NEW s \in Streams, pc[s] = "asleep", Len(log) > cursor[s]
               PROVE  pending > 0
    BY DEF NoLostWakeup
  <2>1. /\ version + pending = Len(log)
        /\ pending \in Nat
        /\ version \in Nat
        /\ Len(log) \in Nat
        /\ cursor[s] \in Nat
        /\ observed[s] \in Nat
    BY Known DEF IInv, TypeOK, NotifierInv
  <2>2. version <= observed[s] /\ observed[s] <= cursor[s]
    BY Known DEF StreamInv, Wake
  <2> QED
    BY <2>1, <2>2
<1> QED
  BY <1>1, InductiveInvariant, PTL

\* A client receives exactly the projected events, in order, over any number of
\* connections, and a stream that stops by itself has sent all there were when it read
\* the end state.
THEOREM ClientsMissNothing == Spec => []DeliveredWithoutGap
<1>1. IInv => DeliveredWithoutGap
  <2> SUFFICES ASSUME IInv PROVE DeliveredWithoutGap
    OBVIOUS
  <2>1. ASSUME NEW s \in Streams
        PROVE  /\ \A j, k \in DOMAIN got[s] : j < k => got[s][j] < got[s][k]
               /\ ToSet(got[s]) = {i \in 1 .. LastGot(s) : Visible(log[i])}
    BY Known DEF StreamInv, Received
  <2>2. ASSUME NEW s \in Streams, pc[s] = "stopped", faults = 0,
               NEW i \in 1 .. mark[s], Visible(log[i])
        PROVE  i <= LastGot(s)
    <3>1. /\ cursor[s] \in Nat
          /\ mark[s] \in Nat
          /\ LastGot(s) \in Nat
          /\ mark[s] <= cursor[s]
          /\ {n \in 1 .. cursor[s] : n > LastGot(s) /\ Visible(log[n])} = {}
      BY <2>2, Known DEF StreamInv, Position, Trailing
    <3> QED
      BY <2>2, <3>1
  <2> QED
    BY <2>1, <2>2 DEF DeliveredWithoutGap, IInv
<1> QED
  BY <1>1, InductiveInvariant, PTL
=============================================================================
