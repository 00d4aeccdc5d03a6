--------------------------- MODULE TaskTurn_proofs ---------------------------
(***************************************************************************)
(* Theorems about what happens around the model of one Task: the turn that *)
(* leads to it (FirstTurn), the blocking calls it makes (CapabilityCalls)  *)
(* and the manual retry when it fails (TaskRetry).  The three components   *)
(* have variables and specifications of their own; no theorem mixes them.  *)
(***************************************************************************)
EXTENDS TaskRetry, CapabilityCalls, FirstTurn, FiniteSetTheorems,
        SequenceTheorems, WellFoundedInduction, TLAPS

------------------------------------------------------------------------------
(* FirstTurn: any agents, any message lengths, texts of any length.        *)

\* What is read of a reply: the fields of an object, or nothing but words.
LEMMA ReplyFacts ==
    ASSUME NEW a \in RouterReply
    PROVE  /\ a.object \in {"no", "yes", "deep"} /\ a.reason \in BOOLEAN
           /\ a.route \in Routes \cup {None, "structure"}
           /\ a.label \in Routes \cup {None, "chat"} /\ a.tool \in {None, "yes", "no"}
           /\ a.confidence \in {None, "low", "high", "text", "huge"}
           /\ a.mentions \subseteq Routes
           /\ a.object # "yes" => a.route = None
  BY DEF RouterReply

\* A usable payload names the route of the object, or the one its classifier
\* fields stand for; a delegation goes to the agent it names.
LEMMA PayloadIsReasoned ==
    ASSUME NEW a \in RouterReply, NEW offers, FromPayload(a, offers) \notin {Failed, Unusable}
    PROVE  LET d == FromPayload(a, offers) IN
             /\ d.kind \in Routes
             /\ a.route # None => d.kind = a.route
             /\ d.kind = "local_task" =>
                  a.tool = "yes" \/ "local_task" \in {a.route, a.label}
             /\ d.kind = "remote_agent" =>
                  /\ "remote_agent" \in {a.route, a.label}
                  /\ a.target = d.target /\ d.target \in offers
                  /\ a.confidence # "huge"
                  /\ a.confidence = "low" => d.confidence = "low"
             /\ a.confidence \in {None, "high"} => d.confidence # "low"
  <1> DEFINE d == FromPayload(a, offers)
             p == IF a.route = None THEN Repair(a) ELSE a
  <1>1. /\ a.route # "structure" /\ p.route # None /\ p.confidence # "huge"
        /\ p.route = "remote_agent" => p.target \in offers
        /\ d = [kind |-> p.route, target |-> p.target, confidence |-> p.confidence]
    BY DEF FromPayload
  <1>2. d.kind = p.route /\ d.target = p.target /\ d.confidence = p.confidence
    BY <1>1
  <1>3. CASE a.route # None
    <2>1. p = a /\ a.route \in Routes
      BY <1>1, <1>3, ReplyFacts
    <2>2. d.kind = a.route /\ d.target = a.target /\ d.confidence = a.confidence
      BY <1>2, <2>1
    <2>3. QED BY <1>1, <2>1, <2>2 DEF None
  <1>4. CASE a.route = None
    <2> DEFINE r == IF a.tool = "yes" THEN "local_task"
                    ELSE IF a.tool = "no" THEN "local_message"
                    ELSE Labelled({a.label}, a.label = "chat")
    <2>1. /\ p.route = r /\ p.confidence = NumericOrDefault(a.confidence)
          /\ p.target = IF a.label = "chat" /\ a.target # "alias" THEN None ELSE a.target
      BY <1>4 DEF Repair
    <2>2. r \in Routes /\ (a.label = "chat" => r # "remote_agent")
      BY <1>1, <2>1, ReplyFacts DEF Labelled, Routes, None
    <2>3. r = "local_task" => a.tool = "yes" \/ a.label = "local_task"
      BY ReplyFacts DEF Labelled, Routes, None
    <2>4. r = "remote_agent" => a.label = "remote_agent"
      BY ReplyFacts DEF Labelled, Routes, None
    <2>5. /\ a.confidence = "low" => p.confidence = "low"
          /\ a.confidence = "huge" => p.confidence = "huge"
          /\ a.confidence \in {None, "high"} => p.confidence # "low"
      BY <2>1 DEF NumericOrDefault, None
    <2>6. QED BY <1>1, <1>2, <1>4, <2>1, <2>2, <2>3, <2>4, <2>5
  <1>5. QED BY <1>3, <1>4

\* An exception other than a ValueError comes from a route that cannot be
\* hashed or a confidence that is no float.
LEMMA RaisedPayload ==
    ASSUME NEW a \in RouterReply, NEW offers, FromPayload(a, offers) = Failed
    PROVE  a.route = "structure" \/ a.confidence = "huge"
  <1> DEFINE p == IF a.route = None THEN Repair(a) ELSE a
  <1>1. SUFFICES ASSUME a.route # "structure" PROVE p.confidence = "huge"
    BY DEF Repair, NumericOrDefault
  <1>2. SUFFICES ASSUME p.confidence # "huge" PROVE FALSE
    OBVIOUS
  <1>3. Unusable # Failed
    BY DEF Unusable, Failed
  <1>4. Failed = [kind |-> p.route, target |-> p.target, confidence |-> p.confidence]
    BY <1>1, <1>2, <1>3 DEF FromPayload
  <1>5. p.route # "failed"
    BY <1>1, ReplyFacts DEF Repair, Labelled, Routes, None
  <1>6. QED BY <1>4, <1>5 DEF Failed

\* A complete and confident reply can be used.
LEMMA CompleteIsUsed ==
    ASSUME NEW a \in RouterReply, NEW offers \in SUBSET Agents, Complete(a, offers)
    PROVE  a.object = "yes" /\ FromPayload(a, offers) \notin {Failed, Unusable}
  <1>1. /\ a.route \in Routes /\ a.route \notin {None, "structure"}
        /\ a.target \notin {"number", "alias"}
        /\ a.confidence \notin {"text", "huge"} /\ a.reason
    BY AgentIds DEF Complete, None, Routes
  <1>2. a.route = "remote_agent" => a.target \in offers
    BY DEF Complete
  <1>3. FromPayload(a, offers)
          = [kind |-> a.route, target |-> a.target, confidence |-> a.confidence]
    BY <1>1, <1>2 DEF FromPayload
  <1>4. a.route \notin {"failed", "unusable"}
    BY <1>1 DEF Routes
  <1>5. a.object = "yes"
    BY <1>1, ReplyFacts
  <1>6. QED BY <1>3, <1>4, <1>5 DEF Failed, Unusable

\* What is searched for in the raw text of an answer that could not be used.
LEMMA RawTextIsReasoned ==
    ASSUME NEW a \in RouterReply
    PROVE  LET d == FromRawText(a) IN
             /\ d.kind \in {"local_message", "local_task", "failed"}
             /\ d.confidence # "low"
             /\ d.kind = "local_task" => "local_task" \in a.mentions
             /\ d.kind = "failed" =>
                  /\ "remote_agent" \in a.mentions
                  /\ a.mentions \cap {"local_message", "local_task"} = {}
  <1> DEFINE r == Labelled(a.mentions, a.chat)
  <1>1. r \in Routes \cup {None}
    BY DEF Labelled, Routes
  <1>2. r = "local_task" => "local_task" \in a.mentions
    BY DEF Labelled, None
  <1>3. r = "remote_agent" => /\ "remote_agent" \in a.mentions
                              /\ a.mentions \cap {"local_message", "local_task"} = {}
    BY DEF Labelled, None
  <1>4. CASE r = None
    BY <1>4 DEF FromRawText, Message, None
  <1>5. CASE r = "remote_agent"
    BY <1>3, <1>5 DEF FromRawText, Failed, None
  <1>6. CASE r \in {"local_message", "local_task"}
    BY <1>2, <1>6 DEF FromRawText, None
  <1>7. QED BY <1>1, <1>4, <1>5, <1>6 DEF Routes

\* Whatever the router model replies, the decision has its reason in the reply
\* (router_classifier.py:55-121, router.py:97-138).
LEMMA ReplyIsReasoned ==
    ASSUME NEW a \in RouterReply, NEW offers \in SUBSET Agents, NEW registered
    PROVE  Reasoned(a, Confirm(Classify(a, offers), registered), offers)
  <1> DEFINE payload == FromPayload(a, offers)
             raw == FromRawText(a)
             c == Classify(a, offers)
             d == Confirm(c, registered)
             raised == a.object = "deep" \/ (a.object = "yes" /\ payload = Failed)
             usable == a.object = "yes" /\ payload \notin {Failed, Unusable}
             chosen == IF raised THEN Failed ELSE IF usable THEN payload ELSE raw
  <1>1. c = IF chosen.confidence = "low" THEN Message("low") ELSE chosen
    <2>1. Failed # Unusable
      BY DEF Failed, Unusable
    <2>2. CASE a.object = "deep"
      BY <2>1, <2>2 DEF Classify
    <2>3. CASE a.object = "no"
      BY <2>3 DEF Classify
    <2>4. CASE a.object = "yes"
      BY <2>1, <2>4 DEF Classify
    <2>5. QED BY <2>2, <2>3, <2>4, ReplyFacts
  <1>2. d = c \/ d.kind = "local_message"
    BY DEF Confirm, Message
  <1>3. CASE d.kind = "local_message"
    <2>1. Complete(a, offers) => a.route \in {"local_message", "remote_agent"}
      <3>1. SUFFICES ASSUME Complete(a, offers)
                     PROVE  a.route \in {"local_message", "remote_agent"}
        OBVIOUS
      <3>2. /\ usable /\ ~raised /\ payload.kind = a.route /\ payload.confidence # "low"
            /\ a.route \in Routes
        BY <3>1, CompleteIsUsed, PayloadIsReasoned DEF Complete, Routes, None
      <3>3. c = payload
        BY <1>1, <3>2
      <3>4. QED BY <1>3, <3>2, <3>3 DEF Confirm, Routes
    <2>2. QED BY <1>3, <2>1 DEF Reasoned
  <1>4. CASE d.kind # "local_message"
    <2>1. d = c /\ c = chosen /\ chosen.confidence # "low"
      BY <1>1, <1>2, <1>4 DEF Message
    <2>2. CASE raised
      <3>1. d = Failed /\ d.kind = "failed"
        BY <2>1, <2>2 DEF Failed
      <3>2. a.object = "deep" \/ a.route = "structure" \/ a.confidence = "huge"
        BY <2>2, RaisedPayload
      <3>3. ~Complete(a, offers)
        BY <2>2, CompleteIsUsed
      <3>4. QED BY <3>1, <3>2, <3>3 DEF Reasoned
    <2>3. CASE usable /\ ~raised
      <3>1. d = payload
        BY <2>1, <2>3
      <3>2. Complete(a, offers) => d.kind = a.route
        BY <2>3, <3>1, PayloadIsReasoned DEF Complete, Routes, None
      <3>3. QED BY <2>1, <2>3, <3>1, <3>2, PayloadIsReasoned DEF Reasoned, Routes
    <2>4. CASE ~usable /\ ~raised
      <3>1. ~Complete(a, offers)
        BY <2>4, CompleteIsUsed
      <3>2. d = raw
        BY <2>1, <2>4
      <3>3. QED BY <3>1, <3>2, RawTextIsReasoned DEF Reasoned
    <2>5. QED BY <2>2, <2>3, <2>4
  <1>5. QED BY <1>3, <1>4

\* Until the router model has replied nothing is heard of it, and it is asked
\* only where the metadata leaves the route open.
RouteInv ==
    /\ stage \in {"new", "admitted", "asked"} => heard = NoAnswer
    /\ stage = "asked" => Demanded(meta, live) = None /\ offered \subseteq Agents
    /\ RouteIsSound

\* The easily understood answers are replies as well.
LEMMA AnswersAreReplies == Answers \subseteq RouterReply
  <1>1. ASSUME NEW r \in {"local_message", "local_task"}
        PROVE  [NoAnswer EXCEPT !.mentions = {r}] \in RouterReply
    BY DEF NoAnswer, RouterReply, Routes, None
  <1>2. QED BY <1>1 DEF Answers

\* Every step of the turn preserves the reasons of its route.
LEMMA RouteStep ==
    ASSUME RouteInv, [TurnNext]_turn_vars
    PROVE  RouteInv'
  <1> USE DEF route_vars
  <1>1. CASE UNCHANGED turn_vars
    BY <1>1 DEF turn_vars, RouteInv, RouteIsSound
  <1>2. CASE OtherMessage \/ EditAgents
    BY <1>2 DEF OtherMessage, EditAgents, RouteInv, RouteIsSound
  <1>3. CASE OtherTaskEnds
    BY <1>3 DEF OtherTaskEnds, RouteInv, RouteIsSound
  <1>4. CASE Arrive
    <2>1. stage = "new" /\ stage' \in {"refused", "admitted"} /\ heard' = heard
      BY <1>4 DEF Arrive
    <2>2. QED BY <2>1 DEF RouteInv, RouteIsSound
  <1>5. CASE Route
    <2>1. /\ stage = "admitted" /\ heard' = NoAnswer /\ UNCHANGED <<meta, live>>
      BY <1>5 DEF Route, RouteInv
    <2>2. CASE /\ Demanded(meta, live) # None /\ stage' = "routed"
               /\ decision'.kind = Demanded(meta, live)
      BY <2>1, <2>2 DEF RouteInv, RouteIsSound
    <2>3. CASE Demanded(meta, live) = None /\ stage' = "routed" /\ decision' = Message(None)
      <3>1. Reasoned(NoAnswer, Message(None), offered')
        BY DEF Reasoned, Complete, NoAnswer, Message
      <3>2. QED BY <2>1, <2>3, <3>1 DEF RouteInv, RouteIsSound
    <2>4. CASE Demanded(meta, live) = None /\ stage' = "asked" /\ offered' = Enabled
      BY <2>1, <2>4 DEF RouteInv, RouteIsSound, Enabled
    <2>5. QED BY <1>5, <2>2, <2>3, <2>4 DEF Route
  <1>6. CASE RouterAnswers
    <2>1. /\ stage' = "routed" /\ UNCHANGED <<meta, live, offered>>
          /\ Demanded(meta, live) = None /\ offered \in SUBSET Agents /\ heard = NoAnswer
      BY <1>6 DEF RouterAnswers, RouteInv
    <2>2. ASSUME NEW a \in Answers, heard' = a,
                 decision' = Confirm(Classify(a, offered), Registered)
          PROVE  RouteInv'
      <3>1. Reasoned(a, Confirm(Classify(a, offered), Registered), offered)
        BY <2>1, AnswersAreReplies, ReplyIsReasoned
      <3>2. QED BY <2>1, <2>2, <3>1 DEF RouteInv, RouteIsSound
    <2>3. CASE decision' = Failed /\ UNCHANGED heard
      <3>1. Reasoned(NoAnswer, Failed, offered)
        BY DEF Reasoned, Complete, NoAnswer, Failed
      <3>2. QED BY <2>1, <2>3, <3>1 DEF RouteInv, RouteIsSound
    <2>4. QED BY <1>6, <2>2, <2>3 DEF RouterAnswers
  <1>7. CASE Dispatch
    <2>1. stage' \in {"answering", "accepted", "delegated", "failed"}
      BY <1>7 DEF Dispatch
    <2>2. QED BY <2>1 DEF RouteInv, RouteIsSound
  <1>8. CASE AnswerDirectly \/ StartTask \/ ModelAnswers
    <2>1. stage' \in {"answered", "working", "acted"}
      BY <1>8 DEF AnswerDirectly, StartTask, ModelAnswers
    <2>2. QED BY <2>1 DEF RouteInv, RouteIsSound
  <1>9. QED
    BY <1>1, <1>2, <1>3, <1>4, <1>5, <1>6, <1>7, <1>8 DEF TurnNext

\* The route of every message has a reason that holds, for any set of agents,
\* however they are edited between the question and the answer, and whatever
\* the router model replies (router.py:43-138, router_classifier.py:55-121,213-293).
THEOREM RoutesAreSound == TurnSpec => []RouteIsSound
  <1>1. TurnInit => RouteInv
    BY DEF TurnInit, RouteInv, RouteIsSound
  <1>2. RouteInv => RouteIsSound
    BY DEF RouteInv
  <1>3. QED BY <1>1, <1>2, RouteStep, PTL DEF TurnSpec

------------------------------------------------------------------------------
\* A set of positions has a first one.
LEMMA FirstPosition ==
    ASSUME NEW S, S \subseteq Nat, S # {}
    PROVE  \E i \in S : \A j \in S : i <= j
  <1> DEFINE less == {q \in Nat \X Nat : q[1] < q[2]}
  <1>1. IsWellFoundedOn(less, Nat)
    BY NatLessThanWellFounded DEF OpToRel
  <1> HIDE DEF less
  <1>2. PICK i \in S : \A j \in S : ~ (<<j, i>> \in less)
    BY <1>1, WFMin
  <1>3. \A j \in S : ~ (j < i)
    BY <1>2 DEF less
  <1>4. QED BY <1>3

\* First is the piece at the first position.
LEMMA FirstIs ==
    ASSUME NEW text_, NEW S, S \subseteq Nat, NEW i \in S, \A j \in S : i <= j
    PROVE  First(text_, S) = text_[i]
  <1>1. \A k \in S : (\A j \in S : k <= j) => k = i
    OBVIOUS
  <1>2. (CHOOSE k \in S : \A j \in S : k <= j) = i
    BY <1>1
  <1>3. QED BY <1>2 DEF First

\* What strip_reasoning_markup removes is what lies in a reasoning block: the
\* non-greedy expression ends a block at its first closing tag
\* (json_decision.py:30-36).
LEMMA ReasoningIsTheBlock ==
    ASSUME NEW text_, Len(text_) \in Nat, NEW i \in 1 .. Len(text_)
    PROVE  InReasoning(text_, i) <=> InBlock(text_, i)
  <1>1. ASSUME InReasoning(text_, i) PROVE InBlock(text_, i)
    <2>1. PICK j \in 1 .. i, k \in i .. Len(text_) :
            /\ text_[j] = "open" /\ text_[k] = "close"
            /\ \A n \in j .. (k - 1) : text_[n] # "close"
      BY <1>1 DEF InReasoning
    <2>2. \A e \in {e \in 1 .. (i - 1) : text_[e] = "close"} : e < j
      BY <2>1
    <2>3. QED BY <2>1, <2>2 DEF InBlock
  <1>2. ASSUME InBlock(text_, i) PROVE InReasoning(text_, i)
    <2> DEFINE closes == {k \in i .. Len(text_) : text_[k] = "close"}
    <2>1. closes # {} /\ closes \subseteq Nat
      BY <1>2 DEF InBlock
    <2> HIDE DEF closes
    <2>2. PICK k \in closes : \A n \in closes : k <= n
      BY <2>1, FirstPosition
    <2>3. k \in i .. Len(text_) /\ text_[k] = "close"
      BY <2>2 DEF closes
    <2>4. PICK j \in 1 .. i : /\ text_[j] = "open"
                              /\ \A e \in {e \in 1 .. (i - 1) : text_[e] = "close"} : e < j
      BY <1>2 DEF InBlock
    <2>5. ASSUME NEW n \in j .. (k - 1) PROVE text_[n] # "close"
      <3>1. CASE n < i
        BY <2>3, <2>4, <3>1
      <3>2. CASE n >= i
        BY <2>2, <2>3, <3>2 DEF closes
      <3>3. QED BY <3>1, <3>2
    <2>6. QED BY <2>3, <2>4, <2>5 DEF InReasoning
  <1>3. QED BY <1>1, <1>2

\* The actions a text authors: outside every reasoning block.
Authored(text_) == {i \in 1 .. Len(text_) : text_[i] \in Actions /\ ~InBlock(text_, i)}

\* parse_json_decision takes the first action that is authored, and finds none
\* only if there is none; an object without an action is taken only alone.
LEMMA DecisionIsAuthored ==
    ASSUME NEW text_, Len(text_) \in Nat
    PROVE  LET decision_ == ParseJsonDecision(text_) IN
             /\ decision_ \in Actions => \E i \in Authored(text_) :
                  text_[i] = decision_ /\ \A j \in Authored(text_) : i <= j
             /\ decision_ \notin Actions => Authored(text_) = {}
             /\ decision_ \in Objects \cup {"none"}
  <1> DEFINE whole == 1 .. Len(text_)
             kept == StripReasoning(text_)
             found == {i \in kept : text_[i] \in Actions}
  <1>1. found = Authored(text_) /\ kept \subseteq whole /\ whole \subseteq Nat
    BY ReasoningIsTheBlock DEF StripReasoning, Authored, Actions, Tags
  <1>2. CASE Decodes(text_, whole)
    <2>1. PICK i \in whole : whole = {i} /\ text_[i] \in Objects
      BY <1>2 DEF Decodes
    <2>2. i = 1
      <3>1. 1 \in whole
        BY <2>1
      <3>2. QED BY <2>1, <3>1
    <2>3. ParseJsonDecision(text_) = text_[i]
      BY <1>1, <1>2, <2>1, FirstIs DEF ParseJsonDecision
    <2>4. ~InBlock(text_, i)
      BY <2>1, <2>2 DEF InBlock, Objects, Actions
    <2>5. QED BY <2>1, <2>3, <2>4 DEF Authored
  <1>3. CASE ~Decodes(text_, whole) /\ Decodes(text_, kept)
    <2>1. PICK i \in kept : kept = {i} /\ text_[i] \in Objects
      BY <1>3 DEF Decodes
    <2>2. ParseJsonDecision(text_) = text_[i]
      BY <1>1, <1>3, <2>1, FirstIs DEF ParseJsonDecision
    <2>3. QED BY <1>1, <2>1, <2>2
  <1>4. CASE ~Decodes(text_, whole) /\ ~Decodes(text_, kept)
    <2>1. ParseJsonDecision(text_) = EmbeddedAction(text_, kept)
      BY <1>4 DEF ParseJsonDecision
    <2>2. CASE found = {}
      BY <1>1, <2>1, <2>2 DEF EmbeddedAction, Actions
    <2>3. CASE found # {}
      <3>1. PICK i \in found : \A j \in found : i <= j
        BY <1>1, <2>3, FirstPosition
      <3>2. EmbeddedAction(text_, kept) = text_[i]
        BY <1>1, <2>3, <3>1, FirstIs DEF EmbeddedAction
      <3>3. QED BY <1>1, <2>1, <3>1, <3>2 DEF Objects
    <2>4. QED BY <2>2, <2>3
  <1>5. QED BY <1>2, <1>3, <1>4

\* What an answer in the prompt_json mode becomes.
LEMMA ContentIsAuthored ==
    ASSUME NEW text_, Len(text_) \in Nat, NEW seen \in BOOLEAN
    PROVE  LET act == ParseContent(text_, seen)
               authored == Authored(text_)
           IN /\ act = "tool" => \E i \in authored :
                   text_[i] = "tool" /\ \A j \in authored : i <= j
              /\ act = "final" /\ ~seen => \E i \in authored :
                   text_[i] = "final" /\ \A j \in authored : i <= j
              /\ act = "final" =>
                   \A i \in authored : text_[i] = "final" \/ \E j \in authored : j < i
  <1> DEFINE act == ParseContent(text_, seen)
             decision_ == ParseJsonDecision(text_)
             authored == Authored(text_)
  <1>1. /\ decision_ \in Actions => \E i \in authored :
             text_[i] = decision_ /\ \A j \in authored : i <= j
        /\ decision_ \notin Actions => authored = {}
        /\ decision_ \in {"tool", "final", "odd", "answer", "none"}
    BY DecisionIsAuthored DEF Objects, Actions
  <1>2. /\ act = "tool" => decision_ = "tool"
        /\ act = "final" /\ ~seen => decision_ = "final"
        /\ act = "final" => decision_ \in {"final", "answer", "none"}
    BY <1>1 DEF ParseContent
  <1>3. authored \subseteq Nat
    BY DEF Authored
  <1> HIDE DEF act, decision_, authored
  <1>4. act = "tool" => \E i \in authored : text_[i] = "tool" /\ \A j \in authored : i <= j
    BY <1>1, <1>2 DEF Actions
  <1>5. act = "final" /\ ~seen => \E i \in authored :
          text_[i] = "final" /\ \A j \in authored : i <= j
    BY <1>1, <1>2 DEF Actions
  <1>6. act = "final" =>
          \A i \in authored : text_[i] = "final" \/ \E j \in authored : j < i
    <2>1. CASE decision_ = "final"
      <3>1. PICK i \in authored : text_[i] = "final" /\ \A j \in authored : i <= j
        BY <1>1, <2>1 DEF Actions
      <3>2. \A k \in authored : k = i \/ i < k
        BY <1>3, <3>1
      <3>3. QED BY <3>1, <3>2
    <2>2. CASE decision_ \in {"answer", "none"}
      BY <1>1, <2>2 DEF Actions
    <2>3. QED BY <1>2, <2>1, <2>2
  <1>7. QED BY <1>4, <1>5, <1>6 DEF act, decision_, authored

\* The texts of a model are sequences of pieces.
LEMMA TextsAreSequences ==
    ASSUME NEW t \in Texts
    PROVE  Len(t) \in Nat
  <1>1. CASE t = <<"final">>
    BY <1>1
  <1>2. ASSUME NEW n \in 0 .. MaxPieces, t \in [1 .. n -> Piece]
        PROVE  Len(t) \in Nat
    <2>1. n \in Nat
      OBVIOUS
    <2>2. t \in Seq(Piece)
      BY <1>2, <2>1, SeqDef
    <2>3. QED BY <2>2, LenProperties
  <1>3. QED BY <1>1, <1>2 DEF Texts

\* Only what a model authored in the configured mode becomes an action: for
\* texts of any length, in every interleaving (json_decision.py:8-76,
\* ollama.py:166-210,310-332,407-477).
THEOREM ActionsAreAuthored == TurnSpec => []ActionIsAuthored
  <1>1. TurnInit => ActionIsAuthored
    BY DEF TurnInit, ActionIsAuthored
  <1>2. ActionIsAuthored /\ [TurnNext]_turn_vars => ActionIsAuthored'
    <2> SUFFICES ASSUME ActionIsAuthored, [TurnNext]_turn_vars
                 PROVE  ActionIsAuthored'
      OBVIOUS
    <2>1. CASE ModelAnswers
      <3>1. ASSUME mode' = "prompt_json", observed' \in BOOLEAN, text' \in Texts,
                   action' = ParseContent(text', observed')
            PROVE  ActionIsAuthored'
        <4>1. Len(text') \in Nat
          BY <3>1, TextsAreSequences
        <4>2. QED BY <3>1, <4>1, ContentIsAuthored DEF ActionIsAuthored, Authored
      <3>2. ASSUME mode' \in {"native", "none", "openai_none"},
                   NEW c \in NativeCalls, NEW s \in BOOLEAN, text' = <<c>>,
                   action' = IF mode' = "native" THEN ParseNative(c, s)
                             ELSE ParsePlain(c, s, mode' = "openai_none")
            PROVE  ActionIsAuthored'
        <4>1. CASE mode' = "native"
          <5>1. action' = "tool" => c = "calls"
            BY <3>2, <4>1 DEF ParseNative, NativeCalls
          <5>2. QED BY <3>2, <4>1, <5>1 DEF ActionIsAuthored
        <4>2. CASE mode' # "native"
          <5>1. action' # "tool"
            BY <3>2, <4>2 DEF ParsePlain, NativeCalls
          <5>2. QED BY <3>2, <5>1 DEF ActionIsAuthored
        <4>3. QED BY <4>1, <4>2
      <3>3. QED BY <2>1, <3>1, <3>2 DEF ModelAnswers
    <2>2. CASE UNCHANGED turn_vars
      BY <2>2 DEF turn_vars, work_vars, ActionIsAuthored
    <2>3. CASE \/ OtherMessage \/ EditAgents \/ OtherTaskEnds \/ Arrive \/ Route
               \/ RouterAnswers \/ Dispatch \/ AnswerDirectly \/ StartTask
      <3>1. stage' # "acted"
        BY <2>3
           DEF OtherMessage, EditAgents, OtherTaskEnds, Arrive, Route, RouterAnswers,
           Dispatch, AnswerDirectly, StartTask
      <3>2. QED BY <3>1 DEF ActionIsAuthored
    <2>4. QED BY <2>1, <2>2, <2>3 DEF TurnNext
  <1>3. QED BY <1>1, <1>2, PTL DEF TurnSpec

------------------------------------------------------------------------------
(* FirstTurn: the context.  BoundHistory is a recursive function; what it  *)
(* computes is shown by induction over a set of steps.                     *)

\* Induction up to n, on a set of numbers.
LEMMA Stepwise ==
    ASSUME NEW n \in Nat, NEW S, 0 \in S,
           \A k \in 1 .. n : k - 1 \in S => k \in S
    PROVE  \A k \in 0 .. n : k \in S
  <1> DEFINE Bad == {k \in 0 .. n : k \notin S}
  <1>1. SUFFICES ASSUME Bad # {} PROVE FALSE
    OBVIOUS
  <1>2. Bad \subseteq Nat
    OBVIOUS
  <1>3. PICK m \in Bad : \A j \in Bad : m <= j
    <2> HIDE DEF Bad
    <2>1. QED BY <1>1, <1>2, FirstPosition
  <1>4. m \in 1 .. n /\ m - 1 \in 0 .. n /\ ~ (m <= m - 1)
    OBVIOUS
  <1>5. m - 1 \in S
    BY <1>3, <1>4
  <1>6. QED BY <1>4, <1>5

\* f is the value computed in n steps, each from the one before it.
Computes(f, n, b, st) == f[0] = b /\ \A k \in 1 .. n : f[k] = st[k][f[k - 1]]

\* A value computed in n steps, each from the one before it, exists.
LEMMA StepwiseExists ==
    ASSUME NEW n \in Nat, NEW V, NEW b \in V, NEW st \in [1 .. n -> [V -> V]]
    PROVE  \E f \in [0 .. n -> V] : Computes(f, n, b, st)
  <1> DEFINE Good(m) == \E f \in [0 .. m -> V] : Computes(f, m, b, st)
             S == {m \in 0 .. n : Good(m)}
  <1>1. 0 \in S
    <2> DEFINE one == [k \in 0 .. 0 |-> b]
    <2>1. one \in [0 .. 0 -> V] /\ Computes(one, 0, b, st)
      BY DEF Computes
    <2> HIDE DEF one
    <2>2. Good(0)
      BY <2>1
    <2>3. QED BY <2>2
  <1>2. ASSUME NEW m \in 1 .. n, m - 1 \in S PROVE m \in S
    <2>1. PICK f \in [0 .. (m - 1) -> V] : Computes(f, m - 1, b, st)
      BY <1>2
    <2> DEFINE g == [k \in 0 .. m |-> IF k = m THEN st[m][f[m - 1]] ELSE f[k]]
    <2>2. f[m - 1] \in V
      BY <2>1
    <2>3. st[m][f[m - 1]] \in V
      BY <2>2
    <2>4. g \in [0 .. m -> V]
      BY <2>1, <2>3
    <2>5. g[0] = b
      BY <2>1 DEF Computes
    <2>6. ASSUME NEW k \in 1 .. m PROVE g[k] = st[k][g[k - 1]]
      <3>1. CASE k = m
        <4>1. g[m] = st[m][f[m - 1]] /\ g[m - 1] = f[m - 1]
          OBVIOUS
        <4>2. QED BY <3>1, <4>1
      <3>2. CASE k # m
        BY <2>1, <3>2 DEF Computes
      <3>3. QED BY <3>1, <3>2
    <2> HIDE DEF g
    <2>7. Good(m)
      BY <2>4, <2>5, <2>6 DEF Computes
    <2>8. QED BY <2>7
  <1>3. n \in S
    <2>1. \A m \in 1 .. n : m - 1 \in S => m \in S
      BY <1>2
    <2> HIDE DEF S
    <2>2. \A k \in 0 .. n : k \in S
      BY <1>1, <2>1, Stepwise
    <2>3. QED BY <2>2
  <1>4. QED BY <1>3

\* A message of the conversation, one of a context, the accumulator of
\* _bound_history, and a policy that leaves room for a message.
Row == [sequence : Nat, length : Nat]
Kept == [sequence : Nat, length : Nat, cut : {"whole", "silent", "marked"}]
Selection == [selected : Seq(Kept), remaining : Nat]
Limits == [max_messages : Nat \ {0}, max_history : Nat, max_message : Nat \ {0}]

\* The conversation's rows carry the sequence numbers 1, 2, 3, ...
Ordered(messages) ==
    /\ messages \in Seq(Row)
    /\ \A i \in 1 .. Len(messages) : messages[i].sequence = i

\* Every row of such a conversation has its own number.
LEMMA OrderedRows ==
    ASSUME NEW messages, Ordered(messages)
    PROVE  /\ Len(messages) \in Nat
           /\ \A i \in 1 .. Len(messages) :
                messages[i] \in Row /\ messages[i].sequence = i /\ messages[i].length \in Nat
  <1>1. messages \in Seq(Row) /\ \A i \in 1 .. Len(messages) : messages[i].sequence = i
    BY DEF Ordered
  <1>2. Len(messages) \in Nat /\ \A i \in 1 .. Len(messages) : messages[i] \in Row
    BY <1>1, LenProperties, ElementOfSeq
  <1>3. \A m \in Row : m.length \in Nat
    BY DEF Row
  <1>4. QED BY <1>1, <1>2, <1>3

\* _truncate_for_context keeps the sequence number and shortens to the limit.
LEMMA TruncateKeeps ==
    ASSUME NEW m \in Row, NEW limit \in Nat
    PROVE  /\ Truncate(m, limit) \in Kept
           /\ Truncate(m, limit).sequence = m.sequence
           /\ Truncate(m, limit).length = Shorter(m.length, limit)
  BY SuffixAssumption DEF Truncate, Row, Kept, Shorter

\* One step of _bound_history leaves a list and a number that is not negative.
LEMMA KeepIsSelection ==
    ASSUME NEW m \in Row, NEW acc \in Selection, NEW through \in Nat, NEW p \in Limits
    PROVE  Keep(m, acc, through, p) \in Selection
  <1> DEFINE allowed == Shorter(p.max_message, acc.remaining)
             bounded == Truncate(m, allowed)
             all == Truncate(m, m.length)
  <1>1. /\ m.length \in Nat /\ allowed \in Nat
        /\ acc.remaining \in Nat /\ acc.selected \in Seq(Kept)
    BY DEF Row, Selection, Limits, Shorter
  <1>2. bounded \in Kept /\ bounded.length \in Nat /\ bounded.length <= acc.remaining
    <2> HIDE DEF allowed
    <2>1. bounded \in Kept /\ bounded.length = Shorter(m.length, allowed)
      BY <1>1, TruncateKeeps
    <2>2. QED BY <1>1, <2>1 DEF Shorter, allowed, Limits
  <1>3. all \in Kept
    BY <1>1, TruncateKeeps
  <1> HIDE DEF allowed, bounded, all
  <1>4. <<bounded>> \o acc.selected \in Seq(Kept) /\ <<all>> \o acc.selected \in Seq(Kept)
    BY <1>1, <1>2, <1>3, ConcatProperties
  <1>5. acc.remaining - bounded.length \in Nat
    BY <1>1, <1>2
  <1>6. Keep(m, acc, through, p)
          \in {acc,
               [selected |-> <<all>> \o acc.selected, remaining |-> acc.remaining],
               [selected |-> <<bounded>> \o acc.selected,
                remaining |-> acc.remaining - bounded.length]}
    BY DEF Keep, allowed, bounded, all
  <1>7. ASSUME NEW q \in Seq(Kept), NEW r \in Nat
        PROVE  [selected |-> q, remaining |-> r] \in Selection
    BY DEF Selection
  <1>8. QED BY <1>1, <1>4, <1>5, <1>6, <1>7

\* _bound_history is one such step for each message, from the newest.
LEMMA HistoryIsStepwise ==
    ASSUME NEW window \in Seq(Row), NEW through \in Nat, NEW p \in Limits
    PROVE  \E after \in [0 .. Len(window) -> Selection] :
             /\ after[0] = [selected |-> <<>>, remaining |-> p.max_history]
             /\ \A k \in 1 .. Len(window) :
                  after[k] = Keep(window[Len(window) - k + 1], after[k - 1], through, p)
             /\ BoundHistory(window, through, p) = after[Len(window)].selected
  <1> DEFINE n == Len(window)
             b == [selected |-> <<>>, remaining |-> p.max_history]
             st == [k \in 1 .. n |->
                      [acc \in Selection |-> Keep(window[n - k + 1], acc, through, p)]]
             Eq(f) == f = [k \in 0 .. n |-> IF k = 0 THEN b
                                ELSE Keep(window[n - k + 1], f[k - 1], through, p)]
  <1>1. n \in Nat /\ \A i \in 1 .. n : window[i] \in Row
    BY LenProperties, ElementOfSeq
  <1>2. b \in Selection
    BY EmptySeq DEF Selection, Limits
  <1>3. ASSUME NEW k \in 1 .. n, NEW acc \in Selection
        PROVE  Keep(window[n - k + 1], acc, through, p) \in Selection
    <2>1. window[n - k + 1] \in Row
      BY <1>1
    <2>2. QED BY <2>1, KeepIsSelection
  <1>4. st \in [1 .. n -> [Selection -> Selection]]
    BY <1>3
  <1>5. PICK f \in [0 .. n -> Selection] : Computes(f, n, b, st)
    <2> HIDE DEF n, b, st
    <2>1. n \in Nat
      BY <1>1
    <2>2. ASSUME NEW n_ \in Nat, NEW b_ \in Selection,
                 NEW st_ \in [1 .. n_ -> [Selection -> Selection]]
          PROVE  \E f \in [0 .. n_ -> Selection] :
                   Computes(f, n_, b_, st_)
      BY StepwiseExists, Zenon
    <2>3. QED BY <2>1, <1>2, <1>4, <2>2
  <1>6. ASSUME NEW k \in 1 .. n
        PROVE  f[k] = Keep(window[n - k + 1], f[k - 1], through, p)
    <2>1. k - 1 \in 0 .. n
      BY <1>1
    <2>2. f[k - 1] \in Selection
      BY <2>1, <1>5
    <2>3. st[k][f[k - 1]] = Keep(window[n - k + 1], f[k - 1], through, p)
      BY <2>2
    <2>4. QED BY <1>5, <2>3 DEF Computes
  <1> HIDE DEF n, b, st
  <1>7. Eq(f)
    <2>1. \A k \in 0 .. n :
            f[k] = IF k = 0 THEN b ELSE Keep(window[n - k + 1], f[k - 1], through, p)
      BY <1>1, <1>5, <1>6 DEF Computes
    <2>2. QED BY <1>5, <2>1
  <1> DEFINE after == CHOOSE f_ : Eq(f_)
  <1>8. Eq(after)
    <2> HIDE DEF Eq
    <2>1. QED BY <1>7
  <1>9. BoundHistory(window, through, p) = after[n].selected
    BY Zenon DEF BoundHistory, n, b
  <1> HIDE DEF after
  <1>10. /\ DOMAIN after = 0 .. n
         /\ after[0] = b
         /\ \A k \in 1 .. n : after[k] = Keep(window[n - k + 1], after[k - 1], through, p)
    BY <1>8, <1>1
  <1>11. \A k \in 0 .. n : after[k] = f[k]
    <2> DEFINE S == {k \in 0 .. n : after[k] = f[k]}
    <2>1. 0 \in S
      BY <1>1, <1>5, <1>10 DEF Computes
    <2>2. \A k \in 1 .. n : k - 1 \in S => k \in S
      BY <1>1, <1>6, <1>10
    <2>3. \A k \in 0 .. n : k \in S
      <3> HIDE DEF S
      <3>1. QED BY <1>1, <2>1, <2>2, Stepwise
    <2>4. QED BY <2>3
  <1>12. BoundHistory(window, through, p) = f[n].selected
    BY <1>1, <1>9, <1>11
  <1>13. QED BY <1>5, <1>6, <1>12 DEF n, b, Computes

\* What Characters computes, when something computes it at all.
LEMMA CharactersAre ==
    ASSUME NEW context, Len(context) \in Nat \ {0}, NEW g \in [0 .. (Len(context) - 1) -> Nat],
           g[0] = 0,
           \A k \in 1 .. (Len(context) - 1) :
             g[k] = g[k - 1] + context[Len(context) - k].length
    PROVE  Characters(context)[Len(context) - 1] = g[Len(context) - 1]
  <1> DEFINE n == Len(context) - 1
             Eq(f) == f = [k \in 0 .. n |-> IF k = 0 THEN 0
                                ELSE f[k - 1] + context[Len(context) - k].length]
             sum == CHOOSE f : Eq(f)
  <1>1. n \in Nat
    OBVIOUS
  <1>2. Eq(g)
    <2>1. \A k \in 0 .. n :
            g[k] = IF k = 0 THEN 0 ELSE g[k - 1] + context[Len(context) - k].length
      OBVIOUS
    <2>2. QED BY <2>1
  <1>3. Eq(sum)
    <2> HIDE DEF Eq
    <2>1. QED BY <1>2
  <1>4. Characters(context) = sum
    BY Zenon DEF Characters
  <1> HIDE DEF sum
  <1>5. sum[0] = 0 /\ \A k \in 1 .. n : sum[k] = sum[k - 1] + context[Len(context) - k].length
    BY <1>1, <1>3
  <1> DEFINE S == {k \in 0 .. n : sum[k] = g[k]}
  <1>6. 0 \in S
    BY <1>1, <1>5
  <1>7. \A k \in 1 .. n : k - 1 \in S => k \in S
    BY <1>1, <1>5
  <1>8. \A k \in 0 .. n : k \in S
    <2> HIDE DEF S, n
    <2>1. QED BY <1>1, <1>6, <1>7, Stepwise
  <1>9. n \in S
    BY <1>1, <1>8
  <1>10. QED BY <1>4, <1>9

\* The window is the run of messages that ends with the input.
LEMMA WindowIs ==
    ASSUME NEW messages, Ordered(messages), NEW through \in 1 .. Len(messages), NEW p \in Limits
    PROVE  LET w == Window(messages, through, p)
           IN /\ w \in Seq(Row)
              /\ Len(w) = Shorter(through, p.max_messages)
              /\ \A k \in 1 .. Len(w) : w[Len(w) - k + 1] = messages[through - k + 1]
  <1> DEFINE upto == {i \in 1 .. Len(messages) : messages[i].sequence <= through}
             lo == IF through > p.max_messages THEN through - p.max_messages + 1 ELSE 1
             w == SubSeq(messages, lo, through)
  <1>1. Len(messages) \in Nat /\ \A i \in 1 .. Len(messages) : messages[i] \in Row
    BY LenProperties, ElementOfSeq DEF Ordered
  <1>2. upto = 1 .. through
    BY <1>1 DEF Ordered
  <1>3. Cardinality(upto) = through
    <2>1. through \in Int /\ ~ (1 > through) /\ through - 1 + 1 = through
      BY <1>1
    <2>2. Cardinality(1 .. through) = through
      BY <2>1, FS_Interval
    <2>3. QED BY <1>2, <2>2
  <1>4. Window(messages, through, p) = w
    BY <1>3 DEF Window
  <1>5. p.max_messages \in Nat \ {0}
    BY DEF Limits
  <1>6. lo \in 1 .. through /\ through - lo + 1 = Shorter(through, p.max_messages)
    BY <1>1, <1>5 DEF Shorter
  <1> HIDE DEF lo
  <1>7. \A i \in lo .. through : messages[i] \in Row
    BY <1>1, <1>6
  <1>8. /\ w \in Seq(Row) /\ Len(w) = through - lo + 1
        /\ \A i \in 1 .. (through - lo + 1) : w[i] = messages[lo + i - 1]
    BY <1>1, <1>6, <1>7, SubSeqProperties
  <1> HIDE DEF w
  <1>9. ASSUME NEW k \in 1 .. Len(w) PROVE w[Len(w) - k + 1] = messages[through - k + 1]
    <2>1. /\ Len(w) - k + 1 \in 1 .. (through - lo + 1)
          /\ lo + (Len(w) - k + 1) - 1 = through - k + 1
      BY <1>1, <1>6, <1>8
    <2>2. QED BY <1>8, <2>1
  <1>10. QED BY <1>4, <1>6, <1>8, <1>9

\* A selection holds what the k newest messages allow: the induction
\* hypothesis of _bound_history.
Through(k, acc, messages, through, p) ==
    LET s == acc.selected
        n == Len(acc.selected)
    IN /\ n \in 1 .. k
       /\ s[n].sequence = through /\ s[n].length = messages[through].length
       /\ \A i \in 1 .. n : s[i].sequence \in (through - k + 1) .. through
       /\ \A i \in 1 .. (n - 1) :
            /\ s[i].sequence < s[i + 1].sequence
            /\ s[i].length \in 1 .. Shorter(p.max_message, messages[s[i].sequence].length)
       /\ \E g \in [0 .. (n - 1) -> Nat] :
            /\ g[0] = 0 /\ \A j \in 1 .. (n - 1) : g[j] = g[j - 1] + s[n - j].length
            /\ g[n - 1] + acc.remaining = p.max_history
       /\ \A t \in (through - k + 1) .. (through - 1) :
            messages[t].length > 0 /\ (\A i \in 1 .. n : s[i].sequence # t) =>
              acc.remaining = 0 /\ \A i \in 1 .. n : s[i].sequence > t

\* The input is the newest message and is kept whole.
LEMMA FirstKept ==
    ASSUME NEW messages, Ordered(messages), NEW through \in 1 .. Len(messages), NEW p \in Limits
    PROVE  Through(1, Keep(messages[through], [selected |-> <<>>, remaining |-> p.max_history],
                           through, p), messages, through, p)
  <1> DEFINE m == messages[through]
             all == Truncate(m, m.length)
             acc == [selected |-> <<all>>, remaining |-> p.max_history]
  <1>1. m \in Row /\ m.sequence = through /\ m.length \in Nat /\ through \in Nat
    BY OrderedRows
  <1>2. all \in Kept /\ all.sequence = through /\ all.length = m.length
    BY <1>1, TruncateKeeps DEF Shorter
  <1> HIDE DEF all
  <1>3. <<all>> \o <<>> = <<all>>
    BY <1>2, ConcatEmptySeq
  <1>4. Keep(m, [selected |-> <<>>, remaining |-> p.max_history], through, p) = acc
    BY <1>1, <1>3 DEF Keep, all
  <1>5. Through(1, acc, messages, through, p)
    <2> DEFINE g == [j \in 0 .. 0 |-> 0]
    <2>1. p.max_history \in Nat
      BY DEF Limits
    <2>2. g \in [0 .. 0 -> Nat] /\ g[0] = 0 /\ g[0] + p.max_history = p.max_history
      BY <2>1
    <2>3. Len(<<all>>) = 1 /\ <<all>>[1] = all
      OBVIOUS
    <2>4. \E h \in [0 .. (1 - 1) -> Nat] :
            /\ h[0] = 0 /\ \A j \in 1 .. (1 - 1) : h[j] = h[j - 1] + <<all>>[1 - j].length
            /\ h[1 - 1] + p.max_history = p.max_history
      <3> HIDE DEF g
      <3>1. QED BY <2>2
    <2>5. QED BY <1>1, <1>2, <2>3, <2>4 DEF Through
  <1>6. QED BY <1>4, <1>5

\* An older message is put in front while there is room, and then nothing is.
LEMMA NextKept ==
    ASSUME NEW messages, Ordered(messages), NEW through \in 1 .. Len(messages), NEW p \in Limits,
           NEW k \in 1 .. (through - 1), NEW acc \in Selection,
           Through(k, acc, messages, through, p)
    PROVE  Through(k + 1, Keep(messages[through - k], acc, through, p), messages, through, p)
  <1> DEFINE m == messages[through - k]
             s == acc.selected
             n == Len(acc.selected)
             r == acc.remaining
             allowed == Shorter(p.max_message, r)
             b == Truncate(m, allowed)
  <1>1. /\ Len(messages) \in Nat
        /\ \A i \in 1 .. Len(messages) :
             messages[i] \in Row /\ messages[i].sequence = i /\ messages[i].length \in Nat
    BY OrderedRows
  <1>2. /\ through \in Nat /\ k \in Nat
        /\ through - k \in 1 .. Len(messages) /\ through - k # through
        /\ m \in Row /\ m.sequence = through - k /\ m.length \in Nat
    BY <1>1
  <1>3. s \in Seq(Kept) /\ r \in Nat /\ n \in Nat
    BY LenProperties DEF Selection
  <1>4. \A i \in 1 .. n : s[i] \in Kept /\ s[i].sequence \in Nat /\ s[i].length \in Nat
    <2>1. \A i \in 1 .. n : s[i] \in Kept
      BY <1>3, ElementOfSeq
    <2>2. \A x \in Kept : x.sequence \in Nat /\ x.length \in Nat
      BY DEF Kept
    <2>3. QED BY <2>1, <2>2
  <1>5. p.max_message \in Nat \ {0} /\ p.max_history \in Nat
    BY DEF Limits
  <1> HIDE DEF m
  <1>6. CASE m.length = 0 \/ r = 0
    <2>1. Keep(m, acc, through, p) = acc
      BY <1>2, <1>6 DEF Keep
    <2>2. ASSUME NEW t \in (through - (k + 1) + 1) .. (through - 1), messages[t].length > 0,
                 \A i \in 1 .. n : s[i].sequence # t
          PROVE  r = 0 /\ \A i \in 1 .. n : s[i].sequence > t
      <3>1. CASE t = through - k
        <4>1. r = 0
          BY <1>2, <1>6, <2>2, <3>1 DEF m
        <4>2. \A i \in 1 .. n : s[i].sequence \in (through - k + 1) .. through
          BY DEF Through
        <4> HIDE DEF s, n, r
        <4>3. \A i \in 1 .. n : s[i].sequence > t
          BY <1>2, <3>1, <4>2
        <4>4. QED BY <4>1, <4>3
      <3>2. CASE t # through - k
        <4>1. t \in (through - k + 1) .. (through - 1)
          BY <1>2, <3>2
        <4>2. QED BY <2>2, <4>1 DEF Through
      <3>3. QED BY <3>1, <3>2
    <2>3. n \in 1 .. (k + 1)
      BY <1>2 DEF Through
    <2>4. \A i \in 1 .. n : s[i].sequence \in (through - (k + 1) + 1) .. through
      BY <1>2, <1>4 DEF Through
    <2>5. Through(k + 1, acc, messages, through, p)
      BY <2>2, <2>3, <2>4 DEF Through
    <2>6. QED BY <2>1, <2>5 DEF m
  <1>7. CASE m.length # 0 /\ r # 0
    <2> DEFINE s1 == <<b>> \o s
               acc1 == [selected |-> s1, remaining |-> r - b.length]
    <2>1. Keep(m, acc, through, p) = acc1
      BY <1>2, <1>7 DEF Keep
    <2>2. allowed \in Nat \ {0} /\ allowed <= r /\ allowed <= p.max_message
      BY <1>3, <1>5, <1>7 DEF Shorter
    <2>3. /\ b \in Kept /\ b.sequence = through - k
          /\ b.length = Shorter(m.length, allowed)
      <3> HIDE DEF allowed
      <3>1. QED BY <1>2, <2>2, TruncateKeeps
    <2>4. /\ b.length \in 1 .. Shorter(p.max_message, m.length)
          /\ r - b.length \in Nat /\ b.length \in Nat
      <3> HIDE DEF allowed, b, r
      <3>1. b.length \in Nat \ {0} /\ b.length <= m.length /\ b.length <= allowed
        BY <1>2, <1>7, <2>2, <2>3 DEF Shorter
      <3>2. b.length <= p.max_message /\ b.length <= r
        BY <1>3, <1>5, <2>2, <3>1
      <3>3. QED BY <1>2, <1>3, <1>5, <3>1, <3>2 DEF Shorter
    <2> HIDE DEF allowed, b
    <2>5. /\ Len(s1) = n + 1 /\ s1[1] = b
          /\ \A i \in 1 .. n : s1[i + 1] = s[i]
      <3>1. <<b>> \in Seq(Kept) /\ Len(<<b>>) = 1 /\ <<b>>[1] = b
        BY <2>3
      <3>2. /\ Len(s1) = 1 + n
            /\ \A i \in 1 .. (1 + n) : s1[i] = IF i <= 1 THEN <<b>>[i] ELSE s[i - 1]
        BY <1>3, <3>1, ConcatProperties
      <3> HIDE DEF s1, s, n
      <3>3. QED BY <1>3, <3>1, <3>2
    <2> HIDE DEF s1
    <2>6. n \in 1 .. k /\ n + 1 \in 1 .. (k + 1)
      BY <1>2 DEF Through
    <2>7. s1[n + 1].sequence = through /\ s1[n + 1].length = messages[through].length
      <3>1. s1[n + 1] = s[n]
        <4> HIDE DEF s, n
        <4>1. n \in 1 .. n
          BY <1>3, <2>6
        <4>2. QED BY <2>5, <4>1
      <3>2. QED BY <3>1 DEF Through
    <2>8. \A i \in 1 .. n : s[i].sequence \in (through - k + 1) .. through
      BY DEF Through
    <2> HIDE DEF s, n, r
    <2>9. \A i \in 1 .. (n + 1) : i = 1 \/ (i - 1 \in 1 .. n /\ s1[i] = s[i - 1])
      BY <1>3, <2>5
    <2>10. ASSUME NEW i \in 1 .. (n + 1)
           PROVE  s1[i].sequence \in (through - (k + 1) + 1) .. through
      <3>1. CASE i = 1
        <4>1. s1[i].sequence = through - k
          BY <2>3, <2>5, <3>1
        <4>2. QED BY <1>2, <4>1
      <3>2. CASE i # 1
        <4>1. s1[i].sequence \in (through - k + 1) .. through
          BY <2>8, <2>9, <3>2
        <4>2. QED BY <1>2, <4>1
      <3>3. QED BY <3>1, <3>2
    <2>11. ASSUME NEW i \in 1 .. n
           PROVE  /\ s1[i].sequence < s1[i + 1].sequence
                  /\ s1[i].length \in 1 .. Shorter(p.max_message, messages[s1[i].sequence].length)
      <3>1. CASE i = 1
        <4>1. s1[i + 1] = s[1] /\ 1 \in 1 .. n
          BY <2>5, <2>6, <3>1
        <4>2. s[1].sequence > through - k
          BY <1>2, <2>8, <4>1
        <4>3. QED BY <2>3, <2>4, <2>5, <3>1, <4>1, <4>2, <1>2 DEF m
      <3>2. CASE i # 1
        <4>1. i - 1 \in 1 .. (n - 1) /\ s1[i] = s[i - 1] /\ s1[i + 1] = s[i] /\ (i - 1) + 1 = i
          BY <1>3, <2>5, <2>9, <3>2
        <4>2. /\ s[i - 1].sequence < s[(i - 1) + 1].sequence
              /\ s[i - 1].length \in 1 .. Shorter(p.max_message, messages[s[i - 1].sequence].length)
          BY <4>1 DEF Through, s, n
        <4>3. QED BY <4>1, <4>2
      <3>3. QED BY <3>1, <3>2
    <2>12. \E h \in [0 .. n -> Nat] :
             /\ h[0] = 0 /\ \A j \in 1 .. n : h[j] = h[j - 1] + s1[(n + 1) - j].length
             /\ h[n] + (r - b.length) = p.max_history
      <3>1. PICK g \in [0 .. (n - 1) -> Nat] :
              /\ g[0] = 0 /\ \A j \in 1 .. (n - 1) : g[j] = g[j - 1] + s[n - j].length
              /\ g[n - 1] + r = p.max_history
        BY DEF Through, s, n, r
      <3> DEFINE h == [j \in 0 .. n |-> IF j = n THEN g[n - 1] + b.length ELSE g[j]]
      <3>2. g[n - 1] \in Nat
        BY <2>6
      <3>3. h \in [0 .. n -> Nat]
        BY <2>4, <2>6, <3>2
      <3>4. h[0] = 0 /\ h[n] = g[n - 1] + b.length
        BY <2>6, <3>1
      <3>5. ASSUME NEW j \in 1 .. n PROVE h[j] = h[j - 1] + s1[(n + 1) - j].length
        <4>1. CASE j = n
          <5>1. h[n - 1] = g[n - 1] /\ (n + 1) - j = 1
            BY <2>6, <4>1
          <5>2. QED BY <2>5, <3>4, <4>1, <5>1
        <4>2. CASE j # n
          <5>1. h[j] = g[j] /\ h[j - 1] = g[j - 1] /\ j \in 1 .. (n - 1)
            BY <1>3, <4>2
          <5>2. s1[(n + 1) - j] = s[n - j]
            <6>1. n - j \in 1 .. n /\ (n - j) + 1 = (n + 1) - j
              BY <1>3, <5>1
            <6>2. QED BY <2>5, <6>1
          <5>3. QED BY <3>1, <5>1, <5>2
        <4>3. QED BY <4>1, <4>2
      <3>6. h[n] + (r - b.length) = p.max_history
        BY <1>3, <2>4, <3>1, <3>2, <3>4
      <3> HIDE DEF h
      <3>7. QED BY <3>3, <3>4, <3>5, <3>6
    <2>13. ASSUME NEW t \in (through - (k + 1) + 1) .. (through - 1), messages[t].length > 0,
                  \A i \in 1 .. (n + 1) : s1[i].sequence # t
           PROVE  FALSE
      <3>1. t # through - k
        BY <2>3, <2>5, <2>6, <2>13
      <3>2. t \in (through - k + 1) .. (through - 1)
        BY <1>2, <3>1
      <3>3. ASSUME NEW i \in 1 .. n PROVE s[i].sequence # t
        BY <1>3, <2>5, <2>13
      <3>4. r = 0
        BY <2>13, <3>2, <3>3 DEF Through, s, n, r
      <3>5. QED BY <1>7, <3>4
    <2>14. Through(k + 1, acc1, messages, through, p)
      <3>1. acc1.selected = s1 /\ acc1.remaining = r - b.length /\ (n + 1) - 1 = n
        BY <1>3
      <3>2. Len(acc1.selected) = n + 1
        BY <2>5, <3>1
      <3> HIDE DEF acc1
      <3>3. \A i \in 1 .. ((n + 1) - 1) :
              /\ s1[i].sequence < s1[i + 1].sequence
              /\ s1[i].length \in 1 .. Shorter(p.max_message, messages[s1[i].sequence].length)
        BY <2>11, <3>1
      <3>4. \E h \in [0 .. ((n + 1) - 1) -> Nat] :
              /\ h[0] = 0
              /\ \A j \in 1 .. ((n + 1) - 1) : h[j] = h[j - 1] + s1[(n + 1) - j].length
              /\ h[(n + 1) - 1] + acc1.remaining = p.max_history
        BY <2>12, <3>1
      <3>5. QED BY <2>6, <2>7, <2>10, <2>13, <3>1, <3>2, <3>3, <3>4, Zenon DEF Through
    <2>15. QED BY <2>1, <2>14 DEF m
  <1>8. QED BY <1>6, <1>7

\* What _context_through_input returns is the cut through the input, for
\* every conversation and every policy.
LEMMA ContextIsCut ==
    ASSUME NEW messages, Ordered(messages), NEW through \in 1 .. Len(messages), NEW p \in Limits
    PROVE  IsCut(ContextThroughInput(messages, through, p), messages, through, p)
  <1> DEFINE w == Window(messages, through, p)
             n == Len(w)
  <1>1. /\ Len(messages) \in Nat /\ through \in Nat \ {0}
        /\ \A i \in 1 .. Len(messages) :
             messages[i] \in Row /\ messages[i].sequence = i /\ messages[i].length \in Nat
    BY OrderedRows
  <1>2. p.max_messages \in Nat \ {0} /\ p.max_history \in Nat /\ p.max_message \in Nat
    BY DEF Limits
  <1>3. /\ w \in Seq(Row) /\ n = Shorter(through, p.max_messages)
        /\ \A k \in 1 .. n : w[n - k + 1] = messages[through - k + 1]
    BY WindowIs
  <1>4. n \in Nat \ {0} /\ n <= through /\ n <= p.max_messages
        /\ (n < through => n = p.max_messages)
    BY <1>1, <1>2, <1>3 DEF Shorter
  <1> HIDE DEF w, n
  <1>5. PICK after \in [0 .. n -> Selection] :
          /\ after[0] = [selected |-> <<>>, remaining |-> p.max_history]
          /\ \A k \in 1 .. n : after[k] = Keep(w[n - k + 1], after[k - 1], through, p)
          /\ BoundHistory(w, through, p) = after[n].selected
    BY <1>1, <1>3, HistoryIsStepwise DEF n
  <1>6. \A k \in 1 .. n : after[k] = Keep(messages[through - k + 1], after[k - 1], through, p)
    BY <1>3, <1>5
  <1> DEFINE S == {k \in 0 .. n : k = 0 \/ Through(k, after[k], messages, through, p)}
  <1>7. 0 \in S
    BY <1>4
  <1>8. ASSUME NEW k \in 1 .. n, k - 1 \in S PROVE k \in S
    <2>1. CASE k = 1
      <3>1. through - k + 1 = through /\ k - 1 = 0
        BY <1>1, <2>1
      <3>2. after[k] = Keep(messages[through], [selected |-> <<>>, remaining |-> p.max_history],
                            through, p)
        BY <1>5, <1>6, <3>1
      <3>3. Through(1, after[1], messages, through, p)
        BY <2>1, <3>2, FirstKept
      <3>4. QED BY <1>4, <2>1, <3>3
    <2>2. CASE k # 1
      <3> DEFINE j == k - 1
      <3>1. /\ j \in 1 .. (through - 1) /\ through - k + 1 = through - j /\ j + 1 = k
            /\ j \in 0 .. n /\ j # 0
        BY <1>1, <1>4, <2>2
      <3>2. after[j] \in Selection /\ Through(j, after[j], messages, through, p)
        BY <1>5, <1>8, <3>1
      <3>3. after[k] = Keep(messages[through - j], after[j], through, p)
        BY <1>6, <3>1
      <3> HIDE DEF j
      <3>4. Through(j + 1, Keep(messages[through - j], after[j], through, p), messages, through, p)
        BY <3>1, <3>2, NextKept
      <3>5. Through(k, after[k], messages, through, p)
        BY <3>1, <3>3, <3>4
      <3>6. QED BY <3>5
    <2>3. QED BY <2>1, <2>2
  <1>9. Through(n, after[n], messages, through, p)
    <2>1. \A k \in 1 .. n : k - 1 \in S => k \in S
      BY <1>8
    <2> HIDE DEF S
    <2>2. \A k \in 0 .. n : k \in S
      BY <1>4, <1>7, <2>1, Stepwise
    <2>3. n \in S
      BY <1>4, <2>2
    <2>4. QED BY <1>4, <2>3 DEF S
  <1> DEFINE c == after[n].selected
             L == Len(c)
             r == after[n].remaining
  <1>10. ContextThroughInput(messages, through, p) = c
    BY <1>5 DEF ContextThroughInput, w
  <1>11. after[n] \in Selection
    BY <1>4, <1>5
  <1>12. c \in Seq(Kept) /\ r \in Nat /\ L \in Nat
    BY <1>11, LenProperties DEF Selection
  <1>13. PICK g \in [0 .. (L - 1) -> Nat] :
           /\ g[0] = 0 /\ \A j \in 1 .. (L - 1) : g[j] = g[j - 1] + c[L - j].length
           /\ g[L - 1] + r = p.max_history
    BY <1>9 DEF Through
  <1>14. /\ L \in 1 .. n
         /\ c[L].sequence = through /\ c[L].length = messages[through].length
         /\ \A i \in 1 .. L : c[i].sequence \in (through - n + 1) .. through
         /\ \A i \in 1 .. (L - 1) :
              /\ c[i].sequence < c[i + 1].sequence
              /\ c[i].length \in 1 .. Shorter(p.max_message, messages[c[i].sequence].length)
         /\ \A t \in (through - n + 1) .. (through - 1) :
              messages[t].length > 0 /\ (\A i \in 1 .. L : c[i].sequence # t) =>
                r = 0 /\ \A i \in 1 .. L : c[i].sequence > t
    BY <1>9 DEF Through
  <1> HIDE DEF c, r
  <1>15. Characters(c)[L - 1] = g[L - 1]
    <2>1. Len(c) \in Nat \ {0}
      BY <1>12, <1>14, <1>4
    <2>2. QED BY <1>13, <2>1, CharactersAre
  <1> DEFINE used == Characters(c)[L - 1]
             kept == {c[i].sequence : i \in 1 .. L}
  <1>16. used \in Nat /\ used + r = p.max_history /\ used <= p.max_history
    <2>1. L - 1 \in 0 .. (L - 1)
      BY <1>4, <1>12, <1>14
    <2>2. g[L - 1] \in Nat
      BY <1>13, <2>1
    <2>3. QED BY <1>2, <1>12, <1>13, <1>15, <2>2
  <1>17. ASSUME NEW t \in 1 .. (through - 1), messages[t].length > 0, t \notin kept
         PROVE  /\ \A q \in kept : q > t
                /\ used = p.max_history \/ through - t >= p.max_messages
    <2>1. \A i \in 1 .. L : c[i].sequence # t
      BY <1>17
    <2>2. CASE t \in (through - n + 1) .. (through - 1)
      <3>1. r = 0 /\ \A i \in 1 .. L : c[i].sequence > t
        BY <1>14, <1>17, <2>1, <2>2
      <3>2. used = p.max_history
        BY <1>16, <3>1
      <3>3. QED BY <3>1, <3>2
    <2>3. CASE t < through - n + 1
      <3>1. n < through
        BY <1>1, <1>4, <2>3
      <3>2. through - t >= p.max_messages
        BY <1>1, <1>4, <2>3, <3>1
      <3>3. ASSUME NEW i \in 1 .. L PROVE c[i].sequence > t
        <4>1. c[i].sequence \in (through - n + 1) .. through
          BY <1>14
        <4>2. QED BY <1>1, <1>4, <2>3, <4>1
      <3>4. QED BY <3>2, <3>3
    <2>4. QED BY <1>1, <1>4, <2>2, <2>3
  <1>18. L >= 1 /\ L <= p.max_messages
    BY <1>2, <1>4, <1>14
  <1> HIDE DEF used, kept
  <1>19. IsCut(c, messages, through, p)
    BY <1>14, <1>16, <1>17, <1>18, Zenon DEF IsCut, used, kept
  <1>20. QED BY <1>10, <1>19

\* Where a context is on display, and under which policy it was cut.
Shows == {"asked", "routed", "answered", "working", "acted"}
PolicyAt(where) == CASE where \in {"asked", "routed"} -> RouterPolicy
                     [] where = "answered" -> DirectPolicy
                     [] OTHER -> TaskPolicy

\* The conversation is numbered without a gap, the input is one of its
\* messages once it has arrived, and what is on display is the cut through it.
CutInv ==
    /\ Ordered(conv)
    /\ stage \notin {"new", "refused"} => input \in 1 .. Len(conv)
    /\ stage \notin Shows => shown = <<>>
    /\ stage \in Shows => IsCut(shown, conv, input, PolicyAt(stage))

\* A message of any length joins the end of the conversation.
LEMMA AppendOrdered ==
    ASSUME NEW n \in Lengths, Ordered(conv)
    PROVE  /\ Ordered(Append(conv, Msg(n)))
           /\ Len(Append(conv, Msg(n))) = Len(conv) + 1 /\ Len(conv) \in Nat
  <1>1. conv \in Seq(Row) /\ Len(conv) \in Nat
    BY OrderedRows DEF Ordered
  <1>2. Msg(n) \in Row /\ Msg(n).sequence = Len(conv) + 1
    BY <1>1, LengthsAssumption DEF Msg, Row
  <1> DEFINE e == Msg(n)
             longer == Append(conv, e)
  <1> HIDE DEF e
  <1>3. /\ longer \in Seq(Row) /\ Len(longer) = Len(conv) + 1
        /\ \A i \in 1 .. Len(conv) : longer[i] = conv[i]
        /\ longer[Len(conv) + 1] = e
    BY <1>1, <1>2, AppendProperties DEF e
  <1> HIDE DEF longer
  <1>4. ASSUME NEW i \in 1 .. Len(longer) PROVE longer[i].sequence = i
    <2>1. CASE i = Len(conv) + 1
      BY <1>2, <1>3, <2>1 DEF e
    <2>2. CASE i # Len(conv) + 1
      <3>1. i \in 1 .. Len(conv)
        BY <1>1, <1>3, <2>2
      <3>2. QED BY <1>3, <3>1 DEF Ordered
    <2>3. QED BY <2>1, <2>2
  <1>5. QED BY <1>1, <1>3, <1>4 DEF Ordered, longer, e

\* The three policies leave room for at least one message.
LEMMA PoliciesAreLimits ==
    RouterPolicy \in Limits /\ DirectPolicy \in Limits /\ TaskPolicy \in Limits
  BY DEF RouterPolicy, DirectPolicy, TaskPolicy, Policy, Limits

\* Every step keeps it.
LEMMA CutStep == CutInv /\ [TurnNext]_turn_vars => CutInv'
  <1> SUFFICES ASSUME CutInv, [TurnNext]_turn_vars PROVE CutInv'
    OBVIOUS
  <1>1. Ordered(conv) /\ (stage \notin {"new", "refused"} => input \in 1 .. Len(conv))
    BY DEF CutInv
  <1>2. ASSUME UNCHANGED <<conv, input, shown>>,
               stage' = stage \/ (stage = "asked" /\ stage' = "routed")
                 \/ (stage = "working" /\ stage' = "acted")
        PROVE  CutInv'
    <2>1. stage' \in Shows <=> stage \in Shows
      BY <1>2 DEF Shows
    <2>2. PolicyAt(stage') = PolicyAt(stage)
      BY <1>2 DEF PolicyAt
    <2>3. stage' \notin {"new", "refused"} <=> stage \notin {"new", "refused"}
      BY <1>2
    <2>4. QED BY <1>2, <2>1, <2>2, <2>3 DEF CutInv
  <1>3. CASE OtherMessage
    <2>1. PICK n \in Lengths : conv' = Append(conv, Msg(n))
      BY <1>3 DEF OtherMessage
    <2>2. Ordered(conv') /\ Len(conv') = Len(conv) + 1 /\ Len(conv) \in Nat
      BY <1>1, <2>1, AppendOrdered
    <2>3. stage \notin Shows /\ UNCHANGED <<stage, input, shown>>
      BY <1>3 DEF OtherMessage, Shows
    <2>4. QED BY <1>1, <2>2, <2>3 DEF CutInv
  <1>4. CASE EditAgents
    BY <1>2, <1>4 DEF EditAgents
  <1>5. CASE OtherTaskEnds
    BY <1>2, <1>5 DEF OtherTaskEnds
  <1>6. CASE Arrive
    <2>1. stage' \notin Shows /\ shown' = <<>>
      BY <1>6 DEF Arrive, CutInv, Shows
    <2>2. CASE stage' = "refused" /\ conv' = conv
      BY <1>1, <2>1, <2>2 DEF CutInv
    <2>3. CASE /\ \E n \in Lengths : conv' = Append(conv, Msg(n))
               /\ input' = Len(conv) + 1
      <3>1. PICK n \in Lengths : conv' = Append(conv, Msg(n))
        BY <2>3
      <3>2. Ordered(conv') /\ Len(conv') = Len(conv) + 1 /\ Len(conv) \in Nat
        BY <1>1, <3>1, AppendOrdered
      <3>3. input' \in 1 .. Len(conv')
        BY <2>3, <3>2
      <3>4. QED BY <2>1, <3>2, <3>3 DEF CutInv
    <2>4. QED BY <1>6, <2>2, <2>3 DEF Arrive
  <1>7. ASSUME NEW p \in Limits, UNCHANGED <<conv, input>>, stage \notin {"new", "refused"},
               stage' \in Shows, p = PolicyAt(stage'),
               shown' = ContextThroughInput(conv, input, p)
        PROVE  CutInv'
    <2>1. IsCut(shown', conv, input, p)
      BY <1>1, <1>7, ContextIsCut
    <2>2. stage' \notin {"new", "refused"}
      BY <1>7 DEF Shows
    <2>3. QED BY <1>1, <1>7, <2>1, <2>2 DEF CutInv
  <1>8. CASE Route
    <2>1. /\ UNCHANGED <<conv, input>> /\ stage = "admitted" /\ stage' \in {"asked", "routed"}
          /\ shown' = ContextThroughInput(conv, input, RouterPolicy)
      BY <1>8 DEF Route
    <2>2. PolicyAt(stage') = RouterPolicy /\ stage' \in Shows
      BY <2>1 DEF PolicyAt, Shows
    <2>3. QED BY <1>7, <2>1, <2>2, PoliciesAreLimits
  <1>9. CASE RouterAnswers
    BY <1>2, <1>9 DEF RouterAnswers
  <1>10. CASE Dispatch
    <2>1. /\ UNCHANGED <<conv, input>> /\ stage = "routed" /\ shown' = <<>>
          /\ stage' \in {"answering", "accepted", "delegated", "failed"}
      BY <1>10 DEF Dispatch
    <2>2. stage' \notin Shows /\ stage \notin {"new", "refused"}
      BY <2>1 DEF Shows
    <2>3. QED BY <1>1, <2>1, <2>2 DEF CutInv
  <1>11. CASE AnswerDirectly
    <2>1. /\ UNCHANGED <<conv, input>> /\ stage = "answering" /\ stage' = "answered"
          /\ shown' = ContextThroughInput(conv, input, DirectPolicy)
      BY <1>11 DEF AnswerDirectly
    <2>2. PolicyAt(stage') = DirectPolicy /\ stage' \in Shows
      BY <2>1 DEF PolicyAt, Shows
    <2>3. QED BY <1>7, <2>1, <2>2, PoliciesAreLimits
  <1>12. CASE StartTask
    <2>1. /\ UNCHANGED <<conv, input>> /\ stage = "accepted" /\ stage' = "working"
          /\ shown' = ContextThroughInput(conv, input, TaskPolicy)
      BY <1>12 DEF StartTask
    <2>2. PolicyAt(stage') = TaskPolicy /\ stage' \in Shows
      BY <2>1 DEF PolicyAt, Shows
    <2>3. QED BY <1>7, <2>1, <2>2, PoliciesAreLimits
  <1>13. CASE ModelAnswers
    BY <1>2, <1>13 DEF ModelAnswers
  <1>14. CASE UNCHANGED turn_vars
    BY <1>2, <1>14 DEF turn_vars
  <1>15. QED BY <1>3, <1>4, <1>5, <1>6, <1>8, <1>9, <1>10, <1>11, <1>12, <1>13, <1>14
       DEF TurnNext

\* What a model is shown is the cut of the conversation through its input:
\* for conversations and texts of any length, however much is said while the
\* Task waits (context.py:88-163, store.py:494-533).
THEOREM ContextsAreCuts == TurnSpec => []ContextIsTheInputCut
  <1>1. TurnInit => CutInv
    BY EmptySeq DEF TurnInit, CutInv, Shows, Ordered
  <1>2. CutInv => ContextIsTheInputCut
    BY DEF CutInv, ContextIsTheInputCut, PolicyAt
  <1>3. QED BY <1>1, <1>2, CutStep, PTL DEF TurnSpec

------------------------------------------------------------------------------
(* CapabilityCalls: any calls, any timeout and grace period.               *)

\* Where a call of each adapter can be, and what its process is there.
SshPlace(c) ==
    \/ at[c] \in {"idle", "spawn"} /\ process[c] = "none" /\ code[c] = NoCode
    \/ /\ at[c] \in {"loop", "wait", "stop_canceled", "stop_timed_out", "term_canceled",
                     "term_timed_out", "kill_canceled", "kill_timed_out"}
       /\ \/ process[c] = "running" /\ code[c] = NoCode
          \/ process[c] = "exited" /\ code[c] # NoCode
    \/ at[c] = "done" /\ process[c] # "running"
McpPlace(c) ==
    \/ at[c] = "idle" /\ process[c] = "none"
    \/ at[c] \in {"session", "templates", "closing", "cleanup"} /\ process[c] = "running"
    \/ at[c] = "done" /\ process[c] # "running"
ModelPlace(c) == at[c] \in {"idle", "request", "done"} /\ process[c] = "none"

\* A time is not after the Task's deadline; a cancellation is at most one poll
\* older than a time.
Within(end) == deadline # NoDeadline => end <= deadline
Heeded(end) == cancel => end <= cancelled_at + 1

\* The bounds an ssh call carries from place to place: its limit lies within
\* the deadline, a wait within its limit and one poll, a stop within the grace
\* period; and the reason of a stop stays true.
SshTimes(c) ==
    LET f == frame[c]
        end == f.started + f.limit
    IN /\ at[c] = "spawn" => Within(now + f.limit) /\ Heeded(now)
       /\ Underway(c) /\ at[c] # "spawn" => f.started <= now /\ Within(end)
       /\ at[c] \in {"loop", "stop_canceled", "stop_timed_out"} =>
            now <= end /\ Heeded(now)
       /\ at[c] = "wait" =>
            /\ now <= f.until /\ f.until <= end
            /\ f.until <= now + 1 /\ Heeded(f.until)
       /\ at[c] \in {"term_canceled", "term_timed_out"} =>
            /\ now <= f.until /\ f.until <= end + Grace
            /\ f.until <= now + Grace /\ Heeded(f.until - Grace)
       /\ at[c] \in {"kill_canceled", "kill_timed_out"} =>
            now <= end + Grace /\ Heeded(now - Grace)
       /\ Canceling(c) => cancel
       /\ at[c] \in {"stop_timed_out", "term_timed_out", "kill_timed_out"} => end <= now

\* An MCP session ends by its own timeout, and its cleanup starts there.
McpTimes(c) ==
    LET f == frame[c] IN
      /\ at[c] \in {"session", "templates", "closing"} =>
           now <= f.until /\ f.until = f.started + Timeout /\ f.limit = Timeout
      /\ at[c] = "cleanup" =>
           /\ f.until = f.started + Timeout + Grace /\ f.limit = Timeout
           /\ f.started + Timeout <= now /\ now <= f.until

\* A model request has its limit once, and once more for every piece.
ModelTimes(c) ==
    LET f == frame[c] IN
      at[c] = "request" =>
        /\ f.limit <= Timeout /\ f.started <= now /\ Within(f.started + f.limit)
        /\ now <= f.until /\ f.started + f.limit <= f.until
        /\ f.until <= f.started + f.limit + f.chunks * f.limit

CallInv(c) ==
    /\ c \in SshCalls => SshPlace(c) /\ SshTimes(c)
    /\ c \in McpCalls => McpPlace(c) /\ McpTimes(c)
    /\ c \in ModelCalls => ModelPlace(c) /\ ModelTimes(c)

CallsInv ==
    /\ CallsTypeOK
    /\ cancel => cancelled_at <= now
    /\ \A c \in Calls : CallInv(c)

\* A step of call c leaves the processes and codes of the others alone.
OnlyCall(c) ==
    /\ process' \in [Calls -> {"none", "running", "exited"}]
    /\ code' \in [Calls -> {NoCode, 0, 1, 255}]
    /\ \A d \in Calls \ {c} : process'[d] = process[d] /\ code'[d] = code[d]

Frames == [limit : Nat, started : Nat, until : Nat, chunks : Nat]

------------------------------------------------------------------------------
\* A call of which nothing changes, at the same time, is where it was.
LEMMA CallStays ==
    ASSUME NEW d \in Calls, CallInv(d), UNCHANGED clock,
           at'[d] = at[d], frame'[d] = frame[d], process'[d] = process[d],
           code'[d] = code[d]
    PROVE  CallInv(d)'
  BY DEF CallInv, SshPlace, McpPlace, ModelPlace, SshTimes, McpTimes, ModelTimes,
         Within, Heeded, Underway, Canceling, clock

\* A call that returns without a running process keeps the invariant.
LEMMA ReturnKeeps ==
    ASSUME CallsInv, NEW c \in Calls, NEW o \in Outcome \ {"none"}, NEW r \in BOOLEAN,
           Return(c, o, r), OnlyCall(c), UNCHANGED clock,
           process'[c] # "running", c \in ModelCalls => process'[c] = "none"
    PROVE  CallsInv'
  <1> USE DEF CallsInv
  <1>1. CallsTypeOK'
    <2>1. at' \in [Calls -> Places] /\ frame' \in [Calls -> Frames]
      BY DEF Return, CallsTypeOK, Places, Frames, NoFrame
    <2>2. outcome' \in [Calls -> Outcome] /\ retryable' \in [Calls -> BOOLEAN]
      BY DEF Return, CallsTypeOK
    <2>3. \A d \in Calls : (at'[d] = "done") <=> (outcome'[d] # "none")
      BY DEF Return, CallsTypeOK
    <2>4. QED BY <2>1, <2>2, <2>3 DEF CallsTypeOK, OnlyCall, clock, Frames
  <1>2. at'[c] = "done"
    BY DEF Return, CallsTypeOK
  <1>3. CallInv(c)'
    BY <1>2, OneAdapter
       DEF CallInv, SshPlace, McpPlace, ModelPlace, SshTimes, McpTimes,
       ModelTimes, Underway, Canceling, Calls
  <1>4. ASSUME NEW d \in Calls \ {c}
        PROVE  CallInv(d)'
    <2>1. at'[d] = at[d] /\ frame'[d] = frame[d]
      BY DEF Return, CallsTypeOK
    <2>2. QED BY <2>1, CallStays DEF OnlyCall
  <1>5. QED BY <1>1, <1>3, <1>4 DEF clock

\* A call that goes on keeps the invariant if it is right at its new place.
LEMMA GotoKeeps ==
    ASSUME CallsInv, NEW c \in Calls, NEW p \in Places \ {"done"}, NEW f \in Frames,
           at[c] # "done", Goto(c, p, f), OnlyCall(c), UNCHANGED clock,
           at'[c] = p /\ frame'[c] = f => CallInv(c)'
    PROVE  CallsInv'
  <1> USE DEF CallsInv
  <1>1. CallsTypeOK'
    <2>1. at' \in [Calls -> Places] /\ frame' \in [Calls -> Frames]
      BY DEF Goto, CallsTypeOK, Frames
    <2>2. \A d \in Calls : (at'[d] = "done") <=> (outcome'[d] # "none")
      BY DEF Goto, CallsTypeOK
    <2>3. QED BY <2>1, <2>2 DEF Goto, CallsTypeOK, OnlyCall, clock, Frames
  <1>2. CallInv(c)'
    BY DEF Goto, CallsTypeOK
  <1>3. ASSUME NEW d \in Calls \ {c}
        PROVE  CallInv(d)'
    <2>1. at'[d] = at[d] /\ frame'[d] = frame[d]
      BY DEF Goto, CallsTypeOK
    <2>2. QED BY <2>1, CallStays DEF OnlyCall
  <1>4. QED BY <1>1, <1>2, <1>3 DEF clock

\* The effective timeout is at most the adapter's, and what it allows ends
\* before the deadline.
LEMMA EffectiveTimeoutBounds ==
    ASSUME CallsTypeOK
    PROVE  /\ EffectiveTimeout \in Nat /\ EffectiveTimeout <= Timeout
           /\ EffectiveTimeout > 0 => Within(now + EffectiveTimeout)
           /\ EffectiveTimeout <= 0 => deadline # NoDeadline /\ deadline <= now
  BY CallBounds
     DEF EffectiveTimeout, Remaining, Least, Within, NoDeadline, CallsTypeOK

\* The steps of an ssh call that changes no process.
LEMMA SshQuietStep ==
    ASSUME CallsInv, NEW c \in SshCalls,
           SshBegin(c) \/ SshLoop(c) \/ SshWait(c) \/ SshStop(c) \/ SshTerminate(c)
    PROVE  CallsInv'
  <1> DEFINE f == frame[c]
  <1>1. /\ c \in Calls /\ c \notin McpCalls /\ c \notin ModelCalls
        /\ SshPlace(c) /\ SshTimes(c) /\ f \in Frames
        /\ now \in Nat /\ cancelled_at \in Nat /\ deadline \in Nat \cup {NoDeadline}
    BY OneAdapter DEF Calls, CallsInv, CallInv, CallsTypeOK, Frames
  <1>2. OnlyCall(c) /\ UNCHANGED clock /\ process'[c] = process[c] /\ code'[c] = code[c]
    BY ZenonT(60)
       DEF SshBegin, SshLoop, SshWait, SshStop, SshTerminate, OnlyCall, CallsInv,
           CallsTypeOK
  <1>3. CASE SshBegin(c)
    <2>1. CASE cancel
      BY <1>1, <1>2, <1>3, <2>1, ReturnKeeps DEF SshBegin, SshPlace, Outcome
    <2>2. CASE ~cancel /\ EffectiveTimeout <= 0
      BY <1>1, <1>2, <1>3, <2>2, ReturnKeeps DEF SshBegin, SshPlace, Outcome
    <2>3. CASE ~cancel /\ ~(EffectiveTimeout <= 0)
      <3> DEFINE g == [NoFrame EXCEPT !.limit = EffectiveTimeout]
      <3>1. EffectiveTimeout \in Nat /\ Within(now + EffectiveTimeout)
        BY <2>3, EffectiveTimeoutBounds DEF CallsInv
      <3>2. g \in Frames /\ g.limit = EffectiveTimeout
        BY <3>1 DEF NoFrame, Frames
      <3>3. at'[c] = "spawn" /\ frame'[c] = g => CallInv(c)'
        BY <1>1, <1>2, <1>3, <2>3, <3>1, <3>2
           DEF SshBegin, CallInv, SshPlace, SshTimes, Within, Heeded, Underway, Canceling,
               clock
      <3>4. at[c] # "done" /\ Goto(c, "spawn", g)
        BY <1>3, <2>3 DEF SshBegin
      <3>5. QED BY <1>1, <1>2, <3>2, <3>3, <3>4, GotoKeeps DEF Places
    <2>4. QED BY <2>1, <2>2, <2>3
  <1>4. CASE SshLoop(c)
    <2> DEFINE left == f.limit - (now - f.started)
    <2>1. CASE cancel
      <3>1. at'[c] = "stop_canceled" /\ frame'[c] = f => CallInv(c)'
        BY <1>1, <1>2, <1>4, <2>1
           DEF SshLoop, CallInv, SshPlace, SshTimes, Within, Heeded, Underway, Canceling, clock
      <3>2. QED BY <1>1, <1>2, <1>4, <2>1, <3>1, GotoKeeps DEF SshLoop, Places
    <2>2. CASE ~cancel /\ left <= 0
      <3>1. at'[c] = "stop_timed_out" /\ frame'[c] = f => CallInv(c)'
        BY <1>1, <1>2, <1>4, <2>2
           DEF SshLoop, CallInv, SshPlace, SshTimes, Within, Heeded,
           Underway, Canceling, clock, Frames
      <3>2. QED BY <1>1, <1>2, <1>4, <2>2, <3>1, GotoKeeps DEF SshLoop, Places
    <2>3. CASE ~cancel /\ ~(left <= 0)
      <3> DEFINE g == [f EXCEPT !.until = now + Least(1, left)]
      <3>1. /\ g \in Frames /\ g.until = now + Least(1, left) /\ left \in Nat
            /\ g.limit = f.limit /\ g.started = f.started /\ Least(1, left) \in Nat
            /\ Least(1, left) <= 1 /\ Least(1, left) <= left
        BY <1>1, <2>3 DEF Frames, Least
      <3>2. at'[c] = "wait" /\ frame'[c] = g => CallInv(c)'
        BY <1>1, <1>2, <1>4, <2>3, <3>1
           DEF SshLoop, CallInv, SshPlace, SshTimes, Within,
           Heeded, Underway, Canceling, clock, Frames
      <3>3. at[c] # "done" /\ Goto(c, "wait", g)
        BY <1>4, <2>3 DEF SshLoop, Block
      <3>4. QED BY <1>1, <1>2, <3>1, <3>2, <3>3, GotoKeeps DEF Places, Blocked
    <2>4. QED BY <2>1, <2>2, <2>3
  <1>5. CASE SshWait(c)
    <2>1. CASE process[c] = "exited"
      BY <1>1, <1>2, <1>5, <2>1, ReturnKeeps DEF SshWait, Outcome
    <2>2. CASE process[c] # "exited"
      <3>1. at'[c] = "loop" /\ frame'[c] = f => CallInv(c)'
        BY <1>1, <1>2, <1>5, <2>2
           DEF SshWait, CallInv, SshPlace, SshTimes, Within, Heeded,
           Underway, Canceling, clock, Frames, Expired
      <3>2. QED BY <1>1, <1>2, <1>5, <2>2, <3>1, GotoKeeps DEF SshWait, Places
    <2>3. QED BY <2>1, <2>2
  <1>6. CASE SshStop(c)
    <2> DEFINE p == IF Canceling(c) THEN "term_canceled" ELSE "term_timed_out"
               g == [f EXCEPT !.until = now + Grace]
    <2>1. CASE process[c] = "exited"
      BY <1>1, <1>2, <1>6, <2>1, ReturnKeeps DEF SshStop, Stopped, Outcome
    <2>2. CASE process[c] # "exited"
      <3>1. /\ g \in Frames /\ g.until = now + Grace /\ Grace \in Nat
            /\ g.limit = f.limit /\ g.started = f.started
        BY <1>1, CallBounds DEF Frames
      <3>2. at'[c] = p /\ frame'[c] = g => CallInv(c)'
        BY <1>1, <1>2, <1>6, <2>2, <3>1
           DEF SshStop, CallInv, SshPlace, SshTimes, Within,
           Heeded, Underway, Canceling, clock, Frames
      <3>3. at[c] # "done" /\ Goto(c, p, g)
        BY <1>6, <2>2 DEF SshStop, Block
      <3>4. QED BY <1>1, <1>2, <3>1, <3>2, <3>3, GotoKeeps DEF Places, Blocked
    <2>3. QED BY <2>1, <2>2
  <1>7. CASE SshTerminate(c)
    <2> DEFINE p == IF Canceling(c) THEN "kill_canceled" ELSE "kill_timed_out"
    <2>1. CASE process[c] = "exited"
      BY <1>1, <1>2, <1>7, <2>1, ReturnKeeps DEF SshTerminate, Stopped, Outcome
    <2>2. CASE process[c] # "exited"
      <3>1. at'[c] = p /\ frame'[c] = f => CallInv(c)'
        BY <1>1, <1>2, <1>7, <2>2, CallBounds
           DEF SshTerminate, CallInv, SshPlace, SshTimes,
           Within, Heeded, Underway, Canceling, clock, Frames, Expired
      <3>2. QED BY <1>1, <1>2, <1>7, <2>2, <3>1, GotoKeeps DEF SshTerminate, Places
    <2>3. QED BY <2>1, <2>2
  <1>8. QED BY <1>3, <1>4, <1>5, <1>6, <1>7

\* The steps that start or end the process of an ssh call.
LEMMA SshProcessStep ==
    ASSUME CallsInv, NEW c \in SshCalls, SshSpawn(c) \/ SshKill(c) \/ SshChild(c)
    PROVE  CallsInv'
  <1> DEFINE f == frame[c]
  <1>1. /\ c \in Calls /\ c \notin McpCalls /\ c \notin ModelCalls
        /\ SshPlace(c) /\ SshTimes(c) /\ f \in Frames
        /\ now \in Nat /\ cancelled_at \in Nat /\ deadline \in Nat \cup {NoDeadline}
    BY OneAdapter DEF Calls, CallsInv, CallInv, CallsTypeOK, Frames
  <1>2. OnlyCall(c) /\ UNCHANGED clock
    <2>1. process' = process \/ \E q \in {"running", "exited"} :
                                  process' = [process EXCEPT ![c] = q]
      BY DEF SshSpawn, SshKill, SshChild
    <2>2. code' = code \/ \E e \in {0, 1, 255} : code' = [code EXCEPT ![c] = e]
      BY DEF SshSpawn, SshKill, SshChild
    <2>3. /\ process' \in [Calls -> {"none", "running", "exited"}]
          /\ \A d \in Calls \ {c} : process'[d] = process[d]
      BY <2>1 DEF CallsInv, CallsTypeOK
    <2>4. /\ code' \in [Calls -> {NoCode, 0, 1, 255}]
          /\ \A d \in Calls \ {c} : code'[d] = code[d]
      BY <2>2 DEF CallsInv, CallsTypeOK
    <2>5. QED BY <2>3, <2>4 DEF SshSpawn, SshKill, SshChild, OnlyCall
  <1>3. CASE SshSpawn(c)
    <2>1. CASE Return(c, "failed", TRUE) /\ UNCHANGED process
      BY <1>1, <1>2, <1>3, <2>1, ReturnKeeps DEF SshSpawn, SshPlace, Outcome
    <2>2. CASE /\ process' = [process EXCEPT ![c] = "running"]
               /\ Goto(c, "loop", [f EXCEPT !.started = now])
      <3> DEFINE g == [f EXCEPT !.started = now]
      <3>1. g \in Frames /\ g.started = now /\ g.limit = f.limit
        BY <1>1 DEF Frames
      <3>2. process'[c] = "running" /\ code'[c] = code[c]
        BY <1>1, <1>3, <2>2 DEF SshSpawn, CallsInv, CallsTypeOK
      <3>3. at'[c] = "loop" /\ frame'[c] = g => CallInv(c)'
        BY <1>1, <1>2, <1>3, <3>1, <3>2 DEF SshSpawn, CallInv, SshPlace, SshTimes,
           Within, Heeded, Underway, Canceling, clock, Frames
      <3>4. QED BY <1>1, <1>2, <1>3, <2>2, <3>1, <3>3, GotoKeeps DEF SshSpawn, Places
    <2>3. QED BY <1>3, <2>1, <2>2 DEF SshSpawn
  <1>4. CASE SshKill(c)
    <2>1. process'[c] = "exited"
      BY <1>1, <1>4 DEF SshKill, CallsInv, CallsTypeOK
    <2>2. QED BY <1>1, <1>2, <1>4, <2>1, ReturnKeeps DEF SshKill, Stopped, Outcome
  <1>5. CASE SshChild(c)
    <2>1. process'[c] = "exited" /\ code'[c] \in {0, 1, 255} /\ process[c] = "running"
      BY <1>1, <1>5 DEF SshChild, CallsInv, CallsTypeOK
    <2>2. CallInv(c)'
      BY <1>1, <1>2, <1>5, <2>1
         DEF SshChild, CallInv, SshPlace, SshTimes, Within, Heeded,
         Underway, Canceling, clock, NoCode
    <2>3. ASSUME NEW d \in Calls \ {c}
          PROVE  CallInv(d)'
      BY <1>2, <1>5, <2>3, CallStays DEF OnlyCall, SshChild, CallsInv
    <2>4. CallsTypeOK'
      BY <1>2, <1>5 DEF SshChild, CallsInv, CallsTypeOK, OnlyCall, clock
    <2>5. QED BY <1>2, <2>2, <2>3, <2>4 DEF CallsInv, clock
  <1>6. QED BY <1>3, <1>4, <1>5

\* The steps of an MCP session.
LEMMA McpCallStep ==
    ASSUME CallsInv, NEW c \in McpCalls, McpBegin(c) \/ McpStep(c)
    PROVE  CallsInv'
  <1> DEFINE f == frame[c]
  <1> USE DEF McpStep
  <1>1. /\ c \in Calls /\ c \notin SshCalls /\ c \notin ModelCalls
        /\ McpPlace(c) /\ McpTimes(c) /\ f \in Frames
        /\ now \in Nat /\ Timeout \in Nat /\ Grace \in Nat
    BY OneAdapter, CallBounds DEF Calls, CallsInv, CallInv, CallsTypeOK, Frames
  <1>2. OnlyCall(c) /\ UNCHANGED clock
    <2>1. process' = process \/ \E q \in {"running", "exited"} :
                                  process' = [process EXCEPT ![c] = q]
      BY DEF McpBegin, McpAnswer, McpTemplates, McpClose, McpExpire, McpCleanup
    <2>2. code' = code \/ \E e \in {0, 1} : code' = [code EXCEPT ![c] = e]
      BY DEF McpBegin, McpAnswer, McpTemplates, McpClose, McpExpire, McpCleanup
    <2>3. /\ process' \in [Calls -> {"none", "running", "exited"}]
          /\ \A d \in Calls \ {c} : process'[d] = process[d]
      BY <2>1 DEF CallsInv, CallsTypeOK
    <2>4. /\ code' \in [Calls -> {NoCode, 0, 1, 255}]
          /\ \A d \in Calls \ {c} : code'[d] = code[d]
      BY <2>2 DEF CallsInv, CallsTypeOK
    <2>5. UNCHANGED clock
      BY DEF McpBegin, McpAnswer, McpTemplates, McpClose, McpExpire, McpCleanup
    <2>6. QED BY <2>3, <2>4, <2>5 DEF OnlyCall
  <1>3. CASE McpBegin(c)
    <2>1. CASE Return(c, "failed", FALSE) /\ UNCHANGED process
      BY <1>1, <1>2, <1>3, <2>1, ReturnKeeps DEF McpBegin, McpPlace, Outcome
    <2> DEFINE g == [limit |-> Timeout, started |-> now,
                     until |-> now + Timeout, chunks |-> 0]
    <2>2. CASE process' = [process EXCEPT ![c] = "running"] /\ Goto(c, "session", g)
      <3>1. g \in Frames
        BY <1>1 DEF Frames
      <3>2. process'[c] = "running"
        BY <1>1, <2>2 DEF CallsInv, CallsTypeOK
      <3>3. at'[c] = "session" /\ frame'[c] = g => CallInv(c)'
        BY <1>1, <1>2, <3>2 DEF CallInv, McpPlace, McpTimes, clock
      <3>4. QED BY <1>1, <1>2, <1>3, <2>2, <3>1, <3>3, GotoKeeps DEF McpBegin, Places, Blocked
    <2>3. QED BY <1>3, <2>1, <2>2 DEF McpBegin
  <1>4. CASE McpAnswer(c) \/ McpTemplates(c)
    <2>1. PICK p \in {"templates", "closing"} : Goto(c, p, f) /\ UNCHANGED process
      BY <1>4 DEF McpAnswer, McpTemplates
    <2>2. at[c] \in {"session", "templates"}
      BY <1>4 DEF McpAnswer, McpTemplates
    <2>3. at'[c] = p /\ frame'[c] = f => CallInv(c)'
      BY <1>1, <1>2, <2>1, <2>2 DEF CallInv, McpPlace, McpTimes, clock
    <2>4. QED BY <1>1, <1>2, <2>1, <2>2, <2>3, GotoKeeps DEF Places, Blocked
  <1>5. CASE McpClose(c) \/ McpCleanup(c)
    <2>1. process'[c] = "exited"
      BY <1>1, <1>5, ZenonT(60) DEF McpClose, McpCleanup, CallsInv, CallsTypeOK
    <2>2. PICK o \in Outcome \ {"none"} : Return(c, o, FALSE)
      BY <1>5 DEF McpClose, McpCleanup, Outcome
    <2>3. QED BY <1>1, <1>2, <2>1, <2>2, ReturnKeeps
  <1>6. CASE McpExpire(c)
    <2> DEFINE g == [f EXCEPT !.until = now + Grace]
    <2>1. /\ g \in Frames /\ g.until = now + Grace
          /\ g.limit = f.limit /\ g.started = f.started
      BY <1>1 DEF Frames
    <2>2. at[c] # "done" /\ Goto(c, "cleanup", g) /\ UNCHANGED process
      BY <1>6 DEF McpExpire, Block
    <2>3. f.started + Timeout = now /\ f.limit = Timeout
      BY <1>1, <1>6 DEF McpExpire, McpTimes, Expired, Frames
    <2>4. at'[c] = "cleanup" /\ frame'[c] = g => CallInv(c)'
      BY <1>1, <1>2, <1>6, <2>1, <2>2, <2>3
         DEF McpExpire, CallInv, McpPlace, McpTimes, clock, Frames
    <2>5. QED BY <1>1, <1>2, <2>1, <2>2, <2>4, GotoKeeps DEF Places, Blocked
  <1>7. QED BY <1>3, <1>4, <1>5, <1>6

\* The steps of a model request.
LEMMA ModelCallStep ==
    ASSUME CallsInv, NEW c \in ModelCalls, ModelBegin(c) \/ ModelStep(c)
    PROVE  CallsInv'
  <1> DEFINE f == frame[c]
  <1> USE DEF ModelStep
  <1>1. /\ c \in Calls /\ c \notin SshCalls /\ c \notin McpCalls
        /\ ModelPlace(c) /\ ModelTimes(c) /\ f \in Frames
        /\ now \in Nat /\ Timeout \in Nat
    BY OneAdapter, CallBounds DEF Calls, CallsInv, CallInv, CallsTypeOK, Frames
  <1>2. OnlyCall(c) /\ UNCHANGED <<clock, process>>
    BY ZenonT(60)
       DEF ModelBegin, ModelChunk, ModelAnswer, ModelExpire, OnlyCall, CallsInv,
           CallsTypeOK
  <1>3. process[c] = "none"
    BY <1>1 DEF ModelPlace
  <1>4. CASE \E o \in Outcome \ {"none"}, r \in BOOLEAN : Return(c, o, r)
    BY <1>1, <1>2, <1>3, <1>4, ReturnKeeps
  <1>5. CASE /\ ModelBegin(c) /\ ~cancel /\ ~(EffectiveTimeout <= 0)
    <2> DEFINE g == [limit |-> EffectiveTimeout, started |-> now,
                     until |-> now + EffectiveTimeout, chunks |-> 0]
    <2>1. /\ EffectiveTimeout \in Nat /\ EffectiveTimeout <= Timeout
          /\ Within(now + EffectiveTimeout)
      BY <1>5, EffectiveTimeoutBounds DEF CallsInv
    <2>2. g \in Frames /\ 0 * EffectiveTimeout = 0
      BY <1>1, <2>1 DEF Frames
    <2>3. at'[c] = "request" /\ frame'[c] = g => CallInv(c)'
      BY <1>1, <1>2, <1>3, <2>1, <2>2
         DEF CallInv, ModelPlace, ModelTimes, Within, clock
    <2>4. at[c] # "done" /\ Goto(c, "request", g)
      BY <1>5 DEF ModelBegin
    <2>5. QED BY <1>1, <1>2, <2>2, <2>3, <2>4, GotoKeeps DEF Places, Blocked
  <1>6. CASE ModelChunk(c)
    <2> DEFINE g == [limit |-> f.limit, started |-> f.started,
                     until |-> now + f.limit, chunks |-> f.chunks + 1]
    <2>1. /\ g \in Frames /\ g.until = now + f.limit /\ g.chunks = f.chunks + 1
          /\ g.limit = f.limit /\ g.started = f.started
      BY <1>1 DEF Frames
    <2>2. at[c] = "request" /\ Goto(c, "request", g)
      BY <1>6 DEF ModelChunk
    <2> now < f.until
      BY <1>1, <1>6 DEF ModelChunk, Expired, Frames
    <2>3. (f.chunks + 1) * f.limit = f.chunks * f.limit + f.limit
      BY <1>1 DEF Frames
    <2>4. f.chunks * f.limit \in Nat
      BY <1>1 DEF Frames
    <2>5. /\ f.limit <= Timeout /\ f.started <= now /\ Within(f.started + f.limit)
          /\ f.until <= f.started + f.limit + f.chunks * f.limit
      BY <1>1, <2>2 DEF ModelTimes
    <2>6. /\ now <= g.until /\ g.started + g.limit <= g.until
          /\ g.until <= g.started + g.limit + g.chunks * g.limit
      BY <1>1, <2>1, <2>3, <2>4, <2>5 DEF Frames
    <2>7. at'[c] = "request" /\ frame'[c] = g => CallInv(c)'
      BY <1>1, <1>2, <1>3, <2>1, <2>5, <2>6
         DEF CallInv, ModelPlace, ModelTimes, Within, clock
    <2>8. QED BY <1>1, <1>2, <2>1, <2>2, <2>7, GotoKeeps DEF Places, Blocked
  <1>7. QED
    BY <1>4, <1>5, <1>6 DEF ModelBegin, ModelAnswer, ModelExpire, Outcome

\* Time passes only when every call under way waits for something that has
\* not expired.
LEMMA TickStep ==
    ASSUME CallsInv, Tick
    PROVE  CallsInv'
  <1>1. CallsTypeOK' /\ (cancel' => cancelled_at' <= now')
    BY DEF Tick, CallsInv, CallsTypeOK
  <1>2. ASSUME NEW c \in Calls
        PROVE  CallInv(c)'
    <2> DEFINE f == frame[c]
    <2>1. /\ CallInv(c) /\ f \in Frames /\ now \in Nat /\ cancelled_at \in Nat
          /\ now' = now + 1 /\ Timeout \in Nat /\ Grace \in Nat
          /\ deadline \in Nat \cup {NoDeadline}
      BY CallBounds DEF CallsInv, CallsTypeOK, Tick, Frames
    <2>2. /\ at'[c] = at[c] /\ frame'[c] = f /\ process'[c] = process[c] /\ code'[c] = code[c]
          /\ UNCHANGED <<deadline, cancel, cancelled_at>>
      BY DEF Tick
    <2>3. Underway(c) => at[c] \in Blocked /\ now + 1 <= f.until
      BY <2>1 DEF Tick, Expired, Frames
    <2>4. c \in SshCalls => SshPlace(c)' /\ SshTimes(c)'
      <3>1. SUFFICES ASSUME c \in SshCalls PROVE SshTimes(c)'
        BY <2>1, <2>2 DEF CallInv, SshPlace
      <3>2. SshTimes(c)
        BY <2>1, <3>1 DEF CallInv
      <3>3. at[c] \in {"idle", "done", "wait", "term_canceled", "term_timed_out"}
        BY <2>1, <2>3, <3>1 DEF CallInv, SshPlace, Underway, Blocked
      <3>4. QED
        BY <2>1, <2>2, <2>3, <3>2, <3>3
           DEF SshTimes, Within, Heeded, Underway, Canceling, Frames
    <2>5. c \in McpCalls => McpPlace(c)' /\ McpTimes(c)'
      BY <2>1, <2>2, <2>3 DEF CallInv, McpPlace, McpTimes, Underway, Frames
    <2>6. c \in ModelCalls => ModelPlace(c)' /\ ModelTimes(c)'
      BY <2>1, <2>2, <2>3
         DEF CallInv, ModelPlace, ModelTimes, Within, Underway, Frames
    <2>7. QED BY <2>4, <2>5, <2>6 DEF CallInv
  <1>3. QED BY <1>1, <1>2 DEF CallsInv

\* The signal may arrive at any place of any call.
LEMMA CancellationStep ==
    ASSUME CallsInv, RequestCancellation
    PROVE  CallsInv'
  <1>1. CallsTypeOK' /\ (cancel' => cancelled_at' <= now')
    BY DEF RequestCancellation, CallsInv, CallsTypeOK
  <1>2. ASSUME NEW c \in Calls
        PROVE  CallInv(c)'
    <2>1. CallInv(c) /\ frame[c] \in Frames /\ now \in Nat /\ Grace \in Nat
      BY CallBounds DEF CallsInv, CallsTypeOK, Frames
    <2>2. UNCHANGED <<now, deadline, at, frame, process, code>>
      BY DEF RequestCancellation
    <2>3. ~cancel /\ cancel' = TRUE /\ cancelled_at' = now
      BY DEF RequestCancellation
    <2>4. SshTimes(c) => SshTimes(c)'
      BY <2>1, <2>2, <2>3 DEF SshTimes, Within, Heeded, Underway, Canceling, Frames
    <2>5. QED
      BY <2>1, <2>2, <2>4
         DEF CallInv, SshPlace, McpPlace, ModelPlace, McpTimes, ModelTimes,
         Within
  <1>3. QED BY <1>1, <1>2 DEF CallsInv

\* Every step of the calls preserves the invariant.
LEMMA CallsStep ==
    ASSUME CallsInv, [CallsNext]_call_vars
    PROVE  CallsInv'
  <1>1. CASE UNCHANGED call_vars
    BY <1>1, CallStays DEF call_vars, clock, CallsInv, CallsTypeOK
  <1>2. CASE CallsNext
    BY <1>2, TickStep, CancellationStep, SshQuietStep, SshProcessStep, McpCallStep,
       ModelCallStep DEF CallsNext, SshStep
  <1>3. QED BY <1>1, <1>2

\* At the start no call is under way.
LEMMA CallsStart == CallsInit => CallsInv
  <1> SUFFICES ASSUME CallsInit PROVE CallsInv
    OBVIOUS
  <1>1. CallsTypeOK
    <2> MaxTime \in Nat
      BY CallBounds
    <2>1. {now, cancelled_at} \subseteq Nat /\ deadline \in Nat \cup {NoDeadline}
      BY DEF CallsInit
    <2>2. at \in [Calls -> Places] /\ outcome \in [Calls -> Outcome]
      BY DEF CallsInit, Places, Outcome
    <2>3. frame \in [Calls -> Frames]
      BY DEF CallsInit, NoFrame, Frames
    <2>4. QED BY <2>1, <2>2, <2>3 DEF CallsInit, CallsTypeOK, Frames
  <1>2. ASSUME NEW c \in Calls PROVE CallInv(c)
    BY DEF CallsInit, CallInv, SshPlace, McpPlace, ModelPlace, SshTimes, McpTimes,
           ModelTimes, Underway, Canceling
  <1>3. QED BY <1>1, <1>2 DEF CallsInit, CallsInv

\* The invariant of the calls holds of every behaviour: at each place of each
\* adapter the bounds it started with are kept.
THEOREM CallsInvariant == CallsSpec => []CallsInv
  <1>1. QED BY CallsStart, CallsStep, PTL DEF CallsSpec

\* No call of any adapter outlasts the bounds it has, whatever the process,
\* the server or the provider at its other end does, and none leaves a process
\* behind: for every number of calls and every timeout
\* (ssh.py:78-159, transport.py:251-261, ollama.py:62-68,299-308).
THEOREM CallsStopInTime == CallsSpec => []StopsInTime
  <1>1. CallsInv => StopsInTime
    <2> SUFFICES ASSUME CallsInv PROVE StopsInTime
      OBVIOUS
    <2>1. ASSUME NEW c \in Calls, at[c] = "done" PROVE process[c] # "running"
      BY <2>1 DEF CallsInv, CallInv, SshPlace, McpPlace, ModelPlace, Calls
    <2>2. ASSUME NEW c \in Calls, Underway(c)
          PROVE  /\ c \in SshCalls /\ process[c] # "none" =>
                      /\ now <= frame[c].started + frame[c].limit + Grace
                      /\ deadline # NoDeadline => now <= deadline + Grace
                      /\ cancel => now <= cancelled_at + 1 + Grace
                 /\ c \in McpCalls => now <= frame[c].started + Timeout + Grace
                 /\ c \in ModelCalls =>
                      /\ now <= frame[c].started + (frame[c].chunks + 1) * Timeout
                      /\ deadline # NoDeadline =>
                           now <= deadline + frame[c].chunks * frame[c].limit
      <3> DEFINE f == frame[c]
      <3>1. /\ CallInv(c) /\ f \in Frames /\ now \in Nat /\ cancelled_at \in Nat
            /\ Timeout \in Nat /\ Grace \in Nat /\ deadline \in Nat \cup {NoDeadline}
        BY CallBounds DEF CallsInv, CallsTypeOK, Frames
      <3>2. ASSUME c \in SshCalls, process[c] # "none"
            PROVE  /\ now <= f.started + f.limit + Grace
                   /\ deadline # NoDeadline => now <= deadline + Grace
                   /\ cancel => now <= cancelled_at + 1 + Grace
        <4>1. SshTimes(c) /\ at[c] \in {"loop", "wait", "stop_canceled", "stop_timed_out",
                "term_canceled", "term_timed_out", "kill_canceled", "kill_timed_out"}
          BY <2>2, <3>1, <3>2 DEF CallInv, SshPlace, Underway
        <4>2. QED BY <3>1, <4>1 DEF SshTimes, Within, Heeded, Underway, Frames
      <3>3. c \in McpCalls => now <= f.started + Timeout + Grace
        BY <2>2, <3>1 DEF CallInv, McpPlace, McpTimes, Underway, Frames
      <3>4. ASSUME c \in ModelCalls
            PROVE  /\ now <= f.started + (f.chunks + 1) * Timeout
                   /\ deadline # NoDeadline => now <= deadline + f.chunks * f.limit
        <4>1. ModelTimes(c) /\ at[c] = "request"
          BY <2>2, <3>1, <3>4 DEF CallInv, ModelPlace, Underway
        <4>2. f.chunks * f.limit \in Nat /\ f.chunks * Timeout \in Nat
          BY <3>1 DEF Frames
        <4>3. f.limit + f.chunks * f.limit <= Timeout + f.chunks * Timeout
          BY <3>1, <4>1 DEF ModelTimes, Frames
        <4>4. (f.chunks + 1) * Timeout = Timeout + f.chunks * Timeout
          BY <3>1 DEF Frames
        <4>5. /\ now <= f.started + f.limit + f.chunks * f.limit
              /\ deadline # NoDeadline => f.started + f.limit <= deadline
          BY <3>1, <4>1, <4>2 DEF ModelTimes, Within, Frames
        <4>6. QED BY <3>1, <4>2, <4>3, <4>4, <4>5 DEF Frames
      <3>5. QED BY <3>2, <3>3, <3>4
    <2>3. QED BY <2>1, <2>2 DEF CallsInv, StopsInTime
  <1>2. QED BY <1>1, CallsInvariant, PTL

\* What a call of each adapter returns is true of the state it returns in.
LEMMA SshTruth ==
    ASSUME CallsInv, NEW c \in SshCalls, SshBegin(c) \/ SshStep(c) \/ SshChild(c),
           at[c] # "done", at'[c] = "done"
    PROVE  TruthfulReturn(c)
  <1>1. /\ c \in Calls /\ c \notin McpCalls /\ c \notin ModelCalls
        /\ SshPlace(c) /\ SshTimes(c) /\ CallsTypeOK
    BY OneAdapter DEF Calls, CallsInv, CallInv
  <1>2. frame[c] \in Frames /\ now \in Nat /\ code[c] \in {NoCode, 0, 1, 255}
    BY <1>1 DEF CallsTypeOK, Frames
  <1>3. ASSUME NEW o \in Outcome, NEW r \in BOOLEAN, Return(c, o, r)
        PROVE  outcome'[c] = o /\ (retryable'[c] <=> r)
    BY <1>1, <1>3 DEF Return, CallsTypeOK
  <1>4. ASSUME NEW p, at' = [at EXCEPT ![c] = p]
        PROVE  p = "done"
    BY <1>1, <1>4 DEF CallsTypeOK
  <1> USE DEF Outcome
  <1>5. CASE SshBegin(c)
    <2>1. CASE cancel
      BY <1>1, <1>3, <1>5, <2>1 DEF SshBegin, TruthfulReturn
    <2>2. CASE ~cancel /\ EffectiveTimeout <= 0
      BY <1>1, <1>2, <1>3, <1>5, <2>2, EffectiveTimeoutBounds
         DEF SshBegin, TruthfulReturn
    <2>3. QED BY <1>4, <1>5, <2>1, <2>2 DEF Goto, SshBegin
  <1>6. CASE SshSpawn(c)
    <2>1. Return(c, "failed", TRUE) /\ code[c] = NoCode
      BY <1>1, <1>4, <1>6 DEF Goto, SshSpawn, SshPlace
    <2>2. QED BY <1>3, <2>1 DEF TruthfulReturn
  <1>7. CASE SshLoop(c)
    BY <1>4, <1>7 DEF Goto, SshLoop, Block
  <1>8. CASE SshWait(c)
    <2>1. process[c] = "exited" /\ code[c] # NoCode
      BY <1>1, <1>4, <1>8 DEF Goto, SshWait, SshPlace
    <2>2. CASE code[c] = 0
      BY <1>3, <1>8, <2>1, <2>2 DEF SshWait, TruthfulReturn
    <2>3. CASE code[c] # 0
      <3>1. Return(c, "failed", code[c] = 255)
        BY <1>8, <2>1, <2>3 DEF SshWait
      <3>2. outcome'[c] = "failed" /\ (retryable'[c] <=> code[c] = 255)
        BY <1>3, <3>1
      <3>3. QED BY <1>1, <2>1, <3>2 DEF TruthfulReturn
    <2>4. QED BY <2>2, <2>3
  <1>9. CASE SshStop(c) \/ SshTerminate(c) \/ SshKill(c)
    <2>1. Stopped(c) /\ at[c] # "idle"
      BY <1>4, <1>9 DEF Goto, SshStop, SshTerminate, SshKill, Block
    <2>2. CASE Canceling(c)
      <3>1. cancel /\ Return(c, "canceled", FALSE)
        BY <1>1, <2>1, <2>2 DEF SshTimes, Stopped
      <3>2. QED BY <1>1, <1>3, <3>1 DEF TruthfulReturn
    <2>3. CASE ~Canceling(c)
      <3>1. Return(c, "timed_out", TRUE)
        BY <2>1, <2>3 DEF Stopped
      <3>2. frame[c].started + frame[c].limit <= now
        BY <1>1, <1>9, <2>3 DEF SshTimes, Canceling, SshStop, SshTerminate, SshKill
      <3>3. QED BY <1>2, <1>3, <2>1, <3>1, <3>2 DEF TruthfulReturn, Frames
    <2>4. QED BY <2>2, <2>3
  <1>10. QED BY <1>5, <1>6, <1>7, <1>8, <1>9 DEF SshStep, SshChild

LEMMA McpTruth ==
    ASSUME CallsInv, NEW c \in McpCalls, McpBegin(c) \/ McpStep(c),
           at[c] # "done", at'[c] = "done"
    PROVE  TruthfulReturn(c)
  <1>1. /\ c \in Calls /\ c \notin SshCalls /\ c \notin ModelCalls
        /\ McpPlace(c) /\ McpTimes(c) /\ CallsTypeOK
    BY OneAdapter DEF Calls, CallsInv, CallInv
  <1>2. frame[c] \in Frames /\ now \in Nat /\ Timeout \in Nat
    BY <1>1, CallBounds DEF CallsTypeOK, Frames
  <1>3. ASSUME NEW o \in Outcome, NEW r \in BOOLEAN, Return(c, o, r)
        PROVE  outcome'[c] = o /\ (retryable'[c] <=> r)
    BY <1>1, <1>3 DEF Return, CallsTypeOK
  <1>4. ASSUME NEW p, at' = [at EXCEPT ![c] = p]
        PROVE  p = "done"
    BY <1>1, <1>4 DEF CallsTypeOK
  <1> USE DEF Outcome
  <1>5. CASE McpBegin(c)
    BY <1>1, <1>3, <1>4, <1>5 DEF Goto, McpBegin, TruthfulReturn
  <1>6. CASE McpClose(c)
    BY <1>1, <1>3, <1>6 DEF McpClose, TruthfulReturn
  <1>7. CASE McpCleanup(c)
    <2>1. Return(c, "timed_out", FALSE) /\ at[c] = "cleanup"
      BY <1>7 DEF McpCleanup
    <2>2. frame[c].started + frame[c].limit <= now
      BY <1>1, <2>1 DEF McpTimes
    <2>3. QED BY <1>2, <1>3, <2>1, <2>2 DEF TruthfulReturn, Frames
  <1>8. CASE McpAnswer(c) \/ McpTemplates(c) \/ McpExpire(c)
    BY <1>4, <1>8 DEF Goto, McpAnswer, McpTemplates, McpExpire, Block
  <1>9. QED BY <1>5, <1>6, <1>7, <1>8 DEF McpStep

LEMMA ModelTruth ==
    ASSUME CallsInv, NEW c \in ModelCalls, ModelBegin(c) \/ ModelStep(c),
           at[c] # "done", at'[c] = "done"
    PROVE  TruthfulReturn(c)
  <1>1. /\ c \in Calls /\ c \notin SshCalls /\ c \notin McpCalls
        /\ ModelTimes(c) /\ CallsTypeOK
    BY OneAdapter DEF Calls, CallsInv, CallInv
  <1>2. frame[c] \in Frames /\ now \in Nat
    BY <1>1 DEF CallsTypeOK, Frames
  <1>3. ASSUME NEW o \in Outcome, NEW r \in BOOLEAN, Return(c, o, r)
        PROVE  outcome'[c] = o /\ (retryable'[c] <=> r)
    BY <1>1, <1>3 DEF Return, CallsTypeOK
  <1>4. ASSUME NEW p, at' = [at EXCEPT ![c] = p]
        PROVE  p = "done"
    BY <1>1, <1>4 DEF CallsTypeOK
  <1> USE DEF Outcome
  <1>5. CASE ModelBegin(c)
    <2>1. CASE cancel
      BY <1>1, <1>3, <1>5, <2>1 DEF ModelBegin, TruthfulReturn
    <2>2. CASE ~cancel /\ EffectiveTimeout <= 0
      BY <1>1, <1>2, <1>3, <1>5, <2>2, EffectiveTimeoutBounds
         DEF ModelBegin, TruthfulReturn
    <2>3. QED BY <1>4, <1>5, <2>1, <2>2 DEF Goto, ModelBegin
  <1>6. CASE ModelAnswer(c)
    BY <1>1, <1>3, <1>6 DEF ModelAnswer, TruthfulReturn
  <1>7. CASE ModelExpire(c)
    <2>1. Return(c, "timed_out", TRUE) /\ at[c] = "request" /\ frame[c].until <= now
      BY <1>2, <1>7 DEF ModelExpire, Expired, Frames
    <2>2. frame[c].started + frame[c].limit <= now
      BY <1>1, <1>2, <2>1 DEF ModelTimes, Frames
    <2>3. QED BY <1>2, <1>3, <2>1, <2>2 DEF TruthfulReturn, Frames
  <1>8. CASE ModelChunk(c)
    BY <1>4, <1>8 DEF Goto, ModelChunk
  <1>9. QED BY <1>5, <1>6, <1>7, <1>8 DEF ModelStep

\* A step of one call is no return of another.
LEMMA OnlyOneReturns ==
    ASSUME CallsTypeOK, NEW c \in Calls, NEW d \in Calls \ {c},
           \/ SshBegin(c) \/ SshStep(c) \/ SshChild(c)
           \/ McpBegin(c) \/ McpStep(c) \/ ModelBegin(c) \/ ModelStep(c)
    PROVE  at'[d] = at[d]
  <1>1. \/ \E p, f : Goto(c, p, f)
        \/ \E o, r : Return(c, o, r)
        \/ UNCHANGED at
    <2>1. CASE SshBegin(c) \/ SshStep(c) \/ SshChild(c)
      <3>1. CASE SshBegin(c) \/ SshSpawn(c) \/ SshLoop(c) \/ SshWait(c)
        BY <3>1, Zenon DEF SshBegin, SshSpawn, SshLoop, SshWait, Block
      <3>2. CASE SshStop(c) \/ SshTerminate(c) \/ SshKill(c) \/ SshChild(c)
        BY <3>2, Zenon DEF SshStop, SshTerminate, SshKill, SshChild, Block, Stopped
      <3>3. QED BY <2>1, <3>1, <3>2 DEF SshStep
    <2>2. CASE McpBegin(c) \/ McpStep(c)
      BY <2>2, Zenon
         DEF McpBegin, McpStep, McpAnswer, McpTemplates, McpClose, McpExpire,
         McpCleanup, Block
    <2>3. CASE ModelBegin(c) \/ ModelStep(c)
      BY <2>3, Zenon DEF ModelBegin, ModelStep, ModelChunk, ModelAnswer, ModelExpire
    <2>4. QED BY <2>1, <2>2, <2>3
  <1>2. \/ \E p : at' = [at EXCEPT ![c] = p]
        \/ UNCHANGED at
    BY <1>1 DEF Goto, Return
  <1>3. QED BY <1>2 DEF CallsTypeOK

\* Whatever a call reports to its caller is so: a cancellation was requested,
\* a timeout was due, a success has an exit code or an answer, and only a
\* command that may not have reached its host is offered for a retry
\* (ssh.py:37-139, model_adapters.py:111-128).
THEOREM CallsAreTruthful == CallsSpec => ResultIsTruthful
  <1>1. ASSUME CallsInv, CallsNext
        PROVE  \A d \in Calls : at[d] # "done" /\ at'[d] = "done" => TruthfulReturn(d)
    <2>1. SUFFICES ASSUME NEW d \in Calls, at[d] # "done", at'[d] = "done"
                   PROVE  TruthfulReturn(d)
      OBVIOUS
    <2>2. CASE Tick \/ RequestCancellation
      BY <2>1, <2>2 DEF Tick, RequestCancellation
    <2>3. ASSUME NEW c \in SshCalls, SshBegin(c) \/ SshStep(c) \/ SshChild(c)
          PROVE  TruthfulReturn(d)
      <3>1. c = d
        BY <1>1, <2>1, <2>3, OnlyOneReturns DEF CallsInv, Calls
      <3>2. QED BY <1>1, <2>1, <2>3, <3>1, SshTruth
    <2>4. ASSUME NEW c \in McpCalls, McpBegin(c) \/ McpStep(c)
          PROVE  TruthfulReturn(d)
      <3>1. c = d
        BY <1>1, <2>1, <2>4, OnlyOneReturns DEF CallsInv, Calls
      <3>2. QED BY <1>1, <2>1, <2>4, <3>1, McpTruth
    <2>5. ASSUME NEW c \in ModelCalls, ModelBegin(c) \/ ModelStep(c)
          PROVE  TruthfulReturn(d)
      <3>1. c = d
        BY <1>1, <2>1, <2>5, OnlyOneReturns DEF CallsInv, Calls
      <3>2. QED BY <1>1, <2>1, <2>5, <3>1, ModelTruth
    <2>6. QED BY <1>1, <2>2, <2>3, <2>4, <2>5 DEF CallsNext
  <1>2. CallsInv /\ [CallsNext]_call_vars
          => [\A c \in Calls :
                at[c] # "done" /\ at'[c] = "done" => TruthfulReturn(c)]_call_vars
    BY <1>1
  <1>3. QED BY <1>2, CallsInvariant, PTL DEF CallsSpec, ResultIsTruthful

------------------------------------------------------------------------------
(* TaskRetry: any number of attempts, operators and process losses.         *)

\* Only a queued Task has a command: no late claim moves a failed Task again.
CommandsInv == \A t \in commands : status[t] = "queued"

\* Retries of one Task are one Task, also among rows that a deletion removed.
UniqueInv ==
    \A t, u \in Tasks : retry_of[t] = retry_of[u] /\ retry_of[t] # NoTask => t = u

\* A row that was not created yet has no lineage; once the Context is
\* deleted nothing is created any more.
FreshInv == Created # {} => \A t \in Tasks \ Created : retry_of[t] = NoTask

\* A deletion has listed Tasks that stay terminal.
DoomedInv == \A t \in doomed : status[t] \in Terminal

\* What an operator's thread and the operators themselves know.
KnownInv ==
    /\ \A o \in Operators :
         /\ pc[o] # "idle" => src[o] \in Tasks
         /\ pc[o] = "start" => child[o] \in Tasks /\ retry_of[child[o]] = src[o]
    /\ answers \subseteq Tasks \X Tasks
    /\ \A a \in answers : retry_of[a[2]] = a[1]

RetryInv ==
    /\ LineageIsSafe /\ CommandsInv /\ UniqueInv /\ FreshInv
    /\ DoomedInv /\ KnownInv

------------------------------------------------------------------------------
\* get_direct_task_retry finds the retry of a Task when there is one
\* (store.py, get_direct_task_retry).
LEMMA DirectRetryFinds ==
    ASSUME RetryInv, NEW s \in Tasks
    PROVE  /\ DirectRetry(s) # NoTask =>
                DirectRetry(s) \in Created /\ retry_of[DirectRetry(s)] = s
           /\ DirectRetry(s) = NoTask => \A u \in Created : retry_of[u] # s
  <1> DEFINE found == {u \in Created : retry_of[u] = s}
  <1>1. CASE found = {}
    BY <1>1 DEF DirectRetry
  <1>2. ASSUME NEW u \in found
        PROVE  DirectRetry(s) = u
    <2>1. u \in Tasks /\ retry_of[u] = s /\ s # NoTask
      BY RetryBounds DEF Created, Tasks, NoTask
    <2>2. found = {u}
      BY <2>1 DEF RetryInv, UniqueInv, Created
    <2>3. \A w \in found : u <= w
      BY <2>1, <2>2, RetryBounds DEF Tasks
    <2>4. (CHOOSE x \in found : \A w \in found : x <= w) = u
      BY <2>2, <2>3
    <2>5. QED BY <2>2, <2>4 DEF DirectRetry
  <1>3. QED
    BY <1>1, <1>2, RetryBounds DEF Created, Tasks, NoTask

\* A step that changes no row preserves what the invariant says of the rows.
LEMMA RowsStay ==
    ASSUME RetryInv, UNCHANGED rows
    PROVE  /\ CommandsInv' /\ UniqueInv' /\ FreshInv'
           /\ TypeOK' => LineageIsSafe'
           /\ UNCHANGED doomed => DoomedInv'
  BY DEF RetryInv, rows, CommandsInv, UniqueInv, FreshInv, LineageIsSafe, DoomedInv,
         Created

\* A finished Task and what a retry reads of it stay as they are.
FinishedStay ==
    \A s \in Created : status[s] \in Terminal =>
      /\ status'[s] = status[s] /\ effects'[s] = effects[s]
      /\ error_retryable[s] => error_retryable'[s]

\* A step that creates and deletes no row and leaves the finished ones alone
\* disturbs no lineage.
LEMMA LineageKept ==
    ASSUME RetryInv, TypeOK', Created' = Created, FinishedStay, doomed' \in {doomed, {}},
           UNCHANGED <<local, retry_of, attempt>>
    PROVE  LineageIsSafe' /\ UniqueInv' /\ FreshInv' /\ DoomedInv'
  <1>1. LineageIsSafe'
    BY DEF RetryInv, LineageIsSafe, FinishedStay, Terminal, Created, TypeOK
  <1>2. DoomedInv'
    BY DEF RetryInv, DoomedInv, FinishedStay, Terminal, Created, LineageIsSafe, TypeOK
  <1>3. QED BY <1>1, <1>2 DEF RetryInv, UniqueInv, FreshInv

\* An operator's thread moves on without a new answer and without a new row.
LEMMA KnownKept ==
    ASSUME RetryInv, UNCHANGED <<retry_of, answers, src, child>>,
           NEW o \in Operators, NEW p \in {"idle", "look", "accept"},
           pc[o] # "idle" \/ p = "idle",
           pc' = [pc EXCEPT ![o] = p]
    PROVE  KnownInv'
  BY DEF RetryInv, KnownInv, LineageIsSafe, TypeOK

\* An operator is told of a Task that retries what was clicked.
LEMMA KnownAnswer ==
    ASSUME RetryInv, UNCHANGED retry_of, NEW o \in Operators, NEW t \in Tasks,
           src[o] \in Tasks, retry_of[t] = src[o], Answer(o, t)
    PROVE  KnownInv'
  BY DEF RetryInv, KnownInv, Answer, LineageIsSafe, TypeOK

\* The transaction that creates an attempt.
LEMMA CreateStep ==
    ASSUME RetryInv, NEW o \in Operators, NEW t \in Tasks \ Created,
           src[o] \in Tasks, Retryable(src[o]), DirectRetry(src[o]) = NoTask,
           CreateAttempt(o, t), UNCHANGED <<woken, doomed, crashes>>
    PROVE  RetryInv'
  <1> DEFINE s == src[o]
  <1>1. s \in Created /\ s # t /\ s # NoTask
    BY RetryBounds DEF Retryable, Created, Tasks, NoTask
  <1>2. /\ retry_of[t] = NoTask
        /\ \A u \in Tasks : retry_of[u] # s
    BY <1>1, DirectRetryFinds DEF RetryInv, FreshInv, Created
  <1>3. Created' = Created \cup {t}
    BY DEF CreateAttempt, Created, RetryInv, LineageIsSafe, TypeOK
  <1>4. TypeOK'
    BY DEF CreateAttempt, RetryInv, LineageIsSafe, TypeOK
  <1>5. LineageIsSafe'
    <2>1. SUFFICES ASSUME NEW c \in Created', retry_of'[c] # NoTask
                   PROVE  /\ status'[retry_of'[c]] = "failed"
                          /\ error_retryable'[retry_of'[c]] /\ ~effects'[retry_of'[c]]
                          /\ local'[retry_of'[c]] /\ local'[c]
                          /\ attempt'[c] = attempt'[retry_of'[c]] + 1
                          /\ \A u \in Created' : retry_of'[u] = retry_of'[c] => u = c
      BY <1>4 DEF LineageIsSafe
    <2>2. CASE c = t
      BY <2>2, <1>1, <1>2, <1>3
         DEF CreateAttempt, Retryable, Created, RetryInv, LineageIsSafe, TypeOK
    <2>3. CASE c \in Created /\ c # t
      <3>1. retry_of'[c] = retry_of[c] /\ retry_of[c] \in Created /\ retry_of[c] # s
        BY <2>1, <2>3, <1>2
           DEF CreateAttempt, Created, RetryInv, LineageIsSafe, TypeOK
      <3>2. QED
        BY <2>1, <2>3, <3>1, <1>3
           DEF CreateAttempt, Created, RetryInv, LineageIsSafe, TypeOK
    <2>4. QED BY <2>2, <2>3, <1>3
  <1>6. CommandsInv'
    BY DEF CreateAttempt, CommandsInv, RetryInv, LineageIsSafe, TypeOK
  <1>7. UniqueInv'
    BY <1>2 DEF CreateAttempt, UniqueInv, RetryInv, LineageIsSafe, TypeOK
  <1>8. FreshInv'
    BY <1>1, <1>3 DEF CreateAttempt, FreshInv, RetryInv, LineageIsSafe, TypeOK
  <1>9. KnownInv'
    BY <1>1, <1>2, RetryBounds
       DEF CreateAttempt, KnownInv, RetryInv, LineageIsSafe, TypeOK, Tasks, NoTask
  <1>10. DoomedInv'
    BY DEF CreateAttempt, DoomedInv, Terminal, Created, RetryInv, LineageIsSafe,
           TypeOK
  <1>11. QED BY <1>5, <1>6, <1>7, <1>8, <1>9, <1>10 DEF RetryInv

------------------------------------------------------------------------------
\* Every step preserves the invariant.
LEMMA RetryStep ==
    ASSUME RetryInv, [Next]_vars
    PROVE  RetryInv'
  <1> USE DEF rows, ops
  <1>1. ASSUME NEW t \in Tasks, Claim(t)
        PROVE  RetryInv'
    <2>1. status[t] = "queued"
      BY <1>1 DEF Claim, RetryInv, CommandsInv
    <2>2. TypeOK'
      BY <1>1 DEF Claim, RetryInv, LineageIsSafe, TypeOK
    <2>3. Created' = Created
      BY <1>1, <2>1 DEF Claim, Created, RetryInv, LineageIsSafe, TypeOK
    <2> FinishedStay
      BY <1>1, <2>1
         DEF Claim, FinishedStay, Terminal, Created, RetryInv, LineageIsSafe, TypeOK
    <2>4. LineageIsSafe' /\ UniqueInv' /\ FreshInv' /\ DoomedInv'
      BY <1>1, <2>2, <2>3, LineageKept DEF Claim
    <2>5. CommandsInv' /\ KnownInv'
      BY <1>1 DEF Claim, RetryInv, CommandsInv, KnownInv, LineageIsSafe, TypeOK
    <2>6. QED BY <2>4, <2>5 DEF RetryInv
  <1>2. ASSUME NEW t \in Tasks, UseTool(t)
        PROVE  RetryInv'
    <2>1. TypeOK' /\ Created' = Created
      BY <1>2 DEF UseTool, RetryInv, LineageIsSafe, TypeOK, Created
    <2> FinishedStay
      BY <1>2
         DEF UseTool, FinishedStay, Terminal, Created, RetryInv, LineageIsSafe,
             TypeOK
    <2>2. LineageIsSafe' /\ UniqueInv' /\ FreshInv' /\ DoomedInv'
      BY <1>2, <2>1, LineageKept DEF UseTool
    <2>3. CommandsInv' /\ KnownInv'
      BY <1>2 DEF UseTool, RetryInv, CommandsInv, KnownInv
    <2>4. QED BY <2>2, <2>3 DEF RetryInv
  <1>3. ASSUME NEW t \in Tasks, End(t)
        PROVE  RetryInv'
    <2>1. TypeOK' /\ Created' = Created
      BY <1>3 DEF End, RetryInv, LineageIsSafe, TypeOK, Created
    <2> FinishedStay
      BY <1>3
         DEF End, FinishedStay, Terminal, Created, RetryInv, LineageIsSafe, TypeOK
    <2>2. LineageIsSafe' /\ UniqueInv' /\ FreshInv' /\ DoomedInv'
      BY <1>3, <2>1, LineageKept DEF End
    <2>3. CommandsInv' /\ KnownInv'
      BY <1>3 DEF End, RetryInv, CommandsInv, KnownInv, LineageIsSafe, TypeOK
    <2>4. QED BY <2>2, <2>3 DEF RetryInv
  <1>4. ASSUME NEW o \in Operators, NEW t \in Tasks, Click(o, t)
        PROVE  RetryInv'
    <2>1. TypeOK' /\ KnownInv'
      BY <1>4 DEF Click, RetryInv, LineageIsSafe, TypeOK, KnownInv
    <2>2. QED BY <1>4, <2>1, RowsStay DEF Click, RetryInv
  <1>5. ASSUME NEW o \in Operators, LookForRetry(o)
        PROVE  RetryInv'
    <2>1. TypeOK'
      BY <1>5 DEF LookForRetry, Answer, GiveUp, RetryInv, LineageIsSafe, TypeOK
    <2>2. src[o] \in Tasks
      BY <1>5 DEF LookForRetry, RetryInv, KnownInv
    <2>3. KnownInv'
      <3>1. CASE DirectRetry(src[o]) # NoTask /\ Answer(o, DirectRetry(src[o]))
        BY <1>5, <2>2, <3>1, DirectRetryFinds, KnownAnswer DEF LookForRetry, Created
      <3>2. CASE GiveUp(o)
        BY <1>5, <3>2, KnownKept DEF LookForRetry, GiveUp
      <3>3. CASE pc' = [pc EXCEPT ![o] = "accept"] /\ UNCHANGED <<src, child, answers>>
        BY <1>5, <3>3, KnownKept DEF LookForRetry
      <3>4. QED BY <1>5, <3>1, <3>2, <3>3 DEF LookForRetry
    <2>4. QED BY <1>5, <2>1, <2>3, RowsStay DEF LookForRetry, RetryInv
  <1>6. ASSUME NEW o \in Operators, Accept(o)
        PROVE  RetryInv'
    <2>1. src[o] \in Tasks
      BY <1>6 DEF Accept, RetryInv, KnownInv
    <2>2. CASE GiveUp(o) /\ UNCHANGED rows
      <3>1. TypeOK'
        BY <1>6, <2>2 DEF Accept, GiveUp, RetryInv, LineageIsSafe, TypeOK
      <3>2. KnownInv'
        BY <2>2, KnownKept DEF GiveUp
      <3>3. QED BY <1>6, <2>2, <3>1, <3>2, RowsStay DEF Accept, RetryInv
    <2>3. CASE /\ DirectRetry(src[o]) # NoTask
               /\ Answer(o, DirectRetry(src[o])) /\ UNCHANGED rows
      <3>1. TypeOK'
        BY <1>6, <2>3 DEF Accept, Answer, RetryInv, LineageIsSafe, TypeOK
      <3>2. KnownInv'
        BY <2>1, <2>3, DirectRetryFinds, KnownAnswer DEF Created
      <3>3. QED BY <1>6, <2>3, <3>1, <3>2, RowsStay DEF Accept, RetryInv
    <2>4. CASE /\ Retryable(src[o]) /\ DirectRetry(src[o]) = NoTask
               /\ \E t \in Tasks \ Created :
                    (\A u \in Tasks \ Created : t <= u) /\ CreateAttempt(o, t)
      BY <1>6, <2>1, <2>4, CreateStep DEF Accept
    <2>5. QED BY <1>6, <2>2, <2>3, <2>4 DEF Accept
  <1>7. ASSUME NEW o \in Operators, Start(o)
        PROVE  RetryInv'
    <2> DEFINE t == child[o]
    <2>1. t \in Tasks /\ src[o] \in Tasks /\ retry_of[t] = src[o]
      BY <1>7 DEF Start, RetryInv, KnownInv
    <2>2. Answer(o, t) /\ UNCHANGED retry_of
      BY <1>7 DEF Start
    <2>3. KnownInv'
      BY <2>1, <2>2, KnownAnswer
    <2>4. CASE /\ woken' = IF t \in commands THEN woken \cup {t} ELSE woken
               /\ UNCHANGED rows
      <3>1. TypeOK'
        BY <1>7, <2>2, <2>4 DEF Start, Answer, RetryInv, LineageIsSafe, TypeOK
      <3>2. QED BY <1>7, <2>3, <2>4, <3>1, RowsStay DEF Start, RetryInv
    <2>5. CASE /\ t \in commands \ woken
               /\ status' = [status EXCEPT ![t] = "failed"]
               /\ \E r \in BOOLEAN : error_retryable' = [error_retryable EXCEPT ![t] = r]
               /\ commands' = commands \ {t}
               /\ UNCHANGED <<local, effects, retry_of, attempt, woken>>
      <3>1. status[t] = "queued"
        BY <2>5 DEF RetryInv, CommandsInv
      <3>2. TypeOK'
        BY <1>7, <2>1, <2>2, <2>5 DEF Start, Answer, RetryInv, LineageIsSafe, TypeOK
      <3>3. Created' = Created
        BY <2>1, <2>5, <3>1 DEF Created, RetryInv, LineageIsSafe, TypeOK
      <3> FinishedStay
        BY <2>1, <2>5, <3>1
           DEF FinishedStay, Terminal, Created, RetryInv, LineageIsSafe, TypeOK
      <3>4. LineageIsSafe' /\ UniqueInv' /\ FreshInv' /\ DoomedInv'
        BY <1>7, <2>5, <3>2, <3>3, LineageKept DEF Start
      <3>5. CommandsInv'
        BY <2>5 DEF RetryInv, CommandsInv, LineageIsSafe, TypeOK
      <3>6. QED BY <2>3, <3>4, <3>5 DEF RetryInv
    <2>6. QED BY <1>7, <2>4, <2>5 DEF Start
  <1>8. CASE DeleteList
    <2>1. TypeOK' /\ KnownInv'
      BY <1>8 DEF DeleteList, Created, RetryInv, LineageIsSafe, TypeOK, KnownInv
    <2>2. DoomedInv'
      BY <1>8 DEF DeleteList, DoomedInv
    <2>3. QED BY <1>8, <2>1, <2>2, RowsStay DEF DeleteList, RetryInv
  <1>9. CASE DeleteRows
    <2>1. TypeOK' /\ KnownInv'
      BY <1>9 DEF DeleteRows, RetryInv, LineageIsSafe, TypeOK, KnownInv
    <2> DoomedInv'
      BY <1>9 DEF DeleteRows, DoomedInv
    <2>2. CASE UNCHANGED status
      BY <1>9, <2>1, <2>2, RowsStay DEF DeleteRows, RetryInv
    <2>3. CASE Created \subseteq doomed /\ status' = [t \in Tasks |-> "absent"]
      <3>1. Created' = {}
        BY <2>3 DEF Created
      <3>2. LineageIsSafe' /\ FreshInv' /\ UniqueInv'
        BY <1>9, <2>1, <3>1
           DEF DeleteRows, RetryInv, LineageIsSafe, FreshInv, UniqueInv
      <3>3. commands = {}
        BY <2>3
           DEF RetryInv, CommandsInv, DoomedInv, Terminal, Created, LineageIsSafe,
               TypeOK
      <3>4. CommandsInv'
        BY <1>9, <3>3 DEF DeleteRows, CommandsInv
      <3>5. QED BY <2>1, <3>2, <3>4 DEF RetryInv
    <2>4. QED BY <1>9, <2>2, <2>3 DEF DeleteRows
  <1>10. CASE Restart
    <2>1. TypeOK' /\ Created' = Created
      BY <1>10 DEF Restart, RetryInv, LineageIsSafe, TypeOK, Created
    <2> FinishedStay
      BY <1>10
         DEF Restart, FinishedStay, Terminal, Created, RetryInv, LineageIsSafe,
             TypeOK
    <2>2. LineageIsSafe' /\ UniqueInv' /\ FreshInv' /\ DoomedInv'
      BY <1>10, <2>1, LineageKept DEF Restart
    <2>3. CommandsInv' /\ KnownInv'
      BY <1>10
         DEF Restart, RetryInv, CommandsInv, KnownInv, LineageIsSafe, TypeOK, Created
    <2>4. QED BY <2>2, <2>3 DEF RetryInv
  <1>11. CASE UNCHANGED vars
    BY <1>11, RowsStay DEF vars, RetryInv, KnownInv, LineageIsSafe, TypeOK
  <1>12. QED
    BY <1>1, <1>2, <1>3, <1>4, <1>5, <1>6, <1>7, <1>8, <1>9, <1>10, <1>11
       DEF Next, Operator

------------------------------------------------------------------------------
\* The invariant of the lineage holds of every behaviour.
THEOREM RetryInvariant == Spec => []RetryInv
  <1>1. Init => RetryInv
    <2> SUFFICES ASSUME Init PROVE RetryInv
      OBVIOUS
    <2>1. TypeOK
      BY RetryBounds DEF Init, TypeOK, Tasks, NoTask
    <2>2. \A t \in Tasks : retry_of[t] = NoTask
      BY DEF Init
    <2>3. LineageIsSafe /\ UniqueInv /\ FreshInv
      BY <2>1, <2>2 DEF LineageIsSafe, UniqueInv, FreshInv, Created
    <2>4. CommandsInv /\ DoomedInv /\ KnownInv
      BY DEF Init, CommandsInv, DoomedInv, KnownInv
    <2>5. QED BY <2>3, <2>4 DEF RetryInv
  <1>2. QED BY <1>1, RetryStep, PTL DEF Spec

\* Attempts form chains of safe retries, for any number of attempts and
\* operators (core.py, _retry_failed_task).
THEOREM RetriesFormSafeChains == Spec => []LineageIsSafe
  <1>1. RetryInv => LineageIsSafe
    BY DEF RetryInv
  <1>2. QED BY <1>1, RetryInvariant, PTL

\* All clicks on one Task are answered with its one retry.
THEOREM OperatorsAgree == Spec => []ClicksConverge
  <1>1. RetryInv => ClicksConverge
    BY RetryBounds DEF RetryInv, KnownInv, UniqueInv, ClicksConverge, Tasks, NoTask
  <1>2. QED BY <1>1, RetryInvariant, PTL

==============================================================================
