--------------------------- MODULE RouterDecision ---------------------------
(***************************************************************************)
(* The routing of one message (main_agent/router.py, router_classifier.py): *)
(* what its metadata demands, what a running Task or a lifecycle action     *)
(* implies, and what is made of a router model's answer.                    *)
(*                                                                         *)
(* The answer is the JSON object found in it, if there is one, with the    *)
(* fields the classifier reads, and the route names and chat words that    *)
(* occur in the raw text.                                                  *)
(***************************************************************************)
EXTENDS Naturals

CONSTANTS Agents, Ghost  \* registrable child agents; an id that names none

Routes == {"local_message", "local_task", "remote_agent"}
None == "none"

\* An agent's id is a string that is present.
ASSUME AgentIds == {None, "number", "alias"} \cap Agents = {}

\* Metadata of a message: route, executionMode, a target, routeConfidence, and
\* what the hard signals see.  A route may be a "structure", a list or an
\* object, which cannot be looked up in a set; a confidence may be a "huge"
\* integer, which is no float.  Only an explicit delegation reads the target,
\* only an explicit route or mode the confidence.
Metadata ==
    {m \in [route : Routes \cup {None, "structure"}, mode : {"auto", "message", "task", "odd"},
            target : Agents \cup {Ghost, None}, confidence : {None, "huge"},
            signal : {None, "task", "action"}] :
       /\ m.route # "remote_agent" => m.target = None
       /\ m.confidence # None =>
            m.route \in Routes \/ (m.route = None /\ m.mode \in {"message", "task"})}

\* object is "deep" when the text is nested beyond the recursion limit of the
\* decoder.  route is None when the field names no route, a "structure" when
\* it is a list or an object; tool is requires_tool; label is the first route
\* the classifier fields name, or "chat" when they only hold a chat word;
\* confidence "text" is no number, "huge" an integer that is no float; target
\* "number" is not a string, nor is "alias", which is spelled target_agent_id.
\* mentions and chat describe the raw text.  Fields that are not read are left
\* at None: all without an object or after a structure, the classifier fields
\* when a route is given, the labels after requires_tool, the reason when the
\* object is repaired.
NoAnswer == [object |-> "no", route |-> None, tool |-> None, label |-> None,
             confidence |-> None, reason |-> FALSE, target |-> None,
             mentions |-> {}, chat |-> FALSE]
RouterReply ==
    {a \in [object : {"no", "yes", "deep"}, route : Routes \cup {None, "structure"},
            tool : {None, "yes", "no"}, label : Routes \cup {None, "chat"},
            confidence : {None, "low", "high", "text", "huge"},
            reason : BOOLEAN, target : Agents \cup {Ghost, None, "number", "alias"},
            mentions : SUBSET Routes, chat : BOOLEAN] :
       /\ a.route # None => a.tool = None
       /\ a.route # None \/ a.tool # None => a.label = None
       /\ a.route \notin Routes => ~a.reason
       /\ a.route = "structure" => {a.confidence, a.target} = {None}
       /\ a.object # "yes" => {a.route, a.tool, a.label, a.confidence, a.target} = {None}}

\* An exception that leaves classify or decide, and a ValueError that classify catches.
Failed == [kind |-> "failed", target |-> None, confidence |-> None]
Unusable == [kind |-> "unusable", target |-> None, confidence |-> None]
Message(confidence) == [kind |-> "local_message", target |-> None, confidence |-> confidence]

------------------------------------------------------------------------------
\* The first route named, in the order of RouteDecisionKind, or what the chat
\* words stand for.
Labelled(names, chat) ==
    IF "local_message" \in names THEN "local_message"
    ELSE IF "local_task" \in names THEN "local_task"
    ELSE IF "remote_agent" \in names THEN "remote_agent"
    ELSE IF chat THEN "local_message" ELSE None

\* _numeric_or_default: 0.75 is above the threshold, and float raises for "huge".
NumericOrDefault(c) == IF c \in {"low", "high", "huge"} THEN c ELSE "high"

\* _repair_router_payload for an object: requires_tool first, then labels.
\* Without a repair the route is None.  The repair by a chat word clears
\* targetAgentId, and target_agent_id is read in its place.
Repair(a) ==
    [route |-> IF a.tool = "yes" THEN "local_task"
               ELSE IF a.tool = "no" THEN "local_message"
               ELSE Labelled({a.label}, a.label = "chat"),
     reason |-> TRUE, confidence |-> NumericOrDefault(a.confidence),
     target |-> IF a.label = "chat" /\ a.target # "alias" THEN None ELSE a.target]

\* mutant: a target is taken without looking at the agents that were offered
FromPayloadAnyAgent(a, enabled) ==
    LET p == IF a.route = None THEN Repair(a) ELSE a
        raised == \/ a.route = "structure"
                  \/ a.route = None /\ p.route # None /\ p.confidence = "huge"
        invalid == \/ p.route = None \/ p.confidence = "text" \/ ~p.reason
                   \/ p.target \in {"number", "alias"}
                   \/ p.route = "remote_agent" /\ p.target = None
    IN IF raised THEN Failed
       ELSE IF invalid THEN Unusable
       ELSE IF p.confidence = "huge" THEN Failed
       ELSE [kind |-> p.route, target |-> p.target, confidence |-> p.confidence]

\* _router_model_decision_from_payload.  It raises a TypeError when it looks up
\* a route that cannot be hashed and an OverflowError when a confidence cannot
\* be a float, in the repair before the other fields are validated and
\* otherwise after it; what it finds invalid is a ValueError.
FromPayload(a, enabled) ==
    LET p == IF a.route = None THEN Repair(a) ELSE a
        raised == \/ a.route = "structure"
                  \/ a.route = None /\ p.route # None /\ p.confidence = "huge"
        invalid == \/ p.route = None \/ p.confidence = "text" \/ ~p.reason
                   \/ p.target \in {"number", "alias"}
                   \/ p.route = "remote_agent" /\ p.target \notin enabled
    IN IF raised THEN Failed
       ELSE IF invalid THEN Unusable
       ELSE IF p.confidence = "huge" THEN Failed
       ELSE [kind |-> p.route, target |-> p.target, confidence |-> p.confidence]

\* The repair of an answer that could not be used: the raw text is searched
\* for a route name, and a delegation found that way has no target, so that
\* its ValueError leaves classify.
FromRawText(a) ==
    LET route == Labelled(a.mentions, a.chat) IN
      CASE route = None -> Message(None)
        [] route = "remote_agent" -> Failed
        [] OTHER -> [kind |-> route, target |-> None, confidence |-> "high"]

\* DirectModelRouterModelClient.classify; only a ValueError leads to the raw text.
Classify(a, enabled) ==
    LET parsed == CASE a.object = "deep" -> Failed
                    [] a.object = "no" -> Unusable
                    [] a.object = "yes" -> FromPayload(a, enabled)
        decision == IF parsed = Unusable THEN FromRawText(a) ELSE parsed
    IN IF decision.confidence = "low" THEN Message("low") ELSE decision

\* The router's own look at a classification, with the agents as they are now.
Confirm(decision, registered) ==
    IF decision.confidence = "low" /\ decision.kind # "local_message" THEN Message("low")
    ELSE IF decision.kind = "remote_agent" /\ decision.target \notin registered
    THEN Message(decision.confidence)
    ELSE decision

\* _validate_explicit_route_metadata: what is not refused at the door.
Valid(m, enabled) ==
    m.mode # "odd" /\ (m.route = "remote_agent" => m.target \in enabled)

\* What metadata and hard signals decide; None when the model is to be asked,
\* "failed" where reading them raises.
Demanded(m, live) ==
    LET explicit == IF m.route # None THEN m.route
                    ELSE IF m.mode = "message" THEN "local_message"
                    ELSE IF m.mode = "task" THEN "local_task" ELSE None
        raised == \/ explicit = "structure"
                  \/ explicit = "remote_agent" /\ m.target = None
                  \/ explicit # None /\ m.confidence = "huge"
                  \/ explicit = None /\ m.mode = "odd"
    IN IF raised THEN "failed"
       ELSE IF explicit # None THEN explicit
       ELSE IF m.signal = "action" \/ (m.signal = "task" /\ live) THEN "local_task"
       ELSE None

==============================================================================
