------------------------------ MODULE FirstTurn ------------------------------
(***************************************************************************)
(* From a message to the first action of its Task: the input is appended   *)
(* to its conversation, the router is shown a cut of it and decides, the   *)
(* direct answer or the Task's worker is shown another cut, perhaps much   *)
(* later, and the worker's model answers with an action.  Meanwhile other  *)
(* messages enter the conversation, child agents are enabled, disabled and *)
(* removed, and the Task a message refers to may end.                      *)
(***************************************************************************)
EXTENDS ContextCut, RouterDecision, ModelAction

CONSTANTS Lengths,     \* lengths of message texts
          MaxHistory,  \* bound: messages before the input
          MaxLater,    \* bound: messages after it
          MaxPieces    \* bound: pieces of a model's text

ASSUME LengthsAssumption == Lengths \subseteq Nat

\* The three policies, scaled down.
RouterPolicy == Policy(2, 3, 2)
DirectPolicy == Policy(3, 4, 3)
TaskPolicy == Policy(3, 5, 4)

VARIABLES
    focus,     \* bound: a behaviour varies the "conversation" or the "answers"
    conv,      \* messages of the Context, in order of context_sequence
    input,     \* context_sequence of the message; 0 before it arrives
    meta,      \* its metadata
    agents,    \* agent -> "absent", "enabled", "disabled"
    live,      \* the Task that metadata may name is not terminal
    model,     \* a router model is configured
    stage,     \* where the handling of the message is
    shown,     \* the context last assembled
    offered,   \* the agents listed for the router model
    heard,     \* the router model's answer, or NoAnswer
    decision,  \* the route decided
    text, mode, observed, action  \* the worker model's answer and what it became

route_vars == <<meta, offered, heard, decision>>
work_vars == <<text, mode, observed, action>>
turn_vars == <<focus, conv, input, agents, live, model, stage, shown, route_vars, work_vars>>

NoMeta == [route |-> None, mode |-> "auto", target |-> None, confidence |-> None,
           signal |-> None]
Enabled == {a \in Agents : agents[a] = "enabled"}
Registered == {a \in Agents : agents[a] # "absent"}

Msg(n) == [sequence |-> Len(conv) + 1, length |-> n]

\* What the models may answer: anything, or something that is easily understood.
Answers == IF focus = "answers" THEN RouterReply
           ELSE {[NoAnswer EXCEPT !.mentions = {r}] : r \in {"local_message", "local_task"}}
Texts == IF focus = "answers" THEN UNION {[1..n -> Piece] : n \in 0..MaxPieces}
         ELSE {<<"final">>}

TurnInit ==
    /\ focus \in {"conversation", "answers"}
    /\ conv = <<>> /\ input = 0 /\ meta = NoMeta
    /\ agents \in [Agents -> {"absent", "enabled"}]
    /\ live \in BOOLEAN /\ model \in BOOLEAN
    /\ stage = "new" /\ shown = <<>> /\ offered = {} /\ heard = NoAnswer
    /\ decision = Failed
    /\ text = <<>> /\ mode = "prompt_json" /\ observed = FALSE /\ action = None

------------------------------------------------------------------------------
(* What goes on around the message.                                        *)

\* Another message of the Context, before or after the input.
OtherMessage ==
    /\ focus = "conversation"
    /\ IF input = 0 THEN Len(conv) < MaxHistory ELSE Len(conv) < input + MaxLater
    /\ stage \in {"new", "admitted", "accepted"}
    /\ \E n \in Lengths : conv' = Append(conv, Msg(n))
    /\ UNCHANGED <<focus, input, agents, live, model, stage, shown, route_vars, work_vars>>

\* An operator registers, enables, disables or removes an agent.
EditAgents ==
    /\ focus = "answers" /\ stage \in {"new", "admitted", "asked", "routed"}
    /\ \E a \in Agents, s \in {"absent", "enabled", "disabled"} :
         s # agents[a] /\ agents' = [agents EXCEPT ![a] = s]
    /\ UNCHANGED <<focus, conv, input, live, model, stage, shown, route_vars, work_vars>>

\* The Task that the metadata names ends.
OtherTaskEnds ==
    /\ live /\ stage = "admitted" /\ live' = FALSE
    /\ UNCHANGED <<focus, conv, input, agents, model, stage, shown, route_vars, work_vars>>

------------------------------------------------------------------------------
(* The message.                                                            *)

\* _prepare_message_route: a message whose metadata cannot be served is
\* refused and leaves nothing; another is appended, its sequence allocated
\* with the insert.
Arrive ==
    /\ stage = "new"
    /\ \E m \in Metadata :
         \/ ~Valid(m, Enabled) /\ stage' = "refused" /\ UNCHANGED <<conv, input, meta>>
         \/ /\ Valid(m, Enabled) /\ stage' = "admitted" /\ meta' = m
            /\ \E n \in Lengths :
                 (focus = "answers" => n = 0) /\ conv' = Append(conv, Msg(n))
            /\ input' = Len(conv) + 1
    /\ UNCHANGED <<focus, agents, live, model, shown, offered, heard, decision, work_vars>>

\* router_context_through_input, then decide up to the model call.
Route ==
    /\ stage = "admitted"
    /\ shown' = ContextThroughInput(conv, input, RouterPolicy)
    /\ LET demanded == Demanded(meta, live) IN
         \/ /\ demanded # None /\ stage' = "routed" /\ UNCHANGED offered
            /\ decision' = [kind |-> demanded, confidence |-> None,
                            target |-> IF demanded = "remote_agent" THEN meta.target ELSE None]
         \/ /\ demanded = None /\ ~model /\ stage' = "routed"
            /\ decision' = Message(None) /\ UNCHANGED offered
         \/ /\ demanded = None /\ model /\ stage' = "asked"
            /\ offered' = Enabled /\ UNCHANGED decision
    /\ UNCHANGED <<focus, conv, input, meta, agents, live, model, heard, work_vars>>

\* The router model answers, or its client raises.
RouterAnswers ==
    /\ stage = "asked" /\ stage' = "routed"
    /\ \/ \E a \in Answers :
            /\ heard' = a
            /\ decision' = Confirm(Classify(a, offered), Registered)
       \/ decision' = Failed /\ UNCHANGED heard
    /\ UNCHANGED <<focus, conv, input, meta, agents, live, model, shown, offered, work_vars>>

\* _handle_local_message, _start_local_task or _handle_remote_agent: a direct
\* answer, a Task, or a delegation to an agent that is registered and enabled.
\* What led to it is no longer needed.
Dispatch ==
    /\ stage = "routed"
    /\ stage' = CASE decision.kind = "local_message" -> "answering"
               [] decision.kind = "local_task" -> "accepted"
               [] decision.kind = "remote_agent" /\ decision.target \in Enabled -> "delegated"
               [] OTHER -> "failed"
    /\ meta' = NoMeta /\ heard' = NoAnswer /\ offered' = {} /\ shown' = <<>>
    /\ UNCHANGED <<focus, conv, input, agents, live, model, decision, work_vars>>

\* direct_message_context_through_input
AnswerDirectly ==
    /\ stage = "answering" /\ stage' = "answered"
    /\ shown' = ContextThroughInput(conv, input, DirectPolicy)
    /\ UNCHANGED <<focus, conv, input, agents, live, model, route_vars, work_vars>>

\* local_task_context, when the Task's worker comes to it.
StartTask ==
    /\ stage = "accepted" /\ stage' = "working"
    /\ shown' = ContextThroughInput(conv, input, TaskPolicy)
    /\ UNCHANGED <<focus, conv, input, agents, live, model, route_vars, work_vars>>

\* The worker's model answers in the mode its client is configured for.
ModelAnswers ==
    /\ stage = "working" /\ stage' = "acted"
    /\ \/ /\ mode' = "prompt_json" /\ observed' \in BOOLEAN
          /\ text' \in Texts
          /\ action' = ParseContent(text', observed')
       \/ /\ mode' \in {"native", "none", "openai_none"} /\ UNCHANGED observed
          /\ \E c \in NativeCalls, s \in BOOLEAN :
               /\ text' = <<c>>
               /\ action' = IF mode' = "native" THEN ParseNative(c, s)
                            ELSE ParsePlain(c, s, mode' = "openai_none")
    /\ UNCHANGED <<focus, conv, input, agents, live, model, shown, route_vars>>

TurnNext ==
    \/ OtherMessage \/ EditAgents \/ OtherTaskEnds
    \/ Arrive \/ Route \/ RouterAnswers \/ Dispatch \/ AnswerDirectly \/ StartTask
    \/ ModelAnswers

TurnSpec == TurnInit /\ [][TurnNext]_turn_vars

\* The characters of the k newest messages of a context before its last one.
Characters(context) ==
    LET sum[k \in 0..(Len(context) - 1)] ==
          IF k = 0 THEN 0 ELSE sum[k - 1] + context[Len(context) - k].length
    IN sum

\* A context is the cut of the messages through the input under a policy.
IsCut(context, messages, through, p) ==
    LET n == Len(context)
        kept == {context[i].sequence : i \in 1..n}
        used == Characters(context)[n - 1]
    IN /\ n >= 1 /\ n <= p.max_messages /\ used <= p.max_history
       /\ context[n].sequence = through /\ context[n].length = messages[through].length
       /\ \A i \in 1..(n - 1) :
            /\ context[i].sequence < context[i + 1].sequence
            /\ context[i].length
                 \in 1..Shorter(p.max_message, messages[context[i].sequence].length)
       /\ \A t \in 1..(through - 1) :
            messages[t].length > 0 /\ t \notin kept =>
              /\ \A s \in kept : s > t
              /\ used = p.max_history \/ through - t >= p.max_messages

------------------------------------------------------------------------------
\* What a model is shown is the conversation as it was when the input was
\* accepted: the input itself, whole and last; before it the newest messages
\* that have text, in order and without a gap, within the policy; nothing
\* that came later, however late the cut is made; and a message is left out
\* only where the number of messages or of characters is used up
\* (context.py:88-163, store.py:494-533).
ContextIsTheInputCut ==
    shown # <<>> =>
      IsCut(shown, conv, input, CASE stage \in {"asked", "routed"} -> RouterPolicy
                                  [] stage = "answered" -> DirectPolicy
                                  [] OTHER -> TaskPolicy)

\* A router reply that is complete and confident, when these agents were offered.
Complete(a, offers) ==
    /\ a.route \in Routes /\ a.reason /\ a.confidence \in {None, "high"}
    /\ a.target \in (IF a.route = "remote_agent" THEN offers ELSE offers \cup {None})

\* The decision d has its reason in the reply a.
Reasoned(a, d, offers) ==
    /\ d.kind = "local_task" =>
         /\ a.tool = "yes" \/ "local_task" \in a.mentions \cup {a.route, a.label}
         /\ d.confidence # "low"
    /\ d.kind = "remote_agent" =>
         /\ "remote_agent" \in {a.route, a.label}
         /\ a.target = d.target /\ d.target \in offers
         /\ a.confidence \notin {"low", "huge"}
    /\ Complete(a, offers) =>
         d.kind = a.route \/ (d.kind = "local_message" /\ a.route = "remote_agent")
    /\ d.kind = "failed" /\ a # NoAnswer =>
         \/ a.object = "deep" \/ a.route = "structure" \/ a.confidence = "huge"
         \/ /\ "remote_agent" \in a.mentions
            /\ a.mentions \cap {"local_message", "local_task"} = {}

\* The route a message takes has a reason that holds: metadata decides before
\* the model is asked; a Task or a delegation nobody demanded was named by the
\* model's answer and not with low confidence, a delegation with an agent that
\* was offered to it; a complete and confident answer is followed while its
\* agent is registered; and routing fails only where reading the metadata
\* raises, or the router model's client, or the reading of its answer: nested
\* too deeply, a route that is a list or an object, a confidence that is no
\* float; or where nothing usable was answered and the raw text names a
\* delegation and no other route
\* (core.py:535-552, router.py:43-138, router_classifier.py:55-121,193-293).
RouteIsSound ==
    stage = "routed" =>
      IF Demanded(meta, live) # None
      THEN decision.kind = Demanded(meta, live) /\ heard = NoAnswer
      ELSE Reasoned(heard, decision, offered)

\* Position i lies after an open tag that no close tag has ended yet, and a
\* close tag follows.
InBlock(text_, i) ==
    LET ended == {j \in 1..(i - 1) : text_[j] = "close"} IN
      /\ \E j \in 1..i : text_[j] = "open" /\ \A k \in ended : k < j
      /\ \E k \in i..Len(text_) : text_[k] = "close"

\* A tool is called only if the provider asked for it in the way the
\* configured mode provides for, outside every reasoning block and before any
\* other action; and text that is neither is a final answer only after a tool
\* has answered (json_decision.py:8-76, ollama.py:166-210,310-332,407-477).
ActionIsAuthored ==
    stage = "acted" =>
      LET authored == {i \in 1..Len(text) : text[i] \in Actions /\ ~InBlock(text, i)} IN
        IF mode = "prompt_json"
        THEN /\ action = "tool" => \E i \in authored :
                  text[i] = "tool" /\ \A j \in authored : i <= j
             /\ action = "final" /\ ~observed => \E i \in authored :
                  text[i] = "final" /\ \A j \in authored : i <= j
             /\ action = "final" =>
                  \A i \in authored : text[i] = "final" \/ \E j \in authored : j < i
        ELSE action = "tool" => mode = "native" /\ text = <<"calls">>

==============================================================================
