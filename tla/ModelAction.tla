---------------------------- MODULE ModelAction ----------------------------
(***************************************************************************)
(* What a model client makes of a provider's answer: a final text, tool    *)
(* calls, or a protocol error (model_clients/ollama.py, openai_compatible.py, *)
(* json_decision.py).  A text is a sequence of pieces: prose, the tags of a *)
(* reasoning block, a malformed object, and JSON objects told apart by     *)
(* their action field.                                                     *)
(***************************************************************************)
EXTENDS Naturals, Sequences, FiniteSets

Tags == {"open", "close"}
\* Objects that have an action field, and all objects.
Actions == {"tool", "final", "odd"}
Objects == Actions \cup {"answer"}
Piece == Tags \cup Objects \cup {"prose", "brace"}

\* mutant: reasoning is as good as the rest of the text
InReasoningNever(text, i) == FALSE

\* Position i lies in a block <think> ... </think>: an open tag at or before
\* it, no close tag between, and a close tag at or after it.
InReasoning(text, i) ==
    \E j \in 1..i, k \in i..Len(text) :
      /\ text[j] = "open" /\ text[k] = "close"
      /\ \A n \in j..(k - 1) : text[n] # "close"

\* strip_reasoning_markup: whole blocks are removed, then the tags left over.
\* The pieces of the stripped text are the positions that remain.
StripReasoning(text) ==
    {i \in 1..Len(text) : ~InReasoning(text, i) /\ text[i] \notin Tags}

\* The first piece of what has positions S.
First(text, S) == text[CHOOSE i \in S : \A j \in S : i <= j]

\* decode_json_object: what has positions S is one object and nothing else.
Decodes(text, S) == \E i \in S : S = {i} /\ text[i] \in Objects

\* extract_embedded_action: the first object with an action.
EmbeddedAction(text, S) ==
    LET found == {i \in S : text[i] \in Actions} IN
      IF found = {} THEN "none" ELSE First(text, found)

\* parse_json_decision
ParseJsonDecision(text) ==
    LET whole == 1..Len(text)
        stripped == StripReasoning(text)
    IN IF Decodes(text, whole) THEN First(text, whole)
       ELSE IF Decodes(text, stripped) THEN First(text, stripped)
       ELSE EmbeddedAction(text, stripped)

\* _has_unbalanced_think_tags
Unbalanced(text) ==
    Cardinality({i \in 1..Len(text) : text[i] = "open"})
      # Cardinality({i \in 1..Len(text) : text[i] = "close"})

\* _post_tool_final_content returns the text.
PostToolFinal(text) ==
    LET stripped == StripReasoning(text) IN
      /\ ~Unbalanced(text) /\ stripped # {}
      /\ First(text, stripped) \notin Objects \cup {"brace"}

\* _parse_content, _legacy_final_content and _parse_decision: what comes of a
\* prompt_json answer; observed says that a tool has already answered.
ParseContent(text, observed) ==
    LET decision == ParseJsonDecision(text) IN
      CASE decision = "none" -> IF observed /\ PostToolFinal(text) THEN "final" ELSE "error"
        [] decision = "answer" -> IF observed THEN "final" ELSE "error"
        [] decision = "odd" -> "error"
        [] OTHER -> decision

\* Native answers: message.tool_calls is absent, not parseable, empty or a
\* list of calls, and message.content is a string or is not.
NativeCalls == {"absent", "malformed", "empty", "calls"}

\* parse_function_tool_calls, then _parse_native_response of both clients.
ParseNative(calls, content) ==
    CASE calls = "malformed" -> "error"
      [] calls = "calls" -> "tool"
      [] OTHER -> IF content THEN "final" ELSE "error"

\* Tools were not offered: Ollama accepts an empty list, the
\* OpenAI-compatible client none.
ParsePlain(calls, content, openai) ==
    CASE calls \in {"malformed", "calls"} -> "error"
      [] calls = "empty" /\ openai -> "error"
      [] OTHER -> IF content THEN "final" ELSE "error"

==============================================================================
