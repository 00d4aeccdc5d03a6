----------------------------- MODULE ContextCut -----------------------------
(***************************************************************************)
(* The bounded history a model is shown (main_agent/context.py).  A message *)
(* is its context_sequence and the length of its stripped text; cut        *)
(* says how a kept text was shortened.                                     *)
(***************************************************************************)
EXTENDS Naturals, Sequences, FiniteSets

CONSTANT SuffixLength  \* length of _TRUNCATION_SUFFIX

ASSUME SuffixAssumption == SuffixLength \in Nat

\* ContextAssemblyPolicy
Policy(messages, history, message) ==
    [max_messages |-> messages, max_history |-> history, max_message |-> message]

Shorter(a, b) == IF a < b THEN a ELSE b

\* mutant: the newest messages, whoever sent them when
WindowToday(messages, through, p) ==
    LET n == Len(messages) IN
      SubSeq(messages, IF n > p.max_messages THEN n - p.max_messages + 1 ELSE 1, n)

\* list_context_messages with a limit and through_sequence: the newest
\* max_messages of those up to the input, oldest first.  Messages are in order
\* of context_sequence, so those up to the input come first.
Window(messages, through, p) ==
    LET n == Cardinality({i \in 1..Len(messages) : messages[i].sequence <= through}) IN
      SubSeq(messages, IF n > p.max_messages THEN n - p.max_messages + 1 ELSE 1, n)

\* _truncate_for_context: the suffix replaces the end of a shortened text
\* unless the limit leaves no room for it.
Truncate(m, limit) ==
    [sequence |-> m.sequence, length |-> Shorter(m.length, limit),
     cut |-> IF m.length <= limit THEN "whole"
             ELSE IF limit <= SuffixLength THEN "silent" ELSE "marked"]

\* One message of _bound_history, from the newest to the oldest.
Keep(m, acc, input, p) ==
    LET allowed == Shorter(p.max_message, acc.remaining)
        bounded == Truncate(m, allowed)
    IN IF m.sequence = input
       THEN [selected |-> <<Truncate(m, m.length)>> \o acc.selected,
             remaining |-> acc.remaining]
       ELSE IF m.length = 0 \/ acc.remaining = 0 THEN acc
       ELSE [selected |-> <<bounded>> \o acc.selected,
             remaining |-> acc.remaining - bounded.length]

\* _bound_history: what is selected and what remains after the k newest.
BoundHistory(window, input, p) ==
    LET after[k \in 0..Len(window)] ==
          IF k = 0 THEN [selected |-> <<>>, remaining |-> p.max_history]
          ELSE Keep(window[Len(window) - k + 1], after[k - 1], input, p)
    IN after[Len(window)].selected

\* _context_through_input and local_task_context.
ContextThroughInput(messages, input, p) ==
    BoundHistory(Window(messages, input, p), input, p)

==============================================================================
