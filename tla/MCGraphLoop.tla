----------------------------- MODULE MCGraphLoop -----------------------------
(* GraphLoop with every combination of tight limits: two loop rounds with   *)
(* fewer, as many and more model calls, with and without a deadline.        *)
EXTENDS GraphLoop

MCPolicies ==
    [max_model_calls: 1..3, max_tool_calls: {0, 1, 3}, max_failures: {1, 2},
     max_tool_argument_corrections: {0, 1}, max_loop_steps: {2, 3},
     has_deadline: BOOLEAN]

==============================================================================
