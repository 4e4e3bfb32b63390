----------------------------- MODULE ToolCallsMC ----------------------------
(* A refund tool and a credit tool that share one budget; the credit tool  *)
(* also has a budget of its own, so one call can pass one limit and fail   *)
(* the other.  The wire tool is never registered.                          *)
EXTENDS ToolCalls, TLC

CONSTANTS refund_tool, credit_tool, wire_tool, shared, credit_only,
          small, large, giveback, unpriced

MCAmount == small :> 1 @@ large :> 3 @@ giveback :> -1 @@ unpriced :> None

MCScopeOf ==
    refund_tool :> [minimum_autonomy |-> 0, max_calls_per_session |-> 2,
                    accepts |-> {small, large, unpriced}, approval_above |-> None]
    @@ credit_tool :> [minimum_autonomy |-> 2, max_calls_per_session |-> None,
                       accepts |-> {small, large, giveback}, approval_above |-> None]
    @@ wire_tool :> None

MCLimitOf ==
    shared :> [tool_names |-> {refund_tool, credit_tool}, ceiling |-> 4]
    @@ credit_only :> [tool_names |-> {credit_tool}, ceiling |-> 3]

Request(tool, level, params) == [tool |-> tool, level |-> level, params |-> params]

MCToolRequest ==
    {Request(refund_tool, 1, p) : p \in {small, large, unpriced, giveback}}
    \cup {Request(credit_tool, 3, p) : p \in {small, large, giveback}}
    \cup {Request(credit_tool, 1, small), Request(wire_tool, 4, small)}

CallSymmetry == Permutations(Call)

=============================================================================
