----------------------------- MODULE GovernorMC -----------------------------
(* One refund tool that needs an approval above 2, takes two calls and has *)
(* a budget of 6, under a policy that allows confident refunds, and        *)
(* credits from a tier no call here is approved for; it blocks wires and   *)
(* leaves the rest to a human.                                             *)
EXTENDS Governor, TLC

CONSTANTS refund, credit, wire, refund_tool, alice, small, unpriced, budget

MCPrefix == {refund, credit, wire}
MCStartsWith == {<<a, a>> : a \in MCPrefix}
MCRules == <<BlockRule(wire)>> \o ThresholdRulePair(refund, 1, 1)
              \o ThresholdRulePair(credit, 1, 3)

MCParams == {alice, small, unpriced}
MCAmount == alice :> 4 @@ small :> 1 @@ unpriced :> None

Scope(threshold) ==
    [minimum_autonomy |-> 2, max_calls_per_session |-> 2,
     accepts |-> MCParams, approval_above |-> threshold]
MCInitialScopes == refund_tool :> Scope(2)
MCInitialLimits ==
    budget :> [tool_names |-> {refund_tool}, ceiling |-> 6]

MCTtl == {None, 1}
MCRequestOf(action, confidence, level, tool, params) ==
    [action |-> action, confidence |-> confidence, level |-> level,
     tool |-> tool, params |-> params, ttl |-> 1]
Confident(params) == MCRequestOf(refund, 1, 3, refund_tool, params)

MCBoundParams == [tool_name : {refund_tool, None}, params : MCParams]

(* For the approval flow: calls above the threshold, below it and with no  *)
(* amount, and one above the approved ceiling.                             *)
ApprovalRequests ==
    {Confident(alice), Confident(small), Confident(unpriced),
     MCRequestOf(credit, 1, 3, None, small)}

(* For the other ways out of evaluate_action: a confidence that is      *)
(* rejected, an action with no tool, a tier below the tool's and a blocked *)
(* action.                                                                 *)
MixedRequests ==
    {Confident(alice), Confident(small),
     MCRequestOf(refund, 2, 3, refund_tool, alice),
     MCRequestOf(refund, 1, 1, None, small),
     MCRequestOf(refund, 1, 1, refund_tool, small),
     MCRequestOf(wire, 1, 4, refund_tool, small)}

(* The scope is registered again: never, with no threshold, with a lower one. *)
NoChoices == {}
ThresholdLowered == {<<refund_tool, Scope(0)>>}
ThresholdDropped == {<<refund_tool, Scope(None)>>}

CallSymmetry == Permutations(Call)

=============================================================================
