------------------------- MODULE InventoryPolicyMC -------------------------
(* The lifecycle of full_lifecycle_demo.py and around it: wires are        *)
(* forbidden, then permitted; one bundle lists a tool both ways and has a  *)
(* limit, one has no confidence threshold and a lower tier, one lacks a    *)
(* required key and one names a tier this library does not know.           *)
EXTENDS InventoryPolicy, TLC

CONSTANTS wire, refund, wire_attempt, refund_order, small, large, unpriced

MCStartsWith == {<<wire_attempt, wire>>, <<refund_order, refund>>}
MCAmount == small :> 1 @@ large :> 5 @@ unpriced :> None

Complete(level, permitted, forbidden) ==
    [autonomy_level |-> level, permitted_tools |-> permitted, forbidden_tools |-> forbidden]

MCBundle ==
    {"confidence_threshold" :> 1 @@ Complete(3, << >>, <<wire>>),
     "confidence_threshold" :> 1 @@ "transaction_limit" :> 2
         @@ Complete(3, <<wire, refund>>, <<wire>>),
     Complete(2, <<refund, wire>>, << >>),
     [autonomy_level |-> 3, permitted_tools |-> <<wire>>],
     Complete(5, <<wire>>, << >>)}

RequestOf(action, confidence, level, tool, params) ==
    [action |-> action, confidence |-> confidence, level |-> level,
     tool |-> tool, params |-> params]
MCRequest ==
    {RequestOf(wire_attempt, 1, 3, wire, small),
     RequestOf(refund_order, 1, 4, refund, large),
     RequestOf(refund_order, 0, 2, refund, unpriced),
     RequestOf(refund_order, 1, 3, refund, unpriced),
     RequestOf(refund_order, 1, 3, None, small)}

RuntimeSymmetry == Permutations(Runtime)

=============================================================================
