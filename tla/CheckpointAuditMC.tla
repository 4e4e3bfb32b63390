------------------------- MODULE CheckpointAuditMC --------------------------
(* Two checkpoints over two clock ticks: enough for a human's answer, an   *)
(* expiry and a sweep to meet on either of them in every order.            *)
EXTENDS CheckpointAudit

MCTtl == {None, 1}

=============================================================================
