------------------------ MODULE PersistentAuditLogMC ------------------------
(* A payload whose dict keys are integers comes back from the file with    *)
(* string keys, which _canonical_json sorts in another order; a plain one  *)
(* comes back as it was.                                                   *)
EXTENDS PersistentAuditLog, TLC

CONSTANTS plain, other, int_keys, str_keys

PlainPayload == {plain, other}
IntKeyPayload == {plain, int_keys, str_keys}

MCCanonical == [p \in Payload |-> p]
MCReloaded == [p \in Payload |-> IF p = int_keys THEN str_keys ELSE p]

ThreadSymmetry == Permutations(Thread)

=============================================================================
