------------------------------ MODULE AuditLog ------------------------------
(***************************************************************************)
(* The hash chain of audit_log.py.  A digest is the very content it is     *)
(* computed from, so equal digests mean equal contents (sha256 is taken to *)
(* have no collisions), and a signature is the digest with the key that    *)
(* signed it.  append() and entries copy payloads deeply, which makes them *)
(* the values they are here.  The timestamp is left out.                   *)
(***************************************************************************)
EXTENDS Integers, Sequences

CONSTANTS
    Payload,      \* event types with their payload dicts
    Canonical,    \* _canonical_json of each
    secret_key

VARIABLE entries  \* AuditLog._entries

(* "0" * 64: the digest of no entry.                                       *)
GENESIS_HASH == [sequence |-> -1]

ComputeEntryHash(sequence, payload, previous_hash) ==
    [sequence |-> sequence, content |-> Canonical[payload],
     previous_hash |-> previous_hash]

Sign(entry_hash) == [key |-> secret_key, message |-> entry_hash]

EntryFor(sequence, payload, previous_hash) ==
    LET entry_hash == ComputeEntryHash(sequence, payload, previous_hash)
    IN  [sequence |-> sequence, payload |-> payload, previous_hash |-> previous_hash,
         entry_hash |-> entry_hash, signature |-> Sign(entry_hash)]

LastHash(log) == IF log = << >> THEN GENESIS_HASH ELSE log[Len(log)].entry_hash

(* What append() builds, in one critical section with adding it.           *)
NextEntry(log, payload) == EntryFor(Len(log), payload, LastHash(log))

Linked(log) ==
    \A i \in DOMAIN log :
        log[i].previous_hash = IF i = 1 THEN GENESIS_HASH ELSE log[i - 1].entry_hash

Recomputes(log) ==
    \A i \in DOMAIN log :
        log[i].entry_hash =
            ComputeEntryHash(log[i].sequence, log[i].payload, log[i].previous_hash)

(* Mutant: the signatures are not looked at. *)
VerifiesUnsigned(log) == Linked(log) /\ Recomputes(log)

(* verify(): every link, every digest and every signature, recomputed from *)
(* the content.                                                            *)
Verifies(log) ==
    /\ Linked(log)
    /\ Recomputes(log)
    /\ \A i \in DOMAIN log : log[i].signature = Sign(log[i].entry_hash)

=============================================================================
