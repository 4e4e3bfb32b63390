------------------------- MODULE PersistentAuditLog -------------------------
(***************************************************************************)
(* PersistentAuditLog and load_persistent_audit_log of persistence.py: one *)
(* process at a time, several threads, one JSONL file.  append() adds to   *)
(* the in-memory chain first and then writes the line, both under          *)
(* _file_lock; the write may fail, and the process may die anywhere.  What *)
(* a closed file holds survives the process (not a power failure).         *)
(***************************************************************************)
EXTENDS AuditLog, FiniteSets, SequencesExt

CONSTANTS
    Thread,
    Reloaded,      \* the payload json.loads makes of a written payload
    MaxEntries,    \* bounds on the chain, on failed writes and on crashes
    MaxErrors,
    MaxCrashes

ASSUME PersistenceAssumption ==
    /\ Reloaded \in [Payload -> Payload]
    /\ MaxEntries \in Nat /\ MaxErrors \in Nat /\ MaxCrashes \in Nat

VARIABLES
    up,            \* the process runs
    writing,       \* the entry each thread holds _file_lock for, or None
    file,          \* the lines of the file as json.loads reads them
    terminated,    \* the file ends with a newline (or is empty)
    acknowledged,  \* the entries append() has returned
    errors,
    crashes

vars == <<entries, up, writing, file, terminated, acknowledged, errors, crashes>>

(* What is no entry: a line json.loads rejects, and what a thread that     *)
(* writes nothing is writing.                                              *)
Torn == [sequence |-> -1]
None == [sequence |-> -2]

Line(entry) == [entry EXCEPT !.payload = Reloaded[@]]

IsEntry(e) == e.sequence \in Nat /\ e.payload \in Payload

TypeOK ==
    /\ \A i \in DOMAIN entries : entries[i] # Torn /\ IsEntry(entries[i])
    /\ \A i \in DOMAIN file : file[i] # Torn => IsEntry(file[i])
    /\ \A t \in Thread : writing[t] # None => IsEntry(writing[t])
    /\ Cardinality({t \in Thread : writing[t] # None}) <= 1
    /\ \A e \in acknowledged : IsEntry(e)
    /\ up \in BOOLEAN /\ terminated \in BOOLEAN
    /\ ~up => entries = << >> /\ \A t \in Thread : writing[t] = None
    /\ errors \in 0 .. MaxErrors
    /\ crashes \in 0 .. MaxCrashes

Init ==
    /\ entries = << >>
    /\ up = TRUE
    /\ writing = [t \in Thread |-> None]
    /\ file = << >>
    /\ terminated = TRUE
    /\ acknowledged = {}
    /\ errors = 0
    /\ crashes = 0

(* Text added to a file whose last line has no newline joins that line,    *)
(* and no two entries on one line parse.                                   *)
AddText(line) ==
    file' = IF terminated THEN Append(file, line)
            ELSE [file EXCEPT ![Len(file)] = Torn]

(* A write cut short leaves nothing, part of the line, or all of it but    *)
(* the newline.                                                            *)
AddPart(line) ==
    \/ UNCHANGED <<file, terminated>>
    \/ /\ AddText(Torn) \/ AddText(line)
       /\ terminated' = FALSE

(* Mutant: the write is outside the lock. *)
AppendInMemoryUnlocked(t, payload) ==
    LET entry == NextEntry(entries, payload)
    IN  /\ up
        /\ writing[t] = None
        /\ Len(entries) < MaxEntries
        /\ entries' = Append(entries, entry)
        /\ writing' = [writing EXCEPT ![t] = entry]
        /\ UNCHANGED <<up, file, terminated, acknowledged, errors, crashes>>

AppendInMemory(t, payload) ==
    LET entry == NextEntry(entries, payload)
    IN  /\ up
        /\ \A u \in Thread : writing[u] = None
        /\ Len(entries) < MaxEntries
        /\ entries' = Append(entries, entry)
        /\ writing' = [writing EXCEPT ![t] = entry]
        /\ UNCHANGED <<up, file, terminated, acknowledged, errors, crashes>>

Write(t) ==
    /\ writing[t] # None
    /\ AddText(Line(writing[t]))
    /\ terminated' = TRUE
    /\ writing' = [writing EXCEPT ![t] = None]
    /\ acknowledged' = acknowledged \cup {writing[t]}
    /\ UNCHANGED <<entries, up, errors, crashes>>

(* Mutant: the error does not reach the caller. *)
WriteFailsSilently(t) ==
    /\ writing[t] # None
    /\ errors < MaxErrors
    /\ AddPart(Line(writing[t]))
    /\ writing' = [writing EXCEPT ![t] = None]
    /\ acknowledged' = acknowledged \cup {writing[t]}
    /\ errors' = errors + 1
    /\ UNCHANGED <<entries, up, crashes>>

(* open() or write() raises; the entry stays in the in-memory chain.       *)
WriteFails(t) ==
    /\ writing[t] # None
    /\ errors < MaxErrors
    /\ AddPart(Line(writing[t]))
    /\ writing' = [writing EXCEPT ![t] = None]
    /\ errors' = errors + 1
    /\ UNCHANGED <<entries, up, acknowledged, crashes>>

(* The line under way may have got as far as it likes. *)
Crash ==
    /\ up
    /\ crashes < MaxCrashes
    /\ \/ UNCHANGED <<file, terminated>>
       \/ \E t \in Thread :
              /\ writing[t] # None
              /\ \/ AddPart(Line(writing[t]))
                 \/ AddText(Line(writing[t])) /\ terminated' = TRUE
    /\ up' = FALSE
    /\ entries' = << >>
    /\ writing' = [t \in Thread |-> None]
    /\ crashes' = crashes + 1
    /\ UNCHANGED <<acknowledged, errors>>

Loadable == \A i \in DOMAIN file : file[i] # Torn

(* Mutants: the file is re-opened and not re-loaded; a line that does not  *)
(* parse is kept.                                                          *)
RestartAfresh ==
    /\ ~up
    /\ up' = TRUE
    /\ UNCHANGED <<entries, writing, file, terminated, acknowledged, errors, crashes>>
RestartUnparsed ==
    /\ ~up
    /\ up' = TRUE
    /\ entries' = file
    /\ UNCHANGED <<writing, file, terminated, acknowledged, errors, crashes>>

(* load_persistent_audit_log raises on a line that does not parse, and     *)
(* checks nothing else.                                                    *)
Restart ==
    /\ ~up
    /\ Loadable
    /\ up' = TRUE
    /\ entries' = file
    /\ UNCHANGED <<writing, file, terminated, acknowledged, errors, crashes>>

Next ==
    \/ \E t \in Thread :
           \/ \E payload \in Payload : AppendInMemory(t, payload)
           \/ Write(t)
           \/ WriteFails(t)
    \/ Crash
    \/ Restart

Spec == Init /\ [][Next]_vars

-----------------------------------------------------------------------------
(* Properties *)

(* "Same guarantees as AuditLog" (persistence.py:27): a log that reloads   *)
(* verifies -- it reports no tampering that never happened.                *)
ReloadVerifies == Loadable => Verifies(file)

(* The same while no write has failed: crashes at any point and any number *)
(* of restarts raise no false alarm.                                       *)
NoFalseAlarm == errors = 0 => ReloadVerifies

(* The ordering argument of the class (persistence.py:36-45): lines land   *)
(* in the file in the order of their sequence numbers, so a reload         *)
(* misorders nothing.  Only a write error breaks it: the next process      *)
(* numbers its entries by counting the lines that did get there.           *)
FileInSequence ==
    errors = 0 =>
        \A i, j \in DOMAIN file :
            i < j /\ file[i] # Torn /\ file[j] # Torn => file[i].sequence < file[j].sequence

(* What a caller may rely on: if the file loads and verifies then every    *)
(* entry append() returned is in it, after any crashes and write errors.   *)
(* A lost entry is never lost quietly.                                     *)
VerifiedMeansComplete ==
    Loadable /\ Verifies(file) =>
        \A e \in acknowledged : \E i \in DOMAIN file : file[i] = Line(e)

(* An entry whose content was replaced, with a digest to match.            *)
Rewritten(entry, payload) ==
    [EntryFor(entry.sequence, payload, entry.previous_hash)
        EXCEPT !.signature = entry.signature]

(* "An entry was likely reordered, deleted, or inserted", or its "content  *)
(* was modified after it was logged", even "along with a hand-crafted      *)
(* matching hash" (audit_log.py:166-175, 185-198): whatever crashes and    *)
(* write errors made of the file, one that verifies no longer does after   *)
(* any such change.  Lines missing from the end are not covered.           *)
ChangesAreDetected ==
    Loadable /\ Verifies(file) =>
        \A i, j \in DOMAIN file :
            /\ ~Verifies(InsertAt(file, i, file[j]))
            /\ i < Len(file) => ~Verifies(RemoveAt(file, i))
            /\ i < j =>
                   ~Verifies([file EXCEPT ![i] = file[j], ![j] = file[i]])
            /\ \A payload \in Payload :
                   Canonical[payload] # Canonical[file[i].payload] =>
                       ~Verifies([file EXCEPT ![i] = Rewritten(file[i], payload)])

=============================================================================
