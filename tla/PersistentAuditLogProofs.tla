---------------------- MODULE PersistentAuditLogProofs ----------------------
(***************************************************************************)
(* What the log file guarantees, for any number of threads, entries, write *)
(* errors, crashes and restarts.                                           *)
(***************************************************************************)
EXTENDS PersistentAuditLog, FiniteSetTheorems, SequenceTheorems, TLAPS

-----------------------------------------------------------------------------
(* The inductive invariant *)

IsSequence(s) == s \in Seq({s[i] : i \in DOMAIN s})

IsAuditEntry(e) ==
    /\ IsEntry(e)
    /\ e = [sequence |-> e.sequence, payload |-> e.payload,
            previous_hash |-> e.previous_hash, entry_hash |-> e.entry_hash,
            signature |-> e.signature]

(* The chain but for its last entry ends with this digest.                 *)
HashBeforeLast ==
    IF Len(entries) = 1 THEN GENESIS_HASH ELSE entries[Len(entries) - 1].entry_hash

(* The one writer writes the newest entry of the chain.                    *)
WritesTheLast(t) ==
    /\ up /\ entries # << >>
    /\ writing[t] = entries[Len(entries)]
    /\ \A u \in Thread : writing[u] # None => u = t
    /\ \E payload \in Payload :
           writing[t] = EntryFor(Len(entries) - 1, payload, HashBeforeLast)

TypeInv ==
    /\ IsSequence(entries) /\ IsSequence(file)
    /\ \A i \in DOMAIN entries : IsAuditEntry(entries[i])
    /\ \A i \in DOMAIN file : file[i] # Torn => IsAuditEntry(file[i])
    /\ \A e \in acknowledged : IsAuditEntry(e)
    /\ writing = [t \in Thread |-> writing[t]]
    /\ \A t \in Thread : writing[t] # None => WritesTheLast(t)
    /\ terminated \/ file # << >>
    /\ ~up => entries = << >>
    /\ up \in BOOLEAN /\ terminated \in BOOLEAN
    /\ errors \in 0 .. MaxErrors /\ crashes \in 0 .. MaxCrashes

(* How many entries of the chain are still on their way to the file.       *)
UnderWay == IF \E t \in Thread : writing[t] # None THEN 1 ELSE 0

(* No acknowledged entry is missing from a file that loads.                *)
Kept ==
    Loadable => \A e \in acknowledged : \E i \in DOMAIN file : file[i] = Line(e)

(* Without a write error each entry is numbered by its place, and the file *)
(* is behind the chain by what is under way.                               *)
Places(log) == \A i \in DOMAIN log : log[i].sequence = i - 1
Behind == up => Len(file) = Len(entries) - UnderWay
Older ==
    up => \A i \in DOMAIN file :
              file[i] # Torn => file[i].sequence < Len(entries) - UnderWay
InOrder ==
    \A i, j \in DOMAIN file :
        i < j /\ file[i] # Torn /\ file[j] # Torn => file[i].sequence < file[j].sequence
Numbered ==
    errors = 0 => /\ Places(entries) /\ InOrder /\ Older
                  /\ Loadable => Places(file) /\ Behind

(* Without a write error the chain verifies, and the file carries its      *)
(* digests.                                                                *)
SameDigests ==
    up => \A i \in DOMAIN file : file[i].entry_hash = entries[i].entry_hash
Verified ==
    errors = 0 => /\ Verifies(entries)
                  /\ Loadable => Verifies(file) /\ SameDigests

(* Whatever went wrong, a file that verifies is numbered by place, in the  *)
(* entries and inside their digests.                                       *)
PlacesHashed(log) ==
    \A i \in DOMAIN log : log[i].sequence = i - 1 /\ log[i].entry_hash.sequence = i - 1
Placed ==
    Loadable /\ Verifies(file) => PlacesHashed(file) /\ PlacesHashed(entries)

(* What json.loads reads back has the canonical form of what was written.  *)
RoundTrips == \A payload \in Payload : Canonical[Reloaded[payload]] = Canonical[payload]


-----------------------------------------------------------------------------
(* Sequences of anything, entries, and what a write does to the file. *)

LEMMA SequenceFacts ==
    ASSUME NEW s, IsSequence(s)
    PROVE  /\ Len(s) \in Nat /\ DOMAIN s = 1 .. Len(s)
           /\ s # << >> <=> Len(s) > 0
BY LenProperties, EmptySeq DEF IsSequence

LEMMA AppendFacts ==
    ASSUME NEW s, IsSequence(s), NEW e
    PROVE  /\ IsSequence(Append(s, e))
           /\ Len(Append(s, e)) = Len(s) + 1
           /\ DOMAIN Append(s, e) = 1 .. Len(s) + 1
           /\ \A i \in DOMAIN s : Append(s, e)[i] = s[i]
           /\ Append(s, e)[Len(s) + 1] = e
<1> DEFINE S == {s[i] : i \in DOMAIN s} \cup {e}
           a == Append(s, e)
<1>1. s \in Seq(S) /\ e \in S
  BY SeqMonotonic DEF IsSequence
<1> HIDE DEF S
<1>2. /\ a \in Seq(S) /\ Len(a) = Len(s) + 1
      /\ \A i \in 1 .. Len(s) : a[i] = s[i]
      /\ a[Len(s) + 1] = e
  BY <1>1, AppendProperties
<1>3. DOMAIN a = 1 .. Len(a) /\ a \in [1 .. Len(a) -> S]
  BY <1>2, LenProperties
<1> HIDE DEF a
<1>4. a \in Seq({a[i] : i \in DOMAIN a})
  <2> DEFINE R == {a[i] : i \in DOMAIN a}
  <2>1. Len(a) \in Nat /\ a \in [1 .. Len(a) -> R]
    BY <1>2, <1>3, LenProperties
  <2> HIDE DEF R
  <2>2. a \in Seq(R)
    BY <2>1
  <2>3. QED
    BY <2>2 DEF R
<1>5. QED
  BY <1>2, <1>3, <1>4, SequenceFacts DEF IsSequence, a

LEMMA ReplaceFacts ==
    ASSUME NEW s, IsSequence(s), NEW n \in DOMAIN s, NEW e
    PROVE  LET r == [s EXCEPT ![n] = e]
           IN  /\ IsSequence(r)
               /\ Len(r) = Len(s) /\ DOMAIN r = DOMAIN s
               /\ \A i \in DOMAIN s : r[i] = IF i = n THEN e ELSE s[i]
<1> DEFINE r == [s EXCEPT ![n] = e]
           R == {r[i] : i \in DOMAIN r}
<1>1. Len(s) \in Nat /\ DOMAIN s = 1 .. Len(s)
  BY SequenceFacts
<1>2. DOMAIN r = DOMAIN s /\ \A i \in DOMAIN s : r[i] = IF i = n THEN e ELSE s[i]
  OBVIOUS
<1>3. r = [i \in 1 .. Len(s) |-> r[i]]
  BY <1>1
<1> HIDE DEF r
<1>4. r \in [1 .. Len(s) -> R]
  BY <1>1, <1>2, <1>3
<1> HIDE DEF R
<1>5. r \in Seq(R) /\ Len(r) = Len(s)
  BY <1>1, <1>4, LenProperties
<1>6. QED
  BY <1>2, <1>5 DEF IsSequence, r, R

LEMMA EntryFacts ==
    ASSUME NEW n \in Nat, NEW payload \in Payload, NEW previous_hash
    PROVE  LET e == EntryFor(n, payload, previous_hash)
           IN  /\ IsAuditEntry(e)
               /\ e.sequence = n /\ e.payload = payload
               /\ e.previous_hash = previous_hash
               /\ e.entry_hash = ComputeEntryHash(n, payload, previous_hash)
               /\ e.entry_hash.sequence = n
               /\ e.signature = Sign(e.entry_hash)
BY DEF EntryFor, IsAuditEntry, IsEntry, ComputeEntryHash

LEMMA NotAnEntry ==
    ASSUME NEW e, IsAuditEntry(e)
    PROVE  e # Torn /\ e # None
BY DEF IsAuditEntry, IsEntry, Torn, None

LEMMA LineFacts ==
    ASSUME NEW e, IsAuditEntry(e)
    PROVE  /\ IsAuditEntry(Line(e))
           /\ Line(e).sequence = e.sequence
           /\ Line(e).payload = Reloaded[e.payload]
           /\ Line(e).previous_hash = e.previous_hash
           /\ Line(e).entry_hash = e.entry_hash
           /\ Line(e).signature = e.signature
<1> DEFINE l == [sequence |-> e.sequence, payload |-> Reloaded[e.payload],
                 previous_hash |-> e.previous_hash, entry_hash |-> e.entry_hash,
                 signature |-> e.signature]
<1>1. Line(e) = l
  <2> DEFINE s == e.sequence  p == e.payload  h == e.previous_hash
             d == e.entry_hash  g == e.signature
  <2>1. e = [sequence |-> s, payload |-> p, previous_hash |-> h, entry_hash |-> d,
             signature |-> g]
    BY DEF IsAuditEntry
  <2> HIDE DEF s, p, h, d, g
  <2>2. [e EXCEPT !.payload = Reloaded[p]] =
            [sequence |-> s, payload |-> Reloaded[p], previous_hash |-> h,
             entry_hash |-> d, signature |-> g]
    BY <2>1
  <2>3. QED
    BY <2>2 DEF Line, s, p, h, d, g
<1>2. e.sequence \in Nat /\ Reloaded[e.payload] \in Payload
  BY PersistenceAssumption DEF IsAuditEntry, IsEntry
<1>3. QED
  BY <1>1, <1>2 DEF IsAuditEntry, IsEntry

(* A whole line more, and a last line that no longer parses.               *)
Added(line) ==
    /\ Len(file') = Len(file) + 1
    /\ \A i \in DOMAIN file : file'[i] = file[i]
    /\ file'[Len(file) + 1] = line
Spoiled ==
    /\ file # << >>
    /\ Len(file') = Len(file)
    /\ \A i \in DOMAIN file : i # Len(file) => file'[i] = file[i]
    /\ file'[Len(file)] = Torn

LEMMA TextAdded ==
    ASSUME TypeInv, NEW line, AddText(line)
    PROVE  IsSequence(file)' /\ file' # << >> /\ (Added(line) \/ Spoiled)
<1>1. /\ IsSequence(file) /\ Len(file) \in Nat /\ DOMAIN file = 1 .. Len(file)
      /\ file # << >> <=> Len(file) > 0
  BY SequenceFacts DEF TypeInv
<1>2. CASE terminated
  <2>1. file' = Append(file, line)
    BY <1>2 DEF AddText
  <2>2. IsSequence(file') /\ Added(line)
    BY <1>1, <2>1, AppendFacts DEF Added
  <2>3. file' # << >>
    BY <1>1, <2>2, SequenceFacts DEF Added
  <2>4. QED
    BY <2>2, <2>3 DEF IsSequence
<1>3. CASE ~terminated
  <2>1. file' = [file EXCEPT ![Len(file)] = Torn] /\ file # << >>
    BY <1>3 DEF AddText, TypeInv
  <2>2. Len(file) \in DOMAIN file
    BY <1>1, <2>1
  <2>3. IsSequence(file') /\ Spoiled
    BY <1>1, <2>1, <2>2, ReplaceFacts DEF Spoiled
  <2>4. file' # << >>
    BY <1>1, <2>1, <2>3, SequenceFacts DEF Spoiled
  <2>5. QED
    BY <2>3, <2>4 DEF IsSequence
<1>4. QED
  BY <1>2, <1>3

(* What any action leaves of the file while it writes `line`.              *)
FileMoves(line) == file' = file \/ Added(line) \/ Added(Torn) \/ Spoiled

LEMMA PartAdded ==
    ASSUME TypeInv, NEW line, AddPart(line)
    PROVE  /\ IsSequence(file') /\ FileMoves(line)
           /\ terminated' \in BOOLEAN
           /\ terminated' \/ file' # << >>
<1>1. CASE UNCHANGED <<file, terminated>>
  BY <1>1 DEF TypeInv, FileMoves
<1>2. CASE AddText(Torn) /\ terminated' = FALSE
  BY <1>2, TextAdded DEF FileMoves, IsSequence
<1>3. CASE AddText(line) /\ terminated' = FALSE
  BY <1>3, TextAdded DEF FileMoves, IsSequence
<1>4. QED
  BY <1>1, <1>2, <1>3 DEF AddPart

LEMMA FileTyped ==
    ASSUME TypeInv, NEW line, IsAuditEntry(line), IsSequence(file'), FileMoves(line)
    PROVE  \A i \in DOMAIN file' : file'[i] # Torn => IsAuditEntry(file'[i])
<1>1. /\ Len(file) \in Nat /\ DOMAIN file = 1 .. Len(file)
      /\ Len(file') \in Nat /\ DOMAIN file' = 1 .. Len(file')
      /\ \A i \in DOMAIN file : file[i] # Torn => IsAuditEntry(file[i])
  BY SequenceFacts DEF TypeInv
<1>2. CASE file' = file
  BY <1>1, <1>2
<1>3. ASSUME NEW new \in {line, Torn}, Added(new)
      PROVE  \A i \in DOMAIN file' : file'[i] # Torn => IsAuditEntry(file'[i])
  <2>1. SUFFICES ASSUME NEW i \in 1 .. Len(file) + 1, file'[i] # Torn
                 PROVE  IsAuditEntry(file'[i])
    BY <1>1, <1>3 DEF Added
  <2>2. CASE i \in DOMAIN file
    BY <1>1, <1>3, <2>1, <2>2 DEF Added
  <2>3. CASE i = Len(file) + 1
    BY <1>3, <2>1, <2>3 DEF Added
  <2>4. QED
    BY <1>1, <2>2, <2>3
<1>4. CASE Spoiled
  BY <1>1, <1>4 DEF Spoiled
<1>5. QED
  BY <1>2, <1>3, <1>4 DEF FileMoves

(* The thread in the critical section.                                     *)
LEMMA WriterFacts ==
    ASSUME TypeInv, NEW t \in Thread, writing[t] # None
    PROVE  /\ WritesTheLast(t)
           /\ IsAuditEntry(writing[t]) /\ IsAuditEntry(Line(writing[t]))
           /\ Len(entries) \in Nat \ {0} /\ Len(entries) \in DOMAIN entries
           /\ writing[t] = entries[Len(entries)]
<1>1. WritesTheLast(t)
  BY DEF TypeInv
<1>2. Len(entries) \in Nat \ {0} /\ Len(entries) \in DOMAIN entries
  BY <1>1, SequenceFacts DEF TypeInv, WritesTheLast
<1>3. writing[t] = entries[Len(entries)] /\ IsAuditEntry(writing[t])
  BY <1>1, <1>2 DEF WritesTheLast, TypeInv
<1>4. QED
  BY <1>1, <1>2, <1>3, LineFacts

LEMMA NewEntry ==
    ASSUME TypeInv, NEW payload \in Payload
    PROVE  /\ NextEntry(entries, payload) =
                  EntryFor(Len(entries), payload, LastHash(entries))
           /\ IsAuditEntry(NextEntry(entries, payload))
<1>1. Len(entries) \in Nat
  BY SequenceFacts DEF TypeInv
<1>2. QED
  BY <1>1, EntryFacts DEF NextEntry

-----------------------------------------------------------------------------
(* The types hold, and the one writer writes the newest entry. *)

LEMMA TypeInit ==
    ASSUME Init
    PROVE  TypeInv
<1>1. IsSequence(<< >>) /\ DOMAIN << >> = {}
  BY EmptySeq DEF IsSequence
<1>2. errors \in 0 .. MaxErrors /\ crashes \in 0 .. MaxCrashes
  BY PersistenceAssumption DEF Init
<1>3. QED
  BY <1>1, <1>2 DEF Init, TypeInv

LEMMA AppendTyped ==
    ASSUME TypeInv, NEW t \in Thread, NEW payload \in Payload,
           AppendInMemory(t, payload)
    PROVE  TypeInv'
<1> DEFINE e == NextEntry(entries, payload)
<1>1. /\ entries' = Append(entries, e)
      /\ writing' = [writing EXCEPT ![t] = e]
      /\ \A u \in Thread : writing[u] = None
      /\ up
      /\ UNCHANGED <<up, file, terminated, acknowledged, errors, crashes>>
  BY DEF AppendInMemory
<1>2. /\ e = EntryFor(Len(entries), payload, LastHash(entries))
      /\ IsAuditEntry(e)
  BY NewEntry
<1> HIDE DEF e
<1>3. /\ Len(entries) \in Nat /\ DOMAIN entries = 1 .. Len(entries)
      /\ entries # << >> <=> Len(entries) > 0
  BY SequenceFacts DEF TypeInv
<1>4. /\ IsSequence(entries') /\ Len(entries') = Len(entries) + 1
      /\ DOMAIN entries' = 1 .. Len(entries) + 1
      /\ \A i \in DOMAIN entries : entries'[i] = entries[i]
      /\ entries'[Len(entries) + 1] = e
  BY <1>1, AppendFacts DEF TypeInv
<1>5. \A i \in DOMAIN entries' : IsAuditEntry(entries'[i])
  BY <1>2, <1>3, <1>4 DEF TypeInv
<1>6. /\ writing' = [u \in Thread |-> writing'[u]]
      /\ writing'[t] = e
      /\ \A u \in Thread \ {t} : writing'[u] = None
  BY <1>1 DEF TypeInv
<1>7. LastHash(entries) = HashBeforeLast'
  BY <1>3, <1>4 DEF LastHash, HashBeforeLast
<1>8. entries' # << >>
  BY <1>3, <1>4, SequenceFacts
<1>9. WritesTheLast(t)'
  BY <1>1, <1>2, <1>3, <1>4, <1>6, <1>7, <1>8 DEF WritesTheLast
<1>10. \A u \in Thread : writing'[u] # None => WritesTheLast(u)'
  BY <1>6, <1>9
<1>11. IsSequence(entries)' /\ IsSequence(file)'
  BY <1>1, <1>4 DEF TypeInv, IsSequence
<1>12. QED
  BY <1>1, <1>5, <1>6, <1>10, <1>11 DEF TypeInv

(* The writer leaves the critical section.                                 *)
LEMMA LeavingTyped ==
    ASSUME TypeInv, NEW t \in Thread, writing[t] # None,
           writing' = [writing EXCEPT ![t] = None]
    PROVE  \A u \in Thread : writing'[u] = None
<1>1. \A u \in Thread \ {t} : writing[u] = None
  BY DEF TypeInv, WritesTheLast
<1>2. QED
  BY <1>1 DEF TypeInv

LEMMA WriteTyped ==
    ASSUME TypeInv, NEW t \in Thread, Write(t)
    PROVE  TypeInv'
<1> DEFINE line == Line(writing[t])
<1>1. /\ writing[t] # None /\ AddText(line) /\ terminated' = TRUE
      /\ writing' = [writing EXCEPT ![t] = None]
      /\ acknowledged' = acknowledged \cup {writing[t]}
      /\ UNCHANGED <<entries, up, errors, crashes>>
  BY DEF Write
<1>2. IsAuditEntry(writing[t]) /\ IsAuditEntry(line)
  BY <1>1, WriterFacts
<1> HIDE DEF line
<1>3. IsSequence(file') /\ FileMoves(line)
  BY <1>1, TextAdded DEF FileMoves, IsSequence
<1>4. \A i \in DOMAIN file' : file'[i] # Torn => IsAuditEntry(file'[i])
  BY <1>2, <1>3, FileTyped
<1>5. /\ \A u \in Thread : writing'[u] = None
      /\ writing' = [u \in Thread |-> writing'[u]]
  BY <1>1, LeavingTyped DEF TypeInv
<1>6. \A e \in acknowledged' : IsAuditEntry(e)
  BY <1>1, <1>2 DEF TypeInv
<1>7. QED
  BY <1>1, <1>3, <1>4, <1>5, <1>6 DEF TypeInv, IsSequence

LEMMA WriteFailsTyped ==
    ASSUME TypeInv, NEW t \in Thread, WriteFails(t)
    PROVE  TypeInv'
<1> DEFINE line == Line(writing[t])
<1>1. /\ writing[t] # None /\ errors < MaxErrors /\ AddPart(line)
      /\ writing' = [writing EXCEPT ![t] = None]
      /\ errors' = errors + 1
      /\ UNCHANGED <<entries, up, acknowledged, crashes>>
  BY DEF WriteFails
<1>2. IsAuditEntry(line)
  BY <1>1, WriterFacts
<1> HIDE DEF line
<1>3. /\ IsSequence(file') /\ FileMoves(line)
      /\ terminated' \in BOOLEAN /\ (terminated' \/ file' # << >>)
  BY <1>1, PartAdded
<1>4. \A i \in DOMAIN file' : file'[i] # Torn => IsAuditEntry(file'[i])
  BY <1>2, <1>3, FileTyped
<1>5. /\ \A u \in Thread : writing'[u] = None
      /\ writing' = [u \in Thread |-> writing'[u]]
  BY <1>1, LeavingTyped DEF TypeInv
<1>6. errors' \in 0 .. MaxErrors
  BY <1>1, PersistenceAssumption DEF TypeInv
<1>7. QED
  BY <1>1, <1>3, <1>4, <1>5, <1>6 DEF TypeInv, IsSequence

(* A crash writes nothing, or as much as it likes of the line under way.   *)
CrashLeaves ==
    /\ IsSequence(file')
    /\ terminated' \in BOOLEAN /\ (terminated' \/ file' # << >>)
    /\ \/ file' = file
       \/ \E t \in Thread : writing[t] # None /\ FileMoves(Line(writing[t]))

LEMMA CrashMoves ==
    ASSUME TypeInv, Crash
    PROVE  CrashLeaves
<1>1. CASE UNCHANGED <<file, terminated>>
  BY <1>1 DEF TypeInv, CrashLeaves
<1>2. ASSUME NEW t \in Thread, writing[t] # None, AddPart(Line(writing[t]))
      PROVE  CrashLeaves
  BY <1>2, PartAdded DEF CrashLeaves
<1>3. ASSUME NEW t \in Thread, writing[t] # None,
             AddText(Line(writing[t])), terminated' = TRUE
      PROVE  CrashLeaves
  BY <1>3, TextAdded DEF FileMoves, IsSequence, CrashLeaves
<1>4. QED
  BY <1>1, <1>2, <1>3 DEF Crash

LEMMA CrashTyped ==
    ASSUME TypeInv, Crash
    PROVE  TypeInv'
<1>1. /\ up' = FALSE /\ entries' = << >>
      /\ writing' = [t \in Thread |-> None]
      /\ crashes < MaxCrashes /\ crashes' = crashes + 1
      /\ UNCHANGED <<acknowledged, errors>>
  BY DEF Crash
<1>2. \A i \in DOMAIN file' : file'[i] # Torn => IsAuditEntry(file'[i])
  <2>1. IsSequence(file')
    BY CrashMoves DEF CrashLeaves
  <2>2. CASE file' = file
    BY <2>2 DEF TypeInv
  <2>3. ASSUME NEW t \in Thread, writing[t] # None, FileMoves(Line(writing[t]))
        PROVE  \A i \in DOMAIN file' : file'[i] # Torn => IsAuditEntry(file'[i])
    BY <2>1, <2>3, WriterFacts, FileTyped
  <2>4. QED
    BY <2>2, <2>3, CrashMoves DEF CrashLeaves
<1>3. IsSequence(<< >>) /\ DOMAIN << >> = {}
  BY EmptySeq DEF IsSequence
<1>4. crashes' \in 0 .. MaxCrashes
  BY <1>1, PersistenceAssumption DEF TypeInv
<1>5. QED
  BY <1>1, <1>2, <1>3, <1>4, CrashMoves DEF TypeInv, IsSequence, CrashLeaves

LEMMA RestartTyped ==
    ASSUME TypeInv, Restart
    PROVE  TypeInv'
<1>1. /\ ~up /\ up' = TRUE /\ entries' = file
      /\ \A i \in DOMAIN file : file[i] # Torn
      /\ UNCHANGED <<writing, file, terminated, acknowledged, errors, crashes>>
  BY DEF Restart, Loadable
<1>2. \A t \in Thread : writing[t] = None
  BY <1>1 DEF TypeInv, WritesTheLast
<1>3. QED
  BY <1>1, <1>2 DEF TypeInv, IsSequence

LEMMA TypeStep ==
    ASSUME TypeInv, [Next]_vars
    PROVE  TypeInv'
<1>1. ASSUME NEW t \in Thread, NEW payload \in Payload, AppendInMemory(t, payload)
      PROVE  TypeInv'
  BY <1>1, AppendTyped
<1>2. ASSUME NEW t \in Thread, Write(t) PROVE TypeInv'
  BY <1>2, WriteTyped
<1>3. ASSUME NEW t \in Thread, WriteFails(t) PROVE TypeInv'
  BY <1>3, WriteFailsTyped
<1>4. CASE Crash
  BY <1>4, CrashTyped
<1>5. CASE Restart
  BY <1>5, RestartTyped
<1>6. CASE UNCHANGED vars
  BY <1>6 DEF vars, TypeInv, IsSequence, WritesTheLast, HashBeforeLast
<1>7. QED
  BY <1>1, <1>2, <1>3, <1>4, <1>5, <1>6 DEF Next

LEMMA TypesFollow ==
    ASSUME TypeInv
    PROVE  TypeOK
<1>1. Cardinality({t \in Thread : writing[t] # None}) <= 1
  <2>1. CASE \A t \in Thread : writing[t] = None
    <3>1. {t \in Thread : writing[t] # None} = {}
      BY <2>1
    <3>2. QED
      BY <3>1, FS_EmptySet
  <2>2. ASSUME NEW t \in Thread, writing[t] # None
        PROVE  Cardinality({u \in Thread : writing[u] # None}) <= 1
    <3>1. {u \in Thread : writing[u] # None} = {t}
      BY <2>2 DEF TypeInv, WritesTheLast
    <3>2. Cardinality({t}) = 1
      BY FS_Singleton
    <3>3. QED
      BY <3>1, <3>2
  <2>3. QED
    BY <2>1, <2>2
<1>2. \A i \in DOMAIN entries : entries[i] # Torn /\ IsEntry(entries[i])
  BY NotAnEntry DEF TypeInv, IsAuditEntry
<1>3. \A t \in Thread : writing[t] # None => IsEntry(writing[t])
  BY WriterFacts DEF IsAuditEntry
<1>4. ~up => entries = << >> /\ \A t \in Thread : writing[t] = None
  BY DEF TypeInv, WritesTheLast
<1>5. QED
  BY <1>1, <1>2, <1>3, <1>4 DEF TypeInv, TypeOK, IsAuditEntry

(* The log's variables keep their types, and at most one thread writes.    *)
THEOREM LogTyped == Spec => []TypeOK
<1>1. Init => TypeInv
  BY TypeInit
<1>2. TypeInv /\ [Next]_vars => TypeInv'
  BY TypeStep
<1>3. TypeInv => TypeOK
  BY TypesFollow
<1>4. QED
  BY <1>1, <1>2, <1>3, PTL DEF Spec

-----------------------------------------------------------------------------
(* A line that does not parse never parses again, so a file that loads has *)
(* only ever been added to.                                                *)

LEMMA TornStays ==
    ASSUME TypeInv, NEW line, IsSequence(file'), FileMoves(line), Loadable'
    PROVE  Loadable /\ (file' = file \/ Added(line))
<1>1. /\ Len(file) \in Nat /\ DOMAIN file = 1 .. Len(file)
      /\ Len(file') \in Nat /\ DOMAIN file' = 1 .. Len(file')
      /\ file # << >> <=> Len(file) > 0
  BY SequenceFacts DEF TypeInv
<1>2. \A i \in DOMAIN file' : file'[i] # Torn
  BY DEF Loadable
<1>3. CASE file' = file
  BY <1>2, <1>3 DEF Loadable
<1>4. CASE Added(line)
  BY <1>1, <1>2, <1>4 DEF Added, Loadable
<1>5. ASSUME Added(Torn) PROVE FALSE
  <2>1. Len(file') = Len(file) + 1 /\ file'[Len(file) + 1] = Torn
    BY <1>5 DEF Added
  <2>2. Len(file) + 1 \in DOMAIN file'
    BY <1>1, <2>1
  <2>3. QED
    BY <1>2, <2>1, <2>2
<1>6. ASSUME Spoiled PROVE FALSE
  <2>1. Len(file') = Len(file) /\ file'[Len(file)] = Torn /\ Len(file) > 0
    BY <1>1, <1>6 DEF Spoiled
  <2>2. Len(file) \in DOMAIN file'
    BY <1>1, <2>1
  <2>3. QED
    BY <1>2, <2>1, <2>2
<1>7. QED
  BY <1>3, <1>4, <1>5, <1>6 DEF FileMoves

LEMMA FileStep ==
    ASSUME TypeInv, [Next]_vars
    PROVE  /\ IsSequence(file')
           /\ \/ file' = file
              \/ \E t \in Thread : writing[t] # None /\ FileMoves(Line(writing[t]))
<1>1. CASE file' = file
  BY <1>1 DEF TypeInv
<1>2. ASSUME NEW t \in Thread, Write(t)
      PROVE  /\ writing[t] # None
             /\ IsSequence(file') /\ FileMoves(Line(writing[t]))
  BY <1>2, TextAdded DEF Write, FileMoves, IsSequence
<1>3. ASSUME NEW t \in Thread, WriteFails(t)
      PROVE  /\ writing[t] # None
             /\ IsSequence(file') /\ FileMoves(Line(writing[t]))
  BY <1>3, PartAdded DEF WriteFails
<1>4. CASE Crash
  BY <1>4, CrashMoves DEF CrashLeaves
<1>5. QED
  BY <1>1, <1>2, <1>3, <1>4 DEF Next, vars, AppendInMemory, Restart

LEMMA LoadableStep ==
    ASSUME TypeInv, [Next]_vars, Loadable'
    PROVE  /\ Loadable
           /\ \/ file' = file
              \/ \E t \in Thread : writing[t] # None /\ Added(Line(writing[t]))
<1>1. CASE file' = file
  BY <1>1 DEF Loadable
<1>2. ASSUME NEW t \in Thread, writing[t] # None, FileMoves(Line(writing[t]))
      PROVE  Loadable /\ (file' = file \/ Added(Line(writing[t])))
  BY <1>2, FileStep, TornStays
<1>3. QED
  BY <1>1, <1>2, FileStep

-----------------------------------------------------------------------------
(* No acknowledged entry is lost quietly. *)

LEMMA KeptStep ==
    ASSUME TypeInv, Kept, [Next]_vars
    PROVE  Kept'
<1> SUFFICES ASSUME Loadable', NEW e \in acknowledged'
             PROVE  \E i \in DOMAIN file' : file'[i] = Line(e)
  BY DEF Kept
<1>1. /\ Len(file) \in Nat /\ DOMAIN file = 1 .. Len(file)
      /\ Len(file') \in Nat /\ DOMAIN file' = 1 .. Len(file')
  BY FileStep, SequenceFacts DEF TypeInv
<1>2. CASE e \in acknowledged
  <2>1. PICK i \in DOMAIN file : file[i] = Line(e)
    BY <1>2, LoadableStep DEF Kept
  <2>2. \/ file' = file
        \/ Len(file') = Len(file) + 1 /\ file'[i] = file[i]
    BY LoadableStep DEF Added
  <2>3. i \in DOMAIN file' /\ file'[i] = file[i]
    <3>1. CASE file' = file
      BY <3>1
    <3>2. CASE Len(file') = Len(file) + 1 /\ file'[i] = file[i]
      <4>1. i \in 1 .. Len(file')
        BY <1>1, <3>2
      <4>2. QED
        BY <1>1, <3>2, <4>1
    <3>3. QED
      BY <2>2, <3>1, <3>2
  <2>4. QED
    BY <2>1, <2>3
<1>3. CASE e \notin acknowledged
  <2>1. PICK t \in Thread : Write(t) /\ e = writing[t]
    BY <1>3 DEF Next, vars, AppendInMemory, Write, WriteFails, Crash, Restart
  <2>2. AddText(Line(e)) /\ writing[t] # None
    BY <2>1 DEF Write
  <2>3. Added(Line(e)) \/ Spoiled
    BY <2>2, TextAdded
  <2>4. ~Spoiled
    <3>1. ASSUME Spoiled PROVE Len(file) \in DOMAIN file' /\ file'[Len(file)] = Torn
      BY <1>1, <3>1, SequenceFacts DEF Spoiled, TypeInv
    <3>2. QED
      BY <3>1 DEF Loadable
  <2>5. Len(file') = Len(file) + 1 /\ file'[Len(file) + 1] = Line(e)
    BY <2>3, <2>4 DEF Added
  <2>6. Len(file) + 1 \in DOMAIN file'
    BY <1>1, <2>5
  <2>7. QED
    BY <2>5, <2>6
<1>4. QED
  BY <1>2, <1>3

(* VerifiedMeansComplete for every log: whatever crashes and write errors  *)
(* happen, a file that loads -- verified or not -- holds every entry that  *)
(* append() returned.                                                      *)
THEOREM NothingLostQuietly == Spec => []VerifiedMeansComplete
<1>1. Init => TypeInv /\ Kept
  BY TypeInit DEF Init, Kept
<1>2. TypeInv /\ Kept /\ [Next]_vars => (TypeInv /\ Kept)'
  BY TypeStep, KeptStep
<1>3. Kept => VerifiedMeansComplete
  BY DEF Kept, VerifiedMeansComplete
<1>4. QED
  BY <1>1, <1>2, <1>3, PTL DEF Spec

-----------------------------------------------------------------------------
(* The order of the lines, while no write has failed. *)

LEMMA UnderWayFacts ==
    /\ (\E t \in Thread : writing[t] # None) => UnderWay = 1
    /\ (\A t \in Thread : writing[t] = None) => UnderWay = 0
    /\ UnderWay \in {0, 1}
BY DEF UnderWay

(* The newest entry is numbered after every line of the file.              *)
LEMMA OrderMoves ==
    ASSUME TypeInv, Places(entries), InOrder, Older,
           NEW t \in Thread, writing[t] # None,
           IsSequence(file'), FileMoves(Line(writing[t]))
    PROVE  /\ InOrder'
           /\ \A i \in DOMAIN file' :
                  file'[i] # Torn => file'[i].sequence < Len(entries)
<1> DEFINE line == Line(writing[t])
           n == Len(file)
<1>1. /\ n \in Nat /\ DOMAIN file = 1 .. n
      /\ Len(file') \in Nat /\ DOMAIN file' = 1 .. Len(file')
      /\ file # << >> <=> n > 0
      /\ \A i \in DOMAIN file : file[i] # Torn => file[i].sequence \in Nat
  BY SequenceFacts DEF TypeInv, IsAuditEntry, IsEntry
<1>2. /\ up /\ Len(entries) \in Nat \ {0} /\ line.sequence = Len(entries) - 1
  BY WriterFacts, LineFacts DEF Places, WritesTheLast
<1>3. \A i \in DOMAIN file : file[i] # Torn => file[i].sequence < Len(entries) - 1
  BY <1>2, UnderWayFacts DEF Older
<1> HIDE DEF line, n
<1>4. CASE file' = file
  BY <1>1, <1>2, <1>3, <1>4 DEF InOrder
<1>5. ASSUME NEW new \in {line, Torn}, Added(new)
      PROVE  /\ InOrder'
             /\ \A i \in DOMAIN file' :
                    file'[i] # Torn => file'[i].sequence < Len(entries)
  <2>1. /\ DOMAIN file' = 1 .. n + 1 /\ file'[n + 1] = new
        /\ \A i \in 1 .. n : file'[i] = file[i]
    BY <1>1, <1>5 DEF Added, n
  <2>2. \A i \in DOMAIN file' : file'[i] # Torn => file'[i].sequence < Len(entries)
    <3>1. \A i \in 1 .. n : file'[i] # Torn => file'[i].sequence < Len(entries)
      BY <1>1, <1>2, <1>3, <2>1
    <3>2. new # Torn => new.sequence < Len(entries)
      BY <1>2, <1>5
    <3>3. QED
      BY <1>1, <2>1, <3>1, <3>2
  <2>3. ASSUME NEW i \in DOMAIN file', NEW j \in DOMAIN file', i < j,
               file'[i] # Torn, file'[j] # Torn
        PROVE  file'[i].sequence < file'[j].sequence
    <3>1. i \in 1 .. n
      BY <1>1, <2>1, <2>3
    <3>2. CASE j \in 1 .. n
      BY <1>1, <2>1, <2>3, <3>1, <3>2 DEF InOrder
    <3>3. CASE j = n + 1
      BY <1>1, <1>2, <1>3, <1>5, <2>1, <2>3, <3>1, <3>3
    <3>4. QED
      BY <1>1, <2>1, <3>2, <3>3
  <2>4. QED
    BY <2>2, <2>3 DEF InOrder
<1>6. CASE Spoiled
  <2>1. \A i \in DOMAIN file' : file'[i] # Torn => i \in DOMAIN file /\ file'[i] = file[i]
    BY <1>1, <1>6 DEF Spoiled, n
  <2>2. QED
    BY <1>1, <1>2, <1>3, <2>1 DEF InOrder
<1>7. QED
  BY <1>4, <1>5, <1>6 DEF FileMoves, line

(* The newest entry lands in its place.                                    *)
LEMMA PlaceMoves ==
    ASSUME TypeInv, Places(entries), Places(file), Behind,
           NEW t \in Thread, writing[t] # None,
           IsSequence(file'), Added(Line(writing[t]))
    PROVE  Places(file') /\ Len(file') = Len(entries)
<1>1. /\ Len(file) \in Nat /\ DOMAIN file = 1 .. Len(file)
      /\ DOMAIN file' = 1 .. Len(file')
  BY SequenceFacts DEF TypeInv
<1>2. /\ up /\ Len(entries) \in Nat \ {0}
      /\ Line(writing[t]).sequence = Len(entries) - 1
  BY WriterFacts, LineFacts DEF Places, WritesTheLast
<1>3. Len(file) = Len(entries) - 1
  BY <1>2, UnderWayFacts DEF Behind
<1>4. ASSUME NEW i \in DOMAIN file'
      PROVE  file'[i].sequence = i - 1
  <2>1. CASE i \in DOMAIN file
    BY <2>1 DEF Added, Places
  <2>2. CASE i = Len(file) + 1
    BY <1>2, <1>3, <2>2 DEF Added
  <2>3. QED
    BY <1>1, <2>1, <2>2 DEF Added
<1>5. QED
  BY <1>1, <1>2, <1>3, <1>4 DEF Places, Added

LEMMA NumberedAppend ==
    ASSUME TypeInv, Numbered, NEW t \in Thread, NEW payload \in Payload,
           AppendInMemory(t, payload)
    PROVE  Numbered'
<1> SUFFICES ASSUME errors' = 0
             PROVE  (/\ Places(entries) /\ InOrder /\ Older
                     /\ Loadable => Places(file) /\ Behind)'
  BY DEF Numbered
<1> DEFINE e == NextEntry(entries, payload)
<1>1. /\ entries' = Append(entries, e)
      /\ writing' = [writing EXCEPT ![t] = e]
      /\ \A u \in Thread : writing[u] = None
      /\ UNCHANGED <<up, file, errors>> /\ up
  BY DEF AppendInMemory
<1>2. e # None /\ e.sequence = Len(entries)
  BY NewEntry, NotAnEntry, EntryFacts, SequenceFacts DEF TypeInv
<1> HIDE DEF e
<1>3. /\ Len(entries) \in Nat /\ DOMAIN entries = 1 .. Len(entries)
      /\ Len(file) \in Nat
      /\ Len(entries') = Len(entries) + 1 /\ DOMAIN entries' = 1 .. Len(entries) + 1
      /\ \A i \in DOMAIN entries : entries'[i] = entries[i]
      /\ entries'[Len(entries) + 1] = e
  BY <1>1, SequenceFacts, AppendFacts DEF TypeInv
<1>4. Places(entries) /\ InOrder /\ Older /\ (Loadable => Places(file) /\ Behind)
  BY <1>1 DEF Numbered
<1>5. UnderWay = 0
  BY <1>1, UnderWayFacts
<1>6. UnderWay' = 1
  <2>1. writing'[t] # None
    BY <1>1, <1>2 DEF TypeInv
  <2>2. QED
    BY <2>1 DEF UnderWay
<1>7. Len(entries') - UnderWay' = Len(entries) - UnderWay
  BY <1>3, <1>5, <1>6
<1>8. Places(entries)'
  BY <1>2, <1>3, <1>4 DEF Places
<1>9. InOrder'
  BY <1>1, <1>4 DEF InOrder
<1>10. Older'
  BY <1>1, <1>4, <1>7 DEF Older
<1>11. Loadable' => Places(file)' /\ Behind'
  BY <1>1, <1>4, <1>7 DEF Loadable, Places, Behind
<1>12. QED
  BY <1>8, <1>9, <1>10, <1>11

LEMMA NumberedWrite ==
    ASSUME TypeInv, Numbered, NEW t \in Thread, Write(t)
    PROVE  Numbered'
<1> SUFFICES ASSUME errors' = 0
             PROVE  (/\ Places(entries) /\ InOrder /\ Older
                     /\ Loadable => Places(file) /\ Behind)'
  BY DEF Numbered
<1>1. /\ writing[t] # None /\ AddText(Line(writing[t]))
      /\ writing' = [writing EXCEPT ![t] = None]
      /\ UNCHANGED <<entries, up, errors>>
  BY DEF Write
<1>2. Places(entries) /\ InOrder /\ Older /\ (Loadable => Places(file) /\ Behind)
  BY <1>1 DEF Numbered
<1>3. IsSequence(file') /\ FileMoves(Line(writing[t])) /\ (Added(Line(writing[t])) \/ Spoiled)
  BY <1>1, TextAdded DEF FileMoves, IsSequence
<1>4. /\ InOrder'
      /\ \A i \in DOMAIN file' : file'[i] # Torn => file'[i].sequence < Len(entries)
  BY <1>1, <1>2, <1>3, OrderMoves
<1>5. UnderWay' = 0
  BY <1>1, LeavingTyped DEF UnderWay
<1>6. Len(entries) \in Nat /\ Len(entries') - UnderWay' = Len(entries)
  BY <1>1, <1>5, SequenceFacts DEF TypeInv
<1>7. Older'
  BY <1>4, <1>6 DEF Older
<1>8. ASSUME Loadable' PROVE Places(file') /\ Behind'
  <2>1. Loadable /\ (file' = file \/ Added(Line(writing[t])))
    BY <1>3, <1>8, TornStays
  <2>2. Added(Line(writing[t]))
    <3>1. ASSUME Spoiled PROVE Len(file) \in DOMAIN file' /\ file'[Len(file)] = Torn
      <4>1. Len(file) \in Nat /\ Len(file) > 0 /\ DOMAIN file' = 1 .. Len(file')
        BY <1>3, <3>1, SequenceFacts DEF Spoiled, TypeInv
      <4>2. QED
        BY <3>1, <4>1 DEF Spoiled
    <3>2. QED
      BY <1>3, <1>8, <3>1 DEF Loadable
  <2>3. Places(file') /\ Len(file') = Len(entries)
    BY <1>1, <1>2, <1>3, <2>1, <2>2, PlaceMoves
  <2>4. QED
    BY <1>6, <2>3 DEF Behind
<1>9. QED
  BY <1>1, <1>2, <1>4, <1>7, <1>8 DEF Places

LEMMA NumberedCrash ==
    ASSUME TypeInv, Numbered, Crash
    PROVE  Numbered'
<1> SUFFICES ASSUME errors' = 0
             PROVE  (/\ Places(entries) /\ InOrder /\ Older
                     /\ Loadable => Places(file) /\ Behind)'
  BY DEF Numbered
<1>1. up' = FALSE /\ entries' = << >> /\ errors = 0
  BY DEF Crash
<1>2. Places(entries) /\ InOrder /\ Older /\ (Loadable => Places(file) /\ Behind)
  BY <1>1 DEF Numbered
<1>3. Places(entries') /\ Older' /\ Behind'
  BY <1>1 DEF Places, Older, Behind
<1>4. CASE file' = file
  BY <1>2, <1>3, <1>4 DEF InOrder, Loadable, Places
<1>5. ASSUME NEW t \in Thread, writing[t] # None, FileMoves(Line(writing[t]))
      PROVE  InOrder' /\ (Loadable' => Places(file'))
  <2>1. IsSequence(file') /\ InOrder'
    BY <1>2, <1>5, CrashMoves, OrderMoves DEF CrashLeaves
  <2>2. ASSUME Loadable' PROVE Places(file')
    <3>1. Loadable /\ (file' = file \/ Added(Line(writing[t])))
      BY <1>5, <2>1, <2>2, TornStays
    <3>2. CASE file' = file
      BY <1>2, <3>1, <3>2
    <3>3. CASE Added(Line(writing[t]))
      BY <1>2, <1>5, <2>1, <3>1, <3>3, PlaceMoves
    <3>4. QED
      BY <3>1, <3>2, <3>3
  <2>3. QED
    BY <2>1, <2>2
<1>6. QED
  BY <1>3, <1>4, <1>5, CrashMoves DEF CrashLeaves, Places

LEMMA NumberedRestart ==
    ASSUME TypeInv, Numbered, Restart
    PROVE  Numbered'
<1> SUFFICES ASSUME errors' = 0
             PROVE  (/\ Places(entries) /\ InOrder /\ Older
                     /\ Loadable => Places(file) /\ Behind)'
  BY DEF Numbered
<1>1. ~up /\ Loadable /\ entries' = file /\ UNCHANGED <<writing, file, errors>>
  BY DEF Restart
<1>2. InOrder /\ Places(file)
  BY <1>1 DEF Numbered
<1>3. UnderWay' = 0
  BY <1>1 DEF UnderWay, TypeInv, WritesTheLast
<1>4. /\ Len(file) \in Nat /\ DOMAIN file = 1 .. Len(file)
      /\ Len(entries') - UnderWay' = Len(file)
  BY <1>1, <1>3, SequenceFacts DEF TypeInv
<1>5. Older'
  BY <1>1, <1>2, <1>4 DEF Older, Places
<1>6. QED
  BY <1>1, <1>2, <1>4, <1>5 DEF InOrder, Places, Behind

LEMMA NumberedStep ==
    ASSUME TypeInv, Numbered, [Next]_vars
    PROVE  Numbered'
<1>1. ASSUME NEW t \in Thread, NEW payload \in Payload, AppendInMemory(t, payload)
      PROVE  Numbered'
  BY <1>1, NumberedAppend
<1>2. ASSUME NEW t \in Thread, Write(t) PROVE Numbered'
  BY <1>2, NumberedWrite
<1>3. ASSUME NEW t \in Thread, WriteFails(t) PROVE Numbered'
  BY <1>3 DEF WriteFails, Numbered, TypeInv
<1>4. CASE Crash
  BY <1>4, NumberedCrash
<1>5. CASE Restart
  BY <1>5, NumberedRestart
<1>6. CASE UNCHANGED vars
  BY <1>6 DEF vars, Numbered, Places, InOrder, Older, Behind, Loadable, UnderWay
<1>7. QED
  BY <1>1, <1>2, <1>3, <1>4, <1>5, <1>6 DEF Next

LEMMA NumberedInit ==
    ASSUME Init
    PROVE  Numbered
<1>1. entries = << >> /\ file = << >> /\ UnderWay = 0
  BY DEF Init, UnderWay
<1>2. Len(entries) = 0 /\ Len(file) = 0
  BY <1>1
<1>3. QED
  BY <1>1, <1>2 DEF Numbered, Places, InOrder, Older, Behind

(* FileInSequence for every log: while no write has failed the lines land  *)
(* in the file in the order of their sequence numbers, whatever the        *)
(* interleaving, the crashes and the restarts (persistence.py:36-45).      *)
THEOREM LinesInOrder == Spec => []FileInSequence
<1>1. Init => TypeInv /\ Numbered
  BY TypeInit, NumberedInit
<1>2. TypeInv /\ Numbered /\ [Next]_vars => (TypeInv /\ Numbered)'
  BY TypeStep, NumberedStep
<1>3. Numbered => FileInSequence
  BY DEF Numbered, InOrder, FileInSequence
<1>4. QED
  BY <1>1, <1>2, <1>3, PTL DEF Spec

-----------------------------------------------------------------------------
(* What verify() finds, while no write has failed. *)

(* The three things verify() looks at, for one entry.                      *)
Sound(e, previous_hash) ==
    /\ e.previous_hash = previous_hash
    /\ e.entry_hash = ComputeEntryHash(e.sequence, e.payload, e.previous_hash)
    /\ e.signature = Sign(e.entry_hash)

Extends(longer, log, e) ==
    /\ Len(longer) = Len(log) + 1 /\ DOMAIN longer = 1 .. Len(log) + 1
    /\ \A i \in DOMAIN log : longer[i] = log[i]
    /\ longer[Len(log) + 1] = e

LEMMA VerifiesStepwise ==
    ASSUME NEW log, NEW longer, NEW e, IsSequence(log), Extends(longer, log, e)
    PROVE  Verifies(longer) <=> Verifies(log) /\ Sound(e, LastHash(log))
<1> DEFINE n == Len(log)
           Before(s, i) == IF i = 1 THEN GENESIS_HASH ELSE s[i - 1].entry_hash
<1>1. /\ n \in Nat /\ DOMAIN log = 1 .. n /\ DOMAIN longer = 1 .. n + 1
      /\ \A i \in 1 .. n : longer[i] = log[i]
      /\ longer[n + 1] = e
      /\ log # << >> <=> n > 0
  BY SequenceFacts DEF Extends
<1>2. \A s : Verifies(s) <=> \A i \in DOMAIN s : Sound(s[i], Before(s, i))
  BY DEF Verifies, Linked, Recomputes, Sound
<1>3. \A i \in 1 .. n : Before(longer, i) = Before(log, i)
  BY <1>1
<1>4. Before(longer, n + 1) = LastHash(log)
  BY <1>1 DEF LastHash
<1>5. (\A i \in 1 .. n + 1 : Sound(longer[i], Before(longer, i)))
          <=> /\ \A i \in 1 .. n : Sound(longer[i], Before(longer, i))
              /\ Sound(longer[n + 1], Before(longer, n + 1))
  <2> HIDE DEF Before
  <2> QED
    BY <1>1
<1>6. (\A i \in 1 .. n : Sound(longer[i], Before(longer, i)))
          <=> \A i \in 1 .. n : Sound(log[i], Before(log, i))
  <2> HIDE DEF Before
  <2> QED
    BY <1>1, <1>3
<1>7. /\ Verifies(longer) <=> \A i \in 1 .. n + 1 : Sound(longer[i], Before(longer, i))
      /\ Verifies(log) <=> \A i \in 1 .. n : Sound(log[i], Before(log, i))
  BY <1>1, <1>2
<1> HIDE DEF Before
<1>8. QED
  BY <1>1, <1>4, <1>5, <1>6, <1>7

(* The line under way is what append() built, with the payload as          *)
(* json.loads will read it.                                                *)
LEMMA LineUnderWay ==
    ASSUME TypeInv, NEW t \in Thread, writing[t] # None
    PROVE  \E payload \in Payload :
               LET line == Line(writing[t])
               IN  /\ line.sequence = Len(entries) - 1
                   /\ line.payload = Reloaded[payload]
                   /\ line.previous_hash = HashBeforeLast
                   /\ line.entry_hash =
                          ComputeEntryHash(Len(entries) - 1, payload, HashBeforeLast)
                   /\ line.entry_hash = entries[Len(entries)].entry_hash
                   /\ line.signature = Sign(line.entry_hash)
<1>1. WritesTheLast(t) /\ Len(entries) \in Nat \ {0} /\ IsAuditEntry(writing[t])
  BY WriterFacts
<1>2. PICK payload \in Payload :
          writing[t] = EntryFor(Len(entries) - 1, payload, HashBeforeLast)
  BY <1>1 DEF WritesTheLast
<1>3. Len(entries) - 1 \in Nat
  BY <1>1
<1> DEFINE e == EntryFor(Len(entries) - 1, payload, HashBeforeLast)
<1>4. /\ e.sequence = Len(entries) - 1 /\ e.payload = payload
      /\ e.previous_hash = HashBeforeLast
      /\ e.entry_hash = ComputeEntryHash(Len(entries) - 1, payload, HashBeforeLast)
      /\ e.signature = Sign(e.entry_hash)
  BY <1>3, EntryFacts
<1> HIDE DEF e
<1>5. writing[t] = e /\ writing[t] = entries[Len(entries)]
  BY <1>1, <1>2 DEF e, WritesTheLast
<1>6. WITNESS payload \in Payload
<1>7. QED
  BY <1>1, <1>4, <1>5, LineFacts

LEMMA ExtendedFile ==
    ASSUME TypeInv, NEW line, IsSequence(file'), Added(line)
    PROVE  Extends(file', file, line)
BY SequenceFacts DEF Extends, Added, TypeInv

(* Behind and SameDigests: the file's last digest is the chain's last but  *)
(* for the entry under way.                                                *)
LEMMA FileVerifies ==
    ASSUME RoundTrips, TypeInv, Behind, SameDigests, Verifies(file),
           NEW t \in Thread, writing[t] # None,
           IsSequence(file'), Added(Line(writing[t]))
    PROVE  Verifies(file')
<1> DEFINE line == Line(writing[t])
           n == Len(entries) - 1
<1>1. PICK payload \in Payload :
          /\ line.sequence = n
          /\ line.payload = Reloaded[payload]
          /\ line.previous_hash = HashBeforeLast
          /\ line.entry_hash = ComputeEntryHash(n, payload, HashBeforeLast)
          /\ line.signature = Sign(line.entry_hash)
  BY LineUnderWay
<1>2. Canonical[Reloaded[payload]] = Canonical[payload]
  BY DEF RoundTrips
<1>3. /\ up /\ Len(entries) \in Nat \ {0}
      /\ Len(file) \in Nat /\ DOMAIN file = 1 .. Len(file)
      /\ file # << >> <=> Len(file) > 0
  BY WriterFacts, SequenceFacts DEF TypeInv, WritesTheLast
<1>4. Len(file) = n
  BY <1>3, UnderWayFacts DEF Behind
<1>5. HashBeforeLast = LastHash(file)
  <2>1. CASE n = 0
    <3>1. Len(entries) = 1
      BY <1>3, <2>1
    <3>2. ~(Len(file) > 0)
      <4>1. Len(file) = 0
        BY <1>4, <2>1
      <4>2. QED
        BY <4>1
    <3>3. file = << >>
      BY <1>3, <3>2
    <3>4. QED
      BY <3>1, <3>3 DEF HashBeforeLast, LastHash
  <2>2. CASE n > 0
    <3>1. n \in DOMAIN file /\ file # << >> /\ Len(entries) # 1
      BY <1>3, <1>4, <2>2
    <3>2. file[n].entry_hash = entries[n].entry_hash
      BY <1>3, <3>1 DEF SameDigests
    <3>3. HashBeforeLast = entries[n].entry_hash /\ LastHash(file) = file[n].entry_hash
      BY <1>4, <3>1 DEF HashBeforeLast, LastHash
    <3>4. QED
      BY <3>2, <3>3
  <2>3. n \in Nat
    BY <1>3
  <2>4. QED
    BY <2>1, <2>2, <2>3
<1>6. Sound(line, LastHash(file))
  BY <1>1, <1>2, <1>5 DEF Sound, ComputeEntryHash
<1> HIDE DEF line
<1>7. QED
  BY <1>6, ExtendedFile, VerifiesStepwise DEF line, TypeInv

LEMMA VerifiedAppend ==
    ASSUME TypeInv, Numbered, Verified, NEW t \in Thread, NEW payload \in Payload,
           AppendInMemory(t, payload)
    PROVE  Verified'
<1> SUFFICES ASSUME errors' = 0
             PROVE  (Verifies(entries) /\ (Loadable => Verifies(file) /\ SameDigests))'
  BY DEF Verified
<1> DEFINE e == NextEntry(entries, payload)
<1>1. /\ entries' = Append(entries, e) /\ up
      /\ \A u \in Thread : writing[u] = None
      /\ UNCHANGED <<up, file, errors>>
  BY DEF AppendInMemory
<1>2. /\ Len(entries) \in Nat /\ DOMAIN entries = 1 .. Len(entries)
      /\ Len(file) \in Nat /\ DOMAIN file = 1 .. Len(file)
  BY SequenceFacts DEF TypeInv
<1>3. Sound(e, LastHash(entries))
  BY <1>2, NewEntry, EntryFacts DEF Sound
<1> HIDE DEF e
<1>4. Extends(entries', entries, e)
  BY <1>1, AppendFacts DEF Extends, TypeInv
<1>5. Verifies(entries')
  BY <1>1, <1>3, <1>4, VerifiesStepwise DEF Verified, TypeInv
<1>6. ASSUME Loadable' PROVE Verifies(file') /\ SameDigests'
  <2>1. Loadable /\ Verifies(file) /\ SameDigests /\ Behind
    BY <1>1, <1>6 DEF Loadable, Verified, Numbered
  <2>2. Len(file) = Len(entries)
    <3>1. UnderWay = 0
      BY <1>1, UnderWayFacts
    <3>2. Len(file) = Len(entries) - UnderWay
      BY <1>1, <2>1 DEF Behind
    <3>3. QED
      BY <1>2, <3>1, <3>2
  <2>3. \A i \in DOMAIN file : entries'[i] = entries[i]
    BY <1>2, <1>4, <2>2 DEF Extends
  <2>4. QED
    BY <1>1, <2>1, <2>3 DEF SameDigests
<1>7. QED
  BY <1>5, <1>6

(* What a file that still loads becomes while the writer is at it.         *)
LEMMA VerifiedMoves ==
    ASSUME RoundTrips, TypeInv, Numbered, Verified, errors = 0,
           NEW t \in Thread, writing[t] # None,
           IsSequence(file'), FileMoves(Line(writing[t])), Loadable'
    PROVE  /\ Verifies(file')
           /\ \A i \in DOMAIN file' : file'[i].entry_hash = entries[i].entry_hash
<1>1. Loadable /\ (file' = file \/ Added(Line(writing[t])))
  BY TornStays
<1>2. Behind /\ Verifies(file) /\ SameDigests /\ up
  BY <1>1, WriterFacts DEF Numbered, Verified, WritesTheLast
<1>3. CASE file' = file
  BY <1>2, <1>3 DEF SameDigests
<1>4. CASE Added(Line(writing[t]))
  <2>1. Verifies(file')
    BY <1>2, <1>4, FileVerifies
  <2>2. /\ Len(file) \in Nat /\ DOMAIN file = 1 .. Len(file)
        /\ Len(entries) \in Nat \ {0} /\ Len(file) = Len(entries) - 1
    BY <1>2, WriterFacts, SequenceFacts, UnderWayFacts DEF TypeInv, Behind
  <2>3. DOMAIN file' = 1 .. Len(file) + 1
    BY <1>4, ExtendedFile DEF Extends
  <2>4. file'[Len(file) + 1].entry_hash = entries[Len(file) + 1].entry_hash
    <3>1. Line(writing[t]).entry_hash = entries[Len(entries)].entry_hash
      BY LineUnderWay
    <3>2. Len(file) + 1 = Len(entries)
      BY <2>2
    <3>3. QED
      BY <1>4, <3>1, <3>2 DEF Added
  <2>5. \A i \in DOMAIN file : file'[i].entry_hash = entries[i].entry_hash
    BY <1>2, <1>4 DEF Added, SameDigests
  <2>6. QED
    BY <2>1, <2>2, <2>3, <2>4, <2>5
<1>5. QED
  BY <1>1, <1>3, <1>4

LEMMA VerifiedStep ==
    ASSUME RoundTrips, TypeInv, Numbered, Verified, [Next]_vars
    PROVE  Verified'
<1>1. ASSUME NEW t \in Thread, NEW payload \in Payload, AppendInMemory(t, payload)
      PROVE  Verified'
  BY <1>1, VerifiedAppend
<1>2. ASSUME NEW t \in Thread, Write(t) PROVE Verified'
  <2>1. writing[t] # None /\ UNCHANGED <<entries, up, errors>>
    BY <1>2 DEF Write
  <2>2. IsSequence(file') /\ FileMoves(Line(writing[t]))
    BY <1>2, TextAdded DEF Write, FileMoves, IsSequence
  <2>3. ASSUME errors = 0, Loadable' PROVE Verifies(file') /\ SameDigests'
    BY <2>1, <2>2, <2>3, VerifiedMoves DEF SameDigests
  <2>4. QED
    BY <2>1, <2>3 DEF Verified
<1>3. ASSUME NEW t \in Thread, WriteFails(t) PROVE Verified'
  BY <1>3 DEF WriteFails, Verified, TypeInv
<1>4. CASE Crash
  <2>1. up' = FALSE /\ entries' = << >> /\ UNCHANGED errors
    BY <1>4 DEF Crash
  <2>2. Verifies(entries') /\ SameDigests'
    BY <2>1 DEF Verifies, Linked, Recomputes, SameDigests
  <2>3. ASSUME errors = 0, Loadable' PROVE Verifies(file')
    <3>1. CASE file' = file
      BY <2>3, <3>1 DEF Verified, Loadable
    <3>2. ASSUME NEW t \in Thread, writing[t] # None, FileMoves(Line(writing[t]))
          PROVE  Verifies(file')
      BY <1>4, <2>3, <3>2, CrashMoves, VerifiedMoves DEF CrashLeaves
    <3>3. QED
      BY <1>4, <3>1, <3>2, CrashMoves DEF CrashLeaves
  <2>4. QED
    BY <2>1, <2>2, <2>3 DEF Verified
<1>5. CASE Restart
  BY <1>5 DEF Restart, Verified, Loadable, SameDigests
<1>6. CASE UNCHANGED vars
  BY <1>6 DEF vars, Verified, Loadable, SameDigests
<1>7. QED
  BY <1>1, <1>2, <1>3, <1>4, <1>5, <1>6 DEF Next

(* NoFalseAlarm for every log whose payloads have the same canonical form  *)
(* after a round trip through JSON: crashes at any point, any number of    *)
(* restarts and any interleaving of the threads make verify() report no    *)
(* tampering that never happened.                                          *)
THEOREM CrashesRaiseNoAlarm ==
    ASSUME RoundTrips
    PROVE  Spec => []NoFalseAlarm
<1>1. Init => TypeInv /\ Numbered /\ Verified
  <2>1. Init => Verified
    BY DEF Init, Verified, Verifies, Linked, Recomputes, SameDigests
  <2>2. QED
    BY <2>1, TypeInit, NumberedInit
<1>2. TypeInv /\ Numbered /\ Verified /\ [Next]_vars => (TypeInv /\ Numbered /\ Verified)'
  BY TypeStep, NumberedStep, VerifiedStep
<1>3. Verified => NoFalseAlarm
  BY DEF Verified, NoFalseAlarm, ReloadVerifies
<1>4. QED
  BY <1>1, <1>2, <1>3, PTL DEF Spec

-----------------------------------------------------------------------------
(* What verify() finds when a file was changed, whatever went wrong before. *)

LEMMA LastPlace ==
    ASSUME NEW log, IsSequence(log), PlacesHashed(log)
    PROVE  LastHash(log).sequence = Len(log) - 1
<1>1. /\ Len(log) \in Nat /\ DOMAIN log = 1 .. Len(log)
      /\ log # << >> <=> Len(log) > 0
  BY SequenceFacts
<1>2. CASE log = << >>
  <2>1. Len(log) = 0
    BY <1>2
  <2>2. LastHash(log).sequence = -1
    BY <1>2 DEF LastHash, GENESIS_HASH
  <2>3. QED
    BY <2>1, <2>2
<1>3. CASE log # << >>
  <2>1. Len(log) \in DOMAIN log
    BY <1>1, <1>3
  <2>2. QED
    BY <1>3, <2>1 DEF LastHash, PlacesHashed
<1>4. QED
  BY <1>2, <1>3

LEMMA PlaceBeforeLast ==
    ASSUME IsSequence(entries), PlacesHashed(entries), Len(entries) > 0
    PROVE  HashBeforeLast.sequence = Len(entries) - 2
<1>1. Len(entries) \in Nat /\ DOMAIN entries = 1 .. Len(entries)
  BY SequenceFacts
<1>2. CASE Len(entries) = 1
  BY <1>2 DEF HashBeforeLast, GENESIS_HASH
<1>3. CASE Len(entries) # 1
  <2>1. Len(entries) - 1 \in DOMAIN entries
    BY <1>1, <1>3
  <2>2. entries[Len(entries) - 1].entry_hash.sequence = (Len(entries) - 1) - 1
    BY <2>1 DEF PlacesHashed
  <2>3. QED
    BY <1>1, <1>3, <2>2 DEF HashBeforeLast
<1>4. QED
  BY <1>2, <1>3

(* The digest a line links to fixes its place.                             *)
LEMMA PlacedMoves ==
    ASSUME TypeInv, Placed, NEW t \in Thread, writing[t] # None,
           IsSequence(file'), FileMoves(Line(writing[t])), Loadable', Verifies(file')
    PROVE  PlacesHashed(file') /\ PlacesHashed(entries)
<1> DEFINE line == Line(writing[t])
<1>1. Loadable /\ (file' = file \/ Added(line))
  BY TornStays
<1>2. CASE file' = file
  BY <1>1, <1>2 DEF Placed
<1>3. CASE Added(line)
  <2>1. Extends(file', file, line)
    BY <1>3, ExtendedFile
  <2>2. Verifies(file) /\ Sound(line, LastHash(file))
    BY <2>1, VerifiesStepwise DEF TypeInv
  <2>3. PlacesHashed(file) /\ PlacesHashed(entries)
    BY <1>1, <2>2 DEF Placed
  <2>4. /\ Len(entries) \in Nat \ {0} /\ IsSequence(entries)
        /\ Len(file) \in Nat /\ DOMAIN file = 1 .. Len(file) /\ IsSequence(file)
    BY WriterFacts, SequenceFacts DEF TypeInv
  <2>5. /\ line.sequence = Len(entries) - 1
        /\ line.previous_hash = HashBeforeLast
        /\ line.entry_hash.sequence = Len(entries) - 1
    <3>1. PICK payload \in Payload :
              /\ line.sequence = Len(entries) - 1
              /\ line.previous_hash = HashBeforeLast
              /\ line.entry_hash =
                     ComputeEntryHash(Len(entries) - 1, payload, HashBeforeLast)
      BY LineUnderWay
    <3>2. QED
      BY <3>1 DEF ComputeEntryHash
  <2>6. HashBeforeLast.sequence = Len(entries) - 2
    BY <2>3, <2>4, PlaceBeforeLast
  <2>7. LastHash(file).sequence = Len(file) - 1
    BY <2>3, <2>4, LastPlace
  <2>8. HashBeforeLast = LastHash(file)
    BY <2>2, <2>5 DEF Sound
  <2>9. Len(entries) - 1 = Len(file)
    BY <2>4, <2>6, <2>7, <2>8
  <2> HIDE DEF line
  <2>10. /\ file'[Len(file) + 1].sequence = Len(file)
         /\ file'[Len(file) + 1].entry_hash.sequence = Len(file)
    BY <2>1, <2>5, <2>9 DEF Extends
  <2>11. PlacesHashed(file')
    BY <2>1, <2>3, <2>4, <2>10 DEF PlacesHashed, Extends
  <2>12. QED
    BY <2>3, <2>11
<1>4. QED
  BY <1>1, <1>2, <1>3

LEMMA PlacedAppend ==
    ASSUME TypeInv, Placed, NEW t \in Thread, NEW payload \in Payload,
           AppendInMemory(t, payload)
    PROVE  Placed'
<1> SUFFICES ASSUME Loadable', Verifies(file')
             PROVE  (PlacesHashed(file) /\ PlacesHashed(entries))'
  BY DEF Placed
<1> DEFINE e == NextEntry(entries, payload)
<1>1. entries' = Append(entries, e) /\ file' = file
  BY DEF AppendInMemory
<1>2. PlacesHashed(file) /\ PlacesHashed(entries)
  BY <1>1 DEF Loadable, Placed
<1>3. /\ Len(entries) \in Nat /\ DOMAIN entries = 1 .. Len(entries)
      /\ e.sequence = Len(entries) /\ e.entry_hash.sequence = Len(entries)
  BY SequenceFacts, NewEntry, EntryFacts DEF TypeInv
<1> HIDE DEF e
<1>4. Extends(entries', entries, e)
  BY <1>1, AppendFacts DEF Extends, TypeInv
<1>5. PlacesHashed(entries')
  BY <1>2, <1>3, <1>4 DEF PlacesHashed, Extends
<1>6. QED
  BY <1>1, <1>2, <1>5

LEMMA PlacedStep ==
    ASSUME TypeInv, Placed, [Next]_vars
    PROVE  Placed'
<1>1. ASSUME NEW t \in Thread, NEW payload \in Payload, AppendInMemory(t, payload)
      PROVE  Placed'
  BY <1>1, PlacedAppend
<1>2. ASSUME NEW t \in Thread, Write(t) PROVE Placed'
  <2>1. writing[t] # None /\ entries' = entries
    BY <1>2 DEF Write
  <2>2. IsSequence(file') /\ FileMoves(Line(writing[t]))
    BY <1>2, TextAdded DEF Write, FileMoves, IsSequence
  <2>3. QED
    BY <2>1, <2>2, PlacedMoves DEF Placed
<1>3. ASSUME NEW t \in Thread, WriteFails(t) PROVE Placed'
  <2>1. writing[t] # None /\ entries' = entries
    BY <1>3 DEF WriteFails
  <2>2. IsSequence(file') /\ FileMoves(Line(writing[t]))
    BY <1>3, PartAdded DEF WriteFails
  <2>3. QED
    BY <2>1, <2>2, PlacedMoves DEF Placed
<1>4. CASE Crash
  <2>1. PlacesHashed(entries')
    BY <1>4 DEF Crash, PlacesHashed
  <2>2. CASE file' = file
    BY <2>1, <2>2 DEF Placed, Loadable
  <2>3. ASSUME NEW t \in Thread, writing[t] # None, FileMoves(Line(writing[t]))
        PROVE  Placed'
    BY <1>4, <2>1, <2>3, CrashMoves, PlacedMoves DEF CrashLeaves, Placed
  <2>4. QED
    BY <1>4, <2>2, <2>3, CrashMoves DEF CrashLeaves
<1>5. CASE Restart
  BY <1>5 DEF Restart, Placed, Loadable
<1>6. CASE UNCHANGED vars
  BY <1>6 DEF vars, Placed, Loadable
<1>7. QED
  BY <1>1, <1>2, <1>3, <1>4, <1>5, <1>6 DEF Next

(* A log that verifies links each entry to the digest of the place before. *)
LEMMA LinkPlaces ==
    ASSUME NEW log, IsSequence(log), Verifies(log), PlacesHashed(log),
           NEW i \in DOMAIN log
    PROVE  /\ log[i].previous_hash.sequence = i - 2
           /\ log[i].entry_hash.sequence = i - 1
<1>1. Len(log) \in Nat /\ DOMAIN log = 1 .. Len(log)
  BY SequenceFacts
<1>2. CASE i = 1
  BY <1>2 DEF Verifies, Linked, GENESIS_HASH, PlacesHashed
<1>3. CASE i # 1
  <2>1. i - 1 \in DOMAIN log
    BY <1>1, <1>3
  <2>2. log[i].previous_hash = log[i - 1].entry_hash
    BY <1>3 DEF Verifies, Linked
  <2>3. log[i - 1].entry_hash.sequence = (i - 1) - 1
    BY <2>1 DEF PlacesHashed
  <2>4. QED
    BY <1>1, <2>2, <2>3 DEF PlacesHashed
<1>4. QED
  BY <1>2, <1>3

LEMMA InsertFacts ==
    ASSUME NEW log, IsSequence(log), NEW i \in DOMAIN log, NEW e
    PROVE  LET new == InsertAt(log, i, e)
           IN  /\ DOMAIN new = 1 .. Len(log) + 1
               /\ new[i] = e
               /\ \A k \in 1 .. Len(log) :
                      new[IF k < i THEN k ELSE k + 1] = log[k]
<1> DEFINE S == {log[k] : k \in DOMAIN log} \cup {e}
           a == SubSeq(log, 1, i - 1)
           b == a \o <<e>>
           c == SubSeq(log, i, Len(log))
           new == b \o c
<1>1. Len(log) \in Nat /\ DOMAIN log = 1 .. Len(log) /\ i \in 1 .. Len(log)
  BY SequenceFacts
<1>2. e \in S /\ \A k \in 1 .. Len(log) : log[k] \in S
  BY <1>1
<1> HIDE DEF S
<1>3. /\ a \in Seq(S) /\ Len(a) = i - 1
      /\ \A k \in 1 .. i - 1 : a[k] = log[k]
  <2>1. /\ a \in Seq(S)
        /\ Len(a) = IF 1 <= i - 1 THEN (i - 1) - 1 + 1 ELSE 0
        /\ \A k \in 1 .. (i - 1) - 1 + 1 : a[k] = log[1 + k - 1]
    BY <1>1, <1>2, SubSeqProperties
  <2>2. QED
    BY <1>1, <2>1
<1>4. /\ c \in Seq(S) /\ Len(c) = Len(log) - i + 1
      /\ \A k \in 1 .. Len(log) - i + 1 : c[k] = log[i + k - 1]
  <2>1. /\ c \in Seq(S)
        /\ Len(c) = IF i <= Len(log) THEN Len(log) - i + 1 ELSE 0
        /\ \A k \in 1 .. Len(log) - i + 1 : c[k] = log[i + k - 1]
    BY <1>1, <1>2, SubSeqProperties
  <2>2. QED
    BY <1>1, <2>1
<1> HIDE DEF a, c
<1>5. <<e>> \in Seq(S) /\ Len(<<e>>) = 1 /\ <<e>>[1] = e
  BY <1>2
<1>6. /\ b \in Seq(S) /\ Len(b) = Len(a) + 1
      /\ \A k \in 1 .. Len(a) + 1 : b[k] = IF k <= Len(a) THEN a[k] ELSE <<e>>[k - Len(a)]
  BY <1>3, <1>5, ConcatProperties
<1>7. b[i] = e /\ \A k \in 1 .. i - 1 : b[k] = log[k]
  <2>1. i \in 1 .. Len(a) + 1 /\ ~(i <= Len(a)) /\ i - Len(a) = 1
    BY <1>1, <1>3
  <2>2. b[i] = <<e>>[i - Len(a)]
    BY <1>6, <2>1
  <2>3. b[i] = e
    BY <1>5, <2>1, <2>2
  <2>4. ASSUME NEW k \in 1 .. i - 1 PROVE b[k] = log[k]
    <3>1. k \in 1 .. Len(a) + 1 /\ k <= Len(a)
      BY <1>1, <1>3
    <3>2. b[k] = a[k]
      BY <1>6, <3>1
    <3>3. QED
      BY <1>3, <3>2
  <2>5. QED
    BY <2>3, <2>4
<1> HIDE DEF b
<1>8. /\ new \in Seq(S) /\ Len(new) = Len(b) + Len(c)
      /\ \A k \in 1 .. Len(b) + Len(c) :
             new[k] = IF k <= Len(b) THEN b[k] ELSE c[k - Len(b)]
  BY <1>4, <1>6, ConcatProperties
<1>9. DOMAIN new = 1 .. Len(new)
  BY <1>8, LenProperties
<1> HIDE DEF new
<1>10. Len(b) = i /\ Len(new) = Len(log) + 1
  BY <1>1, <1>3, <1>4, <1>6, <1>8
<1>11. new[i] = e
  BY <1>1, <1>4, <1>7, <1>8, <1>10
<1>12. ASSUME NEW k \in 1 .. Len(log)
       PROVE  new[IF k < i THEN k ELSE k + 1] = log[k]
  <2>1. CASE k < i
    <3>1. new[k] = b[k]
      BY <1>1, <1>4, <1>8, <1>10, <2>1
    <3>2. QED
      BY <1>1, <1>7, <2>1, <3>1
  <2>2. CASE k >= i
    <3>1. new[k + 1] = c[k + 1 - i]
      BY <1>1, <1>4, <1>8, <1>10, <2>2
    <3>2. c[k + 1 - i] = log[i + (k + 1 - i) - 1]
      BY <1>1, <1>4, <2>2
    <3>3. QED
      BY <1>1, <2>2, <3>1, <3>2
  <2>3. QED
    BY <1>1, <2>1, <2>2
<1>13. InsertAt(log, i, e) = new
  BY DEF InsertAt, new, b, a, c
<1>14. QED
  BY <1>9, <1>10, <1>11, <1>12, <1>13

LEMMA RemoveFacts ==
    ASSUME NEW log, IsSequence(log), NEW i \in DOMAIN log, i < Len(log)
    PROVE  LET new == RemoveAt(log, i)
           IN  /\ i \in DOMAIN new /\ new[i] = log[i + 1]
               /\ i > 1 => new[i - 1] = log[i - 1]
<1> DEFINE S == {log[k] : k \in DOMAIN log}
           a == SubSeq(log, 1, i - 1)
           c == SubSeq(log, i + 1, Len(log))
           new == a \o c
<1>1. Len(log) \in Nat /\ DOMAIN log = 1 .. Len(log) /\ i \in 1 .. Len(log)
  BY SequenceFacts
<1>2. \A k \in 1 .. Len(log) : log[k] \in S
  BY <1>1
<1> HIDE DEF S
<1>3. /\ a \in Seq(S) /\ Len(a) = i - 1
      /\ \A k \in 1 .. i - 1 : a[k] = log[k]
  <2>1. /\ a \in Seq(S)
        /\ Len(a) = IF 1 <= i - 1 THEN (i - 1) - 1 + 1 ELSE 0
        /\ \A k \in 1 .. (i - 1) - 1 + 1 : a[k] = log[1 + k - 1]
    BY <1>1, <1>2, SubSeqProperties
  <2>2. QED
    BY <1>1, <2>1
<1>4. c \in Seq(S) /\ Len(c) = Len(log) - i /\ c[1] = log[i + 1]
  <2>1. /\ c \in Seq(S)
        /\ Len(c) = IF i + 1 <= Len(log) THEN Len(log) - (i + 1) + 1 ELSE 0
        /\ \A k \in 1 .. Len(log) - (i + 1) + 1 : c[k] = log[(i + 1) + k - 1]
    BY <1>1, <1>2, SubSeqProperties
  <2>2. 1 \in 1 .. Len(log) - (i + 1) + 1
    BY <1>1
  <2>3. QED
    BY <1>1, <2>1, <2>2
<1> HIDE DEF a, c
<1>5. /\ new \in Seq(S) /\ Len(new) = Len(a) + Len(c)
      /\ \A k \in 1 .. Len(a) + Len(c) :
             new[k] = IF k <= Len(a) THEN a[k] ELSE c[k - Len(a)]
  BY <1>3, <1>4, ConcatProperties
<1>6. DOMAIN new = 1 .. Len(new)
  BY <1>5, LenProperties
<1> HIDE DEF new
<1>7. i \in DOMAIN new /\ new[i] = log[i + 1]
  <2>1. i \in 1 .. Len(a) + Len(c) /\ ~(i <= Len(a)) /\ i - Len(a) = 1
    BY <1>1, <1>3, <1>4
  <2>2. new[i] = c[i - Len(a)]
    BY <1>5, <2>1
  <2>3. QED
    BY <1>4, <1>5, <1>6, <2>1, <2>2
<1>8. ASSUME i > 1 PROVE new[i - 1] = log[i - 1]
  <2>1. i - 1 \in 1 .. Len(a) + Len(c) /\ i - 1 <= Len(a) /\ i - 1 \in 1 .. i - 1
    BY <1>1, <1>3, <1>4, <1>8
  <2>2. new[i - 1] = a[i - 1]
    BY <1>5, <2>1
  <2>3. QED
    BY <1>3, <2>1, <2>2
<1>9. RemoveAt(log, i) = new
  BY DEF RemoveAt, new, a, c
<1>10. QED
  BY <1>7, <1>8, <1>9

LEMMA InsertionDetected ==
    ASSUME NEW log, IsSequence(log), Verifies(log), PlacesHashed(log),
           NEW i \in DOMAIN log, NEW j \in DOMAIN log,
           Verifies(InsertAt(log, i, log[j]))
    PROVE  FALSE
<1> DEFINE new == InsertAt(log, i, log[j])
<1>1. /\ Len(log) \in Nat /\ DOMAIN log = 1 .. Len(log)
      /\ i \in 1 .. Len(log) /\ j \in 1 .. Len(log)
  BY SequenceFacts
<1>2. /\ DOMAIN new = 1 .. Len(log) + 1 /\ new[i] = log[j]
      /\ \A k \in 1 .. Len(log) : new[IF k < i THEN k ELSE k + 1] = log[k]
  BY InsertFacts
<1>3. Linked(new)
  BY DEF Verifies
<1> HIDE DEF new
<1>4. new[i + 1] = log[i] /\ i + 1 \in DOMAIN new /\ i + 1 # 1 /\ (i + 1) - 1 = i
  BY <1>1, <1>2
<1>5. new[i + 1].previous_hash = new[i].entry_hash
  BY <1>3, <1>4 DEF Linked
<1>6. i - 2 = j - 1
  <2>1. log[i].previous_hash = log[j].entry_hash
    BY <1>2, <1>4, <1>5
  <2>2. log[i].previous_hash.sequence = i - 2 /\ log[j].entry_hash.sequence = j - 1
    BY LinkPlaces
  <2>3. QED
    BY <2>1, <2>2
<1>7. log[j].previous_hash.sequence = i - 2
  <2>1. i \in DOMAIN new
    BY <1>1, <1>2
  <2>2. CASE i = 1
    BY <1>2, <1>3, <2>1, <2>2 DEF Linked, GENESIS_HASH
  <2>3. CASE i # 1
    <3>1. new[i - 1] = log[i - 1] /\ i - 1 \in DOMAIN log
      BY <1>1, <1>2, <2>3
    <3>2. log[j].previous_hash = log[i - 1].entry_hash
      BY <1>2, <1>3, <2>1, <2>3, <3>1 DEF Linked
    <3>3. log[i - 1].entry_hash.sequence = (i - 1) - 1
      BY <3>1, LinkPlaces
    <3>4. QED
      BY <1>1, <3>2, <3>3
  <2>4. QED
    BY <2>2, <2>3
<1>8. log[j].previous_hash.sequence = j - 2
  BY LinkPlaces
<1>9. QED
  BY <1>1, <1>6, <1>7, <1>8

LEMMA RemovalDetected ==
    ASSUME NEW log, IsSequence(log), Verifies(log), PlacesHashed(log),
           NEW i \in DOMAIN log, i < Len(log),
           Verifies(RemoveAt(log, i))
    PROVE  FALSE
<1> DEFINE new == RemoveAt(log, i)
<1>1. /\ Len(log) \in Nat /\ DOMAIN log = 1 .. Len(log)
      /\ i + 1 \in DOMAIN log /\ i \in 1 .. Len(log)
  BY SequenceFacts
<1>2. /\ i \in DOMAIN new /\ new[i] = log[i + 1]
      /\ i > 1 => new[i - 1] = log[i - 1]
  BY RemoveFacts
<1>3. Linked(new)
  BY DEF Verifies
<1> HIDE DEF new
<1>4. log[i + 1].previous_hash.sequence = i - 2
  <2>1. CASE i = 1
    BY <1>2, <1>3, <2>1 DEF Linked, GENESIS_HASH
  <2>2. CASE i # 1
    <3>1. new[i - 1] = log[i - 1] /\ i - 1 \in DOMAIN log
      BY <1>1, <1>2, <2>2
    <3>2. log[i + 1].previous_hash = log[i - 1].entry_hash
      BY <1>2, <1>3, <2>2, <3>1 DEF Linked
    <3>3. log[i - 1].entry_hash.sequence = (i - 1) - 1
      BY <3>1, LinkPlaces
    <3>4. QED
      BY <1>1, <3>2, <3>3
  <2>3. QED
    BY <2>1, <2>2
<1>5. log[i + 1].previous_hash.sequence = (i + 1) - 2
  BY <1>1, LinkPlaces
<1>6. QED
  BY <1>1, <1>4, <1>5

LEMMA SwapDetected ==
    ASSUME NEW log, IsSequence(log), Verifies(log), PlacesHashed(log),
           NEW i \in DOMAIN log, NEW j \in DOMAIN log, i < j,
           Verifies([log EXCEPT ![i] = log[j], ![j] = log[i]])
    PROVE  FALSE
<1> DEFINE new == [log EXCEPT ![i] = log[j], ![j] = log[i]]
<1>1. /\ Len(log) \in Nat /\ DOMAIN log = 1 .. Len(log)
      /\ i \in 1 .. Len(log) /\ j \in 1 .. Len(log)
  BY SequenceFacts
<1>2. /\ i \in DOMAIN new /\ new[i] = log[j]
      /\ \A k \in DOMAIN log : k < i => new[k] = log[k]
  BY <1>1
<1>3. Linked(new)
  BY DEF Verifies
<1> HIDE DEF new
<1>4. log[j].previous_hash.sequence = i - 2
  <2>1. CASE i = 1
    BY <1>2, <1>3, <2>1 DEF Linked, GENESIS_HASH
  <2>2. CASE i # 1
    <3>1. new[i - 1] = log[i - 1] /\ i - 1 \in DOMAIN log
      BY <1>1, <1>2, <2>2
    <3>2. log[j].previous_hash = log[i - 1].entry_hash
      BY <1>2, <1>3, <2>2, <3>1 DEF Linked
    <3>3. log[i - 1].entry_hash.sequence = (i - 1) - 1
      BY <3>1, LinkPlaces
    <3>4. QED
      BY <1>1, <3>2, <3>3
  <2>3. QED
    BY <2>1, <2>2
<1>5. log[j].previous_hash.sequence = j - 2
  BY LinkPlaces
<1>6. QED
  BY <1>1, <1>4, <1>5

(* The signature under a digest holds for that digest only.                *)
LEMMA RewritingDetected ==
    ASSUME NEW log, IsSequence(log), Verifies(log), NEW i \in DOMAIN log,
           NEW payload, Canonical[payload] # Canonical[log[i].payload],
           Verifies([log EXCEPT ![i] = Rewritten(log[i], payload)])
    PROVE  FALSE
<1> DEFINE e == Rewritten(log[i], payload)
           new == [log EXCEPT ![i] = e]
           hash == ComputeEntryHash(log[i].sequence, payload, log[i].previous_hash)
<1>1. e.signature = log[i].signature /\ e.entry_hash = hash
  BY DEF Rewritten, EntryFor
<1>2. i \in DOMAIN new /\ new[i] = e
  BY DEF new
<1>3. e.signature = Sign(e.entry_hash)
  <2> HIDE DEF new
  <2>1. Verifies(new)
    BY DEF new
  <2> QED
    BY <1>2, <2>1 DEF Verifies
<1>4. /\ log[i].signature = Sign(log[i].entry_hash)
      /\ log[i].entry_hash =
             ComputeEntryHash(log[i].sequence, log[i].payload, log[i].previous_hash)
  BY DEF Verifies, Recomputes
<1>5. log[i].entry_hash = hash
  <2>1. Sign(log[i].entry_hash) = Sign(hash)
    BY <1>1, <1>3, <1>4
  <2>2. QED
    BY <2>1 DEF Sign
<1>6. log[i].entry_hash.content = Canonical[log[i].payload]
  BY <1>4 DEF ComputeEntryHash
<1>7. hash.content = Canonical[payload]
  BY DEF ComputeEntryHash
<1>8. QED
  BY <1>5, <1>6, <1>7

LEMMA PlacedDetects ==
    ASSUME TypeInv, Placed
    PROVE  ChangesAreDetected
<1> SUFFICES ASSUME Loadable, Verifies(file),
                    NEW i \in DOMAIN file, NEW j \in DOMAIN file
             PROVE  /\ ~Verifies(InsertAt(file, i, file[j]))
                    /\ i < Len(file) => ~Verifies(RemoveAt(file, i))
                    /\ i < j => ~Verifies([file EXCEPT ![i] = file[j], ![j] = file[i]])
                    /\ \A payload \in Payload :
                           Canonical[payload] # Canonical[file[i].payload] =>
                               ~Verifies([file EXCEPT ![i] = Rewritten(file[i], payload)])
  BY DEF ChangesAreDetected
<1>1. IsSequence(file) /\ PlacesHashed(file)
  BY DEF TypeInv, Placed
<1>2. ~Verifies(InsertAt(file, i, file[j]))
  BY <1>1, InsertionDetected
<1>3. i < Len(file) => ~Verifies(RemoveAt(file, i))
  BY <1>1, RemovalDetected
<1>4. i < j => ~Verifies([file EXCEPT ![i] = file[j], ![j] = file[i]])
  BY <1>1, SwapDetected
<1>5. ASSUME NEW payload \in Payload, Canonical[payload] # Canonical[file[i].payload]
      PROVE  ~Verifies([file EXCEPT ![i] = Rewritten(file[i], payload)])
  BY <1>1, <1>5, RewritingDetected
<1>6. QED
  BY <1>2, <1>3, <1>4, <1>5

(* ChangesAreDetected for every log: whatever crashes and write errors     *)
(* made of the file, if it verifies then it no longer does once a line is  *)
(* inserted, removed before the end, swapped with another or rewritten.    *)
THEOREM TamperingShows == Spec => []ChangesAreDetected
<1>1. Init => TypeInv /\ Placed
  <2>1. Init => Placed
    BY DEF Init, Placed, PlacesHashed
  <2>2. QED
    BY <2>1, TypeInit
<1>2. TypeInv /\ Placed /\ [Next]_vars => (TypeInv /\ Placed)'
  BY TypeStep, PlacedStep
<1>3. TypeInv /\ Placed => ChangesAreDetected
  BY PlacedDetects
<1>4. QED
  BY <1>1, <1>2, <1>3, PTL DEF Spec

=============================================================================
