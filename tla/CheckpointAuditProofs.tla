------------------------ MODULE CheckpointAuditProofs ------------------------
(***************************************************************************)
(* What the log says of the checkpoints, for any number of checkpoints,    *)
(* threads, approvers, clock ticks and failing appends.                    *)
(***************************************************************************)
EXTENDS CheckpointAudit, FiniteSetTheorems, SequenceTheorems, TLAPS

-----------------------------------------------------------------------------
(* The inductive invariant *)

Resolution == {"approved", "rejected", "expired"}

(* Two entries that would tell of the same change. *)
SameChange(e, f) ==
    /\ e.id = f.id
    /\ e.type = f.type \/ (e.type \in Resolution /\ f.type \in Resolution)

Existing == {id \in CheckpointId : Exists(id)}
Recorded == Entries(log) \cup Owed

(* Each change has one entry, in the log or still owed.                    *)
LoggedOnce ==
    \A i, j \in DOMAIN log : SameChange(log[i], log[j]) => i = j
OwedOnce ==
    \A t, u \in Thread : \A i \in DOMAIN owed[t], j \in DOMAIN owed[u] :
        SameChange(owed[t][i], owed[u][j]) => t = u /\ i = j
NotBoth ==
    \A t \in Thread : \A i \in DOMAIN owed[t], j \in DOMAIN log :
        ~SameChange(owed[t][i], log[j])
EachOnce == LoggedOnce /\ OwedOnce /\ NotBoth

(* What an entry says has happened and still holds.                        *)
Happened(e) ==
    /\ Exists(e.id)
    /\ e.type \in Resolution => /\ checkpoints[e.id].status = e.type
                                /\ checkpoints[e.id].resolved_by = e.by
    /\ e.type \in {"created", "consumed"} => e.by = None
    /\ e.type = "consumed" => checkpoints[e.id].consumed

(* Nobody has answered a pending checkpoint, and only approvals are spent. *)
Lawful(checkpoint) ==
    /\ checkpoint.status = "pending" => checkpoint.resolved_by = None
    /\ checkpoint.consumed => /\ checkpoint.status = "approved"
                              /\ checkpoint.bound_params # None

(* What happened to a checkpoint is told.                                  *)
Told(id) ==
    LET checkpoint == checkpoints[id]
    IN  /\ EntryOf("created", id, None) \in Recorded
        /\ checkpoint.status # "pending" =>
               EntryOf(checkpoint.status, id, checkpoint.resolved_by) \in Recorded
        /\ checkpoint.consumed => EntryOf("consumed", id, None) \in Recorded

NothingInvented == \A e \in Recorded : Happened(e)
AllLawful == \A id \in CheckpointId : Exists(id) => Lawful(checkpoints[id])
AllTold == failures = 0 => \A id \in CheckpointId : Exists(id) => Told(id)

TypeInv == TypeOK /\ IsFiniteSet(Existing)
AuditInv == TypeInv /\ EachOnce /\ NothingInvented /\ AllLawful /\ AllTold

-----------------------------------------------------------------------------
(* What each operation does to the store, checkpoint by checkpoint. *)

LEMMA NoneIsNoCheckpoint ==
    ASSUME CheckpointTypeOK, NEW id \in CheckpointId, Exists(id)
    PROVE  checkpoints[id] \in Checkpoint
BY DEF CheckpointTypeOK, Exists

(* At most the one checkpoint `id` changes, and it changes lawfully.       *)
Others(id) == \A other \in CheckpointId \ {id} : checkpoints'[other] = checkpoints[other]

LEMMA CreateEffect ==
    ASSUME CheckpointTypeOK,
           NEW id \in CheckpointId, NEW action \in Action, NEW ttl \in Ttl,
           NEW bound_params \in BoundParams \cup {None}, NEW now \in 0 .. clock,
           CreateCheckpoint(id, action, ttl, bound_params, now)
    PROVE  /\ CheckpointTypeOK'
           /\ Others(id) /\ ~Exists(id) /\ Exists(id)'
           /\ checkpoints'[id].status = "pending"
           /\ checkpoints'[id].resolved_by = None
           /\ checkpoints'[id].consumed = FALSE
<1> DEFINE new == [action |-> action, status |-> "pending", resolved_by |-> None,
                   expires_at |-> ExpiresAt(ttl, now), bound_params |-> bound_params,
                   consumed |-> FALSE]
<1>1. ExpiresAt(ttl, now) \in Int \cup {None}
  BY CheckpointAssumption DEF ExpiresAt, CheckpointTypeOK
<1>2. new \in Checkpoint
  BY <1>1 DEF Checkpoint, CheckpointStatus
<1>3. new # None
  BY <1>2, AbsenceAssumption
<1>4. checkpoints' = [checkpoints EXCEPT ![id] = new]
  BY DEF CreateCheckpoint
<1>5. CheckpointTypeOK'
  BY <1>2, <1>4 DEF CheckpointTypeOK, CreateCheckpoint
<1>6. checkpoints'[id] = new /\ Others(id)
  BY <1>4 DEF CheckpointTypeOK, Others
<1>7. new.status = "pending" /\ new.resolved_by = None /\ new.consumed = FALSE
  OBVIOUS
<1> HIDE DEF new
<1>8. QED
  BY <1>3, <1>5, <1>6, <1>7 DEF Exists, CreateCheckpoint

LEMMA ResolveEffect ==
    ASSUME CheckpointTypeOK,
           NEW id \in CheckpointId, NEW status \in {"approved", "rejected"},
           NEW human \in Approver,
           ResolveCheckpoint(id, status, human)
    PROVE  /\ CheckpointTypeOK'
           /\ Others(id) /\ Exists(id) /\ Exists(id)'
           /\ checkpoints[id].status = "pending"
           /\ checkpoints'[id].status = status
           /\ checkpoints'[id].resolved_by = human
           /\ checkpoints'[id].consumed = checkpoints[id].consumed
           /\ checkpoints'[id].bound_params = checkpoints[id].bound_params
           /\ checkpoints'[id].action = checkpoints[id].action
<1> DEFINE old == checkpoints[id]
           new == [old EXCEPT !.status = status, !.resolved_by = human]
<1>1. old \in Checkpoint
  BY NoneIsNoCheckpoint DEF ResolveCheckpoint
<1>2. /\ new \in Checkpoint
      /\ new.status = status /\ new.resolved_by = human
      /\ new.consumed = old.consumed
      /\ new.bound_params = old.bound_params /\ new.action = old.action
  BY <1>1 DEF Checkpoint, CheckpointStatus
<1>3. checkpoints' = [checkpoints EXCEPT ![id] = new]
  BY <1>1 DEF CheckpointTypeOK, ResolveCheckpoint, Checkpoint
<1>4. new # None
  BY <1>2, AbsenceAssumption
<1>5. old.status = "pending"
  BY DEF ResolveCheckpoint, IsResolved
<1> HIDE DEF new
<1>6. checkpoints'[id] = new /\ Others(id) /\ CheckpointTypeOK'
  BY <1>2, <1>3 DEF CheckpointTypeOK, ResolveCheckpoint, Others
<1>7. QED
  BY <1>2, <1>4, <1>5, <1>6 DEF Exists, ResolveCheckpoint

LEMMA ConsumeEffect ==
    ASSUME CheckpointTypeOK,
           NEW id \in CheckpointId, NEW action, NEW bound_params,
           ConsumeCheckpoint(id, action, bound_params)
    PROVE  /\ CheckpointTypeOK'
           /\ Others(id) /\ Exists(id) /\ Exists(id)'
           /\ checkpoints[id].status = "approved" /\ ~checkpoints[id].consumed
           /\ checkpoints[id].bound_params = bound_params
           /\ checkpoints'[id].status = "approved"
           /\ checkpoints'[id].consumed
           /\ checkpoints'[id].resolved_by = checkpoints[id].resolved_by
           /\ checkpoints'[id].bound_params = bound_params
           /\ checkpoints'[id].action = checkpoints[id].action
<1> DEFINE old == checkpoints[id]
           new == [old EXCEPT !.consumed = TRUE]
<1>1. old \in Checkpoint
  BY NoneIsNoCheckpoint DEF ConsumeCheckpoint, CanConsume, HasStatus
<1>2. /\ new \in Checkpoint
      /\ new.status = old.status /\ new.resolved_by = old.resolved_by
      /\ new.consumed = TRUE
      /\ new.bound_params = old.bound_params /\ new.action = old.action
  BY <1>1 DEF Checkpoint
<1>3. checkpoints' = [checkpoints EXCEPT ![id] = new]
  BY DEF ConsumeCheckpoint
<1>4. new # None
  BY <1>2, AbsenceAssumption
<1>5. Exists(id) /\ old.status = "approved" /\ ~old.consumed /\ old.bound_params = bound_params
  BY DEF ConsumeCheckpoint, CanConsume, HasStatus
<1> HIDE DEF new
<1>6. checkpoints'[id] = new /\ Others(id) /\ CheckpointTypeOK'
  BY <1>2, <1>3 DEF CheckpointTypeOK, ConsumeCheckpoint, Others
<1>7. QED
  BY <1>2, <1>4, <1>5, <1>6 DEF Exists

LEMMA SweepEffect ==
    ASSUME CheckpointTypeOK, SweepExpired
    PROVE  /\ CheckpointTypeOK'
           /\ \A id \in CheckpointId \ Expired : checkpoints'[id] = checkpoints[id]
           /\ \A id \in Expired :
                 /\ Exists(id) /\ Exists(id)'
                 /\ checkpoints[id].status = "pending"
                 /\ checkpoints'[id].status = "expired"
                 /\ checkpoints'[id].resolved_by = checkpoints[id].resolved_by
                 /\ checkpoints'[id].consumed = checkpoints[id].consumed
                 /\ checkpoints'[id].bound_params = checkpoints[id].bound_params
                 /\ checkpoints'[id].action = checkpoints[id].action
<1>1. \A id \in CheckpointId \ Expired : checkpoints'[id] = checkpoints[id]
  BY DEF SweepExpired
<1>2. ASSUME NEW id \in Expired
      PROVE  /\ checkpoints'[id] \in Checkpoint
             /\ Exists(id) /\ checkpoints[id].status = "pending"
             /\ checkpoints'[id].status = "expired"
             /\ checkpoints'[id].resolved_by = checkpoints[id].resolved_by
             /\ checkpoints'[id].consumed = checkpoints[id].consumed
             /\ checkpoints'[id].bound_params = checkpoints[id].bound_params
             /\ checkpoints'[id].action = checkpoints[id].action
  <2> DEFINE old == checkpoints[id]
             new == [old EXCEPT !.status = "expired"]
  <2>1. id \in CheckpointId /\ Exists(id) /\ old.status = "pending"
    BY DEF Expired, IsExpired, HasStatus
  <2>2. old \in Checkpoint
    BY <2>1, NoneIsNoCheckpoint
  <2>3. checkpoints'[id] = new
    BY <2>1 DEF SweepExpired
  <2>4. QED
    BY <2>1, <2>2, <2>3 DEF Checkpoint, CheckpointStatus
<1>3. \A id \in Expired : Exists(id)'
  BY <1>2, AbsenceAssumption DEF Exists
<1>4. checkpoints' \in [CheckpointId -> Checkpoint \cup {None}]
  <2>1. \A id \in CheckpointId : checkpoints'[id] \in Checkpoint \cup {None}
    BY <1>1, <1>2 DEF CheckpointTypeOK
  <2>2. QED
    BY <2>1 DEF SweepExpired
<1>5. QED
  BY <1>1, <1>2, <1>3, <1>4 DEF CheckpointTypeOK, SweepExpired

-----------------------------------------------------------------------------
(* What owing entries, appending one and failing to do to the record. *)

RecordTypeOK ==
    /\ log \in Seq(Entry)
    /\ owed \in [Thread -> Seq(Entry)]
    /\ failures \in 0 .. MaxFailures

Fresh(entries) == \A e \in Entries(entries), f \in Recorded : ~SameChange(e, f)
Distinct(entries) ==
    \A i, j \in DOMAIN entries : SameChange(entries[i], entries[j]) => i = j

LEMMA RecordedPlaces ==
    /\ \A i \in DOMAIN log : log[i] \in Recorded
    /\ \A t \in Thread : \A i \in DOMAIN owed[t] : owed[t][i] \in Recorded
    /\ \A e \in Recorded :
           \/ \E i \in DOMAIN log : e = log[i]
           \/ \E t \in Thread : \E i \in DOMAIN owed[t] : e = owed[t][i]
BY DEF Recorded, Owed, Entries

LEMMA OweRecords ==
    ASSUME RecordTypeOK, NEW t \in Thread, NEW entries \in Seq(Entry),
           Idle(t), Owe(t, entries)
    PROVE  RecordTypeOK' /\ Recorded' = Recorded \cup Entries(entries)
<1>1. RecordTypeOK'
  BY DEF RecordTypeOK, Owe
<1>2. owed'[t] = entries /\ \A u \in Thread \ {t} : owed'[u] = owed[u]
  BY DEF RecordTypeOK, Owe
<1>3. Entries(owed[t]) = {}
  BY DEF Idle, Entries
<1>4. ASSUME NEW u \in Thread
      PROVE  Entries(owed'[u]) = IF u = t THEN Entries(entries) ELSE Entries(owed[u])
  BY <1>2 DEF Entries
<1>5. Owed' = UNION {Entries(owed'[u]) : u \in Thread}
  BY DEF Owed, Entries
<1>6. Owed' = Owed \cup Entries(entries)
  BY <1>3, <1>4, <1>5 DEF Owed
<1>7. QED
  BY <1>1, <1>6 DEF Recorded, Entries, Owe

LEMMA OweKeepsOnce ==
    ASSUME RecordTypeOK, EachOnce, NEW t \in Thread, NEW entries \in Seq(Entry),
           Owe(t, entries), Fresh(entries), Distinct(entries)
    PROVE  EachOnce'
<1>1. owed'[t] = entries /\ \A u \in Thread \ {t} : owed'[u] = owed[u]
  BY DEF RecordTypeOK, Owe
<1>2. log' = log
  BY DEF Owe
<1>3. LoggedOnce'
  BY <1>2 DEF EachOnce, LoggedOnce
<1>4. NotBoth'
  <2> SUFFICES ASSUME NEW u \in Thread, NEW i \in DOMAIN owed'[u], NEW j \in DOMAIN log
               PROVE  ~SameChange(owed'[u][i], log[j])
    BY <1>2 DEF NotBoth
  <2>1. CASE u = t
    <3>1. log[j] \in Recorded
      BY RecordedPlaces
    <3>2. owed'[u][i] \in Entries(entries)
      BY <1>1, <2>1 DEF Entries
    <3>3. QED
      BY <3>1, <3>2 DEF Fresh
  <2>2. CASE u # t
    BY <1>1, <2>2 DEF EachOnce, NotBoth
  <2>3. QED
    BY <2>1, <2>2
<1>5. OwedOnce'
  <2> SUFFICES ASSUME NEW u \in Thread, NEW v \in Thread,
                      NEW i \in DOMAIN owed'[u], NEW j \in DOMAIN owed'[v],
                      SameChange(owed'[u][i], owed'[v][j])
               PROVE  u = v /\ i = j
    BY DEF OwedOnce
  <2>1. CASE u = t /\ v = t
    BY <1>1, <2>1 DEF Distinct
  <2>2. CASE u = t /\ v # t
    <3>1. owed'[v][j] \in Recorded
      BY <1>1, <2>2, RecordedPlaces
    <3>2. owed'[u][i] \in Entries(entries)
      BY <1>1, <2>2 DEF Entries
    <3>3. QED
      BY <3>1, <3>2 DEF Fresh
  <2>3. CASE u # t /\ v = t
    <3>1. owed'[u][i] \in Recorded
      BY <1>1, <2>3, RecordedPlaces
    <3>2. owed'[v][j] \in Entries(entries)
      BY <1>1, <2>3 DEF Entries
    <3>3. SameChange(owed'[v][j], owed'[u][i])
      BY DEF SameChange
    <3>4. QED
      BY <3>1, <3>2, <3>3 DEF Fresh
  <2>4. CASE u # t /\ v # t
    BY <1>1, <2>4 DEF EachOnce, OwedOnce
  <2>5. QED
    BY <2>1, <2>2, <2>3, <2>4
<1>6. QED
  BY <1>3, <1>4, <1>5 DEF EachOnce

(* The oldest entry a thread owes moves to the end of the log.             *)
LEMMA AppendMoves ==
    ASSUME RecordTypeOK, NEW t \in Thread, AppendEntry(t)
    PROVE  /\ RecordTypeOK'
           /\ 1 \in DOMAIN owed[t]
           /\ DOMAIN log' = 1 .. Len(log) + 1 /\ DOMAIN log = 1 .. Len(log) /\ Len(log) \in Nat
           /\ \A i \in 1 .. Len(log) : log'[i] = log[i]
           /\ log'[Len(log) + 1] = owed[t][1]
           /\ \A u \in Thread \ {t} : owed'[u] = owed[u]
           /\ \A i \in DOMAIN owed'[t] :
                 i \in Nat \ {0} /\ i + 1 \in DOMAIN owed[t] /\ owed'[t][i] = owed[t][i + 1]
           /\ \A i \in DOMAIN owed[t] :
                 i \in Nat \ {0} /\ (i # 1 => i - 1 \in DOMAIN owed'[t])
<1> DEFINE own == owed[t]
<1>1. own \in Seq(Entry) /\ own # << >> /\ log \in Seq(Entry)
  BY DEF RecordTypeOK, AppendEntry, Idle
<1>2. /\ Head(own) \in Entry /\ Tail(own) \in Seq(Entry)
      /\ Len(Tail(own)) = Len(own) - 1
      /\ \A i \in 1 .. Len(Tail(own)) : Tail(own)[i] = own[i + 1]
  BY <1>1, HeadTailProperties
<1>3. /\ Len(own) \in Nat \ {0} /\ DOMAIN own = 1 .. Len(own)
      /\ DOMAIN Tail(own) = 1 .. Len(Tail(own)) /\ Head(own) = own[1]
  BY <1>1, <1>2, EmptySeq
<1>4. owed' = [owed EXCEPT ![t] = Tail(own)] /\ log' = Append(log, own[1])
  BY <1>3 DEF AppendEntry
<1>5. owed'[t] = Tail(own) /\ \A u \in Thread \ {t} : owed'[u] = owed[u]
  BY <1>4 DEF RecordTypeOK
<1>6. own[1] \in Entry
  BY <1>2, <1>3
<1> HIDE DEF own
<1>7. /\ log' \in Seq(Entry) /\ Len(log') = Len(log) + 1
      /\ \A i \in 1 .. Len(log) : log'[i] = log[i]
      /\ log'[Len(log) + 1] = own[1]
  BY <1>1, <1>4, <1>6, AppendProperties
<1>8. RecordTypeOK'
  BY <1>2, <1>4, <1>7 DEF RecordTypeOK, AppendEntry
<1>9. /\ DOMAIN log' = 1 .. Len(log) + 1 /\ DOMAIN log = 1 .. Len(log)
      /\ Len(log) \in Nat
  BY <1>1, <1>7
<1>10. \A i \in DOMAIN owed'[t] :
          i \in Nat \ {0} /\ i + 1 \in DOMAIN own /\ owed'[t][i] = own[i + 1]
  BY <1>2, <1>3, <1>5
<1>11. \A i \in DOMAIN own : i \in Nat \ {0} /\ (i # 1 => i - 1 \in DOMAIN owed'[t])
  BY <1>2, <1>3, <1>5
<1>12. 1 \in DOMAIN own
  BY <1>3
<1>13. QED
  BY <1>5, <1>7, <1>8, <1>9, <1>10, <1>11, <1>12 DEF own

LEMMA AppendRecords ==
    ASSUME RecordTypeOK, NEW t \in Thread, AppendEntry(t)
    PROVE  Recorded' = Recorded
<1>1. ASSUME NEW e \in Recorded PROVE e \in Recorded'
  <2>1. CASE \E i \in DOMAIN log : e = log[i]
    <3>1. PICK i \in DOMAIN log : e = log[i]
      BY <2>1
    <3>2. /\ DOMAIN log = 1 .. Len(log) /\ DOMAIN log' = 1 .. Len(log) + 1
          /\ Len(log) \in Nat /\ \A j \in 1 .. Len(log) : log'[j] = log[j]
      BY AppendMoves
    <3>3. i \in DOMAIN log' /\ log'[i] = e
      BY <3>1, <3>2
    <3>4. QED
      BY <3>3 DEF Recorded, Entries
  <2>2. ASSUME NEW u \in Thread, NEW i \in DOMAIN owed[u], e = owed[u][i]
        PROVE  e \in Recorded'
    <3>1. CASE u # t
      BY <2>2, <3>1, AppendMoves DEF Recorded, Owed, Entries
    <3>2. CASE u = t /\ i = 1
      <4>1. \E j \in DOMAIN log' : e = log'[j]
        BY <2>2, <3>2, AppendMoves
      <4>2. QED
        BY <4>1 DEF Recorded, Entries
    <3>3. CASE u = t /\ i # 1
      <4>1. i \in Nat \ {0} /\ i - 1 \in DOMAIN owed'[t]
        BY <3>3, AppendMoves
      <4>2. owed'[t][i - 1] = e
        BY <2>2, <3>3, <4>1, AppendMoves
      <4>3. QED
        BY <4>1, <4>2 DEF Recorded, Owed, Entries
    <3>4. QED
      BY <3>1, <3>2, <3>3
  <2>3. QED
    BY <2>1, <2>2, RecordedPlaces
<1>2. ASSUME NEW e \in Recorded' PROVE e \in Recorded
  <2>1. CASE \E i \in DOMAIN log' : e = log'[i]
    BY <2>1, AppendMoves, RecordedPlaces
  <2>2. CASE \E u \in Thread : \E i \in DOMAIN owed'[u] : e = owed'[u][i]
    BY <2>2, AppendMoves, RecordedPlaces
  <2>3. QED
    BY <1>2, <2>1, <2>2 DEF Recorded, Owed, Entries
<1>3. QED
  BY <1>1, <1>2

LEMMA AppendKeepsOnce ==
    ASSUME RecordTypeOK, EachOnce, NEW t \in Thread, AppendEntry(t)
    PROVE  EachOnce'
<1>1. LoggedOnce'
  <2> SUFFICES ASSUME NEW i \in DOMAIN log', NEW j \in DOMAIN log',
                      SameChange(log'[i], log'[j])
               PROVE  i = j
    BY DEF LoggedOnce
  <2>1. CASE i \in DOMAIN log /\ j \in DOMAIN log
    BY <2>1, AppendMoves DEF EachOnce, LoggedOnce
  <2>2. CASE i \in DOMAIN log /\ j \notin DOMAIN log
    <3>1. log'[i] = log[i] /\ log'[j] = owed[t][1] /\ 1 \in DOMAIN owed[t]
      BY <2>2, AppendMoves
    <3>2. SameChange(owed[t][1], log[i])
      BY <3>1 DEF SameChange
    <3>3. QED
      BY <2>2, <3>1, <3>2 DEF EachOnce, NotBoth
  <2>3. CASE i \notin DOMAIN log /\ j \in DOMAIN log
    <3>1. log'[j] = log[j] /\ log'[i] = owed[t][1] /\ 1 \in DOMAIN owed[t]
      BY <2>3, AppendMoves
    <3>2. QED
      BY <2>3, <3>1 DEF EachOnce, NotBoth
  <2>4. CASE i \notin DOMAIN log /\ j \notin DOMAIN log
    BY <2>4, AppendMoves
  <2>5. QED
    BY <2>1, <2>2, <2>3, <2>4
<1>2. OwedOnce'
  <2> SUFFICES ASSUME NEW u \in Thread, NEW v \in Thread,
                      NEW i \in DOMAIN owed'[u], NEW j \in DOMAIN owed'[v],
                      SameChange(owed'[u][i], owed'[v][j])
               PROVE  u = v /\ i = j
    BY DEF OwedOnce
  <2> DEFINE was(w, k) == IF w = t THEN k + 1 ELSE k
  <2>1. ASSUME NEW w \in Thread, NEW k \in DOMAIN owed'[w]
        PROVE  was(w, k) \in DOMAIN owed[w] /\ owed'[w][k] = owed[w][was(w, k)]
    BY AppendMoves
  <2>2. u = v /\ was(u, i) = was(v, j)
    BY <2>1 DEF EachOnce, OwedOnce
  <2>3. QED
    BY <2>2, AppendMoves
<1>3. NotBoth'
  <2> SUFFICES ASSUME NEW u \in Thread, NEW i \in DOMAIN owed'[u], NEW j \in DOMAIN log',
                      SameChange(owed'[u][i], log'[j])
               PROVE  FALSE
    BY DEF NotBoth
  <2> DEFINE was == IF u = t THEN i + 1 ELSE i
  <2>1. was \in DOMAIN owed[u] /\ owed'[u][i] = owed[u][was]
    BY AppendMoves
  <2>2. CASE j \in DOMAIN log
    BY <2>1, <2>2, AppendMoves DEF EachOnce, NotBoth
  <2>3. CASE j \notin DOMAIN log
    <3>1. log'[j] = owed[t][1] /\ 1 \in DOMAIN owed[t]
      BY <2>3, AppendMoves
    <3>2. u = t /\ was = 1
      BY <2>1, <3>1 DEF EachOnce, OwedOnce
    <3>3. QED
      BY <3>2, AppendMoves
  <2>4. QED
    BY <2>2, <2>3
<1>4. QED
  BY <1>1, <1>2, <1>3 DEF EachOnce

(* An append that raises: the thread owes nothing any more, and the log is *)
(* what it was or holds the oldest entry of those as well.                 *)
LEMMA FailMoves ==
    ASSUME RecordTypeOK, NEW t \in Thread, AppendFails(t)
    PROVE  /\ RecordTypeOK'
           /\ 1 \in DOMAIN owed[t]
           /\ \/ log' = log
              \/ /\ DOMAIN log' = 1 .. Len(log) + 1
                 /\ DOMAIN log = 1 .. Len(log) /\ Len(log) \in Nat
                 /\ \A i \in 1 .. Len(log) : log'[i] = log[i]
                 /\ log'[Len(log) + 1] = owed[t][1]
           /\ owed'[t] = << >>
           /\ \A u \in Thread \ {t} : owed'[u] = owed[u]
<1> DEFINE own == owed[t]
<1>1. own \in Seq(Entry) /\ own # << >> /\ log \in Seq(Entry)
  BY DEF RecordTypeOK, AppendFails, Idle
<1>2. Head(own) \in Entry
  BY <1>1, HeadTailProperties
<1>3. Len(own) \in Nat \ {0} /\ DOMAIN own = 1 .. Len(own) /\ Head(own) = own[1]
  BY <1>1, <1>2, EmptySeq
<1>4. log' = log \/ log' = Append(log, own[1])
  BY <1>3 DEF AppendFails
<1>5. owed'[t] = << >> /\ \A u \in Thread \ {t} : owed'[u] = owed[u]
  BY DEF AppendFails, RecordTypeOK
<1>6. own[1] \in Entry
  BY <1>2, <1>3
<1> HIDE DEF own
<1>7. \/ log' = log
      \/ /\ log' \in Seq(Entry) /\ Len(log') = Len(log) + 1
         /\ \A i \in 1 .. Len(log) : log'[i] = log[i]
         /\ log'[Len(log) + 1] = own[1]
  <2>1. CASE log' = log
    BY <2>1
  <2>2. CASE log' = Append(log, own[1])
    <3> DEFINE first == own[1]
    <3>1. log \in Seq(Entry) /\ first \in Entry /\ log' = Append(log, first)
      BY <1>1, <1>6, <2>2
    <3> HIDE DEF first
    <3>2. /\ log' \in Seq(Entry) /\ Len(log') = Len(log) + 1
          /\ \A i \in 1 .. Len(log) : log'[i] = log[i]
          /\ log'[Len(log) + 1] = first
      BY <3>1
    <3>3. QED
      BY <3>2 DEF first
  <2>3. QED
    BY <1>4, <2>1, <2>2
<1>8. RecordTypeOK'
  <2>1. log' \in Seq(Entry)
    BY <1>1, <1>7
  <2>2. owed' \in [Thread -> Seq(Entry)]
    BY DEF AppendFails, RecordTypeOK
  <2>3. failures' \in 0 .. MaxFailures
    BY ThreadAssumption DEF AppendFails, RecordTypeOK
  <2>4. QED
    BY <2>1, <2>2, <2>3 DEF RecordTypeOK
<1>9. Len(log) \in Nat /\ DOMAIN log = 1 .. Len(log)
  BY <1>1
<1>10. log' # log => DOMAIN log' = 1 .. Len(log) + 1
  BY <1>7, <1>9
<1>11. 1 \in DOMAIN own
  BY <1>3
<1>12. QED
  BY <1>5, <1>7, <1>8, <1>9, <1>10, <1>11 DEF own

LEMMA FailForgets ==
    ASSUME RecordTypeOK, NEW t \in Thread, AppendFails(t)
    PROVE  RecordTypeOK' /\ Recorded' \subseteq Recorded /\ failures' # 0
<1>1. failures' # 0
  BY ThreadAssumption DEF RecordTypeOK, AppendFails
<1>2. ASSUME NEW e \in Recorded' PROVE e \in Recorded
  <2>1. CASE \E i \in DOMAIN log' : e = log'[i]
    BY <2>1, FailMoves, RecordedPlaces
  <2>2. CASE \E u \in Thread : \E i \in DOMAIN owed'[u] : e = owed'[u][i]
    BY <2>2, FailMoves, RecordedPlaces
  <2>3. QED
    BY <1>2, <2>1, <2>2 DEF Recorded, Owed, Entries
<1>3. QED
  BY <1>1, <1>2, FailMoves

LEMMA FailKeepsOnce ==
    ASSUME RecordTypeOK, EachOnce, NEW t \in Thread, AppendFails(t)
    PROVE  EachOnce'
<1>1. \A u \in Thread : \A i \in DOMAIN owed'[u] :
          u # t /\ i \in DOMAIN owed[u] /\ owed'[u][i] = owed[u][i]
  BY FailMoves
<1>2. OwedOnce'
  BY <1>1 DEF EachOnce, OwedOnce
<1>3. CASE log' = log
  BY <1>1, <1>2, <1>3 DEF EachOnce, LoggedOnce, NotBoth
<1>4. CASE log' # log
  <2>1. LoggedOnce'
    <3> SUFFICES ASSUME NEW i \in DOMAIN log', NEW j \in DOMAIN log',
                        SameChange(log'[i], log'[j])
                 PROVE  i = j
      BY DEF LoggedOnce
    <3>1. CASE i \in DOMAIN log /\ j \in DOMAIN log
      BY <1>4, <3>1, FailMoves DEF EachOnce, LoggedOnce
    <3>2. CASE i \in DOMAIN log /\ j \notin DOMAIN log
      <4>1. log'[i] = log[i] /\ log'[j] = owed[t][1] /\ 1 \in DOMAIN owed[t]
        BY <1>4, <3>2, FailMoves
      <4>2. SameChange(owed[t][1], log[i])
        BY <4>1 DEF SameChange
      <4>3. QED
        BY <3>2, <4>1, <4>2 DEF EachOnce, NotBoth
    <3>3. CASE i \notin DOMAIN log /\ j \in DOMAIN log
      <4>1. log'[j] = log[j] /\ log'[i] = owed[t][1] /\ 1 \in DOMAIN owed[t]
        BY <1>4, <3>3, FailMoves
      <4>2. QED
        BY <3>3, <4>1 DEF EachOnce, NotBoth
    <3>4. CASE i \notin DOMAIN log /\ j \notin DOMAIN log
      BY <1>4, <3>4, FailMoves
    <3>5. QED
      BY <3>1, <3>2, <3>3, <3>4
  <2>2. NotBoth'
    <3> SUFFICES ASSUME NEW u \in Thread, NEW i \in DOMAIN owed'[u], NEW j \in DOMAIN log',
                        SameChange(owed'[u][i], log'[j])
                 PROVE  FALSE
      BY DEF NotBoth
    <3>1. u # t /\ i \in DOMAIN owed[u] /\ owed'[u][i] = owed[u][i]
      BY <1>1
    <3>2. CASE j \in DOMAIN log
      BY <1>4, <3>1, <3>2, FailMoves DEF EachOnce, NotBoth
    <3>3. CASE j \notin DOMAIN log
      <4>1. log'[j] = owed[t][1] /\ 1 \in DOMAIN owed[t]
        BY <1>4, <3>3, FailMoves
      <4>2. QED
        BY <3>1, <4>1 DEF EachOnce, OwedOnce
    <3>4. QED
      BY <3>2, <3>3
  <2>3. QED
    BY <1>2, <2>1, <2>2 DEF EachOnce
<1>5. QED
  BY <1>3, <1>4

-----------------------------------------------------------------------------
(* The entries the operations owe. *)

LEMMA OneEntry ==
    ASSUME NEW type \in EntryType, NEW id \in CheckpointId, NEW by \in Thread \cup {None}
    PROVE  /\ <<EntryOf(type, id, by)>> \in Seq(Entry)
           /\ Entries(<<EntryOf(type, id, by)>>) = {EntryOf(type, id, by)}
           /\ Distinct(<<EntryOf(type, id, by)>>)
           /\ EntryOf(type, id, by).type = type
           /\ EntryOf(type, id, by).id = id
           /\ EntryOf(type, id, by).by = by
BY DEF Entry, EntryOf, Entries, Distinct

SweepEntries(order) == [i \in DOMAIN order |-> EntryOf("expired", order[i], None)]

LEMMA ExpiredEntries ==
    ASSUME CheckpointTypeOK, IsFiniteSet(Existing), NEW order \in Orders(Expired)
    PROVE  /\ SweepEntries(order) \in Seq(Entry)
           /\ Entries(SweepEntries(order)) = {EntryOf("expired", id, None) : id \in Expired}
           /\ Distinct(SweepEntries(order))
<1> DEFINE n == Cardinality(Expired)
<1>1. Expired \in SUBSET Existing
  BY DEF Expired, Existing, IsExpired, HasStatus
<1>2. IsFiniteSet(Expired)
  BY <1>1, FS_Subset
<1>3. n \in Nat
  BY <1>2, FS_CardinalityType
<1>4. order \in [1 .. n -> Expired] /\ {order[i] : i \in DOMAIN order} = Expired
  BY DEF Orders
<1>5. IsFiniteSet(1 .. n) /\ Cardinality(1 .. n) = n
  BY <1>3, FS_Interval
<1>6. order \in Surjection(1 .. n, Expired)
  BY <1>4 DEF Surjection
<1>7. order \in Injection(1 .. n, Expired)
  BY <1>2, <1>5, <1>6, FS_SurjSameCardinalityImpliesInj
<1>8. \A i, j \in 1 .. n : order[i] = order[j] => i = j
  BY <1>7 DEF Injection, IsInjective
<1> DEFINE entries == SweepEntries(order)
<1>9. DOMAIN entries = 1 .. n /\ DOMAIN order = 1 .. n
  BY <1>4 DEF SweepEntries
<1>10. \A i \in 1 .. n : entries[i] = EntryOf("expired", order[i], None)
  BY <1>4 DEF SweepEntries
<1>11. ASSUME NEW i \in 1 .. n PROVE entries[i] \in Entry /\ entries[i].id = order[i]
  <2>1. order[i] \in CheckpointId
    BY <1>4 DEF Expired
  <2>2. EntryOf("expired", order[i], None) \in Entry
    BY <2>1 DEF EntryType, Entry, EntryOf
  <2>3. EntryOf("expired", order[i], None).id = order[i]
    BY DEF EntryOf
  <2>4. entries[i] = EntryOf("expired", order[i], None)
    BY <1>10
  <2>5. QED
    BY <2>2, <2>3, <2>4
<1> HIDE DEF entries
<1>12. entries \in Seq(Entry)
  <2>1. entries = [i \in 1 .. n |-> entries[i]]
    BY <1>9 DEF entries, SweepEntries
  <2>2. entries \in [1 .. n -> Entry]
    BY <1>11, <2>1
  <2>3. QED
    BY <1>3, <2>2, SeqDef
<1>13. Distinct(entries)
  BY <1>8, <1>9, <1>11 DEF Distinct, SameChange
<1>14. Entries(entries) = {EntryOf("expired", id, None) : id \in Expired}
  BY <1>4, <1>9, <1>10 DEF Entries
<1>15. QED
  BY <1>12, <1>13, <1>14 DEF entries

-----------------------------------------------------------------------------
(* A resolution is final, for each operation of the store. *)

StaysFinal(id) ==
    Exists(id) =>
        /\ Exists(id)'
        /\ checkpoints'[id].bound_params = checkpoints[id].bound_params
        /\ checkpoints'[id].action = checkpoints[id].action
        /\ checkpoints[id].consumed => checkpoints'[id].consumed
        /\ checkpoints[id].status # "pending" =>
               /\ checkpoints'[id].status = checkpoints[id].status
               /\ checkpoints'[id].resolved_by = checkpoints[id].resolved_by
Final == \A id \in CheckpointId : StaysFinal(id)

LEMMA FinalFrame ==
    ASSUME UNCHANGED checkpoints
    PROVE  Final
BY DEF Final, StaysFinal, Exists

LEMMA CreateFinal ==
    ASSUME CheckpointTypeOK,
           NEW id \in CheckpointId, NEW action \in Action, NEW ttl \in Ttl,
           NEW bound_params \in BoundParams \cup {None}, NEW now \in 0 .. clock,
           CreateCheckpoint(id, action, ttl, bound_params, now)
    PROVE  Final
<1>1. ~Exists(id) /\ \A other \in CheckpointId \ {id} : checkpoints'[other] = checkpoints[other]
  BY CreateEffect DEF Others
<1>2. QED
  BY <1>1 DEF Final, StaysFinal, Exists

LEMMA ResolveFinal ==
    ASSUME CheckpointTypeOK,
           NEW id \in CheckpointId, NEW status \in {"approved", "rejected"},
           NEW human \in Approver,
           ResolveCheckpoint(id, status, human)
    PROVE  Final
<1>1. StaysFinal(id) /\ Others(id)
  BY ResolveEffect DEF StaysFinal
<1>2. QED
  BY <1>1 DEF Final, StaysFinal, Exists, Others

LEMMA ConsumeFinal ==
    ASSUME CheckpointTypeOK,
           NEW id \in CheckpointId, NEW action, NEW bound_params,
           ConsumeCheckpoint(id, action, bound_params)
    PROVE  Final
<1>1. StaysFinal(id) /\ Others(id)
  BY ConsumeEffect DEF StaysFinal
<1>2. QED
  BY <1>1 DEF Final, StaysFinal, Exists, Others

LEMMA SweepFinal ==
    ASSUME CheckpointTypeOK, SweepExpired
    PROVE  Final
<1>1. \A id \in Expired : StaysFinal(id)
  BY SweepEffect DEF StaysFinal
<1>2. \A id \in CheckpointId \ Expired : StaysFinal(id)
  BY SweepEffect DEF StaysFinal, Exists
<1>3. QED
  BY <1>1, <1>2 DEF Final

(* An operation never changes a resolution, the bound call or the action   *)
(* of a checkpoint, and never un-spends one.                               *)
LEMMA StepFinal ==
    ASSUME TypeOK, [Next]_vars
    PROVE  Final
<1>1. ASSUME NEW t \in Thread, Create(t) PROVE Final
  BY <1>1, CreateFinal DEF TypeOK, Create
<1>2. ASSUME NEW t \in Thread, Approve(t) PROVE Final
  BY <1>2, ResolveFinal DEF TypeOK, Approve, Resolve
<1>3. ASSUME NEW t \in Thread, Reject(t) PROVE Final
  BY <1>3, ResolveFinal DEF TypeOK, Reject, Resolve
<1>4. ASSUME NEW t \in Thread, Consume(t) PROVE Final
  BY <1>4, ConsumeFinal DEF TypeOK, Consume
<1>5. ASSUME NEW t \in Thread, Sweep(t) PROVE Final
  BY <1>5, SweepFinal DEF TypeOK, Sweep
<1>6. ASSUME NEW t \in Thread, AppendEntry(t) \/ AppendFails(t) PROVE Final
  BY <1>6, FinalFrame DEF AppendEntry, AppendFails, checkpointVars
<1>7. CASE TimePasses \/ UNCHANGED vars
  BY <1>7, FinalFrame DEF TimePasses, Tick, vars, checkpointVars
<1>8. QED
  BY <1>1, <1>2, <1>3, <1>4, <1>5, <1>6, <1>7 DEF Next

-----------------------------------------------------------------------------
(* What a method has to show of its critical section for the log to tell   *)
(* the store once its entries are in.                                      *)

(* Every change the section made is among the entries.                     *)
AllOwed(entries) ==
    \A id \in CheckpointId : Exists(id)' =>
        LET new == checkpoints'[id]
        IN  /\ ~Exists(id) => EntryOf("created", id, None) \in Entries(entries)
            /\ new.status # "pending" /\ (Exists(id) => checkpoints[id].status = "pending") =>
                   EntryOf(new.status, id, new.resolved_by) \in Entries(entries)
            /\ new.consumed /\ (Exists(id) => ~checkpoints[id].consumed) =>
                   EntryOf("consumed", id, None) \in Entries(entries)

LEMMA RecordedTyped ==
    ASSUME RecordTypeOK
    PROVE  Recorded \subseteq Entry
<1>1. \A i \in DOMAIN log : log[i] \in Entry
  BY DEF RecordTypeOK
<1>2. ASSUME NEW t \in Thread PROVE \A i \in DOMAIN owed[t] : owed[t][i] \in Entry
  <2>1. owed[t] \in Seq(Entry)
    BY DEF RecordTypeOK
  <2>2. QED
    BY <2>1
<1>3. QED
  BY <1>1, <1>2, RecordedPlaces

LEMMA FinalKeepsHappened ==
    ASSUME Final, NEW e \in Entry, Happened(e)
    PROVE  Happened(e)'
<1>1. e.id \in CheckpointId /\ StaysFinal(e.id)
  BY DEF Entry, Final
<1>2. e.type \in Resolution => checkpoints[e.id].status # "pending"
  BY DEF Happened, Resolution
<1>3. QED
  BY <1>1, <1>2 DEF Happened, StaysFinal

LEMMA MethodTells ==
    ASSUME RecordTypeOK, AllTold, Final,
           NEW t \in Thread, NEW entries \in Seq(Entry),
           Idle(t), Owe(t, entries), AllOwed(entries)
    PROVE  AllTold'
<1> SUFFICES ASSUME failures' = 0, NEW id \in CheckpointId, Exists(id)'
             PROVE  Told(id)'
  BY DEF AllTold
<1>1. Recorded' = Recorded \cup Entries(entries) /\ failures = 0
  BY OweRecords DEF Owe
<1>2. CASE Exists(id)
  <2>1. Told(id) /\ StaysFinal(id)
    BY <1>1, <1>2 DEF AllTold, Final
  <2>2. QED
    BY <1>1, <1>2, <2>1 DEF Told, StaysFinal, AllOwed
<1>3. CASE ~Exists(id)
  BY <1>1, <1>3 DEF Told, AllOwed
<1>4. QED
  BY <1>2, <1>3

LEMMA MethodKeeps ==
    ASSUME AuditInv, CheckpointTypeOK', IsFiniteSet(Existing)', Final, AllLawful',
           NEW t \in Thread, NEW entries \in Seq(Entry),
           Idle(t), Owe(t, entries),
           Fresh(entries), Distinct(entries), AllOwed(entries),
           \A e \in Entries(entries) : Happened(e)'
    PROVE  AuditInv'
<1>1. RecordTypeOK
  BY DEF AuditInv, TypeInv, TypeOK, RecordTypeOK
<1>2. RecordTypeOK' /\ Recorded' = Recorded \cup Entries(entries)
  BY <1>1, OweRecords
<1>3. TypeInv'
  BY <1>2 DEF TypeInv, TypeOK, RecordTypeOK
<1>4. EachOnce'
  BY <1>1, OweKeepsOnce DEF AuditInv
<1>5. NothingInvented'
  <2>1. \A e \in Recorded : Happened(e)'
    BY <1>1, RecordedTyped, FinalKeepsHappened DEF AuditInv, NothingInvented
  <2>2. QED
    BY <1>2, <2>1 DEF NothingInvented
<1>6. AllTold'
  BY <1>1, MethodTells DEF AuditInv
<1>7. QED
  BY <1>3, <1>4, <1>5, <1>6 DEF AuditInv

-----------------------------------------------------------------------------
(* The invariant holds initially and every step keeps it. *)

LEMMA InvParts ==
    ASSUME AuditInv
    PROVE  /\ CheckpointTypeOK /\ RecordTypeOK /\ IsFiniteSet(Existing)
           /\ Recorded \subseteq Entry
           /\ \A e \in Recorded : Happened(e)
           /\ \A id \in CheckpointId : Exists(id) => Lawful(checkpoints[id])
<1>1. RecordTypeOK
  BY DEF AuditInv, TypeInv, TypeOK, RecordTypeOK
<1>2. QED
  BY <1>1, RecordedTyped DEF AuditInv, TypeInv, TypeOK, NothingInvented, AllLawful

LEMMA InitAudit == Init => AuditInv
<1> SUFFICES ASSUME Init PROVE AuditInv
  OBVIOUS
<1>1. \A id \in CheckpointId : ~Exists(id)
  BY DEF Init, CheckpointInit, Exists
<1>2. TypeOK
  <2>1. CheckpointTypeOK
    BY CheckpointAssumption DEF Init, CheckpointInit, CheckpointTypeOK
  <2>2. QED
    BY <2>1, ThreadAssumption DEF Init, TypeOK
<1>3. IsFiniteSet(Existing)
  <2>1. Existing = {}
    BY <1>1 DEF Existing
  <2>2. QED
    BY <2>1, FS_EmptySet
<1>4. \A t \in Thread : owed[t] = << >>
  BY DEF Init
<1>5. DOMAIN log = {} /\ \A t \in Thread : DOMAIN owed[t] = {}
  BY <1>4 DEF Init
<1>6. Recorded = {}
  BY <1>5, RecordedPlaces
<1>7. EachOnce
  BY <1>5 DEF EachOnce, LoggedOnce, OwedOnce, NotBoth
<1>8. QED
  BY <1>1, <1>2, <1>3, <1>6, <1>7
     DEF AuditInv, TypeInv, NothingInvented, AllLawful, AllTold

LEMMA CreateKeeps ==
    ASSUME AuditInv, NEW t \in Thread, Create(t)
    PROVE  AuditInv'
<1>1. PICK id \in CheckpointId, action \in Action, ttl \in Ttl,
           bound_params \in BoundParams \cup {None}, now \in 0 .. clock :
               /\ CreateCheckpoint(id, action, ttl, bound_params, now)
               /\ Owe(t, <<EntryOf("created", id, None)>>)
  BY DEF Create
<1> DEFINE e == EntryOf("created", id, None)
           entries == <<e>>
<1>2. CheckpointTypeOK /\ RecordTypeOK
  BY InvParts
<1>3. /\ CheckpointTypeOK' /\ ~Exists(id) /\ Exists(id)'
      /\ checkpoints'[id].status = "pending"
      /\ checkpoints'[id].resolved_by = None
      /\ checkpoints'[id].consumed = FALSE
  BY <1>1, <1>2, CreateEffect
<1>4. \A other \in CheckpointId \ {id} : checkpoints'[other] = checkpoints[other]
  BY <1>1, <1>2, CreateEffect DEF Others
<1>5. Final
  BY <1>1, <1>2, CreateFinal
<1>6. IsFiniteSet(Existing)'
  <2>1. Existing' = Existing \cup {id}
    BY <1>3, <1>4 DEF Existing, Exists
  <2>2. QED
    BY <2>1, InvParts, FS_AddElement
<1>7. AllLawful'
  <2>1. Lawful(checkpoints'[id])
    BY <1>3 DEF Lawful
  <2>2. QED
    BY <1>4, <2>1, InvParts DEF AllLawful, Exists
<1>8. /\ entries \in Seq(Entry) /\ Entries(entries) = {e} /\ Distinct(entries)
      /\ e.type = "created" /\ e.id = id /\ e.by = None
  BY OneEntry DEF EntryType
<1> HIDE DEF entries
<1>9. Fresh(entries)
  BY <1>3, <1>8, InvParts DEF Fresh, SameChange, Happened
<1>10. Happened(e)'
  BY <1>3, <1>8 DEF Happened, Resolution
<1>11. AllOwed(entries)
  BY <1>3, <1>4, <1>8 DEF AllOwed, Exists
<1>12. QED
  BY <1>1, <1>3, <1>5, <1>6, <1>7, <1>8, <1>9, <1>10, <1>11, MethodKeeps
     DEF Create, entries

LEMMA ResolveKeeps ==
    ASSUME AuditInv, NEW t \in Thread, NEW status \in {"approved", "rejected"},
           Resolve(t, status)
    PROVE  AuditInv'
<1>1. PICK id \in CheckpointId :
               /\ ResolveCheckpoint(id, status, t)
               /\ Owe(t, <<EntryOf(status, id, t)>>)
  BY DEF Resolve
<1> DEFINE e == EntryOf(status, id, t)
           entries == <<e>>
<1>2. CheckpointTypeOK /\ RecordTypeOK /\ t \in Approver
  BY InvParts DEF Resolve
<1>3. /\ CheckpointTypeOK' /\ Exists(id) /\ Exists(id)'
      /\ checkpoints[id].status = "pending"
      /\ checkpoints'[id].status = status
      /\ checkpoints'[id].resolved_by = t
      /\ checkpoints'[id].consumed = checkpoints[id].consumed
  BY <1>1, <1>2, ResolveEffect
<1>4. \A other \in CheckpointId \ {id} : checkpoints'[other] = checkpoints[other]
  BY <1>1, <1>2, ResolveEffect DEF Others
<1>5. Final
  BY <1>1, <1>2, ResolveFinal
<1>6. IsFiniteSet(Existing)'
  <2>1. Existing' = Existing
    BY <1>3, <1>4 DEF Existing, Exists
  <2>2. QED
    BY <2>1, InvParts
<1>7. AllLawful'
  <2>1. Lawful(checkpoints'[id])
    BY <1>3, InvParts DEF Lawful
  <2>2. QED
    BY <1>4, <2>1, InvParts DEF AllLawful, Exists
<1>8. /\ entries \in Seq(Entry) /\ Entries(entries) = {e} /\ Distinct(entries)
      /\ e.type = status /\ e.id = id /\ e.by = t
  BY OneEntry DEF EntryType
<1> HIDE DEF entries
<1>9. Fresh(entries)
  <2>1. \A f \in Recorded : f.id = id => f.type \notin Resolution
    BY <1>3, InvParts DEF Happened, Resolution
  <2>2. QED
    BY <1>8, <2>1 DEF Fresh, SameChange, Resolution
<1>10. Happened(e)'
  BY <1>3, <1>8 DEF Happened, Resolution
<1>11. AllOwed(entries)
  <2>1. \A other \in CheckpointId \ {id} : Exists(other)' <=> Exists(other)
    BY <1>4 DEF Exists
  <2>2. ~checkpoints[id].consumed => ~checkpoints'[id].consumed
    BY <1>3
  <2>3. QED
    BY <1>3, <1>4, <1>8, <2>1, <2>2 DEF AllOwed
<1>12. QED
  BY <1>1, <1>3, <1>5, <1>6, <1>7, <1>8, <1>9, <1>10, <1>11, MethodKeeps
     DEF Resolve, entries

LEMMA ConsumeKeeps ==
    ASSUME AuditInv, NEW t \in Thread, Consume(t)
    PROVE  AuditInv'
<1>1. PICK id \in CheckpointId, action \in Action, bound_params \in BoundParams :
               /\ ConsumeCheckpoint(id, action, bound_params)
               /\ Owe(t, <<EntryOf("consumed", id, None)>>)
  BY DEF Consume
<1> DEFINE e == EntryOf("consumed", id, None)
           entries == <<e>>
<1>2. CheckpointTypeOK /\ RecordTypeOK
  BY InvParts
<1>3. /\ CheckpointTypeOK' /\ Exists(id) /\ Exists(id)'
      /\ checkpoints[id].status = "approved" /\ ~checkpoints[id].consumed
      /\ checkpoints'[id].status = "approved" /\ checkpoints'[id].consumed
      /\ checkpoints'[id].resolved_by = checkpoints[id].resolved_by
      /\ checkpoints'[id].bound_params = bound_params
  BY <1>1, <1>2, ConsumeEffect
<1>4. \A other \in CheckpointId \ {id} : checkpoints'[other] = checkpoints[other]
  BY <1>1, <1>2, ConsumeEffect DEF Others
<1>5. Final
  BY <1>1, <1>2, ConsumeFinal
<1>6. IsFiniteSet(Existing)'
  <2>1. Existing' = Existing
    BY <1>3, <1>4 DEF Existing, Exists
  <2>2. QED
    BY <2>1, InvParts
<1>7. AllLawful'
  <2>1. Lawful(checkpoints'[id])
    BY <1>3, CheckpointAssumption DEF Lawful
  <2>2. QED
    BY <1>4, <2>1, InvParts DEF AllLawful, Exists
<1>8. /\ entries \in Seq(Entry) /\ Entries(entries) = {e} /\ Distinct(entries)
      /\ e.type = "consumed" /\ e.id = id /\ e.by = None
  BY OneEntry DEF EntryType
<1> HIDE DEF entries
<1>9. Fresh(entries)
  <2>1. \A f \in Recorded : f.id = id => f.type # "consumed"
    BY <1>3, InvParts DEF Happened
  <2>2. QED
    BY <1>8, <2>1 DEF Fresh, SameChange, Resolution
<1>10. Happened(e)'
  BY <1>3, <1>8 DEF Happened, Resolution
<1>11. AllOwed(entries)
  <2>1. \A other \in CheckpointId \ {id} : Exists(other)' <=> Exists(other)
    BY <1>4 DEF Exists
  <2>2. QED
    BY <1>3, <1>4, <1>8, <2>1 DEF AllOwed
<1>12. QED
  BY <1>1, <1>3, <1>5, <1>6, <1>7, <1>8, <1>9, <1>10, <1>11, MethodKeeps
     DEF Consume, entries

LEMMA SweepKeeps ==
    ASSUME AuditInv, NEW t \in Thread, Sweep(t)
    PROVE  AuditInv'
<1>1. PICK order \in Orders(Expired) : Owe(t, SweepEntries(order))
  BY DEF Sweep, SweepEntries
<1> DEFINE entries == SweepEntries(order)
<1>2. CheckpointTypeOK /\ RecordTypeOK /\ SweepExpired /\ Expired \subseteq CheckpointId
  BY InvParts DEF Sweep, Expired
<1>3. CheckpointTypeOK'
  BY <1>2, SweepEffect
<1>4. \A id \in Expired :
          /\ Exists(id) /\ Exists(id)'
          /\ checkpoints[id].status = "pending"
          /\ checkpoints'[id].status = "expired"
          /\ checkpoints'[id].resolved_by = checkpoints[id].resolved_by
          /\ checkpoints'[id].consumed = checkpoints[id].consumed
  BY <1>2, SweepEffect
<1>5. \A other \in CheckpointId \ Expired : checkpoints'[other] = checkpoints[other]
  BY <1>2, SweepEffect
<1>6. Final
  BY <1>2, SweepFinal
<1>7. \A id \in CheckpointId : Exists(id)' <=> Exists(id)
  BY <1>4, <1>5 DEF Exists
<1>8. IsFiniteSet(Existing)'
  <2>1. Existing' = Existing
    BY <1>7 DEF Existing
  <2>2. QED
    BY <2>1, InvParts
<1>9. \A id \in Expired : checkpoints[id].resolved_by = None /\ ~checkpoints[id].consumed
  BY <1>2, <1>4, InvParts DEF Lawful
<1>10. AllLawful'
  <2>1. \A id \in Expired : Lawful(checkpoints'[id])
    BY <1>4, <1>9 DEF Lawful
  <2>2. QED
    BY <1>5, <1>7, <2>1, InvParts DEF AllLawful
<1>11. /\ entries \in Seq(Entry) /\ Distinct(entries)
       /\ Entries(entries) = {EntryOf("expired", id, None) : id \in Expired}
  BY <1>2, InvParts, ExpiredEntries
<1> HIDE DEF entries
<1>12. ASSUME NEW e \in Entries(entries)
       PROVE  e.id \in Expired /\ e.type = "expired" /\ e.by = None
  BY <1>11 DEF EntryOf
<1>13. Fresh(entries)
  <2>1. \A f \in Recorded : f.id \in Expired => f.type \notin Resolution
    BY <1>4, InvParts DEF Happened, Resolution
  <2>2. QED
    BY <1>12, <2>1 DEF Fresh, SameChange, Resolution
<1>14. \A e \in Entries(entries) : Happened(e)'
  BY <1>4, <1>9, <1>12 DEF Happened, Resolution
<1>15. AllOwed(entries)
  <2>1. \A id \in Expired : checkpoints'[id].resolved_by = None /\ ~checkpoints'[id].consumed
    BY <1>4, <1>9
  <2>2. \A id \in Expired : EntryOf("expired", id, None) \in Entries(entries)
    BY <1>11
  <2>3. QED
    BY <1>4, <1>5, <1>7, <2>1, <2>2 DEF AllOwed
<1>16. QED
  BY <1>1, <1>3, <1>6, <1>8, <1>10, <1>11, <1>13, <1>14, <1>15, MethodKeeps
     DEF Sweep, entries

(* A step that changes nothing but the log and what is owed.               *)
LEMMA RecordStepKeeps ==
    ASSUME AuditInv, UNCHANGED checkpointVars, RecordTypeOK', EachOnce',
           Recorded' \subseteq Recorded,
           failures' = 0 => Recorded' = Recorded /\ failures = 0
    PROVE  AuditInv'
<1>1. \A id \in CheckpointId : Exists(id)' <=> Exists(id)
  BY DEF checkpointVars, Exists
<1>2. TypeInv'
  <2>1. CheckpointTypeOK' /\ Existing' = Existing
    BY <1>1, InvParts DEF checkpointVars, CheckpointTypeOK, Existing
  <2>2. QED
    BY <2>1, InvParts DEF TypeInv, TypeOK, RecordTypeOK
<1>3. NothingInvented'
  <2>1. \A e \in Recorded : Happened(e)'
    BY InvParts, FinalFrame, FinalKeepsHappened DEF checkpointVars
  <2>2. QED
    BY <2>1 DEF NothingInvented
<1>4. AllLawful'
  BY <1>1 DEF AuditInv, AllLawful, checkpointVars
<1>5. AllTold'
  BY <1>1 DEF AuditInv, AllTold, Told, checkpointVars
<1>6. QED
  BY <1>2, <1>3, <1>4, <1>5 DEF AuditInv

LEMMA AppendKeeps ==
    ASSUME AuditInv, NEW t \in Thread, AppendEntry(t)
    PROVE  AuditInv'
<1>1. RecordTypeOK' /\ EachOnce' /\ Recorded' = Recorded
  BY InvParts, AppendMoves, AppendRecords, AppendKeepsOnce DEF AuditInv
<1>2. UNCHANGED checkpointVars /\ failures' = failures
  BY DEF AppendEntry
<1>3. QED
  BY <1>1, <1>2, RecordStepKeeps

LEMMA FailKeeps ==
    ASSUME AuditInv, NEW t \in Thread, AppendFails(t)
    PROVE  AuditInv'
<1>1. RecordTypeOK' /\ EachOnce' /\ Recorded' \subseteq Recorded /\ failures' # 0
  BY InvParts, FailForgets, FailKeepsOnce DEF AuditInv
<1>2. UNCHANGED checkpointVars
  BY DEF AppendFails
<1>3. QED
  BY <1>1, <1>2, RecordStepKeeps

LEMMA TimeKeeps ==
    ASSUME AuditInv, TimePasses
    PROVE  AuditInv'
<1>1. CheckpointTypeOK'
  BY InvParts, CheckpointAssumption DEF TimePasses, Tick, CheckpointTypeOK
<1>2. UNCHANGED <<checkpoints, log, owed, failures>>
  BY DEF TimePasses, Tick
<1>3. Existing' = Existing /\ Recorded' = Recorded
  BY <1>2 DEF Existing, Exists, Recorded, Owed, Entries
<1>4. TypeInv'
  BY <1>1, <1>2, <1>3, InvParts DEF TypeInv, TypeOK, RecordTypeOK
<1>5. EachOnce'
  BY <1>2 DEF AuditInv, EachOnce, LoggedOnce, OwedOnce, NotBoth
<1>6. NothingInvented' /\ AllLawful'
  BY <1>2, <1>3 DEF AuditInv, NothingInvented, Happened, AllLawful, Exists
<1>7. AllTold'
  BY <1>2, <1>3 DEF AuditInv, AllTold, Told, Exists
<1>8. QED
  BY <1>4, <1>5, <1>6, <1>7 DEF AuditInv

LEMMA NextAudit == AuditInv /\ [Next]_vars => AuditInv'
<1> SUFFICES ASSUME AuditInv, [Next]_vars PROVE AuditInv'
  OBVIOUS
<1>1. ASSUME NEW t \in Thread, Create(t) PROVE AuditInv'
  BY <1>1, CreateKeeps
<1>2. ASSUME NEW t \in Thread, Approve(t) PROVE AuditInv'
  BY <1>2, ResolveKeeps DEF Approve
<1>3. ASSUME NEW t \in Thread, Reject(t) PROVE AuditInv'
  BY <1>3, ResolveKeeps DEF Reject
<1>4. ASSUME NEW t \in Thread, Consume(t) PROVE AuditInv'
  BY <1>4, ConsumeKeeps
<1>5. ASSUME NEW t \in Thread, Sweep(t) PROVE AuditInv'
  BY <1>5, SweepKeeps
<1>6. ASSUME NEW t \in Thread, AppendEntry(t) PROVE AuditInv'
  BY <1>6, AppendKeeps
<1>7. ASSUME NEW t \in Thread, AppendFails(t) PROVE AuditInv'
  BY <1>7, FailKeeps
<1>8. CASE TimePasses
  BY <1>8, TimeKeeps
<1>9. CASE UNCHANGED vars
  <2>1. UNCHANGED checkpointVars /\ RecordTypeOK' /\ EachOnce'
    BY <1>9, InvParts DEF vars, RecordTypeOK, AuditInv, EachOnce, LoggedOnce, OwedOnce, NotBoth
  <2>2. Recorded' = Recorded /\ failures' = failures
    BY <1>9 DEF vars, Recorded, Owed, Entries
  <2>3. QED
    BY <2>1, <2>2, RecordStepKeeps
<1>10. QED
  BY <1>1, <1>2, <1>3, <1>4, <1>5, <1>6, <1>7, <1>8, <1>9 DEF Next

LEMMA AuditInvariant == Spec => []AuditInv
BY InitAudit, NextAudit, PTL DEF Spec

-----------------------------------------------------------------------------
(* The theorems *)

(* Lemma on counting: a set of positions with at most one element.         *)
LEMMA AtMostOne ==
    ASSUME NEW S, \A x, y \in S : x = y
    PROVE  /\ IsFiniteSet(S) /\ Cardinality(S) <= 1
           /\ S # {} => Cardinality(S) = 1
           /\ S = {} => Cardinality(S) = 0
<1>1. CASE S = {}
  BY <1>1, FS_EmptySet
<1>2. CASE S # {}
  <2>1. PICK x \in S : S = {x}
    BY <1>2
  <2>2. QED
    BY <1>2, <2>1, FS_Singleton
<1>3. QED
  BY <1>1, <1>2

(* Type correctness: the store, the log and what the threads owe it keep   *)
(* their shapes; a sweep of any size owes finitely many entries.           *)
THEOREM AuditTyped == Spec => []TypeOK
<1>1. AuditInv => TypeOK
  BY DEF AuditInv, TypeInv
<1>2. QED
  BY <1>1, AuditInvariant, PTL

(* OneResolutionOnRecord: no interleaving of humans and sweepers gets a    *)
(* second resolution of a checkpoint into the log, nor one that is not the *)
(* status and the approver the store ended with.                           *)
THEOREM ResolvedOnceOnRecord == Spec => []OneResolutionOnRecord
<1>1. ASSUME AuditInv PROVE OneResolutionOnRecord
  <2>1. ASSUME NEW id \in CheckpointId PROVE Cardinality(ResolutionsIn(id)) <= 1
    <3>1. \A i, j \in ResolutionsIn(id) : i = j
      BY <1>1 DEF ResolutionsIn, AuditInv, EachOnce, LoggedOnce, SameChange, Resolution
    <3>2. QED
      BY <3>1, AtMostOne
  <2>2. ASSUME NEW e \in Entries(log) \cup Owed, e.type \in Resolution
        PROVE  /\ checkpoints[e.id].status = e.type
               /\ checkpoints[e.id].resolved_by = e.by
    BY <1>1, <2>2, InvParts DEF Recorded, Happened
  <2>3. QED
    BY <2>1, <2>2 DEF OneResolutionOnRecord, Resolution
<1>2. QED
  BY <1>1, AuditInvariant, PTL

(* OnlyApprovalsAreSpent: a rejected or expired checkpoint is never spent, *)
(* and an approval has one consumed entry, owed by one thread.             *)
THEOREM SpendsApprovalsOnly == Spec => []OnlyApprovalsAreSpent
<1>1. ASSUME AuditInv PROVE OnlyApprovalsAreSpent
  <2>1. ASSUME NEW id \in CheckpointId, Exists(id), checkpoints[id].consumed
        PROVE  checkpoints[id].status = "approved" /\ checkpoints[id].bound_params # None
    BY <1>1, <2>1, InvParts DEF Lawful
  <2>2. ASSUME NEW t \in Thread, NEW u \in Thread,
               NEW e \in Entries(owed[t]), NEW f \in Entries(owed[u]), f = e
        PROVE  t = u
    BY <1>1, <2>2 DEF Entries, AuditInv, EachOnce, OwedOnce, SameChange
  <2>3. ASSUME NEW i \in DOMAIN log, NEW j \in DOMAIN log, log[i] = log[j]
        PROVE  i = j
    BY <1>1, <2>3 DEF AuditInv, EachOnce, LoggedOnce, SameChange
  <2>4. QED
    BY <2>1, <2>2, <2>3 DEF OnlyApprovalsAreSpent
<1>2. QED
  BY <1>1, AuditInvariant, PTL

(* LogTellsTheStore: unless an append raised, the log tells the store's    *)
(* whole state whenever no method is under way.                            *)
THEOREM LogIsComplete == Spec => []LogTellsTheStore
<1>1. ASSUME AuditInv, failures = 0, Quiet, NEW id \in CheckpointId
      PROVE  LET logged(type) == {i \in DOMAIN log : log[i].id = id /\ log[i].type = type}
             IN  /\ Cardinality(logged("created")) = IF Exists(id) THEN 1 ELSE 0
                 /\ Cardinality(logged("consumed")) =
                        IF Exists(id) /\ checkpoints[id].consumed THEN 1 ELSE 0
                 /\ IsResolved(id) =>
                        \E i \in logged(checkpoints[id].status) :
                            log[i].by = checkpoints[id].resolved_by
  <2> DEFINE logged(type) == {i \in DOMAIN log : log[i].id = id /\ log[i].type = type}
  <2>1. \A e \in Recorded : \E i \in DOMAIN log : log[i] = e
    BY <1>1, RecordedPlaces DEF Quiet, Idle
  <2>2. ASSUME NEW type, NEW by, EntryOf(type, id, by) \in Recorded
        PROVE  \E i \in logged(type) : log[i].by = by
    BY <2>1, <2>2 DEF EntryOf
  <2>3. ASSUME NEW type PROVE \A i, j \in logged(type) : i = j
    BY <1>1 DEF AuditInv, EachOnce, LoggedOnce, SameChange
  <2>4. \A i \in DOMAIN log : Happened(log[i])
    BY <1>1, InvParts, RecordedPlaces
  <2>5. Exists(id) => Told(id)
    BY <1>1 DEF AuditInv, AllTold
  <2>6. logged("created") # {} <=> Exists(id)
    BY <2>2, <2>4, <2>5 DEF Told, Happened
  <2>7. logged("consumed") # {} <=> Exists(id) /\ checkpoints[id].consumed
    BY <2>2, <2>4, <2>5 DEF Told, Happened
  <2>8. IsResolved(id) =>
            \E i \in logged(checkpoints[id].status) :
                log[i].by = checkpoints[id].resolved_by
    BY <2>2, <2>5 DEF Told, IsResolved
  <2>9. \A type : /\ logged(type) # {} => Cardinality(logged(type)) = 1
                  /\ logged(type) = {} => Cardinality(logged(type)) = 0
    BY <2>3, AtMostOne
  <2> HIDE DEF logged
  <2>10. /\ Cardinality(logged("created")) = IF Exists(id) THEN 1 ELSE 0
         /\ Cardinality(logged("consumed")) =
                IF Exists(id) /\ checkpoints[id].consumed THEN 1 ELSE 0
    BY <2>6, <2>7, <2>9
  <2>11. QED
    BY <2>8, <2>10 DEF logged
<1>2. AuditInv => LogTellsTheStore
  BY <1>1 DEF LogTellsTheStore, EveryChangeIsLogged
<1>3. QED
  BY <1>2, AuditInvariant, PTL

(* ResolutionIsFinal: of any thread, no operation, a sweep included,       *)
(* changes an answer, an approver, the bound call, or un-spends.           *)
THEOREM ResolutionsAreFinal == Spec => ResolutionIsFinal
<1> DEFINE Step ==
        \A id \in CheckpointId : Exists(id) =>
            LET old == checkpoints[id]
                new == checkpoints'[id]
            IN  /\ new.bound_params = old.bound_params
                /\ new.action = old.action
                /\ old.consumed => new.consumed
                /\ IsResolved(id) => /\ new.status = old.status
                                     /\ new.resolved_by = old.resolved_by
<1>1. TypeOK /\ [Next]_vars => [Step]_vars
  <2> SUFFICES ASSUME TypeOK, [Next]_vars PROVE Step
    OBVIOUS
  <2>1. Final
    BY StepFinal
  <2>2. QED
    BY <2>1 DEF Final, StaysFinal, IsResolved
<1>2. QED
  BY <1>1, AuditTyped, PTL DEF Spec, ResolutionIsFinal

=============================================================================
