-------------------------- MODULE CheckpointAudit ---------------------------
(***************************************************************************)
(* CheckpointStore shared by several threads and wired to an AuditLog:     *)
(* log is what that came to hold, in its chain and, if it is persistent,   *)
(* in its file.  Every method changes the store under its lock and appends *)
(* to the log only after releasing it, so between the two another thread   *)
(* may run.  owed[t] holds the entries thread t has yet to append; t runs  *)
(* no other operation before they are in the log or append() has raised.   *)
(***************************************************************************)
EXTENDS CheckpointStore, Sequences, FiniteSets

CONSTANTS
    Thread,        \* callers of the store, the approvers among them
    Sweeper,       \* the background task that calls sweep_expired()
    MaxFailures    \* bound on append() calls that raise (disk full, ...)

ASSUME ThreadAssumption ==
    /\ Sweeper \in Thread
    /\ Approver \subseteq Thread
    /\ MaxFailures \in Nat

VARIABLES
    log,           \* the audit entries about checkpoints, oldest first
    owed,          \* entries each thread has still to append
    failures       \* append() calls that raised so far

vars == <<checkpointVars, log, owed, failures>>

EntryType == {"created", "approved", "rejected", "expired", "consumed"}

(* The payload a reader can attribute: which checkpoint, and who resolved  *)
(* it.  sweep_expired logs no resolved_by.                                 *)
Entry == [type : EntryType, id : CheckpointId, by : Thread \cup {None}]
EntryOf(type, id, by) == [type |-> type, id |-> id, by |-> by]

TypeOK ==
    /\ CheckpointTypeOK
    /\ log \in Seq(Entry)
    /\ owed \in [Thread -> Seq(Entry)]
    /\ failures \in 0 .. MaxFailures

Init ==
    /\ CheckpointInit
    /\ log = << >>
    /\ owed = [t \in Thread |-> << >>]
    /\ failures = 0

Idle(t) == owed[t] = << >>
Entries(seq) == {seq[i] : i \in DOMAIN seq}

(* The store lists no ids: a caller learns one from create(), which        *)
(* returns it after its append, or from the log if that append raised.     *)
Known(id) == Exists(id) /\ EntryOf("created", id, None) \in Entries(log)

(* A method's critical section is over: it has its entries still to append. *)
Owe(t, entries) ==
    /\ owed' = [owed EXCEPT ![t] = entries]
    /\ UNCHANGED <<log, failures>>

Create(t) ==
    /\ Idle(t)
    /\ \E id \in CheckpointId, action \in Action, ttl \in Ttl,
          bound_params \in BoundParams \cup {None}, now \in 0 .. clock :
           /\ CreateCheckpoint(id, action, ttl, bound_params, now)
           /\ Owe(t, <<EntryOf("created", id, None)>>)

Resolve(t, status) ==
    /\ t \in Approver
    /\ Idle(t)
    /\ \E id \in CheckpointId :
           /\ Known(id)
           /\ ResolveCheckpoint(id, status, t)
           /\ Owe(t, <<EntryOf(status, id, t)>>)

Approve(t) == Resolve(t, "approved")
Reject(t) == Resolve(t, "rejected")

(* Mutant: the spending of an approval is not logged. *)
ConsumeUnlogged(t) ==
    /\ Idle(t)
    /\ \E id \in CheckpointId, action \in Action, bound_params \in BoundParams :
           /\ Known(id)
           /\ ConsumeCheckpoint(id, action, bound_params)
           /\ Owe(t, << >>)

Consume(t) ==
    /\ Idle(t)
    /\ \E id \in CheckpointId, action \in Action, bound_params \in BoundParams :
           /\ Known(id)
           /\ ConsumeCheckpoint(id, action, bound_params)
           /\ Owe(t, <<EntryOf("consumed", id, None)>>)

(* One pass of the loop marks every due checkpoint; the entries follow in  *)
(* the order of the dict, which is any order here.                         *)
Orders(S) == {f \in [1 .. Cardinality(S) -> S] : {f[i] : i \in DOMAIN f} = S}

Sweep(t) ==
    /\ Idle(t)
    /\ SweepExpired
    /\ \E order \in Orders(Expired) :
           Owe(t, [i \in DOMAIN order |-> EntryOf("expired", order[i], None)])

AppendEntry(t) ==
    /\ ~Idle(t)
    /\ log' = Append(log, Head(owed[t]))
    /\ owed' = [owed EXCEPT ![t] = Tail(@)]
    /\ UNCHANGED <<checkpointVars, failures>>

(* append() raises out of the method (the disk is full, say).  A plain     *)
(* AuditLog has not taken the entry then, a PersistentAuditLog keeps it in *)
(* its chain and perhaps in the file (persistence.py:60-62); the entries   *)
(* of the checkpoints sweep_expired has after it are never written.        *)
AppendFails(t) ==
    /\ ~Idle(t)
    /\ failures < MaxFailures
    /\ failures' = failures + 1
    /\ log' \in {log, Append(log, Head(owed[t]))}
    /\ owed' = [owed EXCEPT ![t] = << >>]
    /\ UNCHANGED checkpointVars

TimePasses == Tick /\ UNCHANGED <<log, owed, failures>>

Next ==
    \/ \E t \in Thread :
           \/ Create(t)
           \/ Approve(t)
           \/ Reject(t)
           \/ Consume(t)
           \/ Sweep(t)
           \/ AppendEntry(t)
           \/ AppendFails(t)
    \/ TimePasses

(* Time passes, a method that left its critical section runs to its end,   *)
(* and the background task keeps sweeping.  No human is assumed to answer. *)
Fairness ==
    /\ WF_vars(TimePasses)
    /\ WF_vars(Sweep(Sweeper))
    /\ \A t \in Thread : WF_vars(AppendEntry(t))

Spec == Init /\ [][Next]_vars
FairSpec == Spec /\ Fairness

-----------------------------------------------------------------------------
(* Properties *)

Owed == UNION {Entries(owed[t]) : t \in Thread}
Quiet == \A t \in Thread : Idle(t)

(* "A checkpoint's resolution is final" (hitl.py:146-148): no operation of *)
(* any thread, a sweep included, changes a status or an approver once set, *)
(* nor the call a checkpoint is bound to, nor un-spends an approval.       *)
ResolutionIsFinal ==
    [][\A id \in CheckpointId : Exists(id) =>
           LET old == checkpoints[id]
               new == checkpoints'[id]
           IN  /\ new.bound_params = old.bound_params
               /\ new.action = old.action
               /\ old.consumed => new.consumed
               /\ IsResolved(id) => /\ new.status = old.status
                                    /\ new.resolved_by = old.resolved_by]_vars

ResolutionsIn(id) ==
    {i \in DOMAIN log : log[i].id = id
                     /\ log[i].type \in {"approved", "rejected", "expired"}}

(* The double logging the class docstring names (hitl.py:74-80): the log   *)
(* never holds two resolutions of one checkpoint, and the one it holds, or *)
(* that a thread is about to append, is the status and the approver the    *)
(* store ended with.                                                       *)
OneResolutionOnRecord ==
    /\ \A id \in CheckpointId : Cardinality(ResolutionsIn(id)) <= 1
    /\ \A e \in Entries(log) \cup Owed :
           e.type \in {"approved", "rejected", "expired"} =>
               /\ checkpoints[e.id].status = e.type
               /\ checkpoints[e.id].resolved_by = e.by

(* "Every state-changing operation is written to the audit log"            *)
(* (hitl.py:68-72): whenever no method is under way, the entries tell the  *)
(* store's whole state -- what exists, how it was resolved and by whom,    *)
(* and which approvals are spent, each spent once.                         *)
EveryChangeIsLogged ==
    Quiet => \A id \in CheckpointId :
        LET logged(type) == {i \in DOMAIN log : log[i].id = id /\ log[i].type = type}
        IN  /\ Cardinality(logged("created")) = IF Exists(id) THEN 1 ELSE 0
            /\ Cardinality(logged("consumed")) =
                   IF Exists(id) /\ checkpoints[id].consumed THEN 1 ELSE 0
            /\ IsResolved(id) =>
                   \E i \in logged(checkpoints[id].status) :
                       log[i].by = checkpoints[id].resolved_by

(* The same as long as no append() has raised: however the threads and the *)
(* sweeper interleave, the window between a change and its entry closes.   *)
LogTellsTheStore == failures = 0 => EveryChangeIsLogged

(* Expiry defaults to EXPIRED, never to APPROVED, and only an approval can *)
(* be spent: a checkpoint that was rejected or expired is never spent,     *)
(* whatever order the humans, the sweeper and the spenders ran in, and the *)
(* thread that spent one is the only one with a consumed entry for it.     *)
OnlyApprovalsAreSpent ==
    /\ \A id \in CheckpointId :
           Exists(id) /\ checkpoints[id].consumed =>
               /\ checkpoints[id].status = "approved"
               /\ checkpoints[id].bound_params # None
    /\ \A t, u \in Thread : \A e \in Entries(owed[t]), f \in Entries(owed[u]) :
           e.type = "consumed" /\ f = e => t = u
    /\ \A i, j \in DOMAIN log : log[i].type = "consumed" /\ log[i] = log[j] => i = j

(* "A checkpoint nobody ever looks at again should still end up expired,   *)
(* not stay PENDING forever" (hitl.py:211-217), and unless an append()     *)
(* raised the log says how it ended.                                       *)
NothingPendingForever ==
    \A id \in CheckpointId :
        (HasStatus(id, "pending") /\ checkpoints[id].expires_at # None)
            ~> (IsResolved(id) /\ (failures = 0 => ResolutionsIn(id) # {}))

=============================================================================
