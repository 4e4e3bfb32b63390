-------------------------- MODULE CheckpointStore ---------------------------
(***************************************************************************)
(* The checkpoint lifecycle of hitl.py.  Each operator is the critical     *)
(* section one method runs under CheckpointStore._lock; the audit entry    *)
(* the method appends after releasing the lock is a step of the module     *)
(* that composes this one (CheckpointAudit, Governor).                     *)
(***************************************************************************)
EXTENDS GovernanceBase

CONSTANTS
    CheckpointId,   \* the uuids create() may draw; each is drawn once
    Approver,       \* who may call approve() and reject()
    BoundParams,    \* the {"tool_name", "params"} calls a checkpoint is bound to
    Ttl,            \* ttl_seconds arguments, None included
    MaxTime         \* bound on the wall clock

ASSUME CheckpointAssumption ==
    /\ None \notin CheckpointId
    /\ None \notin Approver
    /\ None \notin BoundParams
    /\ Ttl \subseteq Int \cup {None}
    /\ MaxTime \in Nat

VARIABLES
    checkpoints,    \* CheckpointStore._checkpoints; None where the key is absent
    clock           \* datetime.now(timezone.utc)

CheckpointStatus == {"pending", "approved", "rejected", "expired"}

Checkpoint ==
    [action       : Action,
     status       : CheckpointStatus,
     resolved_by  : Approver \cup {None},
     expires_at   : Int \cup {None},
     bound_params : BoundParams \cup {None},
     consumed     : BOOLEAN]

(* Python's None is no Checkpoint. *)
ASSUME AbsenceAssumption == None \notin Checkpoint

CheckpointTypeOK ==
    /\ checkpoints \in [CheckpointId -> Checkpoint \cup {None}]
    /\ clock \in 0 .. MaxTime

CheckpointInit ==
    /\ checkpoints = [id \in CheckpointId |-> None]
    /\ clock = 0

Exists(id) == checkpoints[id] # None
HasStatus(id, status) == Exists(id) /\ checkpoints[id].status = status
IsResolved(id) == Exists(id) /\ checkpoints[id].status # "pending"

(* `if ttl_seconds` is false of 0 as well as of None. *)
ExpiresAt(ttl, now) == IF ttl \in {None, 0} THEN None ELSE now + ttl

(* Bound: the clock runs at least to every expiry that is set. *)
WithinHorizon(expires_at) == expires_at # None => expires_at <= MaxTime

(* `now` is read before the lock is taken, so it may be older than clock. *)
CreateCheckpoint(id, action, ttl, bound_params, now) ==
    /\ ~Exists(id)
    /\ WithinHorizon(ExpiresAt(ttl, now))
    /\ checkpoints' = [checkpoints EXCEPT ![id] =
           [action |-> action, status |-> "pending", resolved_by |-> None,
            expires_at |-> ExpiresAt(ttl, now), bound_params |-> bound_params,
            consumed |-> FALSE]]
    /\ UNCHANGED clock

(* Mutants: two threads both resolve a pending checkpoint; the status and  *)
(* the approver are stored in each other's place.                          *)
ResolveUnguarded(id, status, resolved_by) ==
    /\ Exists(id)
    /\ checkpoints' = [checkpoints EXCEPT ![id].status = status,
                                          ![id].resolved_by = resolved_by]
    /\ UNCHANGED clock

ResolveSwapped(id, status, resolved_by) ==
    /\ Exists(id)
    /\ ~IsResolved(id)
    /\ checkpoints' = [checkpoints EXCEPT ![id].status = resolved_by,
                                          ![id].resolved_by = status]
    /\ UNCHANGED clock

(* approve and reject; a resolved or unknown checkpoint raises.  An expiry *)
(* that has passed but has not been swept is not looked at.                *)
ResolveCheckpoint(id, status, resolved_by) ==
    /\ Exists(id)
    /\ ~IsResolved(id)
    /\ checkpoints' = [checkpoints EXCEPT ![id].status = status,
                                          ![id].resolved_by = resolved_by]
    /\ UNCHANGED clock

(* Mutants: the approved test, the single-use test or the test that this   *)
(* is the approved call is missing.                                        *)
CanConsumeResolved(id, action, bound_params) ==
    /\ IsResolved(id)
    /\ ~checkpoints[id].consumed
    /\ checkpoints[id].action = action
    /\ checkpoints[id].bound_params = bound_params
CanConsumeAgain(id, action, bound_params) ==
    /\ HasStatus(id, "approved")
    /\ checkpoints[id].action = action
    /\ checkpoints[id].bound_params = bound_params
CanConsumeForAnyCall(id, action, bound_params) ==
    /\ HasStatus(id, "approved")
    /\ ~checkpoints[id].consumed

CanConsume(id, action, bound_params) ==
    /\ HasStatus(id, "approved")
    /\ ~checkpoints[id].consumed
    /\ checkpoints[id].action = action
    /\ checkpoints[id].bound_params = bound_params

ConsumeCheckpoint(id, action, bound_params) ==
    /\ CanConsume(id, action, bound_params)
    /\ checkpoints' = [checkpoints EXCEPT ![id].consumed = TRUE]
    /\ UNCHANGED clock

(* Mutants: a sweep that comes late misses the checkpoint; a sweep expires *)
(* what a human has resolved.                                              *)
IsExpiredExactly(id) ==
    /\ HasStatus(id, "pending")
    /\ checkpoints[id].expires_at # None
    /\ clock = checkpoints[id].expires_at

IsExpiredResolved(id) ==
    /\ Exists(id)
    /\ checkpoints[id].status # "expired"
    /\ checkpoints[id].expires_at # None
    /\ clock >= checkpoints[id].expires_at

IsExpired(id) ==
    /\ HasStatus(id, "pending")
    /\ checkpoints[id].expires_at # None
    /\ clock >= checkpoints[id].expires_at

Expired == {id \in CheckpointId : IsExpired(id)}

(* A sweep that finds nothing due changes nothing and is left out. *)
SweepExpired ==
    /\ Expired # {}
    /\ checkpoints' = [id \in CheckpointId |->
           IF id \in Expired
           THEN [checkpoints[id] EXCEPT !.status = "expired"]
           ELSE checkpoints[id]]
    /\ UNCHANGED clock

Tick ==
    /\ clock < MaxTime
    /\ clock' = clock + 1
    /\ UNCHANGED checkpoints

checkpointVars == <<checkpoints, clock>>

=============================================================================
