--------------------------- MODULE GovernorProofs ---------------------------
(***************************************************************************)
(* What evaluate_action guarantees for any number of invocations,          *)
(* checkpoints, tools, requests, policy rules and failing appends: the     *)
(* types first, then that an approval is spent once, that a call above its *)
(* threshold acts on its own approval only and that a call begun under a   *)
(* halt never acts, and last what the caller is told: that it agrees with  *)
(* the log, that no claimed tier counts beyond the approved one and that a *)
(* refusal is explained.  At the end, that it implements ApprovalTickets.  *)
(***************************************************************************)
EXTENDS Governor, TLAPS

-----------------------------------------------------------------------------
(* The component operators keep their variables well typed. *)

LEMMA CreateTyped ==
    ASSUME CheckpointTypeOK,
           NEW id \in CheckpointId, NEW action \in Action, NEW ttl \in Ttl,
           NEW bound_params \in BoundParams \cup {None}, NEW now \in 0 .. clock,
           CreateCheckpoint(id, action, ttl, bound_params, now)
    PROVE  CheckpointTypeOK'
<1>1. ExpiresAt(ttl, now) \in Int \cup {None}
  BY CheckpointAssumption DEF ExpiresAt, CheckpointTypeOK
<1>2. [action |-> action, status |-> "pending", resolved_by |-> None,
       expires_at |-> ExpiresAt(ttl, now), bound_params |-> bound_params,
       consumed |-> FALSE] \in Checkpoint
  BY <1>1 DEF Checkpoint, CheckpointStatus
<1>3. QED
  BY <1>2 DEF CheckpointTypeOK, CreateCheckpoint

LEMMA ResolveTyped ==
    ASSUME CheckpointTypeOK,
           NEW id \in CheckpointId, NEW status \in {"approved", "rejected"},
           NEW human \in Approver,
           ResolveCheckpoint(id, status, human)
    PROVE  CheckpointTypeOK'
<1>1. checkpoints[id] \in Checkpoint
  BY DEF CheckpointTypeOK, ResolveCheckpoint, Exists
<1>2. [checkpoints[id] EXCEPT !.status = status, !.resolved_by = human] \in Checkpoint
  BY <1>1 DEF Checkpoint, CheckpointStatus
<1>3. checkpoints' = [checkpoints EXCEPT ![id] =
          [checkpoints[id] EXCEPT !.status = status, !.resolved_by = human]]
  BY <1>1 DEF CheckpointTypeOK, ResolveCheckpoint, Checkpoint
<1>4. QED
  BY <1>2, <1>3 DEF CheckpointTypeOK, ResolveCheckpoint

LEMMA ConsumeTyped ==
    ASSUME CheckpointTypeOK,
           NEW id \in CheckpointId, NEW action, NEW bound_params,
           ConsumeCheckpoint(id, action, bound_params)
    PROVE  CheckpointTypeOK'
<1>1. checkpoints[id] \in Checkpoint
  BY DEF CheckpointTypeOK, ConsumeCheckpoint, CanConsume, HasStatus, Exists
<1>2. [checkpoints[id] EXCEPT !.consumed = TRUE] \in Checkpoint
  BY <1>1 DEF Checkpoint
<1>3. QED
  BY <1>2 DEF CheckpointTypeOK, ConsumeCheckpoint

LEMMA SweepTyped ==
    ASSUME CheckpointTypeOK, SweepExpired
    PROVE  CheckpointTypeOK'
<1>1. ASSUME NEW id \in Expired
      PROVE  [checkpoints[id] EXCEPT !.status = "expired"] \in Checkpoint
  <2>1. checkpoints[id] \in Checkpoint
    BY <1>1 DEF CheckpointTypeOK, Expired, IsExpired, HasStatus, Exists
  <2>2. QED
    BY <2>1 DEF Checkpoint, CheckpointStatus
<1>2. QED
  BY <1>1 DEF CheckpointTypeOK, SweepExpired

LEMMA RecordCallTyped ==
    ASSUME PermissionTypeOK,
           NEW tool \in Tool, NEW level, NEW params \in Params,
           Permitted(tool, level, params),
           RecordCall(tool, params)
    PROVE  PermissionTypeOK'
<1>1. ASSUME NEW l \in ApplicableLimits(tool)
      PROVE  cumulative_used[l] + Amount[params] \in Int
  <2>1. Amount[params] \in Int
    BY <1>1, ToolAssumption DEF Permitted, WithinLimits
  <2>2. QED
    BY <1>1, <2>1 DEF PermissionTypeOK, ApplicableLimits
<1>2. cumulative_used' \in [LimitId -> Int]
  BY <1>1 DEF PermissionTypeOK, RecordCall
<1>3. call_counts' \in [Tool -> Nat]
  BY DEF PermissionTypeOK, RecordCall
<1>4. QED
  BY <1>2, <1>3 DEF PermissionTypeOK, RecordCall

-----------------------------------------------------------------------------
(* Type correctness.  The type invariant alone is not inductive: a step of *)
(* an invocation needs to know that its arguments are there, and that the  *)
(* tool steps are only reached with a tool, the spending step with a token.*)

Shaped(c) ==
    /\ pc[c] # "idle" => request[c] # None
    /\ pc[c] \in {"request", "direct", "consume", "permit"} => request[c].tool # None
    /\ pc[c] = "consume" => token[c] # None
    /\ pc[c] = "done" <=> outcome[c] # None

CallShape == \A c \in Call : Shaped(c)

OwnersStarted == \A e \in unlogged : e.call # None => pc[e.call] # "idle"

TypeInv == TypeOK /\ CallShape /\ OwnersStarted

LEMMA RequestTyped ==
    ASSUME TypeInv, NEW c \in Call, pc[c] # "idle"
    PROVE  /\ request[c] \in Request
           /\ request[c].action \in Action
           /\ request[c].level \in AutonomyLevel
           /\ request[c].tool \in Tool \cup {None}
           /\ request[c].params \in Params
           /\ request[c].ttl \in Ttl
           /\ BoundCall(request[c]) \in BoundParams
<1>1. request[c] \in Request
  BY DEF TypeInv, TypeOK, CallTypeOK, CallShape, Shaped
<1>2. QED
  BY <1>1, GovernorAssumption

(* Nobody goes back to idle, so the entries still owed keep their owners.  *)
Started == \A d \in Call : pc[d] # "idle" => pc'[d] # "idle"

LEMMA ContinueShaped ==
    ASSUME TypeInv, NEW c \in Call, NEW from, NEW to \in Step,
           from \in Step \ {"idle", "done"}, to \notin {"idle", "done"},
           Continue(c, from, to),
           to \in {"request", "direct", "consume", "permit"} => request[c].tool # None,
           to = "consume" => token[c] # None
    PROVE  CallTypeOK' /\ CallShape' /\ Started /\ pc'[c] # "idle"
BY DEF TypeInv, TypeOK, CallShape, Shaped, CallTypeOK, Continue, Goto, Started

LEMMA ReturnShaped ==
    ASSUME TypeInv, NEW c \in Call, NEW from, NEW result \in Outcome,
           from \in Step \ {"idle", "done"},
           Return(c, from, result)
    PROVE  CallTypeOK' /\ CallShape' /\ Started /\ pc'[c] # "idle"
<1>1. result # None
  BY OutcomeAssumption
<1>2. QED
  BY <1>1 DEF TypeInv, TypeOK, CallShape, Shaped, CallTypeOK, Return, Goto, Step, Started

LEMMA ResultTyped ==
    /\ \A reason \in Denial \cup {None}, exception \in Exception \cup {None} :
           Result(FALSE, None, reason, exception) \in Outcome
    /\ \A id \in CheckpointId : Result(FALSE, id, None, None) \in Outcome
    /\ Result(TRUE, None, None, None) \in Outcome
BY DEF Result, Outcome

LEMMA OwesTyped ==
    ASSUME TypeInv, NEW e \in Event, Owes(e), Started,
           e.call # None => pc'[e.call] # "idle"
    PROVE  RecordTypeOK' /\ OwnersStarted'
<1>1. RecordTypeOK'
  BY DEF TypeInv, TypeOK, RecordTypeOK, Owes
<1>2. ASSUME NEW f \in unlogged, f.call # None
      PROVE  pc'[f.call] # "idle"
  <2>1. f.call \in Call
    BY <1>2 DEF TypeInv, TypeOK, RecordTypeOK, Event
  <2>2. QED
    BY <1>2, <2>1 DEF TypeInv, OwnersStarted, Started
<1>3. QED
  BY <1>1, <1>2 DEF OwnersStarted, Owes

LEMMA RecordFrame ==
    ASSUME TypeInv, UNCHANGED unlogged, Started
    PROVE  OwnersStarted'
<1>1. ASSUME NEW f \in unlogged, f.call # None
      PROVE  pc'[f.call] # "idle"
  <2>1. f.call \in Call
    BY <1>1 DEF TypeInv, TypeOK, RecordTypeOK, Event
  <2>2. QED
    BY <1>1, <2>1 DEF TypeInv, OwnersStarted, Started
<1>2. QED
  BY <1>1 DEF OwnersStarted

(* A step that leaves the invocations and the record alone. *)
LEMMA CallFrame ==
    ASSUME TypeInv, UNCHANGED callVars, UNCHANGED recordVars
    PROVE  CallTypeOK' /\ CallShape' /\ RecordTypeOK' /\ OwnersStarted'
BY DEF TypeInv, TypeOK, CallTypeOK, RecordTypeOK, CallShape, Shaped,
       OwnersStarted, callVars, recordVars

(* A step of another actor that owes or logs an entry of no invocation.    *)
LEMMA ActorFrame ==
    ASSUME TypeInv, UNCHANGED callVars
    PROVE  CallTypeOK' /\ CallShape' /\ Started
BY DEF TypeInv, TypeOK, CallTypeOK, CallShape, Shaped, Started, callVars

LEMMA InitTyped == Init => TypeInv
<1> SUFFICES ASSUME Init PROVE TypeInv
  OBVIOUS
<1>1. CheckpointTypeOK
  BY CheckpointAssumption DEF Init, CheckpointInit, CheckpointTypeOK
<1>2. PermissionTypeOK
  BY GovernorAssumption DEF Init, PermissionTypeOK
<1>3. OtherTypeOK /\ RecordTypeOK
  <2>1. OtherTypeOK
    BY Zenon DEF Init, KillSwitchInit, OtherTypeOK, KillSwitchTypeOK
  <2>2. 0 \in 0 .. MaxFailures
    BY GovernorAssumption
  <2>3. RecordTypeOK
    BY <2>2 DEF Init, RecordTypeOK
  <2>4. QED
    BY <2>1, <2>3
<1>4. CallTypeOK
  BY DEF Init, CallTypeOK, Step
<1>5. CallShape /\ OwnersStarted
  BY DEF Init, CallShape, Shaped, OwnersStarted
<1>6. QED
  BY <1>1, <1>2, <1>3, <1>4, <1>5 DEF TypeInv, TypeOK

(* The frames of the components no step of evaluate_action changes.        *)
LEMMA ComponentFrame ==
    ASSUME TypeInv
    PROVE  /\ UNCHANGED checkpointVars => CheckpointTypeOK'
           /\ UNCHANGED permissionVars => PermissionTypeOK'
           /\ UNCHANGED otherVars => OtherTypeOK'
<1>1. UNCHANGED checkpointVars => CheckpointTypeOK'
  BY DEF TypeInv, TypeOK, CheckpointTypeOK, checkpointVars
<1>2. UNCHANGED permissionVars => PermissionTypeOK'
  BY DEF TypeInv, TypeOK, PermissionTypeOK, permissionVars
<1>3. UNCHANGED otherVars => OtherTypeOK'
  BY DEF TypeInv, TypeOK, OtherTypeOK, KillSwitchTypeOK, otherVars
<1>4. QED
  BY <1>1, <1>2, <1>3

LEMMA BeginTyped ==
    ASSUME TypeInv, NEW c \in Call, Begin(c) \/ BeginDirect(c)
    PROVE  TypeInv'
<1>1. CallTypeOK' /\ CallShape' /\ Started
  <2>1. CASE Begin(c)
    BY <2>1, GovernorAssumption
    DEF TypeInv, TypeOK, CallTypeOK, CallShape, Shaped, Started, Begin, Step
  <2>2. CASE BeginDirect(c)
    BY <2>2, GovernorAssumption
    DEF TypeInv, TypeOK, CallTypeOK, CallShape, Shaped, Started, BeginDirect, Step
  <2>3. QED
    BY <2>1, <2>2
<1>2. CheckpointTypeOK' /\ PermissionTypeOK'
  BY ComponentFrame DEF Begin, BeginDirect
<1>3. OtherTypeOK'
  BY DEF TypeInv, TypeOK, OtherTypeOK, KillSwitchTypeOK, Begin, BeginDirect, otherVars
<1>4. RecordTypeOK' /\ UNCHANGED unlogged
  BY DEF TypeInv, TypeOK, RecordTypeOK, Begin, BeginDirect, recordVars
<1>5. QED
  BY <1>1, <1>2, <1>3, <1>4, RecordFrame DEF TypeInv, TypeOK

LEMMA KillSwitchTyped ==
    ASSUME TypeInv, NEW c \in Call, CheckKillSwitch(c)
    PROVE  TypeInv'
<1>1. CallTypeOK' /\ CallShape' /\ Started
  BY ContinueShaped, ReturnShaped, ResultTyped
  DEF CheckKillSwitch, Raise, Step, Exception
<1>2. QED
  BY <1>1, ComponentFrame, RecordFrame
  DEF CheckKillSwitch, TypeInv, TypeOK, RecordTypeOK, recordVars

LEMMA AuthorityTyped ==
    ASSUME TypeInv, NEW c \in Call, CheckAuthority(c)
    PROVE  TypeInv'
<1>1. CASE Continue(c, "authority", "policy") /\ UNCHANGED recordVars
  <2>1. CallTypeOK' /\ CallShape' /\ Started
    BY <1>1, ContinueShaped DEF Step
  <2>2. QED
    BY <1>1, <2>1, ComponentFrame, RecordFrame
    DEF CheckAuthority, TypeInv, TypeOK, RecordTypeOK, recordVars
<1>2. CASE /\ Deny(c, "authority", "authority")
           /\ Owes(EventOf("authority_not_current", c, None))
  <2>1. CallTypeOK' /\ CallShape' /\ Started /\ pc'[c] # "idle"
    BY <1>2, ReturnShaped, ResultTyped DEF Deny, Step, Denial
  <2>2. EventOf("authority_not_current", c, None) \in Event
    BY DEF EventOf, Event, EventType
  <2>3. RecordTypeOK' /\ OwnersStarted'
    BY <1>2, <2>1, <2>2, OwesTyped DEF EventOf
  <2>4. QED
    BY <2>1, <2>3, ComponentFrame DEF CheckAuthority, TypeInv, TypeOK
<1>3. QED
  BY <1>1, <1>2 DEF CheckAuthority

LEMMA PolicyTyped ==
    ASSUME TypeInv, NEW c \in Call, EvaluatePolicy(c)
    PROVE  TypeInv'
<1> DEFINE r == request[c]
           decision == Evaluate(Rules, r.action, r.confidence, EffectiveLevel(r))
<1>1. CASE Raise(c, "policy", "confidence") /\ UNCHANGED recordVars
  <2>1. CallTypeOK' /\ CallShape' /\ Started
    BY <1>1, ReturnShaped, ResultTyped DEF Raise, Step, Exception
  <2>2. QED
    BY <1>1, <2>1, ComponentFrame, RecordFrame
    DEF EvaluatePolicy, TypeInv, TypeOK, RecordTypeOK, recordVars
<1>2. CASE /\ \/ decision = "block" /\ Deny(c, "policy", "policy")
              \/ decision = "require_approval" /\ Continue(c, "policy", "create")
              \/ decision = "allow" /\ Continue(c, "policy", "tool")
           /\ Owes(EventOf("policy_decision", c, decision))
  <2> HIDE DEF decision
  <2>1. CallTypeOK' /\ CallShape' /\ Started /\ pc'[c] # "idle"
    BY <1>2, ContinueShaped, ReturnShaped, ResultTyped DEF Deny, Step, Denial
  <2>2. EventOf("policy_decision", c, decision) \in Event
    BY <1>2 DEF EventOf, Event, EventType, Decision
  <2>3. RecordTypeOK' /\ OwnersStarted'
    BY <1>2, <2>1, <2>2, OwesTyped DEF EventOf
  <2>4. QED
    BY <2>1, <2>3, ComponentFrame DEF EvaluatePolicy, TypeInv, TypeOK
<1>3. QED
  BY <1>1, <1>2 DEF EvaluatePolicy

LEMMA CreateAndReturnTyped ==
    ASSUME TypeInv, NEW c \in Call, NEW from, from \in Step \ {"idle", "done"},
           NEW bound_params \in BoundParams \cup {None},
           CreateAndReturn(c, from, bound_params)
    PROVE  TypeInv'
<1>1. pc[c] = from
  BY DEF CreateAndReturn, Return, Goto
<1>2. c \in CheckpointId
  BY GovernorAssumption
<1>3. CheckpointTypeOK'
  <2>1. PICK now \in 0 .. clock :
            CreateCheckpoint(c, request[c].action, request[c].ttl, bound_params, now)
    BY DEF CreateAndReturn
  <2>2. request[c].action \in Action /\ request[c].ttl \in Ttl
    BY <1>1, RequestTyped
  <2>3. CheckpointTypeOK
    BY DEF TypeInv, TypeOK
  <2>4. QED
    BY <1>2, <2>1, <2>2, <2>3, CreateTyped
<1>4. CallTypeOK' /\ CallShape' /\ Started /\ pc'[c] # "idle"
  BY <1>2, ReturnShaped, ResultTyped DEF CreateAndReturn
<1>5. EventOf("created", c, c) \in Event
  BY <1>2 DEF EventOf, Event, EventType
<1>6. RecordTypeOK' /\ OwnersStarted'
  BY <1>4, <1>5, OwesTyped DEF CreateAndReturn, EventOf
<1>7. QED
  BY <1>3, <1>4, <1>6, ComponentFrame DEF CreateAndReturn, TypeInv, TypeOK

LEMMA ThresholdTyped ==
    ASSUME TypeInv, NEW c \in Call, CheckThreshold(c)
    PROVE  TypeInv'
<1>1. CASE request[c].tool = None /\ Return(c, "tool", Result(TRUE, None, None, None))
  <2>1. CallTypeOK' /\ CallShape' /\ Started
    BY <1>1, ReturnShaped, ResultTyped DEF Step
  <2>2. QED
    BY <2>1, ComponentFrame, RecordFrame
    DEF CheckThreshold, TypeInv, TypeOK, RecordTypeOK, recordVars
<1>2. CASE /\ request[c].tool # None
           /\ \/ Continue(c, "tool", "permit")
              \/ Continue(c, "tool", "request")
              \/ token[c] # None /\ Continue(c, "tool", "consume")
  <2>1. CallTypeOK' /\ CallShape' /\ Started
    BY <1>2, ContinueShaped DEF Step
  <2>2. QED
    BY <2>1, ComponentFrame, RecordFrame
    DEF CheckThreshold, TypeInv, TypeOK, RecordTypeOK, recordVars
<1>3. QED
  BY <1>1, <1>2 DEF CheckThreshold

LEMMA RequestApprovalTyped ==
    ASSUME TypeInv, NEW c \in Call, RequestApproval(c)
    PROVE  TypeInv'
<1>1. pc[c] \in {"request", "direct"}
  BY DEF RequestApproval
<1>2. CASE CreateAndReturn(c, pc[c], BoundCall(request[c]))
  <2>1. BoundCall(request[c]) \in BoundParams
    BY <1>1, RequestTyped
  <2>2. QED
    BY <1>1, <1>2, <2>1, CreateAndReturnTyped DEF Step
<1>3. CASE /\ \/ Return(c, "request", Result(FALSE, None, None, None))
              \/ Return(c, "direct", Result(FALSE, None, "not_required", None))
           /\ UNCHANGED <<checkpointVars, permissionVars, otherVars, recordVars>>
  <2>1. CallTypeOK' /\ CallShape' /\ Started
    BY <1>3, ReturnShaped, ResultTyped DEF Step, Denial
  <2>2. QED
    BY <1>3, <2>1, ComponentFrame, RecordFrame
    DEF TypeInv, TypeOK, RecordTypeOK, recordVars
<1>4. QED
  BY <1>2, <1>3 DEF RequestApproval

LEMMA ConsumeApprovalTyped ==
    ASSUME TypeInv, NEW c \in Call, ConsumeApproval(c)
    PROVE  TypeInv'
<1>1. pc[c] = "consume"
  BY DEF ConsumeApproval
<1>2. token[c] \in CheckpointId /\ request[c].tool # None
  BY <1>1 DEF TypeInv, TypeOK, CallTypeOK, CallShape, Shaped
<1>3. CASE /\ ConsumeCheckpoint(token[c], request[c].action, BoundCall(request[c]))
           /\ Continue(c, "consume", "permit")
           /\ Owes(EventOf("consumed", c, token[c]))
  <2>1. CheckpointTypeOK'
    <3>1. CheckpointTypeOK
      BY DEF TypeInv, TypeOK
    <3>2. QED
      BY <1>2, <1>3, <3>1, ConsumeTyped
  <2>2. CallTypeOK' /\ CallShape' /\ Started /\ pc'[c] # "idle"
    BY <1>2, <1>3, ContinueShaped DEF Step
  <2>3. EventOf("consumed", c, token[c]) \in Event
    BY <1>2 DEF EventOf, Event, EventType
  <2>4. RecordTypeOK' /\ OwnersStarted'
    BY <1>3, <2>2, <2>3, OwesTyped DEF EventOf
  <2>5. QED
    BY <2>1, <2>2, <2>4, ComponentFrame DEF ConsumeApproval, TypeInv, TypeOK
<1>4. CASE Deny(c, "consume", "approval") /\ UNCHANGED <<checkpointVars, recordVars>>
  <2>1. CallTypeOK' /\ CallShape' /\ Started
    BY <1>4, ReturnShaped, ResultTyped DEF Deny, Step, Denial
  <2>2. QED
    BY <1>4, <2>1, ComponentFrame, RecordFrame
    DEF ConsumeApproval, TypeInv, TypeOK, RecordTypeOK, recordVars
<1>5. QED
  BY <1>3, <1>4 DEF ConsumeApproval

(* An append that raises adds its entry or nothing.                        *)
LEMMA FailsGrows ==
    ASSUME NEW e, Fails(e)
    PROVE  audit \subseteq audit' /\ audit' \subseteq audit \cup {e}
BY DEF Fails

LEMMA LogsGrows ==
    ASSUME NEW e, LogsOrFails(e)
    PROVE  /\ UNCHANGED unlogged
           /\ audit \subseteq audit' /\ audit' \subseteq audit \cup {e}
BY DEF LogsOrFails, Logs, Fails

(* An entry written in the critical section that decided on it.            *)
LEMMA LogsOrFailsTyped ==
    ASSUME TypeInv, NEW e \in Event, LogsOrFails(e)
    PROVE  RecordTypeOK' /\ UNCHANGED unlogged
<1>1. CASE Logs(e)
  BY <1>1 DEF TypeInv, TypeOK, RecordTypeOK, Logs
<1>2. CASE Fails(e) /\ UNCHANGED unlogged
  BY <1>2, GovernorAssumption DEF TypeInv, TypeOK, RecordTypeOK, Fails
<1>3. QED
  BY <1>1, <1>2 DEF LogsOrFails

LEMMA RecordTyped ==
    ASSUME TypeInv, NEW c \in Call, CheckAndRecord(c)
    PROVE  TypeInv'
<1> DEFINE denied == EventOf("tool_call_denied", c, None)
<1>1. pc[c] = "permit"
  BY DEF CheckAndRecord
<1>2. request[c].tool \in Tool /\ request[c].params \in Params
  BY <1>1, RequestTyped DEF TypeInv, CallShape, Shaped
<1>3. CASE /\ Permitted(request[c].tool, EffectiveLevel(request[c]), request[c].params)
           /\ RecordCall(request[c].tool, request[c].params)
           /\ Return(c, "permit", Result(TRUE, None, None, None))
           /\ Owes(EventOf("tool_call_allowed", c, None))
  <2>1. PermissionTypeOK'
    <3>1. PermissionTypeOK
      BY DEF TypeInv, TypeOK
    <3>2. QED
      BY <1>2, <1>3, <3>1, RecordCallTyped
  <2>2. CallTypeOK' /\ CallShape' /\ Started /\ pc'[c] # "idle"
    BY <1>3, ReturnShaped, ResultTyped DEF Step
  <2>3. EventOf("tool_call_allowed", c, None) \in Event
    BY DEF EventOf, Event, EventType
  <2>4. RecordTypeOK' /\ OwnersStarted'
    BY <1>3, <2>2, <2>3, OwesTyped DEF EventOf
  <2>5. QED
    BY <2>1, <2>2, <2>4, ComponentFrame DEF CheckAndRecord, TypeInv, TypeOK
<1>4. CASE /\ LogsOrFails(denied)
           /\ Deny(c, "permit", "permission") \/ Raise(c, "permit", "audit")
           /\ UNCHANGED permissionVars
  <2>1. CallTypeOK' /\ CallShape' /\ Started
    BY <1>4, ReturnShaped, ResultTyped DEF Deny, Raise, Step, Denial, Exception
  <2>2. denied \in Event
    BY DEF EventOf, Event, EventType
  <2> HIDE DEF denied
  <2>3. RecordTypeOK' /\ OwnersStarted'
    BY <1>4, <2>1, <2>2, LogsOrFailsTyped, RecordFrame
  <2>4. QED
    BY <1>4, <2>1, <2>3, ComponentFrame DEF CheckAndRecord, TypeInv, TypeOK
<1>5. QED
  BY <1>3, <1>4 DEF CheckAndRecord, LogsOrFails

LEMMA AppendTyped ==
    ASSUME TypeInv, NEW e \in unlogged, AppendEntry(e)
    PROVE  TypeInv'
<1>1. CallTypeOK' /\ CallShape' /\ UNCHANGED pc
  BY ActorFrame DEF AppendEntry, callVars
<1>2. RecordTypeOK' /\ OwnersStarted'
  BY <1>1 DEF TypeInv, TypeOK, RecordTypeOK, OwnersStarted, AppendEntry
<1>3. QED
  BY <1>1, <1>2, ComponentFrame DEF AppendEntry, TypeInv, TypeOK

LEMMA AppendFailsTyped ==
    ASSUME TypeInv, NEW e \in unlogged, AppendFails(e)
    PROVE  TypeInv'
<1> DEFINE raised == Result(FALSE, None, None, "audit")
<1>1. e \in Event /\ raised \in Outcome /\ raised # None
  BY ResultTyped, OutcomeAssumption
  DEF TypeInv, TypeOK, RecordTypeOK, Exception
<1>2. unlogged' \subseteq unlogged
  BY DEF AppendFails
<1>3. RecordTypeOK'
  BY <1>1, <1>2, GovernorAssumption DEF TypeInv, TypeOK, RecordTypeOK, AppendFails, Fails
<1> HIDE DEF raised
<1>4. CallTypeOK' /\ CallShape' /\ Started
  <2>1. CASE e.call = None
    BY <2>1, ActorFrame DEF AppendFails, callVars
  <2>2. CASE e.call # None
    <3>1. e.call \in Call /\ pc[e.call] # "idle"
      BY <1>1, <2>2 DEF Event, TypeInv, OwnersStarted
    <3>2. /\ pc' = [pc EXCEPT ![e.call] = "done"]
          /\ outcome' = [outcome EXCEPT ![e.call] = raised]
          /\ UNCHANGED <<request, token>>
      BY <2>2 DEF AppendFails, raised
    <3>3. QED
      BY <1>1, <3>1, <3>2
      DEF TypeInv, TypeOK, CallTypeOK, CallShape, Shaped, Started, Step
  <2>3. QED
    BY <2>1, <2>2
<1>5. OwnersStarted'
  <2>1. ASSUME NEW f \in unlogged', f.call # None
        PROVE  pc'[f.call] # "idle"
    <3>1. f \in unlogged /\ f.call \in Call
      BY <1>2, <2>1 DEF TypeInv, TypeOK, RecordTypeOK, Event
    <3>2. QED
      BY <1>4, <2>1, <3>1 DEF TypeInv, OwnersStarted, Started
  <2>2. QED
    BY <2>1 DEF OwnersStarted
<1>6. QED
  BY <1>3, <1>4, <1>5, ComponentFrame DEF AppendFails, TypeInv, TypeOK

LEMMA ResolveByTyped ==
    ASSUME TypeInv, NEW id \in CheckpointId, NEW status \in {"approved", "rejected"},
           NEW human \in Approver, ResolveBy(id, status, human)
    PROVE  TypeInv'
<1>1. CheckpointTypeOK'
  <2>1. CheckpointTypeOK
    BY DEF TypeInv, TypeOK
  <2>2. QED
    BY <2>1, ResolveTyped DEF ResolveBy
<1>2. CallTypeOK' /\ CallShape' /\ Started
  BY ActorFrame DEF ResolveBy
<1>3. EventOf(status, None, id) \in Event
  BY DEF EventOf, Event, EventType
<1>4. RecordTypeOK' /\ OwnersStarted'
  BY <1>2, <1>3, OwesTyped DEF ResolveBy, EventOf
<1>5. QED
  BY <1>1, <1>2, <1>4, ComponentFrame DEF ResolveBy, TypeInv, TypeOK

LEMMA SweepStepTyped ==
    ASSUME TypeInv, Sweep
    PROVE  TypeInv'
<1>1. CheckpointTypeOK'
  BY SweepTyped DEF Sweep, TypeInv, TypeOK
<1>2. CallTypeOK' /\ CallShape' /\ UNCHANGED pc
  BY ActorFrame DEF Sweep, callVars
<1>3. \A id \in Expired : EventOf("expired", None, id) \in Event
  BY DEF EventOf, Event, EventType, Expired
<1>4. RecordTypeOK'
  BY <1>3 DEF Sweep, TypeInv, TypeOK, RecordTypeOK
<1>5. OwnersStarted'
  BY <1>2 DEF Sweep, TypeInv, OwnersStarted, EventOf
<1>6. QED
  BY <1>1, <1>2, <1>4, <1>5, ComponentFrame DEF Sweep, TypeInv, TypeOK

LEMMA OperatorTyped ==
    ASSUME TypeInv, Engage \/ Clear
    PROVE  TypeInv'
<1>1. CallTypeOK' /\ CallShape' /\ Started
  BY ActorFrame DEF Engage, Clear
<1>2. /\ EventOf("kill_switch_engaged", None, None) \in Event
      /\ EventOf("kill_switch_cleared", None, None) \in Event
  BY DEF EventOf, Event, EventType
<1>3. RecordTypeOK' /\ OwnersStarted'
  BY <1>1, <1>2, LogsOrFailsTyped, RecordFrame DEF Engage, Clear
<1>4. OtherTypeOK'
  BY Zenon DEF Engage, Clear, EngageSwitch, ClearSwitch, TypeInv, TypeOK,
               OtherTypeOK, KillSwitchTypeOK
<1>5. QED
  BY <1>1, <1>3, <1>4, ComponentFrame DEF Engage, Clear, TypeInv, TypeOK

LEMMA RevokeTyped ==
    ASSUME TypeInv, RevokeAuthority
    PROVE  TypeInv'
<1>1. OtherTypeOK'
  BY DEF RevokeAuthority, TypeInv, TypeOK, OtherTypeOK, KillSwitchTypeOK
<1>2. QED
  BY <1>1, CallFrame, ComponentFrame DEF RevokeAuthority, TypeInv, TypeOK

LEMMA RegistryTyped ==
    ASSUME TypeInv,
           NewSession \/ \E choice \in ScopeChoices : Reregister(choice[1], choice[2])
    PROVE  TypeInv'
<1>1. CASE NewSession
  <2>1. PermissionTypeOK'
    BY <1>1 DEF NewSession, ResetSession, TypeInv, TypeOK, PermissionTypeOK
  <2>2. QED
    BY <1>1, <2>1, CallFrame, ComponentFrame DEF NewSession, TypeInv, TypeOK
<1>2. ASSUME NEW choice \in ScopeChoices, Reregister(choice[1], choice[2])
      PROVE  TypeInv'
  <2>1. choice[1] \in Tool /\ choice[2] \in ToolScope
    BY <1>2, GovernorAssumption
  <2>2. PermissionTypeOK'
    BY <1>2, <2>1 DEF Reregister, Register, TypeInv, TypeOK, PermissionTypeOK
  <2>3. QED
    BY <1>2, <2>2, CallFrame, ComponentFrame DEF Reregister, TypeInv, TypeOK
<1>3. QED
  BY <1>1, <1>2

LEMMA TimeTyped ==
    ASSUME TypeInv, TimePasses
    PROVE  TypeInv'
<1>1. CheckpointTypeOK'
  BY CheckpointAssumption DEF TimePasses, Tick, TypeInv, TypeOK, CheckpointTypeOK
<1>2. QED
  BY <1>1, CallFrame, ComponentFrame DEF TimePasses, TypeInv, TypeOK

LEMMA TypeNext ==
    ASSUME TypeInv, [Next]_vars
    PROVE  TypeInv'
<1>1. ASSUME NEW c \in Call, CallStep(c)
      PROVE  TypeInv'
  <2>1. CASE Begin(c) \/ BeginDirect(c)
    BY <2>1, BeginTyped
  <2>2. CASE CheckKillSwitch(c)
    BY <2>2, KillSwitchTyped
  <2>3. CASE CheckAuthority(c)
    BY <2>3, AuthorityTyped
  <2>4. CASE EvaluatePolicy(c)
    BY <2>4, PolicyTyped
  <2>5. CASE CreateForPolicy(c)
    BY <2>5, CreateAndReturnTyped DEF CreateForPolicy, Step
  <2>6. CASE CheckThreshold(c)
    BY <2>6, ThresholdTyped
  <2>7. CASE RequestApproval(c)
    BY <2>7, RequestApprovalTyped
  <2>8. CASE ConsumeApproval(c)
    BY <2>8, ConsumeApprovalTyped
  <2>9. CASE CheckAndRecord(c)
    BY <2>9, RecordTyped
  <2>10. QED
    BY <1>1, <2>1, <2>2, <2>3, <2>4, <2>5, <2>6, <2>7, <2>8, <2>9 DEF CallStep
<1>2. ASSUME NEW e \in unlogged, AppendEntry(e) \/ AppendFails(e)
      PROVE  TypeInv'
  BY <1>2, AppendTyped, AppendFailsTyped
<1>3. CASE Environment
  BY <1>3, ResolveByTyped, SweepStepTyped, OperatorTyped, RevokeTyped,
     RegistryTyped, TimeTyped
  DEF Environment
<1>4. CASE UNCHANGED vars
  BY <1>4, CallFrame, ComponentFrame DEF vars, TypeInv, TypeOK
<1>5. QED
  BY <1>1, <1>2, <1>3, <1>4 DEF Next

(* Whatever the actors do, in whatever order and with whatever append      *)
(* failing, every variable keeps the shape the code gives it.              *)
THEOREM TypeCorrect == Spec => []TypeOK
<1>1. Init => TypeInv
  BY InitTyped
<1>2. TypeInv /\ [Next]_vars => TypeInv'
  BY TypeNext
<1>3. TypeInv => TypeOK
  BY DEF TypeInv
<1>4. QED
  BY <1>1, <1>2, <1>3, PTL DEF Spec

-----------------------------------------------------------------------------
(* What a step may do to the checkpoints: none disappears, what it is      *)
(* bound to never changes, a spent one stays spent and a human's approval  *)
(* is never taken back.                                                    *)

Keeps(id) ==
    Exists(id) =>
        /\ checkpoints'[id] # None
        /\ checkpoints'[id].action = checkpoints[id].action
        /\ checkpoints'[id].bound_params = checkpoints[id].bound_params
        /\ checkpoints[id].consumed => checkpoints'[id].consumed
        /\ checkpoints[id].status = "approved" => checkpoints'[id].status = "approved"

CheckpointsKept == \A id \in CheckpointId : Keeps(id)

LEMMA CreateKeeps ==
    ASSUME CheckpointTypeOK,
           NEW id \in CheckpointId, NEW action, NEW ttl, NEW bound_params, NEW now,
           CreateCheckpoint(id, action, ttl, bound_params, now)
    PROVE  CheckpointsKept
BY DEF CheckpointTypeOK, CreateCheckpoint, CheckpointsKept, Keeps, Exists

LEMMA ResolveKeeps ==
    ASSUME CheckpointTypeOK,
           NEW id \in CheckpointId, NEW status \in {"approved", "rejected"},
           NEW human \in Approver, ResolveCheckpoint(id, status, human)
    PROVE  CheckpointsKept
<1>1. CheckpointTypeOK'
  BY ResolveTyped
<1>2. checkpoints[id] \in Checkpoint /\ checkpoints[id].status = "pending"
  BY DEF CheckpointTypeOK, ResolveCheckpoint, IsResolved, Exists
<1>3. checkpoints' = [checkpoints EXCEPT ![id] =
          [checkpoints[id] EXCEPT !.status = status, !.resolved_by = human]]
  BY <1>2 DEF CheckpointTypeOK, ResolveCheckpoint, Checkpoint
<1>4. [checkpoints[id] EXCEPT !.status = status, !.resolved_by = human] \in Checkpoint
  BY <1>2 DEF Checkpoint, CheckpointStatus
<1>5. QED
  BY <1>2, <1>3, <1>4, AbsenceAssumption
  DEF CheckpointTypeOK, CheckpointsKept, Keeps, Exists, Checkpoint

LEMMA ConsumeKeeps ==
    ASSUME CheckpointTypeOK,
           NEW id \in CheckpointId, NEW action, NEW bound_params,
           ConsumeCheckpoint(id, action, bound_params)
    PROVE  CheckpointsKept
<1>1. checkpoints[id] \in Checkpoint
  BY DEF CheckpointTypeOK, ConsumeCheckpoint, CanConsume, HasStatus, Exists
<1>2. [checkpoints[id] EXCEPT !.consumed = TRUE] \in Checkpoint
  BY <1>1 DEF Checkpoint
<1>3. QED
  BY <1>1, <1>2, AbsenceAssumption
  DEF CheckpointTypeOK, ConsumeCheckpoint, CheckpointsKept, Keeps, Exists, Checkpoint

LEMMA SweepKeeps ==
    ASSUME CheckpointTypeOK, SweepExpired
    PROVE  CheckpointsKept
<1>1. ASSUME NEW id \in CheckpointId, Exists(id)
      PROVE  Keeps(id)
  <2>1. checkpoints[id] \in Checkpoint
    BY <1>1 DEF CheckpointTypeOK, Exists
  <2>2. [checkpoints[id] EXCEPT !.status = "expired"] \in Checkpoint
    BY <2>1 DEF Checkpoint, CheckpointStatus
  <2>3. CASE id \in Expired
    <3>1. checkpoints[id].status = "pending"
      BY <2>3 DEF Expired, IsExpired, HasStatus
    <3>2. checkpoints'[id] = [checkpoints[id] EXCEPT !.status = "expired"]
      BY <2>3 DEF SweepExpired
    <3>3. QED
      BY <2>1, <2>2, <3>1, <3>2, AbsenceAssumption DEF Keeps, Checkpoint
  <2>4. CASE id \notin Expired
    BY <1>1, <2>4 DEF SweepExpired, Keeps, Exists
  <2>5. QED
    BY <2>3, <2>4
<1>2. QED
  BY <1>1 DEF CheckpointsKept, Keeps

LEMMA StutterKeeps ==
    ASSUME UNCHANGED checkpoints
    PROVE  CheckpointsKept
BY DEF CheckpointsKept, Keeps, Exists

LEMMA NextKeeps ==
    ASSUME TypeInv, [Next]_vars
    PROVE  CheckpointsKept
<1>1. CheckpointTypeOK
  BY DEF TypeInv, TypeOK
<1>2. ASSUME NEW c \in Call, NEW from, NEW bound_params,
             CreateAndReturn(c, from, bound_params)
      PROVE  CheckpointsKept
  <2>1. c \in CheckpointId
    BY GovernorAssumption
  <2>2. PICK now \in 0 .. clock :
            CreateCheckpoint(c, request[c].action, request[c].ttl, bound_params, now)
    BY <1>2 DEF CreateAndReturn
  <2>3. QED
    BY <1>1, <2>1, <2>2, CreateKeeps
<1>3. ASSUME NEW c \in Call, CallStep(c)
      PROVE  CheckpointsKept
  <2>1. CASE CreateForPolicy(c) \/ RequestApproval(c)
    BY <1>2, <2>1, StutterKeeps DEF CreateForPolicy, RequestApproval, checkpointVars
  <2>2. CASE ConsumeApproval(c)
    <3>1. token[c] \in CheckpointId
      BY <2>2 DEF ConsumeApproval, TypeInv, TypeOK, CallTypeOK, CallShape, Shaped
    <3>2. QED
      BY <1>1, <2>2, <3>1, ConsumeKeeps, StutterKeeps DEF ConsumeApproval, checkpointVars
  <2>3. CASE \/ Begin(c) \/ BeginDirect(c) \/ CheckKillSwitch(c) \/ CheckAuthority(c)
             \/ EvaluatePolicy(c) \/ CheckThreshold(c) \/ CheckAndRecord(c)
    BY <2>3, StutterKeeps
    DEF Begin, BeginDirect, CheckKillSwitch, CheckAuthority, EvaluatePolicy,
        CheckThreshold, CheckAndRecord, checkpointVars
  <2>4. QED
    BY <1>3, <2>1, <2>2, <2>3 DEF CallStep
<1>4. ASSUME NEW e \in unlogged, AppendEntry(e) \/ AppendFails(e)
      PROVE  CheckpointsKept
  BY <1>4, StutterKeeps DEF AppendEntry, AppendFails, checkpointVars
<1>5. CASE Environment
  <2>1. ASSUME NEW id \in CheckpointId, NEW human \in Approver,
               NEW status \in {"approved", "rejected"}, ResolveBy(id, status, human)
        PROVE  CheckpointsKept
    BY <1>1, <2>1, ResolveKeeps DEF ResolveBy
  <2>2. CASE Sweep
    BY <1>1, <2>2, SweepKeeps DEF Sweep
  <2>3. CASE \/ Engage \/ Clear \/ RevokeAuthority \/ NewSession \/ TimePasses
             \/ \E choice \in ScopeChoices : Reregister(choice[1], choice[2])
    BY <2>3, StutterKeeps
    DEF Engage, Clear, RevokeAuthority, NewSession, TimePasses, Tick, Reregister,
        checkpointVars
  <2>4. QED
    BY <1>5, <2>1, <2>2, <2>3 DEF Environment
<1>6. CASE UNCHANGED vars
  BY <1>6, StutterKeeps DEF vars, checkpointVars
<1>7. QED
  BY <1>3, <1>4, <1>5, <1>6 DEF Next

-----------------------------------------------------------------------------
(* Single use.  What the log, or an invocation that still has to write it, *)
(* says was consumed is consumed, so the store lets nobody consume it      *)
(* again: the invariant relates the two ends of the window between the     *)
(* release of the store's lock and the append.                             *)

Log == unlogged \cup audit

ConsumedOnRecord ==
    \A e \in Log : e.type = "consumed" =>
        /\ e.about \in CheckpointId
        /\ Exists(e.about)
        /\ checkpoints[e.about].consumed

Spends(c) ==
    /\ ConsumeCheckpoint(token[c], request[c].action, BoundCall(request[c]))
    /\ Continue(c, "consume", "permit")

NoneSpent == \A e \in Log' : e.type = "consumed" => e \in Log

(* Every consumed entry is old or that of the one approval a step spends.  *)
LEMMA ConsumedWritten ==
    ASSUME TypeInv, [Next]_vars
    PROVE  \/ NoneSpent
           \/ \E c \in Call :
                  /\ Spends(c)
                  /\ \A e \in Log' : e.type = "consumed" =>
                         e \in Log \/ e = EventOf("consumed", c, token[c])
<1>1. ASSUME NEW f, Owes(f) \/ LogsOrFails(f), f.type # "consumed"
      PROVE  NoneSpent
  BY <1>1, LogsGrows DEF NoneSpent, Owes, Log
<1>2. ASSUME UNCHANGED recordVars
      PROVE  NoneSpent
  BY <1>2 DEF NoneSpent, recordVars, Log
<1>3. ASSUME NEW c \in Call, CallStep(c), ~ConsumeApproval(c)
      PROVE  NoneSpent
  <2>1. CASE \/ Begin(c) \/ BeginDirect(c) \/ CheckKillSwitch(c) \/ CheckThreshold(c)
    BY <1>2, <2>1 DEF Begin, BeginDirect, CheckKillSwitch, CheckThreshold
  <2>2. CASE \/ CheckAuthority(c) \/ EvaluatePolicy(c)
    BY <1>1, <1>2, <2>2 DEF CheckAuthority, EvaluatePolicy, EventOf
  <2>3. CASE \/ CreateForPolicy(c) \/ RequestApproval(c)
    BY <1>1, <1>2, <2>3 DEF CreateForPolicy, RequestApproval, CreateAndReturn, EventOf
  <2>4. CASE CheckAndRecord(c)
    <3>1. \E type : /\ type # "consumed"
                    /\ \/ Owes(EventOf(type, c, None))
                       \/ LogsOrFails(EventOf(type, c, None))
      BY <2>4 DEF CheckAndRecord, LogsOrFails
    <3>2. QED
      BY <1>1, <3>1 DEF EventOf
  <2>5. QED
    BY <1>3, <2>1, <2>2, <2>3, <2>4 DEF CallStep
<1>4. ASSUME NEW c \in Call, ConsumeApproval(c)
      PROVE  \/ NoneSpent
             \/ /\ Spends(c)
                /\ \A e \in Log' : e.type = "consumed" =>
                       e \in Log \/ e = EventOf("consumed", c, token[c])
  BY <1>2, <1>4 DEF ConsumeApproval, Spends, Owes, Log
<1>5. ASSUME NEW e \in unlogged, AppendEntry(e) \/ AppendFails(e)
      PROVE  NoneSpent
  BY <1>5, FailsGrows DEF NoneSpent, AppendEntry, AppendFails, Log
<1>6. CASE Environment
  <2>1. ASSUME NEW id \in CheckpointId, NEW human \in Approver,
               NEW status \in {"approved", "rejected"}, ResolveBy(id, status, human)
        PROVE  NoneSpent
    BY <1>1, <2>1 DEF ResolveBy, EventOf
  <2>2. CASE Sweep
    BY <2>2 DEF NoneSpent, Sweep, EventOf, Log
  <2>3. CASE Engage \/ Clear
    BY <1>1, <2>3 DEF Engage, Clear, EventOf
  <2>4. CASE \/ RevokeAuthority \/ NewSession \/ TimePasses
             \/ \E choice \in ScopeChoices : Reregister(choice[1], choice[2])
    BY <1>2, <2>4 DEF RevokeAuthority, NewSession, TimePasses, Reregister
  <2>5. QED
    BY <1>6, <2>1, <2>2, <2>3, <2>4 DEF Environment
<1>7. CASE UNCHANGED vars
  BY <1>2, <1>7 DEF vars
<1>8. CASE \E c \in Call : ConsumeApproval(c)
  BY <1>4, <1>8
<1>9. CASE ~\E c \in Call : ConsumeApproval(c)
  BY <1>3, <1>5, <1>6, <1>7, <1>9 DEF Next
<1>10. QED
  BY <1>8, <1>9

SpentInv == TypeInv /\ ConsumedOnRecord /\ ApprovalSpentOnce

LEMMA SpentNext ==
    ASSUME SpentInv, [Next]_vars
    PROVE  SpentInv'
<1>1. TypeInv /\ TypeInv'
  BY TypeNext DEF SpentInv
<1>2. CheckpointsKept
  BY <1>1, NextKeeps
<1>3. ASSUME NEW e \in Log, e.type = "consumed"
      PROVE  /\ e.about \in CheckpointId
             /\ checkpoints[e.about].consumed
             /\ checkpoints'[e.about] # None
             /\ checkpoints'[e.about].consumed
  BY <1>2, <1>3 DEF SpentInv, ConsumedOnRecord, CheckpointsKept, Keeps
<1>4. CASE NoneSpent
  BY <1>1, <1>3, <1>4 DEF NoneSpent, SpentInv, ConsumedOnRecord, ApprovalSpentOnce, Log, Exists
<1>5. ASSUME NEW c \in Call, Spends(c),
             \A e \in Log' : e.type = "consumed" =>
                 e \in Log \/ e = EventOf("consumed", c, token[c])
      PROVE  SpentInv'
  <2> DEFINE new == EventOf("consumed", c, token[c])
  <2>1. /\ token[c] \in CheckpointId
        /\ Exists(token[c])
        /\ ~checkpoints[token[c]].consumed
    BY <1>1, <1>5
    DEF Spends, ConsumeCheckpoint, CanConsume, HasStatus, Continue, Goto,
        TypeInv, TypeOK, CallTypeOK, CallShape, Shaped
  <2>2. checkpoints'[token[c]] # None /\ checkpoints'[token[c]].consumed
    <3>1. checkpoints[token[c]] \in Checkpoint
      BY <1>1, <2>1 DEF TypeInv, TypeOK, CheckpointTypeOK, Exists
    <3>2. checkpoints'[token[c]] = [checkpoints[token[c]] EXCEPT !.consumed = TRUE]
      BY <1>1, <1>5, <2>1
      DEF Spends, ConsumeCheckpoint, TypeInv, TypeOK, CheckpointTypeOK
    <3>3. checkpoints'[token[c]] # None
      BY <1>2, <2>1 DEF CheckpointsKept, Keeps
    <3>4. QED
      BY <3>1, <3>2, <3>3 DEF Checkpoint
  <2>3. new.about = token[c] /\ new.type = "consumed"
    BY DEF EventOf
  <2> HIDE DEF new
  <2>4. \A e \in Log' : e.type = "consumed" => e \in Log \/ e = new
    BY <1>5 DEF new
  <2>5. ConsumedOnRecord'
    BY <1>3, <2>1, <2>2, <2>3, <2>4 DEF ConsumedOnRecord, Exists
  <2>6. ASSUME NEW e \in Log', NEW f \in Log',
               e.type = "consumed", f.type = "consumed", e.about = f.about
        PROVE  e = f
    BY <1>3, <2>1, <2>3, <2>4, <2>6 DEF SpentInv, ApprovalSpentOnce, Log
  <2>7. ApprovalSpentOnce'
    BY <2>6 DEF ApprovalSpentOnce, Log
  <2>8. QED
    BY <1>1, <2>5, <2>7 DEF SpentInv
<1>6. QED
  BY <1>1, <1>4, <1>5, ConsumedWritten

(* "Approvals are single-use" (hitl.py:173-180), for any number of         *)
(* invocations presenting any checkpoints: one at most is told to act on   *)
(* each, whatever fails in between.                                        *)
THEOREM SpentAtMostOnce == Spec => []ApprovalSpentOnce
<1>1. Init => SpentInv
  BY InitTyped DEF Init, SpentInv, ConsumedOnRecord, ApprovalSpentOnce, Log
<1>2. SpentInv /\ [Next]_vars => SpentInv'
  BY SpentNext
<1>3. SpentInv => ApprovalSpentOnce
  BY DEF SpentInv
<1>4. QED
  BY <1>1, <1>2, <1>3, PTL DEF Spec

-----------------------------------------------------------------------------
(* A call above its threshold acts on its own approval.  The invariant     *)
(* looks at the invocation from the moment the approval is spent: from     *)
(* then on nobody else can change what the checkpoint says, and the entry  *)
(* that says it was spent is on its way to the log or in it.               *)

Acting(c) == pc[c] = "permit" \/ (pc[c] = "done" /\ outcome[c].allowed)

HoldsApproval(c) ==
    /\ token[c] # None
    /\ HasStatus(token[c], "approved")
    /\ checkpoints[token[c]].consumed
    /\ checkpoints[token[c]].action = request[c].action
    /\ checkpoints[token[c]].bound_params = BoundCall(request[c])
    /\ EventOf("consumed", c, token[c]) \in Log

ActingHoldsApproval == \A c \in Call : Acting(c) /\ AboveThreshold(c) => HoldsApproval(c)

LogKept == \A e \in Log : e \in Log'

(* What c itself did, or had done, if it is acting after a step.           *)
Progress(c) ==
    /\ request'[c] = request[c]
    /\ token'[c] = token[c]
    /\ \/ /\ Acting(c)
          /\ EventOf("consumed", c, token[c]) \in Log =>
                 EventOf("consumed", c, token[c]) \in Log'
       \/ ~AboveThreshold(c)
       \/ Spends(c) /\ EventOf("consumed", c, token[c]) \in Log'

LEMMA OthersKeepActing ==
    ASSUME TypeInv, NEW c \in Call, NEW d \in Call, c # d,
           NEW from, NEW to, Goto(d, from, to),
           UNCHANGED outcome \/ \E result : outcome' = [outcome EXCEPT ![d] = result],
           LogKept, Acting(c)'
    PROVE  Progress(c)
BY DEF TypeInv, TypeOK, CallTypeOK, Goto, Acting, Progress, LogKept

LEMMA StutterKeepsActing ==
    ASSUME NEW c \in Call, UNCHANGED callVars, LogKept, Acting(c)'
    PROVE  Progress(c)
BY DEF callVars, Acting, Progress, LogKept

LEMMA CallStepProgress ==
    ASSUME TypeInv, NEW c \in Call, NEW d \in Call, CallStep(d), Acting(c)'
    PROVE  Progress(c)
<1>1. \A f : Owes(f) \/ LogsOrFails(f) \/ UNCHANGED recordVars => LogKept
  BY LogsGrows DEF Owes, recordVars, LogKept, Log
<1>2. LogKept
  BY <1>1 DEF CallStep, Begin, BeginDirect, CheckKillSwitch, CheckAuthority,
     EvaluatePolicy, CreateForPolicy, CheckThreshold, RequestApproval, CreateAndReturn,
     ConsumeApproval, CheckAndRecord, LogsOrFails
<1>3. CASE Begin(d) \/ BeginDirect(d)
  BY <1>2, <1>3 DEF TypeInv, TypeOK, CallTypeOK, Begin, BeginDirect, Acting, Progress, LogKept
<1>4. CASE /\ ~Begin(d)
           /\ ~BeginDirect(d)
  <2>1. CASE c # d
    <3>1. /\ \E from, to : Goto(d, from, to)
          /\ UNCHANGED outcome \/ \E result : outcome' = [outcome EXCEPT ![d] = result]
      BY <1>4 DEF CallStep, CheckKillSwitch, CheckAuthority, EvaluatePolicy,
         CreateForPolicy, CheckThreshold, RequestApproval, CreateAndReturn,
         ConsumeApproval, CheckAndRecord, Continue, Return, Raise, Deny
    <3>2. QED
      BY <1>2, <2>1, <3>1, OthersKeepActing
  <2>2. CASE c = d
    <3>1. CASE CheckKillSwitch(c) \/ CheckAuthority(c) \/ EvaluatePolicy(c)
      BY <3>1 DEF CheckKillSwitch, CheckAuthority, EvaluatePolicy, Continue, Raise,
         Deny, Return, Goto, Result, Acting, TypeInv, TypeOK, CallTypeOK
    <3>2. CASE CreateForPolicy(c) \/ RequestApproval(c)
      BY <3>2 DEF CreateForPolicy, RequestApproval, CreateAndReturn, Return, Goto,
         Result, Acting, TypeInv, TypeOK, CallTypeOK
    <3>3. CASE CheckThreshold(c)
      BY <3>3 DEF CheckThreshold, Continue, Return, Goto, Acting, AboveThreshold,
         Progress, TypeInv, TypeOK, CallTypeOK
    <3>4. CASE ConsumeApproval(c)
      BY <3>4 DEF ConsumeApproval, Continue, Deny, Return, Goto, Result, Acting, Spends,
         Owes, Log, Progress, TypeInv, TypeOK, CallTypeOK
    <3>5. CASE CheckAndRecord(c)
      BY <1>2, <3>5 DEF CheckAndRecord, Deny, Raise, Return, Goto, Acting, Progress,
         LogKept
    <3>6. QED
      BY <1>4, <2>2, <3>1, <3>2, <3>3, <3>4, <3>5 DEF CallStep
  <2>3. QED
    BY <2>1, <2>2
<1>5. QED
  BY <1>3, <1>4

LEMMA NextProgress ==
    ASSUME TypeInv, [Next]_vars, NEW c \in Call, Acting(c)'
    PROVE  Progress(c)
<1>1. \A f : Owes(f) \/ LogsOrFails(f) \/ UNCHANGED recordVars => LogKept
  BY LogsGrows DEF Owes, recordVars, LogKept, Log
<1>2. ASSUME NEW e \in unlogged, AppendEntry(e)
      PROVE  Progress(c)
  BY <1>2, StutterKeepsActing DEF AppendEntry, callVars, LogKept, Log
<1>3. ASSUME NEW e \in unlogged, AppendFails(e)
      PROVE  Progress(c)
  <2>1. e.call # c
    BY <1>3, GovernorAssumption
    DEF AppendFails, Acting, Result, TypeInv, TypeOK, CallTypeOK
  <2>2. EventOf("consumed", c, token[c]) \in Log =>
            EventOf("consumed", c, token[c]) \in Log'
    BY <1>3, <2>1, FailsGrows DEF AppendFails, EventOf, Log
  <2>3. /\ pc'[c] = pc[c]
        /\ outcome'[c] = outcome[c]
        /\ UNCHANGED <<request, token>>
    BY <1>3, <2>1 DEF AppendFails, TypeInv, TypeOK, CallTypeOK
  <2>4. QED
    BY <2>2, <2>3 DEF Acting, Progress
<1>4. CASE Environment
  <2>1. UNCHANGED callVars
    BY <1>4 DEF Environment, ResolveBy, Sweep, Engage, Clear, RevokeAuthority,
       Reregister, NewSession, TimePasses
  <2>2. LogKept
    <3>1. CASE Sweep
      BY <3>1 DEF Sweep, LogKept, Log
    <3>2. CASE ~Sweep
      BY <1>1, <1>4, <3>2 DEF Environment, ResolveBy, Engage, Clear, RevokeAuthority,
         Reregister, NewSession, TimePasses
    <3>3. QED
      BY <3>1, <3>2
  <2>3. QED
    BY <2>1, <2>2, StutterKeepsActing
<1>5. CASE UNCHANGED vars
  BY <1>1, <1>5, StutterKeepsActing DEF vars
<1>6. QED
  BY <1>2, <1>3, <1>4, <1>5, CallStepProgress DEF Next

(* With nothing to register, the scopes are those of the set-up.           *)
LEMMA ScopesFixed ==
    ASSUME ScopeChoices = {}, [Next]_vars
    PROVE  UNCHANGED scopes
BY DEF Next, CallStep, Begin, BeginDirect, CheckKillSwitch, CheckAuthority,
   EvaluatePolicy, CreateForPolicy, CheckThreshold, RequestApproval, CreateAndReturn,
   ConsumeApproval, CheckAndRecord, RecordCall, AppendEntry, AppendFails, Environment,
   ResolveBy, Sweep, Engage, Clear, RevokeAuthority, NewSession, ResetSession,
   TimePasses, permissionVars, vars

ApprovalInv == TypeInv /\ ActingHoldsApproval

LEMMA ApprovalNext ==
    ASSUME ScopeChoices = {}, ApprovalInv, [Next]_vars
    PROVE  ApprovalInv'
<1>1. TypeInv /\ TypeInv'
  BY TypeNext DEF ApprovalInv
<1>2. CheckpointsKept /\ UNCHANGED scopes
  BY <1>1, NextKeeps, ScopesFixed
<1>3. ASSUME NEW c \in Call, Acting(c)', AboveThreshold(c)'
      PROVE  HoldsApproval(c)'
  <2>1. Progress(c)
    BY <1>1, <1>3, NextProgress
  <2>2. request'[c] = request[c] /\ token'[c] = token[c]
    BY <2>1 DEF Progress
  <2>3. AboveThreshold(c)
    BY <1>2, <1>3, <2>2 DEF AboveThreshold, RequiresApproval
  <2>4. CASE /\ Acting(c)
             /\ EventOf("consumed", c, token[c]) \in Log =>
                    EventOf("consumed", c, token[c]) \in Log'
    <3>1. HoldsApproval(c)
      BY <2>3, <2>4 DEF ApprovalInv, ActingHoldsApproval
    <3>2. token[c] \in CheckpointId /\ Exists(token[c])
      BY <1>1, <3>1 DEF HoldsApproval, HasStatus, TypeInv, TypeOK, CallTypeOK
    <3>3. Keeps(token[c])
      BY <1>2, <3>2 DEF CheckpointsKept
    <3>4. QED
      BY <2>2, <2>4, <3>1, <3>2, <3>3 DEF HoldsApproval, Keeps, HasStatus, Exists
  <2>5. CASE Spends(c) /\ EventOf("consumed", c, token[c]) \in Log'
    <3>1. /\ CanConsume(token[c], request[c].action, BoundCall(request[c]))
          /\ checkpoints' = [checkpoints EXCEPT ![token[c]].consumed = TRUE]
      BY <2>5 DEF Spends, ConsumeCheckpoint
    <3>2. token[c] \in CheckpointId /\ checkpoints[token[c]] \in Checkpoint
      BY <1>1, <2>5, <3>1
      DEF Spends, CanConsume, HasStatus, Exists, Continue, Goto, TypeInv, TypeOK,
          CallTypeOK, CheckpointTypeOK, CallShape, Shaped
    <3>3. checkpoints'[token[c]] = [checkpoints[token[c]] EXCEPT !.consumed = TRUE]
      BY <1>1, <3>1, <3>2 DEF TypeInv, TypeOK, CheckpointTypeOK
    <3>4. /\ checkpoints'[token[c]].consumed
          /\ checkpoints'[token[c]].status = "approved"
          /\ checkpoints'[token[c]].action = request[c].action
          /\ checkpoints'[token[c]].bound_params = BoundCall(request[c])
      BY <3>1, <3>2, <3>3 DEF CanConsume, HasStatus, Checkpoint
    <3>5. checkpoints'[token[c]] # None /\ token[c] # None
      BY <1>2, <3>1, <3>2, CheckpointAssumption
      DEF CheckpointsKept, Keeps, CanConsume, HasStatus
    <3>6. QED
      BY <2>2, <2>5, <3>4, <3>5 DEF HoldsApproval, HasStatus, Exists
  <2>6. QED
    BY <2>1, <2>3, <2>4, <2>5 DEF Progress
<1>4. QED
  BY <1>1, <1>3 DEF ApprovalInv, ActingHoldsApproval

(* A tool call "whose amount is above" its threshold (permissions.py:52-53)*)
(* is allowed only on an approval of exactly this call, given by a human,  *)
(* spent by this invocation and on record as spent, for as long as nobody  *)
(* registers a scope after the set-up.                                     *)
THEOREM ActsOnApprovalOnly ==
    ASSUME ScopeChoices = {}
    PROVE  Spec => []ActsOnlyAsApproved
<1>1. Init => ApprovalInv
  BY InitTyped DEF Init, ApprovalInv, ActingHoldsApproval, Acting
<1>2. ApprovalInv /\ [Next]_vars => ApprovalInv'
  BY ApprovalNext
<1>3. ApprovalInv => ActsOnlyAsApproved
  <2> SUFFICES ASSUME ApprovalInv, NEW c \in Call, Allowed(c), AboveThreshold(c)
               PROVE  HoldsApproval(c) /\ Spent(c)
    BY DEF ActsOnlyAsApproved, HoldsApproval
  <2>1. HoldsApproval(c)
    BY DEF ApprovalInv, ActingHoldsApproval, Acting, Allowed, Returned
  <2>2. EventOf("consumed", c, token[c]) \notin unlogged
    BY DEF Allowed, Returned, Settled, EventOf
  <2>3. QED
    BY <2>1, <2>2 DEF HoldsApproval, Spent, Log
<1>4. QED
  BY <1>1, <1>2, <1>3, PTL DEF Spec

-----------------------------------------------------------------------------
(* Halts.  A call begun under a halt that lasts has got no further than    *)
(* the check that stops it: the switch if that is on, else the authority.  *)

StoppedAt(c) ==
    \/ pc[c] = "kill_switch" /\ (is_engaged \/ ~authority_current)
    \/ pc[c] = "authority" /\ ~authority_current
    \/ pc[c] = "done" /\ ~outcome[c].allowed

RevocationChecked == ~authority_current => HasAuthorityCheck

HaltsLast == RevocationChecked /\ \A c \in halted : StoppedAt(c)

HaltInv == TypeInv /\ HaltsLast

(* The invocation d of a step can only leave StoppedAt through done.       *)
LEMMA CallStepHalt ==
    ASSUME HaltInv, NEW d \in Call, CallStep(d)
    PROVE  HaltsLast'
<1>1. CASE Begin(d)
  <2>1. RevocationChecked' /\ UNCHANGED <<is_engaged, authority_current, outcome>>
    BY <1>1 DEF Begin, HaltInv, HaltsLast, RevocationChecked
  <2>2. ASSUME NEW c \in halted' PROVE StoppedAt(c)'
    <3>1. CASE c = d
      BY <1>1, <2>1, <2>2, <3>1
      DEF Begin, HaltInv, HaltsLast, StoppedAt, TypeInv, TypeOK, CallTypeOK
    <3>2. CASE c # d
      BY <1>1, <2>1, <2>2, <3>2
      DEF Begin, HaltInv, HaltsLast, StoppedAt, TypeInv, TypeOK, CallTypeOK
    <3>3. QED
      BY <3>1, <3>2
  <2>3. QED
    BY <2>1, <2>2 DEF HaltsLast
<1>2. CASE BeginDirect(d)
  BY <1>2 DEF BeginDirect, HaltInv, HaltsLast, RevocationChecked, StoppedAt, otherVars,
     TypeInv, TypeOK, CallTypeOK
<1>3. CASE ~Begin(d) /\ ~BeginDirect(d)
  <2>1. UNCHANGED otherVars
    BY <1>3 DEF CallStep, CheckKillSwitch, CheckAuthority, EvaluatePolicy,
       CreateForPolicy, CheckThreshold, RequestApproval, CreateAndReturn,
       ConsumeApproval, CheckAndRecord
  <2>2. RevocationChecked'
    BY <2>1 DEF HaltInv, HaltsLast, RevocationChecked, otherVars
  <2>3. ASSUME NEW c \in halted', c # d PROVE StoppedAt(c)'
    <3>1. /\ \E from, to : Goto(d, from, to)
          /\ UNCHANGED outcome \/ \E result : outcome' = [outcome EXCEPT ![d] = result]
      BY <1>3 DEF CallStep, CheckKillSwitch, CheckAuthority, EvaluatePolicy,
         CreateForPolicy, CheckThreshold, RequestApproval, CreateAndReturn,
         ConsumeApproval, CheckAndRecord, Continue, Return, Raise, Deny
    <3>2. c \in Call /\ StoppedAt(c)
      BY <2>1, <2>3 DEF otherVars, HaltInv, HaltsLast, TypeInv, TypeOK, OtherTypeOK
    <3>3. QED
      BY <2>1, <2>3, <3>1, <3>2
      DEF Goto, StoppedAt, otherVars, HaltInv, TypeInv, TypeOK, CallTypeOK
  <2>4. ASSUME d \in halted PROVE StoppedAt(d)'
    <3>1. StoppedAt(d)
      BY <2>4 DEF HaltInv, HaltsLast
    <3>2. CASE CheckKillSwitch(d)
      <4>1. pc[d] = "kill_switch" /\ (is_engaged \/ ~authority_current)
        BY <3>1, <3>2 DEF CheckKillSwitch, Continue, Raise, Return, Goto, StoppedAt
      <4>2. CASE SwitchAllows /\ Continue(d, "kill_switch", "authority")
        <5>1. pc'[d] = "authority"
          BY <4>2 DEF Continue, Goto, HaltInv, TypeInv, TypeOK, CallTypeOK
        <5>2. ~authority_current'
          BY <2>1, <4>1, <4>2, Zenon DEF SwitchAllows, otherVars
        <5>3. QED
          BY <5>1, <5>2 DEF StoppedAt
      <4>3. CASE Raise(d, "kill_switch", "kill_switch")
        BY <4>3 DEF Raise, Return, Goto, Result, StoppedAt, HaltInv, TypeInv, TypeOK,
           CallTypeOK
      <4>4. QED
        BY <3>2, <4>2, <4>3 DEF CheckKillSwitch
    <3>3. CASE CheckAuthority(d)
      <4>1. pc[d] = "authority" /\ ~authority_current
        BY <3>1, <3>3 DEF CheckAuthority, Continue, Deny, Return, Goto, StoppedAt
      <4>2. ~(HasAuthorityCheck => authority_current)
        BY <4>1, Zenon DEF HaltInv, HaltsLast, RevocationChecked
      <4>3. Deny(d, "authority", "authority")
        BY <3>3, <4>2, Zenon DEF CheckAuthority
      <4>4. QED
        BY <4>3 DEF Deny, Return, Goto, Result, StoppedAt, HaltInv, TypeInv, TypeOK,
           CallTypeOK
    <3>4. CASE ~CheckKillSwitch(d) /\ ~CheckAuthority(d)
      BY <1>3, <3>1, <3>4 DEF CallStep, EvaluatePolicy, CreateForPolicy,
         CheckThreshold, RequestApproval, CreateAndReturn, ConsumeApproval,
         CheckAndRecord, Continue, Raise, Deny, Return, Goto, StoppedAt
    <3>5. QED
      BY <3>2, <3>3, <3>4
  <2>5. QED
    BY <2>1, <2>2, <2>3, <2>4 DEF HaltsLast, otherVars
<1>4. QED
  BY <1>1, <1>2, <1>3

LEMMA HaltNext ==
    ASSUME HaltInv, [Next]_vars
    PROVE  HaltInv'
<1>1. TypeInv /\ TypeInv'
  BY TypeNext DEF HaltInv
<1>2. ASSUME NEW e \in unlogged, AppendEntry(e) \/ AppendFails(e)
      PROVE  HaltsLast'
  <2>1. UNCHANGED otherVars
    BY <1>2 DEF AppendEntry, AppendFails
  <2>2. CASE UNCHANGED <<pc, outcome>>
    BY <2>1, <2>2 DEF HaltInv, HaltsLast, RevocationChecked, StoppedAt, otherVars
  <2>3. CASE /\ pc' = [pc EXCEPT ![e.call] = "done"]
             /\ outcome' = [outcome EXCEPT ![e.call] = Result(FALSE, None, None, "audit")]
    BY <1>1, <2>1, <2>3
    DEF HaltInv, HaltsLast, RevocationChecked, StoppedAt, otherVars, Result, TypeInv, TypeOK,
        CallTypeOK, OtherTypeOK
  <2>4. QED
    BY <1>2, <2>2, <2>3 DEF AppendEntry, AppendFails, callVars
<1>3. ASSUME Environment
      PROVE  HaltsLast'
  <2>1. UNCHANGED callVars
    BY <1>3 DEF Environment, ResolveBy, Sweep, Engage, Clear, RevokeAuthority,
       Reregister, NewSession, TimePasses
  <2>2. CASE UNCHANGED otherVars
    BY <2>1, <2>2 DEF HaltInv, HaltsLast, RevocationChecked, StoppedAt, otherVars, callVars
  <2>3. CASE Engage
    BY <2>1, <2>3, Zenon
    DEF Engage, EngageSwitch, HaltInv, HaltsLast, RevocationChecked, StoppedAt, callVars
  <2>4. CASE Clear
    <3>1. authority_current' = authority_current /\ RevocationChecked'
      BY <2>4 DEF Clear, HaltInv, HaltsLast, RevocationChecked
    <3>2. ASSUME NEW c \in halted' PROVE StoppedAt(c)'
      <4>1. ~authority_current /\ c \in halted
        BY <2>4, <3>2 DEF Clear
      <4>2. QED
        BY <2>1, <3>1, <4>1, Zenon DEF HaltInv, HaltsLast, StoppedAt, callVars
    <3>3. QED
      BY <3>1, <3>2 DEF HaltsLast
  <2>5. CASE RevokeAuthority
    BY <2>1, <2>5
    DEF RevokeAuthority, HaltInv, HaltsLast, RevocationChecked, StoppedAt, callVars
  <2>6. QED
    BY <1>3, <2>2, <2>3, <2>4, <2>5 DEF Environment, ResolveBy, Sweep, Reregister, NewSession,
       TimePasses
<1>4. ASSUME UNCHANGED vars
      PROVE  HaltsLast'
  BY <1>4 DEF HaltInv, HaltsLast, RevocationChecked, StoppedAt, vars, otherVars, callVars
<1>5. QED
  BY <1>1, <1>2, <1>3, <1>4, CallStepHalt DEF Next, HaltInv

(* The switch "once engaged, makes every further governed action refuse"   *)
(* (kill_switch.py:1-5): a call begun under a halt, or after the authority *)
(* is gone, is not allowed for as long as that lasts.                      *)
THEOREM HaltsHold == Spec => []HaltedCallsNeverAct
<1>1. Init => HaltInv
  BY InitTyped DEF Init, HaltInv, HaltsLast, RevocationChecked
<1>2. HaltInv /\ [Next]_vars => HaltInv'
  BY HaltNext
<1>3. HaltInv => HaltedCallsNeverAct
  BY DEF HaltInv, HaltsLast, StoppedAt, HaltedCallsNeverAct, TypeInv, TypeOK, OtherTypeOK,
     CallShape, Shaped
<1>4. QED
  BY <1>1, <1>2, <1>3, PTL DEF Spec

-----------------------------------------------------------------------------
(* What the caller is told.  Every invariant is about one invocation c,   *)
(* so a step is looked at from the side of c.                              *)

(* The policy has allowed the action of c. *)
Passed(c) ==
    \/ pc[c] \in {"tool", "request", "consume", "permit"}
    \/ pc[c] = "done" /\ outcome[c].allowed

(* The entries that close an invocation, and the outcome each one tells of. *)
Told == [tool_call_allowed     |-> Result(TRUE, None, None, None),
         tool_call_denied      |-> Result(FALSE, None, "permission", None),
         authority_not_current |-> Result(FALSE, None, "authority", None)]
Closing == DOMAIN Told

(* c waits for its entry before it goes on, so it owes one at a time.      *)
OwesOne(c) == \A e, f \in unlogged : e.call = c /\ f.call = c => e = f

(* What is left of an answer when its append raises.                       *)
AppendRaised == Result(FALSE, None, None, "audit")

ClosingTells(c) ==
    \A type \in Closing :
        EventOf(type, c, None) \in Log =>
            /\ pc[c] = "done" /\ outcome[c] \in {Told[type], AppendRaised}
            /\ EventOf(type, c, None) \in audit => Settled(c)

PassOnRecord(c) ==
    /\ Passed(c) => EventOf("policy_decision", c, "allow") \in Log
    /\ pc[c] = "done" /\ outcome[c].allowed /\ request[c].tool # None =>
           EventOf("tool_call_allowed", c, None) \in Log

(* A refusal names its reason, or the checkpoint of c, for an entry of its *)
(* own; only a tool call has an entry of a tool call.                      *)
RefusalOnRecord(c) ==
    pc[c] = "done" =>
        /\ outcome[c].denial_reason = "policy" =>
               EventOf("policy_decision", c, "block") \in Log
        /\ outcome[c].denial_reason = "permission" =>
               EventOf("tool_call_denied", c, None) \in Log
        /\ outcome[c].denial_reason = "authority" =>
               EventOf("authority_not_current", c, None) \in Log
        /\ outcome[c].checkpoint # None =>
               outcome[c].checkpoint = c /\ EventOf("created", c, c) \in Log

ToolNamed(c) == EventOf("tool_call_allowed", c, None) \in Log => request[c].tool # None

Evidence(c) ==
    OwesOne(c) /\ ClosingTells(c) /\ PassOnRecord(c) /\ RefusalOnRecord(c) /\ ToolNamed(c)

(* With the scopes of the set-up: the tier that counted is the effective   *)
(* one, in the policy and at the tool.                                     *)
UnderTheCeiling(c) ==
    LET r == request[c]
    IN  /\ Passed(c) => Evaluate(Rules, r.action, r.confidence, EffectiveLevel(r)) = "allow"
        /\ pc[c] = "done" /\ outcome[c].allowed /\ r.tool # None =>
               AtLeast(EffectiveLevel(r), scopes[r.tool].minimum_autonomy)

(* ... the threshold that sent c to request_approval still stands, and a   *)
(* refusal names its reason or the checkpoint c itself created.            *)
Explained(c) ==
    /\ pc[c] = "request" => AboveThreshold(c)
    /\ pc[c] = "done" /\ ~outcome[c].allowed /\ outcome[c].raised = None =>
           \/ outcome[c].checkpoint = None /\ outcome[c].denial_reason # None
           \/ /\ outcome[c].checkpoint = c /\ outcome[c].denial_reason = None
              /\ Exists(c)

(* Whose entry it is: of the invocation a checkpoint is named after, and   *)
(* of no invocation what a sweep writes.                                   *)
Named(e) ==
    /\ e.type = "created" => e.call = e.about
    /\ e.type = "expired" => e.call = None
OwnersNamed == \A e \in unlogged : Named(e)

-----------------------------------------------------------------------------
(* A step is one of c itself, an append of c that fails, or leaves c alone. *)

Untouched(c) ==
    /\ pc'[c] = pc[c] /\ outcome'[c] = outcome[c]
    /\ request'[c] = request[c] /\ token'[c] = token[c]
    /\ audit \subseteq audit'
    /\ \A e \in unlogged : e.call = c => e \in Log'
    /\ \A e \in unlogged' : e.call = c => e \in unlogged
    /\ \A e \in audit' : e.call = c => e \in audit \/ (e \in unlogged /\ e \notin unlogged')

Failed(c) ==
    /\ pc'[c] = "done" /\ outcome'[c] = AppendRaised
    /\ UNCHANGED <<request, token>>
    /\ audit \subseteq audit'
    /\ \E e \in unlogged :
           /\ e.call = c
           /\ \A f \in unlogged' : f.call = c => f \in unlogged \ {e}
           /\ audit' \subseteq audit \cup {e}

(* A record step of another call or actor does not touch the entries of c. *)
LEMMA RecordApart ==
    ASSUME NEW c \in Call,
           \/ UNCHANGED recordVars
           \/ \E e : e.call # c /\ (Owes(e) \/ LogsOrFails(e)),
           pc'[c] = pc[c], outcome'[c] = outcome[c],
           request'[c] = request[c], token'[c] = token[c]
    PROVE  Untouched(c)
<1>1. CASE UNCHANGED recordVars
  BY <1>1 DEF recordVars, Untouched, Log
<1>2. ASSUME NEW e, e.call # c, Owes(e)
      PROVE  Untouched(c)
  BY <1>2 DEF Owes, Untouched, Log
<1>3. ASSUME NEW e, e.call # c, LogsOrFails(e)
      PROVE  Untouched(c)
  BY <1>3, LogsGrows DEF Untouched, Log
<1>4. QED
  BY <1>1, <1>2, <1>3

LEMMA OtherCallApart ==
    ASSUME TypeInv, NEW c \in Call, NEW d \in Call, d # c, CallStep(d)
    PROVE  Untouched(c)
<1>1. CASE Begin(d) \/ BeginDirect(d)
  BY <1>1, RecordApart DEF Begin, BeginDirect, TypeInv, TypeOK, CallTypeOK
<1>2. ASSUME NEW from, NEW to, Goto(d, from, to),
             UNCHANGED outcome \/ \E result : outcome' = [outcome EXCEPT ![d] = result]
      PROVE  /\ pc'[c] = pc[c] /\ outcome'[c] = outcome[c]
             /\ request'[c] = request[c] /\ token'[c] = token[c]
  BY <1>2 DEF Goto, TypeInv, TypeOK, CallTypeOK
<1>3. CASE ~Begin(d) /\ ~BeginDirect(d)
  <2>1. /\ \E from, to : Goto(d, from, to)
        /\ UNCHANGED outcome \/ \E result : outcome' = [outcome EXCEPT ![d] = result]
    BY <1>3 DEF CallStep, CheckKillSwitch, CheckAuthority, EvaluatePolicy,
       CreateForPolicy, CheckThreshold, RequestApproval, CreateAndReturn,
       ConsumeApproval, CheckAndRecord, Continue, Return, Raise, Deny
  <2>2. \/ UNCHANGED recordVars
        \/ \E type, about : \/ Owes(EventOf(type, d, about))
                            \/ LogsOrFails(EventOf(type, d, about))
    BY <1>3 DEF CallStep, CheckKillSwitch, CheckAuthority, EvaluatePolicy,
       CreateForPolicy, CheckThreshold, RequestApproval, CreateAndReturn,
       ConsumeApproval, CheckAndRecord, LogsOrFails, recordVars
  <2>3. \A type, about : EventOf(type, d, about).call # c
    BY DEF EventOf
  <2>4. QED
    BY <1>2, <2>1, <2>2, <2>3, RecordApart
<1>4. QED
  BY <1>1, <1>3

LEMMA OwnersStep ==
    ASSUME OwnersNamed, [Next]_vars
    PROVE  OwnersNamed'
<1>1. ASSUME NEW e, Owes(e), Named(e)
      PROVE  OwnersNamed'
  BY <1>1 DEF Owes, OwnersNamed
<1>2. ASSUME \/ UNCHANGED unlogged
             \/ unlogged' \subseteq unlogged
             \/ UNCHANGED recordVars
             \/ \E e : LogsOrFails(e)
      PROVE  OwnersNamed'
  BY <1>2, LogsGrows DEF OwnersNamed, recordVars
<1>3. ASSUME NEW c \in Call, CallStep(c)
      PROVE  OwnersNamed'
  <2>1. \A type : type \notin {"created", "expired"} =>
            \A about : Named(EventOf(type, c, about))
    BY DEF Named, EventOf
  <2>2. Named(EventOf("created", c, c))
    BY DEF Named, EventOf
  <2>3. CASE Begin(c) \/ BeginDirect(c) \/ CheckKillSwitch(c) \/ CheckThreshold(c)
    BY <1>2, <2>3 DEF Begin, BeginDirect, CheckKillSwitch, CheckThreshold
  <2>4. CASE CheckAuthority(c) \/ EvaluatePolicy(c)
    BY <1>1, <1>2, <2>1, <2>4 DEF CheckAuthority, EvaluatePolicy
  <2>5. CASE CreateForPolicy(c) \/ RequestApproval(c)
    BY <1>1, <1>2, <2>2, <2>5 DEF CreateForPolicy, RequestApproval, CreateAndReturn
  <2>6. CASE ConsumeApproval(c) \/ CheckAndRecord(c)
    BY <1>1, <1>2, <2>1, <2>6 DEF ConsumeApproval, CheckAndRecord, LogsOrFails, recordVars
  <2>7. QED
    BY <1>3, <2>3, <2>4, <2>5, <2>6 DEF CallStep
<1>4. ASSUME NEW e \in unlogged, AppendEntry(e) \/ AppendFails(e)
      PROVE  OwnersNamed'
  BY <1>2, <1>4 DEF AppendEntry, AppendFails
<1>5. CASE Environment
  <2>1. ASSUME NEW id \in CheckpointId, NEW human \in Approver,
               NEW status \in {"approved", "rejected"}, ResolveBy(id, status, human)
        PROVE  OwnersNamed'
    BY <1>1, <2>1 DEF ResolveBy, EventOf, Named
  <2>2. CASE Sweep
    BY <2>2 DEF Sweep, EventOf, Named, OwnersNamed
  <2>3. CASE Engage \/ Clear
    BY <1>2, <2>3 DEF Engage, Clear
  <2>4. CASE \/ RevokeAuthority \/ NewSession \/ TimePasses
             \/ \E choice \in ScopeChoices : Reregister(choice[1], choice[2])
    BY <1>2, <2>4 DEF RevokeAuthority, NewSession, TimePasses, Reregister
  <2>5. QED
    BY <1>5, <2>1, <2>2, <2>3, <2>4 DEF Environment
<1>6. CASE UNCHANGED vars
  BY <1>2, <1>6 DEF vars
<1>7. QED
  BY <1>3, <1>4, <1>5, <1>6 DEF Next

LEMMA FailureApart ==
    ASSUME TypeInv, OwnersNamed, NEW c \in Call, NEW e \in unlogged, AppendFails(e)
    PROVE  Untouched(c) \/ Failed(c)
<1>1. PICK rest \in SUBSET {f \in unlogged : f.type = "expired"} :
          /\ e.type # "expired" => rest = {}
          /\ unlogged' = unlogged \ (rest \cup {e})
  BY DEF AppendFails
<1>2. /\ UNCHANGED <<request, token>>
      /\ audit \subseteq audit' /\ audit' \subseteq audit \cup {e}
  BY FailsGrows DEF AppendFails
<1>3. CASE e.call = c
  <2>1. c # None
    BY GovernorAssumption
  <2>2. /\ pc' = [pc EXCEPT ![c] = "done"]
        /\ outcome' = [outcome EXCEPT ![c] = Result(FALSE, None, None, "audit")]
    BY <1>3, <2>1 DEF AppendFails
  <2>3. \A f \in unlogged' : f \in unlogged \ {e}
    BY <1>1
  <2>4. QED
    BY <1>2, <1>3, <2>2, <2>3 DEF Failed, AppendRaised, TypeInv, TypeOK, CallTypeOK
<1>4. CASE e.call # c
  <2>1. pc'[c] = pc[c] /\ outcome'[c] = outcome[c]
    BY <1>4 DEF AppendFails, TypeInv, TypeOK, CallTypeOK
  <2>2. \A f \in unlogged : f.call = c => f \in unlogged'
    <3>1. \A f \in rest : f.call # c
      BY GovernorAssumption DEF OwnersNamed, Named
    <3>2. QED
      BY <1>1, <1>4, <3>1
  <2>3. QED
    BY <1>1, <1>2, <2>1, <2>2 DEF Untouched, Log
<1>5. QED
  BY <1>3, <1>4

LEMMA StepFrom ==
    ASSUME TypeInv, OwnersNamed, [Next]_vars, NEW c \in Call
    PROVE  CallStep(c) \/ Failed(c) \/ Untouched(c)
<1>1. \A d \in Call : CallStep(d) => d = c \/ Untouched(c)
  BY OtherCallApart
<1>2. ASSUME NEW e \in unlogged, AppendEntry(e)
      PROVE  Untouched(c)
  BY <1>2 DEF AppendEntry, callVars, Untouched, Log
<1>3. ASSUME NEW e \in unlogged, AppendFails(e)
      PROVE  Untouched(c) \/ Failed(c)
  BY <1>3, FailureApart
<1>4. CASE Environment
  <2>1. /\ pc'[c] = pc[c] /\ outcome'[c] = outcome[c]
        /\ request'[c] = request[c] /\ token'[c] = token[c]
    BY <1>4 DEF Environment, ResolveBy, Sweep, Engage, Clear, RevokeAuthority,
       Reregister, NewSession, TimePasses, callVars
  <2>2. \A type, about : EventOf(type, None, about).call # c
    BY GovernorAssumption DEF EventOf
  <2>3. CASE Sweep
    BY <2>1, <2>2, <2>3 DEF Sweep, Untouched, Log
  <2>4. CASE ~Sweep
    <3>1. \/ UNCHANGED recordVars
          \/ \E type, about : \/ Owes(EventOf(type, None, about))
                              \/ LogsOrFails(EventOf(type, None, about))
      BY <1>4, <2>4 DEF Environment, ResolveBy, Engage, Clear, RevokeAuthority,
         Reregister, NewSession, TimePasses
    <3>2. QED
      BY <2>1, <2>2, <3>1, RecordApart
  <2>5. QED
    BY <2>3, <2>4
<1>5. CASE UNCHANGED vars
  BY <1>5, RecordApart DEF vars, callVars
<1>6. QED
  BY <1>1, <1>2, <1>3, <1>4, <1>5 DEF Next

-----------------------------------------------------------------------------
(* The log and the outcome agree. *)

LEMMA EntryNames == \A type, c, about :
    EventOf(type, c, about).type = type /\ EventOf(type, c, about).call = c
BY DEF EventOf

LEMMA UntouchedEvidence ==
    ASSUME NEW c \in Call, Evidence(c), Untouched(c)
    PROVE  Evidence(c)'
<1>1. OwesOne(c)'
  BY DEF Evidence, OwesOne, Untouched
<1>2. ClosingTells(c)'
  <2> SUFFICES ASSUME NEW type \in Closing, EventOf(type, c, None) \in Log'
               PROVE  /\ pc'[c] = "done" /\ outcome'[c] \in {Told[type], AppendRaised}
                      /\ EventOf(type, c, None) \in audit' => Settled(c)'
    BY DEF ClosingTells
  <2> DEFINE e == EventOf(type, c, None)
  <2>1. e.call = c
    BY EntryNames
  <2> HIDE DEF e
  <2>2. e \in Log
    BY <2>1 DEF Untouched, Log, e
  <2>3. /\ pc[c] = "done" /\ outcome[c] \in {Told[type], AppendRaised}
        /\ e \in audit => Settled(c)
    BY <2>2 DEF Evidence, ClosingTells, e
  <2>4. ASSUME e \in audit' PROVE Settled(c)'
    <3>1. CASE e \in audit
      BY <2>3, <3>1 DEF Settled, Untouched
    <3>2. CASE e \in unlogged /\ e \notin unlogged'
      BY <2>1, <3>2 DEF Settled, Untouched, Evidence, OwesOne
    <3>3. QED
      BY <2>1, <2>4, <3>1, <3>2 DEF Untouched
  <2>5. QED
    BY <2>3, <2>4 DEF Untouched, e
<1>3. PassOnRecord(c)'
  <2>1. \A type, about : EventOf(type, c, about) \in Log => EventOf(type, c, about) \in Log'
    BY EntryNames DEF Untouched, Log
  <2>2. QED
    BY <2>1 DEF Evidence, PassOnRecord, Passed, Untouched
<1>4. RefusalOnRecord(c)'
  <2>1. \A type, about : EventOf(type, c, about) \in Log => EventOf(type, c, about) \in Log'
    BY EntryNames DEF Untouched, Log
  <2>2. QED
    BY <2>1 DEF Evidence, RefusalOnRecord, Untouched
<1>5. ToolNamed(c)'
  <2>1. EventOf("tool_call_allowed", c, None) \in Log' =>
            EventOf("tool_call_allowed", c, None) \in Log
    BY EntryNames DEF Untouched, Log
  <2>2. QED
    BY <2>1 DEF Evidence, ToolNamed, Untouched
<1>6. QED
  BY <1>1, <1>2, <1>3, <1>4, <1>5 DEF Evidence

LEMMA FailedEvidence ==
    ASSUME NEW c \in Call, Evidence(c), Failed(c)
    PROVE  Evidence(c)'
<1>1. PICK e \in unlogged :
          /\ e.call = c
          /\ \A f \in unlogged' : f.call = c => f \in unlogged \ {e}
          /\ audit' \subseteq audit \cup {e}
  BY DEF Failed
<1>2. Settled(c)'
  BY <1>1 DEF Evidence, OwesOne, Settled
<1>3. OwesOne(c)'
  BY <1>2 DEF OwesOne, Settled
<1>4. ClosingTells(c)'
  BY <1>2 DEF ClosingTells, Failed
<1>5. PassOnRecord(c)'
  BY DEF PassOnRecord, Passed, Failed, AppendRaised, Result
<1>6. RefusalOnRecord(c)'
  <2>1. outcome'[c].denial_reason = None /\ outcome'[c].checkpoint = None
    BY DEF Failed, AppendRaised, Result
  <2>2. QED
    BY <2>1, OutcomeAssumption DEF RefusalOnRecord, Denial
<1>7. ToolNamed(c)'
  <2>1. EventOf("tool_call_allowed", c, None) \in Log' =>
            EventOf("tool_call_allowed", c, None) \in Log
    BY <1>1, EntryNames DEF Log
  <2>2. QED
    BY <2>1 DEF Evidence, ToolNamed, Failed
<1>8. QED
  BY <1>3, <1>4, <1>5, <1>6, <1>7 DEF Evidence

(* Before its own step c owes nothing and nothing has closed it.           *)
LEMMA StepOpens ==
    ASSUME TypeInv, NEW c \in Call, Evidence(c), CallStep(c)
    PROVE  /\ Settled(c) /\ pc[c] # "done"
           /\ \A type \in Closing : EventOf(type, c, None) \notin Log
<1>1. CASE Begin(c) \/ BeginDirect(c)
  <2>1. pc[c] = "idle"
    BY <1>1 DEF Begin, BeginDirect
  <2>2. Settled(c)
    BY <2>1, GovernorAssumption DEF TypeInv, OwnersStarted, Settled
  <2>3. QED
    BY <2>1, <2>2 DEF Evidence, ClosingTells
<1>2. CASE ~Begin(c) /\ ~BeginDirect(c)
  <2>1. Settled(c) /\ pc[c] # "done"
    BY <1>2 DEF CallStep, CheckKillSwitch, CheckAuthority, EvaluatePolicy,
       CreateForPolicy, CheckThreshold, RequestApproval, CreateAndReturn,
       ConsumeApproval, CheckAndRecord, Continue, Return, Raise, Deny, Goto
  <2>2. QED
    BY <2>1 DEF Evidence, ClosingTells
<1>3. QED
  BY <1>1, <1>2

(* A step that owes an entry that closes nothing, or none.                 *)
LEMMA OpenRecord ==
    ASSUME TypeInv, NEW c \in Call, Evidence(c), CallStep(c),
           \/ UNCHANGED recordVars
           \/ \E type, about : type \notin Closing /\ Owes(EventOf(type, c, about))
    PROVE  OwesOne(c)' /\ ClosingTells(c)'
<1>1. /\ Settled(c)
      /\ \A type \in Closing : EventOf(type, c, None) \notin Log
  BY StepOpens
<1>2. CASE UNCHANGED recordVars
  BY <1>1, <1>2 DEF recordVars, OwesOne, ClosingTells, Log, Evidence
<1>3. ASSUME NEW type, NEW about, type \notin Closing, Owes(EventOf(type, c, about))
      PROVE  OwesOne(c)' /\ ClosingTells(c)'
  <2>1. OwesOne(c)'
    BY <1>1, <1>3 DEF Owes, OwesOne, Settled
  <2>2. \A closing \in Closing : EventOf(closing, c, None) \notin Log'
    <3>1. \A closing \in Closing : EventOf(closing, c, None) # EventOf(type, c, about)
      BY <1>3, EntryNames
    <3>2. QED
      BY <1>1, <1>3, <3>1 DEF Owes, Log
  <2>3. QED
    BY <2>1, <2>2 DEF ClosingTells
<1>4. QED
  BY <1>2, <1>3

(* A step that returns with the entry that closes c.                       *)
LEMMA ClosingRecord ==
    ASSUME TypeInv, NEW c \in Call, Evidence(c), CallStep(c),
           NEW type \in Closing, pc'[c] = "done", outcome'[c] = Told[type],
           \/ Owes(EventOf(type, c, None))
           \/ UNCHANGED unlogged /\ audit' = audit \cup {EventOf(type, c, None)}
    PROVE  OwesOne(c)' /\ ClosingTells(c)'
<1> DEFINE e == EventOf(type, c, None)
<1>1. /\ Settled(c)
      /\ \A other \in Closing : EventOf(other, c, None) \notin Log
  BY StepOpens
<1>2. e.call = c /\ \A other : EventOf(other, c, None) = e => other = type
  BY EntryNames
<1>3. e \in Log' /\ Log' = Log \cup {e}
  BY DEF Owes, Log
<1>4. OwesOne(c)'
  BY <1>1, <1>2 DEF Owes, OwesOne, Settled
<1>5. e \in audit' => Settled(c)'
  BY <1>1, <1>2 DEF Owes, Settled, Log
<1> HIDE DEF e
<1>6. ASSUME NEW other \in Closing, EventOf(other, c, None) \in Log'
      PROVE  other = type
  BY <1>1, <1>2, <1>3, <1>6
<1>7. QED
  BY <1>4, <1>5, <1>6 DEF ClosingTells, e

LEMMA ClosingTypes ==
    /\ Closing = {"tool_call_allowed", "tool_call_denied", "authority_not_current"}
    /\ Told["tool_call_allowed"] = Result(TRUE, None, None, None)
    /\ Told["tool_call_denied"] = Result(FALSE, None, "permission", None)
    /\ Told["authority_not_current"] = Result(FALSE, None, "authority", None)
BY DEF Closing, Told

LEMMA Returns ==
    ASSUME TypeInv, NEW c \in Call, NEW from, NEW result, Return(c, from, result)
    PROVE  /\ pc[c] = from /\ pc'[c] = "done" /\ outcome'[c] = result
           /\ UNCHANGED <<request, token>> /\ Settled(c)
BY DEF Return, Goto, TypeInv, TypeOK, CallTypeOK

LEMMA Continues ==
    ASSUME TypeInv, NEW c \in Call, NEW from, NEW to, Continue(c, from, to)
    PROVE  /\ pc[c] = from /\ pc'[c] = to
           /\ UNCHANGED <<request, token, outcome>> /\ Settled(c)
BY DEF Continue, Goto, TypeInv, TypeOK, CallTypeOK

LEMMA Refuses ==
    ASSUME TypeInv, NEW c \in Call, NEW from, NEW checkpoint, NEW reason, NEW raised,
           Return(c, from, Result(FALSE, checkpoint, reason, raised))
    PROVE  /\ pc'[c] = "done" /\ outcome'[c].allowed = FALSE
           /\ ~Passed(c)'
<1>1. pc'[c] = "done" /\ outcome'[c] = Result(FALSE, checkpoint, reason, raised)
  BY Returns
<1>2. outcome'[c].allowed = FALSE
  BY <1>1 DEF Result
<1>3. QED
  BY <1>1, <1>2 DEF Passed

(* Where an own step leads, and what it finds when it does.                *)
LEMMA OwnStep ==
    ASSUME TypeInv, NEW c \in Call, CallStep(c), Passed(c)'
    PROVE  /\ UNCHANGED <<request, token>>
           /\ \/ /\ EvaluatePolicy(c)
                 /\ Evaluate(Rules, request[c].action, request[c].confidence,
                             EffectiveLevel(request[c])) = "allow"
                 /\ Owes(EventOf("policy_decision", c, "allow"))
                 /\ pc'[c] = "tool"
              \/ /\ CheckThreshold(c) \/ ConsumeApproval(c) \/ CheckAndRecord(c)
                 /\ pc[c] \in {"tool", "consume", "permit"}
<1>1. CASE Begin(c) \/ BeginDirect(c)
  BY <1>1 DEF Begin, BeginDirect, Passed, TypeInv, TypeOK, CallTypeOK
<1>2. CASE CheckKillSwitch(c) \/ CheckAuthority(c)
  <2>1. CASE Continue(c, "kill_switch", "authority") \/ Continue(c, "authority", "policy")
    BY <2>1, Continues DEF Passed
  <2>2. ~Raise(c, "kill_switch", "kill_switch") /\ ~Deny(c, "authority", "authority")
    BY Refuses DEF Deny, Raise
  <2>3. QED
    BY <1>2, <2>1, <2>2 DEF CheckKillSwitch, CheckAuthority
<1>3. CASE EvaluatePolicy(c)
  <2> DEFINE r == request[c]
             decision == Evaluate(Rules, r.action, r.confidence, EffectiveLevel(r))
  <2>1. ~Raise(c, "policy", "confidence")
    BY Refuses DEF Raise
  <2>2. /\ Owes(EventOf("policy_decision", c, decision))
        /\ \/ decision = "block" /\ Deny(c, "policy", "policy")
           \/ decision = "require_approval" /\ Continue(c, "policy", "create")
           \/ decision = "allow" /\ Continue(c, "policy", "tool")
    BY <1>3, <2>1 DEF EvaluatePolicy
  <2> HIDE DEF decision
  <2>3. ~Deny(c, "policy", "policy") /\ ~Continue(c, "policy", "create")
    <3>1. ~Deny(c, "policy", "policy")
      BY Refuses DEF Deny
    <3>2. ~Continue(c, "policy", "create")
      BY Continues DEF Passed
    <3>3. QED
      BY <3>1, <3>2
  <2>4. decision = "allow" /\ Continue(c, "policy", "tool")
    BY <2>2, <2>3
  <2>5. QED
    BY <1>3, <2>2, <2>4, Continues DEF decision
<1>4. CASE CreateForPolicy(c) \/ RequestApproval(c)
  <2>1. \E from, checkpoint, reason : Return(c, from, Result(FALSE, checkpoint, reason, None))
    BY <1>4 DEF CreateForPolicy, RequestApproval, CreateAndReturn
  <2>2. QED
    BY <2>1, Refuses
<1>5. CASE CheckThreshold(c) \/ ConsumeApproval(c) \/ CheckAndRecord(c)
  BY <1>5, Returns, Continues
  DEF CheckThreshold, ConsumeApproval, CheckAndRecord, Deny, Raise
<1>6. QED
  BY <1>1, <1>2, <1>3, <1>4, <1>5 DEF CallStep

LEMMA OwnRecord ==
    ASSUME TypeInv, NEW c \in Call, Evidence(c), CallStep(c)
    PROVE  OwesOne(c)' /\ ClosingTells(c)'
<1>1. CASE Begin(c) \/ BeginDirect(c) \/ CheckKillSwitch(c) \/ CheckThreshold(c)
  BY <1>1, OpenRecord DEF Begin, BeginDirect, CheckKillSwitch, CheckThreshold
<1>2. CASE CheckAuthority(c)
  <2>1. CASE UNCHANGED recordVars
    BY <2>1, OpenRecord
  <2>2. CASE /\ Deny(c, "authority", "authority")
             /\ Owes(EventOf("authority_not_current", c, None))
    <3>1. pc'[c] = "done" /\ outcome'[c] = Told["authority_not_current"]
      <4>1. Return(c, "authority", Told["authority_not_current"])
        BY <2>2, ClosingTypes DEF Deny
      <4>2. QED
        BY <4>1, Returns
    <3>2. QED
      BY <2>2, <3>1, ClosingRecord, ClosingTypes
  <2>3. QED
    BY <1>2, <2>1, <2>2 DEF CheckAuthority
<1>3. CASE EvaluatePolicy(c)
  <2>1. "policy_decision" \notin Closing
    BY ClosingTypes
  <2>2. QED
    BY <1>3, <2>1, OpenRecord DEF EvaluatePolicy
<1>4. CASE CreateForPolicy(c) \/ RequestApproval(c)
  <2>1. "created" \notin Closing
    BY ClosingTypes
  <2>2. QED
    BY <1>4, <2>1, OpenRecord DEF CreateForPolicy, RequestApproval, CreateAndReturn
<1>5. CASE ConsumeApproval(c)
  <2>1. "consumed" \notin Closing
    BY ClosingTypes
  <2>2. QED
    BY <1>5, <2>1, OpenRecord DEF ConsumeApproval
<1>6. CASE CheckAndRecord(c)
  <2> DEFINE denied == EventOf("tool_call_denied", c, None)
  <2>1. CASE /\ Return(c, "permit", Result(TRUE, None, None, None))
             /\ Owes(EventOf("tool_call_allowed", c, None))
    BY <2>1, ClosingRecord, ClosingTypes, Returns
  <2>2. CASE Logs(denied) /\ Deny(c, "permit", "permission")
    <3>1. UNCHANGED unlogged /\ audit' = audit \cup {denied}
      BY <2>2 DEF Logs
    <3>2. pc'[c] = "done" /\ outcome'[c] = Told["tool_call_denied"]
      BY <2>2, ClosingTypes, Returns DEF Deny
    <3>3. QED
      BY <3>1, <3>2, ClosingRecord, ClosingTypes
  <2>3. CASE Fails(denied) /\ UNCHANGED unlogged /\ Raise(c, "permit", "audit")
    <3>1. pc'[c] = "done" /\ outcome'[c] = AppendRaised
      BY <2>3, Returns DEF Raise, AppendRaised
    <3>2. Settled(c)'
      BY <2>3, StepOpens DEF Settled
    <3>3. QED
      BY <3>1, <3>2 DEF OwesOne, ClosingTells, Settled
  <2>4. QED
    BY <1>6, <2>1, <2>2, <2>3 DEF CheckAndRecord
<1>7. QED
  BY <1>1, <1>2, <1>3, <1>4, <1>5, <1>6 DEF CallStep

(* An own step loses no entry.                                             *)
LEMMA OwnLogKept ==
    ASSUME TypeInv, NEW c \in Call, CallStep(c)
    PROVE  LogKept
<1>1. \A f : Owes(f) \/ LogsOrFails(f) \/ UNCHANGED recordVars => LogKept
  BY LogsGrows DEF Owes, recordVars, LogKept, Log
<1>2. QED
  BY <1>1 DEF CallStep, Begin, BeginDirect, CheckKillSwitch, CheckAuthority,
     EvaluatePolicy, CreateForPolicy, CheckThreshold, RequestApproval, CreateAndReturn,
     ConsumeApproval, CheckAndRecord, LogsOrFails

LEMMA OwnPass ==
    ASSUME TypeInv, NEW c \in Call, Evidence(c), CallStep(c)
    PROVE  PassOnRecord(c)'
<1>1. LogKept
  BY OwnLogKept
<1>2. ASSUME Passed(c)'
      PROVE  EventOf("policy_decision", c, "allow") \in Log'
  <2>1. CASE Owes(EventOf("policy_decision", c, "allow"))
    BY <2>1 DEF Owes, Log
  <2>2. CASE pc[c] \in {"tool", "consume", "permit"}
    BY <1>1, <2>2 DEF Evidence, PassOnRecord, Passed, LogKept
  <2>3. QED
    BY <1>2, <2>1, <2>2, OwnStep
<1>3. ASSUME pc'[c] = "done", outcome'[c].allowed, request'[c].tool # None
      PROVE  EventOf("tool_call_allowed", c, None) \in Log'
  <2>1. Passed(c)'
    BY <1>3 DEF Passed
  <2>2. UNCHANGED request /\ (CheckThreshold(c) \/ ConsumeApproval(c) \/ CheckAndRecord(c))
    BY <1>3, <2>1, OwnStep
  <2>3. CASE CheckThreshold(c) \/ ConsumeApproval(c)
    <3>1. ~Deny(c, "consume", "approval")
      BY <2>1, Refuses DEF Deny
    <3>2. \A from, to : Continue(c, from, to) => to = "done"
      BY <1>3, Continues
    <3>3. QED
      BY <1>3, <2>2, <2>3, <3>1, <3>2 DEF CheckThreshold, ConsumeApproval
  <2>4. CASE CheckAndRecord(c)
    <3>1. CASE Owes(EventOf("tool_call_allowed", c, None))
      BY <3>1 DEF Owes, Log
    <3>2. CASE Deny(c, "permit", "permission") \/ Raise(c, "permit", "audit")
      BY <2>1, <3>2, Refuses DEF Deny, Raise
    <3>3. QED
      BY <2>4, <3>1, <3>2 DEF CheckAndRecord
  <2>5. QED
    BY <2>2, <2>3, <2>4
<1>4. QED
  BY <1>2, <1>3 DEF PassOnRecord

(* A step that does not return, or returns with none of these reasons.     *)
LEMMA QuietReturn ==
    ASSUME NEW c \in Call,
           \/ pc'[c] # "done"
           \/ /\ outcome'[c].checkpoint = None
              /\ outcome'[c].denial_reason \notin {"policy", "permission", "authority"}
    PROVE  RefusalOnRecord(c)'
BY DEF RefusalOnRecord

LEMMA RaisesQuietly ==
    ASSUME TypeInv, NEW c \in Call, NEW from, NEW exception, Raise(c, from, exception)
    PROVE  RefusalOnRecord(c)'
<1>1. outcome'[c].checkpoint = None /\ outcome'[c].denial_reason = None
  BY Returns DEF Raise, Result
<1>2. QED
  BY <1>1, QuietReturn, OutcomeAssumption DEF Denial

LEMMA DenialOnRecord ==
    ASSUME TypeInv, NEW c \in Call, NEW from, NEW reason, Deny(c, from, reason),
           reason = "policy" => EventOf("policy_decision", c, "block") \in Log',
           reason = "permission" => EventOf("tool_call_denied", c, None) \in Log',
           reason = "authority" => EventOf("authority_not_current", c, None) \in Log'
    PROVE  RefusalOnRecord(c)'
<1>1. outcome'[c].checkpoint = None /\ outcome'[c].denial_reason = reason
  BY Returns DEF Deny, Result
<1>2. QED
  BY <1>1 DEF RefusalOnRecord

LEMMA CreationOnRecord ==
    ASSUME TypeInv, NEW c \in Call, NEW from, NEW bound_params,
           CreateAndReturn(c, from, bound_params)
    PROVE  RefusalOnRecord(c)'
<1>1. Return(c, from, Result(FALSE, c, None, None)) /\ Owes(EventOf("created", c, c))
  BY DEF CreateAndReturn
<1>2. outcome'[c].checkpoint = c /\ outcome'[c].denial_reason = None
  BY <1>1, Returns DEF Result
<1>3. EventOf("created", c, c) \in Log'
  BY <1>1 DEF Owes, Log
<1>4. QED
  BY <1>2, <1>3, OutcomeAssumption DEF RefusalOnRecord, Denial

LEMMA OwnRefusal ==
    ASSUME TypeInv, NEW c \in Call, CallStep(c)
    PROVE  RefusalOnRecord(c)'
<1>1. CASE Begin(c) \/ BeginDirect(c)
  BY <1>1, QuietReturn DEF Begin, BeginDirect, TypeInv, TypeOK, CallTypeOK
<1>2. ASSUME NEW from, NEW to, Continue(c, from, to), to # "done"
      PROVE  RefusalOnRecord(c)'
  BY <1>2, Continues, QuietReturn
<1>3. CASE CheckKillSwitch(c)
  BY <1>2, <1>3, RaisesQuietly DEF CheckKillSwitch
<1>4. CASE CheckAuthority(c)
  <2>1. CASE /\ Deny(c, "authority", "authority")
             /\ Owes(EventOf("authority_not_current", c, None))
    BY <2>1, DenialOnRecord DEF Owes, Log
  <2>2. QED
    BY <1>2, <1>4, <2>1 DEF CheckAuthority
<1>5. CASE EvaluatePolicy(c)
  <2> DEFINE decision == Evaluate(Rules, request[c].action, request[c].confidence,
                                  EffectiveLevel(request[c]))
  <2>1. CASE /\ decision = "block" /\ Deny(c, "policy", "policy")
             /\ Owes(EventOf("policy_decision", c, decision))
    BY <2>1, DenialOnRecord DEF Owes, Log
  <2>2. CASE Continue(c, "policy", "create") \/ Continue(c, "policy", "tool")
    BY <1>2, <2>2
  <2>3. CASE Raise(c, "policy", "confidence")
    BY <2>3, RaisesQuietly
  <2>4. QED
    BY <1>5, <2>1, <2>2, <2>3 DEF EvaluatePolicy
<1>6. CASE CreateForPolicy(c)
  BY <1>6, CreationOnRecord DEF CreateForPolicy
<1>7. CASE CheckThreshold(c)
  <2>1. CASE Return(c, "tool", Result(TRUE, None, None, None))
    <3>1. outcome'[c].checkpoint = None /\ outcome'[c].denial_reason = None
      BY <2>1, Returns DEF Result
    <3>2. QED
      BY <3>1, QuietReturn, OutcomeAssumption DEF Denial
  <2>2. QED
    BY <1>2, <1>7, <2>1 DEF CheckThreshold
<1>8. CASE RequestApproval(c)
  <2>1. ASSUME NEW from, NEW reason \in {None, "not_required"},
               Return(c, from, Result(FALSE, None, reason, None))
        PROVE  RefusalOnRecord(c)'
    <3>1. outcome'[c].checkpoint = None /\ outcome'[c].denial_reason = reason
      BY <2>1, Returns DEF Result
    <3>2. QED
      BY <3>1, QuietReturn, OutcomeAssumption DEF Denial
  <2>2. QED
    BY <1>8, <2>1, CreationOnRecord DEF RequestApproval
<1>9. CASE ConsumeApproval(c)
  <2>1. CASE Deny(c, "consume", "approval")
    BY <2>1, DenialOnRecord
  <2>2. QED
    BY <1>2, <1>9, <2>1 DEF ConsumeApproval
<1>10. CASE CheckAndRecord(c)
  <2>1. CASE Return(c, "permit", Result(TRUE, None, None, None))
    <3>1. outcome'[c].checkpoint = None /\ outcome'[c].denial_reason = None
      BY <2>1, Returns DEF Result
    <3>2. QED
      BY <3>1, QuietReturn, OutcomeAssumption DEF Denial
  <2>2. CASE /\ Logs(EventOf("tool_call_denied", c, None))
             /\ Deny(c, "permit", "permission")
    BY <2>2, DenialOnRecord DEF Logs, Log
  <2>3. CASE Raise(c, "permit", "audit")
    BY <2>3, RaisesQuietly
  <2>4. QED
    BY <1>10, <2>1, <2>2, <2>3 DEF CheckAndRecord
<1>11. QED
  BY <1>1, <1>3, <1>4, <1>5, <1>6, <1>7, <1>8, <1>9, <1>10 DEF CallStep

LEMMA OwnTool ==
    ASSUME TypeInv, NEW c \in Call, Evidence(c), CallStep(c)
    PROVE  ToolNamed(c)'
<1> DEFINE allowed == EventOf("tool_call_allowed", c, None)
<1>1. allowed \notin Log
  BY StepOpens, ClosingTypes
<1>2. ASSUME UNCHANGED recordVars
      PROVE  ToolNamed(c)'
  BY <1>1, <1>2 DEF recordVars, Log, ToolNamed
<1>3. ASSUME NEW type, NEW about, type # "tool_call_allowed",
             Owes(EventOf(type, c, about)) \/ LogsOrFails(EventOf(type, c, about))
      PROVE  ToolNamed(c)'
  <2>1. EventOf(type, c, about) # allowed
    BY <1>3, EntryNames
  <2>2. allowed \notin Log'
    BY <1>1, <1>3, <2>1, LogsGrows DEF Owes, Log
  <2>3. QED
    BY <2>2 DEF ToolNamed
<1>4. CASE CheckAndRecord(c)
  <2>1. CASE Return(c, "permit", Result(TRUE, None, None, None))
    <3>1. pc[c] = "permit" /\ UNCHANGED request
      BY <2>1, Returns
    <3>2. QED
      BY <3>1 DEF ToolNamed, TypeInv, CallShape, Shaped
  <2>2. CASE LogsOrFails(EventOf("tool_call_denied", c, None))
    BY <1>3, <2>2
  <2>3. QED
    BY <1>4, <2>1, <2>2 DEF CheckAndRecord, LogsOrFails
<1>5. CASE ~CheckAndRecord(c)
  BY <1>2, <1>3, <1>5 DEF CallStep, Begin, BeginDirect, CheckKillSwitch, CheckAuthority,
     EvaluatePolicy, CreateForPolicy, CheckThreshold, RequestApproval, CreateAndReturn,
     ConsumeApproval
<1>6. QED
  BY <1>4, <1>5

EvidenceInv == TypeInv /\ OwnersNamed /\ \A c \in Call : Evidence(c)

LEMMA EvidenceNext ==
    ASSUME EvidenceInv, [Next]_vars
    PROVE  EvidenceInv'
<1>1. TypeInv' /\ OwnersNamed'
  BY TypeNext, OwnersStep DEF EvidenceInv
<1>2. ASSUME NEW c \in Call
      PROVE  Evidence(c)'
  <2>1. TypeInv /\ OwnersNamed /\ Evidence(c)
    BY DEF EvidenceInv
  <2>2. CASE CallStep(c)
    BY <2>1, <2>2, OwnRecord, OwnPass, OwnRefusal, OwnTool DEF Evidence
  <2>3. CASE Failed(c) \/ Untouched(c)
    BY <2>1, <2>3, FailedEvidence, UntouchedEvidence
  <2>4. QED
    BY <2>1, <2>2, <2>3, StepFrom
<1>3. QED
  BY <1>1, <1>2 DEF EvidenceInv

LEMMA EvidenceInit ==
    ASSUME Init
    PROVE  EvidenceInv
<1>1. unlogged = {} /\ audit = {} /\ \A c \in Call : pc[c] = "idle"
  BY DEF Init
<1>2. QED
  BY <1>1, InitTyped DEF EvidenceInv, OwnersNamed, Evidence, OwesOne, ClosingTells,
     PassOnRecord, Passed, RefusalOnRecord, ToolNamed, Log

-----------------------------------------------------------------------------
(* No approval is spent but by an invocation that has it on record or a    *)
(* failed append to tell of it: the consumption and its owed entry are one *)
(* step, and c presents the same checkpoint for as long as it lasts.       *)

IsSpent(id) == Exists(id) /\ checkpoints[id].consumed

SpendsNone == \A id \in CheckpointId : IsSpent(id)' => IsSpent(id)

Spender(c, id) ==
    /\ pc[c] # "idle" /\ token[c] = id
    /\ \/ EventOf("consumed", c, id) \in Log
       \/ outcome[c] # None /\ outcome[c].raised = "audit"

SpenderKnown ==
    \A id \in CheckpointId : IsSpent(id) => \E c \in Call : Spender(c, id)

LEMMA CreateSpendsNone ==
    ASSUME CheckpointTypeOK,
           NEW id \in CheckpointId, NEW action, NEW ttl, NEW bound_params, NEW now,
           CreateCheckpoint(id, action, ttl, bound_params, now)
    PROVE  SpendsNone
BY DEF CheckpointTypeOK, CreateCheckpoint, SpendsNone, IsSpent, Exists

LEMMA ResolveSpendsNone ==
    ASSUME CheckpointTypeOK,
           NEW id \in CheckpointId, NEW status \in {"approved", "rejected"},
           NEW human \in Approver, ResolveCheckpoint(id, status, human)
    PROVE  SpendsNone
<1>1. checkpoints[id] \in Checkpoint /\ Exists(id)
  BY DEF CheckpointTypeOK, ResolveCheckpoint, IsResolved, Exists
<1>2. checkpoints' = [checkpoints EXCEPT ![id] =
          [checkpoints[id] EXCEPT !.status = status, !.resolved_by = human]]
  BY <1>1 DEF CheckpointTypeOK, ResolveCheckpoint, Checkpoint
<1>3. [checkpoints[id] EXCEPT !.status = status, !.resolved_by = human].consumed
          = checkpoints[id].consumed
  BY <1>1 DEF Checkpoint
<1>4. QED
  BY <1>1, <1>2, <1>3 DEF CheckpointTypeOK, SpendsNone, IsSpent, Exists

LEMMA SweepSpendsNone ==
    ASSUME CheckpointTypeOK, SweepExpired
    PROVE  SpendsNone
<1>1. ASSUME NEW id \in CheckpointId, IsSpent(id)'
      PROVE  IsSpent(id)
  <2>1. CASE id \in Expired
    <3>1. Exists(id)
      BY <2>1 DEF Expired, IsExpired, HasStatus
    <3>2. checkpoints[id] \in Checkpoint
      BY <3>1 DEF CheckpointTypeOK, Exists
    <3>3. [checkpoints[id] EXCEPT !.status = "expired"].consumed = checkpoints[id].consumed
      BY <3>2 DEF Checkpoint
    <3>4. checkpoints'[id] = [checkpoints[id] EXCEPT !.status = "expired"]
      BY <2>1 DEF SweepExpired
    <3>5. QED
      BY <1>1, <3>1, <3>3, <3>4 DEF IsSpent
  <2>2. CASE id \notin Expired
    BY <1>1, <2>2 DEF SweepExpired, IsSpent, Exists
  <2>3. QED
    BY <2>1, <2>2
<1>2. QED
  BY <1>1 DEF SpendsNone

(* The step that consumes owes the entry of the approval it consumed.      *)
SpendsOwn(c) ==
    /\ pc'[c] = "permit" /\ UNCHANGED token
    /\ Owes(EventOf("consumed", c, token[c]))
    /\ \A id \in CheckpointId : id # token[c] => checkpoints'[id] = checkpoints[id]

LEMMA NextSpends ==
    ASSUME TypeInv, [Next]_vars
    PROVE  SpendsNone \/ \E c \in Call : SpendsOwn(c)
<1>1. CheckpointTypeOK
  BY DEF TypeInv, TypeOK
<1>2. UNCHANGED checkpoints => SpendsNone
  BY DEF SpendsNone, IsSpent, Exists
<1>3. ASSUME NEW c \in Call, NEW from, NEW bound_params,
             CreateAndReturn(c, from, bound_params)
      PROVE  SpendsNone
  <2>1. c \in CheckpointId
    BY GovernorAssumption
  <2>2. PICK now \in 0 .. clock :
            CreateCheckpoint(c, request[c].action, request[c].ttl, bound_params, now)
    BY <1>3 DEF CreateAndReturn
  <2>3. QED
    BY <1>1, <2>1, <2>2, CreateSpendsNone
<1>4. ASSUME NEW c \in Call, CallStep(c)
      PROVE  SpendsNone \/ SpendsOwn(c)
  <2>1. CASE CreateForPolicy(c) \/ RequestApproval(c)
    BY <1>2, <1>3, <2>1 DEF CreateForPolicy, RequestApproval, checkpointVars
  <2>2. CASE ConsumeApproval(c)
    <3>1. CASE UNCHANGED checkpointVars
      BY <1>2, <3>1 DEF checkpointVars
    <3>2. CASE /\ ConsumeCheckpoint(token[c], request[c].action, BoundCall(request[c]))
               /\ Continue(c, "consume", "permit")
               /\ Owes(EventOf("consumed", c, token[c]))
      <4>1. pc'[c] = "permit" /\ UNCHANGED token
        BY <3>2, Continues
      <4>2. \A id \in CheckpointId : id # token[c] => checkpoints'[id] = checkpoints[id]
        BY <1>1, <3>2 DEF ConsumeCheckpoint, CheckpointTypeOK
      <4>3. QED
        BY <3>2, <4>1, <4>2 DEF SpendsOwn
    <3>3. QED
      BY <2>2, <3>1, <3>2 DEF ConsumeApproval
  <2>3. CASE \/ Begin(c) \/ BeginDirect(c) \/ CheckKillSwitch(c) \/ CheckAuthority(c)
             \/ EvaluatePolicy(c) \/ CheckThreshold(c) \/ CheckAndRecord(c)
    BY <1>2, <2>3
    DEF Begin, BeginDirect, CheckKillSwitch, CheckAuthority, EvaluatePolicy,
        CheckThreshold, CheckAndRecord, checkpointVars
  <2>4. QED
    BY <1>4, <2>1, <2>2, <2>3 DEF CallStep
<1>5. ASSUME NEW e \in unlogged, AppendEntry(e) \/ AppendFails(e)
      PROVE  SpendsNone
  BY <1>2, <1>5 DEF AppendEntry, AppendFails, checkpointVars
<1>6. CASE Environment
  <2>1. ASSUME NEW id \in CheckpointId, NEW human \in Approver,
               NEW status \in {"approved", "rejected"}, ResolveBy(id, status, human)
        PROVE  SpendsNone
    BY <1>1, <2>1, ResolveSpendsNone DEF ResolveBy
  <2>2. CASE Sweep
    BY <1>1, <2>2, SweepSpendsNone DEF Sweep
  <2>3. CASE \/ Engage \/ Clear \/ RevokeAuthority \/ NewSession \/ TimePasses
             \/ \E choice \in ScopeChoices : Reregister(choice[1], choice[2])
    BY <1>2, <2>3
    DEF Engage, Clear, RevokeAuthority, NewSession, TimePasses, Tick, Reregister,
        checkpointVars
  <2>4. QED
    BY <1>6, <2>1, <2>2, <2>3 DEF Environment
<1>7. CASE UNCHANGED vars
  BY <1>2, <1>7 DEF vars, checkpointVars
<1>8. QED
  BY <1>4, <1>5, <1>6, <1>7 DEF Next

(* An own step presents the same checkpoint.                               *)
LEMMA OwnTokenKept ==
    ASSUME TypeInv, NEW c \in Call, CallStep(c), pc[c] # "idle"
    PROVE  UNCHANGED token /\ pc'[c] # "idle"
<1>1. ~Begin(c) /\ ~BeginDirect(c)
  BY DEF Begin, BeginDirect
<1>2. UNCHANGED token
  BY <1>1 DEF CallStep, CheckKillSwitch, CheckAuthority, EvaluatePolicy,
     CreateForPolicy, CheckThreshold, RequestApproval, CreateAndReturn,
     ConsumeApproval, CheckAndRecord, Continue, Return, Raise, Deny, Goto
<1>3. ASSUME NEW from, NEW to, Continue(c, from, to), to # "idle"
      PROVE  pc'[c] # "idle"
  BY <1>3, Continues
<1>4. ASSUME NEW from, NEW result, Return(c, from, result)
      PROVE  pc'[c] # "idle"
  BY <1>4, Returns
<1>5. ASSUME CheckKillSwitch(c) \/ CheckAuthority(c) \/ EvaluatePolicy(c)
      PROVE  pc'[c] # "idle"
  BY <1>3, <1>4, <1>5 DEF CheckKillSwitch, CheckAuthority, EvaluatePolicy, Raise, Deny
<1>6. ASSUME CreateForPolicy(c) \/ RequestApproval(c)
      PROVE  pc'[c] # "idle"
  BY <1>4, <1>6 DEF CreateForPolicy, RequestApproval, CreateAndReturn
<1>7. ASSUME CheckThreshold(c) \/ ConsumeApproval(c) \/ CheckAndRecord(c)
      PROVE  pc'[c] # "idle"
  BY <1>3, <1>4, <1>7 DEF CheckThreshold, ConsumeApproval, CheckAndRecord, Raise, Deny
<1>8. QED
  BY <1>1, <1>2, <1>5, <1>6, <1>7 DEF CallStep

(* Whoever spent an approval still has it to show after any step.          *)
LEMMA SpenderStays ==
    ASSUME EvidenceInv, [Next]_vars, NEW c \in Call, NEW id, Spender(c, id)
    PROVE  Spender(c, id)'
<1> DEFINE e == EventOf("consumed", c, id)
<1>1. TypeInv /\ OwnersNamed /\ Evidence(c)
  BY DEF EvidenceInv
<1>2. e.call = c
  BY EntryNames
<1> HIDE DEF e
<1>3. CASE Untouched(c)
  <2>1. e \in Log => e \in Log'
    BY <1>2, <1>3 DEF Untouched, Log
  <2>2. QED
    BY <1>3, <2>1 DEF Untouched, Spender, e
<1>4. CASE Failed(c)
  <2>1. outcome'[c].raised = "audit"
    BY <1>4 DEF Failed, AppendRaised, Result
  <2>2. outcome'[c] # None
    <3>1. TypeInv'
      BY <1>1, TypeNext
    <3>2. QED
      BY <1>4, <3>1 DEF Failed, TypeInv, CallShape, Shaped
  <2>3. QED
    BY <1>4, <2>1, <2>2 DEF Failed, Spender
<1>5. CASE CallStep(c)
  <2>1. pc[c] # "done" /\ pc[c] # "idle"
    BY <1>1, <1>5, StepOpens DEF Spender
  <2>2. outcome[c] = None
    BY <1>1, <2>1 DEF TypeInv, CallShape, Shaped
  <2>3. e \in Log
    BY <2>2 DEF Spender, e
  <2>4. LogKept
    BY <1>1, <1>5, OwnLogKept
  <2>5. UNCHANGED token /\ pc'[c] # "idle"
    BY <1>1, <1>5, <2>1, OwnTokenKept
  <2>6. QED
    BY <2>3, <2>4, <2>5 DEF Spender, LogKept, e
<1>6. QED
  BY <1>1, <1>3, <1>4, <1>5, StepFrom

RecordInv == EvidenceInv /\ SpenderKnown

LEMMA RecordNext ==
    ASSUME RecordInv, [Next]_vars
    PROVE  RecordInv'
<1>1. EvidenceInv /\ EvidenceInv' /\ TypeInv
  BY EvidenceNext DEF RecordInv, EvidenceInv
<1>2. \A id \in CheckpointId : (\E c \in Call : Spender(c, id)) =>
          \E c \in Call : Spender(c, id)'
  BY <1>1, SpenderStays
<1>3. ASSUME SpendsNone
      PROVE  SpenderKnown'
  BY <1>2, <1>3 DEF RecordInv, SpenderKnown, SpendsNone
<1>4. ASSUME NEW c \in Call, SpendsOwn(c)
      PROVE  SpenderKnown'
  <2>1. Spender(c, token[c])'
    BY <1>4 DEF SpendsOwn, Spender, Owes, Log
  <2>2. \A id \in CheckpointId : id # token[c] => (IsSpent(id)' => IsSpent(id))
    BY <1>4 DEF SpendsOwn, IsSpent, Exists
  <2>3. \A id \in CheckpointId : IsSpent(id)' => \E d \in Call : Spender(d, id)'
    <3> SUFFICES ASSUME NEW id \in CheckpointId, IsSpent(id)'
                 PROVE  \E d \in Call : Spender(d, id)'
      OBVIOUS
    <3>1. CASE id = token[c]
      <4>1. Spender(c, id)'
        BY <1>4, <2>1, <3>1 DEF SpendsOwn, Spender, Owes, Log
      <4>2. QED
        BY <4>1
    <3>2. CASE id # token[c]
      BY <1>2, <2>2, <3>2 DEF RecordInv, SpenderKnown
    <3>3. QED
      BY <3>1, <3>2
  <2>4. QED
    BY <2>3 DEF SpenderKnown
<1>5. SpenderKnown'
  BY <1>1, <1>3, <1>4, NextSpends
<1>6. QED
  BY <1>1, <1>5 DEF RecordInv

(* To whoever is told an answer, the record agrees with it.                *)
Agrees(c) ==
    LET logged(type, about) == EventOf(type, c, about) \in audit
        told == outcome[c]
    IN  /\ told.allowed => logged("policy_decision", "allow")
        /\ told.denial_reason = "policy" => logged("policy_decision", "block")
        /\ told.checkpoint # None => logged("created", told.checkpoint)
        /\ logged("tool_call_allowed", None) <=> told.allowed /\ request[c].tool # None
        /\ logged("tool_call_denied", None) <=> told.denial_reason = "permission"
        /\ logged("authority_not_current", None) <=> told.denial_reason = "authority"

LEMMA AnswerOnRecord ==
    ASSUME NEW c \in Call, Evidence(c), Returned(c), outcome[c].raised # "audit"
    PROVE  Agrees(c)
<1>1. pc[c] = "done"
  BY DEF Returned
<1>2. \A type, about : EventOf(type, c, about) \in Log <=> EventOf(type, c, about) \in audit
  BY EntryNames DEF Returned, Settled, Log
<1>3. outcome[c] # AppendRaised
  BY DEF AppendRaised, Result
<1>4. \A type \in Closing : EventOf(type, c, None) \in Log => outcome[c] = Told[type]
  BY <1>3 DEF Evidence, ClosingTells
<1>5. /\ outcome[c].allowed => EventOf("policy_decision", c, "allow") \in audit
      /\ outcome[c].denial_reason = "policy" =>
             EventOf("policy_decision", c, "block") \in audit
      /\ outcome[c].checkpoint # None =>
             EventOf("created", c, outcome[c].checkpoint) \in audit
  BY <1>1, <1>2 DEF Evidence, PassOnRecord, Passed, RefusalOnRecord
<1>6. EventOf("tool_call_allowed", c, None) \in audit <=>
          outcome[c].allowed /\ request[c].tool # None
  <2>1. EventOf("tool_call_allowed", c, None) \in Log =>
            outcome[c].allowed /\ request[c].tool # None
    <3>1. Told["tool_call_allowed"].allowed
      BY DEF Told, Result
    <3>2. QED
      BY <1>4, <3>1, ClosingTypes DEF Evidence, ToolNamed
  <2>2. outcome[c].allowed /\ request[c].tool # None =>
            EventOf("tool_call_allowed", c, None) \in Log
    BY <1>1 DEF Evidence, PassOnRecord
  <2>3. QED
    BY <1>2, <2>1, <2>2
<1>7. EventOf("tool_call_denied", c, None) \in audit <=>
          outcome[c].denial_reason = "permission"
  <2>1. Told["tool_call_denied"].denial_reason = "permission"
    BY DEF Told, Result
  <2>2. EventOf("tool_call_denied", c, None) \in Log =>
            outcome[c].denial_reason = "permission"
    BY <1>4, <2>1, ClosingTypes
  <2>3. QED
    BY <1>1, <1>2, <2>2 DEF Evidence, RefusalOnRecord
<1>8. EventOf("authority_not_current", c, None) \in audit <=>
          outcome[c].denial_reason = "authority"
  <2>1. Told["authority_not_current"].denial_reason = "authority"
    BY DEF Told, Result
  <2>2. EventOf("authority_not_current", c, None) \in Log =>
            outcome[c].denial_reason = "authority"
    BY <1>4, <2>1, ClosingTypes
  <2>3. QED
    BY <1>1, <1>2, <2>2 DEF Evidence, RefusalOnRecord
<1>9. QED
  BY <1>5, <1>6, <1>7, <1>8 DEF Agrees

(* EvidenceComplete for every governor: whatever the other actors do and   *)
(* whichever appends raise, their entries written or not, whoever is told  *)
(* an answer has the entries of that answer on record and none of another, *)
(* an entry that closes an invocation is of one that ended, and every      *)
(* approval spent is on record or the subject of a failed append.          *)
THEOREM EvidenceAgrees == Spec => []EvidenceComplete
<1>1. Init => RecordInv
  <2>1. Init => \A id \in CheckpointId : ~Exists(id)
    BY DEF Init, CheckpointInit, Exists
  <2>2. QED
    BY <2>1, EvidenceInit DEF RecordInv, SpenderKnown, IsSpent
<1>2. RecordInv /\ [Next]_vars => RecordInv'
  BY RecordNext
<1>3. RecordInv => EvidenceComplete
  <2> SUFFICES ASSUME RecordInv
               PROVE  EvidenceComplete
    OBVIOUS
  <2>1. SpentOnRecord
    BY DEF RecordInv, SpenderKnown, Spender, IsSpent, SpentOnRecord, Log
  <2>2. ASSUME NEW c \in Call, Returned(c), outcome[c].raised # "audit"
        PROVE  Agrees(c)
    BY <2>2, AnswerOnRecord DEF RecordInv, EvidenceInv
  <2>3. ASSUME NEW c \in Call, NEW type \in Closing, EventOf(type, c, None) \in audit
        PROVE  Returned(c)
    BY <2>3 DEF RecordInv, EvidenceInv, Evidence, ClosingTells, Log, Returned
  <2>4. QED
    BY <2>1, <2>2, <2>3, ClosingTypes DEF EvidenceComplete, Agrees
<1>4. QED
  BY <1>1, <1>2, <1>3, PTL DEF Spec

-----------------------------------------------------------------------------
(* No claimed tier counts beyond the approved one. *)

CeilingInv == EvidenceInv /\ \A c \in Call : UnderTheCeiling(c)

LEMMA OwnCeiling ==
    ASSUME TypeInv, NEW c \in Call, UnderTheCeiling(c), CallStep(c), UNCHANGED scopes
    PROVE  UnderTheCeiling(c)'
<1> DEFINE r == request[c]
<1>1. ASSUME Passed(c)'
      PROVE  /\ request'[c] = r
             /\ Evaluate(Rules, r.action, r.confidence, EffectiveLevel(r)) = "allow"
  <2>1. CASE pc[c] \in {"tool", "consume", "permit"}
    BY <1>1, <2>1, OwnStep DEF UnderTheCeiling, Passed
  <2>2. CASE Evaluate(Rules, r.action, r.confidence, EffectiveLevel(r)) = "allow"
    BY <1>1, <2>2, OwnStep
  <2>3. QED
    BY <1>1, <2>1, <2>2, OwnStep
<1>2. ASSUME pc'[c] = "done", outcome'[c].allowed, request'[c].tool # None
      PROVE  AtLeast(EffectiveLevel(r), scopes[r.tool].minimum_autonomy)
  <2>1. Passed(c)'
    BY <1>2 DEF Passed
  <2>2. /\ UNCHANGED request
        /\ CheckThreshold(c) \/ ConsumeApproval(c) \/ CheckAndRecord(c)
    BY <1>2, <2>1, OwnStep
  <2>3. \A from, to : Continue(c, from, to) => to = "done"
    BY <1>2, Continues
  <2>4. ~CheckThreshold(c)
    BY <1>2, <2>2, <2>3 DEF CheckThreshold
  <2>5. ~ConsumeApproval(c)
    <3>1. ~Deny(c, "consume", "approval")
      BY <2>1, Refuses DEF Deny
    <3>2. QED
      BY <2>3, <3>1 DEF ConsumeApproval
  <2>6. CheckAndRecord(c) /\ ~Deny(c, "permit", "permission") /\ ~Raise(c, "permit", "audit")
    BY <2>1, <2>2, <2>4, <2>5, Refuses DEF Deny, Raise
  <2>7. Permitted(r.tool, EffectiveLevel(r), r.params)
    BY <2>6 DEF CheckAndRecord
  <2>8. QED
    BY <2>7 DEF Permitted
<1>3. QED
  BY <1>1, <1>2 DEF UnderTheCeiling, Passed

LEMMA CeilingNext ==
    ASSUME ScopeChoices = {}, CeilingInv, [Next]_vars
    PROVE  CeilingInv'
<1>1. EvidenceInv'
  BY EvidenceNext DEF CeilingInv
<1>2. UNCHANGED scopes
  BY ScopesFixed
<1>3. ASSUME NEW c \in Call
      PROVE  UnderTheCeiling(c)'
  <2>1. TypeInv /\ OwnersNamed /\ UnderTheCeiling(c)
    BY DEF CeilingInv, EvidenceInv
  <2>2. CASE CallStep(c)
    BY <1>2, <2>1, <2>2, OwnCeiling
  <2>3. CASE Failed(c)
    BY <2>3 DEF Failed, AppendRaised, UnderTheCeiling, Passed, Result
  <2>4. CASE Untouched(c)
    BY <1>2, <2>1, <2>4 DEF Untouched, UnderTheCeiling, Passed
  <2>5. QED
    BY <2>1, <2>2, <2>3, <2>4, StepFrom
<1>4. QED
  BY <1>1, <1>3 DEF CeilingInv

(* NothingAboveTheCeiling for every governor with an approved ceiling:     *)
(* while no scope is registered after the set-up, a call is allowed only   *)
(* where the policy and the tool both admit the clamped tier.              *)
THEOREM CeilingHolds ==
    ASSUME ScopeChoices = {}
    PROVE  Spec => []NothingAboveTheCeiling
<1>1. Init => CeilingInv
  <2>1. Init => \A c \in Call : pc[c] = "idle"
    BY DEF Init
  <2>2. QED
    BY <2>1, EvidenceInit DEF CeilingInv, UnderTheCeiling, Passed
<1>2. CeilingInv /\ [Next]_vars => CeilingInv'
  BY CeilingNext
<1>3. CeilingInv => NothingAboveTheCeiling
  <2> SUFFICES ASSUME CeilingInv, ApprovedCeiling # None, NEW c \in Call, Allowed(c)
               PROVE  LET r == request[c]
                          level == IF r.level > ApprovedCeiling
                                   THEN ApprovedCeiling ELSE r.level
                      IN  /\ Evaluate(Rules, r.action, r.confidence, level) = "allow"
                          /\ r.tool # None => AtLeast(level, scopes[r.tool].minimum_autonomy)
    BY DEF NothingAboveTheCeiling
  <2>1. UnderTheCeiling(c) /\ pc[c] = "done" /\ outcome[c].allowed
    BY DEF CeilingInv, Allowed, Returned
  <2>2. QED
    BY <2>1 DEF UnderTheCeiling, Passed, EffectiveLevel
<1>4. QED
  BY <1>1, <1>2, <1>3, PTL DEF Spec

-----------------------------------------------------------------------------
(* A refusal is explained. *)

ExplainedInv == EvidenceInv /\ \A c \in Call : Explained(c)

(* A refusal that names its reason, its exception or its checkpoint.       *)
LEMMA RefusalExplained ==
    ASSUME TypeInv, NEW c \in Call, NEW from, NEW checkpoint, NEW reason, NEW raised,
           Return(c, from, Result(FALSE, checkpoint, reason, raised)),
           \/ raised # None
           \/ checkpoint = None /\ reason # None
           \/ checkpoint = c /\ reason = None /\ Exists(c)'
    PROVE  Explained(c)'
<1>1. pc'[c] = "done" /\ outcome'[c] = Result(FALSE, checkpoint, reason, raised)
  BY Returns
<1>2. /\ outcome'[c].checkpoint = checkpoint /\ outcome'[c].denial_reason = reason
      /\ outcome'[c].raised = raised
  BY <1>1 DEF Result
<1>3. QED
  BY <1>1, <1>2 DEF Explained

LEMMA ContinueExplained ==
    ASSUME TypeInv, NEW c \in Call, NEW from, NEW to, to \notin {"request", "done"},
           Continue(c, from, to)
    PROVE  Explained(c)'
BY Continues DEF Explained

(* c returns the checkpoint it has created.                                *)
LEMMA CreationExplained ==
    ASSUME TypeInv, NEW c \in Call, NEW from, from \in Step \ {"idle", "done"},
           NEW bound_params \in BoundParams \cup {None},
           CreateAndReturn(c, from, bound_params)
    PROVE  Explained(c)'
<1>1. PICK now \in 0 .. clock :
          CreateCheckpoint(c, request[c].action, request[c].ttl, bound_params, now)
  BY DEF CreateAndReturn
<1> DEFINE expires_at == ExpiresAt(request[c].ttl, now)
           made == [action |-> request[c].action, status |-> "pending",
                    resolved_by |-> None, expires_at |-> expires_at,
                    bound_params |-> bound_params, consumed |-> FALSE]
<1>2. checkpoints'[c] = made
  BY <1>1, GovernorAssumption DEF CreateCheckpoint, TypeInv, TypeOK, CheckpointTypeOK
<1>3. made # None
  <2>1. request[c].action \in Action /\ request[c].ttl \in Ttl
    BY RequestTyped DEF CreateAndReturn, Return, Goto
  <2>2. expires_at \in Int \cup {None}
    <3>1. CheckpointTypeOK
      BY DEF TypeInv, TypeOK
    <3>2. \A ttl \in Ttl : ExpiresAt(ttl, now) \in Int \cup {None}
      BY <3>1, CheckpointAssumption DEF ExpiresAt, CheckpointTypeOK
    <3>3. QED
      BY <2>1, <3>2
  <2> HIDE DEF expires_at
  <2>3. made \in Checkpoint
    BY <2>1, <2>2 DEF Checkpoint, CheckpointStatus
  <2>4. QED
    BY <2>3, AbsenceAssumption
<1>4. QED
  BY <1>2, <1>3, RefusalExplained DEF CreateAndReturn, Exists

LEMMA OwnExplained ==
    ASSUME TypeInv, NEW c \in Call, Explained(c), CallStep(c), UNCHANGED scopes
    PROVE  Explained(c)'
<1>1. CASE Begin(c) \/ BeginDirect(c)
  BY <1>1 DEF Begin, BeginDirect, Explained, TypeInv, TypeOK, CallTypeOK
<1>2. CASE CheckKillSwitch(c)
  BY <1>2, ContinueExplained, RefusalExplained, OutcomeAssumption
  DEF CheckKillSwitch, Raise, Exception
<1>3. CASE CheckAuthority(c)
  BY <1>3, ContinueExplained, RefusalExplained, OutcomeAssumption
  DEF CheckAuthority, Deny, Denial
<1>4. CASE EvaluatePolicy(c)
  BY <1>4, ContinueExplained, RefusalExplained, OutcomeAssumption
  DEF EvaluatePolicy, Deny, Raise, Denial, Exception
<1>5. CASE CreateForPolicy(c)
  BY <1>5, CreationExplained DEF CreateForPolicy, Step
<1>6. CASE CheckThreshold(c)
  <2>1. CASE Return(c, "tool", Result(TRUE, None, None, None))
    BY <2>1, Returns DEF Explained, Result
  <2>2. CASE Continue(c, "tool", "permit") \/ Continue(c, "tool", "consume")
    BY <2>2, ContinueExplained
  <2>3. CASE AboveThreshold(c) /\ Continue(c, "tool", "request")
    <3>1. AboveThreshold(c)' /\ pc'[c] # "done"
      BY <2>3, Continues DEF AboveThreshold, RequiresApproval
    <3>2. QED
      BY <3>1 DEF Explained
  <2>4. QED
    BY <1>6, <2>1, <2>2, <2>3 DEF CheckThreshold, AboveThreshold
<1>7. CASE RequestApproval(c)
  <2> DEFINE required == RequiresApproval(request[c].tool, request[c].params)
  <2>1. CASE CreateAndReturn(c, pc[c], BoundCall(request[c]))
    <3>1. pc[c] \in Step \ {"idle", "done"}
      BY <1>7 DEF RequestApproval, Step
    <3>2. BoundCall(request[c]) \in BoundParams
      BY <3>1, RequestTyped
    <3>3. QED
      BY <2>1, <3>1, <3>2, CreationExplained
  <2>2. CASE ~required /\ Return(c, "request", Result(FALSE, None, None, None))
    BY <2>2, Returns DEF Explained, AboveThreshold
  <2>3. CASE Return(c, "direct", Result(FALSE, None, "not_required", None))
    BY <2>3, RefusalExplained, OutcomeAssumption DEF Denial
  <2>4. QED
    BY <1>7, <2>1, <2>2, <2>3 DEF RequestApproval
<1>8. CASE ConsumeApproval(c)
  BY <1>8, ContinueExplained, RefusalExplained, OutcomeAssumption
  DEF ConsumeApproval, Deny, Denial
<1>9. CASE CheckAndRecord(c)
  <2>1. CASE Return(c, "permit", Result(TRUE, None, None, None))
    BY <2>1, Returns DEF Explained, Result
  <2>2. CASE Deny(c, "permit", "permission")
    BY <2>2, RefusalExplained, OutcomeAssumption DEF Deny, Denial
  <2>3. CASE Raise(c, "permit", "audit")
    BY <2>3, RefusalExplained, OutcomeAssumption DEF Raise, Exception
  <2>4. QED
    BY <1>9, <2>1, <2>2, <2>3 DEF CheckAndRecord
<1>10. QED
  BY <1>1, <1>2, <1>3, <1>4, <1>5, <1>6, <1>7, <1>8, <1>9 DEF CallStep

LEMMA ExplainedNext ==
    ASSUME ScopeChoices = {}, ExplainedInv, [Next]_vars
    PROVE  ExplainedInv'
<1>1. EvidenceInv'
  BY EvidenceNext DEF ExplainedInv
<1>2. UNCHANGED scopes
  BY ScopesFixed
<1>3. ASSUME NEW c \in Call
      PROVE  Explained(c)'
  <2>1. TypeInv /\ OwnersNamed /\ Explained(c) /\ c \in CheckpointId
    BY GovernorAssumption DEF ExplainedInv, EvidenceInv
  <2>2. CASE CallStep(c)
    BY <1>2, <2>1, <2>2, OwnExplained
  <2>3. CASE Failed(c)
    <3>1. pc'[c] = "done" /\ outcome'[c].raised # None
      BY <2>3, OutcomeAssumption DEF Failed, AppendRaised, Result, Exception
    <3>2. QED
      BY <3>1 DEF Explained
  <2>4. CASE Untouched(c)
    <3>1. Exists(c) => Exists(c)'
      BY <2>1, NextKeeps DEF CheckpointsKept, Keeps, Exists
    <3>2. AboveThreshold(c) => AboveThreshold(c)'
      BY <1>2, <2>4 DEF Untouched, AboveThreshold, RequiresApproval
    <3>3. QED
      BY <2>1, <2>4, <3>1, <3>2 DEF Untouched, Explained
  <2>5. QED
    BY <2>1, <2>2, <2>3, <2>4, StepFrom
<1>4. QED
  BY <1>1, <1>3 DEF ExplainedInv

(* DenialExplained for every governor: while no scope is registered after  *)
(* the set-up, a refusal hands back either its reason or the checkpoint to *)
(* wait on, and that checkpoint is one the store knows and the log tells.  *)
THEOREM RefusalsExplained ==
    ASSUME ScopeChoices = {}
    PROVE  Spec => []DenialExplained
<1>1. Init => ExplainedInv
  <2>1. Init => \A c \in Call : pc[c] = "idle"
    BY DEF Init
  <2>2. QED
    BY <2>1, EvidenceInit DEF ExplainedInv, Explained
<1>2. ExplainedInv /\ [Next]_vars => ExplainedInv'
  BY ExplainedNext
<1>3. ExplainedInv => DenialExplained
  <2> SUFFICES ASSUME ExplainedInv, NEW c \in Call, Returned(c),
                      ~outcome[c].allowed, outcome[c].raised = None
               PROVE  /\ outcome[c].checkpoint = None <=> outcome[c].denial_reason # None
                      /\ outcome[c].checkpoint # None => Known(outcome[c].checkpoint)
    BY DEF DenialExplained
  <2>1. Explained(c) /\ RefusalOnRecord(c) /\ c # None
    BY GovernorAssumption DEF ExplainedInv, EvidenceInv, Evidence
  <2>2. CASE outcome[c].checkpoint = None /\ outcome[c].denial_reason # None
    BY <2>2
  <2>3. CASE /\ outcome[c].checkpoint = c /\ outcome[c].denial_reason = None
             /\ Exists(c)
    <3>1. EventOf("created", c, c) \in audit
      <4>1. EventOf("created", c, c) \in Log
        BY <2>1, <2>3 DEF RefusalOnRecord, Returned
      <4>2. QED
        BY <4>1, EntryNames DEF Returned, Settled, Log
    <3>2. QED
      BY <2>1, <2>3, <3>1 DEF Known
  <2>4. QED
    BY <2>1, <2>2, <2>3 DEF Explained, Returned
<1>4. QED
  BY <1>1, <1>2, <1>3, PTL DEF Spec

-----------------------------------------------------------------------------
(* The same as ActsOnApprovalOnly at the instant of the grant. *)

GrantInv == EvidenceInv /\ ApprovalInv

(* GrantsAreApproved, which fails once a threshold may be lowered between  *)
(* requires_approval and check_and_record, holds of every governor whose   *)
(* scopes stay those of the set-up: the step that grants a call above its  *)
(* threshold finds the entry of the spent approval in the log.             *)
THEOREM GrantsOnApproval ==
    ASSUME ScopeChoices = {}
    PROVE  Spec => GrantsAreApproved
<1>1. Init => GrantInv
  <2>1. Init => ApprovalInv
    BY InitTyped DEF Init, ApprovalInv, ActingHoldsApproval, Acting
  <2>2. QED
    BY <2>1, EvidenceInit DEF GrantInv
<1>2. GrantInv /\ [Next]_vars => GrantInv'
  BY EvidenceNext, ApprovalNext DEF GrantInv
<1>3. GrantInv /\ [Next]_vars =>
          [\A c \in Call : Granted(c) /\ AboveThreshold(c) => Spent(c)]_vars
  <2> SUFFICES ASSUME GrantInv, [Next]_vars, NEW c \in Call, Granted(c), AboveThreshold(c)
               PROVE  Spent(c)
    OBVIOUS
  <2>1. TypeInv /\ TypeInv' /\ OwnersNamed /\ ActingHoldsApproval
    BY TypeNext DEF GrantInv, ApprovalInv, EvidenceInv
  <2>2. pc'[c] = "done" /\ outcome'[c].allowed
    BY <2>1 DEF Granted, TypeInv, CallShape, Shaped
  <2>3. ~Untouched(c) /\ ~Failed(c)
    BY <2>2 DEF Granted, Untouched, Failed, AppendRaised, Result
  <2>4. CallStep(c) /\ Passed(c)'
    BY <2>1, <2>2, <2>3, StepFrom DEF Passed
  <2>5. /\ \A from, to : Continue(c, from, to) => to = "done"
        /\ \A from, reason : ~Deny(c, from, reason)
    BY <2>1, <2>2, <2>4, Continues, Refuses DEF Deny
  <2>6. ~EvaluatePolicy(c) /\ ~ConsumeApproval(c) /\ ~CheckThreshold(c)
    <3>1. ~EvaluatePolicy(c)
      <4>1. ~Raise(c, "policy", "confidence")
        BY <2>1, <2>4, Refuses DEF Raise
      <4>2. QED
        BY <2>5, <4>1 DEF EvaluatePolicy
    <3>2. ~ConsumeApproval(c)
      BY <2>5 DEF ConsumeApproval
    <3>3. ~CheckThreshold(c)
      BY <2>5 DEF CheckThreshold, AboveThreshold
    <3>4. QED
      BY <3>1, <3>2, <3>3
  <2>7. CheckAndRecord(c)
    BY <2>1, <2>4, <2>6, OwnStep
  <2>8. pc[c] = "permit" /\ Settled(c)
    BY <2>7 DEF CheckAndRecord, Return, Deny, Raise, Goto
  <2>9. EventOf("consumed", c, token[c]) \in Log
    BY <2>1, <2>8 DEF ActingHoldsApproval, Acting, HoldsApproval
  <2>10. QED
    BY <2>8, <2>9, EntryNames DEF Settled, Spent, Log
<1>4. QED
  BY <1>1, <1>2, <1>3, PTL DEF Spec, GrantsAreApproved

-----------------------------------------------------------------------------
(***************************************************************************)
(* The governor implements ApprovalTickets: every step of an invocation,   *)
(* of a human, of the sweeper or of the operator is one step of a ticket,  *)
(* one act on a ticket, or none of either.                                 *)
(***************************************************************************)
(* What the mapping needs to know of the detailed state: only an approved  *)
(* checkpoint is ever spent, and a sweep's entries belong to no invocation.*)

ConsumedApproved ==
    \A id \in CheckpointId :
        Exists(id) /\ checkpoints[id].consumed => checkpoints[id].status = "approved"

SweepsOwnNothing == \A e \in unlogged : e.type = "expired" => e.call = None

RefinementInv ==
    /\ TypeInv
    /\ ConsumedOnRecord
    /\ ApprovalSpentOnce
    /\ ActingHoldsApproval
    /\ ConsumedApproved
    /\ SweepsOwnNothing

TicketOf(id) ==
    [purpose |-> <<checkpoints[id].action, checkpoints[id].bound_params>>,
     stage |-> IF checkpoints[id].consumed THEN "torn"
               ELSE StageOf[checkpoints[id].status]]

LEMMA StageIs ==
    /\ StageOf["pending"] = "asked"
    /\ StageOf["approved"] = "granted"
    /\ StageOf["rejected"] = "refused"
    /\ StageOf["expired"] = "lapsed"
BY DEF StageOf

LEMMA TicketTyped ==
    ASSUME TypeInv, NEW id \in CheckpointId
    PROVE  /\ ~Exists(id) => ticket[id] = None
           /\ Exists(id) => /\ checkpoints[id] \in Checkpoint
                            /\ ticket[id] = TicketOf(id)
                            /\ TicketOf(id) \in [purpose : Purpose, stage : Tickets!Stage]
                            /\ ticket[id] # None
<1>1. ~Exists(id) => ticket[id] = None
  BY DEF ticket
<1>2. ASSUME Exists(id)
      PROVE  /\ checkpoints[id] \in Checkpoint
             /\ ticket[id] = TicketOf(id)
             /\ TicketOf(id) \in [purpose : Purpose, stage : Tickets!Stage]
  <2>1. checkpoints[id] \in Checkpoint
    BY <1>2 DEF TypeInv, TypeOK, CheckpointTypeOK, Exists
  <2>2. ticket[id] = TicketOf(id)
    BY <1>2 DEF ticket, TicketOf
  <2>3. StageOf[checkpoints[id].status] \in Tickets!Stage
    <3>1. checkpoints[id].status \in CheckpointStatus
      BY <2>1 DEF Checkpoint
    <3>2. QED
      BY <3>1, StageIs DEF CheckpointStatus, Tickets!Stage
  <2>4. TicketOf(id) \in [purpose : Purpose, stage : Tickets!Stage]
    <3>1. <<checkpoints[id].action, checkpoints[id].bound_params>> \in Purpose
      BY <2>1 DEF Checkpoint, Purpose
    <3>2. QED
      BY <2>3, <3>1 DEF TicketOf, Tickets!Stage
  <2>5. QED
    BY <2>1, <2>2, <2>4
<1>3. QED
  BY <1>1, <1>2, TicketAssumption

(* The ticket a checkpoint shows, by its status.                           *)
LEMMA StandsTyped ==
    ASSUME TypeInv, ConsumedApproved, NEW id \in CheckpointId, Exists(id)
    PROVE  /\ checkpoints[id].status = "pending" => Tickets!Stands(id, "asked")
           /\ checkpoints[id].status = "approved" /\ ~checkpoints[id].consumed =>
                  Tickets!Stands(id, "granted")
           /\ checkpoints[id].consumed => Tickets!Stands(id, "torn")
<1>1. /\ checkpoints[id] \in Checkpoint
      /\ ticket[id] = TicketOf(id)
      /\ ticket[id] # None
  BY TicketTyped
<1>2. checkpoints[id].status = "pending" => ~checkpoints[id].consumed
  BY DEF ConsumedApproved
<1>3. TicketOf(id).stage = IF checkpoints[id].consumed THEN "torn"
                           ELSE StageOf[checkpoints[id].status]
  BY DEF TicketOf
<1>4. QED
  BY <1>1, <1>2, <1>3, StageIs DEF Tickets!Stands

-----------------------------------------------------------------------------
(* Every step that writes the store is one step of a ticket. *)

TicketStep ==
    \/ \E id \in CheckpointId :
           \/ ticket[id] = None /\ Tickets!Ask(id)
           \/ /\ Tickets!Stands(id, "asked")
              /\ Tickets!Move(id, "granted") \/ Tickets!Move(id, "refused")
           \/ Tickets!Stands(id, "granted") /\ Tickets!Move(id, "torn")
    \/ Tickets!Lapse

Shows(checkpoint, stage) ==
    [purpose |-> <<checkpoint.action, checkpoint.bound_params>>, stage |-> stage]

(* A step that writes one checkpoint writes one ticket.                    *)
LEMMA OneTicket ==
    ASSUME NEW id \in CheckpointId, NEW new \in Checkpoint,
           checkpoints \in [CheckpointId -> Checkpoint \cup {None}],
           checkpoints' = [checkpoints EXCEPT ![id] = new]
    PROVE  /\ ticket' = [ticket EXCEPT ![id] =
                  Shows(new, IF new.consumed THEN "torn" ELSE StageOf[new.status])]
           /\ ConsumedApproved /\ (new.consumed => new.status = "approved") =>
                  ConsumedApproved'
<1>1. /\ checkpoints'[id] = new
      /\ new # None
      /\ \A other \in CheckpointId \ {id} : checkpoints'[other] = checkpoints[other]
  BY AbsenceAssumption
<1>2. ConsumedApproved /\ (new.consumed => new.status = "approved") => ConsumedApproved'
  BY <1>1 DEF ConsumedApproved, Exists
<1>3. ticket' = [ticket EXCEPT ![id] =
          Shows(new, IF new.consumed THEN "torn" ELSE StageOf[new.status])]
  BY <1>1 DEF ticket, Exists, Shows
<1>4. QED
  BY <1>2, <1>3

(* ... and where the checkpoint was there before, that is a move.          *)
LEMMA OneMove ==
    ASSUME TypeInv, NEW id \in CheckpointId, Exists(id), NEW new \in Checkpoint,
           new.action = checkpoints[id].action,
           new.bound_params = checkpoints[id].bound_params, NEW stage,
           ticket' = [ticket EXCEPT ![id] = Shows(new, stage)]
    PROVE  Tickets!Move(id, stage)
<1>1. ticket[id] = TicketOf(id)
  BY TicketTyped
<1>2. [TicketOf(id) EXCEPT !.stage = stage] = Shows(new, stage)
  BY DEF TicketOf, Shows
<1>3. QED
  BY <1>1, <1>2 DEF Tickets!Move

LEMMA CreateAsks ==
    ASSUME TypeInv, ConsumedApproved, NEW id \in CheckpointId, NEW action \in Action,
           NEW ttl \in Ttl, NEW bound_params \in BoundParams \cup {None},
           NEW now \in 0 .. clock, CreateCheckpoint(id, action, ttl, bound_params, now)
    PROVE  TicketStep /\ ConsumedApproved'
<1> DEFINE new == [action |-> action, status |-> "pending", resolved_by |-> None,
                   expires_at |-> ExpiresAt(ttl, now), bound_params |-> bound_params,
                   consumed |-> FALSE]
<1>1. CheckpointTypeOK
  BY DEF TypeInv, TypeOK
<1>2. ExpiresAt(ttl, now) \in Int \cup {None}
  BY <1>1, CheckpointAssumption DEF ExpiresAt, CheckpointTypeOK
<1>3. new \in Checkpoint
  BY <1>2 DEF Checkpoint, CheckpointStatus
<1>4. /\ checkpoints' = [checkpoints EXCEPT ![id] = new]
      /\ ~Exists(id)
  BY DEF CreateCheckpoint
<1>5. /\ ~new.consumed
      /\ new.status = "pending"
      /\ <<new.action, new.bound_params>> \in Purpose
  BY DEF Purpose
<1> HIDE DEF new
<1>6. /\ ticket' = [ticket EXCEPT ![id] = Shows(new, "asked")]
      /\ ConsumedApproved'
  BY <1>1, <1>3, <1>4, <1>5, OneTicket, StageIs DEF CheckpointTypeOK
<1>7. Tickets!Ask(id)
  BY <1>5, <1>6 DEF Tickets!Ask, Shows
<1>8. ticket[id] = None
  BY <1>4, TicketTyped
<1>9. QED
  BY <1>6, <1>7, <1>8 DEF TicketStep

LEMMA ResolveMoves ==
    ASSUME TypeInv, ConsumedApproved, NEW id \in CheckpointId,
           NEW status \in {"approved", "rejected"}, NEW human \in Approver,
           ResolveCheckpoint(id, status, human)
    PROVE  TicketStep /\ ConsumedApproved'
<1> DEFINE new == [checkpoints[id] EXCEPT !.status = status, !.resolved_by = human]
<1>1. /\ checkpoints \in [CheckpointId -> Checkpoint \cup {None}]
      /\ Exists(id)
      /\ checkpoints[id] \in Checkpoint
      /\ checkpoints[id].status = "pending"
  BY DEF TypeInv, TypeOK, CheckpointTypeOK, ResolveCheckpoint, IsResolved, Exists
<1>2. checkpoints' = [checkpoints EXCEPT ![id] = new]
  BY <1>1 DEF ResolveCheckpoint, Checkpoint
<1>3. ~checkpoints[id].consumed
  BY <1>1 DEF ConsumedApproved
<1>4. /\ new \in Checkpoint
      /\ new.status = status
      /\ ~new.consumed
      /\ new.action = checkpoints[id].action
      /\ new.bound_params = checkpoints[id].bound_params
  BY <1>1, <1>3 DEF Checkpoint, CheckpointStatus
<1> HIDE DEF new
<1>5. /\ ticket' = [ticket EXCEPT ![id] = Shows(new, StageOf[status])]
      /\ ConsumedApproved'
  BY <1>1, <1>2, <1>4, OneTicket
<1>6. Tickets!Move(id, StageOf[status])
  BY <1>1, <1>4, <1>5, OneMove
<1>7. Tickets!Move(id, "granted") \/ Tickets!Move(id, "refused")
  BY <1>6, StageIs
<1>8. Tickets!Stands(id, "asked")
  BY <1>1, StandsTyped
<1>9. QED
  BY <1>5, <1>7, <1>8 DEF TicketStep

LEMMA ConsumeMoves ==
    ASSUME TypeInv, ConsumedApproved, NEW id \in CheckpointId, NEW action,
           NEW bound_params, ConsumeCheckpoint(id, action, bound_params)
    PROVE  TicketStep /\ ConsumedApproved'
<1> DEFINE new == [checkpoints[id] EXCEPT !.consumed = TRUE]
<1>1. /\ checkpoints \in [CheckpointId -> Checkpoint \cup {None}]
      /\ Exists(id)
      /\ checkpoints[id] \in Checkpoint
      /\ checkpoints[id].status = "approved"
      /\ ~checkpoints[id].consumed
      /\ checkpoints' = [checkpoints EXCEPT ![id] = new]
  BY DEF TypeInv, TypeOK, CheckpointTypeOK, ConsumeCheckpoint, CanConsume, HasStatus, Exists
<1>2. /\ new \in Checkpoint
      /\ new.status = "approved"
      /\ new.consumed
      /\ new.action = checkpoints[id].action
      /\ new.bound_params = checkpoints[id].bound_params
  BY <1>1 DEF Checkpoint
<1> HIDE DEF new
<1>3. /\ ticket' = [ticket EXCEPT ![id] = Shows(new, "torn")]
      /\ ConsumedApproved'
  BY <1>1, <1>2, OneTicket
<1>4. Tickets!Move(id, "torn")
  BY <1>1, <1>2, <1>3, OneMove
<1>5. Tickets!Stands(id, "granted")
  BY <1>1, StandsTyped
<1>6. QED
  BY <1>3, <1>4, <1>5 DEF TicketStep

LEMMA SweepLapses ==
    ASSUME TypeInv, ConsumedApproved, SweepExpired
    PROVE  TicketStep /\ ConsumedApproved'
<1>1. checkpoints' = [id \in CheckpointId |->
          IF id \in Expired THEN [checkpoints[id] EXCEPT !.status = "expired"]
                            ELSE checkpoints[id]]
  BY DEF SweepExpired
<1>2. ASSUME NEW id \in Expired
      PROVE  /\ id \in CheckpointId
             /\ Exists(id)
             /\ checkpoints[id] \in Checkpoint
             /\ checkpoints[id].status = "pending"
             /\ ~checkpoints[id].consumed
             /\ Tickets!Stands(id, "asked")
  <2>1. /\ id \in CheckpointId
        /\ Exists(id)
        /\ checkpoints[id].status = "pending"
    BY <1>2 DEF Expired, IsExpired, HasStatus
  <2>2. checkpoints[id] \in Checkpoint /\ ~checkpoints[id].consumed
    BY <2>1 DEF TypeInv, TypeOK, CheckpointTypeOK, ConsumedApproved, Exists
  <2>3. QED
    BY <2>1, <2>2, StandsTyped
<1>3. ASSUME NEW id \in Expired
      PROVE  /\ checkpoints'[id] # None
             /\ ~checkpoints'[id].consumed
             /\ TicketOf(id)' = [ticket[id] EXCEPT !.stage = "lapsed"]
  <2> DEFINE new == [checkpoints[id] EXCEPT !.status = "expired"]
  <2>1. checkpoints'[id] = new
    BY <1>1, <1>2
  <2>2. /\ new \in Checkpoint
        /\ new.status = "expired"
        /\ ~new.consumed
        /\ new.action = checkpoints[id].action
        /\ new.bound_params = checkpoints[id].bound_params
    BY <1>2 DEF Checkpoint, CheckpointStatus
  <2> HIDE DEF new
  <2>3. TicketOf(id)' = [TicketOf(id) EXCEPT !.stage = "lapsed"]
    BY <2>1, <2>2, StageIs DEF TicketOf
  <2>4. ticket[id] = TicketOf(id)
    BY <1>2, TicketTyped
  <2>5. QED
    BY <2>1, <2>2, <2>3, <2>4, AbsenceAssumption
<1>4. ticket' = [id \in CheckpointId |->
          IF id \in Expired THEN [ticket[id] EXCEPT !.stage = "lapsed"] ELSE ticket[id]]
  <2>1. ASSUME NEW id \in CheckpointId
        PROVE  ticket'[id] =
                   IF id \in Expired THEN [ticket[id] EXCEPT !.stage = "lapsed"] ELSE ticket[id]
    <3>1. CASE id \in Expired
      BY <1>3, <3>1 DEF ticket, Exists, TicketOf
    <3>2. CASE id \notin Expired
      BY <1>1, <3>2 DEF ticket, Exists
    <3>3. QED
      BY <3>1, <3>2
  <2>2. ticket' = [id \in CheckpointId |-> ticket'[id]]
    BY DEF ticket
  <2>3. QED
    BY <2>1, <2>2
<1>5. Tickets!Lapse
  <2>1. Expired \in SUBSET {id \in CheckpointId : Tickets!Stands(id, "asked")}
    BY <1>2
  <2>2. QED
    BY <1>4, <2>1 DEF Tickets!Lapse
<1>6. ConsumedApproved'
  BY <1>1, <1>3 DEF ConsumedApproved, Exists
<1>7. QED
  BY <1>5, <1>6 DEF TicketStep

LEMMA StoreStep ==
    ASSUME TypeInv, ConsumedApproved, [Next]_vars
    PROVE  ConsumedApproved' /\ (TicketStep \/ UNCHANGED checkpoints)
<1>1. ASSUME UNCHANGED checkpoints
      PROVE  ConsumedApproved'
  BY <1>1 DEF ConsumedApproved, Exists
<1>2. ASSUME NEW c \in Call, NEW bound_params \in BoundParams \cup {None},
             pc[c] # "idle", NEW from, CreateAndReturn(c, from, bound_params)
      PROVE  TicketStep /\ ConsumedApproved'
  <2>1. c \in CheckpointId
    BY GovernorAssumption
  <2>2. PICK now \in 0 .. clock :
            CreateCheckpoint(c, request[c].action, request[c].ttl, bound_params, now)
    BY <1>2 DEF CreateAndReturn
  <2>3. request[c].action \in Action /\ request[c].ttl \in Ttl
    BY <1>2, RequestTyped
  <2>4. QED
    BY <2>1, <2>2, <2>3, CreateAsks
<1>3. ASSUME NEW c \in Call, CallStep(c)
      PROVE  ConsumedApproved' /\ (TicketStep \/ UNCHANGED checkpoints)
  <2>1. CASE CreateForPolicy(c)
    <3>1. pc[c] # "idle"
      BY <2>1 DEF CreateForPolicy, CreateAndReturn, Return, Goto
    <3>2. QED
      BY <1>2, <2>1, <3>1 DEF CreateForPolicy
  <2>2. CASE RequestApproval(c)
    <3>1. pc[c] # "idle"
      BY <2>2 DEF RequestApproval
    <3>2. BoundCall(request[c]) \in BoundParams
      BY <3>1, RequestTyped
    <3>3. CASE UNCHANGED checkpointVars
      BY <1>1, <3>3 DEF checkpointVars
    <3>4. CASE CreateAndReturn(c, pc[c], BoundCall(request[c]))
      BY <1>2, <3>1, <3>2, <3>4
    <3>5. QED
      BY <2>2, <3>3, <3>4 DEF RequestApproval
  <2>3. CASE ConsumeApproval(c)
    <3>1. token[c] \in CheckpointId
      BY <2>3 DEF ConsumeApproval, TypeInv, TypeOK, CallTypeOK, CallShape, Shaped
    <3>2. QED
      BY <1>1, <2>3, <3>1, ConsumeMoves DEF ConsumeApproval, checkpointVars
  <2>4. CASE \/ Begin(c) \/ BeginDirect(c) \/ CheckKillSwitch(c) \/ CheckAuthority(c)
             \/ EvaluatePolicy(c) \/ CheckThreshold(c) \/ CheckAndRecord(c)
    BY <1>1, <2>4
    DEF Begin, BeginDirect, CheckKillSwitch, CheckAuthority, EvaluatePolicy,
        CheckThreshold, CheckAndRecord, checkpointVars
  <2>5. QED
    BY <1>3, <2>1, <2>2, <2>3, <2>4 DEF CallStep
<1>4. ASSUME NEW e \in unlogged, AppendEntry(e) \/ AppendFails(e)
      PROVE  ConsumedApproved' /\ UNCHANGED checkpoints
  BY <1>1, <1>4 DEF AppendEntry, AppendFails, checkpointVars
<1>5. CASE Environment
  <2>1. ASSUME NEW id \in CheckpointId, NEW human \in Approver,
               NEW status \in {"approved", "rejected"}, ResolveBy(id, status, human)
        PROVE  TicketStep /\ ConsumedApproved'
    BY <2>1, ResolveMoves DEF ResolveBy
  <2>2. CASE Sweep
    BY <2>2, SweepLapses DEF Sweep
  <2>3. CASE \/ Engage \/ Clear \/ RevokeAuthority \/ NewSession \/ TimePasses
             \/ \E choice \in ScopeChoices : Reregister(choice[1], choice[2])
    BY <1>1, <2>3
    DEF Engage, Clear, RevokeAuthority, NewSession, TimePasses, Tick, Reregister,
        checkpointVars
  <2>4. QED
    BY <1>5, <2>1, <2>2, <2>3 DEF Environment
<1>6. CASE UNCHANGED vars
  BY <1>1, <1>6 DEF vars, checkpointVars
<1>7. QED
  BY <1>3, <1>4, <1>5, <1>6 DEF Next

-----------------------------------------------------------------------------
(* An act becomes visible when the last entry of an allowed call above its *)
(* threshold is appended, and at no other step.                            *)

(* What act depends on, for one invocation.                                *)
LEMMA ActFrame ==
    ASSUME NEW c \in Call, UNCHANGED scopes,
           \/ ~Allowed(c) /\ ~(Allowed(c)' /\ AboveThreshold(c)')
           \/ /\ Allowed(c)' <=> Allowed(c)
              /\ request'[c] = request[c]
              /\ token'[c] = token[c]
    PROVE  act'[c] = act[c]
BY DEF act, AboveThreshold, RequiresApproval, BoundCall

LEMMA ActsSame ==
    ASSUME \A c \in Call : act'[c] = act[c]
    PROVE  UNCHANGED act
BY DEF act

LEMMA CallStepActs ==
    ASSUME TypeInv, NEW c \in Call, CallStep(c), UNCHANGED scopes
    PROVE  UNCHANGED act
<1>1. pc[c] # "done"
  BY DEF CallStep, Begin, BeginDirect, CheckKillSwitch, CheckAuthority, EvaluatePolicy,
     CreateForPolicy, CheckThreshold, RequestApproval, CreateAndReturn, ConsumeApproval,
     CheckAndRecord, Continue, Return, Raise, Deny, Goto
<1>2. ~(Allowed(c)' /\ AboveThreshold(c)')
  <2>1. CASE Begin(c) \/ BeginDirect(c)
    BY <2>1 DEF Begin, BeginDirect, Allowed, Returned, TypeInv, TypeOK, CallTypeOK
  <2>2. CASE CheckKillSwitch(c) \/ CheckAuthority(c) \/ EvaluatePolicy(c)
    BY <2>2 DEF CheckKillSwitch, CheckAuthority, EvaluatePolicy, Continue, Raise,
       Deny, Return, Goto, Result, Allowed, Returned, TypeInv, TypeOK, CallTypeOK
  <2>3. CASE CreateForPolicy(c) \/ RequestApproval(c) \/ ConsumeApproval(c)
    BY <2>3 DEF CreateForPolicy, RequestApproval, CreateAndReturn, ConsumeApproval,
       Continue, Deny, Return, Goto, Result, Allowed, Returned, TypeInv, TypeOK, CallTypeOK
  <2>4. CASE CheckThreshold(c)
    BY <2>4 DEF CheckThreshold, Continue, Return, Goto, Result, Allowed, Returned,
       AboveThreshold, TypeInv, TypeOK, CallTypeOK
  <2>5. CASE CheckAndRecord(c)
    <3>1. CASE Owes(EventOf("tool_call_allowed", c, None))
      <4>1. EventOf("tool_call_allowed", c, None) \in unlogged'
        BY <3>1 DEF Owes
      <4>2. EventOf("tool_call_allowed", c, None).call = c
        BY DEF EventOf
      <4>3. QED
        BY <4>1, <4>2 DEF Allowed, Returned, Settled
    <3>2. CASE Deny(c, "permit", "permission") \/ Raise(c, "permit", "audit")
      BY <3>2 DEF Deny, Raise, Return, Goto, Result, Allowed, Returned, TypeInv,
         TypeOK, CallTypeOK
    <3>3. QED
      BY <2>5, <3>1, <3>2 DEF CheckAndRecord
  <2>6. QED
    BY <2>1, <2>2, <2>3, <2>4, <2>5 DEF CallStep
<1>3. ASSUME NEW d \in Call, d # c
      PROVE  /\ Allowed(d)' <=> Allowed(d)
             /\ request'[d] = request[d]
             /\ token'[d] = token[d]
  <2>1. \A e : Owes(e) /\ e.call = c => (Settled(d)' <=> Settled(d))
    BY <1>3 DEF Owes, Settled
  <2>2. \A e : LogsOrFails(e) \/ UNCHANGED recordVars => (Settled(d)' <=> Settled(d))
    BY LogsGrows DEF recordVars, Settled
  <2>3. Settled(d)' <=> Settled(d)
    BY <2>1, <2>2 DEF EventOf, CallStep, Begin, BeginDirect, CheckKillSwitch,
       CheckAuthority, EvaluatePolicy, CreateForPolicy, CheckThreshold, RequestApproval,
       CreateAndReturn, ConsumeApproval, CheckAndRecord, LogsOrFails
  <2>4. /\ pc'[d] = pc[d]
        /\ outcome'[d] = outcome[d]
        /\ request'[d] = request[d]
        /\ token'[d] = token[d]
    <3>1. CASE Begin(c) \/ BeginDirect(c)
      BY <1>3, <3>1 DEF Begin, BeginDirect, TypeInv, TypeOK, CallTypeOK
    <3>2. CASE ~Begin(c) /\ ~BeginDirect(c)
      <4>1. /\ \E from, to : Goto(c, from, to)
            /\ UNCHANGED outcome \/ \E result : outcome' = [outcome EXCEPT ![c] = result]
        BY <3>2 DEF CallStep, CheckKillSwitch, CheckAuthority, EvaluatePolicy,
           CreateForPolicy, CheckThreshold, RequestApproval, CreateAndReturn,
           ConsumeApproval, CheckAndRecord, Continue, Return, Raise, Deny
      <4>2. QED
        BY <1>3, <4>1 DEF Goto, TypeInv, TypeOK, CallTypeOK
    <3>3. QED
      BY <3>1, <3>2
  <2>5. QED
    BY <2>3, <2>4 DEF Allowed, Returned
<1>4. ~Allowed(c)
  BY <1>1 DEF Allowed, Returned
<1>5. ASSUME NEW d \in Call
      PROVE  act'[d] = act[d]
  BY <1>2, <1>3, <1>4, ActFrame
<1>6. QED
  BY <1>5, ActsSame

(* Entries of no invocation come and go without anyone settling.           *)
LEMMA OthersSettle ==
    ASSUME TypeInv, UNCHANGED callVars, UNCHANGED scopes,
           \A e \in unlogged : e \notin unlogged' => e.call = None,
           \A e \in unlogged' : e \notin unlogged => e.call = None
    PROVE  UNCHANGED act
<1>1. ASSUME NEW c \in Call
      PROVE  act'[c] = act[c]
  <2>1. c # None
    BY GovernorAssumption
  <2>2. Settled(c)' <=> Settled(c)
    BY <2>1 DEF Settled
  <2>3. QED
    BY <2>2, ActFrame DEF callVars, Allowed, Returned
<1>2. QED
  BY <1>1, ActsSame

LEMMA EnvironmentActs ==
    ASSUME TypeInv, Environment, UNCHANGED scopes
    PROVE  UNCHANGED act
<1>1. UNCHANGED callVars
  BY DEF Environment, ResolveBy, Sweep, Engage, Clear, RevokeAuthority, Reregister,
     NewSession, TimePasses
<1>2. unlogged \subseteq unlogged'
  BY LogsGrows DEF Environment, ResolveBy, Sweep, Engage, Clear, RevokeAuthority,
     Reregister, NewSession, TimePasses, Owes, recordVars
<1>3. \A e \in unlogged' : e \notin unlogged => e.call = None
  BY LogsGrows DEF Environment, ResolveBy, Sweep, Engage, Clear, RevokeAuthority,
     Reregister, NewSession, TimePasses, Owes, recordVars, EventOf
<1>4. QED
  BY <1>1, <1>2, <1>3, OthersSettle

LEMMA AppendFailsActs ==
    ASSUME TypeInv, SweepsOwnNothing, NEW e \in unlogged, AppendFails(e)
    PROVE  UNCHANGED act
<1>1. UNCHANGED scopes
  BY DEF AppendFails, permissionVars
<1>2. CASE e.call = None
  BY <1>1, <1>2, OthersSettle DEF AppendFails, callVars, SweepsOwnNothing
<1>3. CASE e.call # None
  <2> DEFINE c == e.call
  <2>1. c \in Call
    BY <1>3 DEF TypeInv, TypeOK, RecordTypeOK, Event
  <2>2. e.type # "expired"
    BY <1>3 DEF SweepsOwnNothing
  <2>3. unlogged' = unlogged \ {e}
    BY <2>2 DEF AppendFails
  <2>4. /\ pc' = [pc EXCEPT ![c] = "done"]
        /\ outcome' = [outcome EXCEPT ![c] = Result(FALSE, None, None, "audit")]
        /\ UNCHANGED <<request, token>>
    BY <1>3 DEF AppendFails
  <2>5. ~Allowed(c)
    BY <2>1 DEF Allowed, Returned, Settled
  <2>6. ~Allowed(c)'
    BY <2>1, <2>4 DEF Allowed, Result, TypeInv, TypeOK, CallTypeOK
  <2> HIDE DEF c
  <2>7. ASSUME NEW d \in Call, d # c
        PROVE  Allowed(d)' <=> Allowed(d)
    BY <2>1, <2>3, <2>4, <2>7 DEF c, Allowed, Returned, Settled, TypeInv, TypeOK, CallTypeOK
  <2>8. ASSUME NEW d \in Call
        PROVE  act'[d] = act[d]
    BY <1>1, <2>4, <2>5, <2>6, <2>7, ActFrame
  <2>9. QED
    BY <2>8, ActsSame
<1>4. QED
  BY <1>2, <1>3

LEMMA AppendEntryActs ==
    ASSUME RefinementInv, NEW e \in unlogged, AppendEntry(e)
    PROVE  \/ UNCHANGED act
           \/ \E t \in CheckpointId, c \in Call :
                  Tickets!Stands(t, "torn") /\ Tickets!Act(c, t)
<1>1. /\ TypeInv
      /\ UNCHANGED scopes
      /\ UNCHANGED <<pc, request, token, outcome>>
      /\ unlogged' = unlogged \ {e}
  BY DEF RefinementInv, AppendEntry, permissionVars, callVars
<1>2. CASE e.call = None
  BY <1>1, <1>2, OthersSettle DEF callVars
<1>3. CASE e.call # None
  <2>1. PICK c \in Call : c = e.call
    BY <1>1, <1>3 DEF TypeInv, TypeOK, RecordTypeOK, Event
  <2>2. ASSUME NEW d \in Call, d # c
        PROVE  Allowed(d)' <=> Allowed(d)
    BY <1>1, <2>1, <2>2 DEF Allowed, Returned, Settled
  <2>3. \A d \in Call \ {c} : act'[d] = act[d]
    BY <1>1, <2>2, ActFrame
  <2>4. ~Allowed(c)
    BY <2>1 DEF Allowed, Returned, Settled
  <2>5. CASE ~(Allowed(c)' /\ AboveThreshold(c)')
    <3>1. act'[c] = act[c]
      BY <1>1, <2>4, <2>5, ActFrame
    <3>2. QED
      BY <2>3, <3>1, ActsSame
  <2>6. CASE Allowed(c)' /\ AboveThreshold(c)'
    <3> DEFINE t == token[c]
    <3>1. AboveThreshold(c) /\ Acting(c)
      BY <1>1, <2>6 DEF AboveThreshold, RequiresApproval, Allowed, Returned, Acting
    <3>2. HoldsApproval(c) /\ t \in CheckpointId
      BY <1>1, <3>1
      DEF RefinementInv, ActingHoldsApproval, HoldsApproval, TypeInv, TypeOK, CallTypeOK
    <3>3. Tickets!Stands(t, "torn")
      BY <1>1, <3>2, StandsTyped DEF RefinementInv, HoldsApproval, HasStatus
    <3>4. act[c] = None
      BY <2>4 DEF act
    <3>5. ASSUME NEW d \in Call, act[d] # None
          PROVE  act[d].ticket # t
      <4>1. /\ Allowed(d)
            /\ AboveThreshold(d)
            /\ act[d].ticket = token[d]
        BY <3>5 DEF act
      <4>2. HoldsApproval(d)
        BY <4>1 DEF RefinementInv, ActingHoldsApproval, Acting, Allowed, Returned
      <4>3. d # c
        BY <2>4, <4>1
      <4>4. EventOf("consumed", d, t) # EventOf("consumed", c, t)
        BY <4>3 DEF EventOf
      <4>5. \A b : /\ EventOf("consumed", b, t).type = "consumed"
                   /\ EventOf("consumed", b, t).about = t
        BY DEF EventOf
      <4>6. token[d] = t => EventOf("consumed", d, t) \in Log
        BY <4>2 DEF HoldsApproval
      <4>7. EventOf("consumed", c, t) \in Log
        BY <3>2 DEF HoldsApproval
      <4>8. token[d] # t
        BY <4>4, <4>5, <4>6, <4>7 DEF RefinementInv, ApprovalSpentOnce, Log
      <4>9. QED
        BY <4>1, <4>8
    <3>6. ticket[t].purpose = <<request[c].action, BoundCall(request[c])>>
      <4>1. ticket[t] = TicketOf(t)
        BY <1>1, <3>2, TicketTyped DEF HoldsApproval, HasStatus
      <4>2. QED
        BY <3>2, <4>1 DEF TicketOf, HoldsApproval
    <3>7. act'[c] = [purpose |-> ticket[t].purpose, ticket |-> t]
      BY <1>1, <2>6, <3>6 DEF act, BoundCall
    <3>8. act' = [act EXCEPT ![c] = [purpose |-> ticket[t].purpose, ticket |-> t]]
      <4>1. act = [d \in Call |-> act[d]] /\ act' = [d \in Call |-> act'[d]]
        BY DEF act
      <4>2. QED
        BY <2>3, <3>7, <4>1
    <3>9. Tickets!Act(c, t)
      BY <3>4, <3>5, <3>8 DEF Tickets!Act
    <3>10. QED
      BY <3>2, <3>3, <3>9
  <2>7. QED
    BY <2>5, <2>6
<1>4. QED
  BY <1>2, <1>3

-----------------------------------------------------------------------------
LEMMA SweepsNext ==
    ASSUME SweepsOwnNothing, [Next]_vars
    PROVE  SweepsOwnNothing'
<1>1. \A f : Owes(f) /\ f.type # "expired" => SweepsOwnNothing'
  BY DEF Owes, SweepsOwnNothing
<1>2. \A f : LogsOrFails(f) \/ UNCHANGED recordVars => SweepsOwnNothing'
  BY LogsGrows DEF recordVars, SweepsOwnNothing
<1>3. ASSUME NEW c \in Call, CallStep(c)
      PROVE  SweepsOwnNothing'
  BY <1>1, <1>2, <1>3 DEF EventOf, CallStep, Begin, BeginDirect, CheckKillSwitch,
     CheckAuthority, EvaluatePolicy, CreateForPolicy, CheckThreshold, RequestApproval,
     CreateAndReturn, ConsumeApproval, CheckAndRecord, LogsOrFails
<1>4. ASSUME NEW e \in unlogged, AppendEntry(e) \/ AppendFails(e)
      PROVE  SweepsOwnNothing'
  BY <1>4 DEF AppendEntry, AppendFails, SweepsOwnNothing
<1>5. CASE Sweep
  BY <1>5 DEF Sweep, SweepsOwnNothing, EventOf
<1>6. CASE Environment /\ ~Sweep
  BY <1>1, <1>2, <1>6 DEF EventOf, Environment, ResolveBy, Engage, Clear,
     RevokeAuthority, Reregister, NewSession, TimePasses
<1>7. CASE UNCHANGED vars
  BY <1>2, <1>7 DEF vars
<1>8. QED
  BY <1>3, <1>4, <1>5, <1>6, <1>7 DEF Next

LEMMA RefinementNext ==
    ASSUME ScopeChoices = {}, RefinementInv, [Next]_vars
    PROVE  RefinementInv'
<1>1. SpentInv' /\ ApprovalInv'
  BY SpentNext, ApprovalNext DEF RefinementInv, SpentInv, ApprovalInv
<1>2. ConsumedApproved' /\ SweepsOwnNothing'
  BY StoreStep, SweepsNext DEF RefinementInv
<1>3. QED
  BY <1>1, <1>2 DEF RefinementInv, SpentInv, ApprovalInv

LEMMA StepRefines ==
    ASSUME ScopeChoices = {}, RefinementInv, [Next]_vars
    PROVE  Tickets!Next
<1>1. TypeInv /\ UNCHANGED scopes
  BY ScopesFixed DEF RefinementInv
<1>2. UNCHANGED checkpoints => UNCHANGED ticket
  BY DEF ticket, Exists
<1>3. TicketStep \/ UNCHANGED ticket
  BY <1>2, StoreStep DEF RefinementInv
<1>4. CASE UNCHANGED act
  BY <1>3, <1>4 DEF TicketStep, Tickets!Next, Tickets!Idle
<1>5. CASE ~UNCHANGED act
  <2>1. ~\E c \in Call : CallStep(c)
    BY <1>1, <1>5, CallStepActs
  <2>2. ~Environment
    BY <1>1, <1>5, EnvironmentActs
  <2>3. ~\E e \in unlogged : AppendFails(e)
    BY <1>5, AppendFailsActs DEF RefinementInv
  <2>4. ~UNCHANGED vars
    BY <1>1, <1>5, OthersSettle DEF vars, recordVars, callVars
  <2>5. PICK e \in unlogged : AppendEntry(e)
    BY <2>1, <2>2, <2>3, <2>4 DEF Next
  <2>6. UNCHANGED ticket
    BY <1>2, <2>5 DEF AppendEntry, checkpointVars
  <2>7. \E t \in CheckpointId, c \in Call :
            Tickets!Stands(t, "torn") /\ Tickets!Act(c, t)
    BY <1>5, <2>5, AppendEntryActs
  <2>8. QED
    BY <2>6, <2>7 DEF Tickets!Next
<1>6. QED
  BY <1>4, <1>5

(* The governor keeps the promise of ApprovalTickets (governor.py:425-436, *)
(* hitl.py:94-234) for any number of invocations, checkpoints and humans:  *)
(* what the agent does above a threshold is one act on a ticket that was   *)
(* granted for it, as long as nobody registers a scope after the set-up.   *)
THEOREM GovernorImplementsTickets ==
    ASSUME ScopeChoices = {}
    PROVE  Spec => ImplementsApprovalTickets
<1>1. Init => RefinementInv
  BY InitTyped DEF Init, CheckpointInit, RefinementInv, ConsumedOnRecord, ApprovalSpentOnce,
     ActingHoldsApproval, Acting, ConsumedApproved, SweepsOwnNothing, Exists, Log
<1>2. Init => Tickets!Init
  BY DEF Init, CheckpointInit, Tickets!Init, ticket, act, Exists, Allowed, Returned
<1>3. RefinementInv /\ [Next]_vars => RefinementInv'
  BY RefinementNext
<1>4. RefinementInv /\ [Next]_vars => [Tickets!Next]_<<ticket, act>>
  BY StepRefines
<1>5. QED
  BY <1>1, <1>2, <1>3, <1>4, PTL DEF Spec, Tickets!Spec, ImplementsApprovalTickets

=============================================================================
