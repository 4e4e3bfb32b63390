------------------------------ MODULE Governor ------------------------------
(***************************************************************************)
(* AgentGovernor.evaluate_action, called by several threads while humans   *)
(* resolve checkpoints, a sweeper expires them and an operator halts the   *)
(* agent, revokes its authority or registers new tool scopes.              *)
(*                                                                         *)
(* Each Call is one invocation.  pc names the check it is about to make;   *)
(* between two checks every other actor may run, because each component    *)
(* holds its own lock for its own step only.  An entry a step decided to   *)
(* append after releasing its lock is in unlogged until it is appended,    *)
(* and the invocation waits for that.  audit is what the log came to hold, *)
(* as a set: the order is CheckpointAudit's subject.                       *)
(***************************************************************************)
EXTENDS PolicyEngine, CheckpointStore, ToolPermissions, KillSwitch, FiniteSets

CONSTANTS
    Call,             \* invocations; one creates at most the checkpoint of its name
    Request,          \* the arguments a call may be made with
    Rules,            \* the policy engine's rule list
    HasAuthorityCheck,\* whether the governor was given an authority_check
    Operator,         \* who may engage and clear the kill switch
    ApprovedCeiling,  \* _approved_autonomy_ceiling, None where there is none
    InitialScopes,    \* the tool scopes and the limits registered at set-up
    InitialLimits,
    ScopeChoices,     \* <<tool, scope>> pairs register() may install later
    MaxFailures       \* bound on audit appends that raise

BoundCall(r) == [tool_name |-> r.tool, params |-> r.params]

ASSUME GovernorAssumption ==
    /\ Call \subseteq CheckpointId
    /\ None \notin Call
    /\ Request \subseteq [action : Action, confidence : Int, level : AutonomyLevel,
                          tool : Tool \cup {None}, params : Params, ttl : Ttl]
    /\ None \notin Request
    /\ \A r \in Request : BoundCall(r) \in BoundParams
    /\ Rules \in Seq(PolicyRule)
    /\ HasAuthorityCheck \in BOOLEAN
    /\ ApprovedCeiling \in AutonomyLevel \cup {None}
    /\ InitialScopes \in [Tool -> ToolScope \cup {None}]
    /\ InitialLimits \in [LimitId -> CumulativeLimit \cup {None}]
    /\ ScopeChoices \subseteq Tool \X ToolScope
    /\ MaxFailures \in Nat

VARIABLES
    authority_current,  \* what the authority_check callable would find
    pc,                 \* the step each invocation is at
    request,            \* its arguments, None before it starts
    token,              \* its approval_checkpoint_id
    outcome,            \* what it returned or raised, None before
    unlogged,           \* entries decided on and not yet appended
    audit,              \* entries in the log
    failures,           \* appends that raised
    halted              \* calls begun under a halt that lasts since

callVars == <<pc, request, token, outcome>>
recordVars == <<unlogged, audit, failures>>
otherVars == <<is_engaged, authority_current, halted>>
vars == <<checkpointVars, permissionVars, otherVars, callVars, recordVars>>

Step == {"idle", "kill_switch", "authority", "policy", "create", "tool",
         "request", "direct", "consume", "permit", "done"}
Denial == {"authority", "policy", "approval", "permission", "not_required"}
Exception == {"kill_switch", "confidence", "audit"}
Outcome == [allowed : BOOLEAN, checkpoint : CheckpointId \cup {None},
            denial_reason : Denial \cup {None}, raised : Exception \cup {None}]

(* Python's None is no ActionOutcome, no reason and no exception. *)
ASSUME OutcomeAssumption == None \notin Outcome /\ None \notin Denial \cup Exception

EventType == {"policy_decision", "authority_not_current", "tool_call_allowed",
              "tool_call_denied", "created", "approved", "rejected", "expired",
              "consumed", "kill_switch_engaged", "kill_switch_cleared"}
Event == [type : EventType, call : Call \cup {None},
          about : CheckpointId \cup Decision \cup {None}]
EventOf(type, call, about) == [type |-> type, call |-> call, about |-> about]

CallTypeOK ==
    /\ pc \in [Call -> Step]
    /\ request \in [Call -> Request \cup {None}]
    /\ token \in [Call -> CheckpointId \cup {None}]
    /\ outcome \in [Call -> Outcome \cup {None}]

RecordTypeOK ==
    /\ unlogged \subseteq Event
    /\ audit \subseteq Event
    /\ failures \in 0 .. MaxFailures

OtherTypeOK ==
    /\ KillSwitchTypeOK
    /\ authority_current \in BOOLEAN
    /\ halted \subseteq Call

TypeOK ==
    /\ CheckpointTypeOK
    /\ PermissionTypeOK
    /\ OtherTypeOK
    /\ CallTypeOK
    /\ RecordTypeOK

Init ==
    /\ CheckpointInit
    /\ scopes = InitialScopes
    /\ cumulative_limits = InitialLimits
    /\ call_counts = [tool \in Tool |-> 0]
    /\ cumulative_used = [l \in LimitId |-> 0]
    /\ KillSwitchInit
    /\ authority_current = TRUE
    /\ pc = [c \in Call |-> "idle"]
    /\ request = [c \in Call |-> None]
    /\ token = [c \in Call |-> None]
    /\ outcome = [c \in Call |-> None]
    /\ unlogged = {}
    /\ audit = {}
    /\ failures = 0
    /\ halted = {}

-----------------------------------------------------------------------------
(* The record *)

Owes(e) == unlogged' = unlogged \cup {e} /\ UNCHANGED <<audit, failures>>
Settled(c) == \A e \in unlogged : e.call # c

(* An append made inside the critical section that decided on it.          *)
Logs(e) ==
    /\ audit' = audit \cup {e}
    /\ UNCHANGED <<unlogged, failures>>

(* An append() that raises: a plain AuditLog has not taken the entry, a    *)
(* PersistentAuditLog whose write fails keeps it in its chain, and perhaps *)
(* on disk (persistence.py:60-62).                                         *)
Fails(e) ==
    /\ failures < MaxFailures
    /\ failures' = failures + 1
    /\ audit' \in {audit, audit \cup {e}}

LogsOrFails(e) == Logs(e) \/ (Fails(e) /\ UNCHANGED unlogged)

(* The store lists no ids: a caller learns one from what created it, which *)
(* returns it after its append, or from the log if that append raised.     *)
Known(id) == Exists(id) /\ EventOf("created", id, id) \in audit

-----------------------------------------------------------------------------
(* evaluate_action *)

Goto(c, from, to) ==
    /\ pc[c] = from
    /\ Settled(c)
    /\ pc' = [pc EXCEPT ![c] = to]
    /\ UNCHANGED <<request, token>>

Continue(c, from, to) == Goto(c, from, to) /\ UNCHANGED outcome

Result(allowed, checkpoint, denial_reason, raised) ==
    [allowed |-> allowed, checkpoint |-> checkpoint,
     denial_reason |-> denial_reason, raised |-> raised]

Return(c, from, result) ==
    Goto(c, from, "done") /\ outcome' = [outcome EXCEPT ![c] = result]

Deny(c, from, reason) == Return(c, from, Result(FALSE, None, reason, None))
Raise(c, from, exception) == Return(c, from, Result(FALSE, None, None, exception))

(* An invocation that has returned to its caller, its entries written. *)
Returned(c) == pc[c] = "done" /\ Settled(c)
Allowed(c) == Returned(c) /\ outcome[c].allowed

Begin(c) ==
    \E r \in Request, id \in CheckpointId \cup {None} :
        /\ id # None => Known(id)
        /\ pc[c] = "idle"
        /\ pc' = [pc EXCEPT ![c] = "kill_switch"]
        /\ request' = [request EXCEPT ![c] = r]
        /\ token' = [token EXCEPT ![c] = id]
        /\ halted' = IF is_engaged \/ ~authority_current
                     THEN halted \cup {c} ELSE halted
        /\ UNCHANGED <<checkpointVars, permissionVars, is_engaged,
                       authority_current, outcome, recordVars>>

(* request_approval called by the integration itself: it consults neither  *)
(* the kill switch nor the authority nor the policy.                       *)
BeginDirect(c) ==
    \E r \in Request :
        /\ r.tool # None
        /\ pc[c] = "idle"
        /\ pc' = [pc EXCEPT ![c] = "direct"]
        /\ request' = [request EXCEPT ![c] = r]
        /\ UNCHANGED <<checkpointVars, permissionVars, otherVars, token,
                       outcome, recordVars>>

(* Mutant: the halt flag is not consulted. *)
IgnoreKillSwitch(c) ==
    /\ Continue(c, "kill_switch", "authority")
    /\ UNCHANGED <<checkpointVars, permissionVars, otherVars, recordVars>>

CheckKillSwitch(c) ==
    /\ \/ SwitchAllows /\ Continue(c, "kill_switch", "authority")
       \/ ~SwitchAllows /\ Raise(c, "kill_switch", "kill_switch")
    /\ UNCHANGED <<checkpointVars, permissionVars, otherVars, recordVars>>

(* The callable may raise although the authority is current; that counts   *)
(* as not current.                                                         *)
CheckAuthority(c) ==
    /\ \/ /\ HasAuthorityCheck => authority_current
          /\ Continue(c, "authority", "policy")
          /\ UNCHANGED recordVars
       \/ /\ HasAuthorityCheck
          /\ Deny(c, "authority", "authority")
          /\ Owes(EventOf("authority_not_current", c, None))
    /\ UNCHANGED <<checkpointVars, permissionVars, otherVars>>

(* Mutant: the tier the caller claims is honoured. *)
ClaimedLevel(r) == r.level

EffectiveLevel(r) ==
    IF ApprovedCeiling # None /\ r.level > ApprovedCeiling
    THEN ApprovedCeiling ELSE r.level

EvaluatePolicy(c) ==
    LET r == request[c]
        decision == Evaluate(Rules, r.action, r.confidence, EffectiveLevel(r))
    IN  /\ pc[c] = "policy"
        /\ \/ /\ ~ValidConfidence(r.confidence)
              /\ Raise(c, "policy", "confidence")
              /\ UNCHANGED recordVars
           \/ /\ ValidConfidence(r.confidence)
              /\ \/ decision = "block" /\ Deny(c, "policy", "policy")
                 \/ decision = "require_approval" /\ Continue(c, "policy", "create")
                 \/ decision = "allow" /\ Continue(c, "policy", "tool")
              /\ Owes(EventOf("policy_decision", c, decision))
        /\ UNCHANGED <<checkpointVars, permissionVars, otherVars>>

(* CheckpointStore.create on behalf of c; the checkpoint is returned.      *)
CreateAndReturn(c, from, bound_params) ==
    /\ Return(c, from, Result(FALSE, c, None, None))
    /\ \E now \in 0 .. clock :
           CreateCheckpoint(c, request[c].action, request[c].ttl, bound_params, now)
    /\ Owes(EventOf("created", c, c))
    /\ UNCHANGED <<permissionVars, otherVars>>

CreateForPolicy(c) == CreateAndReturn(c, "create", None)

(* requires_approval, and where to go from there. *)
CheckThreshold(c) ==
    LET r == request[c]
        above == r.tool # None /\ RequiresApproval(r.tool, r.params)
    IN  /\ pc[c] = "tool"
        /\ \/ r.tool = None /\ Return(c, "tool", Result(TRUE, None, None, None))
           \/ r.tool # None /\ ~above /\ Continue(c, "tool", "permit")
           \/ above /\ token[c] = None /\ Continue(c, "tool", "request")
           \/ above /\ token[c] # None /\ Continue(c, "tool", "consume")
        /\ UNCHANGED <<checkpointVars, permissionVars, otherVars, recordVars>>

(* Mutant: the checkpoint the call is to wait on is not handed back. *)
RequestApprovalLost(c) ==
    /\ pc[c] = "request"
    /\ RequiresApproval(request[c].tool, request[c].params)
    /\ \E now \in 0 .. clock :
           CreateCheckpoint(c, request[c].action, request[c].ttl,
                            BoundCall(request[c]), now)
    /\ Return(c, "request", Result(FALSE, None, None, None))
    /\ Owes(EventOf("created", c, c))
    /\ UNCHANGED <<permissionVars, otherVars>>

(* request_approval asks requires_approval a second time, and hands back   *)
(* no checkpoint if the answer has become no; a direct caller is told so.  *)
RequestApproval(c) ==
    LET r == request[c]
        required == RequiresApproval(r.tool, r.params)
        none(reason) == Result(FALSE, None, reason, None)
    IN  /\ pc[c] \in {"request", "direct"}
        /\ \/ required /\ CreateAndReturn(c, pc[c], BoundCall(r))
           \/ /\ ~required
              /\ \/ Return(c, "request", none(None))
                 \/ Return(c, "direct", none("not_required"))
              /\ UNCHANGED <<checkpointVars, permissionVars, otherVars, recordVars>>

(* Mutant: the approval is looked at and not spent. *)
ConsumeLooksOnly(c) ==
    LET r == request[c]
    IN  /\ pc[c] = "consume"
        /\ CanConsume(token[c], r.action, BoundCall(r))
        /\ Continue(c, "consume", "permit")
        /\ Owes(EventOf("consumed", c, token[c]))
        /\ UNCHANGED <<checkpointVars, permissionVars, otherVars>>

ConsumeApproval(c) ==
    LET r == request[c]
    IN  /\ pc[c] = "consume"
        /\ \/ /\ ConsumeCheckpoint(token[c], r.action, BoundCall(r))
              /\ Continue(c, "consume", "permit")
              /\ Owes(EventOf("consumed", c, token[c]))
           \/ /\ ~CanConsume(token[c], r.action, BoundCall(r))
              /\ Deny(c, "consume", "approval")
              /\ UNCHANGED <<checkpointVars, recordVars>>
        /\ UNCHANGED <<permissionVars, otherVars>>

(* Mutant: the call is recorded and returned with no entry of it. *)
CheckAndRecordSilently(c) ==
    LET r == request[c]
    IN  /\ pc[c] = "permit"
        /\ Permitted(r.tool, EffectiveLevel(r), r.params)
        /\ RecordCall(r.tool, r.params)
        /\ Return(c, "permit", Result(TRUE, None, None, None))
        /\ UNCHANGED <<checkpointVars, otherVars, recordVars>>

(* check_and_record: a denial is logged before its lock is released, and   *)
(* an append that raises there reaches the caller instead of the denial.   *)
CheckAndRecord(c) ==
    LET r == request[c]
        denied == EventOf("tool_call_denied", c, None)
    IN  /\ pc[c] = "permit"
        /\ \/ /\ Permitted(r.tool, EffectiveLevel(r), r.params)
              /\ RecordCall(r.tool, r.params)
              /\ Return(c, "permit", Result(TRUE, None, None, None))
              /\ Owes(EventOf("tool_call_allowed", c, None))
           \/ /\ ~Permitted(r.tool, EffectiveLevel(r), r.params)
              /\ \/ Logs(denied) /\ Deny(c, "permit", "permission")
                 \/ Fails(denied) /\ UNCHANGED unlogged /\ Raise(c, "permit", "audit")
              /\ UNCHANGED permissionVars
        /\ UNCHANGED <<checkpointVars, otherVars>>

(* Whoever owes entry e appends it ...                                     *)
AppendEntry(e) ==
    /\ e \in unlogged
    /\ unlogged' = unlogged \ {e}
    /\ audit' = audit \cup {e}
    /\ UNCHANGED <<checkpointVars, permissionVars, otherVars, callVars, failures>>

(* ... or append() raises, out of the invocation that made it; a sweep     *)
(* never gets to the entries it had still to write.                        *)
AppendFails(e) ==
    /\ e \in unlogged
    /\ Fails(e)
    /\ \E rest \in SUBSET {f \in unlogged : f.type = "expired"} :
           /\ e.type # "expired" => rest = {}
           /\ unlogged' = unlogged \ (rest \cup {e})
    /\ IF e.call = None
       THEN UNCHANGED <<pc, outcome>>
       ELSE /\ pc' = [pc EXCEPT ![e.call] = "done"]
            /\ outcome' = [outcome EXCEPT ![e.call] = Result(FALSE, None, None, "audit")]
    /\ UNCHANGED <<checkpointVars, permissionVars, otherVars, request, token>>

-----------------------------------------------------------------------------
(* The other actors *)

ResolveBy(id, status, human) ==
    /\ Known(id)
    /\ ResolveCheckpoint(id, status, human)
    /\ Owes(EventOf(status, None, id))
    /\ UNCHANGED <<permissionVars, otherVars, callVars>>

Sweep ==
    /\ SweepExpired
    /\ unlogged' = unlogged \cup {EventOf("expired", None, id) : id \in Expired}
    /\ UNCHANGED <<permissionVars, otherVars, callVars, audit, failures>>

Engage ==
    /\ EngageSwitch
    /\ LogsOrFails(EventOf("kill_switch_engaged", None, None))
    /\ UNCHANGED <<checkpointVars, permissionVars, callVars, authority_current, halted>>

(* A halt by revocation outlives the switch. *)
Clear ==
    /\ ClearSwitch
    /\ LogsOrFails(EventOf("kill_switch_cleared", None, None))
    /\ halted' = IF authority_current THEN {} ELSE halted
    /\ UNCHANGED <<checkpointVars, permissionVars, callVars, authority_current>>

(* Inventory revokes the approval or it runs out; neither is taken back.   *)
RevokeAuthority ==
    /\ HasAuthorityCheck
    /\ authority_current
    /\ authority_current' = FALSE
    /\ UNCHANGED <<checkpointVars, permissionVars, is_engaged, halted, callVars, recordVars>>

Reregister(tool, scope) ==
    /\ Register(tool, scope)
    /\ UNCHANGED <<checkpointVars, otherVars, callVars, recordVars>>

NewSession ==
    /\ ResetSession
    /\ UNCHANGED <<checkpointVars, otherVars, callVars, recordVars>>

TimePasses ==
    /\ Tick
    /\ UNCHANGED <<permissionVars, otherVars, callVars, recordVars>>

-----------------------------------------------------------------------------
CallStep(c) ==
    \/ Begin(c)
    \/ BeginDirect(c)
    \/ CheckKillSwitch(c)
    \/ CheckAuthority(c)
    \/ EvaluatePolicy(c)
    \/ CreateForPolicy(c)
    \/ CheckThreshold(c)
    \/ RequestApproval(c)
    \/ ConsumeApproval(c)
    \/ CheckAndRecord(c)

Environment ==
    \/ \E id \in CheckpointId, human \in Approver :
           \/ ResolveBy(id, "approved", human)
           \/ ResolveBy(id, "rejected", human)
    \/ Sweep
    \/ \E operator \in Operator : Engage \/ Clear
    \/ RevokeAuthority
    \/ \E choice \in ScopeChoices : Reregister(choice[1], choice[2])
    \/ NewSession
    \/ TimePasses

Next ==
    \/ \E c \in Call : CallStep(c)
    \/ \E e \in unlogged : AppendEntry(e) \/ AppendFails(e)
    \/ Environment

Spec == Init /\ [][Next]_vars

-----------------------------------------------------------------------------
(* Properties *)

(* The approval c acted on was spent by c, and the log says so. *)
Spent(c) == EventOf("consumed", c, token[c]) \in audit

AboveThreshold(c) ==
    /\ request[c].tool # None
    /\ RequiresApproval(request[c].tool, request[c].params)

(* A tool call "whose amount is above" its threshold (permissions.py:52-53) *)
(* is only ever allowed on an approval a human gave: its checkpoint was    *)
(* approved and is spent, by this very call, and was made for exactly this *)
(* action, tool and params.  Holds while no scope is registered after the  *)
(* set-up (ScopeChoices = {}).                                             *)
ActsOnlyAsApproved ==
    \A c \in Call :
        Allowed(c) /\ AboveThreshold(c) =>
            /\ token[c] # None
            /\ HasStatus(token[c], "approved")
            /\ checkpoints[token[c]].consumed
            /\ checkpoints[token[c]].action = request[c].action
            /\ checkpoints[token[c]].bound_params = BoundCall(request[c])
            /\ Spent(c)

(* "Approvals are single-use" (hitl.py:173-180): however many invocations  *)
(* present one checkpoint at once, one of them at most spends it, and so   *)
(* one at most acts on it.                                                 *)
ApprovalSpentOnce ==
    \A e, f \in unlogged \cup audit :
        e.type = "consumed" /\ f.type = "consumed" /\ e.about = f.about => e = f

(* The contract of ActionOutcome (governor.py:36-43): a caller that is not *)
(* allowed to act gets exactly one of a checkpoint to wait on, which the   *)
(* store knows, and a reason.  Holds while ScopeChoices = {}.              *)
DenialExplained ==
    \A c \in Call :
        Returned(c) /\ ~outcome[c].allowed /\ outcome[c].raised = None =>
            /\ outcome[c].checkpoint = None <=> outcome[c].denial_reason # None
            /\ outcome[c].checkpoint # None => Known(outcome[c].checkpoint)

(* Nothing consumes an approval but an invocation that presents it, and    *)
(* that has its entry or an exception to show.                             *)
SpentOnRecord ==
    \A id \in CheckpointId : Exists(id) /\ checkpoints[id].consumed =>
        \E c \in Call :
            /\ token[c] = id
            /\ \/ EventOf("consumed", c, id) \in unlogged \cup audit
               \/ outcome[c] # None /\ outcome[c].raised = "audit"

(* What the integration is told and what the log says agree, although an   *)
(* append may raise between any two steps, its entry written or not: to    *)
(* whoever is told an answer, the decision, the call, the refusal or the   *)
(* checkpoint behind it is on record and nothing to the contrary; the      *)
(* entries that end an invocation are of one that ended, with this answer  *)
(* or in a failed append; and so it is with every approval spent.          *)
EvidenceComplete ==
    /\ \A c \in Call :
           LET logged(type, about) == EventOf(type, c, about) \in audit
               told == outcome[c]
           IN  /\ Returned(c) /\ told.raised # "audit" =>
                      /\ told.allowed => logged("policy_decision", "allow")
                      /\ told.denial_reason = "policy" => logged("policy_decision", "block")
                      /\ told.checkpoint # None => logged("created", told.checkpoint)
                      /\ logged("tool_call_allowed", None) <=>
                             told.allowed /\ request[c].tool # None
                      /\ logged("tool_call_denied", None) <=>
                             told.denial_reason = "permission"
                      /\ logged("authority_not_current", None) <=>
                             told.denial_reason = "authority"
               /\ (\E type \in {"tool_call_allowed", "tool_call_denied",
                                "authority_not_current"} : logged(type, None)) =>
                      Returned(c)
    /\ SpentOnRecord

(* "Once engaged, makes every further governed action refuse"              *)
(* (kill_switch.py:1-5), and a revocation that reached a running agent     *)
(* (governor.py:96-100): a call begun under a halt or without authority is *)
(* not allowed for as long as that lasts, whatever the call is.            *)
HaltedCallsNeverAct ==
    \A c \in halted : outcome[c] # None => ~outcome[c].allowed

(* "A caller-supplied autonomy tier ABOVE this ceiling gets clamped down"  *)
(* (governor.py:110-123): a call is allowed only where the policy and the  *)
(* tool's minimum tier both admit the approved ceiling, whatever tier the  *)
(* caller claims.  Holds while ScopeChoices = {}.                          *)
NothingAboveTheCeiling ==
    ApprovedCeiling # None =>
        \A c \in Call : Allowed(c) =>
            LET r == request[c]
                level == IF r.level > ApprovedCeiling THEN ApprovedCeiling ELSE r.level
            IN  /\ Evaluate(Rules, r.action, r.confidence, level) = "allow"
                /\ r.tool # None => AtLeast(level, scopes[r.tool].minimum_autonomy)

Granted(c) == outcome[c] = None /\ outcome'[c] # None /\ outcome'[c].allowed

(* The same as ActsOnlyAsApproved at the instant of the grant, against the *)
(* scope that is registered then: "calls whose amount is above this need   *)
(* an approved, unused HITL checkpoint bound to that exact call"           *)
(* (permissions.py:52-53).                                                 *)
GrantsAreApproved ==
    [][\A c \in Call : Granted(c) /\ AboveThreshold(c) => Spent(c)]_vars

-----------------------------------------------------------------------------
(* Refinement *)

StageOf == [pending |-> "asked", approved |-> "granted",
            rejected |-> "refused", expired |-> "lapsed"]

ticket == [id \in CheckpointId |->
    IF ~Exists(id) THEN None
    ELSE [purpose |-> <<checkpoints[id].action, checkpoints[id].bound_params>>,
          stage |-> IF checkpoints[id].consumed THEN "torn"
                    ELSE StageOf[checkpoints[id].status]]]

act == [c \in Call |->
    IF Allowed(c) /\ AboveThreshold(c)
    THEN [purpose |-> <<request[c].action, BoundCall(request[c])>>, ticket |-> token[c]]
    ELSE None]

Purpose == Action \X (BoundParams \cup {None})

Tickets == INSTANCE ApprovalTickets WITH Ticket <- CheckpointId, Agent <- Call

(* Python's None is no ticket and no act.                                  *)
ASSUME TicketAssumption ==
    /\ None \notin [purpose : Purpose, stage : Tickets!Stage]
    /\ None \notin [purpose : Purpose, ticket : CheckpointId]

(* The governor keeps the promise of ApprovalTickets: what the agent does  *)
(* above a threshold is one act on a ticket a human granted for it, and    *)
(* every step on a checkpoint (governor.py:425-436, hitl.py:94-234) is a   *)
(* step a ticket may take.  Holds while ScopeChoices = {}.                 *)
ImplementsApprovalTickets == Tickets!Spec

=============================================================================
