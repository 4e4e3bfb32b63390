-------------------------- MODULE ToolPermissions ---------------------------
(***************************************************************************)
(* ToolPermissionRegistry of permissions.py.  The operators are what its   *)
(* methods do under the registry's lock; ToolCalls and Governor give them  *)
(* callers.                                                                *)
(***************************************************************************)
EXTENDS GovernanceBase

CONSTANTS
    Tool,       \* tool names
    Params,     \* tool_params dicts
    Amount,     \* _amount_from: the "amount", "value" or "total" in a dict
    LimitId     \* ids of cumulative limits

ASSUME ToolAssumption ==
    /\ None \notin Tool
    /\ None \notin Params
    /\ Amount \in [Params -> Int \cup {None}]

VARIABLES
    scopes,             \* _scopes; None where no scope is registered
    cumulative_limits,  \* _cumulative_limits; None where none is registered
    call_counts,        \* _call_counts, 0 where the key is absent
    cumulative_used     \* _cumulative_used, 0 where the key is absent

permissionVars == <<scopes, cumulative_limits, call_counts, cumulative_used>>

(* accepts is the set of params the scope's constraint callable accepts. *)
ToolScope ==
    [minimum_autonomy      : AutonomyLevel,
     max_calls_per_session : Nat \cup {None},
     accepts               : SUBSET Params,
     approval_above        : Int \cup {None}]

CumulativeLimit == [tool_names : SUBSET Tool, ceiling : Int]

PermissionTypeOK ==
    /\ scopes \in [Tool -> ToolScope \cup {None}]
    /\ cumulative_limits \in [LimitId -> CumulativeLimit \cup {None}]
    /\ call_counts \in [Tool -> Nat]
    /\ cumulative_used \in [LimitId -> Int]

PermissionInit ==
    /\ scopes = [tool \in Tool |-> None]
    /\ cumulative_limits = [l \in LimitId |-> None]
    /\ call_counts = [tool \in Tool |-> 0]
    /\ cumulative_used = [l \in LimitId |-> 0]

Register(tool, scope) ==
    /\ scopes' = [scopes EXCEPT ![tool] = scope]
    /\ UNCHANGED <<cumulative_limits, call_counts, cumulative_used>>

RegisterCumulativeLimit(l, limit) ==
    /\ cumulative_limits' = [cumulative_limits EXCEPT ![l] = limit]
    /\ UNCHANGED <<scopes, call_counts, cumulative_used>>

(* Mutant: the counts are unset rather than cleared. *)
ResetSessionUnset ==
    /\ call_counts' = [tool \in Tool |-> None]
    /\ cumulative_used' = [l \in LimitId |-> 0]
    /\ UNCHANGED <<scopes, cumulative_limits>>

ResetSession ==
    /\ call_counts' = [tool \in Tool |-> 0]
    /\ cumulative_used' = [l \in LimitId |-> 0]
    /\ UNCHANGED <<scopes, cumulative_limits>>

(* A call with no amount fails closed: it needs an approval. *)
RequiresApproval(tool, params) ==
    /\ scopes[tool] # None
    /\ scopes[tool].approval_above # None
    /\ Amount[params] # None => Amount[params] > scopes[tool].approval_above

ApplicableLimits(tool) ==
    {l \in LimitId : /\ cumulative_limits[l] # None
                     /\ tool \in cumulative_limits[l].tool_names}

(* Mutant: the call cap is off by one. *)
UnderCallCapOffByOne(tool) ==
    scopes[tool].max_calls_per_session # None =>
        call_counts[tool] <= scopes[tool].max_calls_per_session

UnderCallCap(tool) ==
    scopes[tool].max_calls_per_session # None =>
        call_counts[tool] < scopes[tool].max_calls_per_session

(* Mutant: the amount is compared with the ceiling by itself. *)
WithinLimitsAlone(tool, params) ==
    ApplicableLimits(tool) # {} =>
        /\ Amount[params] # None
        /\ \A l \in ApplicableLimits(tool) :
               Amount[params] <= cumulative_limits[l].ceiling

(* Under a limit a call with no amount is refused, not counted as 0. *)
WithinLimits(tool, params) ==
    ApplicableLimits(tool) # {} =>
        /\ Amount[params] # None
        /\ \A l \in ApplicableLimits(tool) :
               cumulative_used[l] + Amount[params] <= cumulative_limits[l].ceiling

(* The checks of check_and_record, every one of them before any charge. *)
Permitted(tool, level, params) ==
    /\ scopes[tool] # None
    /\ AtLeast(level, scopes[tool].minimum_autonomy)
    /\ params \in scopes[tool].accepts
    /\ UnderCallCap(tool)
    /\ WithinLimits(tool, params)

(* Mutant: one budget pays, whatever limits the tool is under. *)
ChargeOneLimit(tool, params) ==
    /\ cumulative_used' =
           LET l == CHOOSE l \in ApplicableLimits(tool) : TRUE
           IN  IF ApplicableLimits(tool) = {} THEN cumulative_used
               ELSE [cumulative_used EXCEPT ![l] = @ + Amount[params]]
    /\ call_counts' = [call_counts EXCEPT ![tool] = @ + 1]
    /\ UNCHANGED <<scopes, cumulative_limits>>

(* What check_and_record records of a permitted call. *)
RecordCall(tool, params) ==
    /\ cumulative_used' = [l \in LimitId |->
           IF l \in ApplicableLimits(tool)
           THEN cumulative_used[l] + Amount[params]
           ELSE cumulative_used[l]]
    /\ call_counts' = [call_counts EXCEPT ![tool] = @ + 1]
    /\ UNCHANGED <<scopes, cumulative_limits>>

=============================================================================
