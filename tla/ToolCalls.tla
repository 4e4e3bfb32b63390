----------------------------- MODULE ToolCalls ------------------------------
(***************************************************************************)
(* A ToolPermissionRegistry that several threads share, used directly (no  *)
(* governor).  Each Call is one check_and_record: its checks and its       *)
(* charge are one critical section, a denial is logged inside it, the      *)
(* tool_call_allowed entry only after it.  Scopes, limits and the session  *)
(* change underneath.                                                      *)
(***************************************************************************)
EXTENDS ToolPermissions, FiniteSets, FiniteSetsExt

CONSTANTS
    Call,          \* invocations of check_and_record
    ToolRequest,   \* the arguments a call may be made with
    ScopeOf,       \* the scope each tool is registered with, None for never
    LimitOf,       \* the definition each cumulative limit is registered with
    MaxResets,     \* bound on reset_session()
    MaxFailures    \* bound on append() calls that raise

ASSUME ToolCallsAssumption ==
    /\ ToolRequest \subseteq [tool : Tool, level : AutonomyLevel, params : Params]
    /\ ScopeOf \in [Tool -> ToolScope \cup {None}]
    /\ LimitOf \in [LimitId -> CumulativeLimit]
    /\ MaxResets \in Nat /\ MaxFailures \in Nat

(* Python's None is no set of limits. *)
ASSUME ChargeAssumption == \A limits \in SUBSET LimitId : limits # None

VARIABLES
    stage,      \* how far each call got
    request,    \* its arguments, None before it starts
    charged,    \* the limits a call was charged to, None if never charged
    session,    \* the calls charged since the last reset_session
    log,        \* <<type, call>> for the entries in the audit log
    resets,
    failures

callVars == <<stage, request, charged, session, log>>
vars == <<permissionVars, callVars, resets, failures>>

(* "recorded": charged, the lock released, tool_call_allowed still to log. *)
Stage == {"idle", "recorded", "allowed", "denied", "raised"}

TypeOK ==
    /\ PermissionTypeOK
    /\ stage \in [Call -> Stage]
    /\ request \in [Call -> ToolRequest \cup {None}]
    /\ charged \in [Call -> (SUBSET LimitId) \cup {None}]
    /\ session \subseteq Call
    /\ log \subseteq {"tool_call_allowed", "tool_call_denied"} \X Call
    /\ resets \in 0 .. MaxResets
    /\ failures \in 0 .. MaxFailures

Init ==
    /\ PermissionInit
    /\ stage = [c \in Call |-> "idle"]
    /\ request = [c \in Call |-> None]
    /\ charged = [c \in Call |-> None]
    /\ session = {}
    /\ log = {}
    /\ resets = 0
    /\ failures = 0

Finish(c, s) == stage' = [stage EXCEPT ![c] = s]

(* An append() that raises: a plain AuditLog has not taken the entry, a    *)
(* PersistentAuditLog whose write fails keeps it in its chain, and perhaps *)
(* on disk (persistence.py:60-62).  The caller sees that exception.        *)
AppendRaises(c, type) ==
    /\ failures < MaxFailures
    /\ failures' = failures + 1
    /\ log' \in {log, log \cup {<<type, c>>}}
    /\ Finish(c, "raised")

Grant(c) ==
    \E r \in ToolRequest :
        /\ stage[c] = "idle"
        /\ Permitted(r.tool, r.level, r.params)
        /\ RecordCall(r.tool, r.params)
        /\ request' = [request EXCEPT ![c] = r]
        /\ charged' = [charged EXCEPT ![c] = ApplicableLimits(r.tool)]
        /\ session' = session \cup {c}
        /\ Finish(c, "recorded")
        /\ UNCHANGED <<log, resets, failures>>

(* _deny appends before it raises; if append() raises instead, the caller  *)
(* sees that exception and the call is just as refused.                    *)
Deny(c) ==
    \E r \in ToolRequest :
        /\ stage[c] = "idle"
        /\ ~Permitted(r.tool, r.level, r.params)
        /\ request' = [request EXCEPT ![c] = r]
        /\ \/ /\ log' = log \cup {<<"tool_call_denied", c>>}
              /\ Finish(c, "denied")
              /\ UNCHANGED failures
           \/ AppendRaises(c, "tool_call_denied")
        /\ UNCHANGED <<permissionVars, charged, session, resets>>

(* Mutant: the grant is returned without its entry. *)
LogGrantSilently(c) ==
    /\ stage[c] = "recorded"
    /\ Finish(c, "allowed")
    /\ UNCHANGED <<log, permissionVars, request, charged, session, resets, failures>>

LogGrant(c) ==
    /\ stage[c] = "recorded"
    /\ log' = log \cup {<<"tool_call_allowed", c>>}
    /\ Finish(c, "allowed")
    /\ UNCHANGED <<permissionVars, request, charged, session, resets, failures>>

(* The charge stays although the caller sees an exception. *)
LogGrantFails(c) ==
    /\ stage[c] = "recorded"
    /\ AppendRaises(c, "tool_call_allowed")
    /\ UNCHANGED <<permissionVars, request, charged, session, resets>>

RegisterScope(tool) ==
    /\ scopes[tool] # ScopeOf[tool]
    /\ Register(tool, ScopeOf[tool])
    /\ UNCHANGED <<callVars, resets, failures>>

RegisterLimit(l) ==
    /\ cumulative_limits[l] # LimitOf[l]
    /\ RegisterCumulativeLimit(l, LimitOf[l])
    /\ UNCHANGED <<callVars, resets, failures>>

NewSession ==
    /\ resets < MaxResets
    /\ ResetSession
    /\ session' = {}
    /\ resets' = resets + 1
    /\ UNCHANGED <<stage, request, charged, log, failures>>

Next ==
    \/ \E c \in Call : Grant(c) \/ Deny(c) \/ LogGrant(c) \/ LogGrantFails(c)
    \/ \E tool \in Tool : RegisterScope(tool)
    \/ \E l \in LimitId : RegisterLimit(l)
    \/ NewSession

Spec == Init /\ [][Next]_vars

-----------------------------------------------------------------------------
(* Properties *)

AmountOf(c) == Amount[request[c].params]
SumOf(calls) == MapThenSumSet(AmountOf, calls)
ChargedTo(l) == {c \in session : l \in charged[c]}
SessionCalls(tool) == {c \in session : request[c].tool = tool}

(* max_calls_per_session is exact (permissions.py:18-24): however many     *)
(* threads race for it, a session never holds more calls to a tool than    *)
(* its cap, and calls whose tool has no scope never get into a session.    *)
SessionCapHonoured ==
    \A tool \in Tool :
        /\ SessionCalls(tool) # {} => ScopeOf[tool] # None
        /\ ScopeOf[tool] # None /\ ScopeOf[tool].max_calls_per_session # None =>
               Cardinality(SessionCalls(tool)) <= ScopeOf[tool].max_calls_per_session

(* "A ceiling on the summed amount of ALL listed tools in one session, not *)
(* each tool separately" (permissions.py:57-64): the calls charged to a    *)
(* limit in this session, across its tools, never sum to more than its     *)
(* ceiling.  (A limit is charged from its registration on.)                *)
BudgetHonoured ==
    \A l \in LimitId :
        ChargedTo(l) # {} => SumOf(ChargedTo(l)) <= LimitOf[l].ceiling

(* All limits are checked before any is charged and all are charged at     *)
(* once (permissions.py:164-184): a denied call leaves no partial charge,  *)
(* and the ledger is exactly the calls of the session.                     *)
LedgerIsTheSession ==
    /\ \A l \in LimitId : cumulative_used[l] = SumOf(ChargedTo(l))
    /\ \A tool \in Tool : call_counts[tool] = Cardinality(SessionCalls(tool))

(* The allowed entry follows the charge outside the lock, and an append    *)
(* that raises may have written its entry: whoever is told has the entry   *)
(* on record; whatever is on record as allowed is charged and as denied is *)
(* not, and its caller was told so or saw an exception; at rest a charge   *)
(* the log does not show is of a call that raised; and no more calls raise *)
(* so than appends did.                                                    *)
EveryChargeIsOnRecord ==
    LET at(s) == {c \in Call : stage[c] = s}
        logged(type) == {c \in Call : <<type, c>> \in log}
        charges == {c \in Call : charged[c] # None}
    IN  /\ at("allowed") \subseteq logged("tool_call_allowed")
        /\ at("denied") \subseteq logged("tool_call_denied")
        /\ logged("tool_call_allowed") \subseteq charges \cap (at("allowed") \cup at("raised"))
        /\ logged("tool_call_denied") \subseteq (at("denied") \cup at("raised")) \ charges
        /\ at("recorded") = {} =>
               charges \ logged("tool_call_allowed") \subseteq at("raised")
        /\ Cardinality(at("raised")) <= failures

=============================================================================
