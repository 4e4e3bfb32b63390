-------------------------- MODULE InventoryPolicy --------------------------
(***************************************************************************)
(* The control loop with GovernanceOps Inventory: inventory_client.py,     *)
(* AgentGovernor.from_governanceops and AgentGovernor.report_event.        *)
(*                                                                         *)
(* A risk officer revises the record of one AI system in Inventory.  Agent *)
(* runtimes fetch its runtime policy, compile it into a governor, act      *)
(* under it, and report audit entries back, over HTTP exchanges that may   *)
(* fail on the way there or on the way back.  The runtimes append to one   *)
(* audit log, which outlives their governors, so an entry may be reported  *)
(* by a governor built after the one that made it.  What runs against      *)
(* evaluate_action itself is Governor's subject: here it is one step.  One *)
(* GET and one POST at a time bound the model: exchanges of two runtimes   *)
(* meet only in Inventory's record and its list of events.                 *)
(***************************************************************************)
EXTENDS PolicyEngine, SequencesExt

CONSTANTS
    Tool, Params, Amount,  \* as in ToolPermissions; tool names are prefixes
    Runtime,               \* agent runtimes
    Bundle,                \* what the risk officer may approve, see BundleKeys
    Request,               \* the arguments evaluate_action may be called with
    MaxVersion,            \* bound on revisions of the record
    MaxEntries,            \* bound on audit entries
    MaxEvents              \* bound on runtime events Inventory stores

(* A bundle is the dict of the JSON answer: any of its keys may be absent. *)
BundleKeys == {"autonomy_level", "permitted_tools", "forbidden_tools",
               "confidence_threshold", "transaction_limit"}
RequiredBundleKeys == {"autonomy_level", "permitted_tools", "forbidden_tools"}

ASSUME InventoryAssumption ==
    /\ Tool \subseteq Prefix
    /\ None \notin Tool \cup Params \cup Runtime \cup Bundle
    /\ None \notin {"event_id", "no_event_id"}
    /\ \A bundle \in Bundle :
           /\ DOMAIN bundle \subseteq BundleKeys
           /\ \A key \in DOMAIN bundle \cap {"permitted_tools", "forbidden_tools"} :
                  bundle[key] \in Seq(Prefix)
           /\ "confidence_threshold" \in DOMAIN bundle =>
                  bundle.confidence_threshold \in Int \cup {None}
    /\ Request \subseteq [action : Action, confidence : 0 .. MaxConfidence,
                          level : AutonomyLevel, tool : Tool \cup {None}, params : Params]

VARIABLES
    policies,    \* every state of the record's runtime policy, None while it
                 \* has no autonomy_level; the last holds
    fetch,       \* the GET under way, None where none
    governor,    \* the governor each runtime acts under, None before the first
    entries,     \* the shared audit log
    allowed,     \* requests answered with allowed=True, with the policy's version
    post,        \* the POST under way, None where none
    received,    \* Inventory's runtime events
    reported     \* entries report_event() returned normally for

policyVars == <<policies, fetch, governor>>
actVars == <<entries, allowed>>
reportVars == <<post, received, reported>>
vars == <<policyVars, actVars, reportVars>>

Init ==
    /\ \E bundle \in Bundle \cup {None} : policies = <<bundle>>
    /\ fetch = None
    /\ governor = [g \in Runtime |-> None]
    /\ entries = << >>
    /\ allowed = {}
    /\ post = None
    /\ received = << >>
    /\ reported = {}

-----------------------------------------------------------------------------
(* build_governance_from_bundle *)

Get(bundle, key) == IF key \in DOMAIN bundle THEN bundle[key] ELSE None

(* Inventory's tiers have the names of this library's. *)
KnownLevel(value) == value \in AutonomyLevel

(* Anything else raises InventoryClientError. *)
Compiles(bundle) ==
    /\ bundle # None
    /\ RequiredBundleKeys \subseteq DOMAIN bundle
    /\ KnownLevel(bundle.autonomy_level)

PermittedRules(bundle) ==
    LET confidence == Get(bundle, "confidence_threshold")
        floor == IF confidence = None THEN 0 ELSE confidence
    IN  FlattenSeq([i \in DOMAIN bundle.permitted_tools |->
            ThresholdRulePair(bundle.permitted_tools[i], floor, bundle.autonomy_level)])

ForbiddenRules(bundle) ==
    [i \in DOMAIN bundle.forbidden_tools |-> BlockRule(bundle.forbidden_tools[i])]

(* Mutant: the permissive rules come first and shadow the block rules. *)
PermittedRulesFirst(bundle) == PermittedRules(bundle) \o ForbiddenRules(bundle)

CompiledRules(bundle) == ForbiddenRules(bundle) \o PermittedRules(bundle)

(* A call without an amount parameter is refused, not counted as 0.        *)
UnderTransactionLimit(params, limit) ==
    /\ Amount[params] # None
    /\ Amount[params] <= limit

CompiledScopes(bundle) ==
    LET limit == Get(bundle, "transaction_limit")
    IN  [tool \in Tool |->
            IF tool \notin Range(bundle.permitted_tools) THEN None
            ELSE [minimum_autonomy |-> bundle.autonomy_level,
                  max_calls_per_session |-> None,
                  accepts |-> IF limit = None THEN Params
                              ELSE {p \in Params : UnderTransactionLimit(p, limit)},
                  approval_above |-> None]]

-----------------------------------------------------------------------------
(* from_governanceops *)

(* The risk officer revises the record; Inventory numbers the revisions.   *)
ChangePolicy(bundle) ==
    /\ Len(policies) < MaxVersion
    /\ policies' = Append(policies, bundle)
    /\ UNCHANGED <<fetch, governor, actVars, reportVars>>

StartFetch(g) ==
    /\ fetch = None
    /\ fetch' = [runtime |-> g, since |-> Len(policies), version |-> 0]
    /\ UNCHANGED <<policies, governor, actVars, reportVars>>

ServePolicy ==
    /\ fetch # None
    /\ fetch.version = 0
    /\ fetch' = [fetch EXCEPT !.version = Len(policies)]
    /\ UNCHANGED <<policies, governor, actVars, reportVars>>

(* Mutant: an unreachable Inventory leaves the runtime with the first      *)
(* policy that compiles of those it has had.                               *)
FetchFallsBack ==
    /\ fetch # None
    /\ \E v \in DOMAIN policies :
           /\ Compiles(policies[v])
           /\ governor' = [governor EXCEPT ![fetch.runtime] =
                  [rules |-> CompiledRules(policies[v]), scopes |-> CompiledScopes(policies[v]),
                   ceiling |-> policies[v].autonomy_level, policy_version |-> v,
                   since |-> fetch.since]]
    /\ fetch' = None
    /\ UNCHANGED <<policies, actVars, reportVars>>

(* No connection, a status that is not 2xx or a body that is not JSON: the *)
(* constructor raises, and a governor built earlier is left as it was.     *)
FetchFails ==
    /\ fetch # None
    /\ fetch' = None
    /\ UNCHANGED <<policies, governor, actVars, reportVars>>

(* since, a history variable, is the revision in force when construction   *)
(* began.  A bundle that does not compile raises.                          *)
BuildGovernor ==
    /\ fetch # None
    /\ fetch.version # 0
    /\ fetch' = None
    /\ LET bundle == policies[fetch.version]
       IN  governor' = IF ~Compiles(bundle) THEN governor ELSE
               [governor EXCEPT ![fetch.runtime] =
                   [rules |-> CompiledRules(bundle), scopes |-> CompiledScopes(bundle),
                    ceiling |-> bundle.autonomy_level,
                    policy_version |-> fetch.version, since |-> fetch.since]]
    /\ UNCHANGED <<policies, actVars, reportVars>>

-----------------------------------------------------------------------------
(* evaluate_action of a compiled governor: no authority_check, no limits,  *)
(* no thresholds and no call caps.                                         *)

Registry(g) == INSTANCE ToolPermissions WITH
    LimitId <- {}, scopes <- governor[g].scopes, cumulative_limits <- << >>,
    call_counts <- [tool \in Tool |-> 0], cumulative_used <- << >>

EffectiveLevel(g, request) ==
    IF request.level > governor[g].ceiling THEN governor[g].ceiling ELSE request.level

Decide(g, request) ==
    Evaluate(governor[g].rules, request.action, request.confidence,
             EffectiveLevel(g, request))

(* type, and of a policy_decision what its payload says.  The entries of a *)
(* checkpoint and of a tool call carry no version.                         *)
EntryOf(type, request, decision, version) ==
    [type |-> type, request |-> request, decision |-> decision, policy_version |-> version]

EvaluateAction(g, request) ==
    LET version == governor[g].policy_version
        decision == Decide(g, request)
        tool_allowed ==
            request.tool # None =>
                Registry(g)!Permitted(request.tool, EffectiveLevel(g, request), request.params)
        event == CASE decision = "require_approval" -> "hitl_checkpoint_created"
                   [] tool_allowed -> "tool_call_allowed"
                   [] OTHER -> "tool_call_denied"
        second == decision = "require_approval" \/ (decision = "allow" /\ request.tool # None)
    IN  /\ governor[g] # None
        /\ Len(entries) < MaxEntries
        /\ entries' = entries
               \o <<EntryOf("policy_decision", request, decision, version)>>
               \o (IF second THEN <<EntryOf(event, request, None, None)>> ELSE << >>)
        /\ allowed' = IF decision = "allow" /\ tool_allowed
                      THEN allowed \cup {[request |-> request, version |-> version]}
                      ELSE allowed
        /\ UNCHANGED <<policyVars, reportVars>>

-----------------------------------------------------------------------------
(* report_event and report_runtime_event *)

EventTypeDecision(type) ==
    CASE type = "tool_call_allowed" -> "allow"
      [] type = "tool_call_denied" -> "block"
      [] type = "hitl_checkpoint_created" -> "require_approval"

(* Mutant: every event is stamped with the reporting governor's version.   *)
EventStampedByReporter(g, i) ==
    [entry |-> i, policy_version |-> governor[g].policy_version,
     decision |-> IF entries[i].type = "policy_decision" THEN entries[i].decision
                  ELSE EventTypeDecision(entries[i].type)]

(* _event_dict_from_entry: a policy decision is reported under the version *)
(* in its payload, anything else under the reporting governor's own.       *)
EventFromEntry(g, i) ==
    IF entries[i].type = "policy_decision"
    THEN [entry |-> i, policy_version |-> entries[i].policy_version,
          decision |-> entries[i].decision]
    ELSE [entry |-> i, policy_version |-> governor[g].policy_version,
          decision |-> EventTypeDecision(entries[i].type)]

(* The caller may report an entry again, whatever became of the last try.  *)
SendReport(g, i) ==
    /\ governor[g] # None
    /\ post = None
    /\ post' = [event |-> EventFromEntry(g, i), answer |-> None]
    /\ UNCHANGED <<policyVars, actVars, received, reported>>

StoreEvent ==
    /\ post # None
    /\ post.answer = None
    /\ Len(received) < MaxEvents
    /\ received' = Append(received, post.event)
    /\ post' = [post EXCEPT !.answer = "event_id"]
    /\ UNCHANGED <<policyVars, actVars, reported>>

(* Something in between answers 200 with JSON that is no runtime event.    *)
AnswerStrangely ==
    /\ post # None
    /\ post.answer = None
    /\ post' = [post EXCEPT !.answer = "no_event_id"]
    /\ UNCHANGED <<policyVars, actVars, received, reported>>

(* The request or the answer is lost, or the answer is not JSON:           *)
(* InventoryClientError, and the event may or may not be stored.           *)
ReportFails ==
    /\ post # None
    /\ post' = None
    /\ UNCHANGED <<policyVars, actVars, received, reported>>

(* Mutant: any JSON answer counts. *)
AcceptAnyAnswer ==
    /\ post # None
    /\ post.answer # None
    /\ post' = None
    /\ reported' = reported \cup {post.event}
    /\ UNCHANGED <<policyVars, actVars, received>>

FinishReport ==
    /\ post # None
    /\ post.answer # None
    /\ post' = None
    /\ reported' = IF post.answer = "event_id" THEN reported \cup {post.event}
                   ELSE reported
    /\ UNCHANGED <<policyVars, actVars, received>>

-----------------------------------------------------------------------------
Next ==
    \/ \E bundle \in Bundle \cup {None} : ChangePolicy(bundle)
    \/ \E g \in Runtime :
           \/ StartFetch(g)
           \/ \E request \in Request : EvaluateAction(g, request)
           \/ \E i \in DOMAIN entries : SendReport(g, i)
    \/ ServePolicy
    \/ FetchFails
    \/ BuildGovernor
    \/ StoreEvent
    \/ AnswerStrangely
    \/ ReportFails
    \/ FinishReport

Spec == Init /\ [][Next]_vars

-----------------------------------------------------------------------------
(* Properties *)

NamedAfter(action, tools) == \E i \in DOMAIN tools : <<action, tools[i]>> \in StartsWith

(* What a bundle says of an action, read off the bundle itself.            *)
BundleDecision(bundle, request) ==
    LET confidence == Get(bundle, "confidence_threshold")
    IN  CASE NamedAfter(request.action, bundle.forbidden_tools) -> "block"
          [] /\ ~NamedAfter(request.action, bundle.forbidden_tools)
             /\ NamedAfter(request.action, bundle.permitted_tools)
             /\ request.level >= bundle.autonomy_level
             /\ confidence # None => request.confidence >= confidence -> "allow"
          [] OTHER -> "require_approval"

(* "Inventory becomes the source of truth for runtime policy"              *)
(* (inventory_client.py:1-7): whatever a runtime was allowed to do, a      *)
(* complete bundle that Inventory served allows it: the action by name,    *)
(* tier and confidence, the tool by name, the amount under the limit.      *)
NothingBeyondTheBundle ==
    \A a \in allowed :
        LET bundle == policies[a.version]
            limit == Get(bundle, "transaction_limit")
        IN  /\ bundle # None
            /\ RequiredBundleKeys \subseteq DOMAIN bundle
            /\ BundleDecision(bundle, a.request) = "allow"
            /\ a.request.tool # None =>
                   /\ a.request.tool \in Range(bundle.permitted_tools)
                   /\ limit # None => /\ Amount[a.request.params] # None
                                      /\ Amount[a.request.params] <= limit

(* "Which policy version produced this decision is the entire point of the *)
(* version/hash mechanism" (governor.py:198-205): every decision Inventory *)
(* has on record is the one the revision named in it makes of the request, *)
(* whichever governor reported it, how late and how often.                 *)
EvidenceReplays ==
    \A e \in Range(received) :
        LET entry == entries[e.entry]
        IN  entry.type = "policy_decision" =>
                /\ policies[e.policy_version] # None
                /\ e.decision = BundleDecision(policies[e.policy_version], entry.request)

(* report_runtime_event returns normally only for an event Inventory has   *)
(* (inventory_client.py:265-269), whatever was lost on the way.            *)
ReportedMeansReceived == reported \subseteq Range(received)

(* "Fails loudly rather than silently falling back" (governor.py:143-148): *)
(* a governor enforces a revision at least as new as the one in force when *)
(* its construction began, so a revocation reaches every runtime built     *)
(* after it, and a later construction never brings an older policy back.   *)
FreshWhenBuilt ==
    \A g \in Runtime :
        governor[g] # None => governor[g].policy_version >= governor[g].since

=============================================================================
