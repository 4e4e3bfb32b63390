-------------------------- MODULE DeploymentGateMC --------------------------
(* Configs around invoice_agent_gate_config.json: up to two rules, two     *)
(* scopes and three scenarios, sound ones and one of each kind of fault.   *)
EXTENDS DeploymentGate, TLC

CONSTANTS approve, release, auto_approve

MCStartsWith == {<<a, a>> : a \in Action}
Paid(amount) == "amount" :> amount
MCParams == {<< >>, Paid(3), Paid(9)}
MCAmount == << >> :> None @@ Paid(3) :> 3 @@ Paid(9) :> 9

Block == [type |-> "block", name |-> "no_release", action_prefix |-> release, reason |-> "r"]
Threshold ==
    [type |-> "threshold", name |-> "match", min_confidence |-> 1,
     minimum_autonomy |-> 3, action_prefix |-> approve]
Anything == [type |-> "threshold", name |-> "all", min_confidence |-> 0]
BadRules ==
    {[type |-> "blok", name |-> "typo"], [name |-> "untyped"],
     [type |-> "block", name |-> "no_prefix", reason |-> "r"],
     [type |-> "threshold", name |-> "level", min_confidence |-> 1, minimum_autonomy |-> 5],
     [type |-> "threshold", name |-> "no_confidence"]}

Within(kind, bound, limit) == [kind |-> kind, param |-> "amount"] @@ bound :> limit
Scope == [tool_name |-> auto_approve, minimum_autonomy |-> 3]
Capped == [tool_name |-> auto_approve, max_calls_per_session |-> 1]
GoodScopes ==
    {Capped, "constraint" :> Within("max_param", "max", 5) @@ Scope,
     "constraint" :> Within("min_param", "min", 5) @@ Scope,
     "constraint" :> Within("equals_param", "value", 9) @@ Scope}
BadScopes ==
    {"constraint" :> Within("max", "max", 5) @@ Scope,
     "constraint" :> Within("max_param", "min", 5) @@ Scope,
     [minimum_autonomy |-> 3], [tool_name |-> auto_approve, minimum_autonomy |-> 5]}

Scenario(action, confidence, params, expect) ==
    [name |-> "s", action |-> action, confidence |-> confidence, autonomy_level |-> 3,
     tool_name |-> auto_approve, tool_params |-> params, expect |-> expect]
GoodScenarios ==
    {Scenario(approve, 1, Paid(3), "allowed"), Scenario(approve, 1, Paid(9), "blocked"),
     Scenario(approve, 0, Paid(3), "requires_approval"),
     [name |-> "s", action |-> approve, tool_name |-> auto_approve, expect |-> "allowed"],
     [name |-> "s", action |-> release, autonomy_level |-> 4, expect |-> "blocked"]}
BadScenarios ==
    {[name |-> "s", action |-> approve],
     Scenario(approve, 1, Paid(3), "denied"), Scenario(approve, 2, Paid(3), "allowed"),
     [name |-> "s", action |-> approve, autonomy_level |-> 5, expect |-> "allowed"],
     [name |-> "s", expect |-> "allowed"]}

UpTo(n, S) == UNION {[1 .. k -> S] : k \in 0 .. n}

File(rule_list, scope_list, scenario_list) ==
    [policy_rules |-> rule_list, tool_scopes |-> scope_list, scenarios |-> scenario_list]

GoodRules == {<<Block, Threshold>>, <<Threshold, Block>>, <<Anything, Block>>}
MCConfig ==
    {File(r, t, s) : r \in GoodRules, t \in UpTo(2, GoodScopes), s \in UpTo(3, GoodScenarios)}
    \cup {File(r, t, s) : r \in UpTo(2, BadRules \cup {Threshold}),
                          t \in UpTo(1, BadScopes \cup {Capped}),
                          s \in UpTo(2, BadScenarios \cup {Scenario(approve, 1, Paid(3), "allowed")})}

=============================================================================
