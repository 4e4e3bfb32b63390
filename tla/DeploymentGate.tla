--------------------------- MODULE DeploymentGate ---------------------------
(***************************************************************************)
(* governanceops-gate run: cli.py and gate.py.  A config file is loaded,   *)
(* its policy rules and tool scopes are compiled one by one, its scenarios *)
(* run in order against the one governor they make, and the exit code says *)
(* whether the pipeline may deploy.  Every dict of the file is a function  *)
(* on the keys it has.  Names of rules and reasons are left out but for    *)
(* whether they are there.                                                 *)
(***************************************************************************)
EXTENDS PolicyEngine, ToolPermissions, FiniteSets

CONSTANTS
    Config,     \* contents of config files that are JSON objects
    Unreadable  \* a file that is missing or not valid JSON

ASSUME GateAssumption ==
    /\ Unreadable \notin Config
    /\ \A file \in Config :
           /\ {"policy_rules", "tool_scopes", "scenarios"} = DOMAIN file
           /\ \A key \in DOMAIN file :
                  file[key] \in Seq({file[key][i] : i \in DOMAIN file[key]})
           /\ \A i \in DOMAIN file.tool_scopes :
                  "max_calls_per_session" \in DOMAIN file.tool_scopes[i] =>
                      file.tool_scopes[i].max_calls_per_session \in Int \cup {None}
           /\ \A i \in DOMAIN file.scenarios :
                  "tool_name" \in DOMAIN file.scenarios[i] =>
                      file.scenarios[i].tool_name \in Tool \cup {None}

VARIABLES
    config,   \* the file
    phase,    \* what run_gate() is working through
    todo,     \* what is left of it
    rules,    \* the policy engine's rule list
    results,  \* the ScenarioResults
    exit      \* the exit code, None while running

vars == <<config, phase, todo, rules, results, exit, permissionVars>>

Init ==
    /\ config \in Config \cup {Unreadable}
    /\ phase = "load"
    /\ todo = << >>
    /\ rules = << >>
    /\ results = << >>
    /\ exit = None
    /\ PermissionInit

Get(dict, key, default) == IF key \in DOMAIN dict THEN dict[key] ELSE default
Has(dict, keys) == keys \subseteq DOMAIN dict

-----------------------------------------------------------------------------
(* What is wrong with a dict, as the exception it ends in, or "no".  The   *)
(* earlier of two faults is raised, in the order the code reads the keys.  *)
(* Values are of the type the code wants: one of another type (a string    *)
(* min_confidence, a null constraint, a confidence that is text) raises    *)
(* too, a ValueError, TypeError or AttributeError, with exit code 1.       *)

FirstOf(faults) ==
    LET found == {i \in DOMAIN faults : faults[i][1]}
    IN  IF found = {} THEN "no"
        ELSE faults[CHOOSE i \in found : \A j \in found : i <= j][2]

UnknownLevel(dict, key) == Get(dict, key, 0) \notin AutonomyLevel

RuleFault(spec) ==
    LET type == Get(spec, "type", None)
    IN  FirstOf(<<
            <<type \notin {"block", "threshold"}, "GateConfigError">>,
            <<type = "block" /\ ~Has(spec, {"name", "action_prefix", "reason"}), "KeyError">>,
            <<type = "threshold" /\ UnknownLevel(spec, "minimum_autonomy"), "GateConfigError">>,
            <<type = "threshold" /\ ~Has(spec, {"name", "min_confidence"}), "KeyError">> >>)

BoundOf == [max_param |-> "max", min_param |-> "min", equals_param |-> "value"]

ScopeFault(spec) ==
    LET constrained == "constraint" \in DOMAIN spec
        known == constrained /\ Get(spec.constraint, "kind", None) \in DOMAIN BoundOf
    IN  FirstOf(<<
            <<constrained /\ ~known, "GateConfigError">>,
            <<known /\ BoundOf[spec.constraint.kind] \notin DOMAIN spec.constraint, "KeyError">>,
            <<"tool_name" \notin DOMAIN spec, "KeyError">>,
            <<UnknownLevel(spec, "minimum_autonomy"), "GateConfigError">> >>)

ConfidenceOf(scenario) == Get(scenario, "confidence", MaxConfidence)

ScenarioFault(scenario) ==
    FirstOf(<<
        <<~Has(scenario, {"name", "expect"}), "KeyError">>,
        <<Get(scenario, "expect", None) \notin {"allowed", "requires_approval", "blocked"},
          "GateConfigError">>,
        <<UnknownLevel(scenario, "autonomy_level"), "GateConfigError">>,
        <<"action" \notin DOMAIN scenario, "KeyError">>,
        <<~ValidConfidence(ConfidenceOf(scenario)), "ValueError">> >>)

-----------------------------------------------------------------------------
(* What a sound dict compiles to *)

CompileRule(spec) ==
    IF spec.type = "block" THEN <<BlockRule(spec.action_prefix)>>
    ELSE ThresholdRulePair(Get(spec, "action_prefix", None), spec.min_confidence,
                           Get(spec, "minimum_autonomy", 0))

(* A call without the parameter counts as 0 in max_param and min_param.    *)
Satisfies(params, constraint) ==
    LET param == Get(constraint, "param", None)
    IN  CASE constraint.kind = "max_param" -> Get(params, param, 0) <= constraint.max
          [] constraint.kind = "min_param" -> Get(params, param, 0) >= constraint.min
          [] OTHER -> Get(params, param, None) = constraint.value

CompileScope(spec) ==
    [minimum_autonomy      |-> Get(spec, "minimum_autonomy", 0),
     max_calls_per_session |-> Get(spec, "max_calls_per_session", None),
     accepts               |-> IF "constraint" \in DOMAIN spec
                               THEN {p \in Params : Satisfies(p, spec.constraint)}
                               ELSE Params,
     approval_above        |-> None]

-----------------------------------------------------------------------------
(* The run.  GateConfigError is caught and makes exit code 2; any other    *)
(* exception ends the interpreter with a traceback and its exit code 1.    *)

Stop(code) ==
    /\ exit' = code
    /\ phase' = "stopped"
    /\ UNCHANGED <<config, todo, rules, results, permissionVars>>

Raise(fault) == Stop(IF fault = "GateConfigError" THEN 2 ELSE 1)

Enter(next, list) ==
    /\ phase' = next
    /\ todo' = list
    /\ UNCHANGED <<config, rules, results, exit, permissionVars>>

LoadGateConfig ==
    /\ phase = "load"
    /\ \/ config = Unreadable /\ Raise("GateConfigError")
       \/ config # Unreadable /\ Enter("rules", config.policy_rules)

(* Mutant: a rule that does not compile is passed over. *)
BuildPolicyEngineLeniently ==
    /\ phase = "rules"
    /\ \/ todo = << >> /\ Enter("scopes", config.tool_scopes)
       \/ /\ todo # << >>
          /\ rules' = IF RuleFault(Head(todo)) # "no" THEN rules
                      ELSE rules \o CompileRule(Head(todo))
          /\ todo' = Tail(todo)
          /\ UNCHANGED <<config, phase, results, exit, permissionVars>>

BuildPolicyEngine ==
    /\ phase = "rules"
    /\ \/ todo = << >> /\ Enter("scopes", config.tool_scopes)
       \/ /\ todo # << >>
          /\ RuleFault(Head(todo)) # "no"
          /\ Raise(RuleFault(Head(todo)))
       \/ /\ todo # << >>
          /\ RuleFault(Head(todo)) = "no"
          /\ rules' = rules \o CompileRule(Head(todo))
          /\ todo' = Tail(todo)
          /\ UNCHANGED <<config, phase, results, exit, permissionVars>>

(* The compiled scopes are registered later, in the same order, when no    *)
(* call can have been made yet; a tool's last scope is the one that holds. *)
BuildToolScopes ==
    /\ phase = "scopes"
    /\ \/ todo = << >> /\ Enter("scenarios", config.scenarios)
       \/ /\ todo # << >>
          /\ ScopeFault(Head(todo)) # "no"
          /\ Raise(ScopeFault(Head(todo)))
       \/ /\ todo # << >>
          /\ ScopeFault(Head(todo)) = "no"
          /\ Register(Head(todo).tool_name, CompileScope(Head(todo)))
          /\ todo' = Tail(todo)
          /\ UNCHANGED <<config, phase, rules, results, exit>>

LevelOf(scenario) == Get(scenario, "autonomy_level", 0)
ParamsOf(scenario) == Get(scenario, "tool_params", << >>)
ToolOf(scenario) == Get(scenario, "tool_name", None)

Decide(scenario) ==
    Evaluate(rules, scenario.action, ConfidenceOf(scenario), LevelOf(scenario))

(* permitted is what check_and_record finds of the scenario's tool call.   *)
ActualOf(scenario, permitted) ==
    LET decision == Decide(scenario)
    IN  CASE decision = "require_approval" -> "requires_approval"
          [] decision = "allow" /\ (ToolOf(scenario) # None => permitted) -> "allowed"
          [] OTHER -> "blocked"

(* Mutant: a call counts whether it was allowed or not. *)
ChargeAnyCall(scenario, actual) ==
    IF ToolOf(scenario) = None THEN UNCHANGED permissionVars
    ELSE RecordCall(ToolOf(scenario), ParamsOf(scenario))

Charge(scenario, actual) ==
    IF actual # "allowed" \/ ToolOf(scenario) = None THEN UNCHANGED permissionVars
    ELSE RecordCall(ToolOf(scenario), ParamsOf(scenario))

(* One evaluate_action.  The governor is shared by all the scenarios: the  *)
(* calls it allowed count against the caps of those that follow.           *)
RunScenario ==
    LET scenario == Head(todo)
        actual == ActualOf(scenario,
            Permitted(ToolOf(scenario), LevelOf(scenario), ParamsOf(scenario)))
    IN  /\ phase = "scenarios"
        /\ todo # << >>
        /\ ScenarioFault(scenario) = "no"
        /\ results' = Append(results, [expected |-> scenario.expect, actual |-> actual])
        /\ Charge(scenario, actual)
        /\ todo' = Tail(todo)
        /\ UNCHANGED <<config, phase, rules, exit>>

ScenarioRaises ==
    /\ phase = "scenarios"
    /\ todo # << >>
    /\ ScenarioFault(Head(todo)) # "no"
    /\ Raise(ScenarioFault(Head(todo)))

Passed(result) == result.actual = result.expected

(* Mutant: no failure is a pass, with nothing run as well. *)
AllOfNothingPassed == \A i \in DOMAIN results : Passed(results[i])

AllPassed ==
    /\ results # << >>
    /\ \A i \in DOMAIN results : Passed(results[i])

Report ==
    /\ phase = "scenarios"
    /\ todo = << >>
    /\ Stop(IF AllPassed THEN 0 ELSE 1)

Next ==
    \/ LoadGateConfig
    \/ BuildPolicyEngine
    \/ BuildToolScopes
    \/ RunScenario
    \/ ScenarioRaises
    \/ Report

Spec == Init /\ [][Next]_vars

-----------------------------------------------------------------------------
(* Properties *)

(* "Exits 0 if every scenario passed (deployment approved), 1 otherwise"   *)
(* (cli.py:6-8), and a gate that ran nothing approves nothing              *)
(* (gate.py:102-104): the pipeline goes on only when the config declares a *)
(* scenario and each of them came out as its owner wrote.                  *)
ApprovedMeansAsExpected ==
    exit = 0 =>
        /\ config # Unreadable
        /\ config.scenarios # << >>
        /\ [i \in DOMAIN results |-> results[i].actual]
               = [i \in DOMAIN config.scenarios |-> config.scenarios[i].expect]

(* The faults of the config's dicts, in the order the program meets them.  *)
Faults ==
    [i \in DOMAIN config.policy_rules |-> RuleFault(config.policy_rules[i])]
    \o [i \in DOMAIN config.tool_scopes |-> ScopeFault(config.tool_scopes[i])]
    \o [i \in DOMAIN config.scenarios |-> ScenarioFault(config.scenarios[i])]

(* GateConfigError is "for any malformed or invalid gate configuration"    *)
(* (gate.py:35-38) and the pipeline reads the exit code: a config with a   *)
(* dict the gate cannot use is never approved, wherever in the file it is  *)
(* and however good the rest of it, and exit code 2 always means such a    *)
(* config (the converse fails: a missing field is a KeyError and ends in   *)
(* 1, which reads like a blocked deployment).                              *)
FaultsNeverPass ==
    exit # None /\ config # Unreadable =>
        LET broken == {i \in DOMAIN Faults : Faults[i] # "no"}
        IN  /\ exit = 0 => broken = {}
            /\ exit = 2 => \E i \in broken : /\ Faults[i] = "GateConfigError"
                                           /\ \A j \in broken : i <= j

Fresh == INSTANCE ToolPermissions WITH call_counts <- [tool \in Tool |-> 0]

(* A scenario stands for what the deployed agent will do (gate.py:7-16):   *)
(* although all the scenarios share one governor, the outcome of each is   *)
(* the one a governor just started would give, but for a cap that earlier  *)
(* scenarios in the file have used up, and that only ever blocks.          *)
OutcomesAreFresh ==
    \A i \in DOMAIN results :
        LET scenario == config.scenarios[i]
            tool == ToolOf(scenario)
            fresh == ActualOf(scenario,
                Fresh!Permitted(tool, LevelOf(scenario), ParamsOf(scenario)))
            earlier == {j \in 1 .. i - 1 : /\ results[j].actual = "allowed"
                                           /\ ToolOf(config.scenarios[j]) = tool}
            used_up == /\ tool # None
                       /\ scopes[tool].max_calls_per_session # None
                       /\ scopes[tool].max_calls_per_session <= Cardinality(earlier)
        IN  results[i].actual = IF fresh = "allowed" /\ used_up THEN "blocked" ELSE fresh

=============================================================================
