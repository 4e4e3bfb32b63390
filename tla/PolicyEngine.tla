---------------------------- MODULE PolicyEngine ----------------------------
(***************************************************************************)
(* PolicyEngine.evaluate as a function of its rule list: the first         *)
(* matching rule decides and an action no rule matches needs approval.     *)
(* A confidence in [0.0, 1.0] is an integer in 0 .. MaxConfidence, so an   *)
(* integer outside that range is a confidence evaluate() rejects.          *)
(***************************************************************************)
EXTENDS GovernanceBase, Sequences

CONSTANTS
    MaxConfidence,   \* the integer that stands for confidence 1.0
    Prefix,          \* non-empty action prefixes the rules name
    StartsWith       \* <<a, p>> is in it iff str.startswith holds of a and p

ASSUME PolicyAssumption ==
    /\ MaxConfidence \in Nat
    /\ StartsWith \subseteq Action \X Prefix
    /\ None \notin Prefix

Decision == {"allow", "require_approval", "block"}

PolicyRule ==
    [action_prefix    : Prefix \cup {None},
     minimum_autonomy : AutonomyLevel,
     min_confidence   : 0 .. MaxConfidence,
     decision         : Decision]

ValidConfidence(confidence) == confidence \in 0 .. MaxConfidence

(* What the closures threshold_rule_pair and block_rule build decide: an   *)
(* absent prefix matches every action.                                     *)
Matches(rule, action, confidence, level) ==
    /\ rule.action_prefix # None => <<action, rule.action_prefix>> \in StartsWith
    /\ AtLeast(level, rule.minimum_autonomy)
    /\ confidence >= rule.min_confidence

Evaluate(rules, action, confidence, level) ==
    LET hits == {i \in DOMAIN rules : Matches(rules[i], action, confidence, level)}
        first == CHOOSE i \in hits : \A j \in hits : i <= j
    IN  IF hits = {} THEN "require_approval" ELSE rules[first].decision

ThresholdRulePair(prefix, min_confidence, minimum_autonomy) ==
    LET rule(floor, decision) ==
            [action_prefix |-> prefix, minimum_autonomy |-> minimum_autonomy,
             min_confidence |-> floor, decision |-> decision]
    IN  <<rule(min_confidence, "allow"), rule(0, "require_approval")>>

BlockRule(prefix) ==
    [action_prefix |-> prefix, minimum_autonomy |-> 0,
     min_confidence |-> 0, decision |-> "block"]

=============================================================================
