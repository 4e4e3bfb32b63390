--------------------------- MODULE GovernanceBase ---------------------------
(***************************************************************************)
(* The vocabulary the components share: the names an agent acts under and  *)
(* the autonomy tiers of autonomy.py.                                      *)
(***************************************************************************)
EXTENDS Integers

CONSTANTS
    Action,    \* action names a caller may submit
    None       \* Python's None

ASSUME NoneAssumption ==
    /\ None \notin Int
    /\ None \notin Action

(* The five tiers of the IntEnum, L0_NO_AUTONOMY .. L4_FULL_AUTONOMY.      *)
AutonomyLevel == 0 .. 4

(* autonomy.at_least *)
AtLeast(actual, minimum) == actual >= minimum

=============================================================================
