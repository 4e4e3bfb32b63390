----------------------------- MODULE KillSwitch -----------------------------
(***************************************************************************)
(* The emergency halt of kill_switch.py.  engage() and clear() change the  *)
(* flag and append to the audit log inside one critical section; who       *)
(* engaged it and why only matter to the entry and are left out.           *)
(***************************************************************************)

VARIABLE is_engaged

KillSwitchTypeOK == is_engaged \in BOOLEAN
KillSwitchInit == is_engaged = FALSE

EngageSwitch == is_engaged' = TRUE
ClearSwitch == is_engaged' = FALSE

(* KillSwitch.check raises KillSwitchEngagedError unless this holds. *)
SwitchAllows == ~is_engaged

=============================================================================
