---------------------------- MODULE LendingGates ----------------------------
(***************************************************************************)
(* The two Ghana lending gates and the workflow that calls them in order   *)
(* (ghana_lending_controls.py, ghana_synthetic_lending_demo.py): several   *)
(* applicants at once on one audit log, while their papers change and an   *)
(* append to the log may raise.  The papers are mutable objects that a     *)
(* gate reads several times, and each call may be passed other ones.       *)
(* Neither gate inspects confidence or autonomy tier, and nothing but the  *)
(* entry reads the bureau's id and the times and methods.                  *)
(***************************************************************************)
EXTENDS Naturals, Sequences

CONSTANTS
    Applicant,
    Field,        \* REQUIRED_DISCLOSURE_FIELDS
    None,
    MaxEntries,   \* bound on audit entries
    MaxFailures   \* bound on appends that raise

ASSUME LendingAssumption ==
    /\ None \notin {"allow", "block", "require_approval"}
    /\ {"retrieved", "delivered"} \cap Field = {}
    /\ MaxEntries \in Nat
    /\ MaxFailures \in Nat

VARIABLES
    papers,      \* the facts that hold of the papers the running gate was
                 \* passed for each applicant
    pc,          \* how far each applicant's workflow is
    found,       \* the missing fields disclosure_gate_rules found
    result,      \* the decision it waits to see logged
    entries,     \* the shared audit log
    failures,    \* appends that raised
    ever,        \* history: the facts that held at some moment since the
                 \* gate's first look
    always       \* history: those that held all the time since

paperVars == <<papers, ever, always>>
logVars == <<entries, failures>>
vars == <<paperVars, pc, found, result, logVars>>

(* CreditReportStatus.retrieved, DisclosureStatement.delivered, and the    *)
(* fields of the statement that are truthy: a fee of 0 is not.             *)
Fact == {"retrieved", "delivered"} \cup Field
ControlId == {"credit_report_gate", "disclosure_gate"}
Decision == {"allow", "block", "require_approval"}
Entry == [applicant_ref : Applicant, control_id : ControlId,
          decision : Decision, missing : SUBSET Field]

TypeOK ==
    /\ papers \in [Applicant -> SUBSET Fact]
    /\ pc \in [Applicant -> {"open", "allow_rule", "agreement", "delivery",
                             "halted", "executed"} \cup ControlId]
    /\ found \in [Applicant -> SUBSET Field]
    /\ result \in [Applicant -> Decision \cup {None}]
    /\ entries \in Seq(Entry)
    /\ failures \in 0 .. MaxFailures
    /\ ever \in [Applicant -> SUBSET Fact]
    /\ always \in [Applicant -> SUBSET Fact]

Init ==
    /\ papers = [a \in Applicant |-> {}]
    /\ pc = [a \in Applicant |-> "open"]
    /\ found = [a \in Applicant |-> {}]
    /\ result = [a \in Applicant |-> None]
    /\ entries = << >>
    /\ failures = 0
    /\ ever = [a \in Applicant |-> {}]
    /\ always = [a \in Applicant |-> {}]

-----------------------------------------------------------------------------
(* The papers *)

Required(control) ==
    IF control = "credit_report_gate" THEN {"retrieved"} ELSE Field \cup {"delivered"}

(* What the papers say that the gate running for a was passed.             *)
Sought(a) ==
    CASE pc[a] \in {"allow_rule", "credit_report_gate"} -> Required("credit_report_gate")
      [] pc[a] \in {"delivery", "disclosure_gate"} -> Required("disclosure_gate")
      [] OTHER -> {}

(* A fact comes to hold of the object a gate was passed, or ceases to.     *)
PapersChange(a, fact) ==
    LET now == IF fact \in papers[a] THEN papers[a] \ {fact} ELSE papers[a] \cup {fact}
    IN  /\ fact \in Sought(a)
        /\ papers' = [papers EXCEPT ![a] = now]
        /\ ever' = [ever EXCEPT ![a] = @ \cup now]
        /\ always' = [always EXCEPT ![a] = @ \cap now]
        /\ UNCHANGED <<pc, found, result, logVars>>

-----------------------------------------------------------------------------
(* The gates *)

(* Mutant: rules left in a shared engine by the first applicant come first. *)
FirstApplicantsPapers(a) ==
    papers[IF entries = << >> THEN a ELSE entries[1].applicant_ref]

(* What the rules close over: each call builds its own engine.             *)
OwnPapers(a) == papers[a]

MissingFields(a) == Field \ OwnPapers(a)

(* Each call is passed papers of its own, whatever they say.               *)
IsPassed(a, control) ==
    \E given \in SUBSET Required(control) :
        /\ papers' = [papers EXCEPT ![a] = given]
        /\ ever' = [ever EXCEPT ![a] = given]
        /\ always' = [always EXCEPT ![a] = given]

Decides(a, control, decision) ==
    /\ pc' = [pc EXCEPT ![a] = control]
    /\ result' = [result EXCEPT ![a] = decision]

(* PolicyEngine.evaluate: the block rule first ...                         *)
TryBlockRule(a) ==
    /\ pc[a] = "open"
    /\ UNCHANGED <<found, logVars>>
    /\ IsPassed(a, "credit_report_gate")
    /\ \/ /\ "retrieved" \notin OwnPapers(a)'
          /\ Decides(a, "credit_report_gate", "block")
       \/ /\ "retrieved" \in OwnPapers(a)'
          /\ pc' = [pc EXCEPT ![a] = "allow_rule"]
          /\ UNCHANGED result

(* ... then the allow rule, which looks at the report again: it may match  *)
(* no longer, and then no rule has.                                        *)
TryAllowRule(a) ==
    /\ pc[a] = "allow_rule"
    /\ Decides(a, "credit_report_gate",
               IF "retrieved" \in OwnPapers(a) THEN "allow" ELSE "require_approval")
    /\ UNCHANGED <<paperVars, found, logVars>>

(* disclosure_gate_rules looks at the fields, then at the delivery; its    *)
(* rules go by what it found, so exactly one of them matches.              *)
FindMissingFields(a) ==
    /\ pc[a] = "agreement"
    /\ UNCHANGED <<result, logVars>>
    /\ IsPassed(a, "disclosure_gate")
    /\ found' = [found EXCEPT ![a] = MissingFields(a)']
    /\ pc' = [pc EXCEPT ![a] = "delivery"]

EvaluateDisclosure(a) ==
    /\ pc[a] = "delivery"
    /\ Decides(a, "disclosure_gate",
               IF "delivered" \in OwnPapers(a) /\ found[a] = {} THEN "allow" ELSE "block")
    /\ found' = [found EXCEPT ![a] = {}]
    /\ UNCHANGED <<paperVars, logVars>>

-----------------------------------------------------------------------------
(* The workflow: a decision is logged, and halts it or takes it one gate   *)
(* further.  The missing fields are read once more for the entry.          *)

(* Mutant: the entry lists whatever the gate asks for and did not get. *)
MissingFacts(control, a) == Required(control) \ OwnPapers(a)

Missing(control, a) == IF control = "disclosure_gate" THEN MissingFields(a) ELSE {}

Records(a) ==
    /\ Len(entries) < MaxEntries
    /\ entries' = Append(entries, [applicant_ref |-> a, control_id |-> pc[a],
                                   decision |-> result[a], missing |-> Missing(pc[a], a)])

(* The gate is left, with the decision or with an exception.               *)
Leaves(a, next) ==
    /\ pc' = [pc EXCEPT ![a] = next]
    /\ result' = [result EXCEPT ![a] = None]
    /\ papers' = [papers EXCEPT ![a] = {}]
    /\ ever' = [ever EXCEPT ![a] = {}]
    /\ always' = [always EXCEPT ![a] = {}]
    /\ UNCHANGED found

LogDecision(a, control, decisions, next) ==
    /\ pc[a] = control
    /\ result[a] \in decisions
    /\ Records(a)
    /\ Leaves(a, next)
    /\ UNCHANGED failures

(* Mutant: the disclosure gate is run whatever the credit report gate says. *)
GoOnAtCreditGate(a) ==
    LogDecision(a, "credit_report_gate", {"block", "require_approval"}, "agreement")

HaltAtCreditGate(a) ==
    LogDecision(a, "credit_report_gate", {"block", "require_approval"}, "halted")

PassCreditGate(a) == LogDecision(a, "credit_report_gate", {"allow"}, "agreement")

HaltAtDisclosureGate(a) == LogDecision(a, "disclosure_gate", {"block"}, "halted")

ExecuteAgreement(a) == LogDecision(a, "disclosure_gate", {"allow"}, "executed")

Fails == failures < MaxFailures /\ failures' = failures + 1

(* Mutant: a decision that could not be logged is acted on. *)
AppendFailsQuietly(a) ==
    /\ result[a] # None
    /\ Fails
    /\ Records(a) \/ UNCHANGED entries
    /\ Leaves(a, CASE result[a] # "allow" -> "halted"
                   [] pc[a] = "credit_report_gate" -> "agreement"
                   [] OTHER -> "executed")

(* append() raises out of the gate and no decision is returned; the entry  *)
(* may be in the log all the same (AuditLog.tla).                          *)
AppendFails(a) ==
    /\ result[a] # None
    /\ Fails
    /\ Records(a) \/ UNCHANGED entries
    /\ Leaves(a, "halted")

(* The applicant is brought again, from the first gate: halted before, or  *)
(* for another agreement, as scenario 5 does with both.                    *)
Reapply(a) ==
    /\ pc[a] \in {"halted", "executed"}
    /\ pc' = [pc EXCEPT ![a] = "open"]
    /\ UNCHANGED <<paperVars, found, result, logVars>>

Next ==
    \E a \in Applicant :
        \/ \E fact \in Fact : PapersChange(a, fact)
        \/ TryBlockRule(a)
        \/ TryAllowRule(a)
        \/ HaltAtCreditGate(a)
        \/ PassCreditGate(a)
        \/ FindMissingFields(a)
        \/ EvaluateDisclosure(a)
        \/ HaltAtDisclosureGate(a)
        \/ ExecuteAgreement(a)
        \/ AppendFails(a)
        \/ Reapply(a)

Spec == Init /\ [][Next]_vars

-----------------------------------------------------------------------------
(* Properties *)

EntryIs(i, a, control, decision) ==
    /\ entries[i].applicant_ref = a
    /\ entries[i].control_id = control
    /\ entries[i].decision = decision

(* The latest of a's entries before the n-th. *)
LatestBefore(n, a, control, decision) ==
    \E i \in 1 .. n - 1 :
        /\ EntryIs(i, a, control, decision)
        /\ \A k \in i + 1 .. n - 1 : entries[k].applicant_ref # a

Latest(a, control, decision) == LatestBefore(Len(entries) + 1, a, control, decision)

(* "May not proceed to conclusion unless a credit report has been          *)
(* retrieved", "may not be executed unless a compliant disclosure" was     *)
(* "evidenced as delivered" (ghana_lending_controls.py:112-115, 237-240):  *)
(* whoever is past a gate has that gate's permission as the latest entry   *)
(* about them, at every passage anew, whatever appends raised and whatever *)
(* the papers and the other applicants did.                                *)
ExecutedOnEvidence ==
    \A a \in Applicant :
        /\ pc[a] \in {"agreement", "delivery", "disclosure_gate"} =>
               Latest(a, "credit_report_gate", "allow")
        /\ pc[a] = "executed" => Latest(a, "disclosure_gate", "allow")

(* A gate looks at its applicant's papers several times while they change, *)
(* and once more for the entry (ghana_lending_controls.py:84-97, 191-209,  *)
(* 260).  What it allowed was there, each piece of it, at some moment      *)
(* since its first look, and what was there all the time it allowed; the   *)
(* entry's missing fields keep to the same bounds.  So an entry that is at *)
(* odds with itself, a block with nothing missing say, means that this     *)
(* applicant's papers changed under the gate, and that alone.              *)
DecidedOnOwnPapers ==
    [][entries' # entries =>
           LET e == entries'[Len(entries')]
               a == e.applicant_ref
           IN  /\ e.decision = "allow" => Required(e.control_id) \subseteq ever[a]
               /\ Required(e.control_id) \subseteq always[a] => e.decision = "allow"
               /\ e.control_id = "disclosure_gate" =>
                      /\ Field \ e.missing \subseteq ever[a]
                      /\ e.missing \cap always[a] = {}]_vars

(* "There is deliberately no disclosure-gate record at all" of a blocked   *)
(* applicant (ghana_synthetic_lending_demo.py:210-225, 312-317): a         *)
(* disclosure record follows a permission of the same applicant's credit   *)
(* gate with no later credit decision in between.                          *)
EvidenceInWorkflowOrder ==
    \A j \in DOMAIN entries : entries[j].control_id = "disclosure_gate" =>
        LatestBefore(j, entries[j].applicant_ref, "credit_report_gate", "allow")

=============================================================================
