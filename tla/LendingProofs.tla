---------------------------- MODULE LendingProofs ----------------------------
(***************************************************************************)
(* The lending gates' evidence, for any number of applicants and of        *)
(* disclosure fields and for a log of any length.                          *)
(***************************************************************************)
EXTENDS LendingGates, TLAPS

(* A step that writes an entry: a decision that is acted on, or one whose  *)
(* append raised with the entry in the log.                                *)
Writes(a, next) ==
    /\ result[a] # None
    /\ Records(a)
    /\ Leaves(a, next)
    /\ next = "agreement" => pc[a] = "credit_report_gate" /\ result[a] = "allow"
    /\ next = "executed" => pc[a] = "disclosure_gate" /\ result[a] = "allow"

Stop == {"agreement", "halted", "executed"}

(* A step of a gate, of the papers or of a workflow that writes nothing.   *)
Quiet(a) ==
    \/ \E fact \in Fact : PapersChange(a, fact)
    \/ TryBlockRule(a)
    \/ TryAllowRule(a)
    \/ FindMissingFields(a)
    \/ EvaluateDisclosure(a)
    \/ Reapply(a)
    \/ result[a] # None /\ Fails /\ UNCHANGED entries /\ Leaves(a, "halted")

LEMMA StepIs ==
    ASSUME [Next]_vars
    PROVE  \/ UNCHANGED vars
           \/ \E a \in Applicant : Quiet(a)
           \/ \E a \in Applicant : \E next \in Stop :
                  Writes(a, next) /\ (UNCHANGED failures \/ Fails)
<1>1. CASE UNCHANGED vars
  BY <1>1
<1>2. ASSUME NEW a \in Applicant, NEW control, NEW decisions, NEW next \in Stop,
             LogDecision(a, control, decisions, next), None \notin decisions,
             next = "agreement" => control = "credit_report_gate" /\ decisions = {"allow"},
             next = "executed" => control = "disclosure_gate" /\ decisions = {"allow"}
      PROVE  Writes(a, next) /\ UNCHANGED failures
  BY <1>2 DEF LogDecision, Writes
<1>3. ASSUME NEW a \in Applicant,
             \/ HaltAtCreditGate(a) \/ PassCreditGate(a)
             \/ HaltAtDisclosureGate(a) \/ ExecuteAgreement(a)
      PROVE  \E next \in Stop : Writes(a, next) /\ UNCHANGED failures
  BY <1>2, <1>3, LendingAssumption
  DEF HaltAtCreditGate, PassCreditGate, HaltAtDisclosureGate, ExecuteAgreement, Stop
<1>4. ASSUME NEW a \in Applicant, AppendFails(a)
      PROVE  Quiet(a) \/ (Writes(a, "halted") /\ Fails)
  BY <1>4 DEF AppendFails, Quiet, Writes
<1>5. QED
  BY <1>1, <1>3, <1>4 DEF Next, Quiet, Stop

-----------------------------------------------------------------------------
(* Types *)

LEMMA SoughtIsFact == \A a : Sought(a) \subseteq Fact
BY DEF Sought, Required, Fact

LEMMA RequiredIsFact == \A control : Required(control) \subseteq Fact
BY DEF Required, Fact

LEMMA PassedTyped ==
    ASSUME TypeOK, NEW a \in Applicant, NEW control, IsPassed(a, control)
    PROVE  /\ papers' \in [Applicant -> SUBSET Fact]
           /\ ever' \in [Applicant -> SUBSET Fact]
           /\ always' \in [Applicant -> SUBSET Fact]
BY RequiredIsFact DEF TypeOK, IsPassed

LEMMA LeavesTyped ==
    ASSUME TypeOK, NEW a \in Applicant, NEW next \in Stop, Leaves(a, next),
           entries' \in Seq(Entry), UNCHANGED failures \/ Fails
    PROVE  TypeOK'
<1>1. failures' \in 0 .. MaxFailures
  BY LendingAssumption DEF TypeOK, Fails
<1>2. QED
  BY <1>1 DEF TypeOK, Leaves, Stop

LEMMA QuietTyped ==
    ASSUME TypeOK, NEW a \in Applicant, Quiet(a)
    PROVE  TypeOK'
<1>1. ASSUME NEW fact \in Fact, PapersChange(a, fact)
      PROVE  TypeOK'
  <2> DEFINE now == IF fact \in papers[a] THEN papers[a] \ {fact} ELSE papers[a] \cup {fact}
  <2>1. now \in SUBSET Fact
    BY <1>1 DEF TypeOK
  <2>2. /\ papers' = [papers EXCEPT ![a] = now]
        /\ ever' = [ever EXCEPT ![a] = ever[a] \cup now]
        /\ always' = [always EXCEPT ![a] = always[a] \cap now]
    BY <1>1 DEF PapersChange
  <2> HIDE DEF now
  <2>3. QED
    BY <1>1, <2>1, <2>2 DEF TypeOK, PapersChange, logVars
<1>2. CASE TryBlockRule(a)
  BY <1>2, PassedTyped DEF TypeOK, TryBlockRule, Decides, logVars, ControlId, Decision
<1>3. CASE TryAllowRule(a)
  BY <1>3 DEF TypeOK, TryAllowRule, Decides, paperVars, logVars, ControlId, Decision
<1>4. CASE FindMissingFields(a)
  <2>1. MissingFields(a)' \in SUBSET Field
    BY DEF MissingFields
  <2>2. QED
    BY <1>4, <2>1, PassedTyped DEF TypeOK, FindMissingFields, logVars
<1>5. CASE EvaluateDisclosure(a)
  BY <1>5 DEF TypeOK, EvaluateDisclosure, Decides, paperVars, logVars, ControlId, Decision
<1>6. CASE Reapply(a)
  BY <1>6 DEF TypeOK, Reapply, paperVars, logVars
<1>7. CASE Fails /\ UNCHANGED entries /\ Leaves(a, "halted")
  BY <1>7, LeavesTyped DEF TypeOK, Stop
<1>8. QED
  BY <1>1, <1>2, <1>3, <1>4, <1>5, <1>6, <1>7 DEF Quiet

(* The decision an entry tells belongs to the gate the workflow is at.     *)
AtGate == \A a \in Applicant : result[a] # None => pc[a] \in ControlId

LEMMA WritesTyped ==
    ASSUME TypeOK, AtGate, NEW a \in Applicant, NEW next \in Stop,
           Writes(a, next), UNCHANGED failures \/ Fails
    PROVE  TypeOK'
<1> DEFINE new == [applicant_ref |-> a, control_id |-> pc[a],
                   decision |-> result[a], missing |-> Missing(pc[a], a)]
<1>1. new \in Entry
  <2>1. Missing(pc[a], a) \in SUBSET Field
    BY DEF Missing, MissingFields
  <2>2. pc[a] \in ControlId /\ result[a] \in Decision
    BY DEF Writes, AtGate, TypeOK
  <2>3. QED
    BY <2>1, <2>2 DEF Entry
<1>2. entries' = Append(entries, new)
  BY DEF Writes, Records
<1> HIDE DEF new
<1>3. entries' \in Seq(Entry)
  BY <1>1, <1>2 DEF TypeOK
<1>4. QED
  BY <1>3, LeavesTyped DEF Writes

-----------------------------------------------------------------------------
(* What a running gate has looked at and what its papers say: what held    *)
(* all the time holds now, and what holds now held at some moment.  That   *)
(* pins down every look the gate takes, however the papers change in       *)
(* between, and so the decision it comes to.                               *)

Bounded(a) == always[a] \subseteq papers[a] /\ papers[a] \subseteq ever[a]

FoundSound(a) ==
    pc[a] = "delivery" => /\ Field \ found[a] \subseteq ever[a]
                          /\ found[a] \cap always[a] = {}

DecisionSound(a) ==
    result[a] # None =>
        /\ pc[a] \in ControlId
        /\ result[a] = "allow" => Required(pc[a]) \subseteq ever[a]
        /\ Required(pc[a]) \subseteq always[a] => result[a] = "allow"

PaperInv ==
    /\ TypeOK
    /\ \A a \in Applicant : Bounded(a) /\ FoundSound(a) /\ DecisionSound(a)

LEMMA PaperInit == Init => PaperInv
<1> SUFFICES ASSUME Init PROVE PaperInv
  OBVIOUS
<1>1. TypeOK
  BY LendingAssumption DEF Init, TypeOK
<1>2. QED
  BY <1>1 DEF Init, PaperInv, Bounded, FoundSound, DecisionSound

(* A step for a leaves what the invariant says of the others.              *)
Alone(a) ==
    \A b \in Applicant \ {a} :
        /\ papers'[b] = papers[b] /\ ever'[b] = ever[b] /\ always'[b] = always[b]
        /\ pc'[b] = pc[b] /\ found'[b] = found[b] /\ result'[b] = result[b]

LEMMA OthersSound ==
    ASSUME PaperInv, TypeOK', NEW a \in Applicant, Alone(a),
           Bounded(a)', FoundSound(a)', DecisionSound(a)'
    PROVE  PaperInv'
<1>1. ASSUME NEW b \in Applicant, b # a
      PROVE  Bounded(b)' /\ FoundSound(b)' /\ DecisionSound(b)'
  <2>1. Bounded(b) /\ FoundSound(b) /\ DecisionSound(b)
    BY DEF PaperInv
  <2>2. /\ papers'[b] = papers[b] /\ ever'[b] = ever[b] /\ always'[b] = always[b]
        /\ pc'[b] = pc[b] /\ found'[b] = found[b] /\ result'[b] = result[b]
    BY <1>1 DEF Alone
  <2>3. QED
    BY <2>1, <2>2 DEF Bounded, FoundSound, DecisionSound
<1>2. QED
  BY <1>1 DEF PaperInv

LEMMA LeavesSound ==
    ASSUME PaperInv, TypeOK', NEW a \in Applicant, NEW next \in Stop, Leaves(a, next)
    PROVE  PaperInv'
<1>1. Alone(a)
  BY DEF PaperInv, TypeOK, Leaves, Alone
<1>2. /\ papers'[a] = {} /\ ever'[a] = {} /\ always'[a] = {}
      /\ pc'[a] = next /\ result'[a] = None
  BY DEF PaperInv, TypeOK, Leaves
<1>3. QED
  BY <1>1, <1>2, OthersSound DEF Bounded, FoundSound, DecisionSound, Stop

(* A gate's first look is at the papers it was just passed.                *)
LEMMA FirstLook ==
    ASSUME TypeOK, NEW a \in Applicant, NEW control, IsPassed(a, control)
    PROVE  papers'[a] = ever'[a] /\ papers'[a] = always'[a]
BY DEF TypeOK, IsPassed

LEMMA PapersSound ==
    ASSUME PaperInv, TypeOK', NEW a \in Applicant, NEW fact \in Fact, PapersChange(a, fact)
    PROVE  PaperInv'
<1> DEFINE now == IF fact \in papers[a] THEN papers[a] \ {fact} ELSE papers[a] \cup {fact}
<1>1. /\ papers' = [papers EXCEPT ![a] = now]
      /\ ever' = [ever EXCEPT ![a] = ever[a] \cup now]
      /\ always' = [always EXCEPT ![a] = always[a] \cap now]
      /\ UNCHANGED <<pc, found, result>>
  BY DEF PapersChange
<1> HIDE DEF now
<1>2. /\ papers'[a] = now /\ ever'[a] = ever[a] \cup now /\ always'[a] = always[a] \cap now
      /\ Alone(a)
  BY <1>1 DEF PaperInv, TypeOK, Alone
<1>3. Bounded(a) /\ FoundSound(a) /\ DecisionSound(a)
  BY DEF PaperInv
<1>4. Bounded(a)'
  BY <1>2 DEF Bounded
<1>5. FoundSound(a)'
  BY <1>1, <1>2, <1>3 DEF FoundSound
<1>6. DecisionSound(a)'
  BY <1>1, <1>2, <1>3 DEF DecisionSound
<1>7. QED
  BY <1>2, <1>4, <1>5, <1>6, OthersSound

LEMMA CreditSound ==
    ASSUME PaperInv, TypeOK', NEW a \in Applicant, TryBlockRule(a) \/ TryAllowRule(a)
    PROVE  PaperInv'
<1>1. TypeOK /\ Bounded(a)
  BY DEF PaperInv
<1>2. Alone(a)
  BY <1>1 DEF TypeOK, Alone, TryBlockRule, TryAllowRule, IsPassed, Decides, paperVars
<1>3. Bounded(a)'
  <2>1. CASE TryBlockRule(a)
    BY <1>1, <2>1, FirstLook DEF TryBlockRule, Bounded
  <2>2. CASE TryAllowRule(a)
    BY <1>1, <2>2 DEF TryAllowRule, Bounded, paperVars
  <2>3. QED
    BY <2>1, <2>2
<1>4. pc'[a] \in {"allow_rule", "credit_report_gate"}
  BY <1>1 DEF TypeOK, TryBlockRule, TryAllowRule, Decides
<1>5. DecisionSound(a)'
  <2>1. CASE pc'[a] = "allow_rule"
    <3>1. pc[a] = "open" /\ result'[a] = result[a]
      BY <1>1, <2>1 DEF TypeOK, TryBlockRule, TryAllowRule, Decides
    <3>2. result[a] = None
      BY <3>1 DEF PaperInv, DecisionSound, ControlId
    <3>3. QED
      BY <3>1, <3>2 DEF DecisionSound
  <2>2. CASE pc'[a] = "credit_report_gate"
    <3>1. result'[a] = "allow" <=> "retrieved" \in papers'[a]
      BY <1>1, <2>2
      DEF TypeOK, TryBlockRule, TryAllowRule, Decides, OwnPapers, paperVars
    <3>2. Required(pc'[a]) = {"retrieved"} /\ pc'[a] \in ControlId
      BY <2>2 DEF Required, ControlId
    <3>3. QED
      BY <1>3, <3>1, <3>2 DEF DecisionSound, Required, Bounded
  <2>3. QED
    BY <1>4, <2>1, <2>2
<1>6. FoundSound(a)'
  BY <1>4 DEF FoundSound
<1>7. QED
  BY <1>2, <1>3, <1>5, <1>6, OthersSound

LEMMA DisclosureSound ==
    ASSUME PaperInv, TypeOK', NEW a \in Applicant,
           FindMissingFields(a) \/ EvaluateDisclosure(a)
    PROVE  PaperInv'
<1>1. TypeOK /\ Bounded(a) /\ FoundSound(a) /\ DecisionSound(a)
  BY DEF PaperInv
<1>2. Alone(a)
  BY <1>1 DEF TypeOK, Alone, FindMissingFields, EvaluateDisclosure, IsPassed, Decides, paperVars
<1>3. CASE FindMissingFields(a)
  <2>1. papers'[a] = ever'[a] /\ papers'[a] = always'[a]
    BY <1>1, <1>3, FirstLook DEF FindMissingFields
  <2>2. pc'[a] = "delivery" /\ result'[a] = result[a] /\ found'[a] = Field \ papers'[a]
    BY <1>1, <1>3 DEF TypeOK, FindMissingFields, MissingFields, OwnPapers
  <2>3. result[a] = None
    BY <1>1, <1>3 DEF FindMissingFields, DecisionSound, ControlId
  <2>4. Bounded(a)' /\ FoundSound(a)' /\ DecisionSound(a)'
    BY <2>1, <2>2, <2>3 DEF Bounded, FoundSound, DecisionSound
  <2>5. QED
    BY <1>2, <2>4, OthersSound
<1>4. CASE EvaluateDisclosure(a)
  <2>1. /\ pc[a] = "delivery" /\ pc'[a] = "disclosure_gate"
        /\ result'[a] = IF "delivered" \in papers[a] /\ found[a] = {}
                        THEN "allow" ELSE "block"
        /\ UNCHANGED paperVars
    BY <1>1, <1>4 DEF TypeOK, EvaluateDisclosure, Decides, OwnPapers
  <2>2. /\ Field \ found[a] \subseteq ever[a]
        /\ found[a] \cap always[a] = {}
        /\ found[a] \subseteq Field
    BY <1>1, <2>1 DEF FoundSound, TypeOK
  <2>3. Bounded(a)' /\ FoundSound(a)'
    BY <1>1, <2>1 DEF Bounded, FoundSound, paperVars
  <2>4. Required(pc'[a]) = Field \cup {"delivered"} /\ pc'[a] \in ControlId
    BY <2>1 DEF Required, ControlId
  <2>5. result'[a] = "allow" => Field \cup {"delivered"} \subseteq ever'[a]
    BY <1>1, <2>1, <2>2 DEF Bounded, paperVars
  <2>6. Field \cup {"delivered"} \subseteq always'[a] => result'[a] = "allow"
    BY <1>1, <2>1, <2>2 DEF Bounded, paperVars
  <2>7. DecisionSound(a)'
    BY <2>4, <2>5, <2>6 DEF DecisionSound, Required
  <2>8. QED
    BY <1>2, <2>3, <2>7, OthersSound
<1>5. QED
  BY <1>3, <1>4

LEMMA PaperNext ==
    ASSUME PaperInv, [Next]_vars
    PROVE  PaperInv'
<1>1. TypeOK /\ AtGate
  BY DEF PaperInv, AtGate, DecisionSound
<1>2. CASE UNCHANGED vars
  BY <1>2 DEF PaperInv, TypeOK, Bounded, FoundSound, DecisionSound, vars, paperVars, logVars
<1>3. ASSUME NEW a \in Applicant, Quiet(a)
      PROVE  PaperInv'
  <2>1. TypeOK'
    BY <1>1, <1>3, QuietTyped
  <2>2. CASE Reapply(a)
    <3>1. result[a] = None
      BY <2>2 DEF Reapply, PaperInv, DecisionSound, ControlId
    <3>2. Alone(a) /\ pc'[a] = "open" /\ UNCHANGED <<papers, ever, always, result>>
      BY <1>1, <2>2 DEF TypeOK, Alone, Reapply, paperVars
    <3>3. Bounded(a)' /\ FoundSound(a)' /\ DecisionSound(a)'
      BY <3>1, <3>2 DEF PaperInv, Bounded, FoundSound, DecisionSound
    <3>4. QED
      BY <2>1, <3>2, <3>3, OthersSound
  <2>3. QED
    BY <1>3, <2>1, <2>2, PapersSound, CreditSound, DisclosureSound, LeavesSound
    DEF Quiet, Stop
<1>4. ASSUME NEW a \in Applicant, NEW next \in Stop, Writes(a, next),
             UNCHANGED failures \/ Fails
      PROVE  PaperInv'
  <2>1. TypeOK'
    BY <1>1, <1>4, WritesTyped
  <2>2. QED
    BY <1>4, <2>1, LeavesSound DEF Writes
<1>5. QED
  BY <1>2, <1>3, <1>4, StepIs

(* The entry of a step: of the papers it bounds, and of them alone.        *)
LEMMA EntrySound ==
    ASSUME PaperInv, NEW a \in Applicant, NEW next, Writes(a, next)
    PROVE  LET e == entries'[Len(entries')]
           IN  /\ e.applicant_ref = a
               /\ e.decision = "allow" => Required(e.control_id) \subseteq ever[a]
               /\ Required(e.control_id) \subseteq always[a] => e.decision = "allow"
               /\ e.control_id = "disclosure_gate" =>
                      /\ Field \ e.missing \subseteq ever[a]
                      /\ e.missing \cap always[a] = {}
<1> DEFINE new == [applicant_ref |-> a, control_id |-> pc[a],
                   decision |-> result[a], missing |-> Missing(pc[a], a)]
<1>1. /\ new.applicant_ref = a /\ new.control_id = pc[a]
      /\ new.decision = result[a] /\ new.missing = Missing(pc[a], a)
  OBVIOUS
<1>2. entries' = Append(entries, new) /\ entries \in Seq(Entry)
  BY DEF Writes, Records, PaperInv, TypeOK
<1> HIDE DEF new
<1>3. entries'[Len(entries')] = new
  BY <1>2
<1>4. /\ result[a] = "allow" => Required(pc[a]) \subseteq ever[a]
      /\ Required(pc[a]) \subseteq always[a] => result[a] = "allow"
  BY DEF PaperInv, DecisionSound, Writes
<1>5. pc[a] = "disclosure_gate" =>
          /\ Field \ Missing(pc[a], a) \subseteq ever[a]
          /\ Missing(pc[a], a) \cap always[a] = {}
  BY DEF Missing, MissingFields, OwnPapers, PaperInv, Bounded
<1>6. QED
  BY <1>1, <1>3, <1>4, <1>5

-----------------------------------------------------------------------------
(* A workflow past a gate has that gate's permission as its last entry.    *)

RecordInv == PaperInv /\ ExecutedOnEvidence /\ EvidenceInWorkflowOrder

LEMMA RecordInit == Init => RecordInv
<1> SUFFICES ASSUME Init PROVE RecordInv
  OBVIOUS
<1>1. entries = << >> /\ \A a \in Applicant : pc[a] = "open"
  BY DEF Init
<1>2. QED
  BY <1>1, PaperInit DEF RecordInv, ExecutedOnEvidence, EvidenceInWorkflowOrder

LEMMA QuietKeeps ==
    ASSUME RecordInv, NEW a \in Applicant, Quiet(a)
    PROVE  ExecutedOnEvidence' /\ EvidenceInWorkflowOrder'
<1>1. UNCHANGED entries
  BY DEF Quiet, PapersChange, TryBlockRule, TryAllowRule, FindMissingFields,
     EvaluateDisclosure, Reapply, logVars
<1>2. ASSUME NEW b \in Applicant
      PROVE  /\ pc'[b] \in {"agreement", "delivery", "disclosure_gate"} =>
                    pc[b] \in {"agreement", "delivery", "disclosure_gate"}
             /\ pc'[b] = "executed" => pc[b] = "executed"
  BY DEF Quiet, PapersChange, TryBlockRule, TryAllowRule, FindMissingFields,
     EvaluateDisclosure, Reapply, Leaves, Decides, RecordInv, PaperInv, TypeOK
<1>3. \A n, b, control, decision :
          LatestBefore(n, b, control, decision) =>
              \E i \in 1 .. n - 1 :
                  /\ entries'[i].applicant_ref = b
                  /\ entries'[i].control_id = control
                  /\ entries'[i].decision = decision
                  /\ \A k \in i + 1 .. n - 1 : entries'[k].applicant_ref # b
  BY <1>1 DEF LatestBefore, EntryIs
<1>4. ExecutedOnEvidence'
  BY <1>1, <1>2, <1>3 DEF RecordInv, ExecutedOnEvidence, Latest, LatestBefore, EntryIs
<1>5. EvidenceInWorkflowOrder'
  BY <1>1, <1>3 DEF RecordInv, EvidenceInWorkflowOrder, LatestBefore, EntryIs
<1>6. QED
  BY <1>4, <1>5

LEMMA WritesKeep ==
    ASSUME RecordInv, NEW a \in Applicant, NEW next \in Stop, Writes(a, next)
    PROVE  ExecutedOnEvidence' /\ EvidenceInWorkflowOrder'
<1> DEFINE new == [applicant_ref |-> a, control_id |-> pc[a],
                   decision |-> result[a], missing |-> Missing(pc[a], a)]
           last == Len(entries) + 1
<1>1. new.applicant_ref = a /\ new.control_id = pc[a] /\ new.decision = result[a]
  OBVIOUS
<1>2. entries' = Append(entries, new) /\ entries \in Seq(Entry)
  BY DEF Writes, Records, RecordInv, PaperInv, TypeOK
<1> HIDE DEF new
<1>3. /\ Len(entries) \in Nat /\ Len(entries') = last
      /\ DOMAIN entries = 1 .. Len(entries) /\ DOMAIN entries' = 1 .. last
      /\ \A i \in 1 .. Len(entries) : entries'[i] = entries[i]
      /\ entries'[last] = new
  BY <1>2
<1>4. /\ pc'[a] = next
      /\ \A b \in Applicant \ {a} : pc'[b] = pc[b]
  BY DEF Writes, Leaves, RecordInv, PaperInv, TypeOK
<1>5. ASSUME NEW b \in Applicant, b # a, NEW control, NEW decision,
             Latest(b, control, decision)
      PROVE  Latest(b, control, decision)'
  <2>1. PICK i \in 1 .. Len(entries) :
            /\ EntryIs(i, b, control, decision)
            /\ \A k \in i + 1 .. Len(entries) : entries[k].applicant_ref # b
    BY <1>3, <1>5 DEF Latest, LatestBefore
  <2>2. \A k \in i + 1 .. last : entries'[k].applicant_ref # b
    BY <1>1, <1>3, <1>5, <2>1
  <2>3. EntryIs(i, b, control, decision)'
    BY <1>3, <2>1 DEF EntryIs
  <2>4. QED
    BY <1>3, <2>1, <2>2, <2>3 DEF Latest, LatestBefore
<1>6. ASSUME NEW control, NEW decision, pc[a] = control, result[a] = decision
      PROVE  Latest(a, control, decision)'
  BY <1>1, <1>3, <1>6 DEF Latest, LatestBefore, EntryIs
<1>7. ExecutedOnEvidence'
  <2>1. ASSUME NEW b \in Applicant
        PROVE  /\ pc'[b] \in {"agreement", "delivery", "disclosure_gate"} =>
                      Latest(b, "credit_report_gate", "allow")'
               /\ pc'[b] = "executed" => Latest(b, "disclosure_gate", "allow")'
    <3>1. CASE b = a
      BY <1>4, <1>6, <3>1 DEF Writes, Stop
    <3>2. CASE b # a
      BY <1>4, <1>5, <3>2 DEF RecordInv, ExecutedOnEvidence
    <3>3. QED
      BY <3>1, <3>2
  <2>2. QED
    BY <2>1 DEF ExecutedOnEvidence
<1>8. EvidenceInWorkflowOrder'
  <2> SUFFICES ASSUME NEW j \in DOMAIN entries', entries'[j].control_id = "disclosure_gate"
               PROVE  LatestBefore(j, entries[j].applicant_ref,
                                   "credit_report_gate", "allow")'
    BY DEF EvidenceInWorkflowOrder
  <2>1. PICK i \in 1 .. j - 1 :
            /\ EntryIs(i, entries'[j].applicant_ref, "credit_report_gate", "allow")
            /\ \A k \in i + 1 .. j - 1 : entries[k].applicant_ref # entries'[j].applicant_ref
    <3>1. CASE j \in DOMAIN entries
      <4>1. entries'[j] = entries[j]
        BY <1>3, <3>1
      <4>2. LatestBefore(j, entries[j].applicant_ref, "credit_report_gate", "allow")
        BY <3>1, <4>1 DEF RecordInv, EvidenceInWorkflowOrder
      <4>3. QED
        BY <4>1, <4>2 DEF LatestBefore
    <3>2. CASE j = last
      <4>1. pc[a] = "disclosure_gate" /\ entries'[j].applicant_ref = a
        BY <1>1, <1>3, <3>2
      <4>2. Latest(a, "credit_report_gate", "allow")
        BY <4>1 DEF RecordInv, ExecutedOnEvidence
      <4>3. QED
        BY <3>2, <4>1, <4>2 DEF Latest, LatestBefore
    <3>3. QED
      BY <1>3, <3>1, <3>2
  <2>2. \A k \in 1 .. j - 1 : entries'[k] = entries[k]
    BY <1>3
  <2>3. QED
    BY <1>3, <2>1, <2>2 DEF LatestBefore, EntryIs
<1>9. QED
  BY <1>7, <1>8

LEMMA RecordNext ==
    ASSUME RecordInv, [Next]_vars
    PROVE  RecordInv'
<1>1. PaperInv'
  BY PaperNext DEF RecordInv
<1>2. CASE UNCHANGED vars
  BY <1>1, <1>2
  DEF RecordInv, ExecutedOnEvidence, EvidenceInWorkflowOrder, Latest, LatestBefore, EntryIs,
      vars, logVars
<1>3. QED
  BY <1>1, <1>2, StepIs, QuietKeeps, WritesKeep DEF RecordInv

(* Each variable of the gates keeps its shape, whatever appends raise.     *)
THEOREM LendingTyped == Spec => []TypeOK
<1>1. PaperInv => TypeOK
  BY DEF PaperInv
<1>2. QED
  BY <1>1, PaperInit, PaperNext, PTL DEF Spec

(* "May not proceed to conclusion unless a credit report has been          *)
(* retrieved", "may not be executed unless a compliant disclosure" was     *)
(* "evidenced as delivered" (ghana_lending_controls.py:112-115, 237-240):  *)
(* at every passage a gate's permission is on record before the workflow   *)
(* is past it, for any number of applicants interleaved on one log.        *)
THEOREM ExecutedWithEvidence == Spec => []ExecutedOnEvidence
<1>1. RecordInv => ExecutedOnEvidence
  BY DEF RecordInv
<1>2. QED
  BY <1>1, RecordInit, RecordNext, PTL DEF Spec

(* A gate looks at its papers several times (ghana_lending_controls.py:    *)
(* 84-97, 191-209, 260): however they change under it, what it allows and  *)
(* what its entry shows keep within what was there at some moment and what *)
(* was there throughout, and no other applicant's papers come in.          *)
THEOREM DecisionsOnOwnPapers == Spec => DecidedOnOwnPapers
<1> DEFINE Step ==
        entries' # entries =>
            LET e == entries'[Len(entries')]
                a == e.applicant_ref
            IN  /\ e.decision = "allow" => Required(e.control_id) \subseteq ever[a]
                /\ Required(e.control_id) \subseteq always[a] => e.decision = "allow"
                /\ e.control_id = "disclosure_gate" =>
                       /\ Field \ e.missing \subseteq ever[a]
                       /\ e.missing \cap always[a] = {}
<1>1. PaperInv /\ [Next]_vars => [Step]_vars
  <2> SUFFICES ASSUME PaperInv, [Next]_vars, entries' # entries PROVE Step
    OBVIOUS
  <2>1. \A a \in Applicant : Quiet(a) => UNCHANGED entries
    BY DEF Quiet, PapersChange, TryBlockRule, TryAllowRule, FindMissingFields,
       EvaluateDisclosure, Reapply, logVars
  <2>2. PICK a \in Applicant : \E next \in Stop : Writes(a, next)
    BY <2>1, StepIs DEF vars, logVars
  <2>3. QED
    BY <2>2, EntrySound
<1>2. QED
  BY <1>1, PaperInit, PaperNext, PTL DEF Spec, DecidedOnOwnPapers

(* No disclosure record without the credit gate's permission as the same   *)
(* applicant's last record (ghana_synthetic_lending_demo.py:210-225).      *)
THEOREM RecordsInWorkflowOrder == Spec => []EvidenceInWorkflowOrder
<1>1. RecordInv => EvidenceInWorkflowOrder
  BY DEF RecordInv
<1>2. QED
  BY <1>1, RecordInit, RecordNext, PTL DEF Spec

=============================================================================
