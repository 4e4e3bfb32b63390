SPECIFICATION Spec
CONSTANTS
    None = None
    Applicant = {ama, kwame}
    Field = {fees}
    MaxEntries = 4
    MaxFailures = 1
SYMMETRY Symmetry
INVARIANTS
    TypeOK
    ExecutedOnEvidence
    EvidenceInWorkflowOrder
PROPERTIES
    DecidedOnOwnPapers
CHECK_DEADLOCK FALSE
