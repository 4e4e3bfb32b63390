SPECIFICATION Spec
CONSTANTS
    None = None
    Action = {wire_attempt, refund_order}
    wire_attempt = wire_attempt
    refund_order = refund_order
    MaxConfidence = 1
    Prefix = {wire, refund}
    Tool = {wire, refund}
    wire = wire
    refund = refund
    StartsWith <- MCStartsWith
    Params = {small, large, unpriced}
    small = small
    large = large
    unpriced = unpriced
    Amount <- MCAmount
    Runtime = {g1, g2}
    Bundle <- MCBundle
    Request <- MCRequest
    MaxVersion = 2
    MaxEntries = 1
    MaxEvents = 2
SYMMETRY RuntimeSymmetry
INVARIANTS
    NothingBeyondTheBundle
    EvidenceReplays
    ReportedMeansReceived
    FreshWhenBuilt
CHECK_DEADLOCK FALSE
