SPECIFICATION Spec
CONSTANTS
    None = None
    Action = {approve, release}
    approve = approve
    release = release
    MaxConfidence = 1
    Prefix = {approve, release}
    StartsWith <- MCStartsWith
    Tool = {auto_approve}
    auto_approve = auto_approve
    Params <- MCParams
    Amount <- MCAmount
    LimitId = {}
    Config <- MCConfig
    Unreadable = Unreadable
INVARIANTS
    ApprovedMeansAsExpected
    FaultsNeverPass
    OutcomesAreFresh
CHECK_DEADLOCK FALSE
