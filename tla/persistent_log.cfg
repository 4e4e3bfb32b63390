SPECIFICATION Spec
CONSTANTS
    secret_key = secret_key
    plain = plain
    other = other
    int_keys = int_keys
    str_keys = str_keys
    Payload <- PlainPayload
    Canonical <- MCCanonical
    Reloaded <- MCReloaded
    Thread = {t1, t2}
    MaxEntries = 4
    MaxErrors = 2
    MaxCrashes = 2
SYMMETRY ThreadSymmetry
INVARIANTS
    TypeOK
    NoFalseAlarm
    FileInSequence
    VerifiedMeansComplete
    ChangesAreDetected
CHECK_DEADLOCK FALSE
