SPECIFICATION Spec
CONSTANTS
    secret_key = secret_key
    plain = plain
    other = other
    int_keys = int_keys
    str_keys = str_keys
    Payload <- IntKeyPayload
    Canonical <- MCCanonical
    Reloaded <- MCReloaded
    Thread = {t1, t2}
    MaxEntries = 4
    MaxErrors = 1
    MaxCrashes = 1
INVARIANTS
    NoFalseAlarm
CHECK_DEADLOCK FALSE
