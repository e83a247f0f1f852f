CONSTANTS
    Thread = {t1, t2}
    MaxCalls = 0
SPECIFICATION NetnsSpec
INVARIANTS
    ExistingNetnsSpared
CHECK_DEADLOCK FALSE
