\* One employee; one restart.
CONSTANTS
    Retries = 1
    MaxFaults = 0
    MaxCrashes = 1
SPECIFICATION Spec
INVARIANT RecoveryNotBlocked
CHECK_DEADLOCK FALSE
