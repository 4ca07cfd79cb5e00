\* One employee; two restarts, one failed call, one retry.
CONSTANTS
    Retries = 1
    MaxFaults = 1
    MaxCrashes = 2
SPECIFICATION Spec
INVARIANTS
    RetiredStaysRetired
    CalledOnce
    WorldMatches
PROPERTIES
    FireReported
    HireSettles
CHECK_DEADLOCK FALSE
