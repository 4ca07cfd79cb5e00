\* One attempt, one read command, three threads in deliver(), one fault.  A
\* poisoned journal stops the system for good.
CONSTANTS
    a1 = a1
    k1 = k1
    e1 = e1
    Attempts = {a1}
    Answers = {k1}
    Denials = {k1}
    Employees = {e1}
    EmployeeOf <- SameEmployee
    Dispatcher = dispatch
    Drainers = {ctl}
    Publishers = {team}
    None = None
    Results = {"FAILED"}
    MaxFaults = 1
SPECIFICATION FairSpec
INVARIANTS
    OneActiveEffect
    OneMessage
    SnapshotsSound
PROPERTIES
    FinalCardDelivered
CHECK_DEADLOCK FALSE
