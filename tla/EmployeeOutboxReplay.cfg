\* The instance of EmployeeOutbox.cfg: can recovery replay what was anchored?
CONSTANTS
    a1 = a1
    k1 = k1
    e1 = e1
    Attempts = {a1}
    Answers = {k1}
    Denials = {k1}
    Employees = {e1}
    EmployeeOf <- SameEmployee
    Dispatcher = dispatch
    Drainers = {ctl}
    Publishers = {team}
    None = None
    Results = {"FAILED"}
    MaxFaults = 1
SPECIFICATION Spec
INVARIANTS
    ReplaySafe
CHECK_DEADLOCK FALSE
