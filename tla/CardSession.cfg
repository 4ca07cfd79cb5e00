\* Two engine threads, two events, two faults.
CONSTANTS
    Callers = {c1, c2}
    MaxEvents = 2
    MaxFaults = 2
SPECIFICATION Spec
PROPERTIES
    EndReported
    NoStepBack
    NothingAfterClose
    Settled
\* A closed session does nothing more.
CHECK_DEADLOCK FALSE
