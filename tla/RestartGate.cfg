\* Two requests and two runs around one restart, with one fault: a worker
\* that is killed or a service that crashes.
SPECIFICATION Spec
CONSTANTS
    Tasks = {t1, t2}
    Workers = {w1, w2}
    Instances = 2
    MaxFaults = 1
INVARIANTS
    RestartsSafely
    ReadyIsNamed
PROPERTIES
    NewServiceSpared
    GateServes
\* Requests and runs are bounded.
CHECK_DEADLOCK FALSE
