\* Two worker threads, a threshold of two failures, and a clock long enough
\* for two full OPEN - HALF_OPEN rounds.
CONSTANTS
    Callers = {c1, c2}
    Threshold = 2
    RecoveryTimeout = 2
    Window = 3
    MaxTime = 8
    MaxFailures = 3
SPECIFICATION Spec
PROPERTIES
    OpenClosesOnlyByReset
    AdmissionRespectsRecovery
