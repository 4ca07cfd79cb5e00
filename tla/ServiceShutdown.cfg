\* Two runs, each on either lane, with a single thread per pool, so that a
\* dispatched run can be waiting for a thread when close() drains, and room
\* in the queue for both, so that the total limit decides.
CONSTANTS
    Runs = {r1, r2}
    Projects = {}
    ExplicitKeys = {}
    SystemKey = SYSTEM
    DefaultKey = DEFAULT
    None = None
    Specs <- LaneSpecs
    MaxConcurrent = 1
    PerKey = 2
    SystemConcurrency = 1
SPECIFICATION FairCloseSpec
INVARIANTS
    NoCallbackAfterTeardown
    SlotsKept
PROPERTIES
    FencedWorkConverges
    CloseReturns
CHECK_DEADLOCK FALSE
