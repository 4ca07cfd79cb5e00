\* Two runs over the default queue, the system queue and two projects that
\* runs are rebound to and between; two ordinary threads, one system thread.
CONSTANTS
    Runs = {r1, r2}
    Projects = {p1, p2}
    ExplicitKeys = {}
    SystemKey = SYSTEM
    DefaultKey = DEFAULT
    None = None
    Specs <- MixedSpecs
    MaxConcurrent = 2
    PerKey = 1
    SystemConcurrency = 1
SYMMETRY RunSymmetry
SPECIFICATION Spec
INVARIANTS
    Bookkeeping
PROPERTIES
    DispatchRespectsProject
    TerminalIsFinal
