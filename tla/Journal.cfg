\* Two processes and five transactions, two of them with blobs: a commit can fail, be repeated by the
\* next process and crash again, while the projections follow.
CONSTANTS
    Procs = {p1, p2}
    Tx = {b1, b2, x1, x2, x3}
    Blobs = {b1, b2}
    Genesis = Genesis
    None = None
SPECIFICATION ViewSpec
SYMMETRY JournalSymmetry
INVARIANTS
    AnchoredSurvives
    ProjectionsSound
PROPERTIES
    DurableSpec
    BuildsOnAnchored
