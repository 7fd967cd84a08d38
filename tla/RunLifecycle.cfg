SPECIFICATION Spec
CONSTANTS
    Conn = {c1, c2}
    Run = {r1, r2}
    Key = {k1}
    None = None
    Methods = {"turn.submit", "run.create", "run.fork", "run.cancel"}
    MaxRequests = 1
    MaxChunks = 1
    MaxTracked = 1
    MaxCrashes = 1
    ConnsDrop = TRUE
    StoreMayFail = TRUE
SYMMETRY RunSymmetry
INVARIANTS TypeOK OneRunPerKey StatusFollowsLog CompletedIsSaved
PROPERTY ImplementsRunLog
CHECK_DEADLOCK FALSE
