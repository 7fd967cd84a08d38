SPECIFICATION Spec
CONSTANTS
    Run = {r1, r2}
    Perm = {p1, p2}
    None = None
    MaxInputs = 3
    MaxChunks = 1
SYMMETRY Names
INVARIANTS TypedIsKeptInOrder PromptsAgree OnlyApprovedToolsRun StreamingHasAnEnd
CHECK_DEADLOCK FALSE
