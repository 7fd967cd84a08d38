SPECIFICATION FairSpec
CONSTANTS
    Conn = {c1}
    Run = {r1, r2}
    Key = {k1, k2}
    None = None
    Methods = {"turn.submit", "run.cancel", "turn.cancel", "run.attach", "run.detach", "run.heartbeat"}
    MaxRequests = 3
    MaxChunks = 1
    MaxTracked = 2
    MaxCrashes = 0
    ConnsDrop = TRUE
    StoreMayFail = FALSE
INVARIANTS NoWorkAfterCancelled RegistryTracksRelays
PROPERTIES OutcomeIsKept RunsSettle
CHECK_DEADLOCK FALSE
