SPECIFICATION FairSpec
CONSTANTS
    Conn = {c1, c2}
    Session = {s1, s2}
    None = None
    Methods = {"session.create", "session.resume", "session.fork", "turn.submit", "model.switch"}
    MaxRequests = 2
    MaxCrashes = 1
    LocksExpire = TRUE
PROPERTIES LockDiscipline SessionIsFreed
CHECK_DEADLOCK FALSE
