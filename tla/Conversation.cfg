SPECIFICATION Spec
CONSTANTS
    Client = {a}
    Session = {s1, s2}
    None = None
    KeepFloor = 1
    Methods = {"tool.result", "session.clear", "session.resume", "session.fork", "compact.apply"}
    MaxMessages = 3
    MaxLosses = 1
SYMMETRY IdSymmetry
INVARIANTS StoredInOrder SequenceCountsUserTurns
PROPERTY RecentTurnsSurvive
CONSTRAINT NothingLost
CHECK_DEADLOCK FALSE
