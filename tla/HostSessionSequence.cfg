SPECIFICATION HostSpec
CONSTANTS
    Client = {a}
    Session = {s1, s2}
    None = None
    KeepFloor = 3
    Methods = {"session.resume"}
    MaxMessages = 3
    MaxLosses = 0
INVARIANT SubmitsAreInSequence
CHECK_DEADLOCK FALSE
