SPECIFICATION Spec
CONSTANTS
    Conn = {c1}
    Session = {s1}
    None = None
    Methods = {"session.create", "turn.submit"}
    MaxRequests = 2
    MaxCrashes = 0
    LocksExpire = FALSE
PROPERTY LockHeldWhileConnected
CHECK_DEADLOCK FALSE
