SPECIFICATION FairSpec
CONSTANTS
  Conns = {c1, c2}
  None = None
  MaxConnections = 1
  MissedTicks = 1
  MaxUnread = 1
  MaxStarts = 2
  MaxRetries = 1
  DegradedAt = 1
  ReconnectAt = 2
INVARIANTS TypeOK ServedAfterRegistration SlotsAreCounted CleanShutdownIsDrained ReadyIsRegistered
PROPERTIES SilentPeerLosesSlot
CHECK_DEADLOCK FALSE
