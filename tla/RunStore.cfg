SPECIFICATION Spec
CONSTANTS
    Writer = {w1, w2}
    Run = {r1, r2}
    Key = {k1}
    Turn = {t1, t2}
    None = None
    EventType = {e1}
    MaxEvents = 3
SYMMETRY StoreSymmetry
INVARIANTS LogIsGapless CheckpointsMatchLog OneRunPerTurn TotalsCountCallsOnce
PROPERTIES ImplementsRunLog
