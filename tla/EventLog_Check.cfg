SPECIFICATION FairSpec
CONSTANTS
    e1 = e1
    e2 = e2
    e3 = e3
    t1 = t1
    t2 = t2
    i1 = i1
    i2 = i2
    one = one
    AnyTarget = AnyTarget
    Appends = {e1, e2, e3}
    TargetOf <- MCTargetOf
    EventIdOf <- MCEventIdOf
    MaxAttempts = 2
    Readers = {one}
    FilterOf <- MCFilterOf
    PageLimit = 2
    MaxDrops = 2
INVARIANTS TypeOK Gapless AcknowledgedOnce ConflictMeansProgress NoSkippedEvent
PROPERTIES LogSpec EventsDelivered
CHECK_DEADLOCK FALSE
