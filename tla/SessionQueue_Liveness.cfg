SPECIFICATION FairSpec
CONSTANTS
    r1 = r1
    r2 = r2
    r3 = r3
    r4 = r4
    k1 = k1
    k2 = k2
    Requests = {r1, r2}
    Keys = {k1}
    KeyOf <- MCKeyOf
    Slots = {s1, s2}
    Aborters = {}
    QueueCap = 1
    NoRequest = NoRequest
    NoSlot = NoSlot
    NoKey = NoKey
PROPERTIES EveryCallReturns IdleSlotReclaimed
CHECK_DEADLOCK FALSE
