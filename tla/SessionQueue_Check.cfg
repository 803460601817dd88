SPECIFICATION Spec
CONSTANTS
    r1 = r1
    r2 = r2
    r3 = r3
    r4 = r4
    k1 = k1
    k2 = k2
    Requests = {r1, r2, r3, r4}
    Keys = {k1, k2}
    KeyOf <- MCKeyOf
    Slots = {s1, s2}
    Aborters = {a1}
    QueueCap = 1
    NoRequest = NoRequest
    NoSlot = NoSlot
    NoKey = NoKey
SYMMETRY RequestSlotSymmetry
CONSTRAINT Scenario
INVARIANTS TypeOK SerialPerSession NoStrandedRequest ReplyNeverBlocks AbortStaysInSession
PROPERTIES SerialSpec
CHECK_DEADLOCK FALSE
