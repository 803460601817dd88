SPECIFICATION Spec
CONSTANTS
    c1 = c1
    c2 = c2
    c3 = c3
    k1 = k1
    Calls = {c1, c2}
    Keys = {k1}
    KeyOf <- MCOneKey
    MaxFaults = 0
    MaxRuns = 3
    NoResponse = NoResponse
INVARIANTS DeduplicatesRetries
CHECK_DEADLOCK FALSE
