SPECIFICATION DecisionSpec
CONSTANTS
    d1 = d1
    d2 = d2
    v1 = v1
    v2 = v2
    b1 = b1
    b2 = b2
    b3 = b3
    k1 = k1
    k2 = k2
    NoDecision = NoDecision
    Decisions = {d1, d2}
    Supersedes <- MCSupersedes
    Voters = {v1, v2}
    Ballots = {b1, b2}
    VoterOf <- MCVoterOf
    Closers = {k1, k2}
INVARIANTS NoConflictingConstraints
CHECK_DEADLOCK FALSE
