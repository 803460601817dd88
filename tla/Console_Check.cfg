SPECIFICATION OneAtATimeSpec
CONSTANTS
    c1 = c1
    c2 = c2
    c3 = c3
    k1 = k1
    Calls = {c1, c2, c3}
    Keys = {k1}
    KeyOf <- MCOneKey
    MaxFaults = 2
    MaxRuns = 3
    NoResponse = NoResponse
    d1 = d1
    d2 = d2
    v1 = v1
    v2 = v2
    b1 = b1
    b2 = b2
    b3 = b3
    NoDecision = NoDecision
    Decisions = {d1, d2}
    Supersedes <- MCSupersedes
    Voters = {v1, v2}
    Ballots = {b1, b2, b3}
    VoterOf <- MCVoterOf
    Closers = {l1}
    Tunnels = {t1, t2}
    Transitions = {u1}
    Exchanges = {x1, x2}
    NoExchange = NoExchange
    NoTunnel = NoTunnel
    m1 = m1
    m2 = m2
    m3 = m3
    m4 = m4
    m5 = m5
    t1 = t1
    t2 = t2
    x1 = x1
    x2 = x2
    e1 = e1
    e2 = e2
    e3 = e3
    a1 = a1
    a2 = a2
    Messages = {m1, m2, m3, m4, m5}
    ContentOf <- MCContentOf
    Unguarded = {m5}
    Deliveries = {e1, e2, e3}
    Reviewers = {a1, a2}
    NoMessage = NoMessage
    NoDelivery = NoDelivery
CONSTRAINT Scenario
INVARIANTS ConsoleTypeOK OnceUntilRecorded CompletedIsReplayed ReplayIsReal VotesDecide DisconnectEndsTunnels OnlySubscribedChats NothingSwallowed StoredOnce
CHECK_DEADLOCK FALSE
