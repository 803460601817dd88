SPECIFICATION FairSpec
CONSTANTS
    r1 = r1
    m1 = m1
    o1 = o1
    a1 = a1
    d1 = d1
    p1 = p1
    v1 = v1
    Agents = {a1}
    NoRun = NoRun
    ComputerOf <- MCComputerOf
    PollerDaemon <- MCPollerDaemon
    AgentOf <- MCAgentOf
    Runs = {r1, m1}
    Directs = {m1}
    Ops = {}
    Deliveries = {v1}
    Daemons = {d1}
    Pollers = {p1}
    MaxConcurrentRuns = 1
    MaxFaults = 1
    MaxBreaks = 1
    MaxRestarts = 1
PROPERTIES EventsDrained QueuedRunFinishes
CHECK_DEADLOCK FALSE
CONSTRAINT CrowdedOut
