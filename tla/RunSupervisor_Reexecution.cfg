SPECIFICATION Spec
CONSTANTS
    r1 = r1
    m1 = m1
    o1 = o1
    a1 = a1
    d1 = d1
    p1 = p1
    v1 = v1
    Agents = {a1}
    NoRun = NoRun
    ComputerOf <- MCComputerOf
    PollerDaemon <- MCPollerDaemon
    AgentOf <- MCAgentOf
    Runs = {r1}
    Directs = {}
    Ops = {}
    Deliveries = {}
    Daemons = {d1}
    Pollers = {}
    MaxConcurrentRuns = 1
    MaxFaults = 1
    MaxBreaks = 1
    MaxRestarts = 0
INVARIANTS NoReexecution
CHECK_DEADLOCK FALSE
