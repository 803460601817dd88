SPECIFICATION Spec
CONSTANTS
    r1 = r1
    m1 = m1
    o1 = o1
    a1 = a1
    d1 = d1
    p1 = p1
    v1 = v1
    Agents = {a1}
    NoRun = NoRun
    ComputerOf <- MCComputerOf
    PollerDaemon <- MCPollerDaemon
    AgentOf <- MCAgentOf
    Runs = {r1, m1}
    Directs = {m1}
    Ops = {o1}
    Deliveries = {}
    Daemons = {d1}
    Pollers = {p1}
    MaxConcurrentRuns = 1
    MaxFaults = 1
    MaxBreaks = 0
    MaxRestarts = 1
CONSTRAINT Scenario
INVARIANTS TypeOK OneGoroutinePerRun NoOrphanRunning PermitsReturned
CHECK_DEADLOCK FALSE
