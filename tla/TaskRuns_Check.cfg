SPECIFICATION Spec
CONSTANTS
    Tasks = {t1}
    Agents = {a1, a2}
    Claims = {c1, c2}
    Reports = {p1}
    Edits = {e1, e2}
    EditStates = {"done"}
    ReportStates = {"blocked", "completed"}
    MaxFaults = 1
    Nobody = Nobody
    NoTask = NoTask
    NoRun = NoRun
    NoAttempt = NoAttempt
CONSTRAINT Scenario
SYMMETRY CallSymmetry
INVARIANTS TypeOK SingleOwner OneLiveRun LatestVersionAnnounced
CHECK_DEADLOCK FALSE
