SPECIFICATION FairSpec
CONSTANTS
    r1 = r1
    w1 = w1
    Requests = {r1, w1}
    Upgrades = {w1}
    MaxStreams = 2
    BufCap = 1
    UpCap = 1
    DownCap = 1
    MaxUpload = 1
    MaxDownload = 1
CONSTRAINT Scenario
INVARIANTS TypeOK SoundStreamKeepsRequests NoOrphanResponder EndedMeansWhole
PROPERTIES RequestsReturn
CHECK_DEADLOCK FALSE
