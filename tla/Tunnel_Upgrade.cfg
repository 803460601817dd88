SPECIFICATION FullFairSpec
CONSTANTS
    r1 = r1
    w1 = w1
    Requests = {w1}
    Upgrades = {w1}
    MaxStreams = 1
    BufCap = 1
    UpCap = 1
    DownCap = 1
    MaxUpload = 1
    MaxDownload = 1
PROPERTIES UpgradeEnds
CHECK_DEADLOCK FALSE
