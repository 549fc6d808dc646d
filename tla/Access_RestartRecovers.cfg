SPECIFICATION FairSpec
CONSTANTS
    None = None
    Deks = {k1}
    Requests = {r1}
    Codes = {c1}
    HardLock = 2
    MaxEnrols = 1
    MaxRestarts = 1
    MaxFailed = 2

PROPERTIES RestartRecovers
CHECK_DEADLOCK FALSE
