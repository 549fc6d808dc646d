SPECIFICATION FairSpec
CONSTANTS
    None = None
    Deks = {k1, k2}
    Requests = {r1, r2}
    Codes = {c1}
    HardLock = 2
    MaxEnrols = 1
    MaxRestarts = 1
    MaxFailed = 3
INVARIANTS TypeOK OneSetup OneSessionPerCode GuessesBounded
PROPERTIES OperatorGetsIn ImplementsEntry
CHECK_DEADLOCK FALSE
