SPECIFICATION Spec
CONSTANTS
    Width = 3
    Opaque = Opaque
    NoAddress = NoAddress
    NoRange = NoRange
    NoDevice = NoDevice
    Idle = Idle
    Servers = {s1, s2}
    Requests = {q1, q2}
    Peers = {p1, p2}
    Ranges <- MCRanges
    Foreign <- MCForeign
    MaxImported = 1
SYMMETRY Symmetries
INVARIANTS TypeOK AssignedUsable NoSharedAddress AllocationHonest RangesDisjoint
 
