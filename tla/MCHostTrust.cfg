SPECIFICATION Spec
CONSTANTS
    None = None
    h1 = h1
    h2 = h2
    Targets = {t1, t2}
    Devices = {d1}
    Hosts = {h1, h2}
    Tunnel = {h2}
    Keys = {k1, k2}
    Connections = {c1, c2}
    MaxEvents = 7
SYMMETRY Symmetry
INVARIANTS TypeOK PinnedHopsVerified PinnedStaysPinned
PROPERTIES PinReplacedByFirstUseOnly
CHECK_DEADLOCK FALSE
