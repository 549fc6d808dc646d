SPECIFICATION Spec
CONSTANTS
    None = None
    h1 = h1
    h2 = h2
    Targets = {t1, t2}
    Devices = {d1}
    Hosts = {h1, h2}
    Tunnel = {h2}
    Keys = {k1, k2}
    Connections = {c1}
    MaxEvents = 6
SYMMETRY Symmetry
PROPERTIES ChangedKeyBlocked
CHECK_DEADLOCK FALSE
