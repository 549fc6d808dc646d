SPECIFICATION SpecAlone
CONSTANTS
    None = None
    h1 = h1
    h2 = h2
    net = net
    Devices = {d1, d2}
    Keys = {k1, k2, k3}
    Hosts = {h1, h2}
    Subnets = {net}
    SubnetHosts <- MCSubnetHosts
    ExternalSets <- MCExternalSets
    Requests = {r1, r2}
    Remote = TRUE
    MaxEvents = 5
SYMMETRY Symmetry
INVARIANTS TypeOK 
PROPERTIES TrackedRowsStable SeenPeersKept SyncPreservesPeers ForgottenStaysOut
CHECK_DEADLOCK FALSE
