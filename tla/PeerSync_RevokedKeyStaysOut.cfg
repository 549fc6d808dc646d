SPECIFICATION SpecAlone
CONSTANTS
    None = None
    h1 = h1
    h2 = h2
    net = net
    Devices = {d1, d2}
    Keys = {k1, k2}
    Hosts = {h1, h2}
    Subnets = {net}
    SubnetHosts <- MCSubnetHosts
    ExternalSets <- MCExternalSets
    Requests = {r1}
    Remote = FALSE
    MaxEvents = 6
SYMMETRY Symmetry
PROPERTIES RevokedKeyStaysOut
CHECK_DEADLOCK FALSE
