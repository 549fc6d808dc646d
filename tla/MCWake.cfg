\* Two devices, one without an address to ping, one segment and one MAC address; two
\* requests. From nothing, or with a sleeping device and its controller in place,
\* 2 tests and 3 other events.
SPECIFICATION MCSpec
CONSTANTS
    Devices = {d1, d2}
    Pingable = {d1}
    Controller = d2
    Segments = {s1}
    theSegment = s1
    Macs = {m1}
    theMac = m1
    Requests = {r1, r2}
    VerifyAttempts = 2
    MaxTests = 2
    MaxEvents = 3
    None = None
SYMMETRY Symmetry
INVARIANTS TypeOK SeenIsTrue 
PROPERTIES EditsSurvive
\* The bounded events run out and nobody asks anything.
CHECK_DEADLOCK FALSE
