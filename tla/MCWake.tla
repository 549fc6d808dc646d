------------------------------- MODULE MCWake -------------------------------
(* Wake from nothing, or from a server in use: a sleeping device and the   *)
(* controller of its segment.                                              *)
EXTENDS Wake, TLC

CONSTANTS Controller, theMac, theSegment

Asleep   == [mac |-> theMac, seg |-> theSegment, ssh |-> FALSE, flag |-> FALSE, reach |-> "unknown", seen |-> 0]
Controls == [Asleep EXCEPT !.mac = None, !.seg = None, !.ssh = TRUE, !.flag = TRUE]

InUse ==
    /\ segs = [s \in Segments |-> [controller |-> Controller]]
    /\ devs = [d \in Devices |-> IF d = Controller THEN Controls ELSE Asleep]
    /\ removed = {} /\ answers \in SUBSET Pingable /\ req = [r \in Requests |-> Idle]
    /\ tests = 0 /\ foundUp = [d \in Devices |-> {}] /\ events = 0

MCSpec == (Init \/ InUse) /\ [][Next]_vars

Symmetry == Permutations(Requests)
=============================================================================
