-------------------------------- MODULE Wake --------------------------------
(***************************************************************************)
(* Waking machines and testing whether they are up, both racing with the   *)
(* operator's edits of devices and LAN segments (wol/service.ts,           *)
(* reachability/service.ts, devices/segments.ts, store/devices.ts).        *)
(*                                                                         *)
(* A test and a wake each read rows, wait for the network, and act on what *)
(* they read.  One server is modelled, whose devices these are; whether a  *)
(* machine answers its pings at the moment is answers, which the world     *)
(* changes as it likes: woken, switched off, unplugged, a packet lost.     *)
(***************************************************************************)
EXTENDS Naturals
\* Definitions named Mut... are deliberate bugs, each tried in place of the
\* definition it precedes to see that a property notices; nothing else uses them.

CONSTANTS
    Devices,
    Pingable,        \* those with a tunnel address, which they keep for life
    Segments,
    Macs,
    Requests,        \* tests and wakes that may be under way at the same time
    VerifyAttempts,  \* WakeDeps.verifyAttempts
    MaxTests,        \* bound: tests over a run
    MaxEvents,       \* bound: edits of rows, wakes and changes of the world over a run
    None

ASSUME BoundsAssumption ==
    /\ Pingable \subseteq Devices
    /\ VerifyAttempts \in Nat \ {0} /\ MaxTests \in Nat /\ MaxEvents \in Nat
    /\ None \notin Devices \cup Segments \cup Macs

VARIABLES
    devs,      \* the device rows
    segs,      \* the lan_segment rows: the wake controller of each
    removed,   \* the ids that are not given again
    answers,   \* the machines, of those that can be pinged, that answer now
    req,       \* what each request is doing
    tests,     \* how many tests were begun; a test's number is its testedAt
    foundUp,   \* history: the tests that found each machine up
    events     \* how many other events there were (only bounds the model)

rowVars == <<devs, segs, removed>>
vars    == <<rowVars, answers, req, tests, foundUp, events>>

\* flag: is_wake_controller; ssh: it has an SSH target; seen: last_seen_at, 0 for null.
Row == [mac : Macs \cup {None}, seg : Segments \cup {None}, ssh : BOOLEAN, flag : BOOLEAN,
        reach : {"connected", "offline", "unknown"}, seen : 0 .. MaxTests]

Idle == [op |-> "idle"]
Test == [op : {"test"}, dev : Devices, row : Row, at : 1 .. MaxTests,
         found : {None, "up", "down", "blind"}]
\* before, after: history, whether the machine was up (TRUE) and was down
\* (FALSE) since the request came and since the packet was sent.
Wakes == [op : {"wake"}, dev : Devices, stage : {"first", "relay", "sent", "pinging", "done"},
          already : BOOLEAN, tries : 0 .. VerifyAttempts, blind : BOOLEAN,
          result : {None, "already_reachable", "relayed", "relayed_still_down"},
          before : SUBSET BOOLEAN, after : SUBSET BOOLEAN]

(* None is a value of its own: no row of either table, and no outcome.     *)
ASSUME NoneAssumption ==
    /\ None \notin Row /\ None \notin [controller : Devices \cup {None}]
    /\ None \notin {"up", "down", "blind"}

Exists(d) == d # None /\ devs[d] # None
IsUp(d)   == d \in answers
Event     == events < MaxEvents /\ events' = events + 1
Goto(r, what) == req' = [req EXCEPT ![r] = what]

\* What a ping of d comes back with; blind when its vantage is out of reach.
Outcomes(d) == {IF IsUp(d) THEN "up" ELSE "down", "blind"}

Init ==
    /\ devs = [d \in Devices |-> None]
    /\ segs = [s \in Segments |-> None]
    /\ removed = {}
    /\ answers \in SUBSET Pingable
    /\ req = [r \in Requests |-> Idle]
    /\ tests = 0
    /\ foundUp = [d \in Devices |-> {}]
    /\ events = 0

-----------------------------------------------------------------------------
(* ReachabilityService.test.  Without an address it fails at once.         *)
TestBegin(r, d) ==
    /\ req[r] = Idle /\ Exists(d)
    /\ tests < MaxTests /\ tests' = tests + 1
    /\ IF d \in Pingable
       THEN /\ Goto(r, [op |-> "test", dev |-> d, row |-> devs[d], at |-> tests + 1,
                        found |-> None])
            /\ UNCHANGED devs
       ELSE devs' = [devs EXCEPT ![d].reach = "unknown"] /\ UNCHANGED req
    /\ UNCHANGED <<segs, removed, answers, foundUp, events>>

Probe(r) ==
    /\ req[r].op = "test" /\ req[r].found = None
    /\ \E f \in Outcomes(req[r].dev) :
          /\ Goto(r, [req[r] EXCEPT !.found = f])
          /\ foundUp' = IF f = "up" THEN [foundUp EXCEPT ![req[r].dev] = @ \cup {req[r].at}]
                        ELSE foundUp
    /\ UNCHANGED <<rowVars, answers, tests, events>>

\* A narrow update: reachability and last_seen_at, the latter from the row
\* read before the probe unless the machine was up.
State(f) == CASE f = "up" -> "connected" [] f = "down" -> "offline" [] f = "blind" -> "unknown"

MutWritesRow(t) ==
    [devs EXCEPT ![t.dev] = [t.row EXCEPT !.reach = State(t.found),
                                          !.seen = IF t.found = "up" THEN t.at ELSE @]]
MutSeenAnyway(t) ==
    IF Exists(t.dev) THEN [devs EXCEPT ![t.dev].reach = State(t.found), ![t.dev].seen = t.at]
    ELSE devs
SetReachability(t) ==
    IF Exists(t.dev)
    THEN [devs EXCEPT ![t.dev].reach = State(t.found),
                      ![t.dev].seen = IF t.found = "up" THEN t.at ELSE t.row.seen]
    ELSE devs

TestEnd(r) ==
    /\ req[r].op = "test" /\ req[r].found # None
    /\ devs' = SetReachability(req[r])
    /\ Goto(r, Idle)
    /\ UNCHANGED <<segs, removed, answers, tests, foundUp, events>>

-----------------------------------------------------------------------------
(* WakeService.wake.  A wake that is refused leaves but an audit entry.    *)
Wakeable(d) ==
    /\ Exists(d) /\ devs[d].mac # None /\ devs[d].seg # None
    /\ \A e \in Devices \ {d} :
          Exists(e) => <<devs[e].seg, devs[e].mac>> # <<devs[d].seg, devs[d].mac>>
    /\ LET controller == segs[devs[d].seg].controller
       IN  controller # d /\ Exists(controller) /\ devs[controller].ssh

WakeBegin(r, d) ==
    /\ req[r] = Idle /\ Wakeable(d) /\ Event
    /\ Goto(r, [op |-> "wake", dev |-> d, stage |-> IF d \in Pingable THEN "first" ELSE "relay",
                already |-> FALSE, tries |-> 0, blind |-> FALSE, result |-> None,
                before |-> {IsUp(d)}, after |-> {}])
    /\ UNCHANGED <<rowVars, answers, tests, foundUp>>

At(r, stage) == req[r].op = "wake" /\ req[r].stage = stage

FirstProbe(r) ==
    /\ At(r, "first")
    /\ \E f \in Outcomes(req[r].dev) :
          Goto(r, [req[r] EXCEPT !.stage = "relay", !.already = f = "up"])
    /\ UNCHANGED <<rowVars, answers, tests, foundUp, events>>

\* The controller cannot be reached, or its command fails.
RelayFails(r) ==
    /\ At(r, "relay") /\ Goto(r, Idle)
    /\ UNCHANGED <<rowVars, answers, tests, foundUp, events>>

Done(w, result, blind) == [w EXCEPT !.stage = "done", !.result = result, !.blind = blind]

Relay(r) ==
    /\ At(r, "relay")
    /\ LET sent == [req[r] EXCEPT !.stage = "sent", !.after = {IsUp(req[r].dev)}]
       IN  Goto(r, IF req[r].already THEN Done(sent, "already_reachable", FALSE) ELSE sent)
    /\ UNCHANGED <<rowVars, answers, tests, foundUp, events>>

\* Each attempt of verifyOnline looks the device up anew.
VerifyBegin(r) ==
    /\ At(r, "sent")
    /\ Goto(r, IF Exists(req[r].dev) /\ req[r].dev \in Pingable
               THEN [req[r] EXCEPT !.stage = "pinging"]
               ELSE Done(req[r], "relayed", TRUE))
    /\ UNCHANGED <<rowVars, answers, tests, foundUp, events>>

\* online === false, and nothing else, is down.
MutBlindIsDown(w, f) ==
    CASE f = "up"   -> Done(w, "relayed", FALSE)
      [] f = "blind" -> Done(w, "relayed_still_down", TRUE)
      [] f = "down" -> IF w.tries + 1 = VerifyAttempts THEN Done(w, "relayed_still_down", FALSE)
                       ELSE [w EXCEPT !.stage = "sent", !.tries = @ + 1]
Verified(w, f) ==
    CASE f # "down" -> Done(w, "relayed", f = "blind")
      [] f = "down" -> IF w.tries + 1 = VerifyAttempts THEN Done(w, "relayed_still_down", FALSE)
                       ELSE [w EXCEPT !.stage = "sent", !.tries = @ + 1]

VerifyEnd(r) ==
    /\ At(r, "pinging")
    /\ \E f \in Outcomes(req[r].dev) : Goto(r, Verified(req[r], f))
    /\ UNCHANGED <<rowVars, answers, tests, foundUp, events>>

Reply(r) ==
    /\ At(r, "done") /\ Goto(r, Idle)
    /\ UNCHANGED <<rowVars, answers, tests, foundUp, events>>

\* A machine comes up or goes down.
Turns(d) ==
    /\ Event
    /\ answers' = IF IsUp(d) THEN answers \ {d} ELSE answers \cup {d}
    /\ req' = [r \in Requests |->
                  IF req[r].op # "wake" \/ req[r].dev # d THEN req[r]
                  ELSE IF req[r].after = {} THEN [req[r] EXCEPT !.before = @ \cup {~IsUp(d)}]
                  ELSE [req[r] EXCEPT !.after = @ \cup {~IsUp(d)}]]
    /\ UNCHANGED <<rowVars, tests, foundUp>>

-----------------------------------------------------------------------------
(* The operator's edits. *)
SegmentOrNone == {s \in Segments : segs[s] # None} \cup {None}

CreateDevice(d, mac, seg, ssh) ==
    /\ d \notin removed /\ ~Exists(d) /\ seg \in SegmentOrNone /\ Event
    /\ devs' = [devs EXCEPT ![d] = [mac |-> mac, seg |-> seg, ssh |-> ssh, flag |-> FALSE,
                                    reach |-> "unknown", seen |-> 0]]
    /\ UNCHANGED <<segs, removed, answers, req, tests, foundUp>>

\* ssh is also withdrawn when the target itself is deleted.
EditDevice(d, mac, seg, ssh) ==
    /\ Exists(d) /\ seg \in SegmentOrNone /\ Event
    /\ devs' = [devs EXCEPT ![d].mac = mac, ![d].seg = seg, ![d].ssh = ssh]
    /\ devs' # devs
    /\ UNCHANGED <<segs, removed, answers, req, tests, foundUp>>

\* Segments keep the id of a controller that is gone: no foreign key.
RemoveDevice(d) ==
    /\ Exists(d) /\ Event
    /\ devs' = [devs EXCEPT ![d] = None]
    /\ removed' = removed \cup {d}
    /\ UNCHANGED <<segs, answers, req, tests, foundUp>>

CreateSegment(s) ==
    /\ segs[s] = None /\ s \notin removed /\ Event
    /\ segs' = [segs EXCEPT ![s] = [controller |-> None]]
    /\ UNCHANGED <<devs, removed, answers, req, tests, foundUp>>

\* The flag moves from the controller before to the one named now.
SetController(s, d) ==
    /\ segs[s] # None /\ Exists(d) /\ Event
    /\ segs' = [segs EXCEPT ![s].controller = d]
    /\ devs' = [e \in Devices |-> IF Exists(e) /\ e \in {segs[s].controller, d}
                                  THEN [devs[e] EXCEPT !.flag = e = d] ELSE devs[e]]
    /\ UNCHANGED <<removed, answers, req, tests, foundUp>>

ClearController(s) ==
    /\ segs[s] # None /\ segs[s].controller # None /\ Event
    /\ segs' = [segs EXCEPT ![s].controller = None]
    /\ UNCHANGED <<devs, removed, answers, req, tests, foundUp>>

\* ON DELETE SET NULL
MutKeepsMembers(s) ==
    /\ segs[s] # None /\ Event
    /\ segs' = [segs EXCEPT ![s] = None] /\ removed' = removed \cup {s}
    /\ UNCHANGED <<devs, answers, req, tests, foundUp>>
DeleteSegment(s) ==
    /\ segs[s] # None /\ Event
    /\ segs' = [segs EXCEPT ![s] = None] /\ removed' = removed \cup {s}
    /\ devs' = [d \in Devices |-> IF Exists(d) /\ devs[d].seg = s
                                  THEN [devs[d] EXCEPT !.seg = None] ELSE devs[d]]
    /\ UNCHANGED <<answers, req, tests, foundUp>>

Restart ==
    /\ Event /\ req' = [r \in Requests |-> Idle]
    /\ UNCHANGED <<rowVars, answers, tests, foundUp>>

-----------------------------------------------------------------------------
Works(r) ==
    \/ Probe(r) \/ TestEnd(r)
    \/ FirstProbe(r) \/ RelayFails(r) \/ Relay(r) \/ VerifyBegin(r) \/ VerifyEnd(r) \/ Reply(r)

Next ==
    \/ \E r \in Requests :
          \/ \E d \in Devices : TestBegin(r, d) \/ WakeBegin(r, d)
          \/ Works(r)
    \/ \E d \in Pingable : Turns(d)
    \/ \E d \in Devices : RemoveDevice(d)
    \/ \E d \in Devices, mac \in Macs \cup {None}, seg \in Segments \cup {None}, ssh \in BOOLEAN :
          CreateDevice(d, mac, seg, ssh) \/ EditDevice(d, mac, seg, ssh)
    \/ \E s \in Segments :
          \/ CreateSegment(s) \/ ClearController(s) \/ DeleteSegment(s)
          \/ \E d \in Devices : SetController(s, d)
    \/ Restart

Spec == Init /\ [][Next]_vars

-----------------------------------------------------------------------------
TypeOK ==
    /\ devs \in [Devices -> Row \cup {None}]
    /\ segs \in [Segments -> [controller : Devices \cup {None}] \cup {None}]
    /\ \A d \in Devices : Exists(d) => devs[d].seg \in SegmentOrNone
    /\ removed \subseteq Devices \cup Segments /\ answers \subseteq Pingable
    /\ req \in [Requests -> {Idle} \cup Test \cup Wakes]
    /\ tests \in 0 .. MaxTests /\ events \in 0 .. MaxEvents
    /\ foundUp \in [Devices -> SUBSET (1 .. MaxTests)]

(* What the device list shows is what some test found: a machine has the   *)
(* time of a test that found it up, however tests of it overlap, and one   *)
(* shown as connected has such a time (FR-001, setReachability).           *)
SeenIsTrue ==
    \A d \in Devices : Exists(d) =>
        /\ devs[d].seen = 0 \/ devs[d].seen \in foundUp[d]
        /\ devs[d].reach = "connected" => devs[d].seen # 0

(* A wake reports the truth, whatever the operator edits meanwhile: the    *)
(* machine had been up before the packet, came up after it, or was down    *)
(* after it; and one it could not look at is never called down (FR-014,    *)
(* FR-015, verifyOnline).                                                  *)
WakeReportHonest ==
    \A r \in Requests : At(r, "done") =>
        /\ req[r].result = "already_reachable"  => TRUE \in req[r].before
        /\ req[r].result = "relayed"            => req[r].blind \/ TRUE \in req[r].after
        /\ req[r].result = "relayed_still_down" => FALSE \in req[r].after

(* No test and no wake takes back an edit made while it waited, nor brings *)
(* back a device that was removed then (the narrow update of               *)
(* setReachability).                                                       *)
EditsSurvive ==
    [][\A r \in Requests, d \in Devices : req[r] # Idle /\ req'[r] = Idle =>
          /\ Exists(d) <=> devs'[d] # None
          /\ Exists(d) =>
                [devs'[d] EXCEPT !.reach = devs[d].reach, !.seen = devs[d].seen] = devs[d]]_vars
=============================================================================
