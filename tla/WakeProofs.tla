----------------------------- MODULE WakeProofs -----------------------------
(***************************************************************************)
(* What Wake keeps for any number of devices, segments and requests.  The  *)
(* times shown are true because a test in flight, which writes back the    *)
(* row it copied, copied a true one; the reports are true because the      *)
(* histories of a wake hold the present state of its machine all along.    *)
(***************************************************************************)
EXTENDS Wake, TLAPS

(* A test in flight holds a time that was true when it copied the row, and *)
(* has entered its own in foundUp before it says "up".                     *)
TestSound(q, found) ==
    q.op = "test" =>
        /\ q.row.seen = 0 \/ q.row.seen \in found[q.dev]
        /\ q.found = "up" => q.at \in found[q.dev]

Pending == {"first", "relay"}
Awaited == {"sent", "pinging"}

Honest(q) ==
    /\ q.result = "already_reachable"  => TRUE \in q.before
    /\ q.result = "relayed"            => q.blind \/ TRUE \in q.after
    /\ q.result = "relayed_still_down" => FALSE \in q.after

(* What a wake knows of its machine at each of its stages. *)
WakeSound(q, up) ==
    q.op = "wake" =>
        /\ q.stage \in Pending =>
              q.after = {} /\ (q.dev \in up) \in q.before /\ (q.already => TRUE \in q.before)
        /\ q.stage \in Awaited => (q.dev \in up) \in q.after
        /\ q.stage # "done" => q.tries < VerifyAttempts
        /\ q.stage = "done" => Honest(q)

(* The inductive invariant. *)
IInv ==
    /\ TypeOK
    /\ SeenIsTrue
    /\ \A r \in Requests : TestSound(req[r], foundUp) /\ WakeSound(req[r], answers)

Rows ==
    /\ devs \in [Devices -> Row \cup {None}]
    /\ segs \in [Segments -> [controller : Devices \cup {None}] \cup {None}]
    /\ \A d \in Devices : Exists(d) => devs[d].seg \in SegmentOrNone
    /\ removed \subseteq Devices \cup Segments
    /\ SeenIsTrue

Kinds == {Idle} \cup Test \cup Wakes

LEMMA KindOf ==
    ASSUME NEW q \in Kinds
    PROVE  /\ q.op = "test" => q \in Test
           /\ q.op = "wake" => q \in Wakes
           /\ q \in Test => q.op = "test"
           /\ q \in Wakes => q.op = "wake"
           /\ Idle.op = "idle"
BY DEF Kinds, Idle, Test, Wakes

LEMMA InitInv == Init => IInv
<1> SUFFICES ASSUME Init PROVE IInv
  OBVIOUS
<1>1. \A d \in Devices : ~Exists(d)
  BY DEF Init, Exists
<1>2. TypeOK
  BY <1>1, BoundsAssumption DEF Init, TypeOK
<1>3. SeenIsTrue
  BY <1>1 DEF SeenIsTrue
<1>4. \A r \in Requests : TestSound(req[r], foundUp) /\ WakeSound(req[r], answers)
  BY DEF Init, Idle, TestSound, WakeSound
<1> QED
  BY <1>2, <1>3, <1>4 DEF IInv

-----------------------------------------------------------------------------
(* The operator's edits touch the rows only, and give a device no time. *)
LEMMA EditsKeepRows ==
    ASSUME IInv,
           \/ \E d \in Devices, mac \in Macs \cup {None}, seg \in Segments \cup {None}, ssh \in BOOLEAN :
                 CreateDevice(d, mac, seg, ssh) \/ EditDevice(d, mac, seg, ssh)
           \/ \E d \in Devices : RemoveDevice(d)
           \/ \E s \in Segments : CreateSegment(s) \/ ClearController(s) \/ DeleteSegment(s)
                                  \/ \E d \in Devices : SetController(s, d)
    PROVE  IInv'
<1> USE DEF IInv, TypeOK
<1>0. UNCHANGED <<answers, req, tests, foundUp>> /\ Event
  BY DEF CreateDevice, EditDevice, RemoveDevice, CreateSegment, ClearController, DeleteSegment,
     SetController
<1>1. ASSUME NEW d \in Devices, NEW mac \in Macs \cup {None}, NEW seg \in Segments \cup {None},
             NEW ssh \in BOOLEAN, CreateDevice(d, mac, seg, ssh)
      PROVE  Rows'
  <2> DEFINE new == [mac |-> mac, seg |-> seg, ssh |-> ssh, flag |-> FALSE,
                     reach |-> "unknown", seen |-> 0]
  <2>1. new \in Row /\ new.seg \in SegmentOrNone /\ new.seen = 0 /\ new.reach # "connected"
    BY <1>1, BoundsAssumption DEF Row, CreateDevice
  <2>2. devs' = [devs EXCEPT ![d] = new] /\ UNCHANGED <<segs, removed, foundUp>>
    BY <1>1 DEF CreateDevice
  <2> HIDE DEF new
  <2> QED
    BY <2>1, <2>2 DEF Rows, Exists, SegmentOrNone, SeenIsTrue
<1>2. ASSUME NEW d \in Devices, NEW mac \in Macs \cup {None}, NEW seg \in Segments \cup {None},
             NEW ssh \in BOOLEAN, EditDevice(d, mac, seg, ssh)
      PROVE  Rows'
  <2> DEFINE new == [devs[d] EXCEPT !.mac = mac, !.seg = seg, !.ssh = ssh]
  <2>1. devs[d] \in Row /\ Exists(d)
    BY <1>2 DEF EditDevice, Exists
  <2>2. new \in Row /\ new.seg \in SegmentOrNone /\ new.seen = devs[d].seen /\ new.reach = devs[d].reach
    BY <1>2, <2>1 DEF Row, EditDevice
  <2>3. devs' = [devs EXCEPT ![d] = new] /\ UNCHANGED <<segs, removed, foundUp>>
    BY <1>2, <2>1 DEF EditDevice
  <2> HIDE DEF new
  <2> QED
    BY <2>1, <2>2, <2>3 DEF Rows, Exists, SegmentOrNone, SeenIsTrue
<1>3. ASSUME NEW d \in Devices, RemoveDevice(d)
      PROVE  Rows'
  BY <1>3 DEF RemoveDevice, Rows, Exists, SegmentOrNone, SeenIsTrue
<1>4. ASSUME NEW s \in Segments, CreateSegment(s)
      PROVE  Rows'
  <2>1. segs' = [segs EXCEPT ![s] = [controller |-> None]] /\ UNCHANGED <<devs, removed, foundUp>>
    BY <1>4 DEF CreateSegment
  <2>2. [controller |-> None] \in [controller : Devices \cup {None}]
    OBVIOUS
  <2>3. SegmentOrNone \subseteq SegmentOrNone'
    BY <2>1, <2>2, NoneAssumption DEF SegmentOrNone
  <2> QED
    BY <2>1, <2>2, <2>3 DEF Rows, Exists, SeenIsTrue
<1>5. ASSUME NEW s \in Segments, ClearController(s)
      PROVE  Rows'
  <2> DEFINE new == [segs[s] EXCEPT !.controller = None]
  <2>1. segs' = [segs EXCEPT ![s] = new] /\ UNCHANGED <<devs, removed, foundUp>>
    BY <1>5 DEF ClearController
  <2>2. new \in [controller : Devices \cup {None}]
    BY <1>5 DEF ClearController
  <2> HIDE DEF new
  <2>3. SegmentOrNone' = SegmentOrNone
    BY <1>5, <2>1, <2>2, NoneAssumption DEF SegmentOrNone, ClearController
  <2> QED
    BY <2>1, <2>2, <2>3 DEF Rows, Exists, SeenIsTrue
<1>6. ASSUME NEW s \in Segments, DeleteSegment(s)
      PROVE  Rows'
  <2>1. /\ segs' = [segs EXCEPT ![s] = None] /\ removed' = removed \cup {s} /\ UNCHANGED foundUp
        /\ devs' = [d \in Devices |-> IF Exists(d) /\ devs[d].seg = s
                                      THEN [devs[d] EXCEPT !.seg = None] ELSE devs[d]]
    BY <1>6 DEF DeleteSegment
  <2>2. SegmentOrNone' = (SegmentOrNone \ {s}) \cup {None}
    BY <2>1, BoundsAssumption DEF SegmentOrNone
  <2>3. ASSUME NEW d \in Devices, devs[d] # None
        PROVE  /\ devs'[d] \in Row /\ devs'[d].seg \in SegmentOrNone'
               /\ devs'[d].seen = devs[d].seen /\ devs'[d].reach = devs[d].reach
    <3>1. devs[d] \in Row /\ Exists(d) /\ devs[d].seg \in SegmentOrNone
      BY <2>3, BoundsAssumption DEF Exists
    <3>2. [devs[d] EXCEPT !.seg = None] \in Row
      BY <3>1 DEF Row
    <3> QED
      BY <2>1, <2>2, <3>1, <3>2 DEF Row
  <2>4. ASSUME NEW d \in Devices, devs[d] = None
        PROVE  devs'[d] = None
    BY <2>1, <2>4 DEF Exists
  <2>5. devs' \in [Devices -> Row \cup {None}]
    BY <2>1, <2>3, <2>4
  <2>6. segs' \in [Segments -> [controller : Devices \cup {None}] \cup {None}] /\ removed' \subseteq Devices \cup Segments
    BY <2>1
  <2>7. SeenIsTrue' /\ \A d \in Devices : Exists(d)' => devs'[d].seg \in SegmentOrNone'
    BY <2>1, <2>3, <2>4 DEF SeenIsTrue, Exists
  <2> QED
    BY <2>5, <2>6, <2>7 DEF Rows
<1>7. ASSUME NEW s \in Segments, NEW c \in Devices, SetController(s, c)
      PROVE  Rows'
  <2> DEFINE new == [segs[s] EXCEPT !.controller = c]
  <2>1. /\ segs' = [segs EXCEPT ![s] = new] /\ UNCHANGED <<removed, foundUp>>
        /\ devs' = [e \in Devices |-> IF Exists(e) /\ e \in {segs[s].controller, c}
                                      THEN [devs[e] EXCEPT !.flag = e = c] ELSE devs[e]]
    BY <1>7 DEF SetController
  <2>2. new \in [controller : Devices \cup {None}]
    BY <1>7 DEF SetController
  <2> HIDE DEF new
  <2>3. SegmentOrNone' = SegmentOrNone
    BY <1>7, <2>1, <2>2, NoneAssumption DEF SegmentOrNone, SetController
  <2>4. ASSUME NEW d \in Devices, devs[d] # None
        PROVE  /\ devs'[d] \in Row /\ devs'[d].seg \in SegmentOrNone'
               /\ devs'[d].seen = devs[d].seen /\ devs'[d].reach = devs[d].reach
    <3>1. devs[d] \in Row /\ Exists(d) /\ devs[d].seg \in SegmentOrNone
      BY <2>4, BoundsAssumption DEF Exists
    <3>2. [devs[d] EXCEPT !.flag = d = c] \in Row
      BY <3>1 DEF Row
    <3> QED
      BY <2>1, <2>3, <3>1, <3>2 DEF Row
  <2>5. ASSUME NEW d \in Devices, devs[d] = None
        PROVE  devs'[d] = None
    BY <2>1, <2>5 DEF Exists
  <2>6. devs' \in [Devices -> Row \cup {None}]
    BY <2>1, <2>4, <2>5
  <2>7. segs' \in [Segments -> [controller : Devices \cup {None}] \cup {None}] /\ removed' \subseteq Devices \cup Segments
    BY <2>1, <2>2
  <2>8. SeenIsTrue' /\ \A d \in Devices : Exists(d)' => devs'[d].seg \in SegmentOrNone'
    BY <2>1, <2>4, <2>5 DEF SeenIsTrue, Exists
  <2> QED
    BY <2>6, <2>7, <2>8 DEF Rows
<1>8. Rows'
  BY <1>1, <1>2, <1>3, <1>4, <1>5, <1>6, <1>7
<1> QED
  <2>1. events' \in 0 .. MaxEvents
    BY <1>0, BoundsAssumption DEF Event
  <2> QED
    BY <1>0, <1>8, <2>1 DEF Rows
-----------------------------------------------------------------------------
(* A request that moves on, nothing else but the number of tests, the      *)
(* number of events and the history of tests changing.                     *)
LEMMA Moves ==
    ASSUME IInv, NEW r \in Requests, NEW q \in Kinds, req' = [req EXCEPT ![r] = q],
           UNCHANGED answers, foundUp' \in [Devices -> SUBSET (1 .. MaxTests)],
           \A d \in Devices : foundUp[d] \subseteq foundUp'[d],
           Rows', tests' \in 0 .. MaxTests, events' \in 0 .. MaxEvents,
           TestSound(q, foundUp'), WakeSound(q, answers)
    PROVE  IInv'
<1>1. req' \in [Requests -> Kinds]
  BY DEF IInv, TypeOK, Kinds
<1>2. TypeOK' /\ SeenIsTrue'
  BY <1>1 DEF IInv, TypeOK, Rows, Kinds
<1>3. ASSUME NEW p \in Requests PROVE TestSound(req'[p], foundUp') /\ WakeSound(req'[p], answers')
  <2>1. CASE p = r
    BY <2>1 DEF IInv, TypeOK
  <2>2. CASE p # r
    <3>1. req'[p] = req[p] /\ req[p] \in Kinds
      BY <2>2 DEF IInv, TypeOK, Kinds
    <3>2. req[p].op = "test" => req[p].dev \in Devices
      BY <3>1, KindOf DEF Test
    <3>3. TestSound(req[p], foundUp) /\ WakeSound(req[p], answers)
      BY DEF IInv
    <3>4. TestSound(req[p], foundUp')
      BY <3>2, <3>3 DEF TestSound
    <3> QED
      BY <3>1, <3>3, <3>4
  <2> QED
    BY <2>1, <2>2
<1> QED
  BY <1>2, <1>3 DEF IInv

LEMMA SameRows ==
    ASSUME IInv, UNCHANGED rowVars, foundUp' \in [Devices -> SUBSET (1 .. MaxTests)],
           \A d \in Devices : foundUp[d] \subseteq foundUp'[d]
    PROVE  Rows'
BY DEF IInv, TypeOK, rowVars, Rows, SeenIsTrue, Exists, SegmentOrNone

\* Without a change of rows, or of what tests found.
LEMMA MovesOnly ==
    ASSUME IInv, NEW r \in Requests, NEW q \in Kinds, req' = [req EXCEPT ![r] = q],
           UNCHANGED <<rowVars, answers, tests, foundUp, events>>,
           TestSound(q, foundUp), WakeSound(q, answers)
    PROVE  IInv'
<1>1. foundUp' \in [Devices -> SUBSET (1 .. MaxTests)] /\ \A d \in Devices : foundUp[d] \subseteq foundUp'[d]
  BY DEF IInv, TypeOK
<1>2. Rows'
  BY <1>1, SameRows DEF rowVars
<1>3. tests' \in 0 .. MaxTests /\ events' \in 0 .. MaxEvents
  BY DEF IInv, TypeOK
<1> QED
  BY <1>1, <1>2, <1>3, Moves

LEMMA ToIdle == Idle \in Kinds /\ TestSound(Idle, foundUp) /\ WakeSound(Idle, answers)
BY DEF Kinds, Idle, TestSound, WakeSound

-----------------------------------------------------------------------------
(* One row gets another state and time, its own or one that was found.     *)
LEMMA ShowsFound ==
    ASSUME IInv, NEW d \in Devices, Exists(d), NEW reach \in {"connected", "offline", "unknown"},
           NEW seen \in 0 .. MaxTests, seen = 0 \/ seen \in foundUp[d],
           reach = "connected" => seen # 0,
           devs' = [devs EXCEPT ![d].reach = reach, ![d].seen = seen],
           UNCHANGED <<segs, removed, foundUp>>
    PROVE  Rows'
<1> DEFINE new == [devs[d] EXCEPT !.reach = reach, !.seen = seen]
<1>1. devs[d] \in Row
  BY DEF IInv, TypeOK, Exists
<1>2. new \in Row /\ new.seg = devs[d].seg /\ new.reach = reach /\ new.seen = seen
  BY <1>1 DEF Row
<1>3. devs' = [devs EXCEPT ![d] = new]
  BY <1>1 DEF IInv, TypeOK
<1> HIDE DEF new
<1>4. SegmentOrNone' = SegmentOrNone
  BY DEF SegmentOrNone
<1> QED
  BY <1>2, <1>3, <1>4 DEF IInv, TypeOK, Rows, Exists, SeenIsTrue

LEMMA TestBeginKeeps ==
    ASSUME IInv, NEW r \in Requests, NEW d \in Devices, TestBegin(r, d)
    PROVE  IInv'
<1>1. devs[d] \in Row /\ Exists(d) /\ tests + 1 \in 1 .. MaxTests /\ tests' = tests + 1
  BY BoundsAssumption DEF IInv, TypeOK, TestBegin, Exists
<1>2. devs[d].seen = 0 \/ devs[d].seen \in foundUp[d]
  BY <1>1 DEF IInv, SeenIsTrue
<1>3. /\ UNCHANGED <<segs, removed, answers, foundUp, events>> /\ tests' \in 0 .. MaxTests
      /\ events' \in 0 .. MaxEvents
      /\ foundUp' \in [Devices -> SUBSET (1 .. MaxTests)] /\ \A e \in Devices : foundUp[e] \subseteq foundUp'[e]
  BY <1>1, BoundsAssumption DEF TestBegin, IInv, TypeOK
<1>4. CASE d \in Pingable
  <2> DEFINE q == [op |-> "test", dev |-> d, row |-> devs[d], at |-> tests + 1, found |-> None]
  <2>1. q \in Kinds
    BY <1>1 DEF Kinds, Test
  <2>2. TestSound(q, foundUp') /\ WakeSound(q, answers)
    BY <1>2, <1>3, NoneAssumption DEF TestSound, WakeSound
  <2>3. req' = [req EXCEPT ![r] = q] /\ UNCHANGED rowVars
    BY <1>3, <1>4 DEF TestBegin, Goto, rowVars
  <2>4. Rows'
    BY <1>3, <2>3, SameRows
  <2> HIDE DEF q
  <2> QED
    BY <1>3, <2>1, <2>2, <2>3, <2>4, Moves
<1>5. CASE d \notin Pingable
  <2>1. devs' = [devs EXCEPT ![d].reach = "unknown"] /\ UNCHANGED req
    BY <1>5 DEF TestBegin
  <2>2. devs' = [devs EXCEPT ![d].reach = "unknown", ![d].seen = devs[d].seen]
    BY <1>1, <2>1 DEF IInv, TypeOK, Row
  <2>3. devs[d].seen \in 0 .. MaxTests
    BY <1>1 DEF Row
  <2>4. Rows'
    BY <1>1, <1>2, <1>3, <2>2, <2>3, ShowsFound
  <2> QED
    BY <1>3, <2>1, <2>4 DEF IInv, TypeOK, Rows
<1> QED
  BY <1>4, <1>5

LEMMA ProbeKeeps ==
    ASSUME IInv, NEW r \in Requests, Probe(r)
    PROVE  IInv'
<1> DEFINE t == req[r]
<1>1. t \in Test /\ TestSound(t, foundUp)
  BY KindOf DEF IInv, TypeOK, Kinds, Probe
<1>2. PICK f \in Outcomes(t.dev) :
        /\ req' = [req EXCEPT ![r] = [t EXCEPT !.found = f]]
        /\ foundUp' = IF f = "up" THEN [foundUp EXCEPT ![t.dev] = @ \cup {t.at}] ELSE foundUp
  BY DEF Probe, Goto
<1>3. f \in {"up", "down", "blind"}
  BY DEF Outcomes
<1> DEFINE q == [t EXCEPT !.found = f]
<1>4. q \in Test /\ q.op = "test" /\ q.dev = t.dev /\ q.row = t.row /\ q.at = t.at /\ q.found = f
  BY <1>1, <1>3 DEF Test
<1>5. /\ t.dev \in Devices /\ t.at \in 1 .. MaxTests
      /\ t.row.seen = 0 \/ t.row.seen \in foundUp[t.dev]
  BY <1>1, KindOf DEF Test, TestSound, Kinds
<1>6. /\ foundUp' \in [Devices -> SUBSET (1 .. MaxTests)] /\ \A d \in Devices : foundUp[d] \subseteq foundUp'[d]
      /\ f = "up" => t.at \in foundUp'[t.dev]
  BY <1>2, <1>5 DEF IInv, TypeOK
<1> HIDE DEF q, t
<1>7. TestSound(q, foundUp') /\ WakeSound(q, answers)
  BY <1>4, <1>5, <1>6 DEF TestSound, WakeSound
<1>8. UNCHANGED <<rowVars, answers, tests, events>>
  BY DEF Probe
<1>9. Rows' /\ tests' \in 0 .. MaxTests /\ events' \in 0 .. MaxEvents
  BY <1>6, <1>8, SameRows DEF IInv, TypeOK
<1>10. req' = [req EXCEPT ![r] = q] /\ q \in Kinds
  BY <1>2, <1>4 DEF q, Kinds
<1> QED
  BY <1>6, <1>7, <1>8, <1>9, <1>10, Moves

LEMMA TestEndKeeps ==
    ASSUME IInv, NEW r \in Requests, TestEnd(r)
    PROVE  IInv'
<1> DEFINE t == req[r]
<1>1. t \in Test /\ TestSound(t, foundUp) /\ t.found \in {"up", "down", "blind"} /\ t.op = "test"
  BY KindOf DEF IInv, TypeOK, Kinds, TestEnd, Test
<1>2. /\ UNCHANGED <<segs, removed, answers, tests, foundUp, events>>
      /\ req' = [req EXCEPT ![r] = Idle] /\ devs' = SetReachability(t)
  BY DEF TestEnd, Goto
<1> DEFINE seen == IF t.found = "up" THEN t.at ELSE t.row.seen
<1>3. /\ t.dev \in Devices /\ t.at \in 1 .. MaxTests /\ t.row \in Row
      /\ t.row.seen = 0 \/ t.row.seen \in foundUp[t.dev]
      /\ t.found = "up" => t.at \in foundUp[t.dev]
  BY <1>1 DEF Test, TestSound
<1> HIDE DEF t
<1>4. /\ seen \in 0 .. MaxTests /\ (seen = 0 \/ seen \in foundUp[t.dev])
      /\ State(t.found) \in {"connected", "offline", "unknown"}
      /\ State(t.found) = "connected" => seen # 0
  BY <1>1, <1>3, BoundsAssumption DEF Row, State
<1> HIDE DEF seen
<1>5. CASE Exists(t.dev)
  <2>1. devs' = [devs EXCEPT ![t.dev].reach = State(t.found), ![t.dev].seen = seen]
    BY <1>2, <1>5 DEF SetReachability, seen
  <2> QED
    <3>1. Rows'
      BY <1>2, <1>3, <1>4, <1>5, <2>1, ShowsFound
    <3> QED
      BY <1>2, <3>1, ToIdle, Moves DEF IInv, TypeOK
<1>6. CASE ~Exists(t.dev)
  BY <1>2, <1>6, ToIdle, MovesOnly DEF SetReachability, rowVars
<1> QED
  BY <1>5, <1>6
-----------------------------------------------------------------------------
(* Wakes.                                                                  *)
LEMMA WakeBeginKeeps ==
    ASSUME IInv, NEW r \in Requests, NEW d \in Devices, WakeBegin(r, d)
    PROVE  IInv'
<1> DEFINE q == [op |-> "wake", dev |-> d, stage |-> IF d \in Pingable THEN "first" ELSE "relay",
                 already |-> FALSE, tries |-> 0, blind |-> FALSE, result |-> None,
                 before |-> {IsUp(d)}, after |-> {}]
<1>1. IsUp(d) \in BOOLEAN
  BY DEF IsUp
<1>2. q \in Kinds
  BY <1>1, BoundsAssumption DEF Kinds, Wakes
<1>3. TestSound(q, foundUp) /\ WakeSound(q, answers)
  BY BoundsAssumption DEF TestSound, WakeSound, Pending, Awaited, IsUp
<1>4. /\ req' = [req EXCEPT ![r] = q] /\ UNCHANGED <<rowVars, answers, tests, foundUp>>
      /\ events' \in 0 .. MaxEvents
  BY BoundsAssumption DEF WakeBegin, Goto, Event, IInv, TypeOK
<1> HIDE DEF q
<1>5. Rows' /\ tests' \in 0 .. MaxTests /\ foundUp' \in [Devices -> SUBSET (1 .. MaxTests)]
  BY <1>4, SameRows DEF IInv, TypeOK
<1> QED
  BY <1>2, <1>3, <1>4, <1>5, Moves

\* What a wake at a stage is.
LEMMA WakeAt ==
    ASSUME IInv, NEW r \in Requests, NEW stage, At(r, stage)
    PROVE  /\ req[r] \in Wakes /\ req[r].op = "wake" /\ req[r].stage = stage
           /\ WakeSound(req[r], answers)
BY KindOf DEF IInv, TypeOK, Kinds, At

\* Another record of the wake, well-typed and sound, in place of the one it was.
LEMMA WakeMoves ==
    ASSUME IInv, NEW r \in Requests, NEW q \in Wakes, Goto(r, q), WakeSound(q, answers),
           UNCHANGED <<rowVars, answers, tests, foundUp, events>>
    PROVE  IInv'
<1>1. q \in Kinds /\ TestSound(q, foundUp)
  BY DEF Kinds, Wakes, TestSound
<1> QED
  BY <1>1, MovesOnly DEF Goto

LEMMA FirstProbeKeeps ==
    ASSUME IInv, NEW r \in Requests, FirstProbe(r)
    PROVE  IInv'
<1> DEFINE w == req[r]
<1>1. w \in Wakes /\ w.op = "wake" /\ w.stage = "first" /\ WakeSound(w, answers)
  BY WakeAt DEF FirstProbe
<1>2. PICK f \in Outcomes(w.dev) : Goto(r, [w EXCEPT !.stage = "relay", !.already = f = "up"])
  BY DEF FirstProbe
<1> DEFINE q == [w EXCEPT !.stage = "relay", !.already = f = "up"]
<1> HIDE DEF w
<1>3. /\ q \in Wakes /\ q.op = "wake" /\ q.stage = "relay" /\ q.already = (f = "up")
      /\ q.dev = w.dev /\ q.before = w.before /\ q.after = w.after /\ q.tries = w.tries
  BY <1>1 DEF Wakes
<1>4. f = "up" => w.dev \in answers
  BY DEF Outcomes, IsUp
<1>5. WakeSound(q, answers)
  BY <1>1, <1>3, <1>4 DEF WakeSound, Pending, Awaited
<1> HIDE DEF q
<1>6. UNCHANGED <<rowVars, answers, tests, foundUp, events>>
  BY DEF FirstProbe
<1> QED
  BY <1>2, <1>3, <1>5, <1>6, WakeMoves DEF q

LEMMA RelayKeeps ==
    ASSUME IInv, NEW r \in Requests, Relay(r)
    PROVE  IInv'
<1> DEFINE w    == req[r]
           up   == IsUp(w.dev)
           sent == [w EXCEPT !.stage = "sent", !.after = {up}]
           q    == IF w.already THEN Done(sent, "already_reachable", FALSE) ELSE sent
<1>1. w \in Wakes /\ w.op = "wake" /\ w.stage = "relay" /\ WakeSound(w, answers)
  BY WakeAt DEF Relay
<1>2. Goto(r, q) /\ UNCHANGED <<rowVars, answers, tests, foundUp, events>>
  BY DEF Relay
<1>3. up \in BOOLEAN /\ up = (w.dev \in answers)
  BY DEF IsUp
<1> HIDE DEF w, up
<1>4. /\ sent \in Wakes /\ sent.op = "wake" /\ sent.stage = "sent" /\ sent.dev = w.dev
      /\ sent.before = w.before /\ sent.after = {up} /\ sent.tries = w.tries
  BY <1>1, <1>3 DEF Wakes
<1> HIDE DEF sent
<1>5. CASE w.already
  <2>1. /\ q \in Wakes /\ q.op = "wake" /\ q.stage = "done" /\ q.result = "already_reachable"
        /\ q.before = w.before
    BY <1>4, <1>5 DEF Done, Wakes
  <2>2. WakeSound(q, answers)
    BY <1>1, <1>5, <2>1 DEF WakeSound, Pending, Awaited, Honest
  <2> QED
    BY <1>2, <2>1, <2>2, WakeMoves
<1>6. CASE ~w.already
  <2>1. q = sent
    BY <1>6
  <2>2. WakeSound(sent, answers)
    BY <1>1, <1>3, <1>4 DEF WakeSound, Pending, Awaited
  <2> QED
    BY <1>2, <1>4, <2>1, <2>2, WakeMoves
<1> QED
  BY <1>5, <1>6

LEMMA VerifyBeginKeeps ==
    ASSUME IInv, NEW r \in Requests, VerifyBegin(r)
    PROVE  IInv'
<1> DEFINE w == req[r]
<1>1. w \in Wakes /\ w.op = "wake" /\ w.stage = "sent" /\ WakeSound(w, answers)
  BY WakeAt DEF VerifyBegin
<1>2. /\ Goto(r, [w EXCEPT !.stage = "pinging"]) \/ Goto(r, Done(w, "relayed", TRUE))
      /\ UNCHANGED <<rowVars, answers, tests, foundUp, events>>
  BY DEF VerifyBegin
<1> HIDE DEF w
<1>3. /\ [w EXCEPT !.stage = "pinging"] \in Wakes
      /\ WakeSound([w EXCEPT !.stage = "pinging"], answers)
  BY <1>1 DEF Wakes, WakeSound, Pending, Awaited
<1>4. Done(w, "relayed", TRUE) \in Wakes /\ WakeSound(Done(w, "relayed", TRUE), answers)
  BY <1>1 DEF Wakes, WakeSound, Pending, Awaited, Done, Honest
<1> QED
  BY <1>2, <1>3, <1>4, WakeMoves

LEMMA VerifyEndKeeps ==
    ASSUME IInv, NEW r \in Requests, VerifyEnd(r)
    PROVE  IInv'
<1> DEFINE w == req[r]
<1>1. w \in Wakes /\ w.op = "wake" /\ w.stage = "pinging" /\ WakeSound(w, answers)
  BY WakeAt DEF VerifyEnd
<1>2. PICK f \in Outcomes(w.dev) : Goto(r, Verified(w, f))
  BY DEF VerifyEnd
<1>3. UNCHANGED <<rowVars, answers, tests, foundUp, events>>
  BY DEF VerifyEnd
<1> HIDE DEF w
<1>4. /\ w.tries \in 0 .. VerifyAttempts /\ w.tries < VerifyAttempts
      /\ (w.dev \in answers) \in w.after
  BY <1>1 DEF WakeSound, Awaited, Wakes
<1>5. CASE f # "down"
  <2>1. Verified(w, f) = Done(w, "relayed", f = "blind") /\ (f = "blind" \/ w.dev \in answers)
    BY <1>5 DEF Verified, Outcomes, IsUp
  <2>2. /\ Done(w, "relayed", f = "blind") \in Wakes
        /\ WakeSound(Done(w, "relayed", f = "blind"), answers)
    BY <1>1, <1>4, <2>1 DEF Wakes, WakeSound, Pending, Awaited, Done, Honest
  <2> QED
    BY <1>2, <1>3, <2>1, <2>2, WakeMoves
<1>6. CASE f = "down" /\ w.tries + 1 = VerifyAttempts
  <2>1. Verified(w, f) = Done(w, "relayed_still_down", FALSE) /\ w.dev \notin answers
    BY <1>6 DEF Verified, Outcomes, IsUp
  <2>2. /\ Done(w, "relayed_still_down", FALSE) \in Wakes
        /\ WakeSound(Done(w, "relayed_still_down", FALSE), answers)
    BY <1>1, <1>4, <2>1 DEF Wakes, WakeSound, Pending, Awaited, Done, Honest
  <2> QED
    BY <1>2, <1>3, <2>1, <2>2, WakeMoves
<1>7. CASE f = "down" /\ w.tries + 1 # VerifyAttempts
  <2> DEFINE n == w.tries + 1
             q == [w EXCEPT !.stage = "sent", !.tries = n]
  <2>1. Verified(w, f) = q
    BY <1>1, <1>7 DEF Verified, Wakes
  <2>2. n \in 0 .. VerifyAttempts /\ n < VerifyAttempts
    BY <1>4, <1>7, BoundsAssumption
  <2> HIDE DEF n
  <2>3. /\ q \in Wakes /\ q.op = "wake" /\ q.stage = "sent" /\ q.tries = n
        /\ q.dev = w.dev /\ q.after = w.after
    BY <1>1, <2>2 DEF Wakes
  <2> HIDE DEF q
  <2>4. WakeSound(q, answers)
    BY <1>4, <2>2, <2>3 DEF WakeSound, Pending, Awaited
  <2> QED
    BY <1>2, <1>3, <2>1, <2>3, <2>4, WakeMoves
<1> QED
  BY <1>5, <1>6, <1>7

LEMMA WakeEndsKeep ==
    ASSUME IInv, NEW r \in Requests, RelayFails(r) \/ Reply(r)
    PROVE  IInv'
<1>1. req' = [req EXCEPT ![r] = Idle] /\ UNCHANGED <<rowVars, answers, tests, foundUp, events>>
  BY DEF RelayFails, Reply, Goto
<1> QED
  BY <1>1, ToIdle, MovesOnly

LEMMA SameMachine ==
    ASSUME NEW q, NEW up, NEW now, q.dev \in up <=> q.dev \in now, WakeSound(q, up)
    PROVE  WakeSound(q, now)
<1>1. (q.dev \in up) = (q.dev \in now)
  OBVIOUS
<1> QED
  BY <1>1, Zenon DEF WakeSound

(* A machine turns: every wake of it takes note of its new state.          *)
LEMMA TurnsKeeps ==
    ASSUME IInv, NEW d \in Pingable, Turns(d)
    PROVE  IInv'
<1> DEFINE now == ~IsUp(d)
<1>1. /\ UNCHANGED <<rowVars, tests, foundUp>> /\ events' \in 0 .. MaxEvents
      /\ answers' = IF d \in answers THEN answers \ {d} ELSE answers \cup {d}
      /\ req' = [r \in Requests |->
                  IF req[r].op # "wake" \/ req[r].dev # d THEN req[r]
                  ELSE IF req[r].after = {} THEN [req[r] EXCEPT !.before = @ \cup {now}]
                  ELSE [req[r] EXCEPT !.after = @ \cup {now}]]
  BY BoundsAssumption DEF Turns, Event, IInv, TypeOK, IsUp
<1>2. now \in BOOLEAN
  OBVIOUS
<1>3. answers' \subseteq Pingable /\ (d \in answers' <=> now)
  BY <1>1 DEF IInv, TypeOK, IsUp
<1> HIDE DEF now
<1>4. ASSUME NEW r \in Requests
      PROVE  req'[r] \in Kinds /\ TestSound(req'[r], foundUp) /\ WakeSound(req'[r], answers')
  <2> DEFINE w == req[r]
  <2>1. w \in Kinds /\ TestSound(w, foundUp) /\ WakeSound(w, answers)
    BY DEF IInv, TypeOK, Kinds
  <2>2. CASE w.op # "wake"
    <3>1. req'[r] = w
      BY <1>1, <2>2
    <3> HIDE DEF w
    <3> QED
      BY <2>1, <2>2, <3>1 DEF WakeSound
  <2>3. CASE w.op = "wake" /\ w.dev # d
    <3>1. req'[r] = w /\ (w.dev \in answers <=> w.dev \in answers')
      BY <1>1, <2>3
    <3> HIDE DEF w
    <3> QED
      BY <2>1, <3>1, SameMachine
  <2>4. CASE w.op = "wake" /\ w.dev = d /\ w.after = {}
    <3> DEFINE q == [w EXCEPT !.before = @ \cup {now}]
    <3>1. w \in Wakes /\ req'[r] = q
      BY <1>1, <2>1, <2>4, KindOf
    <3>2. /\ q \in Wakes /\ q.op = "wake" /\ q.stage = w.stage /\ q.already = w.already /\ q.tries = w.tries
          /\ q.blind = w.blind /\ q.result = w.result /\ q.before = w.before \cup {now}
          /\ q.after = w.after /\ q.dev = w.dev
      BY <1>2, <3>1 DEF Wakes
    <3> HIDE DEF q, w
    <3>3. (q.dev \in answers') \in q.before
      <4>1. (q.dev \in answers') = now
        BY <1>2, <1>3, <2>4, <3>2
      <4> QED
        BY <3>2, <4>1
    <3>4. q.stage \notin Awaited
      BY <2>1, <2>4, <3>2 DEF WakeSound
    <3>5. WakeSound(q, answers')
      BY <2>1, <2>4, <3>2, <3>3, <3>4 DEF WakeSound, Pending, Honest
    <3> QED
      BY <3>1, <3>2, <3>5 DEF Kinds, TestSound
  <2>5. CASE w.op = "wake" /\ w.dev = d /\ w.after # {}
    <3> DEFINE q == [w EXCEPT !.after = @ \cup {now}]
    <3>1. w \in Wakes /\ req'[r] = q
      BY <1>1, <2>1, <2>5, KindOf
    <3>2. /\ q \in Wakes /\ q.op = "wake" /\ q.stage = w.stage /\ q.already = w.already /\ q.tries = w.tries
          /\ q.blind = w.blind /\ q.result = w.result /\ q.after = w.after \cup {now}
          /\ q.before = w.before /\ q.dev = w.dev
      BY <1>2, <3>1 DEF Wakes
    <3> HIDE DEF q, w
    <3>3. (q.dev \in answers') \in q.after
      <4>1. (q.dev \in answers') = now
        BY <1>2, <1>3, <2>5, <3>2
      <4> QED
        BY <3>2, <4>1
    <3>4. q.stage \notin Pending
      BY <2>1, <2>5, <3>2 DEF WakeSound
    <3>5. WakeSound(q, answers')
      BY <2>1, <2>5, <3>2, <3>3, <3>4 DEF WakeSound, Pending, Honest
    <3> QED
      BY <3>1, <3>2, <3>5 DEF Kinds, TestSound
  <2> QED
    BY <2>2, <2>3, <2>4, <2>5
<1>5. Rows' /\ tests' \in 0 .. MaxTests /\ foundUp' = foundUp
  BY <1>1, SameRows DEF IInv, TypeOK
<1>6. req' \in [Requests -> Kinds]
  BY <1>1, <1>4
<1>7. TypeOK' /\ SeenIsTrue'
  BY <1>1, <1>3, <1>5, <1>6 DEF Rows, IInv, TypeOK, Kinds
<1> QED
  BY <1>4, <1>5, <1>7 DEF IInv

LEMMA RestartKeeps == IInv /\ Restart => IInv'
<1> SUFFICES ASSUME IInv, Restart PROVE IInv'
  OBVIOUS
<1>1. /\ req' = [r \in Requests |-> Idle] /\ events' \in 0 .. MaxEvents
      /\ UNCHANGED <<rowVars, answers, tests, foundUp>>
  BY BoundsAssumption DEF Restart, Event, IInv, TypeOK
<1>2. Rows' /\ req' \in [Requests -> Kinds]
  BY <1>1, SameRows DEF IInv, TypeOK, Kinds
<1>3. \A r \in Requests : TestSound(req'[r], foundUp') /\ WakeSound(req'[r], answers')
  BY <1>1, ToIdle
<1> QED
  BY <1>1, <1>2, <1>3 DEF IInv, TypeOK, Rows, Kinds
-----------------------------------------------------------------------------
LEMMA NextInv == IInv /\ [Next]_vars => IInv'
<1> SUFFICES ASSUME IInv, [Next]_vars PROVE IInv'
  OBVIOUS
<1>1. ASSUME NEW r \in Requests, NEW d \in Devices, TestBegin(r, d) \/ WakeBegin(r, d)
      PROVE  IInv'
  BY <1>1, TestBeginKeeps, WakeBeginKeeps
<1>2. ASSUME NEW r \in Requests, Works(r)
      PROVE  IInv'
  BY <1>2, ProbeKeeps, TestEndKeeps, FirstProbeKeeps, WakeEndsKeep, RelayKeeps, VerifyBeginKeeps,
     VerifyEndKeeps DEF Works
<1>3. ASSUME NEW d \in Pingable, Turns(d)
      PROVE  IInv'
  BY <1>3, TurnsKeeps
<1>4. CASE Restart
  BY <1>4, RestartKeeps
<1>5. CASE UNCHANGED vars
  <2>1. Rows'
    BY <1>5, SameRows DEF vars, IInv, TypeOK
  <2> QED
    BY <1>5, <2>1 DEF vars, IInv, TypeOK, Rows
<1> QED
  BY <1>1, <1>2, <1>3, <1>4, <1>5, EditsKeepRows DEF Next

THEOREM Inductive == Spec => []IInv
BY InitInv, NextInv, PTL DEF Spec

-----------------------------------------------------------------------------
(* Type correctness with its foreign keys: no device stays in a segment    *)
(* that was deleted, for any number of devices, segments and requests.     *)
THEOREM WakeTyped == Spec => []TypeOK
<1>1. IInv => TypeOK
  BY DEF IInv
<1> QED
  BY <1>1, Inductive, PTL

(* However tests of one device overlap with each other, with edits and     *)
(* with restarts, the time shown is one of a test that found it up.        *)
THEOREM WakeSeenIsTrue == Spec => []SeenIsTrue
<1>1. IInv => SeenIsTrue
  BY DEF IInv
<1> QED
  BY <1>1, Inductive, PTL

(* What a wake reports was so between its request and its report, however  *)
(* often the machine turns and the probes fail (WakeService.wake).         *)
THEOREM WakeReportsHonestly == Spec => []WakeReportHonest
<1>1. IInv => WakeReportHonest
  <2> SUFFICES ASSUME IInv, NEW r \in Requests, At(r, "done")
               PROVE  Honest(req[r])
    BY DEF WakeReportHonest, Honest
  <2> QED
    BY WakeAt DEF WakeSound
<1> QED
  BY <1>1, Inductive, PTL

-----------------------------------------------------------------------------
(* A request that ends leaves the rows alone, or is a test that ends.      *)
LEMMA EndsOf ==
    ASSUME IInv, [Next]_vars, NEW r \in Requests, req[r] # Idle, req'[r] = Idle
    PROVE  UNCHANGED devs \/ TestEnd(r)
<1>1. \A p \in Requests : \A q : Goto(p, q) /\ req[p] = Idle => req'[r] = req[r] \/ p = r
  BY DEF Goto, IInv, TypeOK
<1>2. ASSUME NEW p \in Requests, NEW d \in Devices, TestBegin(p, d)
      PROVE  UNCHANGED devs
  <2>1. p # r
    BY <1>2 DEF TestBegin
  <2> QED
    BY <1>1, <1>2, <2>1 DEF TestBegin
<1>3. ASSUME NEW p \in Requests, TestEnd(p)
      PROVE  p = r
  BY <1>3 DEF TestEnd, Goto, IInv, TypeOK
<1>4. ASSUME NEW p \in Requests, Works(p), ~TestEnd(p)
      PROVE  UNCHANGED devs
  BY <1>4 DEF Works, Probe, FirstProbe, RelayFails, Relay, VerifyBegin, VerifyEnd, Reply, rowVars
<1>5. ASSUME NEW p \in Requests, NEW d \in Devices, WakeBegin(p, d)
      PROVE  UNCHANGED devs
  BY <1>5 DEF WakeBegin, rowVars
<1>6. ~UNCHANGED req
  OBVIOUS
<1>7. ASSUME NEW d \in Pingable, Turns(d)
      PROVE  UNCHANGED devs
  BY <1>7 DEF Turns, rowVars
<1>8. ASSUME \/ \E d \in Devices, mac \in Macs \cup {None}, seg \in Segments \cup {None}, ssh \in BOOLEAN :
                   CreateDevice(d, mac, seg, ssh) \/ EditDevice(d, mac, seg, ssh)
             \/ \E d \in Devices : RemoveDevice(d)
             \/ \E s \in Segments : CreateSegment(s) \/ ClearController(s) \/ DeleteSegment(s)
                                    \/ \E d \in Devices : SetController(s, d)
      PROVE  FALSE
  BY <1>6, <1>8 DEF CreateDevice, EditDevice, RemoveDevice, CreateSegment, ClearController,
     DeleteSegment, SetController
<1>9. Restart \/ UNCHANGED vars => UNCHANGED devs
  BY DEF Restart, rowVars, vars
<1> QED
  BY <1>2, <1>3, <1>4, <1>5, <1>7, <1>8, <1>9 DEF Next

Survives(d) ==
    /\ Exists(d) <=> devs'[d] # None
    /\ Exists(d) =>
          [devs'[d] EXCEPT !.reach = devs[d].reach, !.seen = devs[d].seen] = devs[d]

LEMMA EndsSpare ==
    ASSUME IInv, [Next]_vars, NEW r \in Requests, req[r] # Idle, req'[r] = Idle, NEW d \in Devices
    PROVE  Survives(d)
<1>1. d # None /\ (Exists(d) => devs[d] \in Row)
  BY BoundsAssumption DEF IInv, TypeOK, Exists
<1>2. CASE UNCHANGED devs
  <2>1. Exists(d) => [devs[d] EXCEPT !.reach = devs[d].reach, !.seen = devs[d].seen] = devs[d]
    BY <1>1 DEF Row
  <2> QED
    BY <1>1, <1>2, <2>1 DEF Survives, Exists
<1>3. CASE TestEnd(r)
  <2> DEFINE t    == req[r]
             seen == IF t.found = "up" THEN t.at ELSE t.row.seen
             new  == [devs[d] EXCEPT !.reach = State(t.found), !.seen = seen]
  <2>1. /\ t \in Test /\ t.found \in {"up", "down", "blind"}
        /\ devs' = SetReachability(t)
    BY <1>3, KindOf DEF IInv, TypeOK, Kinds, TestEnd, Test
  <2>2. /\ seen \in 0 .. MaxTests
        /\ State(t.found) \in {"connected", "offline", "unknown"}
    BY <2>1, BoundsAssumption DEF Test, Row, State
  <2> HIDE DEF t, seen
  <2>3. CASE Exists(t.dev) /\ t.dev = d
    <3>1. devs'[d] = new
      BY <1>1, <2>1, <2>3 DEF SetReachability, seen, IInv, TypeOK
    <3>2. new \in Row /\ [new EXCEPT !.reach = devs[d].reach, !.seen = devs[d].seen] = devs[d]
      BY <1>1, <2>2, <2>3 DEF Row
    <3> HIDE DEF new
    <3> QED
      BY <2>3, <3>1, <3>2, NoneAssumption DEF Survives
  <2>4. CASE ~Exists(t.dev) \/ t.dev # d
    <3>1. devs'[d] = devs[d]
      BY <2>1, <2>4 DEF SetReachability, IInv, TypeOK
    <3>2. Exists(d) => [devs[d] EXCEPT !.reach = devs[d].reach, !.seen = devs[d].seen] = devs[d]
      BY <1>1 DEF Row
    <3> QED
      BY <1>1, <3>1, <3>2 DEF Survives, Exists
  <2> QED
    BY <2>3, <2>4
<1> QED
  BY <1>2, <1>3, EndsOf

(* No test or wake takes back an edit or brings back a removed device.     *)
THEOREM WakeEditsSurvive == Spec => EditsSurvive
<1>1. IInv /\ [Next]_vars =>
        [\A r \in Requests, d \in Devices : req[r] # Idle /\ req'[r] = Idle =>
          /\ Exists(d) <=> devs'[d] # None
          /\ Exists(d) =>
                [devs'[d] EXCEPT !.reach = devs[d].reach, !.seen = devs[d].seen] = devs[d]]_vars
  BY EndsSpare DEF Survives
<1> QED
  BY <1>1, Inductive, PTL DEF Spec, EditsSurvive
=============================================================================
