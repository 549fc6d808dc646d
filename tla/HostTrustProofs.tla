-------------------------- MODULE HostTrustProofs --------------------------
(***************************************************************************)
(* HostTrust for any number of targets, hosts, devices and connections.    *)
(* Type correctness carries the foreign keys with it; on top of it the     *)
(* pins are inductive once it is known that a copy of connection details   *)
(* names an id that was given to a row: no id is given twice, so the row a *)
(* pinned copy was taken of is the one that still has a recorded key.      *)
(***************************************************************************)
EXTENDS HostTrust, TLAPS

Copies(c) == {conn[c].to, conn[c].jump} \ {None}

Named ==
    /\ \A t \in Targets : target[t] # None => t \in created
    /\ \A c \in Connections : Making(c) => \A info \in Copies(c) : info.target \in created

(* One step of a connection that is being made, by name.                   *)
Step(c) == MeetJump(c) \/ MeetTarget(c) \/ Ready(c) \/ AuthFails(c) \/ BreaksOff(c)
Edit(t) == DeleteTarget(t) \/ SetServerTarget(t) \/ \E h \in Hosts : CreateTarget(t, h) \/ UpdateTarget(t, h)

-----------------------------------------------------------------------------
(* A connection in the making is a Connection, and not Idle.               *)
LEMMA MakingType ==
    ASSUME TypeOK, NEW c \in Connections
    PROVE  Making(c) => conn[c] \in Connection
BY DEF TypeOK, Making

(* Recording a key, or nothing, leaves the rows rows, and no row without.  *)
LEMMA RecordedType ==
    ASSUME TypeOK, NEW t \in Targets \cup {None}, NEW key \in Keys \cup {None}
    PROVE  /\ Recorded(t, key) \in [Targets -> Row \cup {None}]
           /\ \A u \in Targets : (Recorded(t, key)[u] = None) <=> (target[u] = None)
           /\ \A u \in Targets : target[u] # None =>
                 /\ Recorded(t, key)[u].host = target[u].host
                 /\ Recorded(t, key)[u].known \in {target[u].known, key}
                 /\ Recorded(t, key)[u].known = None => target[u].known = None
BY NoneAssumption DEF TypeOK, Recorded, Exists, Row

(* Type correctness, step by step. *)
LEMMA BeginTyped ==
    ASSUME TypeOK, NEW c \in Connections, NEW d \in Devices \cup {None}, NEW t \in Targets \cup {None},
           NEW kind \in {"terminal", "sftp", "trust", "command"}, kind \in {"terminal", "sftp"} => d # None,
           NEW jump \in {None, JumpTo(t)}, Begin(c, kind, d, t, jump)
    PROVE  TypeOK'
<1>1. t \in Targets /\ target[t] \in Row
  BY DEF TypeOK, Begin, Exists
<1>2. InfoOf(t) \in Info
  BY <1>1 DEF InfoOf, Info, Row
<1>3. jump \in Info \cup {None}
  BY <1>1 DEF JumpTo, InfoOf, Info, Row, TypeOK
<1>4. conn' \in [Connections -> Connection \cup {Idle}]
  <2> DEFINE new == [kind |-> kind, device |-> d, to |-> InfoOf(t), jump |-> jump,
                     stage |-> IF jump = None THEN "target" ELSE "jump",
                     key |-> None, jumpKey |-> None]
  <2>1. new \in Connection
    BY <1>2, <1>3 DEF Connection
  <2>2. conn' = [conn EXCEPT ![c] = new]
    BY DEF Begin, Goto
  <2> QED
    BY <2>1, <2>2 DEF TypeOK
<1>5. events' \in 0 .. MaxEvents
  BY TunnelAssumption DEF TypeOK, Begin, Event
<1> QED
  BY <1>4, <1>5 DEF TypeOK, Begin, rowVars

LEMMA StepTyped ==
    ASSUME TypeOK, NEW c \in Connections, Step(c)
    PROVE  TypeOK'
<1>1. conn[c] \in Connection
  BY DEF Step, MeetJump, MeetTarget, Ready, AuthFails, BreaksOff, Making, TypeOK
<1>2. /\ conn[c].to.target \in Targets /\ conn[c].to.host \in Hosts
      /\ conn[c].key \in Keys \cup {None} /\ conn[c].jumpKey \in Keys \cup {None}
      /\ FirstUse(conn[c].to, conn[c].key) \in Keys \cup {None}
  BY <1>1 DEF Connection, Info, FirstUse
<1>3. ASSUME NEW new \in Connection \cup {Idle}, Goto(c, new)
      PROVE  conn' \in [Connections -> Connection \cup {Idle}]
  BY <1>3 DEF Goto, TypeOK
<1>4. CASE MeetJump(c)
  <2>1. presents[conn[c].jump.host] \in Keys
    BY <1>1, <1>4 DEF MeetJump, Connection, Info, TypeOK
  <2>2. [conn[c] EXCEPT !.stage = "target", !.jumpKey = presents[conn[c].jump.host]] \in Connection
    BY <1>1, <1>4, <2>1, NoneAssumption DEF MeetJump, Connection
  <2>3. conn' \in [Connections -> Connection \cup {Idle}]
    BY <1>3, <1>4, <2>2 DEF MeetJump
  <2> QED
    BY <1>4, <2>3 DEF MeetJump, TypeOK, rowVars
<1>5. CASE MeetTarget(c)
  <2>1. presents[conn[c].to.host] \in Keys
    BY <1>2, <1>5 DEF TypeOK
  <2>2. [conn[c] EXCEPT !.stage = "accepted", !.key = presents[conn[c].to.host]] \in Connection
    BY <1>1, <1>5, <2>1, NoneAssumption DEF MeetTarget, Connection
  <2>3. conn' \in [Connections -> Connection \cup {Idle}]
    BY <1>3, <1>5, <2>2 DEF MeetTarget
  <2>4. target' = target \/
        \E t \in Targets \cup {None}, key \in Keys \cup {None} : target' = Recorded(t, key)
    <3>1. CASE conn[c].kind = "terminal"
      <4>1. bound[conn[c].device] \in Targets \cup {None}
        BY <1>1, <3>1 DEF Connection, TypeOK
      <4>2. FirstUse(conn[c].to, presents[conn[c].to.host]) \in Keys \cup {None}
        BY <2>1 DEF FirstUse
      <4> QED
        BY <1>5, <3>1, <4>1, <4>2 DEF MeetTarget
    <3> QED
      BY <1>5, <3>1 DEF MeetTarget
  <2>5. /\ target' \in [Targets -> Row \cup {None}]
        /\ \A u \in Targets : (target'[u] = None) <=> (target[u] = None)
    <3>1. CASE target' = target
      BY <3>1 DEF TypeOK
    <3>2. ASSUME NEW t \in Targets \cup {None}, NEW key \in Keys \cup {None}, target' = Recorded(t, key)
          PROVE  /\ target' \in [Targets -> Row \cup {None}]
                 /\ \A u \in Targets : (target'[u] = None) <=> (target[u] = None)
      BY <3>2, RecordedType
    <3> QED
      BY <2>4, <3>1, <3>2
  <2> QED
    BY <1>5, <2>3, <2>5 DEF MeetTarget, TypeOK
<1>6. CASE Ready(c)
  <2>1. conn' \in [Connections -> Connection \cup {Idle}]
    BY <1>3, <1>6 DEF Ready
  <2>2. met' \in [Targets -> [host : Hosts, key : Keys] \cup {None}]
    BY <1>1, <1>2, <1>6 DEF Ready, TypeOK, Connection
  <2> DEFINE rows == Recorded(conn[c].to.target, FirstUse(conn[c].to, conn[c].key))
  <2>3. /\ rows \in [Targets -> Row \cup {None}]
        /\ \A u \in Targets : (rows[u] = None) <=> (target[u] = None)
    BY <1>2, RecordedType
  <2>4. CASE target' = rows \/ target' = target
    BY <1>6, <2>1, <2>2, <2>3, <2>4 DEF Ready, TypeOK
  <2>5. CASE /\ conn[c].jump # None /\ rows[conn[c].jump.target] # None
             /\ target' = [rows EXCEPT ![conn[c].jump.target].known = conn[c].jumpKey]
    <3>1. conn[c].jump.target \in Targets /\ rows[conn[c].jump.target] \in Row
      BY <1>1, <2>3, <2>5 DEF Connection, Info
    <3>2. [rows[conn[c].jump.target] EXCEPT !.known = conn[c].jumpKey] \in Row
      BY <1>2, <3>1 DEF Row
    <3>3. /\ target' \in [Targets -> Row \cup {None}]
          /\ \A u \in Targets : (target'[u] = None) <=> (target[u] = None)
      BY <2>3, <2>5, <3>1, <3>2, NoneAssumption DEF Row
    <3> QED
      BY <1>6, <2>1, <2>2, <3>3 DEF Ready, TypeOK
  <2> QED
    BY <1>6, <2>4, <2>5 DEF Ready
<1>7. CASE AuthFails(c)
  <2>1. conn' \in [Connections -> Connection \cup {Idle}]
    BY <1>3, <1>7 DEF AuthFails
  <2>2. target' = target \/ target' = Recorded(conn[c].to.target, FirstUse(conn[c].to, conn[c].key))
    BY <1>7 DEF AuthFails
  <2> QED
    BY <1>2, <1>7, <2>1, <2>2, RecordedType DEF AuthFails, TypeOK
<1>8. CASE BreaksOff(c)
  <2>1. conn' \in [Connections -> Connection \cup {Idle}]
    BY <1>3, <1>8 DEF BreaksOff
  <2> QED
    BY <1>8, <2>1 DEF BreaksOff, TypeOK, rowVars
<1> QED
  BY <1>4, <1>5, <1>6, <1>7, <1>8 DEF Step

LEMMA EditTyped ==
    ASSUME TypeOK, NEW t \in Targets, Edit(t)
    PROVE  TypeOK'
<1>1. events' \in 0 .. MaxEvents
  BY TunnelAssumption DEF Edit, DeleteTarget, SetServerTarget, CreateTarget, UpdateTarget, Event, TypeOK
<1>2. CASE DeleteTarget(t)
  <2>1. target' \in [Targets -> Row \cup {None}]
    BY <1>2 DEF DeleteTarget, TypeOK
  <2>2. bound' \in [Devices -> {u \in Targets : target'[u] # None} \cup {None}]
    BY <1>2 DEF DeleteTarget, TypeOK
  <2>3. serverTarget' \in {u \in Targets : target'[u] # None} \cup {None}
    BY <1>2 DEF DeleteTarget, TypeOK
  <2> QED
    BY <1>1, <1>2, <2>1, <2>2, <2>3 DEF DeleteTarget, TypeOK
<1>3. CASE SetServerTarget(t)
  BY <1>1, <1>3 DEF SetServerTarget, Exists, TypeOK
<1>4. ASSUME NEW h \in Hosts, CreateTarget(t, h) \/ UpdateTarget(t, h)
      PROVE  TypeOK'
  <2>1. /\ target' \in [Targets -> Row \cup {None}]
        /\ \A u \in Targets : target[u] # None => target'[u] # None
    BY <1>4, NoneAssumption DEF CreateTarget, UpdateTarget, Row, TypeOK
  <2>2. created' \subseteq Targets
    BY <1>4 DEF CreateTarget, UpdateTarget, TypeOK
  <2> QED
    BY <1>1, <1>4, <2>1, <2>2 DEF CreateTarget, UpdateTarget, TypeOK
<1> QED
  BY <1>2, <1>3, <1>4 DEF Edit

(* What else the next-state relation holds. *)
Other ==
    \/ \E d \in Devices, t \in Targets \cup {None} : Bind(d, t)
    \/ \E h \in Hosts, k \in Keys : HostKeyChanges(h, k)
    \/ Restart

LEMMA OtherTyped ==
    ASSUME TypeOK, Other
    PROVE  TypeOK'
<1>1. events' \in 0 .. MaxEvents
  BY TunnelAssumption DEF Other, Bind, HostKeyChanges, Restart, Event, TypeOK
<1>2. CASE \E d \in Devices, t \in Targets \cup {None} : Bind(d, t)
  BY <1>1, <1>2 DEF Bind, Exists, TypeOK
<1>3. CASE \E h \in Hosts, k \in Keys : HostKeyChanges(h, k)
  BY <1>1, <1>3 DEF HostKeyChanges, rowVars, TypeOK
<1>4. CASE Restart
  BY <1>1, <1>4 DEF Restart, rowVars, TypeOK
<1> QED
  BY <1>2, <1>3, <1>4 DEF Other

(* Beginning, in the three ways there are.                                 *)
Begins(c) == (\E d \in Devices : OpenSession(c, d)) \/ \E t \in Targets : Trust(c, t) \/ RunCommand(c, t)

LEMMA NextCases ==
    ASSUME [Next]_vars
    PROVE  \/ \E c \in Connections : Begins(c) \/ Step(c)
           \/ \E t \in Targets : Edit(t)
           \/ Other
           \/ UNCHANGED vars
BY DEF Next, Begins, Step, Edit, Other

LEMMA NextTyped ==
    ASSUME TypeOK, [Next]_vars
    PROVE  TypeOK'
<1>1. ASSUME NEW c \in Connections, Begins(c)
      PROVE  TypeOK'
  <2>1. ASSUME NEW d \in Devices, OpenSession(c, d)
        PROVE  TypeOK'
    <3>1. bound[d] \in Targets \cup {None}
      BY DEF TypeOK
    <3>2. PICK kind \in {"terminal", "sftp"} : Begin(c, kind, d, bound[d], JumpTo(bound[d]))
      BY <2>1 DEF OpenSession
    <3>3. d # None
      BY NoneAssumption
    <3> QED
      BY <3>1, <3>2, <3>3, BeginTyped
  <2>2. ASSUME NEW t \in Targets, Trust(c, t) \/ RunCommand(c, t)
        PROVE  TypeOK'
    BY <2>2, BeginTyped DEF Trust, RunCommand
  <2> QED
    BY <1>1, <2>1, <2>2 DEF Begins
<1>2. ASSUME UNCHANGED vars
      PROVE  TypeOK'
  BY <1>2 DEF vars, rowVars, TypeOK
<1> QED
  BY <1>1, <1>2, NextCases, StepTyped, EditTyped, OtherTyped

-----------------------------------------------------------------------------
(* The pins. *)
IInv == TypeOK /\ Named /\ PinnedHopsVerified /\ PinnedStaysPinned

Verified(c) ==
    /\ conn[c].stage = "accepted" => conn[c].to.known \in {None, conn[c].key}
    /\ conn[c].stage # "jump" /\ conn[c].jump # None => conn[c].jump.known \in {None, conn[c].jumpKey}

(* A step keeps the invariant if every connection after it is idle or has  *)
(* its hops verified and only copies it had, or fresh ones, and if it      *)
(* takes no recorded key away but with its row.                            *)
LEMMA PinsKept ==
    ASSUME IInv, TypeOK',
           created \subseteq created',
           \A c \in Connections : Making(c)' =>
              /\ Verified(c)'
              /\ \A info \in Copies(c)' : \/ Making(c) /\ info \in Copies(c)
                                          \/ Exists(info.target) /\ info = InfoOf(info.target),
           \A t \in Targets : target'[t] # None =>
              \/ target[t] # None /\ (target[t].known # None => target'[t].known # None)
              \/ t \notin created /\ t \in created'
    PROVE  IInv'
<1>1. ASSUME NEW c \in Connections, Making(c)', NEW info \in Copies(c)'
      PROVE  info \in Info
  <2>1. conn'[c] \in Connection
    BY <1>1 DEF TypeOK, Making
  <2> QED
    BY <1>1, <2>1 DEF Copies, Connection
<1>2. Named'
  <2>1. \A t \in Targets : (target[t] # None => t \in created)
    BY DEF IInv, Named
  <2>2. ASSUME NEW c \in Connections, Making(c)', NEW info \in Copies(c)'
        PROVE  info.target \in created'
    <3>1. CASE Making(c) /\ info \in Copies(c)
      BY <3>1 DEF IInv, Named
    <3>2. CASE Exists(info.target)
      BY <1>1, <2>1, <2>2, <3>2 DEF Exists, Info
    <3> QED
      BY <2>2, <3>1, <3>2
  <2> QED
    BY <2>1, <2>2 DEF Named
<1>3. PinnedHopsVerified'
  BY DEF PinnedHopsVerified, Verified
<1>4. PinnedStaysPinned'
  <2> SUFFICES ASSUME NEW c \in Connections, Making(c)',
                      NEW info \in Copies(c)', info.known # None, Exists(info.target)'
               PROVE  target'[info.target].known # None
    BY DEF PinnedStaysPinned, Copies
  <2>1. info.target \in Targets /\ target'[info.target] # None
    BY <1>1 DEF Info, Exists
  <2>2. CASE Making(c) /\ info \in Copies(c)
    <3>1. info.target \in created
      BY <2>2 DEF IInv, Named
    <3>2. target[info.target] # None => target[info.target].known # None
      BY <2>1, <2>2 DEF IInv, PinnedStaysPinned, Copies, Exists
    <3> QED
      BY <2>1, <3>1, <3>2
  <2>3. CASE Exists(info.target) /\ info = InfoOf(info.target)
    <3>1. target[info.target].known # None /\ info.target \in created
      BY <2>1, <2>3 DEF InfoOf, Exists, IInv, Named
    <3> QED
      BY <2>1, <3>1
  <2> QED
    BY <2>2, <2>3
<1> QED
  BY <1>2, <1>3, <1>4 DEF IInv

(* Recording during a connection keeps every row and every recorded key.   *)
LEMMA StepKeepsKeys ==
    ASSUME IInv, NEW c \in Connections, Step(c)
    PROVE  /\ created' = created
           /\ \A t \in Targets : target'[t] # None =>
                 target[t] # None /\ (target[t].known # None => target'[t].known # None)
<1> USE DEF IInv
<1>1. conn[c] \in Connection
  BY DEF Step, MeetJump, MeetTarget, Ready, AuthFails, BreaksOff, Making, TypeOK
<1>2. CASE MeetJump(c) \/ BreaksOff(c)
  BY <1>2 DEF MeetJump, BreaksOff, rowVars
<1>3. ASSUME NEW t \in Targets \cup {None}, NEW key \in Keys \cup {None}, NEW u \in Targets,
             Recorded(t, key)[u] # None
      PROVE  target[u] # None /\ (target[u].known # None => Recorded(t, key)[u].known # None)
  BY <1>3, RecordedType
<1>4. \A key : key \in Keys => FirstUse(conn[c].to, key) \in Keys \cup {None}
  BY DEF FirstUse
<1>5. CASE MeetTarget(c)
  <2>1. presents[conn[c].to.host] \in Keys
    BY <1>1 DEF Connection, Info, TypeOK
  <2>2. CASE target' = target
    BY <1>5, <2>2 DEF MeetTarget
  <2>3. CASE target' # target
    <3>1. /\ conn[c].kind = "terminal"
          /\ target' = Recorded(bound[conn[c].device], FirstUse(conn[c].to, presents[conn[c].to.host]))
      BY <1>5, <2>3 DEF MeetTarget
    <3>2. bound[conn[c].device] \in Targets \cup {None}
      BY <1>1, <3>1 DEF Connection, TypeOK
    <3> QED
      BY <1>3, <1>4, <1>5, <2>1, <3>1, <3>2 DEF MeetTarget
  <2> QED
    BY <2>2, <2>3
<1>6. CASE Ready(c) \/ AuthFails(c)
  <2>1. /\ conn[c].key \in Keys /\ conn[c].to.target \in Targets
        /\ FirstUse(conn[c].to, conn[c].key) \in Keys \cup {None}
    BY <1>1, <1>4, <1>6 DEF Ready, AuthFails, Connection, Info
  <2> DEFINE rows == Recorded(conn[c].to.target, FirstUse(conn[c].to, conn[c].key))
  <2>2. rows \in [Targets -> Row \cup {None}]
    BY <2>1, RecordedType
  <2>3. CASE target' \in {rows, target}
    BY <1>3, <1>6, <2>1, <2>3 DEF Ready, AuthFails
  <2>4. CASE /\ conn[c].jump # None /\ rows[conn[c].jump.target] # None
             /\ target' = [rows EXCEPT ![conn[c].jump.target].known = conn[c].jumpKey]
    <3>1. conn[c].jump.target \in Targets /\ conn[c].jumpKey # None
      BY <1>1, <1>6, <2>4 DEF Ready, AuthFails, Connection, Info
    <3>2. rows[conn[c].jump.target] \in Row
      BY <2>2, <2>4, <3>1
    <3>3. [rows[conn[c].jump.target] EXCEPT !.known = conn[c].jumpKey].known # None
      BY <3>1, <3>2 DEF Row
    <3>4. target'[conn[c].jump.target].known # None
      BY <2>2, <2>4, <3>1, <3>3
    <3>5. \A u \in Targets : u # conn[c].jump.target => target'[u] = rows[u]
      BY <2>2, <2>4, <3>1
    <3>6. created' = created
      BY <1>6 DEF Ready, AuthFails
    <3>7. \A u \in Targets : rows[u] # None =>
             target[u] # None /\ (target[u].known # None => rows[u].known # None)
      BY <1>3, <2>1
    <3> QED
      BY <2>4, <3>1, <3>4, <3>5, <3>6, <3>7
  <2> QED
    BY <1>6, <2>3, <2>4 DEF Ready, AuthFails
<1> QED
  BY <1>2, <1>5, <1>6 DEF Step

(* A connection begins with fresh copies and has met nobody.               *)
LEMMA BeginKeepsPins ==
    ASSUME IInv, TypeOK', NEW c \in Connections, NEW d \in Devices \cup {None}, NEW t \in Targets \cup {None},
           NEW kind, NEW jump \in {None, JumpTo(t)}, Begin(c, kind, d, t, jump)
    PROVE  IInv'
<1> DEFINE new == [kind |-> kind, device |-> d, to |-> InfoOf(t), jump |-> jump,
                   stage |-> IF jump = None THEN "target" ELSE "jump",
                   key |-> None, jumpKey |-> None]
<1>1. conn' = [conn EXCEPT ![c] = new] /\ UNCHANGED <<target, created>>
  BY DEF Begin, Goto, rowVars
<1>2. conn \in [Connections -> Connection \cup {Idle}]
  BY DEF IInv, TypeOK
<1>3. conn'[c] = new /\ \A x \in Connections : x # c => conn'[x] = conn[x]
  BY <1>1, <1>2
<1>4. Exists(t) /\ InfoOf(t).target = t
  BY DEF Begin, InfoOf
<1>5. jump # None => Exists(serverTarget) /\ jump = InfoOf(serverTarget) /\ jump.target = serverTarget
  BY DEF JumpTo, InfoOf, Exists, IInv, TypeOK
<1>6. ASSUME NEW x \in Connections, Making(x)'
      PROVE  /\ Verified(x)'
             /\ \A info \in Copies(x)' : \/ Making(x) /\ info \in Copies(x)
                                         \/ Exists(info.target) /\ info = InfoOf(info.target)
  <2>1. CASE x = c
    <3>1. Verified(x)'
      BY <1>3, <2>1 DEF Verified
    <3>2. \A info \in Copies(x)' : info = InfoOf(t) \/ (info = jump /\ jump # None)
      BY <1>3, <2>1 DEF Copies
    <3> QED
      BY <1>4, <1>5, <3>1, <3>2
  <2>2. CASE x # c
    <3>1. conn'[x] = conn[x]
      BY <1>3, <2>2
    <3>2. Making(x)
      BY <1>6, <3>1 DEF Making
    <3>3. Verified(x)
      BY <3>2 DEF IInv, PinnedHopsVerified, Verified
    <3> QED
      BY <3>1, <3>2, <3>3 DEF Verified, Copies
  <2> QED
    BY <2>1, <2>2
<1> QED
  BY <1>1, <1>6, PinsKept

(* The copies a connection has are the ones it began with, and it gets on  *)
(* only past a host that presented the key it copied, if it copied one.    *)
LEMMA StepKeepsPins ==
    ASSUME IInv, TypeOK', NEW c \in Connections, Step(c)
    PROVE  IInv'
<1>1. conn \in [Connections -> Connection \cup {Idle}]
  BY DEF IInv, TypeOK
<1>2. Making(c)
  BY DEF Step, MeetJump, MeetTarget, Ready, AuthFails, BreaksOff
<1>3. conn[c] \in Connection
  BY <1>1, <1>2 DEF Making
<1>4. Verified(c)
  BY <1>2 DEF IInv, PinnedHopsVerified, Verified
<1>5. \A x \in Connections : x # c => conn'[x] = conn[x]
  BY <1>1 DEF Step, MeetJump, MeetTarget, Ready, AuthFails, BreaksOff, Goto
<1>6. conn'[c] = Idle \/ (Verified(c)' /\ Copies(c)' = Copies(c))
  <2>1. CASE MeetJump(c)
    <3> DEFINE key == presents[conn[c].jump.host]
    <3>1. CASE Accepts(conn[c].jump.known, key)
      <4>1. conn'[c] = [conn[c] EXCEPT !.stage = "target", !.jumpKey = key]
        BY <1>1, <2>1, <3>1 DEF MeetJump, Goto
      <4>2. /\ conn'[c].to = conn[c].to /\ conn'[c].jump = conn[c].jump
            /\ conn'[c].stage = "target" /\ conn'[c].jumpKey = key
        BY <1>3, <4>1 DEF Connection
      <4> QED
        BY <3>1, <4>2 DEF Accepts, Verified, Copies
    <3>2. CASE ~Accepts(conn[c].jump.known, key)
      BY <1>1, <2>1, <3>2 DEF MeetJump, Goto
    <3> QED
      BY <3>1, <3>2
  <2>2. CASE MeetTarget(c)
    <3> DEFINE key == presents[conn[c].to.host]
    <3>1. CASE Accepts(conn[c].to.known, key)
      <4>1. conn'[c] = [conn[c] EXCEPT !.stage = "accepted", !.key = key]
        BY <1>1, <2>2, <3>1 DEF MeetTarget, Goto
      <4>2. /\ conn'[c].to = conn[c].to /\ conn'[c].jump = conn[c].jump
            /\ conn'[c].jumpKey = conn[c].jumpKey /\ conn'[c].key = key
        BY <1>3, <4>1 DEF Connection
      <4>3. conn[c].stage # "jump"
        BY <2>2 DEF MeetTarget
      <4> QED
        BY <1>4, <3>1, <4>2, <4>3 DEF Accepts, Verified, Copies
    <3>2. CASE ~Accepts(conn[c].to.known, key)
      BY <1>1, <2>2, <3>2 DEF MeetTarget, Goto
    <3> QED
      BY <3>1, <3>2
  <2>3. CASE Ready(c) \/ AuthFails(c) \/ BreaksOff(c)
    BY <1>1, <2>3 DEF Ready, AuthFails, BreaksOff, Goto
  <2> QED
    BY <2>1, <2>2, <2>3 DEF Step
<1>7. ASSUME NEW x \in Connections, Making(x)'
      PROVE  Verified(x)' /\ Making(x) /\ Copies(x)' = Copies(x)
  <2>1. CASE x = c
    BY <1>2, <1>6, <1>7, <2>1 DEF Making
  <2>2. CASE x # c
    <3>1. conn'[x] = conn[x]
      BY <1>5, <2>2
    <3>2. Making(x)
      BY <1>7, <3>1 DEF Making
    <3>3. Verified(x)
      BY <3>2 DEF IInv, PinnedHopsVerified, Verified
    <3> QED
      BY <3>1, <3>2, <3>3 DEF Verified, Copies
  <2> QED
    BY <2>1, <2>2
<1> QED
  BY <1>7, StepKeepsKeys, PinsKept

(* Everything else leaves the connections alone, or breaks them off.       *)
LEMMA RestKeepsPins ==
    ASSUME IInv, TypeOK', (\E t \in Targets : Edit(t)) \/ Other \/ UNCHANGED vars
    PROVE  IInv'
<1>1. ASSUME NEW x \in Connections, Making(x)'
      PROVE  Verified(x)' /\ Making(x) /\ Copies(x)' = Copies(x)
  <2>1. conn' = conn \/ conn' = [c \in Connections |-> Idle]
    BY DEF Edit, DeleteTarget, SetServerTarget, CreateTarget, UpdateTarget, Other, Bind, HostKeyChanges,
           Restart, vars
  <2>2. conn' = conn
    BY <1>1, <2>1 DEF Making
  <2>3. Making(x)
    BY <1>1, <2>2 DEF Making
  <2> QED
    BY <2>2, <2>3 DEF IInv, PinnedHopsVerified, Verified, Copies
<1>2. created \subseteq created'
  BY DEF Edit, DeleteTarget, SetServerTarget, CreateTarget, UpdateTarget, Other, Bind, HostKeyChanges,
         Restart, rowVars, vars
<1>3. ASSUME NEW u \in Targets, target'[u] # None
      PROVE  \/ target[u] # None /\ (target[u].known # None => target'[u].known # None)
             \/ u \notin created /\ u \in created'
  <2>1. target \in [Targets -> Row \cup {None}]
    BY DEF IInv, TypeOK
  <2>2. CASE target' = target
    BY <1>3, <2>2
  <2>3. ASSUME NEW t \in Targets, DeleteTarget(t)
        PROVE  target[u] # None /\ (target[u].known # None => target'[u].known # None)
    BY <1>3, <2>1, <2>3 DEF DeleteTarget
  <2>4. ASSUME NEW t \in Targets, NEW h \in Hosts, CreateTarget(t, h)
        PROVE  \/ target[u] # None /\ (target[u].known # None => target'[u].known # None)
               \/ u \notin created /\ u \in created'
    BY <1>3, <2>1, <2>4 DEF CreateTarget
  <2>5. ASSUME NEW t \in Targets, NEW h \in Hosts, UpdateTarget(t, h)
        PROVE  target[u] # None /\ (target[u].known # None => target'[u].known # None)
    BY <1>3, <2>1, <2>5 DEF UpdateTarget, Row
  <2>6. target' = target \/ \E t \in Targets : DeleteTarget(t) \/ \E h \in Hosts : CreateTarget(t, h) \/ UpdateTarget(t, h)
    BY DEF Edit, SetServerTarget, Other, Bind, HostKeyChanges, Restart, rowVars, vars
  <2> QED
    BY <2>2, <2>3, <2>4, <2>5, <2>6
<1> QED
  BY <1>1, <1>2, <1>3, PinsKept

LEMMA NextKeepsPins ==
    ASSUME IInv, [Next]_vars
    PROVE  IInv'
<1>1. TypeOK'
  BY NextTyped DEF IInv
<1>2. ASSUME NEW c \in Connections, Begins(c)
      PROVE  IInv'
  <2>1. ASSUME NEW d \in Devices, OpenSession(c, d)
        PROVE  IInv'
    <3>1. bound[d] \in Targets \cup {None}
      BY DEF IInv, TypeOK
    <3>2. PICK kind \in {"terminal", "sftp"} : Begin(c, kind, d, bound[d], JumpTo(bound[d]))
      BY <2>1 DEF OpenSession
    <3> QED
      BY <1>1, <3>1, <3>2, BeginKeepsPins
  <2>2. ASSUME NEW t \in Targets, Trust(c, t) \/ RunCommand(c, t)
        PROVE  IInv'
    BY <1>1, <2>2, BeginKeepsPins DEF Trust, RunCommand
  <2> QED
    BY <1>2, <2>1, <2>2 DEF Begins
<1> QED
  BY <1>1, <1>2, NextCases, StepKeepsPins, RestKeepsPins

-----------------------------------------------------------------------------
(* TypeOK and the pins hold at the start and are kept by every step.       *)
LEMMA Inductive == Spec => []IInv
<1>1. Init => IInv
  BY TunnelAssumption DEF Init, IInv, TypeOK, Named, PinnedHopsVerified, PinnedStaysPinned, Making
<1>2. IInv /\ [Next]_vars => IInv'
  BY NextKeepsPins
<1> QED
  BY <1>1, <1>2, PTL DEF Spec

(* Rows, bindings and connections are well formed in every state: no       *)
(* device and no server is bound to a target that is gone (migrations 0002 *)
(* and 0003), and a connection's stage says what it has met.               *)
THEOREM HostTrustTyped == Spec => []TypeOK
<1>1. IInv => TypeOK
  BY DEF IInv
<1> QED
  BY <1>1, Inductive, PTL

(* No connection resolved while keys are recorded gets past a host, the    *)
(* jump host or the target, that presented another key (evaluateHostKey).  *)
THEOREM HopsVerified == Spec => []PinnedHopsVerified
<1>1. IInv => PinnedHopsVerified
  BY DEF IInv
<1> QED
  BY <1>1, Inductive, PTL

(* While a pinned connection is made, its target stays pinned or is gone,  *)
(* whatever operators edit and other connections record (ssh-targets.ts).  *)
THEOREM StaysPinned == Spec => []PinnedStaysPinned
<1>1. IInv => PinnedStaysPinned
  BY DEF IInv
<1> QED
  BY <1>1, Inductive, PTL

-----------------------------------------------------------------------------
(* What a step does to the recorded key of t, in the words of              *)
(* PinReplacedByFirstUseOnly.                                              *)
FirstUseBy(c, t) ==
    /\ Making(c) /\ conn'[c] # conn[c]
    /\ \/ conn[c].to.known = None
          /\ target'[t].known \in {conn[c].key, presents[conn[c].to.host]}
       \/ /\ conn[c].jump # None /\ conn[c].jump.known = None
          /\ conn[c].jump.target = t /\ target'[t].known = conn[c].jumpKey

PinOrFirstUse(t) ==
    Exists(t) /\ target[t].known # None /\ target'[t] # None =>
       \/ target'[t].known \in {None, target[t].known}
       \/ \E c \in Connections : FirstUseBy(c, t)

LEMMA StepReplaces ==
    ASSUME TypeOK, NEW c \in Connections, Step(c), NEW t \in Targets
    PROVE  PinOrFirstUse(t)
<1> SUFFICES ASSUME Exists(t), target'[t] # None, target'[t].known \notin {None, target[t].known}
             PROVE  FirstUseBy(c, t)
  BY DEF PinOrFirstUse
<1>1. conn \in [Connections -> Connection \cup {Idle}] /\ Making(c)
  BY DEF TypeOK, Step, MeetJump, MeetTarget, Ready, AuthFails, BreaksOff
<1>2. conn[c] \in Connection
  BY <1>1 DEF Making
<1>3. ASSUME NEW b \in Targets \cup {None}, NEW key \in Keys, target'[t].known = Recorded(b, FirstUse(conn[c].to, key))[t].known
      PROVE  conn[c].to.known = None /\ target'[t].known = key
  <2>1. FirstUse(conn[c].to, key) \in Keys \cup {None}
    BY DEF FirstUse
  <2>2. target'[t].known \in {target[t].known, FirstUse(conn[c].to, key)}
    BY <1>3, <2>1, RecordedType DEF Exists
  <2> QED
    BY <2>2 DEF FirstUse
<1>4. ~MeetJump(c) /\ ~BreaksOff(c)
  BY DEF MeetJump, BreaksOff, rowVars
<1>5. CASE MeetTarget(c)
  <2> DEFINE key == presents[conn[c].to.host]
  <2>1. key \in Keys
    BY <1>2 DEF Connection, Info, TypeOK
  <2>2. /\ conn[c].kind = "terminal" /\ conn[c].stage = "target"
        /\ target' = Recorded(bound[conn[c].device], FirstUse(conn[c].to, key))
        /\ conn'[c] = [conn[c] EXCEPT !.stage = "accepted", !.key = key]
    BY <1>1, <1>5 DEF MeetTarget, Goto
  <2>3. bound[conn[c].device] \in Targets \cup {None}
    BY <1>2, <2>2 DEF Connection, TypeOK
  <2>4. conn[c].to.known = None /\ target'[t].known = key
    BY <1>3, <2>1, <2>2, <2>3
  <2>5. conn'[c].stage = "accepted"
    BY <1>2, <2>2 DEF Connection
  <2> QED
    BY <1>1, <2>2, <2>4, <2>5 DEF FirstUseBy
<1>6. CASE Ready(c) \/ AuthFails(c)
  <2>1. conn'[c] = Idle /\ conn[c].kind = "trust"
    BY <1>1, <1>6 DEF Ready, AuthFails, Goto
  <2>2. conn[c].key \in Keys /\ conn[c].to.target \in Targets
    BY <1>2, <1>6 DEF Ready, AuthFails, Connection, Info
  <2>3. conn'[c] # conn[c]
    BY <1>1, <2>1 DEF Making
  <2> DEFINE rows == Recorded(conn[c].to.target, FirstUse(conn[c].to, conn[c].key))
  <2>4. rows \in [Targets -> Row \cup {None}]
    BY <2>2, RecordedType DEF FirstUse
  <2>5. CASE target'[t].known = rows[t].known
    BY <1>1, <1>3, <2>2, <2>3, <2>5 DEF FirstUseBy
  <2>6. CASE target'[t].known # rows[t].known
    <3>1. /\ conn[c].jump # None /\ rows[conn[c].jump.target] # None /\ conn[c].jump.known = None
          /\ target' = [rows EXCEPT ![conn[c].jump.target].known = conn[c].jumpKey]
      BY <1>6, <2>1, <2>6 DEF Ready, AuthFails
    <3>2. t = conn[c].jump.target
      BY <2>4, <2>6, <3>1
    <3>3. rows[t] \in Row
      BY <2>4, <3>1, <3>2
    <3>4. target'[t] = [rows[t] EXCEPT !.known = conn[c].jumpKey]
      BY <2>4, <3>1, <3>2
    <3>5. target'[t].known = conn[c].jumpKey
      BY <3>3, <3>4 DEF Row
    <3> QED
      BY <1>1, <2>3, <3>1, <3>2, <3>5 DEF FirstUseBy
  <2> QED
    BY <2>5, <2>6
<1> QED
  BY <1>4, <1>5, <1>6 DEF Step

LEMMA NextReplaces ==
    ASSUME IInv, [Next]_vars, NEW t \in Targets
    PROVE  PinOrFirstUse(t)
<1>1. target \in [Targets -> Row \cup {None}]
  BY DEF IInv, TypeOK
<1>2. CASE target' = target
  BY <1>2 DEF PinOrFirstUse
<1>3. ASSUME NEW c \in Connections, Begins(c)
      PROVE  target' = target
  BY <1>3 DEF Begins, OpenSession, Trust, RunCommand, Begin, rowVars
<1>4. CASE Other \/ UNCHANGED vars
  <2>1. target' = target
    BY <1>4 DEF Other, Bind, HostKeyChanges, Restart, rowVars, vars
  <2> QED
    BY <1>2, <2>1
<1>5. ASSUME NEW u \in Targets, Edit(u)
      PROVE  PinOrFirstUse(t)
  <2>1. CASE DeleteTarget(u) \/ SetServerTarget(u)
    BY <1>1, <2>1 DEF DeleteTarget, SetServerTarget, PinOrFirstUse
  <2>2. ASSUME NEW h \in Hosts, CreateTarget(u, h)
        PROVE  PinOrFirstUse(t)
    BY <1>1, <2>2, NoneAssumption DEF CreateTarget, PinOrFirstUse
  <2>3. ASSUME NEW h \in Hosts, UpdateTarget(u, h)
        PROVE  PinOrFirstUse(t)
    BY <1>1, <2>3 DEF UpdateTarget, PinOrFirstUse, Row
  <2> QED
    BY <1>5, <2>1, <2>2, <2>3 DEF Edit
<1>6. ASSUME NEW c \in Connections, Step(c)
      PROVE  PinOrFirstUse(t)
  BY <1>6, StepReplaces DEF IInv
<1> QED
  BY <1>2, <1>3, <1>4, <1>5, <1>6, NextCases

(* A recorded key gives way only to a key met by a connection that was     *)
(* resolved when none was recorded (recordHostKey's three callers).        *)
THEOREM OnlyFirstUseReplaces == Spec => PinReplacedByFirstUseOnly
<1>1. IInv /\ [Next]_vars => [\A t \in Targets : PinOrFirstUse(t)]_vars
  BY NextReplaces
<1>2. (\A t \in Targets : PinOrFirstUse(t)) =>
      \A t \in Targets : Exists(t) /\ target[t].known # None /\ target'[t] # None =>
          \/ target'[t].known \in {None, target[t].known}
          \/ \E c \in Connections : Making(c) /\ conn'[c] # conn[c] /\
                \/ conn[c].to.known = None
                   /\ target'[t].known \in {conn[c].key, presents[conn[c].to.host]}
                \/ /\ conn[c].jump # None /\ conn[c].jump.known = None
                   /\ conn[c].jump.target = t /\ target'[t].known = conn[c].jumpKey
  BY DEF PinOrFirstUse, FirstUseBy
<1> QED
  BY <1>1, <1>2, Inductive, PTL DEF Spec, PinReplacedByFirstUseOnly
=============================================================================
