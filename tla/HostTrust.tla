----------------------------- MODULE HostTrust -----------------------------
(***************************************************************************)
(* Which host key the program accepts from whom: SSH targets and the key   *)
(* recorded for each, the devices and the server bound to them, and every  *)
(* SSH connection from the moment its details are resolved until it is     *)
(* ready (remote/connection.ts, remote/runner.ts, remote/host-keys.ts,     *)
(* store/ssh-targets.ts, http/routes/ssh-targets.ts, http/app.ts).         *)
(*                                                                         *)
(* The details, the recorded keys included, are a copy: an operator's      *)
(* edits and other connections' recordings do not reach a connection that  *)
(* is being made.  One remote server is modelled; its tunnel network is    *)
(* Tunnel, and a host there is reached through the server's own target.    *)
(***************************************************************************)
EXTENDS Naturals
\* Definitions named Mut... are deliberate bugs, each tried in place of the
\* definition it precedes to see that a property notices; nothing else uses them.

CONSTANTS
    Targets,       \* ids of ssh_target rows
    Devices,
    Hosts,
    Tunnel,        \* the hosts in the server's address range
    Keys,          \* host-key fingerprints
    Connections,   \* connections that may be in the making at the same time
    MaxEvents,     \* bound: connections begun, edits and changes of host keys over a run
    None

ASSUME TunnelAssumption == Tunnel \subseteq Hosts /\ MaxEvents \in Nat
ASSUME NoneAssumption   ==
    /\ None \notin Keys \cup Targets \cup Devices
    /\ None \notin [host : Hosts, known : Keys \cup {None}]
    /\ None \notin [target : Targets, host : Hosts, known : Keys \cup {None}]

VARIABLES
    target,        \* the ssh_target rows: host and known_host_key
    created,       \* the ids given to rows so far (no id is given twice)
    bound,         \* device.ssh_target_id
    serverTarget,  \* wireguard_server.ssh_target_id
    presents,      \* the key each host presents now
    conn,          \* what each connection is doing
    met,           \* history: host and key of the last session opened to each target
    events         \* how many events there were (only bounds the model)

rowVars == <<target, created, bound, serverTarget>>
vars    == <<rowVars, presents, conn, met, events>>

Row  == [host : Hosts, known : Keys \cup {None}]
Info == [target : Targets, host : Hosts, known : Keys \cup {None}]
Idle == [kind |-> "idle"]

\* key, jumpKey: what the host and the jump host presented, once they did.
Connection ==
    {m \in [kind : {"terminal", "sftp", "trust", "command"}, device : Devices \cup {None},
            to : Info, jump : Info \cup {None}, stage : {"jump", "target", "accepted"},
            key : Keys \cup {None}, jumpKey : Keys \cup {None}] :
        /\ m.kind \in {"terminal", "sftp"} => m.device # None
        /\ m.stage = "jump" => m.jump # None
        /\ m.stage # "jump" /\ m.jump # None => m.jumpKey # None
        /\ m.stage = "accepted" => m.key # None}

Exists(t) == t # None /\ target[t] # None
Making(c) == conn[c] # Idle
Event     == events < MaxEvents /\ events' = events + 1
Goto(c, what) == conn' = [conn EXCEPT ![c] = what]

Init ==
    /\ target = [t \in Targets |-> None]
    /\ created = {}
    /\ bound = [d \in Devices |-> None]
    /\ serverTarget = None
    /\ presents \in [Hosts -> Keys]
    /\ conn = [c \in Connections |-> Idle]
    /\ met = [t \in Targets |-> None]
    /\ events = 0

-----------------------------------------------------------------------------
(* Resolving.  A jump goes through the server's target, never through the  *)
(* target itself, and only for hosts on the tunnel network.                *)
InfoOf(t) == [target |-> t, host |-> target[t].host, known |-> target[t].known]
JumpTo(t) ==
    IF serverTarget \notin {None, t} /\ target[t].host \in Tunnel THEN InfoOf(serverTarget) ELSE None

Begin(c, kind, device, t, jump) ==
    /\ conn[c] = Idle /\ Exists(t) /\ Event
    /\ Goto(c, [kind |-> kind, device |-> device, to |-> InfoOf(t), jump |-> jump,
                stage |-> IF jump = None THEN "target" ELSE "jump", key |-> None, jumpKey |-> None])
    /\ UNCHANGED <<rowVars, presents, met>>

OpenSession(c, d) ==
    \E kind \in {"terminal", "sftp"} : Begin(c, kind, d, bound[d], JumpTo(bound[d]))

Trust(c, t) == Begin(c, "trust", None, t, JumpTo(t))

\* Applying to and asking a server, probing, waking: straight to the target.
RunCommand(c, t) == Begin(c, "command", None, t, None)

-----------------------------------------------------------------------------
(* evaluateHostKey: no recorded key accepts any, another one accepts none. *)
MutAcceptsChanged(known, key) == TRUE
Accepts(known, key) == known \in {None, key}

MutTakesAny(info, key) == key
FirstUse(info, key) == IF info.known = None THEN key ELSE None

Recorded(t, key) ==
    IF Exists(t) /\ key # None THEN [target EXCEPT ![t].known = key] ELSE target

MeetJump(c) ==
    /\ Making(c) /\ conn[c].stage = "jump"
    /\ LET key == presents[conn[c].jump.host]
       IN  IF Accepts(conn[c].jump.known, key)
           THEN Goto(c, [conn[c] EXCEPT !.stage = "target", !.jumpKey = key])
           ELSE Goto(c, Idle)
    /\ UNCHANGED <<rowVars, presents, met, events>>

(* A terminal records a first use at once, for the target its device has   *)
(* by now.                                                                 *)
MeetTarget(c) ==
    /\ Making(c) /\ conn[c].stage = "target"
    /\ LET key == presents[conn[c].to.host]
       IN  IF Accepts(conn[c].to.known, key)
           THEN /\ Goto(c, [conn[c] EXCEPT !.stage = "accepted", !.key = key])
                /\ target' = IF conn[c].kind = "terminal"
                             THEN Recorded(bound[conn[c].device], FirstUse(conn[c].to, key))
                             ELSE target
           ELSE Goto(c, Idle) /\ UNCHANGED target
    /\ UNCHANGED <<created, bound, serverTarget, presents, met, events>>

(* Authenticated.  A trust probe records what it met, of both hosts, and   *)
(* hangs up; anything else is in session (RemoteSession goes on there).    *)
Ready(c) ==
    /\ Making(c) /\ conn[c].stage = "accepted"
    /\ IF conn[c].kind = "trust"
       THEN LET rows == Recorded(conn[c].to.target, FirstUse(conn[c].to, conn[c].key))
                jump == conn[c].jump
            IN  /\ target' = IF jump # None /\ rows[jump.target] # None /\ jump.known = None
                             THEN [rows EXCEPT ![jump.target].known = conn[c].jumpKey]
                             ELSE rows
                /\ UNCHANGED met
       ELSE /\ met' = IF conn[c].kind = "command" THEN met
                      ELSE [met EXCEPT ![conn[c].to.target] =
                              [host |-> conn[c].to.host, key |-> conn[c].key]]
            /\ UNCHANGED target
    /\ Goto(c, Idle)
    /\ UNCHANGED <<created, bound, serverTarget, presents, events>>

(* Not authenticated: a trust probe still records the target's key.        *)
AuthFails(c) ==
    /\ Making(c) /\ conn[c].stage = "accepted"
    /\ target' = IF conn[c].kind = "trust"
                 THEN Recorded(conn[c].to.target, FirstUse(conn[c].to, conn[c].key))
                 ELSE target
    /\ Goto(c, Idle)
    /\ UNCHANGED <<created, bound, serverTarget, presents, met, events>>

(* No route, a timeout, a refusal by either host.                          *)
BreaksOff(c) ==
    /\ Making(c) /\ Goto(c, Idle)
    /\ UNCHANGED <<rowVars, presents, met, events>>

-----------------------------------------------------------------------------
(* The operator's edits. *)
CreateTarget(t, h) ==
    /\ t \notin created /\ Event
    /\ created' = created \cup {t}
    /\ target' = [target EXCEPT ![t] = [host |-> h, known |-> None]]
    /\ UNCHANGED <<bound, serverTarget, presents, conn, met>>

\* An edit of the address keeps the recorded key.
MutForgetsKey(t, h) ==
    /\ target[t] # None /\ Event
    /\ target' = [target EXCEPT ![t] = [host |-> h, known |-> None]]
    /\ UNCHANGED <<created, bound, serverTarget, presents, conn, met>>
UpdateTarget(t, h) ==
    /\ target[t] # None /\ Event
    /\ target' = [target EXCEPT ![t].host = h]
    /\ UNCHANGED <<created, bound, serverTarget, presents, conn, met>>

\* ON DELETE SET NULL
MutLeavesBound(t) ==
    /\ target[t] # None /\ Event
    /\ target' = [target EXCEPT ![t] = None]
    /\ UNCHANGED <<created, bound, serverTarget, presents, conn, met>>
DeleteTarget(t) ==
    /\ target[t] # None /\ Event
    /\ target' = [target EXCEPT ![t] = None]
    /\ bound' = [d \in Devices |-> IF bound[d] = t THEN None ELSE bound[d]]
    /\ serverTarget' = IF serverTarget = t THEN None ELSE serverTarget
    /\ UNCHANGED <<created, presents, conn, met>>

\* Editing a device, or removing it, which unbinds it too.
Bind(d, t) ==
    /\ t = None \/ Exists(t)
    /\ t # bound[d] /\ Event
    /\ bound' = [bound EXCEPT ![d] = t]
    /\ UNCHANGED <<target, created, serverTarget, presents, conn, met>>

SetServerTarget(t) ==
    /\ Exists(t) /\ t # serverTarget /\ Event
    /\ serverTarget' = t
    /\ UNCHANGED <<target, created, bound, presents, conn, met>>

Restart ==
    /\ Event /\ conn' = [c \in Connections |-> Idle]
    /\ UNCHANGED <<rowVars, presents, met>>

\* A host is set up anew, or another one answers at its address.
HostKeyChanges(h, k) ==
    /\ presents[h] # k /\ Event
    /\ presents' = [presents EXCEPT ![h] = k]
    /\ UNCHANGED <<rowVars, conn, met>>

Next ==
    \/ \E c \in Connections :
          \/ \E d \in Devices : OpenSession(c, d)
          \/ \E t \in Targets : Trust(c, t) \/ RunCommand(c, t)
          \/ MeetJump(c) \/ MeetTarget(c) \/ Ready(c) \/ AuthFails(c) \/ BreaksOff(c)
    \/ \E t \in Targets, h \in Hosts : CreateTarget(t, h) \/ UpdateTarget(t, h)
    \/ \E t \in Targets : DeleteTarget(t) \/ SetServerTarget(t)
    \/ \E d \in Devices, t \in Targets \cup {None} : Bind(d, t)
    \/ \E h \in Hosts, k \in Keys : HostKeyChanges(h, k)
    \/ Restart

Spec == Init /\ [][Next]_vars

-----------------------------------------------------------------------------
TypeOK ==
    /\ target \in [Targets -> Row \cup {None}] /\ created \subseteq Targets
    /\ bound \in [Devices -> {t \in Targets : target[t] # None} \cup {None}]
    /\ serverTarget \in {t \in Targets : target[t] # None} \cup {None}
    /\ presents \in [Hosts -> Keys]
    /\ conn \in [Connections -> Connection \cup {Idle}]
    /\ met \in [Targets -> [host : Hosts, key : Keys] \cup {None}]
    /\ events \in 0 .. MaxEvents

(* A connection made while keys are recorded gets no further than hosts    *)
(* that presented those keys, the jump host before the target: neither hop *)
(* of a tunnelled session is let through unverified (FR-011).              *)
PinnedHopsVerified ==
    \A c \in Connections : Making(c) =>
        /\ conn[c].stage = "accepted" => conn[c].to.known \in {None, conn[c].key}
        /\ conn[c].stage # "jump" /\ conn[c].jump # None
              => conn[c].jump.known \in {None, conn[c].jumpKey}

(* A target that had a recorded key when a connection to it was resolved   *)
(* still has one while it is made, whatever is edited or recorded then: a  *)
(* trust probe that answers with the key it copied tells the truth.        *)
PinnedStaysPinned ==
    \A c \in Connections : Making(c) =>
        \A info \in {conn[c].to, conn[c].jump} \ {None} :
            info.known # None /\ Exists(info.target) => target[info.target].known # None

(* A recorded key is replaced only by the key of a host met for the first  *)
(* time, by a connection resolved when none was recorded for that host: no *)
(* pinned connection changes a pin (recordHostKey and its callers).        *)
PinReplacedByFirstUseOnly ==
    [][\A t \in Targets : Exists(t) /\ target[t].known # None /\ target'[t] # None =>
          \/ target'[t].known \in {None, target[t].known}
          \/ \E c \in Connections : Making(c) /\ conn'[c] # conn[c] /\
                \/ conn[c].to.known = None
                   /\ target'[t].known \in {conn[c].key, presents[conn[c].to.host]}
                \/ /\ conn[c].jump # None /\ conn[c].jump.known = None
                   /\ conn[c].jump.target = t /\ target'[t].known = conn[c].jumpKey]_vars

-----------------------------------------------------------------------------
(* What the documents say and the code does not do. *)

(* "Every SSH connection to a device with a changed/mismatched host key is *)
(* blocked" (spec 001, SC-006): two sessions with one target at one host   *)
(* met the same key.                                                       *)
ChangedKeyBlocked ==
    [][\A t \in Targets : met[t] # None /\ met'[t].host = met[t].host
          => met'[t].key = met[t].key]_vars
=============================================================================
