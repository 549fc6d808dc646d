--------------------------- MODULE RemoteSession ---------------------------
(***************************************************************************)
(* Interactive SSH and SFTP sessions: a WebSocket, the SSH connection the  *)
(* handler makes for it, and the registry that lists, force-closes and     *)
(* sweeps sessions (session/ssh-ws.ts, session/sftp-ws.ts,                 *)
(* session/registry.ts, remote/runner.ts connect).                         *)
(*                                                                         *)
(* A handler awaits the connection and then the channel on it, and only    *)
(* listens to its socket and stream after both; what happens to the socket *)
(* meanwhile is not seen by it.                                            *)
(***************************************************************************)
\* Definitions named Mut... are deliberate bugs, each tried in place of the
\* definition it precedes to see that a property notices; nothing else uses them.

CONSTANTS
    Channels,  \* the sockets that browsers open
    Ssh        \* those that ask for a terminal; the others transfer files

Sftp == Channels \ Ssh

VARIABLES
    stage,      \* where each handler is
    ws,         \* the state of each socket
    conn,       \* the SSH connection made for it
    cleaned,    \* ssh-ws: the cleanup has run (closed)
    registry,   \* the sessions registered
    sweeper,    \* the sweeper's timer is set
    opened,     \* sessions whose opening is in the audit log
    ended       \* sessions whose end is in the audit log

vars == <<stage, ws, conn, cleaned, registry, sweeper, opened, ended>>

Init ==
    /\ stage = [c \in Channels |-> "new"]
    /\ ws = [c \in Channels |-> "none"]
    /\ conn = [c \in Channels |-> "none"]
    /\ cleaned = {}
    /\ registry = {} /\ sweeper = FALSE
    /\ opened = {} /\ ended = {}

Advance(c, s) == stage' = [stage EXCEPT ![c] = s]

-----------------------------------------------------------------------------
(* The registry.                                                           *)
Register(c) == registry' = registry \cup {c} /\ sweeper' = TRUE

MutStopsSweeper(c) == registry' = registry \ {c} /\ sweeper' = FALSE
Remove(c) == registry' = registry \ {c} /\ sweeper' = (sweeper /\ registry \ {c} # {})

\* ws.close: the closing handshake begins, if the socket is open.
Closing(S) == ws' = [c \in Channels |-> IF c \in S /\ ws[c] = "open" THEN "closing" ELSE ws[c]]
\* runner?.end(): there is a runner once connect has returned.
End(S) == conn' = [c \in Channels |-> IF c \in S /\ conn[c] = "live" THEN "ended" ELSE conn[c]]

(* What the registry's close callback does: an SSH session cleans up, once *)
(* (and closes its socket); an SFTP session only closes its socket.        *)
CloseAllOf(S) ==
    /\ Closing(S)
    /\ End((S \cap Ssh) \ cleaned)
    /\ cleaned' = cleaned \cup (S \cap Ssh)

-----------------------------------------------------------------------------
MutOpen(c) ==
    /\ stage[c] = "new"
    /\ Advance(c, "connecting")
    /\ ws' = [ws EXCEPT ![c] = "open"]
    /\ conn' = [conn EXCEPT ![c] = "dialing"]
    /\ UNCHANGED <<registry, sweeper, cleaned, opened, ended>>
Open(c) ==
    /\ stage[c] = "new"
    /\ Advance(c, "connecting")
    /\ ws' = [ws EXCEPT ![c] = "open"]
    /\ conn' = [conn EXCEPT ![c] = "dialing"]
    /\ Register(c)
    /\ UNCHANGED <<cleaned, opened, ended>>

Connected(c) ==
    /\ stage[c] = "connecting" /\ Advance(c, "opening")
    /\ conn' = [conn EXCEPT ![c] = "live"]
    /\ UNCHANGED <<ws, cleaned, registry, sweeper, opened, ended>>

(* A refused, unreachable or unexpected host: no session, and no runner.   *)
ConnectFails(c) ==
    /\ stage[c] = "connecting" /\ Advance(c, "over")
    /\ conn' = [conn EXCEPT ![c] = "ended"]
    /\ Remove(c) /\ Closing({c})
    /\ UNCHANGED <<cleaned, opened, ended>>

(* The shell or the SFTP subsystem is there: listeners are installed.      *)
ChannelOpens(c) ==
    /\ stage[c] = "opening" /\ conn[c] = "live" /\ Advance(c, "open")
    /\ opened' = opened \cup {c}
    /\ UNCHANGED <<ws, conn, cleaned, registry, sweeper, ended>>

(* ... or not: an SSH handler cleans up; an SFTP handler keeps its runner. *)
ChannelFails(c) ==
    /\ stage[c] = "opening" /\ Advance(c, "over")
    /\ Remove(c) /\ Closing({c})
    /\ IF c \in Ssh THEN End({c} \ cleaned) /\ cleaned' = cleaned \cup {c}
                    ELSE UNCHANGED <<conn, cleaned>>
    /\ UNCHANGED <<opened, ended>>

(* The socket is gone, the handler's listener hears of it only once open.  *)
MutKeepsRunner(c) ==
    /\ ws[c] \in {"open", "closing"}
    /\ ws' = [ws EXCEPT ![c] = "closed"]
    /\ IF stage[c] # "open" THEN UNCHANGED <<cleaned, registry, sweeper, ended>>
       ELSE /\ Remove(c)
            /\ cleaned' = cleaned \cup ({c} \cap Ssh)
            /\ ended' = ended \cup ({c} \cap Sftp)
    /\ UNCHANGED <<stage, conn, opened>>
SocketCloses(c) ==
    /\ ws[c] \in {"open", "closing"}
    /\ ws' = [ws EXCEPT ![c] = "closed"]
    /\ IF stage[c] # "open" THEN UNCHANGED <<conn, cleaned, registry, sweeper, ended>>
       ELSE /\ Remove(c)
            /\ End({c} \ cleaned)
            /\ cleaned' = cleaned \cup ({c} \cap Ssh)
            /\ ended' = ended \cup ({c} \cap Sftp)
    /\ UNCHANGED <<stage, opened>>

(* The remote host, or the tunnel to it, drops a connection.               *)
ConnectionDrops(c) ==
    /\ conn[c] = "live" /\ conn' = [conn EXCEPT ![c] = "ended"]
    /\ UNCHANGED <<stage, ws, cleaned, registry, sweeper, opened, ended>>

(* A shell's stream closes, with its connection or because the shell ends. *)
StreamCloses(c) ==
    /\ c \in Ssh /\ stage[c] = "open" /\ Advance(c, "over")
    /\ End({c} \ cleaned) /\ cleaned' = cleaned \cup {c}
    /\ IF c \in cleaned THEN ws' = ws ELSE Closing({c})
    /\ Remove(c)
    /\ ended' = ended \cup {c}
    /\ UNCHANGED <<opened>>

-----------------------------------------------------------------------------
ForceClose(c) ==
    /\ c \in registry
    /\ CloseAllOf({c}) /\ Remove(c)
    /\ UNCHANGED <<stage, opened, ended>>

(* A tick of the sweeper; idle is the set of sessions without recent use.  *)
MutForgets(idle) ==
    /\ sweeper /\ idle # {} /\ idle \subseteq registry
    /\ registry' = registry \ idle
    /\ UNCHANGED <<stage, ws, conn, cleaned, sweeper, opened, ended>>
Sweep(idle) ==
    /\ sweeper /\ idle # {} /\ idle \subseteq registry
    /\ CloseAllOf(idle)
    /\ registry' = registry \ idle
    /\ UNCHANGED <<stage, sweeper, opened, ended>>

(* A stop of the server: closeAll, and then the process exits.             *)
Shutdown ==
    /\ stage' = [c \in Channels |-> "over"]
    /\ ws' = [c \in Channels |-> "closed"]
    /\ conn' = [c \in Channels |-> "ended"]
    /\ cleaned' = Ssh \cap Channels
    /\ registry' = {} /\ sweeper' = FALSE
    /\ UNCHANGED <<opened, ended>>

Serve ==
    \/ \E c \in Channels :
          \/ Open(c) \/ Connected(c) \/ ConnectFails(c) \/ ChannelOpens(c) \/ ChannelFails(c)
          \/ SocketCloses(c) \/ ConnectionDrops(c) \/ StreamCloses(c) \/ ForceClose(c)
    \/ \E idle \in SUBSET registry : Sweep(idle)

Next == Serve \/ Shutdown

Spec == Init /\ [][Next]_vars

(* Connecting ends (readyTimeout), and so does the wait for a channel: a   *)
(* host that is gone is given up by TCP. A closing socket closes (ws has a *)
(* time limit), a stream closes after its connection, sessions fall idle.  *)
Fairness == \A c \in Channels :
    /\ WF_vars(Connected(c) \/ ConnectFails(c))
    /\ WF_vars(ChannelOpens(c) \/ ChannelFails(c))
    /\ WF_vars(ws[c] = "closing" /\ SocketCloses(c))
    /\ WF_vars(conn[c] = "ended" /\ StreamCloses(c))
    /\ WF_vars(Sweep({c}))

FairSpec == Spec /\ Fairness

-----------------------------------------------------------------------------
Handling == {"connecting", "opening", "open"}

TypeOK ==
    /\ stage \in [Channels -> Handling \cup {"new", "over"}]
    /\ ws \in [Channels -> {"none", "open", "closing", "closed"}]
    /\ conn \in [Channels -> {"none", "dialing", "live", "ended"}]
    /\ cleaned \subseteq Ssh
    /\ registry \subseteq Channels /\ sweeper \in BOOLEAN
    /\ ended \subseteq opened /\ opened \subseteq Channels

(* No session escapes the operator: while a browser is connected and its   *)
(* handler at work, the session is listed and can be force-closed (FR-013).*)
OpenIsRegistered ==
    \A c \in Channels : ws[c] = "open" /\ stage[c] \in Handling => c \in registry

(* The idle timeout cannot be lost: with any session registered the timer  *)
(* that sweeps is set, although opens and closes start and stop it.        *)
SweeperWatches == registry # {} => sweeper

(* A session that came up while its browser was there is brought down when *)
(* it is closed or, at the latest, idle: its connection does not outlive   *)
(* it (contracts/websocket.md, Lifecycle).                                 *)
EstablishedSessionEnds ==
    \A c \in Channels :
        (c \in registry /\ stage[c] = "open" /\ ws[c] = "open") ~> conn[c] # "live"

-----------------------------------------------------------------------------
(* What the documents say and the code does not do. *)

(* "Credentials are discarded when the socket closes" (ssh-ws.ts).         *)
SocketCloseDiscards == \A c \in Channels : ws[c] = "closed" ~> conn[c] # "live"
=============================================================================
