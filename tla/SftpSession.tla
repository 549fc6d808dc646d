---------------------------- MODULE SftpSession ----------------------------
(***************************************************************************)
(* The sessions together with the transfers of one of them, an SFTP        *)
(* session: handleSftpWs of session/sftp-ws.ts as a whole, beside the      *)
(* other sockets of the process.                                           *)
(*                                                                         *)
(* Transfers are begun by messages that arrive on the session's socket     *)
(* once its handler listens, use the session's connection, and end with    *)
(* it; an error nobody listens for ends every session there is.            *)
(***************************************************************************)
EXTENDS RemoteSession, SftpMessages
\* Definitions named Mut... are deliberate bugs, each tried in place of the
\* definition it precedes to see that a property notices; nothing else uses them.

CONSTANT File       \* the SFTP session looked into

ASSUME FileAssumption == File \in Sftp

VARIABLES down, up, pending, cancelled, answers, audited, calledOff

MutHearsEarly ==
    CASE stage[File] = "new" -> "none"
      [] stage[File] = "over" -> "closed"
      [] OTHER -> ws[File]
\* The socket as the listeners hear it: they are installed once the session
\* is open, and there are none if it never is.
Heard ==
    CASE stage[File] \in {"new", "connecting", "opening"} -> "none"
      [] stage[File] = "open" -> ws[File]
      [] OTHER -> "closed"

Transfer == INSTANCE SftpTransfer WITH socket <- Heard, live <- conn[File] = "live"

transferVars == <<down, up, pending, cancelled, answers, audited, calledOff>>
allVars      == <<vars, transferVars>>

SessionInit == Init /\ Transfer!Init

SessionNext ==
    \/ Serve /\ UNCHANGED transferVars
    \/ UNCHANGED vars /\ Transfer!Handle
    \/ Shutdown /\ Transfer!ProcessEnds
    \/ \E t \in Ids : Shutdown /\ Transfer!EmptyFails(t)

SessionSpec == SessionInit /\ [][SessionNext]_allVars

\* The sessions' own fairness (RemoteSession): the transfers need none.
Goes(A) == A /\ UNCHANGED transferVars

SessionFairness == \A c \in Channels :
    /\ WF_allVars(Goes(Connected(c) \/ ConnectFails(c)))
    /\ WF_allVars(Goes(ChannelOpens(c) \/ ChannelFails(c)))
    /\ WF_allVars(Goes(ws[c] = "closing" /\ SocketCloses(c)))
    /\ WF_allVars(Goes(conn[c] = "ended" /\ StreamCloses(c)))
    /\ WF_allVars(Goes(Sweep({c})))

FairSession == SessionSpec /\ SessionFairness

-----------------------------------------------------------------------------
(* The promises of SftpTransfer, kept within the session (US3 scenario 4). *)
DownloadAnsweredOnce     == Transfer!DownloadAnsweredOnce
ErrorIsFinal             == Transfer!ErrorIsFinal
NoTransferOutlivesSocket == Transfer!NoTransferOutlivesSocket
AnsweredUnlessCancelled  == Transfer!AnsweredUnlessCancelled

(* The session, with its awaits, its cleanup and its closings from other   *)
(* sides, is an environment the transfers can count on: whatever holds of  *)
(* SftpTransfer holds of the transfers of a session.                       *)
TransfersAreServed == Transfer!Spec
=============================================================================
