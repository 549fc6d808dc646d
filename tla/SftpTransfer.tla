---------------------------- MODULE SftpTransfer ----------------------------
(***************************************************************************)
(* Transfers over one SFTP socket (session/sftp-ws.ts): downloads stream   *)
(* as they are read, an upload is collected from binary frames and written *)
(* when it is complete, and cancelling is one flag for the socket.         *)
(*                                                                         *)
(* The socket and the SSH connection are the session's (RemoteSession);    *)
(* here they are an environment that SftpSession is shown to implement.    *)
(***************************************************************************)
EXTENDS SftpMessages, Sequences
\* Definitions named Mut... are deliberate bugs, each tried in place of the
\* definition it precedes to see that a property notices; nothing else uses them.

VARIABLES
    down,        \* the state of each download's stream
    up,          \* the state of each upload
    pending,     \* pendingPut
    cancelled,   \* the flag a cancel sets
    answers,     \* the final answers (done or error) sent about each transfer
    audited,     \* transfers in the audit log, as successes
    calledOff,   \* history: the client has cancelled something
    socket,      \* the socket, as far as the handler hears it
    live         \* its SSH connection is up

transfers   == <<down, up, pending, cancelled, answers, audited, calledOff>>
environment == <<socket, live>>
vars        == <<transfers, environment>>

Init ==
    /\ down = [t \in Ids |-> "none"] /\ up = [t \in Ids |-> "none"]
    /\ pending = None
    /\ cancelled = FALSE
    /\ answers = [t \in Ids |-> <<>>]
    /\ audited = {} /\ calledOff = FALSE
    /\ socket = "none" /\ live = FALSE

\* Messages arrive until the socket is closed, also while it is closing.
Listening    == socket \in {"open", "closing"}
Unused(t)    == down[t] = "none" /\ up[t] = "none"
Downs(t, s)  == down' = [down EXCEPT ![t] = s]
Ups(t, s)    == up' = [up EXCEPT ![t] = s]
IsPending(t) == pending # None /\ pending.id = t

\* A stream begun on a connection that has ended may never say anything.
Begun(s) == {s} \cup (IF live THEN {} ELSE {"stuck"})

\* send does nothing unless the socket is open.
Answer(t, what) ==
    answers' = IF socket = "open" THEN [answers EXCEPT ![t] = Append(@, what)] ELSE answers

-----------------------------------------------------------------------------
(* Downloads.  A new one clears the flag; each chunk, and the end, see it. *)
Get(t) ==
    /\ Listening /\ Unused(t)
    /\ \E s \in Begun("reading") : Downs(t, s)
    /\ cancelled' = FALSE
    /\ UNCHANGED <<up, pending, answers, audited, calledOff, environment>>

Chunk(t) ==
    /\ down[t] = "reading" /\ cancelled
    /\ Downs(t, "destroyed")
    /\ UNCHANGED <<up, pending, cancelled, answers, audited, calledOff, environment>>

MutEndsFailed(t) ==
    /\ down[t] = "reading" /\ UNCHANGED down
    /\ Answer(t, "error")
    /\ UNCHANGED <<up, pending, cancelled, audited, calledOff, environment>>
ReadFails(t) ==
    /\ down[t] = "reading" /\ Downs(t, "over")
    /\ Answer(t, "error")
    /\ UNCHANGED <<up, pending, cancelled, audited, calledOff, environment>>

ReadEnds(t) ==
    /\ down[t] = "reading" /\ Downs(t, "over")
    /\ Answer(t, IF cancelled THEN "error" ELSE "done")
    /\ audited' = IF cancelled THEN audited ELSE audited \cup {t}
    /\ UNCHANGED <<up, pending, cancelled, calledOff, environment>>

-----------------------------------------------------------------------------
(* Uploads.  A new one takes the place of one that still lacks frames; an  *)
(* empty one has nothing to wait for.                                      *)
Put(t, size) ==
    /\ Listening /\ Unused(t)
    /\ \/ size > 0 /\ pending' = [id |-> t, left |-> size] /\ Ups(t, "collecting")
       \/ size = 0 /\ pending' = None /\ \E s \in Begun("writing empty") : Ups(t, s)
    /\ UNCHANGED <<down, cancelled, answers, audited, calledOff, environment>>

Frame ==
    /\ pending # None /\ Listening
    /\ \/ /\ pending.left > 1 /\ pending' = [pending EXCEPT !.left = @ - 1]
          /\ UNCHANGED up
       \/ /\ pending.left = 1 /\ pending' = None
          /\ \E s \in Begun("writing") : Ups(pending.id, s)
    /\ UNCHANGED <<down, cancelled, answers, audited, calledOff, environment>>

(* The write stream reports an error, and closes.                          *)
WriteFails(t) ==
    /\ up[t] = "writing" /\ Ups(t, "failed")
    /\ Answer(t, "error")
    /\ UNCHANGED <<down, pending, cancelled, audited, calledOff, environment>>

MutNamesPending(t) ==
    /\ up[t] \in {"writing", "failed"} /\ Ups(t, "over")
    /\ IF pending = None THEN UNCHANGED answers ELSE Answer(pending.id, "done")
    /\ audited' = audited \cup {t}
    /\ UNCHANGED <<down, pending, cancelled, calledOff, environment>>
WriteCloses(t) ==
    /\ up[t] \in {"writing", "failed"} /\ Ups(t, "over")
    /\ Answer(t, "done")
    /\ audited' = audited \cup {t}
    /\ UNCHANGED <<down, pending, cancelled, calledOff, environment>>

(* The answer to an empty upload names the upload pending when it closes.  *)
EmptyCloses(t) ==
    /\ up[t] = "writing empty" /\ Ups(t, "closed")
    /\ IF pending = None THEN UNCHANGED answers ELSE Answer(pending.id, "done")
    /\ UNCHANGED <<down, pending, cancelled, audited, calledOff, environment>>

-----------------------------------------------------------------------------
(* A cancel: the id it carries is not looked at.                           *)
MutKeepsPending ==
    /\ Listening
    /\ cancelled' = TRUE
    /\ IF pending = None THEN UNCHANGED answers ELSE Answer(pending.id, "error")
    /\ calledOff' = TRUE
    /\ UNCHANGED <<down, up, pending, audited, environment>>
Cancel ==
    /\ Listening
    /\ cancelled' = TRUE
    /\ IF pending = None THEN UNCHANGED <<answers, up>>
       ELSE Answer(pending.id, "error") /\ Ups(pending.id, "over")
    /\ pending' = None
    /\ calledOff' = TRUE
    /\ UNCHANGED <<down, audited, environment>>

Handle ==
    \/ \E t \in Ids :
          \/ Get(t)
          \/ \E size \in Sizes : Put(t, size)
          \/ Chunk(t) \/ ReadFails(t) \/ ReadEnds(t)
          \/ WriteFails(t) \/ WriteCloses(t) \/ EmptyCloses(t)
    \/ Frame \/ Cancel

-----------------------------------------------------------------------------
(* The process ends, and with it every stream, whoever it belongs to.      *)
ProcessEnds ==
    /\ down' = [t \in Ids |-> IF down[t] = "reading" THEN "destroyed" ELSE down[t]]
    /\ up' = [t \in Ids |-> IF up[t] = "none" THEN "none" ELSE "over"]
    /\ pending' = None
    /\ socket' = "closed" /\ live' = FALSE
    /\ UNCHANGED <<cancelled, answers, audited, calledOff>>

(* Nothing listens for the errors of an empty upload's stream: one is an   *)
(* uncaught exception.                                                     *)
EmptyFails(t) == up[t] = "writing empty" /\ ProcessEnds

(* The session around the transfers: its connection comes up before it is  *)
(* heard, and is ended when the socket is heard to close.                  *)
Environment ==
    /\ \/ socket' = socket
       \/ socket = "none" /\ socket' \in {"open", "closing", "closed"}
       \/ socket = "open" /\ socket' \in {"closing", "closed"}
       \/ socket = "closing" /\ socket' = "closed"
    /\ live' \in BOOLEAN
    /\ live' /\ ~live => socket = "none"
    /\ live' /\ Listening => socket' # "closed"
    /\ UNCHANGED transfers

Next == Handle \/ ProcessEnds \/ (\E t \in Ids : EmptyFails(t)) \/ Environment

Spec == Init /\ [][Next]_vars

-----------------------------------------------------------------------------
Said(t)    == {answers[t][i] : i \in 1 .. Len(answers[t])}
Running(t) == down[t] = "reading" \/ up[t] \in {"writing", "writing empty"}

TypeOK ==
    /\ down \in [Ids -> {"none", "reading", "stuck", "destroyed", "over"}]
    /\ up \in [Ids -> {"none", "collecting", "writing", "writing empty", "stuck", "failed", "over", "closed"}]
    /\ pending # None => pending \in PendingPut /\ up[pending.id] = "collecting"
    /\ cancelled \in BOOLEAN
    /\ answers \in [Ids -> Seq({"done", "error"})]
    /\ audited \subseteq Ids /\ calledOff \in BOOLEAN
    /\ socket \in {"none", "open", "closing", "closed"} /\ live \in BOOLEAN

(* A download is answered once, whatever is cancelled or fails while it    *)
(* and others stream: error or done, never both, and none that was         *)
(* answered with an error is in the audit log as a success (US3 scenario   *)
(* 4, FR-020 of spec 001).                                                 *)
DownloadAnsweredOnce ==
    \A t \in Ids : down[t] # "none" =>
        Len(answers[t]) <= 1 /\ (t \in audited => "error" \notin Said(t))

(* What was answered with an error is over: no more of its frames are      *)
(* collected, and it is not delivered any further.                         *)
ErrorIsFinal ==
    \A t \in Ids : "error" \in Said(t) => ~IsPending(t) /\ down[t] # "reading"

(* No file is moved behind the operator's back: a stream that still runs   *)
(* over a live connection has a browser at the socket, be it one that was  *)
(* just told to go (sftp-ws.ts, cleanup).                                  *)
NoTransferOutlivesSocket == live /\ (\E t \in Ids : Running(t)) => Listening

(* As long as the client cancels nothing and stays, a download that is     *)
(* over, and an upload all of whose frames came and whose stream closed,   *)
(* was answered under its own id, whatever other transfers were begun on   *)
(* the same socket meanwhile.                                              *)
AnsweredUnlessCancelled ==
    \A t \in Ids :
        (down[t] = "over" \/ up[t] = "over") /\ socket = "open" /\ ~calledOff
            => answers[t] # <<>>
=============================================================================
