------------------------ MODULE RemoteSessionProofs ------------------------
(***************************************************************************)
(* What RemoteSession keeps for any number of sockets, that a session is   *)
(* an environment of its transfers, what SftpTransfer keeps in any         *)
(* environment, and so what the transfers of a session keep.               *)
(*                                                                         *)
(* The sessions' invariant is the properties themselves, and that an open  *)
(* session's opening was audited: a socket only leaves the registry in a   *)
(* step that also takes it out of "open", or its handler out of its work.  *)
(***************************************************************************)
EXTENDS SftpSession, Sequences, TLAPS

OpenWasAudited == \A c \in Channels : stage[c] = "open" => c \in opened

IInv == TypeOK /\ OpenWasAudited /\ OpenIsRegistered /\ SweeperWatches

LEMMA InitInv == Init => IInv
BY DEF Init, IInv, TypeOK, OpenWasAudited, OpenIsRegistered, SweeperWatches, Handling

(* Each action moves one session on, or a set of them at once.             *)
LEMMA NextInv == IInv /\ [Next]_vars => IInv'
<1> SUFFICES ASSUME IInv, [Next]_vars PROVE IInv'
  OBVIOUS
<1> USE DEF IInv, TypeOK, OpenWasAudited, OpenIsRegistered, SweeperWatches, Handling, Sftp
<1>1. ASSUME NEW c \in Channels, Open(c) PROVE IInv'
  BY <1>1 DEF Open, Advance, Register
<1>2. ASSUME NEW c \in Channels, Connected(c) PROVE IInv'
  BY <1>2 DEF Connected, Advance
<1>3. ASSUME NEW c \in Channels, ConnectFails(c) PROVE IInv'
  BY <1>3 DEF ConnectFails, Advance, Remove, Closing, End
<1>4. ASSUME NEW c \in Channels, ChannelOpens(c) PROVE IInv'
  BY <1>4 DEF ChannelOpens, Advance
<1>5. ASSUME NEW c \in Channels, ChannelFails(c) PROVE IInv'
  BY <1>5 DEF ChannelFails, Advance, Remove, Closing, End
<1>6. ASSUME NEW c \in Channels, SocketCloses(c) PROVE IInv'
  BY <1>6 DEF SocketCloses, Remove, End
<1>7. ASSUME NEW c \in Channels, ConnectionDrops(c) PROVE IInv'
  BY <1>7 DEF ConnectionDrops
<1>8. ASSUME NEW c \in Channels, StreamCloses(c) PROVE IInv'
  BY <1>8 DEF StreamCloses, Advance, Remove, Closing, End
<1>9. ASSUME NEW c \in Channels, ForceClose(c) PROVE IInv'
  BY <1>9 DEF ForceClose, CloseAllOf, Remove, Closing, End
<1>10. ASSUME NEW idle \in SUBSET registry, Sweep(idle) PROVE IInv'
  BY <1>10 DEF Sweep, CloseAllOf, Closing, End
<1>11. CASE Shutdown
  BY <1>11 DEF Shutdown
<1>12. CASE UNCHANGED vars
  BY <1>12 DEF vars
<1> QED
  BY <1>1, <1>2, <1>3, <1>4, <1>5, <1>6, <1>7, <1>8, <1>9, <1>10, <1>11, <1>12 DEF Next, Serve

LEMMA SpecInv == Spec => []IInv
BY InitInv, NextInv, PTL DEF Spec

(* FR-013: no session of a connected browser escapes the registry, and so  *)
(* the list, the force-close and the idle sweep (session/registry.ts).     *)
THEOREM SessionsRegistered == Spec => []OpenIsRegistered
<1>1. IInv => OpenIsRegistered
  BY DEF IInv
<1> QED
  BY <1>1, SpecInv, PTL

(* The idle timeout is never lost: remove clears the timer only when no    *)
(* session is left (session/registry.ts:51-57).                            *)
THEOREM SweeperNeverLost == Spec => []SweeperWatches
<1>1. IInv => SweeperWatches
  BY DEF IInv
<1> QED
  BY <1>1, SpecInv, PTL

(* The state of sessions, and that none is closed in the audit log that    *)
(* was not opened there (session/ssh-ws.ts, session/sftp-ws.ts).           *)
THEOREM SessionsTyped == Spec => []TypeOK
<1>1. IInv => TypeOK
  BY DEF IInv
<1> QED
  BY <1>1, SpecInv, PTL

-----------------------------------------------------------------------------
(* The transfers' session.  A step of the sessions is, for the transfers   *)
(* of File, a step of their environment: what its handler hears of the     *)
(* socket only moves on, its connection comes up before it is heard, and   *)
(* is gone once the socket is heard to close.                              *)
HeardMovesOn ==
    /\ \/ Heard' = Heard
       \/ Heard = "none" /\ Heard' \in {"open", "closing", "closed"}
       \/ Heard = "open" /\ Heard' \in {"closing", "closed"}
       \/ Heard = "closing" /\ Heard' = "closed"
    /\ conn'[File] = "live" => conn[File] = "live" \/ Heard = "none"
    /\ conn'[File] = "live" /\ Heard \in {"open", "closing"} => Heard' # "closed"

LEMMA ServeMovesOn == ASSUME IInv, Serve PROVE HeardMovesOn
<1> USE FileAssumption DEF Sftp
<1>1. /\ stage[File] \in {"new", "connecting", "opening", "open", "over"}
      /\ ws[File] \in {"none", "open", "closing", "closed"}
      /\ File \in Channels /\ File \notin Ssh /\ File \notin cleaned
      /\ stage \in [Channels -> Handling \cup {"new", "over"}]
      /\ ws \in [Channels -> {"none", "open", "closing", "closed"}]
      /\ conn \in [Channels -> {"none", "dialing", "live", "ended"}]
  BY DEF IInv, TypeOK, Handling
<1> USE DEF HeardMovesOn, Heard
<1>2. ASSUME NEW c \in Channels, Open(c) PROVE HeardMovesOn
  BY <1>1, <1>2 DEF Open, Advance
<1>3. ASSUME NEW c \in Channels, Connected(c) PROVE HeardMovesOn
  BY <1>1, <1>3 DEF Connected, Advance
<1>4. ASSUME NEW c \in Channels, ConnectFails(c) PROVE HeardMovesOn
  BY <1>1, <1>4 DEF ConnectFails, Advance, Closing
<1>5. ASSUME NEW c \in Channels, ChannelOpens(c) PROVE HeardMovesOn
  BY <1>1, <1>5 DEF ChannelOpens, Advance
<1>6. ASSUME NEW c \in Channels, ChannelFails(c) PROVE HeardMovesOn
  BY <1>1, <1>6 DEF ChannelFails, Advance, Closing, End
<1>7. ASSUME NEW c \in Channels, SocketCloses(c) PROVE HeardMovesOn
  BY <1>1, <1>7 DEF SocketCloses, End
<1>8. ASSUME NEW c \in Channels, ConnectionDrops(c) PROVE HeardMovesOn
  BY <1>1, <1>8 DEF ConnectionDrops
<1>9. ASSUME NEW c \in Channels, StreamCloses(c) PROVE HeardMovesOn
  BY <1>1, <1>9 DEF StreamCloses, Advance, Closing, End
<1>10. ASSUME NEW c \in Channels, ForceClose(c) PROVE HeardMovesOn
  BY <1>1, <1>10 DEF ForceClose, CloseAllOf, Closing, End
<1>11. ASSUME NEW idle \in SUBSET registry, Sweep(idle) PROVE HeardMovesOn
  BY <1>1, <1>11 DEF Sweep, CloseAllOf, Closing, End
<1> QED
  BY <1>2, <1>3, <1>4, <1>5, <1>6, <1>7, <1>8, <1>9, <1>10, <1>11 DEF Serve

LEMMA ServeIsEnvironment == ASSUME IInv, Serve, UNCHANGED transferVars PROVE Transfer!Environment
<1>1. HeardMovesOn
  BY ServeMovesOn
<1>2. UNCHANGED <<down, up, pending, cancelled, answers, audited, calledOff>>
  BY DEF transferVars
<1>3. UNCHANGED Transfer!transfers
  BY <1>2 DEF Transfer!transfers
<1> QED
  BY <1>1, <1>3 DEF HeardMovesOn, Transfer!Environment, Transfer!Listening

LEMMA SessionInitRefines == SessionInit => Init /\ Transfer!Init
BY DEF SessionInit

LEMMA SessionStepRefines ==
    IInv /\ [SessionNext]_allVars => [Next]_vars /\ [Transfer!Next]_(Transfer!vars)
<1> SUFFICES ASSUME IInv, [SessionNext]_allVars PROVE [Next]_vars /\ [Transfer!Next]_(Transfer!vars)
  OBVIOUS
<1>1. CASE Serve /\ UNCHANGED transferVars
  BY <1>1, ServeIsEnvironment DEF Next, Transfer!Next
<1>2. CASE UNCHANGED vars /\ Transfer!Handle
  BY <1>2 DEF Transfer!Next
<1>3. CASE Shutdown /\ (Transfer!ProcessEnds \/ \E t \in Ids : Transfer!EmptyFails(t))
  BY <1>3 DEF Next, Transfer!Next
<1>4. CASE UNCHANGED allVars
  <2>1. UNCHANGED vars /\ UNCHANGED transferVars
    BY <1>4 DEF allVars
  <2>2. Heard' = Heard /\ UNCHANGED conn
    BY <2>1 DEF vars, Heard
  <2>3. UNCHANGED Transfer!vars
    BY <2>1, <2>2 DEF transferVars, Transfer!vars, Transfer!transfers, Transfer!environment
  <2> QED
    BY <2>1, <2>3
<1> QED
  BY <1>1, <1>2, <1>3, <1>4 DEF SessionNext

(* Within its session, with every await, cleanup and closing from outside, *)
(* a transfer has the environment SftpTransfer is written against: the     *)
(* theorems about transfers, below, hold of the transfers of a session.    *)
THEOREM SessionServesTransfers == SessionSpec => TransfersAreServed
<1>1. SessionInit => IInv /\ Transfer!Init
  BY InitInv, SessionInitRefines
<1>2. IInv /\ [SessionNext]_allVars => IInv'
  BY NextInv, SessionStepRefines
<1>3. IInv /\ [SessionNext]_allVars => [Transfer!Next]_(Transfer!vars)
  BY SessionStepRefines
<1> QED
  BY <1>1, <1>2, <1>3, PTL DEF SessionSpec, TransfersAreServed, Transfer!Spec

(* And the sessions remain sessions, whatever is transferred in them.      *)
THEOREM TransfersKeepSessions == SessionSpec => [](TypeOK /\ OpenIsRegistered /\ SweeperWatches)
<1>1. SessionInit => IInv
  BY InitInv, SessionInitRefines
<1>2. IInv /\ [SessionNext]_allVars => IInv'
  BY NextInv, SessionStepRefines
<1>3. IInv => TypeOK /\ OpenIsRegistered /\ SweeperWatches
  BY DEF IInv
<1> QED
  BY <1>1, <1>2, <1>3, PTL DEF SessionSpec

-----------------------------------------------------------------------------
(* The transfers, in any environment.  An id is used once, for a download  *)
(* or an upload; a download that still streams has no answer yet, and one  *)
(* that was not begun none either: so each end of a stream is its first    *)
(* answer.  All of it is said of one transfer at a time, and a step of one *)
(* leaves the others as they were.                                         *)
Answers    == Seq({"done", "error"})
DownStates == {"none", "reading", "stuck", "destroyed", "over"}
UpStates   == {"none", "collecting", "writing", "writing empty", "stuck", "failed", "over", "closed"}

TransfersTyped ==
    /\ down \in [Ids -> DownStates] /\ up \in [Ids -> UpStates]
    /\ pending # None => pending \in Transfer!PendingPut /\ up[pending.id] = "collecting"
    /\ cancelled \in BOOLEAN /\ calledOff \in BOOLEAN
    /\ answers \in [Ids -> Answers]
    /\ audited \subseteq Ids
    /\ Heard \in {"none", "open", "closing", "closed"} /\ (conn[File] = "live") \in BOOLEAN

(* An id is used for one thing; nothing is said of it before it ends.      *)
UsedOnce(t) ==
    /\ down[t] = "none" \/ up[t] = "none"
    /\ Transfer!Unused(t) \/ down[t] = "reading" => answers[t] = <<>> /\ t \notin audited
    /\ up[t] = "collecting" => "error" \notin Transfer!Said(t)

\* Nothing is begun before the session is heard; nothing runs on once it is not.
HeardFirst(t) ==
    /\ Heard = "none" => Transfer!Unused(t)
    /\ Heard = "closed" /\ (conn[File] = "live") => ~Transfer!Running(t)

\* The properties, of one transfer.
Answered(t) ==
    /\ down[t] # "none" => Len(answers[t]) <= 1 /\ (t \in audited => "error" \notin Transfer!Said(t))
    /\ "error" \in Transfer!Said(t) => ~Transfer!IsPending(t) /\ down[t] # "reading"
    /\ (down[t] = "over" \/ up[t] = "over") /\ Heard = "open" /\ ~calledOff => answers[t] # <<>>

AsPromised(t) == UsedOnce(t) /\ HeardFirst(t) /\ Answered(t)

TransferInv == TransfersTyped /\ \A t \in Ids : AsPromised(t)

-----------------------------------------------------------------------------
LEMMA NothingSaid == ASSUME NEW t, answers[t] = <<>> PROVE Transfer!Said(t) = {} /\ Len(answers[t]) = 0
<1>1. Len(<<>>) = 0 /\ 1 .. 0 = {}
  OBVIOUS
<1> QED
  BY <1>1 DEF Transfer!Said

LEMMA Appended ==
    ASSUME NEW s \in Answers, NEW w \in {"done", "error"}
    PROVE  /\ Append(s, w) \in Answers /\ Append(s, w) # <<>>
           /\ s = <<>> => Len(Append(s, w)) = 1
           /\ {Append(s, w)[i] : i \in 1 .. Len(Append(s, w))} = {s[i] : i \in 1 .. Len(s)} \cup {w}
<1>1. /\ Append(s, w) \in Answers /\ Len(Append(s, w)) = Len(s) + 1 /\ Len(s) \in Nat
      /\ \A i \in 1 .. Len(s) : Append(s, w)[i] = s[i]
      /\ Append(s, w)[Len(s) + 1] = w
  BY DEF Answers
<1>2. Len(<<>>) = 0
  OBVIOUS
<1>3. Append(s, w) # <<>> /\ (s = <<>> => Len(Append(s, w)) = 1)
  <2>1. Len(Append(s, w)) # 0
    BY <1>1
  <2>2. Append(s, w) # <<>>
    BY <1>2, <2>1
  <2>3. s = <<>> => Len(s) = 0
    BY <1>2
  <2> QED
    BY <1>1, <2>2, <2>3
<1>4. 1 .. Len(Append(s, w)) = (1 .. Len(s)) \cup {Len(s) + 1}
  BY <1>1
<1>5. {Append(s, w)[i] : i \in 1 .. Len(Append(s, w))} = {s[i] : i \in 1 .. Len(s)} \cup {w}
  BY <1>1, <1>4
<1> QED
  BY <1>1, <1>3, <1>5

(* What an answer to t changes: its sequence, and what is said of it.      *)
LEMMA AnswerOf ==
    ASSUME TransfersTyped, NEW t \in Ids, NEW w \in {"done", "error"}, Transfer!Answer(t, w)
    PROVE  /\ answers' \in [Ids -> Answers]
           /\ \A u \in Ids : u # t => answers'[u] = answers[u]
           /\ Heard = "open" \/ answers[t] # <<>> => answers'[t] # <<>>
           /\ answers[t] = <<>> => Len(answers'[t]) <= 1
           /\ \A v : v \in Transfer!Said(t)' => v \in Transfer!Said(t) \/ v = w
<1>1. answers \in [Ids -> Answers] /\ answers[t] \in Answers
  BY DEF TransfersTyped
<1>2. CASE Heard = "open"
  <2>1. answers' = [answers EXCEPT ![t] = Append(@, w)]
    BY <1>2 DEF Transfer!Answer
  <2>2. answers'[t] = Append(answers[t], w) /\ \A u \in Ids : u # t => answers'[u] = answers[u]
    BY <1>1, <2>1
  <2>3. /\ Append(answers[t], w) \in Answers /\ Append(answers[t], w) # <<>>
        /\ answers[t] = <<>> => Len(Append(answers[t], w)) = 1
        /\ {Append(answers[t], w)[i] : i \in 1 .. Len(Append(answers[t], w))}
             = {answers[t][i] : i \in 1 .. Len(answers[t])} \cup {w}
    BY <1>1, Appended
  <2>4. answers' \in [Ids -> Answers]
    BY <1>1, <2>1, <2>3
  <2>5. Transfer!Said(t)' = Transfer!Said(t) \cup {w}
    BY <2>2, <2>3 DEF Transfer!Said
  <2> QED
    BY <2>2, <2>3, <2>4, <2>5
<1>3. CASE Heard # "open"
  <2>1. answers' = answers
    BY <1>3 DEF Transfer!Answer
  <2>2. answers[t] = <<>> => Len(answers[t]) <= 1
    BY NothingSaid
  <2>3. Transfer!Said(t)' = Transfer!Said(t)
    BY <2>1 DEF Transfer!Said
  <2> QED
    BY <1>1, <1>3, <2>1, <2>2, <2>3
<1> QED
  BY <1>2, <1>3

(* A transfer that a step neither begins, answers nor ends stays right.    *)
LEMMA Untouched ==
    ASSUME NEW u \in Ids, AsPromised(u),
           down'[u] = down[u], up'[u] = up[u], answers'[u] = answers[u],
           u \in audited' => u \in audited, Transfer!IsPending(u)' => Transfer!IsPending(u),
           Heard' = Heard, (conn'[File] = "live") = (conn[File] = "live"), calledOff => calledOff'
    PROVE  AsPromised(u)'
<1>1. Transfer!Said(u)' = Transfer!Said(u)
  BY DEF Transfer!Said
<1>2. UsedOnce(u)'
  BY <1>1 DEF AsPromised, UsedOnce, Transfer!Unused
<1>3. HeardFirst(u)'
  BY DEF AsPromised, HeardFirst, Transfer!Unused, Transfer!Running
<1>4. Answered(u)'
  BY <1>1 DEF AsPromised, Answered
<1> QED
  BY <1>2, <1>3, <1>4 DEF AsPromised

LEMMA TransferInitInv == Transfer!Init => TransferInv
<1> SUFFICES ASSUME Transfer!Init PROVE TransferInv
  OBVIOUS
<1>1. TransfersTyped
  <2>1. <<>> \in Answers
    BY DEF Answers
  <2> QED
    BY <2>1 DEF Transfer!Init, TransfersTyped, DownStates, UpStates
<1>2. ASSUME NEW t \in Ids PROVE AsPromised(t)
  <2>1. answers[t] = <<>> /\ down[t] = "none" /\ up[t] = "none" /\ t \notin audited /\ ~(conn[File] = "live")
    BY DEF Transfer!Init
  <2>2. Transfer!Said(t) = {} /\ Len(answers[t]) = 0
    BY <2>1, NothingSaid
  <2> QED
    BY <2>1, <2>2 DEF AsPromised, UsedOnce, HeardFirst, Answered, Transfer!Unused
<1> QED
  BY <1>1, <1>2 DEF TransferInv

-----------------------------------------------------------------------------
(* The messages that begin something answer nothing.                       *)
LEMMA GetInv == ASSUME TransferInv, NEW t \in Ids, Transfer!Get(t) PROVE TransferInv'
<1>1. PICK s \in {"reading", "stuck"} :
        /\ down' \in [Ids -> DownStates] /\ down'[t] = s
        /\ \A u \in Ids : u # t => down'[u] = down[u]
  BY DEF TransferInv, TransfersTyped, Transfer!Get, Transfer!Begun, Transfer!Downs, DownStates
<1>2. UNCHANGED <<up, pending, answers, audited, calledOff, Heard, (conn[File] = "live")>> /\ cancelled' = FALSE
  BY DEF Transfer!Get, Transfer!environment
<1>3. Transfer!Unused(t) /\ Transfer!Listening /\ answers[t] = <<>> /\ t \notin audited
  BY DEF TransferInv, AsPromised, UsedOnce, Transfer!Get
<1>4. TransfersTyped'
  BY <1>1, <1>2 DEF TransferInv, TransfersTyped
<1>5. ASSUME NEW u \in Ids, u # t PROVE AsPromised(u)'
  <2>1. AsPromised(u) /\ (Transfer!IsPending(u)' => Transfer!IsPending(u))
    BY <1>2 DEF TransferInv, Transfer!IsPending
  <2> QED
    BY <1>1, <1>2, <1>5, <2>1, Untouched
<1>6. AsPromised(t)'
  <2>1. Transfer!Said(t)' = {} /\ Len(answers'[t]) = 0
    BY <1>2, <1>3, NothingSaid DEF Transfer!Said
  <2>2. UsedOnce(t)' /\ HeardFirst(t)'
    BY <1>1, <1>2, <1>3, <2>1 DEF UsedOnce, HeardFirst, Transfer!Unused, Transfer!Listening
  <2>3. Answered(t)'
    BY <1>1, <1>2, <1>3, <2>1 DEF Answered, Transfer!Unused
  <2> QED
    BY <2>2, <2>3 DEF AsPromised
<1> QED
  BY <1>4, <1>5, <1>6 DEF TransferInv

LEMMA PutInv == ASSUME TransferInv, NEW t \in Ids, NEW size \in Sizes, Transfer!Put(t, size) PROVE TransferInv'
<1>1. PICK s \in {"collecting", "writing empty", "stuck"} :
        /\ up' \in [Ids -> UpStates] /\ up'[t] = s
        /\ \A u \in Ids : u # t => up'[u] = up[u]
        /\ \/ pending' = None
           \/ s = "collecting" /\ pending' \in Transfer!PendingPut /\ pending'.id = t
  <2>1. CASE size > 0 /\ pending' = [id |-> t, left |-> size] /\ Transfer!Ups(t, "collecting")
    <3>1. pending' \in Transfer!PendingPut /\ pending'.id = t
      BY <2>1, SizesAssumption DEF Transfer!PendingPut
    <3> QED
      BY <2>1, <3>1 DEF TransferInv, TransfersTyped, Transfer!Ups, UpStates
  <2>2. CASE pending' = None /\ \E s \in Transfer!Begun("writing empty") : Transfer!Ups(t, s)
    BY <2>2 DEF TransferInv, TransfersTyped, Transfer!Begun, Transfer!Ups, UpStates
  <2> QED
    BY <2>1, <2>2 DEF Transfer!Put
<1>2. UNCHANGED <<down, cancelled, answers, audited, calledOff, Heard, (conn[File] = "live")>>
  BY DEF Transfer!Put, Transfer!environment
<1>3. Transfer!Unused(t) /\ Transfer!Listening /\ answers[t] = <<>> /\ t \notin audited
  BY DEF TransferInv, AsPromised, UsedOnce, Transfer!Put
<1>4. TransfersTyped'
  BY <1>1, <1>2 DEF TransferInv, TransfersTyped
<1>5. ASSUME NEW u \in Ids, u # t PROVE AsPromised(u)'
  <2>1. AsPromised(u) /\ ~Transfer!IsPending(u)'
    BY <1>1, <1>5 DEF TransferInv, Transfer!IsPending
  <2> QED
    BY <1>1, <1>2, <1>5, <2>1, Untouched
<1>6. AsPromised(t)'
  <2>1. Transfer!Said(t)' = {} /\ Len(answers'[t]) = 0
    BY <1>2, <1>3, NothingSaid DEF Transfer!Said
  <2>2. UsedOnce(t)' /\ HeardFirst(t)'
    BY <1>1, <1>2, <1>3, <2>1 DEF UsedOnce, HeardFirst, Transfer!Unused, Transfer!Listening
  <2>3. Answered(t)'
    BY <1>1, <1>2, <1>3, <2>1 DEF Answered, Transfer!Unused
  <2> QED
    BY <2>2, <2>3 DEF AsPromised
<1> QED
  BY <1>4, <1>5, <1>6 DEF TransferInv

(* A frame moves the pending upload on, or begins to write it.             *)
LEMMA FrameInv == ASSUME TransferInv, Transfer!Frame PROVE TransferInv'
<1>1. UNCHANGED <<down, cancelled, answers, audited, calledOff, Heard, (conn[File] = "live")>>
  BY DEF Transfer!Frame, Transfer!environment
<1>2. PICK t \in Ids : t = pending.id /\ up[t] = "collecting" /\ pending \in Transfer!PendingPut /\ Transfer!Listening
  BY DEF Transfer!Frame, TransferInv, TransfersTyped, Transfer!PendingPut
<1>3. /\ up' \in [Ids -> UpStates] /\ up'[t] \in {"collecting", "writing", "stuck"}
      /\ \A u \in Ids : u # t => up'[u] = up[u]
      /\ pending' = None \/ (pending' \in Transfer!PendingPut /\ pending'.id = t /\ up'[t] = "collecting")
  <2>1. CASE pending.left > 1 /\ pending' = [pending EXCEPT !.left = @ - 1] /\ UNCHANGED up
    <3>1. pending' \in Transfer!PendingPut /\ pending'.id = t
      BY <1>2, <2>1 DEF Transfer!PendingPut
    <3> QED
      BY <1>2, <2>1, <3>1 DEF TransferInv, TransfersTyped
  <2>2. CASE pending' = None /\ \E s \in Transfer!Begun("writing") : Transfer!Ups(pending.id, s)
    <3>1. PICK s \in {"writing", "stuck"} : up' = [up EXCEPT ![t] = s]
      BY <1>2, <2>2 DEF Transfer!Begun, Transfer!Ups
    <3>2. up' \in [Ids -> UpStates] /\ up'[t] = s /\ \A u \in Ids : u # t => up'[u] = up[u]
      BY <1>2, <3>1 DEF TransferInv, TransfersTyped, UpStates
    <3>3. up'[t] \in {"collecting", "writing", "stuck"}
      BY <3>1, <3>2
    <3> QED
      BY <2>2, <3>2, <3>3
  <2>3. \/ pending.left > 1 /\ pending' = [pending EXCEPT !.left = @ - 1] /\ UNCHANGED up
        \/ pending' = None /\ \E s \in Transfer!Begun("writing") : Transfer!Ups(pending.id, s)
    BY DEF Transfer!Frame
  <2> QED
    BY <2>1, <2>2, <2>3
<1>4. TransfersTyped'
  BY <1>1, <1>2, <1>3 DEF TransferInv, TransfersTyped
<1>5. ASSUME NEW u \in Ids, u # t PROVE AsPromised(u)'
  <2>1. AsPromised(u) /\ ~Transfer!IsPending(u)'
    BY <1>3, <1>5 DEF TransferInv, Transfer!IsPending
  <2> QED
    BY <1>1, <1>3, <1>5, <2>1, Untouched
<1>6. AsPromised(t)'
  <2>1. Transfer!Said(t)' = Transfer!Said(t) /\ AsPromised(t)
    BY <1>1, <1>2 DEF Transfer!Said, TransferInv
  <2>2. "error" \notin Transfer!Said(t)' /\ down'[t] = "none" /\ up'[t] \in {"collecting", "writing", "stuck"}
    BY <1>1, <1>2, <1>3, <2>1 DEF AsPromised, UsedOnce
  <2>3. UsedOnce(t)' /\ HeardFirst(t)'
    BY <1>1, <1>2, <2>2 DEF UsedOnce, HeardFirst, Transfer!Unused, Transfer!Listening
  <2>4. Answered(t)'
    BY <2>2 DEF Answered
  <2> QED
    BY <2>3, <2>4 DEF AsPromised
<1> QED
  BY <1>2, <1>4, <1>5, <1>6 DEF TransferInv

-----------------------------------------------------------------------------
(* Streams.  A download's stream ends with its first answer, or without.   *)
LEMMA ChunkInv == ASSUME TransferInv, NEW t \in Ids, Transfer!Chunk(t) PROVE TransferInv'
<1>1. /\ down[t] = "reading" /\ down' \in [Ids -> DownStates] /\ down'[t] = "destroyed"
      /\ \A u \in Ids : u # t => down'[u] = down[u]
      /\ UNCHANGED <<up, pending, cancelled, answers, audited, calledOff, Heard, (conn[File] = "live")>>
  BY DEF Transfer!Chunk, Transfer!Downs, Transfer!environment, TransferInv, TransfersTyped, DownStates
<1>2. TransfersTyped'
  BY <1>1 DEF TransferInv, TransfersTyped
<1>3. ASSUME NEW u \in Ids, u # t PROVE AsPromised(u)'
  BY <1>1, <1>3, Untouched DEF TransferInv, Transfer!IsPending
<1>4. AsPromised(t)'
  <2>1. AsPromised(t) /\ Transfer!Said(t)' = Transfer!Said(t)
    BY <1>1 DEF TransferInv, Transfer!Said
  <2>2. up[t] = "none" /\ answers[t] = <<>> /\ t \notin audited /\ Heard # "none"
    BY <1>1, <2>1 DEF AsPromised, UsedOnce, HeardFirst, Transfer!Unused
  <2>3. Transfer!Said(t)' = {} /\ Len(answers'[t]) = 0
    BY <1>1, <2>1, <2>2, NothingSaid
  <2>4. UsedOnce(t)' /\ HeardFirst(t)'
    BY <1>1, <2>2, <2>3 DEF UsedOnce, HeardFirst, Transfer!Unused, Transfer!Running
  <2>5. Answered(t)'
    BY <1>1, <2>2, <2>3 DEF Answered
  <2> QED
    BY <2>4, <2>5 DEF AsPromised
<1> QED
  BY <1>2, <1>3, <1>4 DEF TransferInv

LEMMA ReadOverInv ==
    ASSUME TransferInv, NEW t \in Ids, NEW w \in {"done", "error"},
           down[t] = "reading", Transfer!Downs(t, "over"), Transfer!Answer(t, w),
           audited' = audited \/ (audited' = audited \cup {t} /\ w = "done"),
           UNCHANGED <<up, pending, cancelled, calledOff, Transfer!environment>>
    PROVE  TransferInv'
<1>1. /\ down' \in [Ids -> DownStates] /\ down'[t] = "over"
      /\ \A u \in Ids : u # t => down'[u] = down[u]
      /\ UNCHANGED <<up, pending, cancelled, calledOff, Heard, (conn[File] = "live")>>
  BY DEF Transfer!Downs, Transfer!environment, TransferInv, TransfersTyped, DownStates
<1>2. AsPromised(t) /\ TransfersTyped
  BY DEF TransferInv
<1>3. up[t] = "none" /\ answers[t] = <<>> /\ t \notin audited /\ Heard # "none" /\ Transfer!Said(t) = {}
  BY <1>2, NothingSaid DEF AsPromised, UsedOnce, HeardFirst, Transfer!Unused
<1>4. /\ answers' \in [Ids -> Answers] /\ \A u \in Ids : u # t => answers'[u] = answers[u]
      /\ Heard = "open" => answers'[t] # <<>>
      /\ Len(answers'[t]) <= 1 /\ \A v : v \in Transfer!Said(t)' => v = w
  BY <1>2, <1>3, AnswerOf
<1>5. TransfersTyped'
  BY <1>1, <1>2, <1>4 DEF TransfersTyped
<1>6. ASSUME NEW u \in Ids, u # t PROVE AsPromised(u)'
  <2>1. AsPromised(u) /\ (u \in audited' => u \in audited) /\ (Transfer!IsPending(u)' => Transfer!IsPending(u))
    BY <1>1, <1>6 DEF TransferInv, Transfer!IsPending
  <2> QED
    BY <1>1, <1>4, <1>6, <2>1, Untouched
<1>7. ~Transfer!IsPending(t)'
  BY <1>1, <1>2, <1>3 DEF Transfer!IsPending, TransfersTyped
<1>8. UsedOnce(t)' /\ HeardFirst(t)'
  BY <1>1, <1>3 DEF UsedOnce, HeardFirst, Transfer!Unused, Transfer!Running
<1>9. Answered(t)'
  <2>1. t \in audited' => "error" \notin Transfer!Said(t)'
    BY <1>3, <1>4
  <2> QED
    BY <1>1, <1>4, <1>7, <2>1 DEF Answered
<1> QED
  BY <1>5, <1>6, <1>8, <1>9 DEF TransferInv, AsPromised

LEMMA ReadFailsInv == ASSUME TransferInv, NEW t \in Ids, Transfer!ReadFails(t) PROVE TransferInv'
<1>1. /\ down[t] = "reading" /\ Transfer!Downs(t, "over") /\ Transfer!Answer(t, "error") /\ audited' = audited
      /\ UNCHANGED <<up, pending, cancelled, calledOff, Transfer!environment>>
  BY DEF Transfer!ReadFails
<1>2. "error" \in {"done", "error"}
  OBVIOUS
<1>3. audited' = audited \/ (audited' = audited \cup {t} /\ "error" = "done")
  BY <1>1
<1> QED
  BY <1>1, <1>2, <1>3, ReadOverInv, Zenon

LEMMA ReadEndsInv == ASSUME TransferInv, NEW t \in Ids, Transfer!ReadEnds(t) PROVE TransferInv'
<1>1. /\ down[t] = "reading" /\ Transfer!Downs(t, "over")
      /\ UNCHANGED <<up, pending, cancelled, calledOff, Transfer!environment>>
  BY DEF Transfer!ReadEnds
<1>2. CASE cancelled
  <2>1. Transfer!Answer(t, "error") /\ audited' = audited
    BY <1>2 DEF Transfer!ReadEnds
  <2>2. "error" \in {"done", "error"}
    OBVIOUS
  <2>3. audited' = audited \/ (audited' = audited \cup {t} /\ "error" = "done")
    BY <2>1
  <2> QED
    BY <1>1, <2>1, <2>2, <2>3, ReadOverInv, Zenon
<1>3. CASE ~cancelled
  <2>1. Transfer!Answer(t, "done") /\ audited' = audited \cup {t}
    BY <1>3 DEF Transfer!ReadEnds
  <2> QED
    BY <1>1, <2>1, ReadOverInv
<1> QED
  BY <1>2, <1>3

(* An upload's stream: its answers are its own.                            *)
LEMMA WriteInv ==
    ASSUME TransferInv, NEW t \in Ids, NEW w \in {"done", "error"}, NEW s \in {"failed", "over"},
           up[t] \in {"writing", "failed"}, Transfer!Ups(t, s), Transfer!Answer(t, w),
           audited' = audited \/ audited' = audited \cup {t},
           UNCHANGED <<down, pending, cancelled, calledOff, Transfer!environment>>
    PROVE  TransferInv'
<1>1. /\ up' \in [Ids -> UpStates] /\ up'[t] = s
      /\ \A u \in Ids : u # t => up'[u] = up[u]
      /\ UNCHANGED <<down, pending, cancelled, calledOff, Heard, (conn[File] = "live")>>
  BY DEF Transfer!Ups, Transfer!environment, TransferInv, TransfersTyped, UpStates
<1>2. AsPromised(t) /\ TransfersTyped
  BY DEF TransferInv
<1>3. down[t] = "none" /\ Heard # "none" /\ ~Transfer!IsPending(t)
  BY <1>2 DEF AsPromised, UsedOnce, HeardFirst, Transfer!Unused, Transfer!IsPending, TransfersTyped
<1>4. /\ answers' \in [Ids -> Answers] /\ \A u \in Ids : u # t => answers'[u] = answers[u]
      /\ Heard = "open" => answers'[t] # <<>>
  BY <1>2, AnswerOf
<1>5. TransfersTyped'
  <2>1. pending # None => up'[pending.id] = "collecting"
    BY <1>1, <1>2, <1>3 DEF TransfersTyped, Transfer!IsPending, Transfer!PendingPut
  <2> QED
    BY <1>1, <1>2, <1>4, <2>1 DEF TransfersTyped
<1>6. ASSUME NEW u \in Ids, u # t PROVE AsPromised(u)'
  <2>1. AsPromised(u) /\ (u \in audited' => u \in audited) /\ (Transfer!IsPending(u)' => Transfer!IsPending(u))
    BY <1>1, <1>6 DEF TransferInv, Transfer!IsPending
  <2> QED
    BY <1>1, <1>4, <1>6, <2>1, Untouched
<1>7. ~Transfer!IsPending(t)'
  BY <1>1, <1>3 DEF Transfer!IsPending
<1>8. UsedOnce(t)' /\ HeardFirst(t)'
  <2>1. UsedOnce(t)'
    BY <1>1, <1>3 DEF UsedOnce, Transfer!Unused
  <2>2. HeardFirst(t)'
    BY <1>1, <1>3 DEF HeardFirst, Transfer!Running
  <2> QED
    BY <2>1, <2>2
<1>9. Answered(t)'
  BY <1>1, <1>3, <1>4, <1>7 DEF Answered
<1> QED
  BY <1>5, <1>6, <1>8, <1>9 DEF TransferInv, AsPromised

LEMMA WriteFailsInv == ASSUME TransferInv, NEW t \in Ids, Transfer!WriteFails(t) PROVE TransferInv'
BY WriteInv DEF Transfer!WriteFails

LEMMA WriteClosesInv == ASSUME TransferInv, NEW t \in Ids, Transfer!WriteCloses(t) PROVE TransferInv'
BY WriteInv DEF Transfer!WriteCloses

LEMMA EmptyClosesInv == ASSUME TransferInv, NEW t \in Ids, Transfer!EmptyCloses(t) PROVE TransferInv'
<1>1. /\ up' \in [Ids -> UpStates] /\ up[t] = "writing empty" /\ up'[t] = "closed"
      /\ \A u \in Ids : u # t => up'[u] = up[u]
      /\ UNCHANGED <<down, pending, cancelled, audited, calledOff, Heard, (conn[File] = "live")>>
  BY DEF Transfer!EmptyCloses, Transfer!Ups, Transfer!environment, TransferInv, TransfersTyped, UpStates
<1>2. AsPromised(t) /\ TransfersTyped
  BY DEF TransferInv
<1>3. down[t] = "none" /\ Heard # "none" /\ ~Transfer!IsPending(t)
  BY <1>1, <1>2 DEF AsPromised, UsedOnce, HeardFirst, Transfer!Unused, Transfer!IsPending, TransfersTyped
<1>4. pending # None => up'[pending.id] = "collecting"
  BY <1>1, <1>2, <1>3 DEF TransfersTyped, Transfer!IsPending, Transfer!PendingPut
\* The one answered, if any, is the upload that still lacks frames.
<1>5. /\ answers' \in [Ids -> Answers]
      /\ \A u \in Ids : ~Transfer!IsPending(u) => answers'[u] = answers[u]
      /\ \A u \in Ids : "error" \in Transfer!Said(u)' => "error" \in Transfer!Said(u)
  <2>1. CASE pending = None
    BY <1>2, <2>1 DEF Transfer!EmptyCloses, Transfer!IsPending, TransfersTyped, Transfer!Said
  <2>2. CASE pending # None
    <3>1. PICK p \in Ids : p = pending.id
      BY <1>2, <2>2 DEF TransfersTyped, Transfer!PendingPut
    <3>2. Transfer!Answer(p, "done")
      BY <2>2, <3>1 DEF Transfer!EmptyCloses
    <3>3. /\ answers' \in [Ids -> Answers] /\ \A u \in Ids : u # p => answers'[u] = answers[u]
          /\ \A v : v \in Transfer!Said(p)' => v \in Transfer!Said(p) \/ v = "done"
      BY <1>2, <3>2, AnswerOf
    <3>4. ASSUME NEW u \in Ids, "error" \in Transfer!Said(u)' PROVE "error" \in Transfer!Said(u)
      <4>1. CASE u = p
        BY <3>3, <3>4, <4>1
      <4>2. CASE u # p
        BY <3>3, <3>4, <4>2 DEF Transfer!Said
      <4> QED
        BY <4>1, <4>2
    <3> QED
      BY <2>2, <3>1, <3>3, <3>4 DEF Transfer!IsPending
  <2> QED
    BY <2>1, <2>2
<1>6. TransfersTyped'
  BY <1>1, <1>2, <1>4, <1>5 DEF TransfersTyped
<1>7. ASSUME NEW u \in Ids PROVE AsPromised(u)'
  <2>1. AsPromised(u) /\ (Transfer!IsPending(u)' <=> Transfer!IsPending(u))
    BY <1>1 DEF TransferInv, Transfer!IsPending
  <2>2. CASE u # t /\ ~Transfer!IsPending(u)
    BY <1>1, <1>5, <2>1, <2>2, Untouched
  <2>3. CASE u = t
    <3>1. answers'[t] = answers[t] /\ Transfer!Said(t)' = Transfer!Said(t)
      BY <1>3, <1>5 DEF Transfer!Said
    <3> QED
      BY <1>1, <1>3, <2>1, <2>3, <3>1 DEF AsPromised, UsedOnce, HeardFirst, Answered, Transfer!Unused, Transfer!Running
  <2>4. CASE u # t /\ Transfer!IsPending(u)
    <3>1. up[u] = "collecting" /\ up'[u] = "collecting" /\ down'[u] = "none" /\ down[u] = "none"
      BY <1>1, <1>2, <2>1, <2>4 DEF Transfer!IsPending, TransfersTyped, AsPromised, UsedOnce
    <3>2. "error" \notin Transfer!Said(u)'
      BY <1>5, <2>1, <3>1 DEF AsPromised, UsedOnce
    <3>3. Heard' # "none"
      BY <1>1, <1>3
    <3> QED
      BY <3>1, <3>2, <3>3 DEF AsPromised, UsedOnce, HeardFirst, Answered, Transfer!Unused, Transfer!Running
  <2> QED
    BY <2>2, <2>3, <2>4
<1> QED
  BY <1>6, <1>7 DEF TransferInv

-----------------------------------------------------------------------------
(* A cancel answers the pending upload, which is over, and nothing else.   *)
LEMMA CancelInv == ASSUME TransferInv, Transfer!Cancel PROVE TransferInv'
<1>1. UNCHANGED <<down, audited, Heard, (conn[File] = "live")>> /\ calledOff' /\ cancelled' /\ pending' = None /\ Transfer!Listening
  BY DEF Transfer!Cancel, Transfer!environment
<1>2. \A u \in Ids : ~Transfer!IsPending(u)'
  BY <1>1 DEF Transfer!IsPending
<1>3. CASE pending = None
  <2>1. UNCHANGED <<answers, up>>
    BY <1>3 DEF Transfer!Cancel
  <2>2. TransfersTyped'
    BY <1>1, <2>1 DEF TransferInv, TransfersTyped
  <2>3. ASSUME NEW u \in Ids PROVE AsPromised(u)'
    BY <1>1, <1>2, <2>1, Untouched DEF TransferInv
  <2> QED
    BY <2>2, <2>3 DEF TransferInv
<1>4. CASE pending # None
  <2>1. PICK p \in Ids : p = pending.id /\ up[p] = "collecting"
    BY <1>4 DEF TransferInv, TransfersTyped, Transfer!PendingPut
  <2>2. Transfer!Answer(p, "error") /\ Transfer!Ups(p, "over")
    BY <1>4, <2>1 DEF Transfer!Cancel
  <2>3. up' \in [Ids -> UpStates] /\ up'[p] = "over" /\ \A u \in Ids : u # p => up'[u] = up[u]
    BY <2>2 DEF Transfer!Ups, TransferInv, TransfersTyped, UpStates
  <2>4. answers' \in [Ids -> Answers] /\ \A u \in Ids : u # p => answers'[u] = answers[u]
    BY <2>2, AnswerOf DEF TransferInv
  <2>5. TransfersTyped'
    BY <1>1, <2>3, <2>4 DEF TransferInv, TransfersTyped
  <2>6. ASSUME NEW u \in Ids, u # p PROVE AsPromised(u)'
    <3>1. AsPromised(u) /\ ~Transfer!IsPending(u)'
      BY <1>2 DEF TransferInv
    <3> QED
      BY <1>1, <2>3, <2>4, <2>6, <3>1, Untouched
  <2>7. AsPromised(p)'
    <3>1. down'[p] = "none" /\ ~Transfer!IsPending(p)'
      BY <1>1, <1>2, <2>1 DEF TransferInv, AsPromised, UsedOnce
    <3> QED
      BY <1>1, <2>3, <3>1 DEF AsPromised, UsedOnce, HeardFirst, Answered, Transfer!Unused, Transfer!Running, Transfer!Listening
  <2> QED
    BY <2>5, <2>6, <2>7 DEF TransferInv
<1> QED
  BY <1>3, <1>4

LEMMA HandleInv == ASSUME TransferInv, Transfer!Handle PROVE TransferInv'
BY GetInv, PutInv, FrameInv, ChunkInv, ReadFailsInv, ReadEndsInv, WriteFailsInv, WriteClosesInv,
   EmptyClosesInv, CancelInv DEF Transfer!Handle

-----------------------------------------------------------------------------
(* What happens around the transfers.                                      *)
LEMMA ProcessEndsInv == ASSUME TransferInv, Transfer!ProcessEnds PROVE TransferInv'
<1>1. /\ down' = [t \in Ids |-> IF down[t] = "reading" THEN "destroyed" ELSE down[t]]
      /\ up' = [t \in Ids |-> IF up[t] = "none" THEN "none" ELSE "over"]
      /\ pending' = None /\ Heard' = "closed" /\ (conn'[File] = "live") = FALSE
      /\ UNCHANGED <<cancelled, answers, audited, calledOff>>
  BY DEF Transfer!ProcessEnds
<1>2. TransfersTyped'
  <2>1. down' \in [Ids -> DownStates] /\ up' \in [Ids -> UpStates]
    BY <1>1 DEF TransferInv, TransfersTyped, DownStates, UpStates
  <2> QED
    BY <1>1, <2>1 DEF TransferInv, TransfersTyped
<1>3. ASSUME NEW u \in Ids PROVE AsPromised(u)'
  <2>1. AsPromised(u) /\ Transfer!Said(u)' = Transfer!Said(u) /\ ~Transfer!IsPending(u)'
    BY <1>1 DEF TransferInv, Transfer!Said, Transfer!IsPending
  <2>2. /\ down'[u] = (IF down[u] = "reading" THEN "destroyed" ELSE down[u])
        /\ up'[u] = (IF up[u] = "none" THEN "none" ELSE "over") /\ answers'[u] = answers[u]
    BY <1>1
  <2>3. UsedOnce(u)'
    BY <1>1, <2>1, <2>2 DEF AsPromised, UsedOnce, Transfer!Unused
  <2>4. HeardFirst(u)' 
    BY <1>1 DEF HeardFirst
  <2>5. Answered(u)'
    <3>1. down[u] = "reading" => Len(answers[u]) <= 1 /\ u \notin audited
      BY <2>1, NothingSaid DEF AsPromised, UsedOnce
    <3> QED
      BY <1>1, <2>1, <2>2, <3>1 DEF AsPromised, Answered
  <2> QED
    BY <2>3, <2>4, <2>5 DEF AsPromised
<1> QED
  BY <1>2, <1>3 DEF TransferInv

LEMMA EnvironmentInv == ASSUME TransferInv, Transfer!Environment PROVE TransferInv'
<1>1. UNCHANGED <<down, up, pending, cancelled, answers, audited, calledOff>>
  BY DEF Transfer!Environment, Transfer!transfers
<1>2. /\ Heard' \in {"none", "open", "closing", "closed"} /\ (conn'[File] = "live") \in BOOLEAN
      /\ Heard' = "none" => Heard = "none"
      /\ Heard' = "open" => Heard = "open" \/ Heard = "none"
      /\ Heard' = "closed" /\ (conn'[File] = "live") => Heard = "none" \/ (Heard = "closed" /\ (conn[File] = "live"))
  <2>1. Heard \in {"none", "open", "closing", "closed"}
    BY DEF TransferInv, TransfersTyped
  <2>2. /\ Heard' \in {"none", "open", "closing", "closed"}
        /\ Heard' = "none" => Heard = "none"
        /\ Heard' = "open" => Heard = "open" \/ Heard = "none"
    BY <2>1 DEF Transfer!Environment
  <2>3. ASSUME Heard' = "closed", (conn'[File] = "live") PROVE Heard = "none" \/ (Heard = "closed" /\ (conn[File] = "live"))
    <3>1. ~Transfer!Listening /\ ((conn[File] = "live") \/ Heard = "none")
      BY <2>3 DEF Transfer!Environment
    <3> QED
      BY <2>1, <3>1 DEF Transfer!Listening
  <2>4. (conn'[File] = "live") \in BOOLEAN
    BY DEF Transfer!Environment
  <2> QED
    BY <2>2, <2>3, <2>4
<1>3. TransfersTyped'
  BY <1>1, <1>2 DEF TransferInv, TransfersTyped
<1>4. ASSUME NEW u \in Ids PROVE AsPromised(u)'
  <2>1. AsPromised(u) /\ Transfer!Said(u)' = Transfer!Said(u)
    BY <1>1 DEF TransferInv, Transfer!Said
  <2>2. UsedOnce(u)'
    BY <1>1, <2>1 DEF AsPromised, UsedOnce, Transfer!Unused
  <2>3. HeardFirst(u)'
    BY <1>1, <1>2, <2>1 DEF AsPromised, HeardFirst, Transfer!Unused, Transfer!Running
  <2>4. Answered(u)'
    BY <1>1, <1>2, <2>1 DEF AsPromised, Answered, HeardFirst, Transfer!Unused, Transfer!IsPending
  <2> QED
    BY <2>2, <2>3, <2>4 DEF AsPromised
<1> QED
  BY <1>3, <1>4 DEF TransferInv

LEMMA TransferStutterInv == ASSUME TransferInv, UNCHANGED Transfer!vars PROVE TransferInv'
<1>1. UNCHANGED <<down, up, pending, cancelled, answers, audited, calledOff, Heard, (conn[File] = "live")>>
  BY DEF Transfer!vars, Transfer!transfers, Transfer!environment
<1>2. TransfersTyped'
  BY <1>1 DEF TransferInv, TransfersTyped
<1>3. ASSUME NEW u \in Ids PROVE AsPromised(u)'
  BY <1>1, Untouched DEF TransferInv, Transfer!IsPending
<1> QED
  BY <1>2, <1>3 DEF TransferInv

LEMMA TransferNextInv == TransferInv /\ [Transfer!Next]_(Transfer!vars) => TransferInv'
<1> SUFFICES ASSUME TransferInv, [Transfer!Next]_(Transfer!vars) PROVE TransferInv'
  OBVIOUS
<1>1. CASE Transfer!Handle
  BY <1>1, HandleInv
<1>2. CASE Transfer!ProcessEnds \/ \E t \in Ids : Transfer!EmptyFails(t)
  BY <1>2, ProcessEndsInv DEF Transfer!EmptyFails
<1>3. CASE Transfer!Environment
  BY <1>3, EnvironmentInv
<1>4. CASE UNCHANGED Transfer!vars
  BY <1>4, TransferStutterInv
<1> QED
  BY <1>1, <1>2, <1>3, <1>4 DEF Transfer!Next

LEMMA TransferSpecInv == Transfer!Spec => []TransferInv
BY TransferInitInv, TransferNextInv, PTL DEF Transfer!Spec

-----------------------------------------------------------------------------
(* The state of transfers and of their streams (session/sftp-ws.ts).       *)
THEOREM TransfersAlwaysTyped == Transfer!Spec => []Transfer!TypeOK
<1>1. TransferInv => Transfer!TypeOK
  BY DEF TransferInv, TransfersTyped, Transfer!TypeOK, DownStates, UpStates, Answers
<1> QED
  BY <1>1, TransferSpecInv, PTL

(* US3 scenario 4: a download is answered once, and truthfully, however    *)
(* many others stream, fail or are cancelled beside it.                    *)
THEOREM DownloadsAnsweredOnce == Transfer!Spec => []DownloadAnsweredOnce
<1>1. TransferInv => DownloadAnsweredOnce
  BY DEF TransferInv, AsPromised, Answered, DownloadAnsweredOnce, Transfer!DownloadAnsweredOnce
<1> QED
  BY <1>1, TransferSpecInv, PTL

(* No frames, and no chunks, after an error (session/sftp-ws.ts:94).       *)
THEOREM ErrorsAreFinal == Transfer!Spec => []ErrorIsFinal
<1>1. TransferInv => ErrorIsFinal
  BY DEF TransferInv, AsPromised, Answered, ErrorIsFinal, Transfer!ErrorIsFinal
<1> QED
  BY <1>1, TransferSpecInv, PTL

(* The cleanup of the session takes its transfers with it.                 *)
THEOREM NoneOutlivesSocket == Transfer!Spec => []NoTransferOutlivesSocket
<1>1. TransferInv => NoTransferOutlivesSocket
  <2> SUFFICES ASSUME TransferInv, (conn[File] = "live"), NEW t \in Ids, Transfer!Running(t) PROVE Transfer!Listening
    BY DEF NoTransferOutlivesSocket, Transfer!NoTransferOutlivesSocket
  <2>1. HeardFirst(t) /\ Heard \in {"none", "open", "closing", "closed"}
    BY DEF TransferInv, AsPromised, TransfersTyped
  <2> QED
    BY <2>1 DEF HeardFirst, Transfer!Unused, Transfer!Running, Transfer!Listening
<1> QED
  BY <1>1, TransferSpecInv, PTL

(* Without a cancel every transfer that is over was answered.              *)
THEOREM Answering == Transfer!Spec => []AnsweredUnlessCancelled
<1>1. TransferInv => AnsweredUnlessCancelled
  BY DEF TransferInv, AsPromised, Answered, AnsweredUnlessCancelled, Transfer!AnsweredUnlessCancelled
<1> QED
  BY <1>1, TransferSpecInv, PTL

-----------------------------------------------------------------------------
(* And so for the transfers of a session, whose environment is one of them.*)
LEMMA SessionIsServed == SessionSpec => Transfer!Spec
BY SessionServesTransfers DEF TransfersAreServed

(* US3 scenario 4, of a download within its session: one answer, and a    *)
(* truthful one, whoever closes, sweeps or drops the session meanwhile.    *)
THEOREM SessionDownloads == SessionSpec => []DownloadAnsweredOnce
BY SessionIsServed, DownloadsAnsweredOnce, PTL

(* Nothing is collected or streamed after an error, in any session         *)
(* (session/sftp-ws.ts:94).                                                *)
THEOREM SessionErrors == SessionSpec => []ErrorIsFinal
BY SessionIsServed, ErrorsAreFinal, PTL

(* A session that was heard to close leaves no stream running on its       *)
(* connection (session/sftp-ws.ts, cleanup).                               *)
THEOREM SessionTakesTransfers == SessionSpec => []NoTransferOutlivesSocket
BY SessionIsServed, NoneOutlivesSocket, PTL

(* Without a cancel each transfer of an open session that is over was      *)
(* answered, whatever else the session carries.                            *)
THEOREM SessionAnswers == SessionSpec => []AnsweredUnlessCancelled
BY SessionIsServed, Answering, PTL
=============================================================================
