------------------------------ MODULE WebGate ------------------------------
(***************************************************************************)
(* How the web client leads its operator in (frontend/src/app/App.tsx Gate *)
(* and Shell, app/auth.tsx, pages/Setup.tsx, Login.tsx, Unlock.tsx).       *)
(*                                                                         *)
(* The client knows the backend by the answer to its last GET              *)
(* /vault/status, which it asks for when it is loaded and after each form. *)
(* Whether the operator is signed in it cannot tell (App.tsx:25).          *)
(***************************************************************************)
EXTENDS Naturals, Entry
\* Definitions named Mut... are deliberate bugs, each tried in place of the
\* definition it precedes to see that a property notices; nothing else uses them.

CONSTANT None

VARIABLES
    page,       \* the page at the browser's address
    status,     \* the vault status the client holds
    boot,       \* the request for it that a loading client makes, with its answer
    form        \* the form being submitted, with the status asked for afterwards

gateVars == <<backend, page, status, boot, form>>

Shell == {"servers", "devices"}
Pages == Shell \cup {"setup", "login", "unlock"}

InitGate ==
    /\ EntryInit
    /\ page = "servers"
    /\ status = None
    /\ boot = [got |-> None] /\ form = None

Reported == [exists |-> exists, unlocked |-> open]
Shown    == page \in Shell /\ status # None      \* a page within the Shell is mounted

\* Where the Gate sends who asks for page p.
Gated(p, st) ==
    IF p \notin Shell THEN p
    ELSE IF ~st.exists THEN "setup" ELSE IF ~st.unlocked THEN "unlock" ELSE p

Arrived(p, st) == status' = st /\ page' = Gated(p, st)

(* An address is typed, or the page reloaded: the client starts anew.      *)
Visit(p) ==
    /\ page' = p
    /\ status' = None
    /\ boot' = [got |-> None] /\ form' = None

-----------------------------------------------------------------------------
(* The status asked for when the client loads; it may come late.           *)
BootAnswered ==
    /\ boot # None /\ boot.got = None /\ boot' = [got |-> Reported]
    /\ UNCHANGED <<backend, page, status, form>>

BootArrives ==
    /\ boot # None /\ boot.got # None /\ boot' = None
    /\ Arrived(page, boot.got)
    /\ UNCHANGED <<backend, form>>

BootFails ==
    /\ boot # None /\ boot' = None
    /\ UNCHANGED <<backend, page, status, form>>

-----------------------------------------------------------------------------
(* Forms.  A refused one shows a message and changes nothing.              *)
Submits(p) == page = p /\ form = None /\ form' = [page |-> p, got |-> None]

SubmitSetup ==
    /\ Submits("setup") /\ SetUp
    /\ UNCHANGED <<page, status, boot>>

SubmitLogin ==
    /\ Submits("login") /\ SignIn
    /\ UNCHANGED <<page, status, boot>>

SubmitUnlock ==
    /\ Submits("unlock") /\ signedIn /\ Unlock
    /\ UNCHANGED <<page, status, boot>>

FormAnswered ==
    /\ form # None /\ form.got = None /\ form' = [form EXCEPT !.got = Reported]
    /\ UNCHANGED <<backend, page, status, boot>>

\* The refreshed status, and then the page the form leads to.
MutKeepsStatus ==
    /\ form # None /\ form.got # None /\ form' = None
    /\ status' = status
    /\ page' = IF status = None THEN page ELSE Gated("servers", status)
    /\ UNCHANGED <<backend, boot>>
FormArrives ==
    /\ form # None /\ form.got # None /\ form' = None
    /\ Arrived(IF form.page = "login" THEN "unlock" ELSE "servers", form.got)
    /\ UNCHANGED <<backend, boot>>

FormFails ==
    /\ form # None /\ form' = None
    /\ UNCHANGED <<backend, page, status, boot>>

-----------------------------------------------------------------------------
(* Within the Shell.                                                       *)
Link(p) ==
    /\ Shown /\ p \in Shell \ {page} /\ page' = p
    /\ UNCHANGED <<backend, status, boot, form>>

Logout ==
    /\ Shown /\ Visit("login")
    /\ SignOut \/ UNCHANGED backend

(* The operator sees that a page gets nowhere, and types another address:  *)
(* no page does it for them.                                               *)
StartOver(p) ==
    /\ boot = None /\ form = None /\ Visit(p)
    /\ \/ ~exists /\ page # "setup" /\ p = "servers"
       \/ exists /\ page = "setup" /\ p = "servers"
       \/ exists /\ ~signedIn /\ page # "login" /\ p = "login"
       \/ signedIn /\ page \in Shell /\ (status = None \/ ~open) /\ p = page
    /\ UNCHANGED backend

\* What befalls the client: any address, a restart of the backend, the end
\* of its session.
Wander  == \E p \in Pages : Visit(p) /\ UNCHANGED backend
Restart == open /\ Lock /\ UNCHANGED <<page, status, boot, form>>
Expire  == signedIn /\ SignOut /\ UNCHANGED <<page, status, boot, form>>

GateStep == BootAnswered \/ BootArrives \/ FormAnswered \/ FormArrives
Submit   == SubmitSetup \/ SubmitLogin \/ SubmitUnlock
Mishap   == BootFails \/ FormFails \/ Logout \/ Wander \/ Restart \/ Expire
=============================================================================
