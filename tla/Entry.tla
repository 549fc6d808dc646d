------------------------------- MODULE Entry -------------------------------
(***************************************************************************)
(* What the backend promises to a browser about getting in: an operator is *)
(* set up once, with a session and an open vault, and stays; only one who  *)
(* exists signs in or unlocks.  Access implements this; WebGate is built   *)
(* on it.                                                                  *)
(***************************************************************************)
VARIABLES
    exists,    \* there is an operator
    open,      \* their vault is open
    signedIn   \* they have a session

backend == <<exists, open, signedIn>>

EntryInit == exists \in BOOLEAN /\ open = FALSE /\ signedIn = FALSE

(* The one setup leaves nothing more to do. *)
SetUp == ~exists /\ exists' = TRUE /\ open' = TRUE /\ signedIn' = TRUE

SignIn  == exists /\ signedIn' = TRUE /\ UNCHANGED <<exists, open>>
SignOut == signedIn' = FALSE /\ UNCHANGED <<exists, open>>

Unlock == exists /\ open' = TRUE /\ UNCHANGED <<exists, signedIn>>

(* Asked for, or a restart: it ends no session. *)
Lock == open' = FALSE /\ UNCHANGED <<exists, signedIn>>

EntryNext == SetUp \/ SignIn \/ SignOut \/ Unlock \/ Lock

EntrySpec == EntryInit /\ [][EntryNext]_backend
=============================================================================
