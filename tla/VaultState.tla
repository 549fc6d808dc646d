---------------------------- MODULE VaultState ----------------------------
(***************************************************************************)
(* What the vault promises to the rest of the program: a data-encryption   *)
(* key is chosen once and never replaced, and it is in memory (open) or    *)
(* not.  Vault implements this; Access is built on it.                     *)
(***************************************************************************)
CONSTANTS
    Deks,    \* data-encryption keys
    None

ASSUME NoDekAssumption == None \notin Deks

VARIABLES
    key,     \* the key the stored secrets are encrypted with, None before setup
    open     \* the key is in memory

keyVars == <<key, open>>

Uninitialized == key = None /\ open = FALSE

\* A deliberate bug, to see that a property notices; nothing else uses it.
MutChoosesLocked == key = None /\ key' \in Deks /\ open' = open
(* initVault leaves the vault open, so that setup can go on. *)
Choose ==
    /\ key = None
    /\ key' \in Deks
    /\ open' = TRUE

Open ==
    /\ key # None
    /\ open' = TRUE
    /\ key' = key

(* lock, or a restart of the process. *)
Close ==
    /\ open' = FALSE
    /\ key' = key

VaultSpec == Uninitialized /\ [][Choose \/ Open \/ Close]_keyVars
=============================================================================
