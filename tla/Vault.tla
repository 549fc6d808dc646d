------------------------------- MODULE Vault -------------------------------
(***************************************************************************)
(* The secret vault (crypto/vault.ts): a random data-encryption key (DEK)  *)
(* is stored wrapped by a key derived from the master passphrase, and kept *)
(* in memory while the vault is unlocked.  Deriving a key awaits Argon2,   *)
(* so setups, unlocks and passphrase changes interleave with each other,   *)
(* with lock and with a restart, each with the row it read at its start.   *)
(***************************************************************************)
EXTENDS Naturals
\* Definitions named Mut... are deliberate bugs, each tried in place of the
\* definition it precedes to see that a property notices; nothing else uses them.

CONSTANTS
    Passphrases,
    Deks,
    Requests,    \* requests that may be in flight at the same time
    MaxEvents,   \* bound: requests begun, locks and restarts over a run
    None

ASSUME BoundAssumption == MaxEvents \in Nat
ASSUME NoneAssumption  == None \notin Deks /\ None \notin [pass : Passphrases, dek : Deks]

VARIABLES
    stored,   \* the vault_state row: whose passphrase wraps which DEK
    dek,      \* the DEK in memory, None while locked
    sealed,   \* the DEKs that some stored secret is encrypted with
    req,      \* what each request is doing
    events    \* how many requests, locks and restarts (only bounds the model)

vars == <<stored, dek, sealed, req, events>>

StoredRow == [pass : Passphrases, dek : Deks]
Idle      == [op |-> "idle"]

Request ==
    {Idle}
    \cup [op : {"init"}, pass : Passphrases]
    \cup [op : {"unlock"}, pass : Passphrases, row : StoredRow]
    \cup [op : {"verify"}, current : Passphrases, new : Passphrases, row : StoredRow]
    \cup [op : {"rewrap"}, current : Passphrases, new : Passphrases, dek : Deks]

(* unwrap: the authenticated cipher opens only under the right passphrase. *)
Unwrap(row, pass) == IF row.pass = pass THEN row.dek ELSE None

Event         == events < MaxEvents /\ events' = events + 1
Goto(r, what) == req' = [req EXCEPT ![r] = what]
Begin(r, what) == req[r] = Idle /\ Event /\ Goto(r, what) /\ UNCHANGED <<stored, dek, sealed>>

Init ==
    /\ stored = None
    /\ dek = None
    /\ sealed = {}
    /\ req = [r \in Requests |-> Idle]
    /\ events = 0

(* initVault checks for a row, awaits the derivation, and inserts; a row   *)
(* that appeared meanwhile makes the INSERT fail on its primary key, and   *)
(* the DEK in memory is only set after it.                                 *)
InitBegin(r, p) == stored = None /\ Begin(r, [op |-> "init", pass |-> p])

MutKeyBeforeInsert(r) ==
    /\ req[r].op = "init"
    /\ \E d \in Deks :
         /\ stored' = IF stored = None THEN [pass |-> req[r].pass, dek |-> d] ELSE stored
         /\ dek' = d
    /\ Goto(r, Idle)
    /\ UNCHANGED <<sealed, events>>
MutStaysLocked(r) ==
    /\ req[r].op = "init"
    /\ \E d \in Deks :
         stored' = IF stored = None THEN [pass |-> req[r].pass, dek |-> d] ELSE stored
    /\ Goto(r, Idle)
    /\ UNCHANGED <<dek, sealed, events>>
InitStore(r) ==
    /\ req[r].op = "init"
    /\ \/ /\ stored = None
          /\ \E d \in Deks :
               /\ stored' = [pass |-> req[r].pass, dek |-> d]
               /\ dek' = d
       \/ stored # None /\ UNCHANGED <<stored, dek>>
    /\ Goto(r, Idle)
    /\ UNCHANGED <<sealed, events>>

(* unlock reads the row, awaits the derivation, and unwraps what it read. *)
UnlockBegin(r, p) == stored # None /\ Begin(r, [op |-> "unlock", pass |-> p, row |-> stored])

UnlockEnd(r) ==
    /\ req[r].op = "unlock"
    /\ LET d == Unwrap(req[r].row, req[r].pass)
       IN  dek' = IF d = None THEN dek ELSE d
    /\ Goto(r, Idle)
    /\ UNCHANGED <<stored, sealed, events>>

(* changePassphrase reads the row, awaits the old key, unwraps, awaits the *)
(* new key, and stores the same DEK under it.                              *)
ChangeBegin(r, p, q) ==
    stored # None /\ Begin(r, [op |-> "verify", current |-> p, new |-> q, row |-> stored])

ChangeVerify(r) ==
    /\ req[r].op = "verify"
    /\ LET d == Unwrap(req[r].row, req[r].current)
       IN  Goto(r, IF d = None THEN Idle
                   ELSE [op |-> "rewrap", current |-> req[r].current, new |-> req[r].new,
                         dek |-> d])
    /\ UNCHANGED <<stored, dek, sealed, events>>

ChangeStore(r) ==
    /\ req[r].op = "rewrap"
    /\ stored' = [pass |-> req[r].new, dek |-> req[r].dek]
    /\ dek' = req[r].dek
    /\ Goto(r, Idle)
    /\ UNCHANGED <<sealed, events>>

Lock ==
    /\ dek # None /\ dek' = None
    /\ Event
    /\ UNCHANGED <<stored, sealed, req>>

Restart ==
    /\ dek' = None
    /\ req' = [r \in Requests |-> Idle]
    /\ Event
    /\ UNCHANGED <<stored, sealed>>

(* encryptSecret, by any repository that stores an encrypted field. *)
Seal ==
    /\ dek # None
    /\ sealed' = sealed \cup {dek}
    /\ UNCHANGED <<stored, dek, req, events>>

Next ==
    \/ \E r \in Requests, p \in Passphrases :
          InitBegin(r, p) \/ UnlockBegin(r, p) \/ \E q \in Passphrases : ChangeBegin(r, p, q)
    \/ \E r \in Requests : InitStore(r) \/ UnlockEnd(r) \/ ChangeVerify(r) \/ ChangeStore(r)
    \/ Lock \/ Restart \/ Seal

Spec == Init /\ [][Next]_vars

-----------------------------------------------------------------------------
TypeOK ==
    /\ stored \in {None} \cup StoredRow
    /\ dek \in {None} \cup Deks
    /\ sealed \subseteq Deks
    /\ req \in [Requests -> Request]
    /\ events \in 0 .. MaxEvents

(* Every stored secret can be read back by whoever has the passphrase: the *)
(* stored row wraps the one DEK anything was ever encrypted with, although *)
(* setups race and passphrases change (data-model: "Passphrase change      *)
(* re-wraps the same DEK").                                                *)
SecretsReadable == sealed \cup ({dek} \ {None}) \subseteq IF stored = None THEN {} ELSE {stored.dek}

(* The vault implements the abstract one: a key chosen once, open or not. *)
Abstract == INSTANCE VaultState
    WITH key <- IF stored = None THEN None ELSE stored.dek, open <- dek # None
ImplementsVaultState == Abstract!VaultSpec

=============================================================================
