------------------------------- MODULE Access -------------------------------
(***************************************************************************)
(* How the operator gets in: first-run setup, login with lockout and a     *)
(* second factor, sessions, the vault's lock, and the recovery command     *)
(* (http/routes/auth.ts, http/routes/vault.ts, auth/*, recovery.ts).       *)
(*                                                                         *)
(* Verifying a password or deriving a key awaits Argon2; the steps on both *)
(* sides of that await are separate actions, so requests interleave there. *)
(* Sessions are rows in the database and survive a restart; all that the   *)
(* routes ask of them is whether a live one was presented (signedIn).      *)
(***************************************************************************)
EXTENDS Naturals, FiniteSets, VaultState
\* Definitions named Mut... are deliberate bugs, each tried in place of the
\* definition it precedes to see that a property notices; nothing else uses them.

CONSTANTS
    Requests,    \* requests that may be in flight at the same time
    Codes,       \* the recovery codes issued with one TOTP secret
    HardLock,    \* HARD_LOCK_THRESHOLD: failures that lock the account
    MaxEnrols,   \* bound: TOTP secrets generated over a run
    MaxRestarts, \* bound: restarts over a run
    MaxFailed    \* bound: failures beyond this many count as this many

ASSUME LockAssumption == HardLock \in Nat \ {0}
ASSUME BoundsAssumption ==
    /\ MaxEnrols \in Nat /\ MaxRestarts \in Nat
    /\ MaxFailed \in Nat /\ MaxFailed >= HardLock
ASSUME RequestsAssumption == IsFiniteSet(Requests)

Totp == "totp"                            \* a code computed from the secret
ASSUME CodesAssumption == Totp \notin Codes

VARIABLES
    operator,   \* the operator row, None before setup
    failed,     \* failed_attempts
    locked,     \* locked_until lies in the future
    signedIn,   \* some session is live
    enrols,     \* how many TOTP secrets have been generated
    restarts,   \* how many restarts (only bounds the model)
    req,        \* what each request is doing
    guesses,    \* history: wrong guesses judged since the lock last ended or was reset
    uses        \* history: sessions opened by each recovery code

lockVars == <<failed, locked, guesses>>
vars == <<keyVars, operator, lockVars, signedIn, enrols, restarts, req, uses>>

\* What can be typed in as the second factor: nothing, a code of some secret
\* (enrol = 0: of none, a typing error), or one of its recovery codes.
Recovery == [enrol : 1 .. MaxEnrols, code : Codes]
Token    == {None} \cup Recovery \cup [enrol : 0 .. MaxEnrols, code : {Totp}]

OperatorRow ==
    {o \in [totp : BOOLEAN, enrol : 0 .. MaxEnrols, unused : SUBSET Codes, dek : Deks] :
        o.enrol = 0 => ~o.totp /\ o.unused = {}}
ASSUME NoRowAssumption == None \notin OperatorRow

Idle == [op |-> "idle"]
Request ==
    [op : {"idle", "setup", "disable", "unlock"}]
    \cup [op : {"create"}, dek : Deks]
    \cup [op : {"login"}, right : BOOLEAN, totp : BOOLEAN, token : Token]

Goto(r, what)  == req' = [req EXCEPT ![r] = what]
Begin(r, what) ==
    req[r] = Idle /\ Goto(r, what) /\ UNCHANGED <<keyVars, operator, lockVars, signedIn, enrols, restarts, uses>>
Returns(r)     == req[r].op # "idle" /\ Goto(r, Idle)

Init ==
    /\ Uninitialized
    /\ operator = None
    /\ failed = 0 /\ locked = FALSE /\ guesses = 0
    /\ signedIn = FALSE
    /\ enrols = 0 /\ restarts = 0
    /\ req = [r \in Requests |-> Idle]
    /\ uses = [c \in Recovery |-> 0]

-----------------------------------------------------------------------------
(* First run: the vault is initialized, then the operator is created.      *)
SetupBegin(r) == operator = None /\ key = None /\ Begin(r, [op |-> "setup"])

MutLoserGoesOn(r) ==
    /\ req[r].op = "setup"
    /\ \/ Choose /\ Goto(r, [op |-> "create", dek |-> key'])
       \/ /\ key # None /\ UNCHANGED keyVars
          /\ \E d \in Deks : Goto(r, [op |-> "create", dek |-> d])
    /\ UNCHANGED <<operator, lockVars, signedIn, enrols, restarts, uses>>
SetupVault(r) ==
    /\ req[r].op = "setup"
    /\ \/ Choose /\ Goto(r, [op |-> "create", dek |-> key'])
       \/ key # None /\ Goto(r, Idle) /\ UNCHANGED keyVars
    /\ UNCHANGED <<operator, lockVars, signedIn, enrols, restarts, uses>>

NewOperator(d) == [totp |-> FALSE, enrol |-> 0, unused |-> {}, dek |-> d]

SetupCreate(r) ==
    /\ req[r].op = "create" /\ Returns(r)
    /\ \/ operator = None /\ operator' = NewOperator(req[r].dek) /\ signedIn' = TRUE
       \/ operator # None /\ UNCHANGED <<operator, signedIn>>
    /\ UNCHANGED <<keyVars, lockVars, enrols, restarts, uses>>

-----------------------------------------------------------------------------
(* Lockout: every failure counts, and from the HardLock'th on each one     *)
(* locks the account again; a success clears both.                         *)
OneMore == IF failed < MaxFailed THEN failed + 1 ELSE failed
MutLocksOnce ==
    /\ failed' = OneMore
    /\ locked' = (failed + 1 = HardLock)
    /\ guesses' = guesses + 1
RecordFailure ==
    /\ failed' = OneMore
    /\ locked' = (failed + 1 >= HardLock)
    /\ guesses' = guesses + 1

Reset == failed' = 0 /\ locked' = FALSE /\ guesses' = 0

LockExpires ==
    /\ locked /\ locked' = FALSE /\ guesses' = 0
    /\ UNCHANGED <<keyVars, operator, failed, signedIn, enrols, restarts, req, uses>>

(* Login checks the lock and reads the operator row, then awaits the       *)
(* password's verification; a wrong username is refused at once.           *)
WrongName ==
    /\ operator # None /\ ~locked
    /\ RecordFailure
    /\ UNCHANGED <<keyVars, operator, signedIn, enrols, restarts, req, uses>>

MutLockedByCount(r, right, token) ==
    /\ operator # None /\ failed < HardLock
    /\ Begin(r, [op |-> "login", right |-> right, totp |-> operator.totp, token |-> token])
LoginBegin(r, right, token) ==
    /\ operator # None /\ ~locked
    /\ Begin(r, [op |-> "login", right |-> right, totp |-> operator.totp, token |-> token])

\* consumeRecoveryCode, on the row as it is now.
MutCodeOfRow(r) ==
    req[r].token # None /\ req[r].token.enrol = operator.enrol /\ req[r].token.code \in Codes
CodeOfRow(r) ==
    req[r].token # None /\ req[r].token.enrol = operator.enrol /\ req[r].token.code \in operator.unused
TotpOfRow(r) == operator.enrol # 0 /\ req[r].token = [enrol |-> operator.enrol, code |-> Totp]

SpendCode(token) ==
    /\ operator' = [operator EXCEPT !.unused = @ \ {token.code}]
    /\ uses' = [uses EXCEPT ![token] = @ + 1]

NoFactorNeeded(r) == ~req[r].totp
Readable          == operator.enrol = 0 \/ open      \* decryptField throws when locked

LoginEnd(r) ==
    /\ req[r].op = "login" /\ Returns(r)
    /\ \/ \* a wrong password, or a wrong second factor
          /\ \/ ~req[r].right
             \/ /\ ~NoFactorNeeded(r) /\ req[r].token # None /\ Readable
                /\ ~TotpOfRow(r) /\ ~CodeOfRow(r)
          /\ RecordFailure
          /\ UNCHANGED <<operator, signedIn, uses>>
       \/ \* no token, or a secret that cannot be read: refused, not counted
          /\ req[r].right /\ ~NoFactorNeeded(r) /\ (req[r].token = None \/ ~Readable)
          /\ UNCHANGED <<operator, lockVars, signedIn, uses>>
       \/ /\ req[r].right
          /\ \/ NoFactorNeeded(r) /\ UNCHANGED <<operator, uses>>
             \/ ~NoFactorNeeded(r) /\ Readable /\ TotpOfRow(r) /\ UNCHANGED <<operator, uses>>
             \/ ~NoFactorNeeded(r) /\ Readable /\ CodeOfRow(r) /\ SpendCode(req[r].token)
          /\ Reset /\ signedIn' = TRUE
    /\ UNCHANGED <<keyVars, enrols, restarts>>

(* The last live session ends: logout, or 30 idle minutes.                 *)
SignOut ==
    /\ signedIn /\ signedIn' = FALSE
    /\ UNCHANGED <<keyVars, operator, lockVars, enrols, restarts, req, uses>>

-----------------------------------------------------------------------------
(* Second factor.  Enabling stores a new secret with the flag on, and      *)
(* turns the flag off in a second statement; verifying turns it on.        *)
Enroll(on) ==
    /\ signedIn /\ operator # None /\ open /\ enrols < MaxEnrols
    /\ enrols' = enrols + 1
    /\ operator' = [operator EXCEPT !.totp = on, !.enrol = enrols + 1,
                                    !.unused = Codes]
    /\ UNCHANGED <<key, lockVars, signedIn, uses>>

Stopped ==
    /\ restarts < MaxRestarts /\ restarts' = restarts + 1
    /\ req' = [r \in Requests |-> Idle]

Enable      == Enroll(FALSE) /\ UNCHANGED <<open, restarts, req>>
EnableCrash == Enroll(TRUE) /\ Stopped /\ open' = FALSE

Verify ==
    /\ signedIn /\ operator # None /\ operator.enrol # 0 /\ open
    /\ operator' = [operator EXCEPT !.totp = TRUE]
    /\ UNCHANGED <<keyVars, lockVars, signedIn, enrols, restarts, req, uses>>

MutKeepsFlag == [operator EXCEPT !.enrol = 0, !.unused = {}]
WithoutTotp  == [operator EXCEPT !.totp = FALSE, !.enrol = 0, !.unused = {}]

\* With the right password; a wrong one changes nothing.
DisableBegin(r) == signedIn /\ operator # None /\ Begin(r, [op |-> "disable"])
DisableEnd(r) ==
    /\ req[r].op = "disable" /\ Returns(r)
    /\ operator' = WithoutTotp
    /\ UNCHANGED <<keyVars, lockVars, signedIn, enrols, restarts, uses>>

-----------------------------------------------------------------------------
(* The vault (module Vault): unlocking, or changing the passphrase, with   *)
(* the right one opens it.                                                 *)
UnlockBegin(r) == signedIn /\ key # None /\ Begin(r, [op |-> "unlock"])
UnlockEnd(r) ==
    /\ req[r].op = "unlock" /\ Returns(r)
    /\ Open
    /\ UNCHANGED <<operator, lockVars, signedIn, enrols, restarts, uses>>

LockVault ==
    /\ signedIn /\ open /\ Close
    /\ UNCHANGED <<operator, lockVars, signedIn, enrols, restarts, req, uses>>

Restart ==
    /\ Close /\ Stopped
    /\ UNCHANGED <<operator, lockVars, signedIn, enrols, uses>>

(* The recovery command is a process of its own on the same database: it   *)
(* may turn the second factor off, and always clears the lockout at last.  *)
RecoverTotp ==
    /\ operator # None /\ operator' = WithoutTotp
    /\ UNCHANGED <<keyVars, lockVars, signedIn, enrols, restarts, req, uses>>

RecoverLockout ==
    /\ operator # None /\ Reset
    /\ UNCHANGED <<keyVars, operator, signedIn, enrols, restarts, req, uses>>

-----------------------------------------------------------------------------
Next ==
    \/ \E r \in Requests :
          \/ SetupBegin(r) \/ SetupVault(r) \/ SetupCreate(r)
          \/ \E right \in BOOLEAN, token \in Token : LoginBegin(r, right, token)
          \/ LoginEnd(r)
          \/ DisableBegin(r) \/ DisableEnd(r)
          \/ UnlockBegin(r) \/ UnlockEnd(r)
    \/ WrongName \/ LockExpires \/ SignOut
    \/ Enable \/ EnableCrash \/ Verify
    \/ LockVault \/ Restart
    \/ RecoverTotp \/ RecoverLockout

Spec == Init /\ [][Next]_vars

(* Requests that were begun are answered, a lock runs out, and an operator *)
(* who is shut out keeps trying, with the right credentials.               *)
RightToken == IF operator.enrol = 0 THEN None ELSE [enrol |-> operator.enrol, code |-> Totp]

Fairness ==
    /\ WF_vars(LockExpires)
    /\ WF_vars(\E r \in Requests : SetupBegin(r))
    /\ \A r \in Requests :
          WF_vars(SetupVault(r) \/ SetupCreate(r) \/ LoginEnd(r) \/ DisableEnd(r) \/ UnlockEnd(r))
    /\ SF_vars(operator # None /\ \E r \in Requests : LoginBegin(r, TRUE, RightToken))
    /\ SF_vars(\E r \in Requests : UnlockBegin(r))

FairSpec == Spec /\ Fairness

-----------------------------------------------------------------------------
TypeOK ==
    /\ key \in {None} \cup Deks /\ open \in BOOLEAN
    /\ operator \in {None} \cup OperatorRow
    /\ failed \in 0 .. MaxFailed /\ locked \in BOOLEAN
    /\ signedIn \in BOOLEAN
    /\ enrols \in 0 .. MaxEnrols /\ restarts \in 0 .. MaxRestarts
    /\ req \in [Requests -> Request]
    /\ guesses \in Nat
    /\ uses \in [Recovery -> Nat]

(* The operator and the vault come from one and the same setup, although   *)
(* two setups may be under way at once and each awaits twice.              *)
OneSetup == operator # None => operator.dek = key

(* A recovery code opens one session, however many logins present it at    *)
(* the same time (auth/recovery-codes.ts: "Each code is single-use").      *)
OneSessionPerCode == \A c \in Recovery : uses[c] <= 1

(* Guessing is bounded by the lockout even when guesses are made in        *)
(* parallel: before the lock runs out no more are judged than HardLock and *)
(* those in flight when it begins.                                         *)
GuessesBounded == guesses <= HardLock + Cardinality(Requests)

(* From some time on nobody locks the vault, restarts, signs out, guesses  *)
(* or changes the second factor; only the operator acts.                   *)
Disturbed ==
    \/ LockVault \/ Restart \/ SignOut \/ WrongName
    \/ Enable \/ EnableCrash \/ Verify \/ RecoverTotp
    \/ \E r \in Requests :
          \/ DisableBegin(r)
          \/ /\ operator # None
             /\ \E right \in BOOLEAN, token \in Token :
                   ~(right /\ token = RightToken) /\ LoginBegin(r, right, token)
Undisturbed == <>[][~Disturbed]_vars

(* An operator who has an account gets the vault open again, when a        *)
(* session is live or no second factor is on: locks, lockouts and restarts *)
(* are behind, whatever they left in the counters and the requests they    *)
(* cut off (login, LockoutService, /vault/unlock).                         *)
OperatorGetsIn ==
    Undisturbed /\ <>[](operator # None /\ (signedIn \/ ~operator.totp)) => []<>open

(* To a browser, whatever requests are in flight, an operator comes into   *)
(* being once, in a state with nothing more to do: there is no moment at   *)
(* which one exists who was set up with the vault shut (POST /auth/setup,  *)
(* GET /vault/status).                                                     *)
ToBrowser == INSTANCE Entry WITH exists <- operator # None, open <- open /\ operator # None
ImplementsEntry == ToBrowser!EntrySpec

-----------------------------------------------------------------------------
(* What the documents say and the code does not do. *)

(* "with no manual reconfiguration beyond the operator entering the master *)
(* passphrase once to unlock secrets" (spec 001, SC-007): the same with    *)
(* the second factor on and nobody signed in.                              *)
RestartRecovers == Undisturbed => ((operator # None) ~> open)
=============================================================================
