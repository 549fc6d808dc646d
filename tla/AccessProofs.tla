---------------------------- MODULE AccessProofs ----------------------------
(***************************************************************************)
(* Proofs about setup, login and the second factor, for any number of      *)
(* requests in flight, of recovery codes and of failures that lock.        *)
(***************************************************************************)
EXTENDS Access, FiniteSetTheorems, TLAPS

(* The shapes of a request in flight. *)
LEMMA RequestShape ==
    ASSUME TypeOK, NEW r \in Requests
    PROVE  /\ req[r].op = "create" => req[r].dek \in Deks
           /\ req[r].op = "login" =>
                 req[r].right \in BOOLEAN /\ req[r].totp \in BOOLEAN /\ req[r].token \in Token
BY DEF TypeOK, Request

(* A code that is still listed in the row is one that was issued with the  *)
(* row's secret.                                                           *)
LEMMA CodeIsRecovery ==
    ASSUME TypeOK, operator # None, NEW r \in Requests, req[r].op = "login", CodeOfRow(r)
    PROVE  /\ req[r].token \in Recovery
           /\ req[r].token.enrol = operator.enrol /\ req[r].token.code \in operator.unused
<1>1. operator \in OperatorRow /\ req[r].token \in Token
  BY RequestShape DEF TypeOK
<1>2. req[r].token.code \in Codes
  BY <1>1 DEF CodeOfRow, OperatorRow
<1>3. req[r].token \notin [enrol : 0 .. MaxEnrols, code : {Totp}]
  BY <1>2, CodesAssumption
<1> QED BY <1>1, <1>3 DEF CodeOfRow, Token

(* Counting a failure, and clearing the counters, keep their types. *)
LEMMA CountersTyped ==
    ASSUME TypeOK, RecordFailure \/ Reset
    PROVE  failed' \in 0 .. MaxFailed /\ locked' \in BOOLEAN /\ guesses' \in Nat
<1>1. failed' \in 0 .. MaxFailed
  BY BoundsAssumption DEF TypeOK, RecordFailure, Reset, OneMore
<1>2. locked' \in BOOLEAN
  <2>1. CASE Reset
    BY <2>1 DEF Reset
  <2>2. CASE RecordFailure
    <3> DEFINE c == failed + 1 >= HardLock
    <3>1. locked' = c
      BY <2>2 DEF RecordFailure
    <3> HIDE DEF c
    <3>2. c => locked' = TRUE
      BY <3>1
    <3>3. ~c => locked' = FALSE
      BY <3>1
    <3> QED BY <3>2, <3>3
  <2> QED BY <2>1, <2>2
<1>3. guesses' \in Nat
  BY DEF TypeOK, RecordFailure, Reset
<1> QED BY <1>1, <1>2, <1>3

LEMMA BeginTyped ==
    ASSUME TypeOK, NEW r \in Requests, NEW what \in Request, Begin(r, what)
    PROVE  TypeOK'
BY DEF Begin, Goto, TypeOK, keyVars, lockVars

LEMMA IdleTyped == Idle \in Request
BY DEF Idle, Request

(* The steps that start a request. *)
Starts(r) ==
    \/ SetupBegin(r) \/ DisableBegin(r) \/ UnlockBegin(r)
    \/ \E right \in BOOLEAN, token \in Token : LoginBegin(r, right, token)

LEMMA StartsBegin ==
    ASSUME TypeOK, NEW r \in Requests, Starts(r)
    PROVE  \E what \in Request :
               Begin(r, what) /\ what.op \in {"setup", "disable", "unlock", "login"}
                              /\ (what.op = "login" => operator # None /\ ~locked)
<1>1. CASE SetupBegin(r)
  BY <1>1 DEF SetupBegin, Request
<1>2. CASE DisableBegin(r)
  BY <1>2 DEF DisableBegin, Request
<1>3. CASE UnlockBegin(r)
  BY <1>3 DEF UnlockBegin, Request
<1>4. ASSUME NEW right \in BOOLEAN, NEW token \in Token, LoginBegin(r, right, token)
      PROVE  \E what \in Request :
                 Begin(r, what) /\ what.op \in {"setup", "disable", "unlock", "login"}
                                /\ (what.op = "login" => operator # None /\ ~locked)
  <2> DEFINE what == [op |-> "login", right |-> right, totp |-> operator.totp, token |-> token]
  <2>1. operator # None /\ ~locked /\ Begin(r, what)
    BY <1>4 DEF LoginBegin
  <2>2. what \in Request
    BY <2>1 DEF TypeOK, OperatorRow, Request
  <2> QED BY <2>1, <2>2
<1> QED BY <1>1, <1>2, <1>3, <1>4 DEF Starts

(* Every step of the module, with the starts as one. *)
LEMMA Steps ==
    ASSUME [Next]_vars
    PROVE  \/ \E r \in Requests : \/ Starts(r) \/ SetupVault(r) \/ SetupCreate(r)
                                  \/ LoginEnd(r) \/ DisableEnd(r) \/ UnlockEnd(r)
           \/ WrongName \/ LockExpires \/ SignOut
           \/ Enable \/ EnableCrash \/ Verify
           \/ LockVault \/ Restart
           \/ RecoverTotp \/ RecoverLockout
           \/ UNCHANGED vars
BY DEF Next, Starts

(* The operator row is never taken away again: a login or a change of the  *)
(* second factor that began under one ends under one.                      *)
RowStays == \A r \in Requests : req[r].op \in {"login", "disable"} => operator # None

LEMMA InitTyped == Init => TypeOK /\ RowStays
<1> SUFFICES ASSUME Init PROVE TypeOK /\ RowStays
  OBVIOUS
<1>1. failed \in 0 .. MaxFailed /\ guesses \in Nat /\ enrols \in 0 .. MaxEnrols
      /\ restarts \in 0 .. MaxRestarts /\ uses \in [Recovery -> Nat]
  BY BoundsAssumption DEF Init
<1>2. key \in {None} \cup Deks /\ open \in BOOLEAN /\ operator \in {None} \cup OperatorRow
      /\ locked \in BOOLEAN /\ signedIn \in BOOLEAN
  BY DEF Init, Uninitialized
<1>3. req \in [Requests -> Request] /\ RowStays
  BY IdleTyped DEF Init, RowStays, Idle
<1> QED BY <1>1, <1>2, <1>3 DEF TypeOK

LEMMA NewRowTyped ==
    ASSUME NEW d \in Deks PROVE NewOperator(d) \in OperatorRow
<1>1. 0 \in 0 .. MaxEnrols
  BY BoundsAssumption
<1> QED BY <1>1, Zenon DEF NewOperator, OperatorRow

LEMMA WithoutTotpTyped ==
    ASSUME TypeOK, operator # None PROVE WithoutTotp \in OperatorRow
<1>1. 0 \in 0 .. MaxEnrols
  BY BoundsAssumption
<1> QED BY <1>1 DEF WithoutTotp, OperatorRow, TypeOK

LEMMA EnrolledTyped ==
    ASSUME TypeOK, NEW on \in BOOLEAN, Enroll(on)
    PROVE  /\ operator # None /\ operator' # None
           /\ operator' \in OperatorRow /\ enrols' \in 0 .. MaxEnrols
<1>1. enrols + 1 \in 0 .. MaxEnrols /\ enrols + 1 # 0
  BY BoundsAssumption DEF Enroll, TypeOK
<1>2. operator' \in OperatorRow
  BY <1>1 DEF Enroll, TypeOK, OperatorRow
<1> QED BY <1>1, <1>2, NoRowAssumption DEF Enroll

LEMMA FinishTyped ==
    ASSUME TypeOK, RowStays, NEW r \in Requests, req' = [req EXCEPT ![r] = Idle],
           operator = None => UNCHANGED operator, operator # None => operator' # None
    PROVE  req' \in [Requests -> Request] /\ RowStays'
<1>1. req' \in [Requests -> Request]
  BY IdleTyped DEF TypeOK
<1>2. \A s \in Requests : req'[s] = req[s] \/ req'[s] = Idle
  BY DEF TypeOK
<1> QED BY <1>1, <1>2 DEF RowStays, Idle

LEMMA StartsGood ==
    ASSUME TypeOK, RowStays, NEW r \in Requests, Starts(r)
    PROVE  TypeOK' /\ RowStays'
<1>1. PICK what \in Request : Begin(r, what) /\ (what.op \in {"login", "disable"} => operator # None)
  <2>1. DisableBegin(r) => operator # None /\ Begin(r, [op |-> "disable"])
    BY DEF DisableBegin
  <2>2. CASE DisableBegin(r)
    BY <2>1, <2>2 DEF Request
  <2>3. CASE ~DisableBegin(r)
    <3>1. CASE SetupBegin(r)
      BY <3>1 DEF SetupBegin, Request
    <3>2. CASE UnlockBegin(r)
      BY <3>2 DEF UnlockBegin, Request
    <3>3. CASE \E right \in BOOLEAN, token \in Token : LoginBegin(r, right, token)
      BY <3>3 DEF LoginBegin, Request, TypeOK, OperatorRow
    <3> QED BY <2>3, <3>1, <3>2, <3>3 DEF Starts
  <2> QED BY <2>2, <2>3
<1>2. TypeOK'
  BY <1>1, BeginTyped
<1>3. RowStays'
  BY <1>1 DEF Begin, Goto, RowStays, TypeOK
<1> QED BY <1>2, <1>3

LEMMA LoginRowTyped ==
    ASSUME TypeOK, RowStays, NEW r \in Requests, LoginEnd(r)
    PROVE  /\ operator # None /\ operator' # None
           /\ operator' \in OperatorRow /\ uses' \in [Recovery -> Nat]
<1>1. operator # None /\ operator \in OperatorRow
  BY DEF LoginEnd, RowStays, TypeOK
<1>2. UNCHANGED <<operator, uses>> \/ (CodeOfRow(r) /\ SpendCode(req[r].token))
  BY DEF LoginEnd
<1>3. CASE UNCHANGED <<operator, uses>>
  BY <1>1, <1>3 DEF TypeOK
<1>4. CASE CodeOfRow(r) /\ SpendCode(req[r].token)
  <2>1. req[r].token \in Recovery
    BY <1>1, <1>4, CodeIsRecovery DEF LoginEnd
  <2>2. uses' \in [Recovery -> Nat]
    BY <1>4, <2>1 DEF SpendCode, TypeOK
  <2>3. operator' \in OperatorRow
    BY <1>1, <1>4 DEF SpendCode, OperatorRow
  <2> QED BY <1>1, <2>2, <2>3, NoRowAssumption
<1> QED BY <1>2, <1>3, <1>4

LEMMA LoginEndGood ==
    ASSUME TypeOK, RowStays, NEW r \in Requests, LoginEnd(r)
    PROVE  TypeOK' /\ RowStays'
<1>1. req' = [req EXCEPT ![r] = Idle]
  BY DEF LoginEnd, Returns, Goto
<1>2. UNCHANGED <<key, open, enrols, restarts>>
  BY DEF LoginEnd, keyVars
<1>3. signedIn' \in BOOLEAN
  BY DEF LoginEnd, TypeOK
<1>4. UNCHANGED <<failed, locked, guesses>> \/ RecordFailure \/ Reset
  BY DEF LoginEnd, lockVars
<1>5. failed' \in 0 .. MaxFailed /\ locked' \in BOOLEAN /\ guesses' \in Nat
  BY <1>4, CountersTyped DEF TypeOK
<1>6. /\ operator # None /\ operator' # None
      /\ operator' \in OperatorRow /\ uses' \in [Recovery -> Nat]
  BY LoginRowTyped
<1>7. req' \in [Requests -> Request] /\ RowStays'
  BY <1>1, <1>6, FinishTyped
<1> QED BY <1>2, <1>3, <1>5, <1>6, <1>7 DEF TypeOK

(* A step in which no request moves and an existing row stays. *)
LEMMA RowKept ==
    ASSUME RowStays, UNCHANGED req, operator # None => operator' # None
    PROVE  RowStays'
BY DEF RowStays

LEMMA TypeStep == TypeOK /\ RowStays /\ [Next]_vars => TypeOK' /\ RowStays'
<1> SUFFICES ASSUME TypeOK, RowStays, [Next]_vars PROVE TypeOK' /\ RowStays'
  OBVIOUS
<1> USE DEF lockVars, keyVars
<1>1. ASSUME NEW r \in Requests, Starts(r) PROVE TypeOK' /\ RowStays'
  BY <1>1, StartsGood
<1>2. ASSUME NEW r \in Requests, SetupVault(r) PROVE TypeOK' /\ RowStays'
  <2>1. PICK what \in Request : what.op \in {"idle", "create"} /\ Goto(r, what)
    BY <1>2, IdleTyped DEF SetupVault, Choose, Request, Idle
  <2>2. req' \in [Requests -> Request] /\ RowStays'
    BY <1>2, <2>1 DEF SetupVault, Goto, RowStays, TypeOK
  <2>3. key' \in {None} \cup Deks /\ open' \in BOOLEAN
    BY <1>2 DEF SetupVault, Choose, TypeOK
  <2> QED BY <1>2, <2>2, <2>3 DEF SetupVault, TypeOK
<1>3. ASSUME NEW r \in Requests, SetupCreate(r) PROVE TypeOK' /\ RowStays'
  <2>1. req[r].dek \in Deks /\ req' = [req EXCEPT ![r] = Idle]
    BY <1>3, RequestShape DEF SetupCreate, Returns, Goto
  <2>2. operator' \in {None} \cup OperatorRow /\ signedIn' \in BOOLEAN
    BY <1>3, <2>1, NewRowTyped DEF SetupCreate, TypeOK
  <2>3. req' \in [Requests -> Request]
    BY <2>1, IdleTyped DEF TypeOK
  <2>4. RowStays'
    <3>1. operator # None => operator' # None
      BY <1>3 DEF SetupCreate
    <3>2. \A s \in Requests : req'[s] = req[s] \/ req'[s] = Idle
      BY <2>1 DEF TypeOK
    <3> QED BY <3>1, <3>2 DEF RowStays, Idle
  <2> QED BY <1>3, <2>2, <2>3, <2>4 DEF SetupCreate, TypeOK
<1>4. ASSUME NEW r \in Requests, LoginEnd(r) PROVE TypeOK' /\ RowStays'
  BY <1>4, LoginEndGood
<1>5. ASSUME NEW r \in Requests, DisableEnd(r) PROVE TypeOK' /\ RowStays'
  <2>1. operator # None /\ req' = [req EXCEPT ![r] = Idle] /\ operator' = WithoutTotp
    BY <1>5 DEF DisableEnd, Returns, Goto, RowStays
  <2>2. operator' \in OperatorRow /\ operator' # None
    BY <2>1, WithoutTotpTyped, NoRowAssumption
  <2>3. req' \in [Requests -> Request] /\ RowStays'
    BY <2>1, <2>2, FinishTyped
  <2> QED BY <1>5, <2>2, <2>3 DEF DisableEnd, TypeOK
<1>6. ASSUME NEW r \in Requests, UnlockEnd(r) PROVE TypeOK' /\ RowStays'
  <2>1. req' = [req EXCEPT ![r] = Idle] /\ UNCHANGED operator
    BY <1>6 DEF UnlockEnd, Returns, Goto
  <2>2. req' \in [Requests -> Request] /\ RowStays'
    BY <2>1, FinishTyped
  <2> QED BY <1>6, <2>2 DEF UnlockEnd, Open, TypeOK
<1>7. CASE WrongName
  <2>1. UNCHANGED <<req, operator>>
    BY <1>7 DEF WrongName
  <2> QED BY <1>7, <2>1, CountersTyped, RowKept DEF WrongName, TypeOK
<1>8. CASE LockExpires \/ SignOut \/ LockVault \/ RecoverLockout
  <2>1. UNCHANGED <<req, operator>>
    BY <1>8 DEF LockExpires, SignOut, LockVault, RecoverLockout
  <2>2. failed' \in 0 .. MaxFailed /\ locked' \in BOOLEAN /\ guesses' \in Nat
    <3>1. CASE LockExpires
      BY <3>1 DEF LockExpires, TypeOK
    <3>2. CASE RecoverLockout
      BY <3>2, CountersTyped DEF RecoverLockout
    <3>3. CASE SignOut \/ LockVault
      BY <3>3 DEF SignOut, LockVault, TypeOK
    <3> QED BY <1>8, <3>1, <3>2, <3>3
  <2> QED BY <1>8, <2>1, <2>2, RowKept
          DEF LockExpires, SignOut, LockVault, RecoverLockout, Close, TypeOK
<1>9. CASE Enable \/ EnableCrash
  <2>1. PICK on \in BOOLEAN : Enroll(on)
    BY <1>9 DEF Enable, EnableCrash
  <2>2. operator' \in OperatorRow /\ operator' # None /\ enrols' \in 0 .. MaxEnrols
    BY <2>1, EnrolledTyped
  <2>3. CASE Enable
    BY <2>1, <2>2, <2>3, RowKept DEF Enable, Enroll, TypeOK
  <2>4. CASE EnableCrash
    <3>1. req' \in [Requests -> Request] /\ RowStays'
      BY <2>4, IdleTyped DEF EnableCrash, Stopped, RowStays, Idle
    <3>2. restarts' \in 0 .. MaxRestarts
      BY <2>4, BoundsAssumption DEF EnableCrash, Stopped, TypeOK
    <3> QED BY <2>1, <2>2, <2>4, <3>1, <3>2 DEF EnableCrash, Enroll, TypeOK
  <2> QED BY <1>9, <2>3, <2>4
<1>10. CASE Verify
  <2>1. operator' \in OperatorRow /\ operator' # None
    <3>1. operator' \in OperatorRow
      BY <1>10 DEF Verify, TypeOK, OperatorRow
    <3> QED BY <3>1, NoRowAssumption
  <2> QED BY <1>10, <2>1, RowKept DEF Verify, TypeOK
<1>11. CASE Restart
  <2>1. req' \in [Requests -> Request] /\ RowStays'
    BY <1>11, IdleTyped DEF Restart, Stopped, RowStays, Idle
  <2>2. restarts' \in 0 .. MaxRestarts
    BY <1>11, BoundsAssumption DEF Restart, Stopped, TypeOK
  <2> QED BY <1>11, <2>1, <2>2 DEF Restart, Close, TypeOK
<1>12. CASE RecoverTotp
  <2>1. operator' \in OperatorRow /\ operator' # None
    BY <1>12, WithoutTotpTyped, NoRowAssumption DEF RecoverTotp
  <2> QED BY <1>12, <2>1, RowKept DEF RecoverTotp, TypeOK
<1>13. CASE UNCHANGED vars
  BY <1>13, RowKept DEF vars, TypeOK
<1> QED BY <1>1, <1>2, <1>3, <1>4, <1>5, <1>6, <1>7, <1>8, <1>9, <1>10, <1>11, <1>12, <1>13, Steps

(* Types are preserved by every step. *)
THEOREM AccessTyped == Spec => []TypeOK
<1>1. Spec => [](TypeOK /\ RowStays)
  BY InitTyped, TypeStep, PTL DEF Spec
<1> QED BY <1>1, PTL

-----------------------------------------------------------------------------
(* The operator row, and a setup about to insert it, hold the vault's key. *)
SetupInv ==
    /\ OneSetup
    /\ operator # None => key # None
    /\ \A r \in Requests : req[r].op = "create" => req[r].dek = key

(* The operator and the vault come from one setup, however many race. *)
THEOREM AccessOneSetup == Spec => []OneSetup
<1>1. Init => SetupInv
  BY DEF Init, SetupInv, OneSetup, Idle
<1>2. TypeOK /\ RowStays /\ SetupInv /\ [Next]_vars => SetupInv'
  <2> SUFFICES ASSUME TypeOK, RowStays, SetupInv, [Next]_vars PROVE SetupInv'
    OBVIOUS
  <2> USE DEF SetupInv, OneSetup, lockVars, keyVars
  <2>1. ASSUME NEW r \in Requests, Starts(r) PROVE SetupInv'
    <3>1. PICK what \in Request : Begin(r, what) /\ what.op # "create"
      BY <2>1, StartsBegin
    <3> QED BY <3>1 DEF Begin, Goto, TypeOK
  <2>2. ASSUME NEW r \in Requests, SetupVault(r) PROVE SetupInv'
    <3>1. CASE Choose /\ Goto(r, [op |-> "create", dek |-> key'])
      <4>1. \A s \in Requests : req[s].op = "create" => req[s].dek \in Deks
        BY RequestShape
      <4>2. \A s \in Requests : req[s].op # "create"
        BY <3>1, <4>1, NoDekAssumption DEF Choose
      <4>3. operator = None /\ UNCHANGED operator
        BY <2>2, <3>1 DEF SetupVault, Choose
      <4> QED BY <3>1, <4>2, <4>3 DEF Goto, TypeOK
    <3>2. CASE Goto(r, Idle) /\ UNCHANGED keyVars
      BY <2>2, <3>2 DEF SetupVault, Goto, Idle, TypeOK
    <3> QED BY <2>2, <3>1, <3>2 DEF SetupVault
  <2>3. ASSUME NEW r \in Requests, SetupCreate(r) PROVE SetupInv'
    <3>1. req[r].dek = key /\ req[r].dek \in Deks
      BY <2>3, RequestShape DEF SetupCreate
    <3>2. operator' # None => operator'.dek = key
      BY <2>3, <3>1 DEF SetupCreate, NewOperator
    <3> QED BY <2>3, <3>1, <3>2, NoDekAssumption DEF SetupCreate, Returns, Goto, Idle, TypeOK
  <2>4. ASSUME NEW r \in Requests, LoginEnd(r) \/ DisableEnd(r) \/ UnlockEnd(r)
        PROVE  SetupInv'
    <3>1. req' = [req EXCEPT ![r] = Idle] /\ UNCHANGED key
      BY <2>4 DEF LoginEnd, DisableEnd, UnlockEnd, Returns, Goto, Open
    <3>2. (operator # None /\ operator'.dek = operator.dek) \/ UNCHANGED operator
      <4>1. operator # None => operator \in OperatorRow
        BY DEF TypeOK
      <4>2. CASE LoginEnd(r)
        BY <2>4, <4>1, <4>2 DEF LoginEnd, SpendCode, OperatorRow, RowStays, CodeOfRow
      <4>3. CASE DisableEnd(r)
        BY <4>1, <4>3 DEF DisableEnd, WithoutTotp, OperatorRow, RowStays
      <4> QED BY <2>4, <4>2, <4>3 DEF UnlockEnd
    <3> QED BY <3>1, <3>2 DEF Idle, TypeOK
  <2>5. CASE Enable \/ EnableCrash \/ Verify \/ RecoverTotp
    <3>1. UNCHANGED key /\ \A s \in Requests : req'[s] = req[s] \/ req'[s] = Idle
      BY <2>5 DEF Enable, EnableCrash, Enroll, Verify, RecoverTotp, Stopped
    <3>2. operator # None /\ operator'.dek = operator.dek
      BY <2>5 DEF Enable, EnableCrash, Enroll, Verify, RecoverTotp, WithoutTotp,
                  TypeOK, OperatorRow
    <3> QED BY <3>1, <3>2 DEF Idle
  <2>6. CASE \/ WrongName \/ LockExpires \/ SignOut \/ LockVault \/ RecoverLockout
             \/ Restart \/ UNCHANGED vars
    <3>1. UNCHANGED <<key, operator>> /\ \A s \in Requests : req'[s] = req[s] \/ req'[s] = Idle
      BY <2>6 DEF WrongName, LockExpires, SignOut, LockVault, RecoverLockout, Restart,
                  Close, Stopped, vars
    <3> QED BY <3>1 DEF Idle
  <2> QED BY <2>1, <2>2, <2>3, <2>4, <2>5, <2>6, Steps
<1>3. Spec => [](TypeOK /\ RowStays /\ SetupInv)
  BY <1>1, <1>2, InitTyped, TypeStep, PTL DEF Spec
<1>4. SetupInv => OneSetup
  BY DEF SetupInv
<1> QED BY <1>3, <1>4, PTL

-----------------------------------------------------------------------------
(* A code that is still listed, or that was not issued yet, opened nothing. *)
CodesInv ==
    /\ OneSessionPerCode
    /\ \A c \in Recovery : c.enrol > enrols => uses[c] = 0
    /\ operator # None =>
          /\ operator.enrol <= enrols
          /\ \A c \in Recovery : c.enrol = operator.enrol /\ c.code \in operator.unused => uses[c] = 0

(* However many logins present it at once, a recovery code opens one       *)
(* session.                                                                *)
THEOREM AccessOneSessionPerCode == Spec => []OneSessionPerCode
<1>1. Init => CodesInv
  BY DEF Init, CodesInv, OneSessionPerCode
<1>2. TypeOK /\ RowStays /\ CodesInv /\ [Next]_vars => CodesInv'
  <2> SUFFICES ASSUME TypeOK, RowStays, CodesInv, [Next]_vars PROVE CodesInv'
    OBVIOUS
  <2> USE DEF CodesInv, OneSessionPerCode
  <2>0. enrols \in Nat /\ (operator # None => operator \in OperatorRow)
    BY BoundsAssumption DEF TypeOK
  <2>1. CASE UNCHANGED <<operator, enrols, uses>>
    BY <2>1
  <2>2. ASSUME operator' = WithoutTotp, operator # None, UNCHANGED <<enrols, uses>>
        PROVE  CodesInv'
    BY <2>0, <2>2 DEF WithoutTotp, OperatorRow
  <2>3. ASSUME NEW r \in Requests, SetupCreate(r) PROVE CodesInv'
    <3>1. CASE operator' = NewOperator(req[r].dek)
      BY <2>0, <2>3, <3>1 DEF SetupCreate, NewOperator
    <3>2. CASE UNCHANGED operator
      BY <2>1, <2>3, <3>2 DEF SetupCreate
    <3> QED BY <2>3, <3>1, <3>2 DEF SetupCreate
  <2>4. ASSUME NEW r \in Requests, LoginEnd(r) PROVE CodesInv'
    <3>1. CASE UNCHANGED <<operator, uses>>
      BY <2>1, <2>4, <3>1 DEF LoginEnd
    <3>2. CASE CodeOfRow(r) /\ SpendCode(req[r].token)
      <4> DEFINE token == req[r].token
      <4>1. /\ operator # None /\ token \in Recovery
            /\ token.enrol = operator.enrol /\ token.code \in operator.unused
        BY <2>4, CodeIsRecovery, <3>2 DEF LoginEnd, RowStays
      <4> HIDE DEF token
      <4>2. /\ operator'.enrol = operator.enrol
            /\ operator'.unused = operator.unused \ {token.code}
            /\ uses' = [uses EXCEPT ![token] = @ + 1] /\ enrols' = enrols
        BY <2>0, <2>4, <3>2, <4>1 DEF SpendCode, LoginEnd, OperatorRow, token
      <4>3. uses[token] = 0 /\ uses \in [Recovery -> Nat]
        BY <4>1 DEF TypeOK
      <4>4. \A c \in Recovery : IF c = token THEN uses'[c] = 1 ELSE uses'[c] = uses[c]
        BY <4>2, <4>3
      <4>5. token.enrol \in Nat /\ token.enrol <= enrols
        BY <2>0, <4>1 DEF OperatorRow
      <4> QED BY <2>0, <4>1, <4>2, <4>4, <4>5
    <3> QED BY <2>4, <3>1, <3>2 DEF LoginEnd
  <2>5. CASE Enable \/ EnableCrash
    <3>1. PICK on \in BOOLEAN : Enroll(on)
      BY <2>5 DEF Enable, EnableCrash
    <3>2. operator # None /\ operator'.enrol = enrols + 1 /\ enrols' = enrols + 1 /\ uses' = uses
      BY <2>0, <3>1 DEF Enroll, OperatorRow
    <3>3. \A c \in Recovery : c.enrol \in Nat
      BY BoundsAssumption DEF Recovery
    <3> QED BY <2>0, <3>2, <3>3
  <2>6. CASE Verify
    BY <2>0, <2>6 DEF Verify, OperatorRow
  <2>7. ASSUME NEW r \in Requests, DisableEnd(r) PROVE CodesInv'
    BY <2>2, <2>7 DEF DisableEnd, RowStays
  <2>8. CASE RecoverTotp
    BY <2>2, <2>8 DEF RecoverTotp
  <2>9. ASSUME NEW r \in Requests, Starts(r) PROVE CodesInv'
    BY <2>1, <2>9, StartsBegin DEF Begin
  <2> QED BY <2>1, <2>3, <2>4, <2>5, <2>6, <2>7, <2>8, <2>9, Steps
          DEF SetupVault, UnlockEnd, WrongName, LockExpires, SignOut, LockVault, Restart,
              RecoverLockout, vars
<1>3. Spec => [](TypeOK /\ RowStays /\ CodesInv)
  BY <1>1, <1>2, InitTyped, TypeStep, PTL DEF Spec
<1>4. CodesInv => OneSessionPerCode
  BY DEF CodesInv
<1> QED BY <1>3, <1>4, PTL

-----------------------------------------------------------------------------
(* The logins whose outcome is still to be judged. *)
Judging == {r \in Requests : req[r].op = "login"}

(* Below the threshold a failure is a guess; past it an account that is not *)
(* locked has had no guess since; and a locked one has only those to come   *)
(* that were in flight when it locked.                                      *)
GuessInv ==
    /\ failed < HardLock => ~locked /\ guesses <= failed
    /\ failed >= HardLock /\ ~locked => guesses = 0
    /\ locked => guesses + Cardinality(Judging) <= HardLock + Cardinality(Requests)

LEMMA JudgingFinite ==
    /\ IsFiniteSet(Judging) /\ Cardinality(Judging) \in Nat
    /\ Cardinality(Requests) \in Nat /\ Cardinality(Judging) <= Cardinality(Requests)
BY RequestsAssumption, FS_Subset, FS_CardinalityType DEF Judging

(* One login fewer, or no new one. *)
LEMMA JudgingShrinks ==
    ASSUME Judging' \subseteq Judging
    PROVE  /\ Cardinality(Judging') \in Nat
           /\ Cardinality(Judging') <= Cardinality(Judging)
           /\ \A r \in Judging : r \notin Judging' =>
                 Cardinality(Judging') + 1 <= Cardinality(Judging)
<1>1. IsFiniteSet(Judging) /\ Cardinality(Judging) \in Nat
  BY JudgingFinite
<1>2. Cardinality(Judging') \in Nat /\ Cardinality(Judging') <= Cardinality(Judging)
  BY <1>1, FS_Subset, FS_CardinalityType
<1>3. ASSUME NEW r \in Judging, r \notin Judging'
      PROVE  Cardinality(Judging') + 1 <= Cardinality(Judging)
  <2>1. IsFiniteSet(Judging \ {r}) /\ Cardinality(Judging \ {r}) = Cardinality(Judging) - 1
    BY <1>1, FS_RemoveElement
  <2>2. Judging' \subseteq Judging \ {r}
    BY <1>3
  <2>3. Cardinality(Judging') <= Cardinality(Judging \ {r})
    BY <2>1, <2>2, FS_Subset
  <2> QED BY <1>1, <1>2, <2>1, <2>3
<1> QED BY <1>2, <1>3

(* A judged failure, of a login in flight or of a name that is refused at  *)
(* once.                                                                   *)
LEMMA FailureGood ==
    ASSUME TypeOK, GuessInv, RecordFailure, Judging' \subseteq Judging,
           ~locked \/ \E r \in Judging : r \notin Judging'
    PROVE  GuessInv'
<1>1. failed \in Nat /\ guesses \in Nat /\ HardLock \in Nat \ {0} /\ MaxFailed \in Nat
      /\ HardLock <= MaxFailed
  BY LockAssumption, BoundsAssumption DEF TypeOK
<1>2. guesses' = guesses + 1 /\ failed' = OneMore
  BY DEF RecordFailure
<1>3. locked' <=> failed + 1 >= HardLock
  BY DEF RecordFailure
<1>4. /\ Cardinality(Judging) \in Nat /\ Cardinality(Judging') \in Nat
      /\ Cardinality(Requests) \in Nat
      /\ Cardinality(Judging) <= Cardinality(Requests)
      /\ Cardinality(Judging') <= Cardinality(Judging)
      /\ locked => Cardinality(Judging') + 1 <= Cardinality(Judging)
  BY JudgingFinite, JudgingShrinks
<1>5. CASE failed + 1 < HardLock
  <2>1. failed' = failed + 1 /\ ~locked'
    BY <1>1, <1>2, <1>3, <1>5 DEF OneMore
  <2>2. guesses <= failed
    BY <1>1, <1>5 DEF GuessInv
  <2>3. guesses' <= failed' /\ ~(failed' >= HardLock)
    BY <1>1, <1>2, <1>5, <2>1, <2>2
  <2> QED BY <2>1, <2>3 DEF GuessInv
<1>6. CASE failed + 1 >= HardLock
  <2>1. failed' >= HardLock /\ locked'
    BY <1>1, <1>2, <1>3, <1>6 DEF OneMore
  <2>2. guesses' + Cardinality(Judging') <= HardLock + Cardinality(Requests)
    <3>1. CASE failed < HardLock
      BY <1>1, <1>2, <1>4, <1>6, <3>1 DEF GuessInv
    <3>2. CASE failed >= HardLock /\ ~locked
      BY <1>1, <1>2, <1>4, <3>2 DEF GuessInv
    <3>3. CASE locked
      BY <1>1, <1>2, <1>4, <3>3 DEF GuessInv
    <3> QED BY <1>1, <3>1, <3>2, <3>3
  <2>3. ~(failed' < HardLock)
    BY <1>1, <1>2, <2>1 DEF OneMore
  <2> QED BY <2>1, <2>2, <2>3 DEF GuessInv
<1> QED BY <1>1, <1>5, <1>6

(* The counters are cleared. *)
LEMMA ResetGood == ASSUME Reset PROVE GuessInv'
BY LockAssumption DEF Reset, GuessInv

(* Nothing is judged, and no login is begun under a lock. *)
LEMMA QuietGood ==
    ASSUME TypeOK, GuessInv, UNCHANGED lockVars, locked => Judging' \subseteq Judging
    PROVE  GuessInv'
<1>1. guesses \in Nat /\ HardLock \in Nat
  BY LockAssumption DEF TypeOK
<1>2. CASE ~locked
  BY <1>2 DEF GuessInv, lockVars
<1>3. CASE locked
  <2>1. Cardinality(Judging') \in Nat /\ Cardinality(Judging') <= Cardinality(Judging)
        /\ Cardinality(Judging) \in Nat /\ Cardinality(Requests) \in Nat
    BY <1>3, JudgingShrinks, JudgingFinite
  <2>2. guesses + Cardinality(Judging') <= HardLock + Cardinality(Requests)
    BY <1>1, <1>3, <2>1 DEF GuessInv
  <2> QED BY <1>3, <2>2 DEF GuessInv, lockVars
<1> QED BY <1>2, <1>3

(* However guesses are spread over requests, the lockout bounds how many   *)
(* are judged before it runs out.                                          *)
THEOREM AccessGuessesBounded == Spec => []GuessesBounded
<1>1. Init => GuessInv
  BY LockAssumption DEF Init, GuessInv
<1>2. TypeOK /\ GuessInv /\ [Next]_vars => GuessInv'
  <2> SUFFICES ASSUME TypeOK, GuessInv, [Next]_vars PROVE GuessInv'
    OBVIOUS
  <2>1. ASSUME NEW r \in Requests, Starts(r) PROVE GuessInv'
    <3>1. PICK what \in Request : Begin(r, what) /\ (what.op = "login" => ~locked)
      BY <2>1, StartsBegin
    <3>2. locked => Judging' \subseteq Judging
      BY <3>1 DEF Begin, Goto, Judging, TypeOK
    <3> QED BY <3>1, <3>2, QuietGood DEF Begin
  <2>2. ASSUME NEW r \in Requests, LoginEnd(r) PROVE GuessInv'
    <3>1. Judging' \subseteq Judging /\ r \in Judging /\ r \notin Judging'
      BY <2>2 DEF LoginEnd, Returns, Goto, Judging, TypeOK, Idle
    <3>2. RecordFailure \/ Reset \/ UNCHANGED lockVars
      BY <2>2 DEF LoginEnd
    <3> QED BY <3>1, <3>2, FailureGood, ResetGood, QuietGood
  <2>3. CASE WrongName
    <3>1. Judging' = Judging /\ ~locked /\ RecordFailure
      BY <2>3 DEF WrongName, Judging
    <3> QED BY <3>1, FailureGood
  <2>4. CASE LockExpires
    <3>1. failed \in Nat /\ HardLock \in Nat
      BY LockAssumption DEF TypeOK
    <3> QED BY <2>4, <3>1 DEF LockExpires, GuessInv
  <2>5. CASE RecoverLockout
    BY <2>5, ResetGood DEF RecoverLockout
  <2>6. ASSUME UNCHANGED lockVars,
               \A r \in Requests : req'[r] = req[r] \/ req'[r].op # "login"
        PROVE  GuessInv'
    <3>1. Judging' \subseteq Judging
      BY <2>6 DEF Judging
    <3> QED BY <2>6, <3>1, QuietGood
  <2>7. ASSUME NEW r \in Requests,
               SetupVault(r) \/ SetupCreate(r) \/ DisableEnd(r) \/ UnlockEnd(r)
        PROVE  GuessInv'
    BY <2>6, <2>7 DEF SetupVault, SetupCreate, DisableEnd, UnlockEnd, Returns, Goto, Idle, TypeOK
  <2>8. CASE SignOut \/ Enable \/ EnableCrash \/ Verify \/ LockVault \/ Restart \/ RecoverTotp
    <3>1. UNCHANGED lockVars
      BY <2>8 DEF SignOut, Enable, EnableCrash, Enroll, Verify, LockVault, Restart, RecoverTotp
    <3>2. \A r \in Requests : req'[r] = req[r] \/ req'[r].op # "login"
      <4>1. CASE EnableCrash \/ Restart
        <5>1. \A r \in Requests : req'[r] = Idle
          BY <4>1 DEF EnableCrash, Restart, Stopped
        <5>2. Idle.op # "login"
          BY DEF Idle
        <5> QED BY <5>1, <5>2
      <4>2. CASE SignOut \/ Enable \/ Verify \/ LockVault \/ RecoverTotp
        BY <4>2 DEF SignOut, Enable, Verify, LockVault, RecoverTotp
      <4> QED BY <2>8, <4>1, <4>2
    <3> QED BY <2>6, <3>1, <3>2
  <2>9. CASE UNCHANGED vars
    BY <2>6, <2>9 DEF vars
  <2> QED BY <2>1, <2>2, <2>3, <2>4, <2>5, <2>7, <2>8, <2>9, Steps
<1>3. Spec => [](TypeOK /\ RowStays /\ GuessInv)
  BY <1>1, <1>2, InitTyped, TypeStep, PTL DEF Spec
<1>4. TypeOK /\ GuessInv => GuessesBounded
  <2> SUFFICES ASSUME TypeOK, GuessInv PROVE GuessesBounded
    OBVIOUS
  <2>1. guesses \in Nat /\ failed \in Nat /\ HardLock \in Nat /\ Cardinality(Requests) \in Nat
        /\ Cardinality(Judging) \in Nat
    BY LockAssumption, JudgingFinite DEF TypeOK
  <2> QED BY <2>1 DEF GuessInv, GuessesBounded
<1> QED BY <1>3, <1>4, PTL

-----------------------------------------------------------------------------
(* To the vault, setups, unlocks, locks and restarts are all that happens: *)
(* nothing in the routes replaces its key (VaultState, which Vault         *)
(* implements).                                                            *)
THEOREM AccessKeepsVault == Spec => VaultSpec
<1>1. ASSUME [Next]_vars PROVE [Choose \/ Open \/ Close]_keyVars
  <2>1. ASSUME NEW r \in Requests, Starts(r) PROVE UNCHANGED keyVars
    BY <2>1 DEF Starts, SetupBegin, DisableBegin, UnlockBegin, LoginBegin, Begin
  <2>2. ASSUME NEW r \in Requests, SetupVault(r) PROVE Choose \/ UNCHANGED keyVars
    BY <2>2 DEF SetupVault
  <2>3. ASSUME NEW r \in Requests, SetupCreate(r) \/ LoginEnd(r) \/ DisableEnd(r)
        PROVE  UNCHANGED keyVars
    BY <2>3 DEF SetupCreate, LoginEnd, DisableEnd
  <2>4. ASSUME NEW r \in Requests, UnlockEnd(r) PROVE Open
    BY <2>4 DEF UnlockEnd
  <2>5. CASE WrongName \/ LockExpires \/ SignOut \/ Verify \/ RecoverTotp \/ RecoverLockout
    BY <2>5 DEF WrongName, LockExpires, SignOut, Verify, RecoverTotp, RecoverLockout
  <2>6. CASE Enable
    BY <2>6 DEF Enable, Enroll, keyVars
  <2>7. CASE EnableCrash
    BY <2>7 DEF EnableCrash, Enroll, Close
  <2>8. CASE LockVault \/ Restart
    BY <2>8 DEF LockVault, Restart
  <2>9. CASE UNCHANGED vars
    BY <2>9 DEF vars
  <2> QED BY <1>1, <2>1, <2>2, <2>3, <2>4, <2>5, <2>6, <2>7, <2>8, <2>9, Steps
<1>2. Init => Uninitialized
  BY DEF Init
<1> QED BY <1>1, <1>2, PTL DEF Spec, VaultSpec

-----------------------------------------------------------------------------
(* Until there is an operator nobody can lock the vault a setup has opened *)
(* for them: it takes a session, and a restart cuts the setup off too.     *)
BrowserInv ==
    /\ signedIn => operator # None
    /\ operator = None => \A r \in Requests : req[r].op = "create" => open

LEMMA BrowserStep ==
    ASSUME TypeOK, RowStays, BrowserInv, [Next]_vars
    PROVE  BrowserInv' /\ [ToBrowser!EntryNext]_(ToBrowser!backend)
<1> DEFINE E == ToBrowser!EntryNext \/ UNCHANGED ToBrowser!backend
<1> USE DEF BrowserInv, ToBrowser!EntryNext, ToBrowser!backend
<1>1. ASSUME UNCHANGED <<open, signedIn>>, operator = None <=> operator' = None,
             \A r \in Requests : req'[r] = req[r] \/ req'[r].op # "create"
      PROVE  BrowserInv' /\ E
  BY <1>1
<1>2. ASSUME NEW r \in Requests, Starts(r) PROVE BrowserInv' /\ E
  <2>1. PICK what \in Request : Begin(r, what) /\ what.op # "create"
    BY <1>2, StartsBegin
  <2> QED BY <1>1, <2>1 DEF Begin, Goto, TypeOK, keyVars
<1>3. ASSUME NEW r \in Requests, SetupVault(r) PROVE BrowserInv' /\ E
  <2>1. UNCHANGED <<operator, signedIn>> /\ req[r].op = "setup"
    BY <1>3 DEF SetupVault
  <2>2. CASE Choose
    <3>1. open' = TRUE
      BY <2>2 DEF Choose
    <3> QED BY <2>1, <3>1 DEF ToBrowser!Unlock
  <2>3. CASE Goto(r, Idle) /\ UNCHANGED keyVars
    BY <1>1, <2>1, <2>3 DEF Goto, Idle, keyVars, TypeOK
  <2> QED BY <1>3, <2>2, <2>3 DEF SetupVault
<1>4. ASSUME NEW r \in Requests, SetupCreate(r) PROVE BrowserInv' /\ E
  <2>1. \A s \in Requests : req'[s] = req[s] \/ req'[s].op # "create"
    BY <1>4 DEF SetupCreate, Returns, Goto, Idle, TypeOK
  <2>2. UNCHANGED open
    BY <1>4 DEF SetupCreate, keyVars
  <2>3. CASE operator = None
    <3>1. req[r].dek \in Deks /\ operator' = NewOperator(req[r].dek) /\ signedIn' = TRUE /\ open
      BY <1>4, <2>3, RequestShape DEF SetupCreate
    <3>2. operator' # None
      BY <3>1, NewRowTyped, NoRowAssumption
    <3>3. ToBrowser!SetUp
      BY <2>2, <2>3, <3>1, <3>2 DEF ToBrowser!SetUp
    <3> QED BY <3>2, <3>3
  <2>4. CASE operator # None
    BY <1>1, <1>4, <2>1, <2>2, <2>4 DEF SetupCreate
  <2> QED BY <2>3, <2>4
<1>5. ASSUME NEW r \in Requests, LoginEnd(r) PROVE BrowserInv' /\ E
  <2>1. operator # None /\ operator' # None /\ UNCHANGED open
    BY <1>5, LoginRowTyped DEF LoginEnd, keyVars
  <2>2. signedIn' = signedIn \/ signedIn' = TRUE
    BY <1>5 DEF LoginEnd
  <2> QED BY <2>1, <2>2 DEF ToBrowser!SignIn
<1>6. ASSUME NEW r \in Requests, DisableEnd(r) PROVE BrowserInv' /\ E
  <2>1. operator # None /\ operator' # None
    BY <1>6, WithoutTotpTyped, NoRowAssumption DEF DisableEnd, RowStays
  <2>2. UNCHANGED <<open, signedIn>>
    BY <1>6 DEF DisableEnd, keyVars
  <2> QED BY <2>1, <2>2
<1>7. ASSUME NEW r \in Requests, UnlockEnd(r) PROVE BrowserInv' /\ E
  <2>1. open' = TRUE /\ UNCHANGED <<operator, signedIn>>
    BY <1>7 DEF UnlockEnd, Open
  <2> QED BY <2>1 DEF ToBrowser!Unlock
<1>8. CASE WrongName \/ LockExpires \/ RecoverLockout
  BY <1>1, <1>8 DEF WrongName, LockExpires, RecoverLockout, keyVars
<1>9. CASE SignOut
  BY <1>9 DEF SignOut, ToBrowser!SignOut, keyVars
<1>10. CASE Verify \/ RecoverTotp
  <2>1. operator # None /\ operator' # None
    <3>1. CASE RecoverTotp
      BY <3>1, WithoutTotpTyped, NoRowAssumption DEF RecoverTotp
    <3>2. CASE Verify
      <4>1. operator' \in OperatorRow
        BY <3>2 DEF Verify, TypeOK, OperatorRow
      <4> QED BY <3>2, <4>1, NoRowAssumption DEF Verify
    <3> QED BY <1>10, <3>1, <3>2
  <2> QED BY <1>10, <2>1 DEF Verify, RecoverTotp, keyVars
<1>11. CASE Enable \/ EnableCrash
  <2>1. operator # None /\ operator' # None /\ UNCHANGED signedIn
    <3>1. PICK on \in BOOLEAN : Enroll(on)
      BY <1>11 DEF Enable, EnableCrash
    <3> QED BY <3>1, EnrolledTyped DEF Enroll
  <2>2. UNCHANGED open \/ open' = FALSE
    BY <1>11 DEF Enable, EnableCrash
  <2> QED BY <2>1, <2>2 DEF ToBrowser!Lock
<1>12. CASE LockVault
  <2>1. operator # None /\ open' = FALSE /\ UNCHANGED <<operator, signedIn>>
    BY <1>12 DEF LockVault, Close
  <2> QED BY <2>1 DEF ToBrowser!Lock
<1>13. CASE Restart
  <2>1. open' = FALSE /\ UNCHANGED <<operator, signedIn>> /\ \A r \in Requests : req'[r].op # "create"
    BY <1>13 DEF Restart, Close, Stopped, Idle
  <2> QED BY <2>1 DEF ToBrowser!Lock
<1>14. CASE UNCHANGED vars
  BY <1>14 DEF vars, keyVars
<1> QED BY <1>2, <1>3, <1>4, <1>5, <1>6, <1>7, <1>8, <1>9, <1>10, <1>11, <1>12, <1>13, <1>14, Steps

(* A browser can rely on Entry, for any number of requests in flight.      *)
THEOREM AccessServesBrowser == Spec => ImplementsEntry
<1>1. Init => BrowserInv /\ ToBrowser!EntryInit
  BY DEF Init, Uninitialized, BrowserInv, Idle, ToBrowser!EntryInit
<1>2. Spec => [](TypeOK /\ RowStays)
  BY InitTyped, TypeStep, PTL DEF Spec
<1>3. TypeOK /\ RowStays /\ BrowserInv /\ [Next]_vars
        => BrowserInv' /\ [ToBrowser!EntryNext]_(ToBrowser!backend)
  BY BrowserStep
<1> QED BY <1>1, <1>2, <1>3, PTL DEF Spec, ImplementsEntry, ToBrowser!EntrySpec
=============================================================================
