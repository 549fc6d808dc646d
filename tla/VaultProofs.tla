---------------------------- MODULE VaultProofs ----------------------------
(***************************************************************************)
(* Proofs about the vault, for any number of passphrases, keys and         *)
(* requests in flight.  That no secret is ever lost rests on what the      *)
(* requests in flight hold: a row read before an await may be stale in its *)
(* passphrase, but the DEK it wraps is still the stored one.               *)
(***************************************************************************)
EXTENDS Vault, TLAPS

(* What a request in flight read is the key that is stored now. *)
Current(q) ==
    /\ q.op \in {"unlock", "verify"} => stored # None /\ q.row.dek = stored.dek
    /\ q.op = "rewrap" => stored # None /\ q.dek = stored.dek

(* The inductive invariant. *)
IInv ==
    /\ TypeOK
    /\ SecretsReadable
    /\ \A r \in Requests : Current(req[r])

LEMMA UnwrapOpens ==
    ASSUME NEW row \in StoredRow, NEW p \in Passphrases
    PROVE  Unwrap(row, p) # None => Unwrap(row, p) = row.dek
BY DEF Unwrap

LEMMA InitGood == Init => IInv
BY BoundAssumption
   DEF Init, IInv, TypeOK, SecretsReadable, Current, Request, Idle

(* A step that leaves the stored key alone, and lets one request go on.    *)
LEMMA GotoGood ==
    ASSUME IInv, NEW r \in Requests, NEW q \in Request, Goto(r, q), Current(q),
           stored' = stored
    PROVE  req' \in [Requests -> Request] /\ \A s \in Requests : Current(req[s])'
BY DEF IInv, TypeOK, Goto, Current

LEMMA IdleGood == Idle \in Request /\ Current(Idle)
BY DEF Idle, Request, Current

LEMMA BeginGood ==
    ASSUME IInv, NEW r \in Requests, NEW p \in Passphrases,
           InitBegin(r, p) \/ UnlockBegin(r, p) \/ \E q \in Passphrases : ChangeBegin(r, p, q)
    PROVE  IInv'
<1>1. PICK q \in Request : Begin(r, q) /\ Current(q)
  <2>1. CASE InitBegin(r, p)
    BY <2>1 DEF InitBegin, Request, Current
  <2>2. CASE UnlockBegin(r, p)
    BY <2>2 DEF UnlockBegin, Request, Current, IInv, TypeOK
  <2>3. ASSUME NEW n \in Passphrases, ChangeBegin(r, p, n)
        PROVE  \E q \in Request : Begin(r, q) /\ Current(q)
    BY <2>3 DEF ChangeBegin, Request, Current, IInv, TypeOK
  <2> QED BY <2>1, <2>2, <2>3
<1>2. req' \in [Requests -> Request] /\ \A s \in Requests : Current(req[s])'
  BY <1>1, GotoGood DEF Begin
<1>3. events' \in 0 .. MaxEvents
  BY <1>1, BoundAssumption DEF Begin, Event, IInv, TypeOK
<1> QED BY <1>1, <1>2, <1>3 DEF Begin, IInv, TypeOK, SecretsReadable

LEMMA InitStoreGood == ASSUME IInv, NEW r \in Requests, InitStore(r) PROVE IInv'
<1>1. CASE stored # None
  <2>1. req' \in [Requests -> Request] /\ \A s \in Requests : Current(req[s])'
    BY <1>1, GotoGood, IdleGood DEF InitStore
  <2> QED BY <1>1, <2>1 DEF InitStore, IInv, TypeOK, SecretsReadable
<1>2. CASE stored = None
  <2>1. PICK d \in Deks : stored' = [pass |-> req[r].pass, dek |-> d] /\ dek' = d
    BY <1>2 DEF InitStore
  <2>2. req[r].pass \in Passphrases
    BY DEF InitStore, IInv, TypeOK, Request, Idle
  <2>3. stored' \in StoredRow /\ stored' # None /\ stored'.dek = d
    BY <2>1, <2>2, NoneAssumption DEF StoredRow
  <2>4. sealed' = {}
    BY <1>2 DEF InitStore, IInv, SecretsReadable
  <2>5. \A s \in Requests : req[s].op \notin {"unlock", "verify", "rewrap"}
    BY <1>2 DEF IInv, Current
  <2>6. req' \in [Requests -> Request] /\ \A s \in Requests : Current(req[s])'
    BY <2>5 DEF InitStore, Goto, IInv, TypeOK, Current, Idle, Request
  <2> QED BY <2>1, <2>3, <2>4, <2>6 DEF InitStore, IInv, TypeOK, SecretsReadable
<1> QED BY <1>1, <1>2

LEMMA UnlockGood == ASSUME IInv, NEW r \in Requests, UnlockEnd(r) PROVE IInv'
<1>1. req[r].row \in StoredRow /\ req[r].pass \in Passphrases /\ req[r].row.dek = stored.dek
      /\ stored \in StoredRow
  BY DEF UnlockEnd, IInv, TypeOK, Request, Idle, Current
<1>2. dek' \in {dek, stored.dek}
  BY <1>1, UnwrapOpens DEF UnlockEnd
<1>3. req' \in [Requests -> Request] /\ \A s \in Requests : Current(req[s])'
  BY GotoGood, IdleGood DEF UnlockEnd
<1>4. stored # None
  BY <1>1, NoneAssumption DEF StoredRow
<1> QED BY <1>1, <1>2, <1>3, <1>4 DEF UnlockEnd, IInv, TypeOK, SecretsReadable, StoredRow

LEMMA ChangeGood ==
    ASSUME IInv, NEW r \in Requests, ChangeVerify(r) \/ ChangeStore(r) PROVE IInv'
<1>1. CASE ChangeVerify(r)
  <2>1. /\ req[r].row \in StoredRow /\ req[r].row.dek = stored.dek /\ stored # None
        /\ req[r].current \in Passphrases /\ req[r].new \in Passphrases
    BY <1>1 DEF ChangeVerify, IInv, TypeOK, Request, Idle, Current
  <2>2. PICK q \in Request : Goto(r, q) /\ Current(q)
    <3>1. CASE Unwrap(req[r].row, req[r].current) = None
      BY <1>1, <3>1, IdleGood DEF ChangeVerify
    <3>2. CASE Unwrap(req[r].row, req[r].current) # None
      <4>1. Unwrap(req[r].row, req[r].current) = stored.dek /\ stored.dek \in Deks
        BY <2>1, <3>2, UnwrapOpens DEF IInv, TypeOK, StoredRow
      <4> QED BY <1>1, <2>1, <3>2, <4>1 DEF ChangeVerify, Request, Current
    <3> QED BY <3>1, <3>2
  <2>3. req' \in [Requests -> Request] /\ \A s \in Requests : Current(req[s])'
    BY <1>1, <2>2, GotoGood DEF ChangeVerify
  <2> QED BY <1>1, <2>3 DEF ChangeVerify, IInv, TypeOK, SecretsReadable
<1>2. CASE ChangeStore(r)
  <2>1. /\ req[r].new \in Passphrases /\ req[r].dek = stored.dek
        /\ stored # None /\ stored \in StoredRow
    BY <1>2 DEF ChangeStore, IInv, TypeOK, Request, Idle, Current
  <2>2. stored' \in StoredRow /\ stored' # None /\ stored'.dek = stored.dek /\ dek' = stored.dek
    BY <1>2, <2>1, NoneAssumption DEF ChangeStore, StoredRow
  <2>3. req' \in [Requests -> Request] /\ \A s \in Requests : Current(req[s])'
    BY <1>2, <2>2 DEF ChangeStore, Goto, IInv, TypeOK, Current, Idle, Request
  <2> QED BY <1>2, <2>1, <2>2, <2>3 DEF ChangeStore, IInv, TypeOK, SecretsReadable, StoredRow
<1> QED BY <1>1, <1>2

LEMMA ProcessGood == ASSUME IInv, Lock \/ Restart \/ Seal PROVE IInv'
<1>1. events' \in 0 .. MaxEvents
  BY BoundAssumption DEF Lock, Restart, Seal, Event, IInv, TypeOK
<1>2. req' \in [Requests -> Request] /\ \A s \in Requests : Current(req[s])'
  BY IdleGood DEF Lock, Restart, Seal, IInv, TypeOK, Current
<1>3. SecretsReadable'
  BY DEF Lock, Restart, Seal, IInv, SecretsReadable
<1> QED BY <1>1, <1>2, <1>3 DEF Lock, Restart, Seal, IInv, TypeOK

LEMMA NextGood == IInv /\ [Next]_vars => IInv'
<1> SUFFICES ASSUME IInv, [Next]_vars PROVE IInv'
  OBVIOUS
<1>1. CASE UNCHANGED vars
  BY <1>1 DEF vars, IInv, TypeOK, SecretsReadable, Current
<1> QED BY <1>1, BeginGood, InitStoreGood, UnlockGood, ChangeGood, ProcessGood DEF Next

LEMMA Inductive == Spec => []IInv
BY InitGood, NextGood, PTL DEF Spec

-----------------------------------------------------------------------------
(* Every variable of the vault stays in its type. *)
THEOREM VaultTyped == Spec => []TypeOK
BY Inductive, PTL DEF IInv

(* No secret is ever encrypted with a key other than the one the stored    *)
(* row wraps, however setups, unlocks, passphrase changes, locks and       *)
(* restarts interleave.                                                    *)
THEOREM VaultSecretsReadable == Spec => []SecretsReadable
BY Inductive, PTL DEF IInv

(* The vault implements the abstract one: once chosen, the key is never    *)
(* replaced, by a second setup or a passphrase change either.              *)
THEOREM VaultRefines == Spec => ImplementsVaultState
<1>1. Init => Abstract!Uninitialized
  BY DEF Init, Abstract!Uninitialized
<1>2. IInv /\ IInv' /\ [Next]_vars
        => [Abstract!Choose \/ Abstract!Open \/ Abstract!Close]_(Abstract!keyVars)
  <2> SUFFICES ASSUME IInv, IInv', [Next]_vars
               PROVE  [Abstract!Choose \/ Abstract!Open \/ Abstract!Close]_(Abstract!keyVars)
    OBVIOUS
  <2> USE DEF Abstract!keyVars
  <2>1. CASE UNCHANGED <<stored, dek>>
    BY <2>1
  <2>2. ASSUME NEW r \in Requests, InitStore(r), stored = None PROVE Abstract!Choose
    <3>1. PICK d \in Deks : stored' = [pass |-> req[r].pass, dek |-> d] /\ dek' = d
      BY <2>2 DEF InitStore
    <3>2. stored' # None
      BY <3>1, NoneAssumption, <2>2 DEF IInv, TypeOK, InitStore, Request, Idle, StoredRow
    <3> QED BY <2>2, <3>1, <3>2, NoneAssumption DEF Abstract!Choose
  <2>3. ASSUME NEW r \in Requests, InitStore(r), stored # None PROVE UNCHANGED <<stored, dek>>
    BY <2>3 DEF InitStore
  <2>4. ASSUME NEW r \in Requests, UnlockEnd(r), dek' # dek PROVE Abstract!Open
    <3>1. stored \in StoredRow /\ stored # None /\ dek' = stored.dek /\ stored' = stored
      BY <2>4, UnwrapOpens DEF UnlockEnd, IInv, TypeOK, Request, Idle, Current
    <3> QED BY <3>1, NoneAssumption DEF Abstract!Open, StoredRow
  <2>5. ASSUME NEW r \in Requests, ChangeStore(r) PROVE Abstract!Open
    <3>1. stored \in StoredRow /\ stored # None /\ req[r].dek = stored.dek
          /\ req[r].new \in Passphrases
      BY <2>5 DEF ChangeStore, IInv, TypeOK, Request, Idle, Current
    <3>2. stored' \in StoredRow /\ stored'.dek = stored.dek /\ dek' = stored.dek
      BY <2>5, <3>1 DEF ChangeStore, StoredRow
    <3> QED BY <3>1, <3>2, NoneAssumption DEF Abstract!Open, StoredRow
  <2>6. CASE Lock \/ Restart
    BY <2>6 DEF Lock, Restart, Abstract!Close
  <2>7. CASE Seal \/ UNCHANGED vars
    BY <2>1, <2>7 DEF Seal, vars
  <2>8. ASSUME NEW r \in Requests, NEW p \in Passphrases,
               InitBegin(r, p) \/ UnlockBegin(r, p) \/ \E q \in Passphrases : ChangeBegin(r, p, q)
        PROVE  UNCHANGED <<stored, dek>>
    BY <2>8 DEF InitBegin, UnlockBegin, ChangeBegin, Begin
  <2>9. ASSUME NEW r \in Requests, ChangeVerify(r) PROVE UNCHANGED <<stored, dek>>
    BY <2>9 DEF ChangeVerify
  <2>10. ASSUME NEW r \in Requests, UnlockEnd(r), dek' = dek PROVE UNCHANGED <<stored, dek>>
    BY <2>10 DEF UnlockEnd
  <2> QED BY <2>1, <2>2, <2>3, <2>4, <2>5, <2>6, <2>7, <2>8, <2>9, <2>10 DEF Next
<1> QED BY <1>1, <1>2, Inductive, PTL DEF Spec, ImplementsVaultState, Abstract!VaultSpec
=============================================================================
