-------------------------- MODULE PeerSyncProofs --------------------------
(***************************************************************************)
(* Proofs that the device table of PeerSync stays sound for any number of  *)
(* requests, devices, keys and addresses.  Uniqueness of keys and          *)
(* addresses is not inductive alone: it rests on where keys come from      *)
(* (nothing the table, the interface, the files or a request in flight     *)
(* holds is a key nobody generated) and on the kernel giving a prefix to   *)
(* one peer only, which every answer in flight inherits.                   *)
(***************************************************************************)
EXTENDS PeerSyncAlone, TLAPS

Exclusive(peers) ==
    \A k, l \in Listed(peers) : k # l => peers[k] \cap peers[l] = {}

RowsGood(rs, by) ==
    /\ rs \in [Devices -> {None} \cup Row]
    /\ \A d, e \in Tracked(rs) : rs[d].key = rs[e].key => d = e
    /\ \A d, e \in Tracked(rs) :
          rs[d].addr # None /\ rs[d].addr = rs[e].addr => d = e
    /\ \A d \in Tracked(rs) : /\ by[rs[d].key] # "nobody"
                              /\ rs[d].private => by[rs[d].key] = "app"

ListGood(peers, by) == /\ peers \in PeerList
                       /\ \A k \in Listed(peers) : by[k] # "nobody"

FileGood(file, by) == file = None \/ ListGood(file, by)

ReqGood(q, by) ==
    /\ q \in Request
    /\ q.op = "read" => ListGood(q.answer.peers, by) /\ Exclusive(q.answer.peers)
    /\ q.op = "rendered" => FileGood(q.config, by)

Who == {"nobody", "app", "external"}

Flags(st, un, u, ev, by) ==
    /\ st \in {"unknown", "up", "down", "deleted"}
    /\ un \in BOOLEAN /\ u \in BOOLEAN
    /\ ev \in 0 .. MaxEvents
    /\ by \in [Keys -> Who]

DataGood(rs, lv, fs, by) ==
    /\ RowsGood(rs, by)
    /\ ListGood(lv, by) /\ Exclusive(lv)
    /\ fs = [conf |-> fs.conf, sync |-> fs.sync]
    /\ FileGood(fs.conf, by) /\ FileGood(fs.sync, by)

ReqsGood(qs, by) ==
    qs \in [Requests -> Request] /\ \A r \in Requests : ReqGood(qs[r], by)

(* The inductive invariant. *)
IInv ==
    /\ Flags(status, unlocked, up, events, issued)
    /\ DataGood(rows, live, files, issued)
    /\ ReqsGood(req, issued)

LEMMA IInvTyped == IInv => TypeOK
<1> SUFFICES ASSUME IInv PROVE TypeOK
  OBVIOUS
<1>1. rows \in [Devices -> {None} \cup Row] /\ live \in PeerList
  BY DEF IInv, DataGood, RowsGood, ListGood
<1>2. files \in [conf : {None} \cup PeerList, sync : {None} \cup PeerList]
  BY DEF IInv, DataGood, FileGood, ListGood
<1>3. \A d \in Tracked(rows) : rows[d].private => issued[rows[d].key] = "app"
  BY DEF IInv, DataGood, RowsGood
<1> QED BY <1>1, <1>2, <1>3 DEF IInv, TypeOK, Flags, ReqsGood, Who

(* A key that gets a generator spoils nothing that was good before. *)
LEMMA GoodGrows ==
    ASSUME NEW by \in [Keys -> Who], NEW later \in [Keys -> Who],
           \A k \in Keys : by[k] # "nobody" => later[k] = by[k]
    PROVE  /\ \A rs : RowsGood(rs, by) => RowsGood(rs, later)
           /\ \A p : ListGood(p, by) => ListGood(p, later)
           /\ \A f : FileGood(f, by) => FileGood(f, later)
           /\ \A q : ReqGood(q, by) => ReqGood(q, later)
<1>1. ASSUME NEW rs, RowsGood(rs, by) PROVE RowsGood(rs, later)
  <2>1. \A d \in Tracked(rs) : rs[d].key \in Keys
    BY <1>1 DEF RowsGood, Tracked, Row
  <2> QED BY <1>1, <2>1 DEF RowsGood
<1>2. ASSUME NEW p, ListGood(p, by) PROVE ListGood(p, later)
  BY <1>2 DEF ListGood, Listed
<1>3. ASSUME NEW f, FileGood(f, by) PROVE FileGood(f, later)
  BY <1>2, <1>3 DEF FileGood
<1>4. ASSUME NEW q, ReqGood(q, by) PROVE ReqGood(q, later)
  BY <1>2, <1>3, <1>4 DEF ReqGood
<1> QED BY <1>1, <1>2, <1>3, <1>4

(* importLivePeers keeps the table sound: it takes only keys no row has,   *)
(* one slot each, and an address only when no row has it; two live peers   *)
(* cannot both bring the same one.                                         *)
LEMMA ImportGood ==
    ASSUME IInv, NEW peers, ListGood(peers, issued), Exclusive(peers),
           NEW slot \in Slots(peers)
    PROVE  RowsGood(RowsWithImported(peers, slot), issued)
<1> DEFINE new == RowsWithImported(peers, slot)
           used == UsedAddresses(rows)
           fresh == {d \in Devices : \E k \in Unknown(peers) : slot[k] = d}
           of(d) == CHOOSE k \in Unknown(peers) : slot[k] = d
<1>1. /\ Unknown(peers) \subseteq Keys
      /\ \A k \in Unknown(peers) : /\ peers[k] \in SUBSET Prefixes
                                   /\ k \notin KeysOf(rows)
                                   /\ issued[k] # "nobody"
                                   /\ k \in Listed(peers)
  BY DEF Unknown, Listed, ListGood, PeerList
<1>2. \A d \in fresh : of(d) \in Unknown(peers) /\ slot[of(d)] = d
  OBVIOUS
<1>3. \A d \in fresh : d \notin Tracked(rows)
  BY DEF Slots, Free
<1>4. \A d, e \in fresh : of(d) = of(e) => d = e
  BY <1>2
<1>5. new = [d \in Devices |-> IF d \in fresh
                               THEN ImportedRow(of(d), peers[of(d)], used) ELSE rows[d]]
  BY DEF RowsWithImported
<1>6. ASSUME NEW k \in Keys, NEW ips \in SUBSET Prefixes
      PROVE  /\ ImportedRow(k, ips, used) \in Row
             /\ ImportedRow(k, ips, used).key = k
             /\ ~ImportedRow(k, ips, used).private
             /\ ImportedRow(k, ips, used).addr # None =>
                   /\ ImportedRow(k, ips, used).addr \notin used
                   /\ ips = {ImportedRow(k, ips, used).addr}
  BY NoneAssumption DEF ImportedRow, Row, Prefixes
<1>7. /\ new \in [Devices -> {None} \cup Row]
      /\ \A d \in fresh : new[d] = ImportedRow(of(d), peers[of(d)], used)
      /\ \A d \in Devices \ fresh : new[d] = rows[d]
  BY <1>1, <1>2, <1>5, <1>6 DEF IInv, DataGood, RowsGood
<1>8. ASSUME NEW d \in fresh
      PROVE  /\ new[d].key = of(d) /\ ~new[d].private
             /\ new[d].addr # None => new[d].addr \notin used /\ peers[of(d)] = {new[d].addr}
  <2>1. of(d) \in Keys /\ peers[of(d)] \in SUBSET Prefixes
    BY <1>1, <1>2
  <2>2. new[d] = ImportedRow(of(d), peers[of(d)], used)
    BY <1>7
  <2> HIDE DEF new, of, used
  <2> QED BY <1>6, <2>1, <2>2
<1>9. Tracked(new) = Tracked(rows) \cup fresh
  <2>1. \A d \in fresh : new[d] \in Row
    BY <1>1, <1>2, <1>6, <1>7
  <2> QED BY <1>7, <2>1, NoneAssumption DEF Tracked
<1>10. ASSUME NEW d \in Tracked(new), NEW e \in Tracked(new), new[d].key = new[e].key
      PROVE  d = e
  <2>1. CASE d \in fresh /\ e \in fresh
    BY <1>4, <1>8, <1>10, <2>1
  <2>2. CASE d \notin fresh /\ e \notin fresh
    BY <1>7, <1>9, <1>10, <2>2 DEF IInv, DataGood, RowsGood, Tracked
  <2>3. ASSUME NEW x \in fresh, NEW y \in Tracked(rows) PROVE new[x].key # rows[y].key
    BY <1>1, <1>2, <1>8, rows[y].key \in KeysOf(rows) DEF KeysOf
  <2> QED BY <1>7, <1>9, <1>10, <2>1, <2>2, <2>3 DEF Tracked
<1>11. ASSUME NEW d \in Tracked(new), NEW e \in Tracked(new),
              new[d].addr # None, new[d].addr = new[e].addr
       PROVE  d = e
  <2>1. CASE d \in fresh /\ e \in fresh
    <3>1. peers[of(d)] = {new[d].addr} /\ peers[of(e)] = {new[d].addr}
      BY <1>8, <1>11, <2>1
    <3>2. of(d) = of(e)
      BY <1>1, <1>2, <2>1, <3>1 DEF Exclusive
    <3> QED BY <1>4, <2>1, <3>2
  <2>2. CASE d \notin fresh /\ e \notin fresh
    BY <1>7, <1>9, <1>11, <2>2 DEF IInv, DataGood, RowsGood, Tracked
  <2>3. ASSUME NEW x \in fresh, NEW y \in Tracked(rows), new[x].addr # None
        PROVE  new[x].addr # rows[y].addr
    <3>1. new[x].addr \notin used
      BY <1>8, <2>3
    <3> QED BY <2>3, <3>1 DEF UsedAddresses
  <2> QED BY <1>7, <1>9, <1>11, <2>1, <2>2, <2>3 DEF Tracked
<1>12. ASSUME NEW d \in Tracked(new)
       PROVE  issued[new[d].key] # "nobody" /\ (new[d].private => issued[new[d].key] = "app")
  <2>1. CASE d \in fresh
    BY <1>1, <1>2, <1>8, <2>1
  <2>2. CASE d \notin fresh
    BY <1>7, <1>9, <2>2 DEF IInv, DataGood, RowsGood, Tracked
  <2> QED BY <2>1, <2>2
<1> QED BY <1>7, <1>10, <1>11, <1>12 DEF RowsGood

(* Rendering lists only keys of the table. *)
LEMMA RenderGood ==
    ASSUME NEW rs, RowsGood(rs, issued)
    PROVE  ListGood(Render(rs), issued)
<1> DEFINE rowsOf(k) == {d \in Tracked(rs) : rs[d].key = k /\ Renderable(rs[d])}
<1>1. \A k \in Keys : \A d \in rowsOf(k) : /\ Rendered(rs[d]) \in SUBSET Prefixes
                                           /\ issued[k] # "nobody"
  BY DEF RowsGood, Tracked, Row, Rendered, Renderable, Prefixes
<1>2. Render(rs) = [k \in Keys |-> IF rowsOf(k) = {} THEN None
                                   ELSE Rendered(rs[CHOOSE d \in rowsOf(k) : TRUE])]
  BY DEF Render
<1>3. \A k \in Keys : rowsOf(k) # {} => (CHOOSE d \in rowsOf(k) : TRUE) \in rowsOf(k)
  OBVIOUS
<1> HIDE DEF rowsOf
<1>4. Render(rs) \in PeerList
  BY <1>1, <1>2, <1>3 DEF PeerList
<1>5. \A k \in Listed(Render(rs)) : issued[k] # "nobody"
  BY <1>1, <1>2, <1>3 DEF Listed
<1> QED BY <1>4, <1>5 DEF ListGood

(* What the kernel makes of a file lists the file's keys, each prefix once. *)
LEMMA LoadedGood ==
    ASSUME NEW file, ListGood(file, issued), NEW peers \in Loaded(file)
    PROVE  ListGood(peers, issued) /\ Exclusive(peers)
<1>1. PICK o : peers = [k \in Keys |-> IF file[k] = None THEN None
                                       ELSE {p \in file[k] : o[p] = k}]
  BY DEF Loaded
<1>2. \A k \in Keys : file[k] # None => file[k] \in SUBSET Prefixes
  BY DEF ListGood, PeerList
<1>3. peers \in PeerList
  BY <1>1, <1>2 DEF PeerList
<1>4. \A k \in Listed(peers) : k \in Listed(file) /\ \A p \in peers[k] : o[p] = k
  BY <1>1, <1>2 DEF Listed
<1> QED BY <1>3, <1>4 DEF ListGood, Exclusive

-----------------------------------------------------------------------------
LEMMA InitGood == Init => IInv
<1> SUFFICES ASSUME Init PROVE IInv
  OBVIOUS
<1> USE DEF Init
<1>1. NoPeers \in PeerList /\ Listed(NoPeers) = {}
  BY DEF NoPeers, PeerList, Listed
<1>2. Tracked(rows) = {}
  BY DEF Tracked
<1>3. Flags(status, unlocked, up, events, issued)
  BY RemoteAssumption DEF Flags, Who
<1>4. DataGood(rows, live, files, issued)
  BY <1>1, <1>2 DEF DataGood, RowsGood, ListGood, FileGood, Exclusive
<1>5. ReqsGood(req, issued)
  BY DEF ReqsGood, ReqGood, Idle, Request
<1> QED BY <1>3, <1>4, <1>5 DEF IInv

LEMMA GotoGood ==
    ASSUME NEW by, ReqsGood(req, by), NEW r \in Requests, NEW q, ReqGood(q, by), Goto(r, q)
    PROVE  ReqsGood(req', by)
<1>1. q \in Request
  BY DEF ReqGood
<1> QED BY <1>1 DEF ReqsGood, Goto

LEMMA IdleGood == \A by : ReqGood(Idle, by)
BY DEF ReqGood, Idle, Request

LEMMA GoodLater ==
    ASSUME NEW by \in [Keys -> Who], NEW k \in Keys, by[k] = "nobody",
           NEW who \in Who, NEW later, later = [by EXCEPT ![k] = who]
    PROVE  /\ later \in [Keys -> Who]
           /\ \A rs : RowsGood(rs, by) => RowsGood(rs, later)
           /\ \A rs, lv, fs : DataGood(rs, lv, fs, by) => DataGood(rs, lv, fs, later)
           /\ \A qs : ReqsGood(qs, by) => ReqsGood(qs, later)
<1>1. later \in [Keys -> Who] /\ \A l \in Keys : by[l] # "nobody" => later[l] = by[l]
  OBVIOUS
<1>2. /\ \A rs : RowsGood(rs, by) => RowsGood(rs, later)
      /\ \A p : ListGood(p, by) => ListGood(p, later)
      /\ \A f : FileGood(f, by) => FileGood(f, later)
      /\ \A q : ReqGood(q, by) => ReqGood(q, later)
  BY <1>1, GoodGrows
<1> QED BY <1>1, <1>2 DEF DataGood, ReqsGood

(* Writing one row whose key and address no other row has. *)
LEMMA PutGood ==
    ASSUME NEW by, NEW rs, RowsGood(rs, by), NEW d \in Devices, NEW row \in Row,
           \A e \in Tracked(rs) \ {d} :
              rs[e].key # row.key /\ (row.addr # None => rs[e].addr # row.addr),
           by[row.key] # "nobody", row.private => by[row.key] = "app",
           NEW new, new = [rs EXCEPT ![d] = row]
    PROVE  RowsGood(new, by)
<1>1. new \in [Devices -> {None} \cup Row]
  BY DEF RowsGood
<1>2. new[d] = row /\ \A e \in Devices \ {d} : new[e] = rs[e]
  BY DEF RowsGood
<1>3. Tracked(new) = Tracked(rs) \cup {d}
  BY <1>2, NoneAssumption DEF Tracked
<1>4. ASSUME NEW e \in Tracked(new), NEW f \in Tracked(new), new[e].key = new[f].key
      PROVE  e = f
  BY <1>2, <1>3, <1>4 DEF RowsGood, Tracked
<1>5. ASSUME NEW e \in Tracked(new), NEW f \in Tracked(new),
             new[e].addr # None, new[e].addr = new[f].addr
      PROVE  e = f
  BY <1>2, <1>3, <1>5 DEF RowsGood, Tracked
<1>6. ASSUME NEW e \in Tracked(new)
      PROVE  by[new[e].key] # "nobody" /\ (new[e].private => by[new[e].key] = "app")
  BY <1>2, <1>3 DEF RowsGood, Tracked
<1> QED BY <1>1, <1>4, <1>5, <1>6 DEF RowsGood

(* Deleting rows. *)
LEMMA DropGood ==
    ASSUME NEW by, NEW rs, RowsGood(rs, by), NEW new \in [Devices -> {None} \cup Row],
           \A d \in Devices : new[d] = None \/ new[d] = rs[d]
    PROVE  RowsGood(new, by)
<1>1. \A d \in Tracked(new) : d \in Tracked(rs) /\ new[d] = rs[d]
  BY DEF Tracked
<1> QED BY <1>1 DEF RowsGood

(* The steps of an add and of a rotation that write the table. *)
LEMMA AddGood == ASSUME IInv, NEW r \in Requests, AddInsert(r) PROVE IInv'
<1> DEFINE row(k) == [key |-> k, addr |-> req[r].addr, allowed |-> {},
                      private |-> TRUE, state |-> "managed"]
<1>1. PICK d \in Free, k \in Keys :
        /\ issued[k] = "nobody"
        /\ issued' = [issued EXCEPT ![k] = "app"]
        /\ rows' = [rows EXCEPT ![d] = row(k)]
  BY DEF AddInsert
<1>2. req[r].addr \in Hosts /\ d \in Devices
  BY DEF AddInsert, IInv, ReqsGood, Request, Idle, Free
<1>3. row(k) \in Row
  BY <1>2 DEF Row
<1>4. \A e \in Tracked(rows) : rows[e].key # k /\ rows[e].addr # req[r].addr
  BY <1>1, <1>2, NoneAssumption
     DEF AddInsert, IInv, DataGood, RowsGood, UsedAddresses, Prefixes
<1>5. /\ issued' \in [Keys -> Who] /\ issued'[k] = "app"
      /\ DataGood(rows, live, files, issued') /\ ReqsGood(req, issued')
  BY <1>1, GoodLater DEF IInv, Flags, Who
<1>6. RowsGood(rows', issued')
  <2>1. \A e \in Tracked(rows) \ {d} :
           rows[e].key # row(k).key /\ (row(k).addr # None => rows[e].addr # row(k).addr)
    BY <1>4
  <2>2. issued'[row(k).key] = "app"
    BY <1>5
  <2>3. RowsGood(rows, issued')
    BY <1>5 DEF DataGood
  <2> HIDE DEF row
  <2> QED BY <1>1, <1>2, <1>3, <2>1, <2>2, <2>3, PutGood
<1>7. ReqsGood(req', issued')
  BY <1>5, GotoGood, IdleGood DEF AddInsert
<1> QED BY <1>5, <1>6, <1>7 DEF IInv, Flags, DataGood, AddInsert

LEMMA RotateGood == ASSUME IInv, NEW r \in Requests, RotateUpdate(r) PROVE IInv'
<1> DEFINE d == req[r].dev
           row(k) == [rows[d] EXCEPT !.key = k, !.private = TRUE]
<1>1. PICK k \in Keys :
        /\ issued[k] = "nobody"
        /\ issued' = [issued EXCEPT ![k] = "app"]
        /\ rows' = [rows EXCEPT ![d].key = k, ![d].private = TRUE]
  BY DEF RotateUpdate
<1>2. d \in Devices /\ rows[d] \in Row
  BY DEF RotateUpdate, IInv, ReqsGood, Request, Idle, DataGood, RowsGood
<1>3. row(k) \in Row /\ row(k).key = k /\ row(k).addr = rows[d].addr
  BY <1>2 DEF Row
<1>4. rows' = [rows EXCEPT ![d] = row(k)]
  BY <1>1, <1>2 DEF IInv, DataGood, RowsGood
<1>5. \A e \in Tracked(rows) \ {d} :
         rows[e].key # k /\ (row(k).addr # None => rows[e].addr # row(k).addr)
  <2>1. d \in Tracked(rows)
    BY <1>2 DEF RotateUpdate, Tracked
  <2>2. \A e \in Tracked(rows) : rows[e].key # k
    BY <1>1 DEF IInv, DataGood, RowsGood
  <2> QED BY <1>3, <2>1, <2>2 DEF IInv, DataGood, RowsGood
<1>6. /\ issued' \in [Keys -> Who] /\ issued'[k] = "app"
      /\ DataGood(rows, live, files, issued') /\ ReqsGood(req, issued')
  BY <1>1, GoodLater DEF IInv, Flags, Who
<1>7. RowsGood(rows', issued')
  <2>1. RowsGood(rows, issued') /\ issued'[row(k).key] = "app"
    BY <1>3, <1>6 DEF DataGood
  <2> HIDE DEF row, d
  <2> QED BY <1>2, <1>3, <1>4, <1>5, <2>1, PutGood
<1>8. ReqsGood(req', issued')
  BY <1>6, GotoGood, IdleGood DEF RotateUpdate
<1> QED BY <1>6, <1>7, <1>8 DEF IInv, Flags, DataGood, RotateUpdate

(* Asking the interface, and taking up the answer. *)
LEMMA ReadGood == ASSUME IInv, NEW r \in Requests, ReadLive(r) PROVE IInv'
<1>1. \A how \in {"failed", "threw"} :
         /\ Unread(how) \in Answer
         /\ ListGood(Unread(how).peers, issued) /\ Exclusive(Unread(how).peers)
  BY DEF Unread, Answer, NoPeers, PeerList, ListGood, Exclusive, Listed
<1>2. PICK answer \in Answer :
        /\ ListGood(answer.peers, issued) /\ Exclusive(answer.peers)
        /\ Goto(r, [op |-> "read", for |-> req[r].for, answer |-> answer])
  <2>1. [how |-> "read", up |-> up, peers |-> live] \in Answer
    BY DEF IInv, Flags, DataGood, ListGood, Answer
  <2> QED BY <1>1, <2>1 DEF ReadLive, IInv, DataGood
<1>3. req[r].for \in Readers
  BY DEF ReadLive, IInv, ReqsGood, Request, Idle
<1>4. ReqGood([op |-> "read", for |-> req[r].for, answer |-> answer], issued)
  BY <1>2, <1>3 DEF ReqGood, Request
<1>5. ReqsGood(req', issued)
  BY <1>2, <1>4, GotoGood DEF IInv
<1> QED BY <1>5 DEF ReadLive, IInv, Flags, DataGood

LEMMA AnswerGood ==
    ASSUME IInv, NEW r \in Requests, req[r].op = "read"
    PROVE  /\ req[r].answer \in Answer
           /\ ListGood(req[r].answer.peers, issued) /\ Exclusive(req[r].answer.peers)
BY DEF IInv, ReqsGood, ReqGood, Request, Idle

LEMMA ReconcileGood == ASSUME IInv, NEW r \in Requests, ReconcileMerge(r) PROVE IInv'
<1>1. RowsGood(rows', issued)
  BY AnswerGood, ImportGood DEF ReconcileMerge
<1>2. ReqsGood(req', issued)
  BY GotoGood, IdleGood DEF ReconcileMerge, IInv
<1>3. status' \in {"unknown", "up", "down", "deleted"}
  BY DEF ReconcileMerge, RecordStatus, SetStatus
<1> QED BY <1>1, <1>2, <1>3 DEF ReconcileMerge, IInv, Flags, DataGood

LEMMA ApplyGood == ASSUME IInv, NEW r \in Requests, ApplyRender(r) PROVE IInv'
<1> DEFINE rendered(c) == [op |-> "rendered", how |-> req[r].answer.how, config |-> c]
<1>1. RowsGood(rows', issued)
  BY AnswerGood, ImportGood DEF ApplyRender
<1>2. \A c : FileGood(c, issued) => ReqGood(rendered(c), issued)
  <2>1. req[r].answer.how \in {"read", "failed", "threw"}
    BY AnswerGood DEF ApplyRender, Answer
  <2> QED BY <2>1 DEF ReqGood, Request, FileGood, ListGood
<1>3. FileGood(None, issued) /\ FileGood(Render(rows'), issued)
  BY <1>1, RenderGood DEF FileGood
<1>4. ReqGood(rendered(None), issued) /\ ReqGood(rendered(Render(rows')), issued)
  BY <1>2, <1>3
<1>5. \/ Goto(r, rendered(None)) \/ Goto(r, rendered(Render(rows'))) \/ Goto(r, Idle)
  BY DEF ApplyRender
<1>6. ReqsGood(req', issued)
  <2> HIDE DEF rendered
  <2> QED BY <1>4, <1>5, GotoGood, IdleGood DEF IInv
<1> QED BY <1>1, <1>6 DEF ApplyRender, IInv, Flags, DataGood

LEMMA StageGood == ASSUME IInv, NEW r \in Requests, ApplyStage(r) PROVE IInv'
<1>1. FileGood(req[r].config, issued) /\ req[r].how \in {"read", "failed", "threw"}
  BY DEF ApplyStage, IInv, ReqsGood, ReqGood, Request, Idle
<1>2. /\ files' = [conf |-> files'.conf, sync |-> files'.sync]
      /\ FileGood(files'.conf, issued) /\ FileGood(files'.sync, issued)
  BY <1>1 DEF ApplyStage, IInv, DataGood
<1>3. \A c \in {"syncconf", "up"} :
         ReqGood([op |-> "staged", how |-> req[r].how, command |-> c], issued)
  BY <1>1 DEF ReqGood, Request
<1>4. ReqsGood(req', issued)
  BY <1>3, GotoGood DEF ApplyStage, IInv
<1> QED BY <1>2, <1>4 DEF ApplyStage, IInv, Flags, DataGood

(* Loading a file, whoever does it. *)
LEMMA CommandGood ==
    ASSUME IInv, NEW c, Command(c)
    PROVE  ListGood(live', issued) /\ Exclusive(live') /\ up' \in BOOLEAN
<1>1. up' \in BOOLEAN
  BY DEF Command, IInv, Flags
<1>2. PICK file \in {files.conf, files.sync} : file # None /\ live' \in Loaded(file)
  BY DEF Command
<1>3. ListGood(file, issued)
  BY <1>2 DEF IInv, DataGood, FileGood
<1> QED BY <1>1, <1>2, <1>3, LoadedGood

LEMMA RunGood ==
    ASSUME IInv, NEW r \in Requests, ApplyRun(r) \/ ApplyFail(r) \/ StatusRecord(r)
    PROVE  IInv'
<1>1. ListGood(live', issued) /\ Exclusive(live') /\ up' \in BOOLEAN
  BY CommandGood DEF ApplyRun, ApplyFail, StatusRecord, IInv, Flags, DataGood
<1>2. ReqsGood(req', issued)
  BY GotoGood, IdleGood DEF ApplyRun, ApplyFail, StatusRecord, IInv
<1>3. status' \in {"unknown", "up", "down", "deleted"}
  BY DEF ApplyRun, ApplyFail, StatusRecord, RecordStatus, SetStatus
<1> QED BY <1>1, <1>2, <1>3 DEF ApplyRun, ApplyFail, StatusRecord, IInv, Flags, DataGood

(* The steps that begin or give up a request. *)
LEMMA EventGood == ASSUME IInv, Event PROVE events' \in 0 .. MaxEvents
BY RemoteAssumption DEF IInv, Flags, Event

LEMMA BeginGood ==
    ASSUME IInv, NEW r \in Requests,
           AddBegin(r) \/ RotateBegin(r) \/ ReadBegin(r) \/ AddFail(r) \/ RotateFail(r)
    PROVE  IInv'
<1>1. PICK q : Goto(r, q) /\ ReqGood(q, issued)
  <2>1. CASE AddBegin(r)
    BY <2>1 DEF AddBegin, Begin, ReqGood, Request
  <2>2. CASE RotateBegin(r)
    BY <2>2 DEF RotateBegin, Begin, ReqGood, Request, Tracked
  <2>3. CASE ReadBegin(r)
    BY <2>3 DEF ReadBegin, Begin, ReqGood, Request
  <2>4. CASE AddFail(r) \/ RotateFail(r)
    BY <2>4, IdleGood DEF AddFail, RotateFail
  <2> QED BY <2>1, <2>2, <2>3, <2>4
<1>2. ReqsGood(req', issued)
  BY <1>1, GotoGood DEF IInv
<1>3. events' \in 0 .. MaxEvents
  BY EventGood DEF AddBegin, RotateBegin, ReadBegin, Begin, AddFail, RotateFail, IInv, Flags
<1>4. UNCHANGED <<rows, status, unlocked, up, live, files, issued>>
  BY DEF AddBegin, RotateBegin, ReadBegin, AddFail, RotateFail
<1> QED BY <1>2, <1>3, <1>4 DEF IInv, Flags, DataGood

(* The steps of the table that are one stretch of code. *)
LEMMA AdoptGood == ASSUME IInv, NEW d \in Devices, Adopt(d) PROVE IInv'
<1> DEFINE row == [rows[d] EXCEPT !.state = "managed"]
<1>1. RowsGood(rows, issued) /\ rows[d] \in Row /\ d \in Tracked(rows)
  BY DEF Adopt, IInv, DataGood, RowsGood, Tracked
<1>2. row \in Row /\ row.key = rows[d].key /\ row.addr = rows[d].addr
                  /\ row.private = rows[d].private
  BY <1>1 DEF Row
<1>3. rows' = [rows EXCEPT ![d] = row]
  BY <1>1 DEF Adopt, RowsGood
<1>4. /\ issued[row.key] # "nobody" /\ (row.private => issued[row.key] = "app")
      /\ \A e \in Tracked(rows) \ {d} :
            rows[e].key # row.key /\ (row.addr # None => rows[e].addr # row.addr)
  BY <1>1, <1>2 DEF RowsGood
<1>5. RowsGood(rows', issued)
  <2> HIDE DEF row
  <2> QED BY <1>1, <1>2, <1>3, <1>4, PutGood
<1>6. events' \in 0 .. MaxEvents
  BY EventGood DEF Adopt
<1> QED BY <1>5, <1>6 DEF Adopt, IInv, Flags, DataGood

LEMMA RemoveGood ==
    ASSUME IInv, DeleteServer \/ \E d \in Devices : Remove(d) PROVE IInv'
<1>1. RowsGood(rows, issued)
  BY DEF IInv, DataGood
<1>2. /\ rows' \in [Devices -> {None} \cup Row]
      /\ \A d \in Devices : rows'[d] = None \/ rows'[d] = rows[d]
  BY <1>1 DEF DeleteServer, Remove, RowsGood
<1>3. RowsGood(rows', issued)
  BY <1>1, <1>2, DropGood
<1>4. events' \in 0 .. MaxEvents /\ status' \in {"unknown", "up", "down", "deleted"}
  BY EventGood DEF DeleteServer, Remove, IInv, Flags
<1> QED BY <1>3, <1>4 DEF DeleteServer, Remove, IInv, Flags, DataGood

(* The vault, a restart, and the tools of the WireGuard host. *)
LEMMA ProcessGood == ASSUME IInv, Lock \/ Unlock \/ Restart PROVE IInv'
<1>1. ReqsGood(req', issued)
  BY IdleGood DEF Lock, Unlock, Restart, IInv, ReqsGood, Request
<1>2. events' \in 0 .. MaxEvents /\ unlocked' \in BOOLEAN
  BY EventGood DEF Lock, Unlock, Restart, IInv, Flags
<1> QED BY <1>1, <1>2 DEF Lock, Unlock, Restart, IInv, Flags, DataGood

LEMMA ExternalSetGood == ASSUME IInv, NEW k \in Keys, ExternalSet(k) PROVE IInv'
<1>1. PICK ips \in SUBSET Prefixes : Assign(k, ips)
  BY ExternalAssumption DEF ExternalSet
<1>2. ListGood(live, issued) /\ Exclusive(live)
  BY DEF IInv, DataGood
<1>3. live' \in PeerList /\ Listed(live') \subseteq Listed(live) \cup {k}
  BY <1>1, <1>2, NoneAssumption DEF Assign, ListGood, PeerList, Listed
<1>4. Exclusive(live')
  <2>1. \A l, m \in Listed(live') : l # m => live'[l] \cap live'[m] = {}
    BY <1>1, <1>2, <1>3 DEF Assign, Exclusive, Listed, ListGood, PeerList
  <2> QED BY <2>1 DEF Exclusive
<1>5. /\ issued' \in [Keys -> Who] /\ issued'[k] # "nobody"
      /\ DataGood(rows, live, files, issued') /\ ReqsGood(req, issued')
  <2>1. CASE issued[k] = "nobody"
    <3>1. issued' = [issued EXCEPT ![k] = "external"]
      BY <2>1 DEF ExternalSet, IInv, Flags
    <3> QED BY <2>1, <3>1, GoodLater DEF IInv, Flags, Who
  <2>2. CASE issued[k] # "nobody"
    <3>1. issued' = issued
      BY <2>2 DEF ExternalSet, IInv, Flags
    <3> QED BY <2>2, <3>1 DEF IInv, Flags
  <2> QED BY <2>1, <2>2
<1>6. ListGood(live', issued')
  BY <1>3, <1>5 DEF ListGood, DataGood
<1>7. events' \in 0 .. MaxEvents
  BY EventGood DEF ExternalSet
<1> QED BY <1>4, <1>5, <1>6, <1>7 DEF ExternalSet, IInv, Flags, DataGood

LEMMA HostGood ==
    ASSUME IInv, (\E k \in Keys : ExternalRemove(k)) \/ InterfaceDown \/ InterfaceUp
    PROVE  IInv'
<1>1. ListGood(live, issued) /\ Exclusive(live)
  BY DEF IInv, DataGood
<1>2. ListGood(live', issued) /\ Exclusive(live') /\ up' \in BOOLEAN
  <2>1. CASE \E k \in Keys : ExternalRemove(k)
    BY <1>1, <2>1 DEF ExternalRemove, ListGood, Exclusive, Listed, PeerList, IInv, Flags
  <2>2. CASE InterfaceDown
    BY <2>2 DEF InterfaceDown, NoPeers, ListGood, Exclusive, Listed, PeerList
  <2>3. CASE InterfaceUp
    BY <2>3, CommandGood DEF InterfaceUp
  <2> QED BY <2>1, <2>2, <2>3
<1>3. /\ files' = [conf |-> files'.conf, sync |-> files'.sync]
      /\ FileGood(files'.conf, issued) /\ FileGood(files'.sync, issued)
  BY <1>1 DEF ExternalRemove, InterfaceDown, InterfaceUp, FileGood, IInv, DataGood
<1>4. events' \in 0 .. MaxEvents
  BY EventGood DEF ExternalRemove, InterfaceDown, InterfaceUp
<1> QED BY <1>2, <1>3, <1>4
        DEF ExternalRemove, InterfaceDown, InterfaceUp, IInv, Flags, DataGood

LEMMA NextGood == IInv /\ [Next]_vars => IInv'
<1> SUFFICES ASSUME IInv, [Next]_vars PROVE IInv'
  OBVIOUS
<1>1. ASSUME NEW r \in Requests, Handle(r) PROVE IInv'
  BY <1>1, BeginGood, AddGood, RotateGood, ReadGood, ReconcileGood, ApplyGood, StageGood,
     RunGood DEF Handle
<1>2. ASSUME NEW d \in Devices, Adopt(d) \/ Remove(d) PROVE IInv'
  BY <1>2, AdoptGood, RemoveGood
<1>3. CASE DeleteServer \/ Lock \/ Unlock \/ Restart
  BY <1>3, RemoveGood, ProcessGood
<1>4. ASSUME NEW k \in Keys, ExternalSet(k) \/ ExternalRemove(k) PROVE IInv'
  BY <1>4, ExternalSetGood, HostGood
<1>5. CASE InterfaceDown \/ InterfaceUp
  BY <1>5, HostGood
<1>6. CASE UNCHANGED vars
  BY <1>6 DEF vars, IInv, Flags, DataGood
<1> QED BY <1>1, <1>2, <1>3, <1>4, <1>5, <1>6 DEF Next

LEMMA Inductive == Spec => []IInv
BY InitGood, NextGood, PTL DEF Spec

-----------------------------------------------------------------------------
(* Every variable stays in its type, whatever the requests in flight do,   *)
(* and private keys are held only for public keys the program generated.   *)
THEOREM SyncTyped == Spec => []TypeOK
BY Inductive, IInvTyped, PTL

(* No two device rows share a public key or a tunnel address: imports,     *)
(* adds and rotations in flight on any number of requests never register   *)
(* the same peer twice, and an import never trips the unique index.        *)
THEOREM SyncPeersDistinct == Spec => []PeersDistinct
<1>1. IInv => PeersDistinct
  BY DEF IInv, DataGood, RowsGood, PeersDistinct
<1> QED BY <1>1, Inductive, PTL

-----------------------------------------------------------------------------
(* An import writes only slots that were free. *)
LEMMA ImportKeeps ==
    ASSUME NEW peers, NEW slot \in Slots(peers), NEW d \in Tracked(rows)
    PROVE  RowsWithImported(peers, slot)[d] = rows[d]
BY DEF Slots, Free, Tracked, RowsWithImported

LEMMA StepKeeps ==
    ASSUME IInv, [Next]_vars, NEW d \in Tracked(rows)
    PROVE  Kept(d)
<1>1. rows[d] \in Row /\ d \in Devices
  BY DEF IInv, DataGood, RowsGood, Tracked
<1>2. CASE rows'[d] = None \/ rows'[d] = rows[d]
  BY <1>2 DEF Kept
<1>3. ASSUME NEW r \in Requests, AddInsert(r) PROVE rows'[d] = rows[d]
  BY <1>1, <1>3 DEF AddInsert, Free
<1>4. ASSUME NEW r \in Requests, RotateUpdate(r) PROVE Kept(d)
  <2>1. PICK k \in Keys :
          /\ issued[k] = "nobody"
          /\ rows' = [rows EXCEPT ![req[r].dev].key = k, ![req[r].dev].private = TRUE]
    BY <1>4 DEF RotateUpdate
  <2>2. rows'[d] = rows[d] \/ rows'[d] = [rows[d] EXCEPT !.key = k, !.private = TRUE]
    BY <1>1, <2>1 DEF IInv, DataGood, RowsGood
  <2>3. ASSUME rows'[d] = [rows[d] EXCEPT !.key = k, !.private = TRUE]
        PROVE  /\ rows'[d].addr = rows[d].addr /\ rows'[d].allowed = rows[d].allowed
               /\ rows'[d].key = k /\ rows'[d].private = TRUE /\ rows'[d].state = rows[d].state
    BY <1>1, <2>3 DEF Row
  <2> QED BY <1>2, <2>1, <2>2, <2>3 DEF Kept
<1>5. ASSUME NEW e \in Devices, Adopt(e) PROVE Kept(d)
  <2>1. rows'[d] = rows[d] \/ rows'[d] = [rows[d] EXCEPT !.state = "managed"]
    BY <1>1, <1>5 DEF Adopt, IInv, DataGood, RowsGood
  <2> QED BY <1>1, <2>1 DEF Kept, Row
<1>6. ASSUME NEW r \in Requests, ReconcileMerge(r) \/ ApplyRender(r) PROVE rows'[d] = rows[d]
  BY <1>6, ImportKeeps DEF ReconcileMerge, ApplyRender
<1>7. ASSUME NEW e \in Devices, Remove(e) PROVE rows'[d] = None \/ rows'[d] = rows[d]
  BY <1>1, <1>7 DEF Remove, IInv, DataGood, RowsGood
<1>8. ASSUME NEW r \in Requests, Handle(r) PROVE Kept(d)
  BY <1>2, <1>3, <1>4, <1>6, <1>8
     DEF Handle, AddBegin, AddFail, RotateBegin, RotateFail, ReadBegin, ReadLive,
         StatusRecord, ApplyStage, ApplyRun, ApplyFail
<1>9. CASE DeleteServer
  BY <1>1, <1>2, <1>9 DEF DeleteServer
<1>10. CASE \/ Lock \/ Unlock \/ Restart \/ InterfaceDown \/ InterfaceUp \/ UNCHANGED vars
            \/ \E k \in Keys : ExternalSet(k) \/ ExternalRemove(k)
  BY <1>2, <1>10
     DEF Lock, Unlock, Restart, InterfaceDown, InterfaceUp, ExternalSet, ExternalRemove, vars
<1> QED BY <1>2, <1>5, <1>7, <1>8, <1>9, <1>10 DEF Next

(* Imports and applies in flight, whose data is old, never undo an adoption *)
(* or a rotation, nor rewrite the address of a tracked peer.               *)
THEOREM SyncTrackedRowsStable == Spec => TrackedRowsStable
<1>1. IInv /\ [Next]_vars => [\A d \in Tracked(rows) : Kept(d)]_vars
  BY StepKeeps
<1> QED BY <1>1, Inductive, PTL DEF Spec, TrackedRowsStable

-----------------------------------------------------------------------------
(* Every live peer no row knew gets one of its own. *)
LEMMA ImportTracks ==
    ASSUME NEW peers, NEW slot \in Slots(peers), NEW k \in Unknown(peers)
    PROVE  /\ slot[k] \in Devices
           /\ RowsWithImported(peers, slot)[slot[k]]
                 = ImportedRow(k, peers[k], UsedAddresses(rows))
<1>1. slot[k] \in Devices /\ \A l \in Unknown(peers) : slot[l] = slot[k] => l = k
  BY DEF Slots, Free
<1>2. (CHOOSE l \in Unknown(peers) : slot[l] = slot[k]) = k
  BY <1>1
<1> QED BY <1>1, <1>2 DEF RowsWithImported

(* It is listed with the very AllowedIPs it had. *)
LEMMA ImportedRendered ==
    ASSUME NEW k \in Keys, NEW ips \in SUBSET Prefixes, NEW used
    PROVE  /\ ImportedRow(k, ips, used).key = k /\ ImportedRow(k, ips, used) \in Row
           /\ ips # {} => /\ Renderable(ImportedRow(k, ips, used))
                          /\ Rendered(ImportedRow(k, ips, used)) = ips
<1> DEFINE single == \E h \in Hosts \ used : ips = {h}
           row == ImportedRow(k, ips, used)
<1>1. row \in Row /\ row.key = k
  BY DEF ImportedRow, Row
<1>2. CASE single
  <2>1. row.addr \in Hosts /\ ips = {row.addr} /\ row.allowed = {}
    BY <1>2 DEF ImportedRow
  <2> QED BY <1>1, <2>1, NoneAssumption DEF Renderable, Rendered, Prefixes
<1>3. CASE ~single
  <2>1. row.allowed = ips
    BY <1>3 DEF ImportedRow
  <2> QED BY <1>1, <2>1 DEF Renderable, Rendered
<1> QED BY <1>2, <1>3

(* With one row per key, a renderable row is rendered as it is. *)
LEMMA RenderShows ==
    ASSUME NEW rs, NEW by, RowsGood(rs, by), NEW d \in Tracked(rs), Renderable(rs[d])
    PROVE  Render(rs)[rs[d].key] = Rendered(rs[d])
<1> DEFINE rowsOf(k) == {e \in Tracked(rs) : rs[e].key = k /\ Renderable(rs[e])}
<1>1. rs[d].key \in Keys /\ rowsOf(rs[d].key) = {d}
  BY DEF RowsGood, Tracked, Row
<1>2. Render(rs)[rs[d].key] = Rendered(rs[CHOOSE e \in rowsOf(rs[d].key) : TRUE])
  BY <1>1 DEF Render
<1> QED BY <1>1, <1>2

(* The one step that takes up an answer is the merge of that request. *)
LEMMA MergingSteps ==
    ASSUME IInv, [Next]_vars, NEW r \in Requests, Merging(r)
    PROVE  ReconcileMerge(r) \/ ApplyRender(r)
<1>1. /\ req'[r].op # "read" /\ req[r].op = "read" /\ req[r].for # "status"
      /\ events' = events /\ events \in Nat
  BY RemoteAssumption DEF Merging, IInv, Flags
<1>2. req' # req
  BY <1>1
<1>3. ASSUME Event PROVE FALSE
  BY <1>1, <1>3 DEF Event
<1>4. PICK s \in Requests : Handle(s)
  BY <1>2, <1>3
     DEF Next, Adopt, Remove, DeleteServer, Lock, Unlock, Restart, ExternalSet,
         ExternalRemove, InterfaceDown, InterfaceUp, vars
<1>5. \E q : Goto(s, q)
  BY <1>4
     DEF Handle, AddBegin, AddInsert, AddFail, RotateBegin, RotateUpdate, RotateFail, ReadBegin,
         ReadLive, StatusRecord, ReconcileMerge, ApplyRender, ApplyStage, ApplyRun, ApplyFail, Begin
<1>6. s = r
  BY <1>1, <1>5 DEF Goto, IInv, ReqsGood
<1> QED BY <1>1, <1>3, <1>4, <1>6
        DEF Handle, AddBegin, AddInsert, AddFail, RotateBegin, RotateUpdate, RotateFail, ReadBegin,
            ReadLive, StatusRecord, ApplyStage, ApplyRun, ApplyFail, Begin

LEMMA MergeKeeps ==
    ASSUME IInv, [Next]_vars, NEW r \in Requests, Merging(r), status # "deleted"
    PROVE  Merged(r)
<1> DEFINE seen == Seen(r)
<1>1. req[r].op = "read" /\ (ReconcileMerge(r) \/ ApplyRender(r))
  BY MergingSteps DEF Merging
<1>2. ListGood(seen, issued) /\ Exclusive(seen) /\ seen = req[r].answer.peers
  BY <1>1, AnswerGood DEF Seen
<1>3. PICK slot \in Slots(seen) : rows' = RowsWithImported(seen, slot)
  BY <1>1 DEF ReconcileMerge, ApplyRender, Seen
<1>4. RowsGood(rows', issued) /\ RowsGood(rows, issued)
  BY <1>2, <1>3, ImportGood DEF IInv, DataGood
<1>5. req'[r].op = "rendered" => req'[r].config = Render(rows')
  BY <1>1 DEF ReconcileMerge, ApplyRender, Goto, Idle, IInv, ReqsGood
<1>6. ASSUME NEW k \in Listed(seen), k \notin KeysOf(rows)
      PROVE  \E d \in Tracked(rows') : /\ rows'[d].key = k
                                       /\ seen[k] # {} => /\ Renderable(rows'[d])
                                                          /\ Rendered(rows'[d]) = seen[k]
  <2>1. k \in Unknown(seen) /\ k \in Keys /\ seen[k] \in SUBSET Prefixes
    BY <1>2, <1>6 DEF Unknown, Listed, ListGood, PeerList
  <2>2. slot[k] \in Devices /\ rows'[slot[k]] = ImportedRow(k, seen[k], UsedAddresses(rows))
    BY <1>3, <2>1, ImportTracks
  <2>3. slot[k] \in Tracked(rows')
    BY <2>1, <2>2, ImportedRendered, NoneAssumption DEF Tracked
  <2> QED BY <2>1, <2>2, <2>3, ImportedRendered
<1>7. ASSUME NEW d \in Tracked(rows) PROVE d \in Tracked(rows') /\ rows'[d] = rows[d]
  BY <1>3, <1>7, ImportKeeps DEF Tracked
<1>8. ASSUME NEW k \in Listed(seen) PROVE k \in KeysOf(rows')
  BY <1>6, <1>7 DEF KeysOf
<1>9. ASSUME NEW k \in Listed(seen), req'[r].op = "rendered",
             k \notin KeysOf(rows), seen[k] # {}
      PROVE  req'[r].config[k] = seen[k]
  BY <1>4, <1>5, <1>6, <1>9, RenderShows
<1>10. ASSUME NEW k \in Listed(seen), req'[r].op = "rendered",
              NEW d \in Tracked(rows), rows[d].key = k, Renderable(rows[d])
       PROVE  req'[r].config[k] = Rendered(rows[d])
  BY <1>4, <1>5, <1>7, <1>10, RenderShows
<1> QED BY <1>8, <1>9, <1>10 DEF Merged

(* No peer an apply or a reconcile saw is lost on the way into the table   *)
(* or into the configuration, however many requests and imports overlap.   *)
THEOREM SyncSeenPeersKept == Spec => SeenPeersKept
<1>1. IInv /\ [Next]_vars
        => [\A r \in Requests : Merging(r) /\ status # "deleted" => Merged(r)]_vars
  BY MergeKeeps
<1> QED BY <1>1, Inductive, PTL DEF Spec, SeenPeersKept

-----------------------------------------------------------------------------
(* Keys that are listed nowhere do not come from nowhere. *)
LEMMA ImportedKeys ==
    ASSUME NEW peers, NEW slot \in Slots(peers), NEW k \in Keys,
           k \notin KeysOf(rows), peers[k] = None
    PROVE  k \notin KeysOf(RowsWithImported(peers, slot))
<1> DEFINE new == RowsWithImported(peers, slot)
<1> SUFFICES ASSUME NEW d \in Tracked(new), new[d].key = k PROVE FALSE
  BY DEF KeysOf
<1>1. d \in Devices /\ new[d] # None
  BY DEF Tracked
<1>2. CASE \E l \in Unknown(peers) : slot[l] = d
  <2>1. PICK l \in Unknown(peers) : new[d] = ImportedRow(l, peers[l], UsedAddresses(rows))
    BY <1>1, <1>2, ImportTracks
  <2> QED BY <2>1 DEF ImportedRow, Unknown, Listed
<1>3. CASE ~\E l \in Unknown(peers) : slot[l] = d
  <2>1. new[d] = rows[d]
    BY <1>1, <1>3 DEF RowsWithImported
  <2> QED BY <1>1, <2>1 DEF KeysOf, Tracked
<1> QED BY <1>2, <1>3

LEMMA RenderedKeys ==
    ASSUME NEW rs, NEW k \in Keys, k \notin KeysOf(rs) PROVE Render(rs)[k] = None
BY DEF Render, KeysOf

LEMMA LoadedKeys ==
    ASSUME NEW file, NEW k \in Keys, file[k] = None, NEW peers \in Loaded(file)
    PROVE  peers[k] = None
BY DEF Loaded

\* A list a request comes to hold without the key.
Without(q, k) ==
    /\ q.op = "read" => q.answer.peers[k] = None
    /\ q.op = "rendered" => q.config = None \/ q.config[k] = None
    /\ q.op # "staged"

LEMMA GotoForgets ==
    ASSUME IInv, NEW k \in Keys, \A s \in Requests : ~Carries(req[s], k),
           NEW r \in Requests, NEW q, Goto(r, q), Without(q, k), UNCHANGED files
    PROVE  \A s \in Requests : ~Carries(req[s], k)'
BY DEF Without, Goto, Carries, IInv, ReqsGood

LEMMA IdleWithout == \A k : Without(Idle, k)
BY DEF Without, Idle

(* A command loads what the file lists; the file of a request that is      *)
(* staged for syncconf is the copy.                                        *)
LEMMA CommandForgets ==
    ASSUME NEW k \in Keys, Forgotten(k), NEW c, Command(c),
           c = "syncconf" => files.sync = None \/ files.sync[k] = None
    PROVE  live'[k] = None
<1>1. CASE c = "syncconf" /\ live' \in Loaded(files.sync) /\ files.sync # None
  BY <1>1, LoadedKeys
<1>2. CASE c = "up" /\ live' \in Loaded(files.conf) /\ files.conf # None
  BY <1>2, LoadedKeys DEF Forgotten
<1> QED BY <1>1, <1>2 DEF Command

(* A list that was read, merged and rendered. *)
LEMMA MergeForgets ==
    ASSUME IInv, NEW k \in Keys, Forgotten(k), NEW r \in Requests,
           ReconcileMerge(r) \/ ApplyRender(r)
    PROVE  Forgotten(k)'
<1>1. req[r].op = "read" /\ req[r].answer.peers[k] = None
  BY DEF ReconcileMerge, ApplyRender, Forgotten, Carries
<1>2. UNCHANGED <<live, files, issued>>
  BY DEF ReconcileMerge, ApplyRender
<1>3. PICK slot \in Slots(req[r].answer.peers) :
        rows' = RowsWithImported(req[r].answer.peers, slot)
  BY DEF ReconcileMerge, ApplyRender
<1>4. k \notin KeysOf(rows')
  BY <1>1, <1>3, ImportedKeys DEF Forgotten
<1>5. PICK q : Goto(r, q) /\ Without(q, k)
  <2>1. CASE ReconcileMerge(r)
    BY <2>1, IdleWithout DEF ReconcileMerge
  <2>2. CASE ApplyRender(r)
    <3>1. Render(rows')[k] = None
      BY <1>4, RenderedKeys
    <3>2. \/ Goto(r, Idle)
          \/ Goto(r, [op |-> "rendered", how |-> req[r].answer.how, config |-> None])
          \/ Goto(r, [op |-> "rendered", how |-> req[r].answer.how, config |-> Render(rows')])
      BY <2>2 DEF ApplyRender
    <3>3. \A h : /\ Without([op |-> "rendered", how |-> h, config |-> None], k)
                 /\ Without([op |-> "rendered", how |-> h, config |-> Render(rows')], k)
      BY <3>1 DEF Without
    <3> QED BY <3>2, <3>3, IdleWithout
  <2> QED BY <2>1, <2>2
<1>6. \A s \in Requests : ~Carries(req[s], k)'
  BY <1>2, <1>5, GotoForgets DEF Forgotten
<1> QED BY <1>2, <1>4, <1>6 DEF Forgotten

(* A file that is written, and for whom. *)
LEMMA StageForgets ==
    ASSUME IInv, NEW k \in Keys, Forgotten(k), NEW r \in Requests, ApplyStage(r)
    PROVE  Forgotten(k)'
<1>1. /\ req[r].op = "rendered" /\ UNCHANGED <<rows, live, issued>>
      /\ files' = [conf |-> req[r].config, sync |-> IF up THEN req[r].config ELSE files.sync]
      /\ req' = [req EXCEPT ![r] = [op |-> "staged", how |-> req[r].how,
                                    command |-> IF up THEN "syncconf" ELSE "up"]]
  BY DEF ApplyStage, Goto
<1>2. req[r].config = None \/ req[r].config[k] = None
  BY <1>1 DEF Forgotten, Carries
<1>3. req'[r].op = "staged" /\ (req'[r].command = "syncconf" => up)
  BY <1>1 DEF IInv, ReqsGood
<1>4. ~Carries(req[r], k)'
  BY <1>1, <1>2, <1>3 DEF Carries
<1>5. ASSUME NEW s \in Requests \ {r} PROVE ~Carries(req[s], k)'
  <2>1. req'[s] = req[s] /\ ~Carries(req[s], k)
    BY <1>1, <1>5 DEF IInv, ReqsGood, Forgotten
  <2> QED BY <1>1, <1>2, <2>1 DEF Carries
<1> QED BY <1>1, <1>2, <1>4, <1>5 DEF Forgotten

LEMMA RunForgets ==
    ASSUME IInv, NEW k \in Keys, Forgotten(k), NEW r \in Requests, ApplyRun(r) \/ ApplyFail(r)
    PROVE  Forgotten(k)'
<1>1. Goto(r, Idle) /\ UNCHANGED <<rows, files, issued>>
  BY DEF ApplyRun, ApplyFail
<1>2. live' = live \/ (req[r].op = "staged" /\ Command(req[r].command))
  BY DEF ApplyRun, ApplyFail
<1>3. live'[k] = None
  <2>1. CASE req[r].op = "staged" /\ Command(req[r].command)
    <3>1. req[r].command = "syncconf" => files.sync = None \/ files.sync[k] = None
      BY <2>1 DEF Forgotten, Carries
    <3> QED BY <2>1, <3>1, CommandForgets
  <2> QED BY <1>2, <2>1 DEF Forgotten
<1>4. \A s \in Requests : ~Carries(req[s], k)'
  BY <1>1, IdleWithout, GotoForgets DEF Forgotten
<1> QED BY <1>1, <1>3, <1>4 DEF Forgotten

(* Keys that are generated are new, so none that was ever used.            *)
LEMMA KeyForgets ==
    ASSUME IInv, NEW k \in Keys, Forgotten(k), NEW r \in Requests, AddInsert(r) \/ RotateUpdate(r)
    PROVE  Forgotten(k)'
<1>1. Goto(r, Idle) /\ UNCHANGED <<live, files>>
  BY DEF AddInsert, RotateUpdate
<1>2. \A s \in Requests : ~Carries(req[s], k)'
  BY <1>1, IdleWithout, GotoForgets DEF Forgotten
<1>3. PICK l \in Keys : issued[l] = "nobody" /\ issued' = [issued EXCEPT ![l] = "app"]
                        /\ KeysOf(rows') \subseteq KeysOf(rows) \cup {l}
  <2>1. CASE AddInsert(r)
    <3>1. PICK d \in Free, l \in Keys :
            /\ issued[l] = "nobody" /\ issued' = [issued EXCEPT ![l] = "app"]
            /\ rows' = [rows EXCEPT ![d] = [key |-> l, addr |-> req[r].addr, allowed |-> {},
                                            private |-> TRUE, state |-> "managed"]]
      BY <2>1 DEF AddInsert
    <3>2. \A e \in Devices : rows'[e] = rows[e] \/ rows'[e].key = l
      BY <3>1 DEF IInv, DataGood, RowsGood
    <3>3. KeysOf(rows') \subseteq KeysOf(rows) \cup {l}
      BY <3>2 DEF KeysOf, Tracked
    <3> QED BY <3>1, <3>3
  <2>2. CASE RotateUpdate(r)
    <3>1. PICK l \in Keys :
            /\ issued[l] = "nobody" /\ issued' = [issued EXCEPT ![l] = "app"]
            /\ rows' = [rows EXCEPT ![req[r].dev].key = l, ![req[r].dev].private = TRUE]
      BY <2>2 DEF RotateUpdate
    <3>2. rows[req[r].dev] # None /\ req[r].dev \in Devices
      BY <2>2 DEF RotateUpdate, IInv, ReqsGood, Request, Idle
    <3>3. \A e \in Devices : rows'[e] = rows[e] \/ rows'[e] = [rows[e] EXCEPT !.key = l, !.private = TRUE]
      BY <3>1, <3>2 DEF IInv, DataGood, RowsGood
    <3>4. \A e \in Devices : rows[e] # None => [rows[e] EXCEPT !.key = l, !.private = TRUE].key = l
      BY DEF IInv, DataGood, RowsGood, Row
    <3>5. \A e \in Devices : rows'[e] = rows[e] \/ rows'[e].key = l
      BY <3>1, <3>2, <3>4 DEF IInv, DataGood, RowsGood
    <3>6. KeysOf(rows') \subseteq KeysOf(rows) \cup {l}
      BY <3>5 DEF KeysOf, Tracked
    <3> QED BY <3>1, <3>6
  <2> QED BY <2>1, <2>2
<1>4. issued \in [Keys -> Who]
  BY DEF IInv, Flags
<1> QED BY <1>1, <1>2, <1>3, <1>4 DEF Forgotten

LEMMA StepForgets ==
    ASSUME IInv, [Next]_vars, NEW k \in Keys, Forgotten(k) PROVE Forgotten(k)'
<1>1. ASSUME NEW r \in Requests, NEW q, Goto(r, q), Without(q, k),
             UNCHANGED <<live, files, issued, rows>>
      PROVE  Forgotten(k)'
  <2>1. \A s \in Requests : ~Carries(req[s], k)'
    BY <1>1, GotoForgets DEF Forgotten
  <2> QED BY <1>1, <2>1 DEF Forgotten
<1>2. ASSUME NEW r \in Requests,
             AddBegin(r) \/ AddFail(r) \/ RotateBegin(r) \/ RotateFail(r) \/ ReadBegin(r) \/ StatusRecord(r)
      PROVE  Forgotten(k)'
  <2>1. PICK q : Goto(r, q) /\ q.op \in {"add", "rotate", "reading", "idle"}
    <3>1. CASE AddBegin(r)
      <4>1. PICK h : Goto(r, [op |-> "add", addr |-> h])
        BY <3>1 DEF AddBegin, Begin
      <4> QED BY <4>1
    <3>2. CASE RotateBegin(r)
      <4>1. PICK d : Goto(r, [op |-> "rotate", dev |-> d])
        BY <3>2 DEF RotateBegin, Begin
      <4> QED BY <4>1
    <3>3. CASE ReadBegin(r)
      <4>1. PICK what : Goto(r, [op |-> "reading", for |-> what])
        BY <3>3 DEF ReadBegin, Begin
      <4> QED BY <4>1
    <3>4. CASE AddFail(r) \/ RotateFail(r) \/ StatusRecord(r)
      <4>1. Goto(r, Idle) /\ Idle.op = "idle"
        BY <3>4 DEF AddFail, RotateFail, StatusRecord, Idle
      <4> QED BY <4>1
    <3> QED BY <1>2, <3>1, <3>2, <3>3, <3>4
  <2>2. Without(q, k)
    BY <2>1 DEF Without
  <2> QED BY <1>1, <1>2, <2>1, <2>2
          DEF AddBegin, AddFail, RotateBegin, RotateFail, ReadBegin, StatusRecord
<1>3. ASSUME NEW r \in Requests, ReadLive(r) PROVE Forgotten(k)'
  <2>1. PICK answer : /\ answer.peers[k] = None
                      /\ Goto(r, [op |-> "read", for |-> req[r].for, answer |-> answer])
    BY <1>3 DEF ReadLive, Unread, NoPeers, Forgotten
  <2>2. Without([op |-> "read", for |-> req[r].for, answer |-> answer], k)
    BY <2>1 DEF Without
  <2> QED BY <1>1, <1>3, <2>1, <2>2 DEF ReadLive
<1>4. ASSUME NEW r \in Requests, Handle(r) PROVE Forgotten(k)'
  BY <1>2, <1>3, <1>4, MergeForgets, StageForgets, RunForgets, KeyForgets DEF Handle
<1>5. ASSUME NEW d \in Devices, Adopt(d) \/ Remove(d) PROVE Forgotten(k)'
  <2>1. UNCHANGED <<req, files, live, issued>>
    BY <1>5 DEF Adopt, Remove
  <2>2. KeysOf(rows') \subseteq KeysOf(rows)
    <3>1. \A e \in Devices : \/ rows'[e] \in {None, rows[e]}
                             \/ rows[e] # None /\ rows'[e].key = rows[e].key
      BY <1>5 DEF Adopt, Remove, IInv, DataGood, RowsGood, Row
    <3> QED BY <3>1 DEF KeysOf, Tracked
  <2> QED BY <2>1, <2>2 DEF Forgotten, Carries
<1>6. CASE DeleteServer
  <2>1. KeysOf(rows') = {} /\ UNCHANGED <<req, files, live, issued>>
    BY <1>6 DEF DeleteServer, KeysOf, Tracked
  <2> QED BY <2>1 DEF Forgotten, Carries
<1>7. CASE Lock \/ Unlock \/ UNCHANGED vars
  BY <1>7 DEF Lock, Unlock, vars, Forgotten, Carries
<1>8. CASE Restart
  BY <1>8 DEF Restart, Idle, Forgotten, Carries
<1>9. ASSUME NEW l \in Keys, ExternalSet(l) \/ ExternalRemove(l) PROVE Forgotten(k)'
  <2>1. UNCHANGED <<rows, files, req>>
    BY <1>9 DEF ExternalSet, ExternalRemove
  <2>2. live'[k] = None /\ issued'[k] = issued[k]
    <3>1. CASE ExternalSet(l)
      <4>1. l # k
        BY <3>1 DEF ExternalSet, Forgotten
      <4> QED BY <3>1, <4>1 DEF ExternalSet, Assign, Forgotten, IInv, Flags
    <3>2. CASE ExternalRemove(l)
      BY <3>2 DEF ExternalRemove, Forgotten, IInv, DataGood, ListGood, PeerList
    <3> QED BY <1>9, <3>1, <3>2
  <2> QED BY <2>1, <2>2 DEF Forgotten, Carries
<1>10. CASE InterfaceUp
  <2>1. live'[k] = None
    BY <1>10, CommandForgets DEF InterfaceUp
  <2> QED BY <1>10, <2>1 DEF InterfaceUp, Forgotten, Carries
<1>11. CASE InterfaceDown
  <2>1. live'[k] = None /\ UNCHANGED <<rows, req, issued>> /\ files'.sync = files.sync
        /\ (files'.conf = None \/ files'.conf[k] = None)
    BY <1>11 DEF InterfaceDown, NoPeers, Forgotten, IInv, DataGood
  <2> QED BY <2>1 DEF Forgotten, Carries
<1> QED BY <1>4, <1>5, <1>6, <1>7, <1>8, <1>9, <1>10, <1>11 DEF Next

(* A key the table, the interface, its file and the requests in flight     *)
(* have forgotten never connects again, with any number of each (FR-004,   *)
(* FR-005): the one way back is what still lists it, and that the import   *)
(* reads (RevokedKeyStaysOut).                                             *)
THEOREM SyncForgets == Spec => ForgottenStaysOut
<1>1. IInv /\ [Next]_vars => [\A k \in Keys : Forgotten(k) => Forgotten(k)']_vars
  BY StepForgets
<1> QED BY <1>1, Inductive, PTL DEF Spec, ForgottenStaysOut

-----------------------------------------------------------------------------
(* An apply that nothing disturbs.  What it works on goes on listing the   *)
(* live peers: the answer at first, then the rendered table, then the file *)
(* that its command loads.                                                 *)
Keeps(file) == file = None \/ \A k \in Listed(live) : file[k] # None \/ LeftOut(k)

Undisturbed(r) ==
    \/ req[r].op = "read" /\ req[r].for = "apply" /\ req[r].answer.peers = live
    \/ req[r].op = "rendered" /\ Keeps(req[r].config)
    \/ /\ req[r].op = "staged"
       /\ Keeps(IF req[r].command = "syncconf" THEN files.sync ELSE files.conf)

AloneInv == alone \subseteq Requests /\ \A r \in alone : Undisturbed(r)

(* A request moves by a step of its own, or the process restarts. *)
LEMMA WhoMoves ==
    ASSUME IInv, Next, NEW r \in Requests, req'[r] # req[r]
    PROVE  Handle(r) \/ Restart
<1>1. req' # req
  OBVIOUS
<1>2. (\E s \in Requests : Handle(s)) \/ Restart
  BY <1>1 DEF Next, Adopt, Remove, DeleteServer, Lock, Unlock, ExternalSet,
              ExternalRemove, InterfaceDown, InterfaceUp
<1>3. ASSUME NEW s \in Requests, Handle(s) PROVE \E q : Goto(s, q)
  BY <1>3
     DEF Handle, AddBegin, AddInsert, AddFail, RotateBegin, RotateUpdate, RotateFail, ReadBegin,
         ReadLive, StatusRecord, ReconcileMerge, ApplyRender, ApplyStage, ApplyRun, ApplyFail, Begin
<1>4. ASSUME NEW s \in Requests, Handle(s) PROVE s = r
  BY <1>3, <1>4 DEF Goto, IInv, ReqsGood
<1> QED BY <1>2, <1>4

(* Its answer is what the interface had. *)
LEMMA ReadsLive ==
    ASSUME IInv, Next, NEW r \in Requests, Reads(r)
    PROVE  Undisturbed(r)'
<1>1. req[r].op = "reading" /\ req'[r].op = "read"
  BY DEF Reads
<1>2. ReadLive(r)
  <2>1. ~Restart
    BY <1>1 DEF Restart, Idle
  <2>2. Handle(r)
    BY <1>1, <2>1, WhoMoves
  <2>3. req[r] # Idle
    BY <1>1 DEF Idle
  <2> QED BY <1>1, <2>2, <2>3
             DEF Handle, AddBegin, AddInsert, AddFail, RotateBegin, RotateUpdate, RotateFail,
                 ReadBegin, StatusRecord, ReconcileMerge, ApplyRender, ApplyStage, ApplyRun,
                 ApplyFail, Begin
<1>3. req'[r].answer.peers = live /\ live' = live
  BY <1>2 DEF ReadLive, Reads, Goto, Unread, IInv, ReqsGood
<1> QED BY <1>3 DEF Reads, Undisturbed

(* The import tracks the live peers it did not know, and the rendering     *)
(* lists them with those it knew.                                          *)
LEMMA RenderKeeps ==
    ASSUME IInv, NEW r \in Requests, ApplyRender(r), req[r].answer.peers = live, req'[r] # Idle
    PROVE  req'[r].op = "rendered" /\ Keeps(req[r].config)'
<1>1. /\ req'[r] \in {[op |-> "rendered", how |-> req[r].answer.how, config |-> c] :
                        c \in {None, Render(rows')}}
      /\ status = "deleted" => req'[r].config = None
      /\ live' = live
  BY DEF ApplyRender, Goto, IInv, ReqsGood
<1>2. req'[r].op = "rendered" /\ req'[r].config \in {None, Render(rows')}
  BY <1>1
<1>3. PICK slot \in Slots(live) : rows' = RowsWithImported(live, slot)
  BY DEF ApplyRender
<1>4. RowsGood(rows', issued) /\ ListGood(live, issued)
  BY <1>3, ImportGood DEF IInv, DataGood
<1>5. ASSUME status # "deleted", NEW k \in Listed(live)
      PROVE  \E d \in Tracked(rows') : rows'[d].key = k
  <2>1. CASE k \in KeysOf(rows)
    BY <1>3, <2>1, ImportKeeps DEF KeysOf, Tracked
  <2>2. CASE k \notin KeysOf(rows)
    <3>1. k \in Unknown(live) /\ k \in Keys /\ live[k] \in SUBSET Prefixes
      BY <1>4, <1>5, <2>2 DEF Unknown, Listed, ListGood, PeerList
    <3>2. slot[k] \in Devices /\ rows'[slot[k]] = ImportedRow(k, live[k], UsedAddresses(rows))
      BY <1>3, <3>1, ImportTracks
    <3> QED BY <3>1, <3>2, ImportedRendered, NoneAssumption DEF Tracked
  <2> QED BY <2>1, <2>2
<1>6. ASSUME status # "deleted", NEW k \in Listed(live), ~LeftOut(k)'
      PROVE  Render(rows')[k] # None
  <2>1. PICK d \in Tracked(rows') : rows'[d].key = k /\ Renderable(rows'[d])
    BY <1>5, <1>6 DEF LeftOut, Renderable
  <2>2. Render(rows')[k] = Rendered(rows'[d])
    BY <1>4, <2>1, RenderShows
  <2>3. rows'[d] \in Row
    BY <1>4, <2>1 DEF RowsGood, Tracked
  <2>4. Rendered(rows'[d]) \in SUBSET Prefixes
    BY <2>1, <2>3 DEF Rendered, Renderable, Row, Prefixes
  <2> QED BY <2>2, <2>4, NoneAssumption
<1> QED BY <1>1, <1>2, <1>6 DEF Keeps

LEMMA AloneGood == IInv /\ AloneInv /\ [NextAlone]_aloneVars => AloneInv'
<1> SUFFICES ASSUME IInv, AloneInv, [NextAlone]_aloneVars PROVE AloneInv'
  OBVIOUS
<1>1. CASE UNCHANGED aloneVars
  BY <1>1 DEF aloneVars, vars, AloneInv, Undisturbed, Keeps, LeftOut, Tracked
<1>2. ASSUME NextAlone, NEW r \in alone' PROVE r \in Requests /\ Undisturbed(r)'
  <2>1. r \in Requests /\ (Reads(r) \/ (r \in alone /\ Proceeds(r)))
    BY <1>2 DEF NextAlone
  <2>2. CASE Reads(r)
    BY <1>2, <2>1, <2>2, ReadsLive DEF NextAlone
  <2>3. CASE r \in alone /\ Proceeds(r)
    <3>1. Undisturbed(r) /\ req'[r] # req[r] /\ req'[r] # Idle
      BY <2>3 DEF Proceeds, AloneInv
    <3>2. Handle(r)
      BY <1>2, <2>1, <3>1, WhoMoves DEF NextAlone, Restart
    <3>3. ApplyRender(r) \/ ApplyStage(r)
      BY <3>1, <3>2
         DEF Undisturbed, Goto, IInv, ReqsGood, Handle, AddBegin, AddInsert, AddFail, RotateBegin,
             RotateUpdate, RotateFail, ReadBegin, ReadLive, StatusRecord, ReconcileMerge,
             ApplyRun, ApplyFail, Begin, Idle
    <3>4. CASE ApplyRender(r)
      <4>1. req[r].op = "read" /\ req[r].answer.peers = live
        BY <3>1, <3>4 DEF Undisturbed, ApplyRender
      <4> QED BY <2>1, <3>1, <3>4, <4>1, RenderKeeps DEF Undisturbed, Keeps, LeftOut
    <3>5. CASE ApplyStage(r)
      <4>1. Keeps(req[r].config) /\ req[r].op = "rendered"
        BY <3>1, <3>5 DEF Undisturbed, ApplyStage
      <4>2. /\ req'[r] = [op |-> "staged", how |-> req[r].how,
                          command |-> IF up THEN "syncconf" ELSE "up"]
            /\ files'.conf = req[r].config
            /\ up => files'.sync = req[r].config
        BY <2>1, <3>5 DEF ApplyStage, Goto, IInv, ReqsGood
      <4>3. live' = live /\ rows' = rows
        BY <3>5 DEF ApplyStage
      <4> DEFINE file == IF req[r].command = "syncconf" THEN files.sync ELSE files.conf
      <4>4. file' = req[r].config /\ req'[r].op = "staged"
        BY <4>2
      <4>5. \A k : LeftOut(k)' <=> LeftOut(k)
        BY <4>3 DEF LeftOut, Tracked
      <4>6. file' = None \/ \A k \in Listed(live') : file'[k] # None \/ LeftOut(k)'
        BY <4>1, <4>3, <4>4, <4>5 DEF Keeps
      <4> QED BY <2>1, <4>4, <4>6 DEF Undisturbed, Keeps
    <3> QED BY <3>3, <3>4, <3>5
  <2> QED BY <2>1, <2>2, <2>3
<1> QED BY <1>1, <1>2 DEF AloneInv

(* What is loaded lists what the file lists. *)
LEMMA LoadedLists ==
    ASSUME NEW file, NEW peers \in Loaded(file), NEW k \in Keys, file[k] # None, file \in PeerList
    PROVE  peers[k] # None
<1>1. PICK o : peers[k] = {p \in file[k] : o[p] = k}
  BY DEF Loaded
<1>2. peers[k] \in SUBSET Prefixes
  BY <1>1 DEF PeerList
<1> QED BY <1>2, NoneAssumption

LEMMA SyncStepPreserves ==
    ASSUME IInv, AloneInv, [NextAlone]_aloneVars, NEW r \in alone, req'[r] # req[r],
           NEW k \in Listed(live)
    PROVE  live'[k] # None \/ LeftOut(k)
<1>1. r \in Requests /\ Undisturbed(r) /\ k \in Keys /\ live[k] # None
  BY DEF AloneInv, Listed
<1>2. Handle(r) \/ Restart
  BY <1>1, WhoMoves DEF NextAlone, aloneVars, vars
<1>3. CASE live' = live
  BY <1>1, <1>3
<1>4. CASE live' # live
  <2>1. ApplyRun(r) \/ ApplyFail(r)
    BY <1>2, <1>4 DEF Restart, Handle, AddBegin, AddInsert, AddFail, RotateBegin, RotateUpdate,
                      RotateFail, ReadBegin, ReadLive, StatusRecord, ReconcileMerge,
                      ApplyRender, ApplyStage
  <2>2. req[r].op = "staged" /\ Command(req[r].command)
    BY <1>4, <2>1 DEF ApplyRun, ApplyFail
  <2> DEFINE file == IF req[r].command = "syncconf" THEN files.sync ELSE files.conf
  <2>3. Keeps(file)
    BY <1>1, <2>2 DEF Undisturbed
  <2>4. file # None /\ live' \in Loaded(file)
    BY <2>2 DEF Command
  <2>5. file \in PeerList
    BY <2>4 DEF IInv, DataGood, FileGood, ListGood
  <2>6. file[k] # None \/ LeftOut(k)
    BY <2>3, <2>4 DEF Keeps
  <2> HIDE DEF file
  <2> QED BY <1>1, <2>4, <2>5, <2>6, LoadedLists
<1> QED BY <1>3, <1>4

(* An apply that nothing disturbs takes no peer off the interface, however *)
(* many requests, devices and keys there are (service.ts:138, FR-016).     *)
THEOREM SyncPreserves == SpecAlone => SyncPreservesPeers
<1>1. InitAlone => IInv /\ AloneInv
  BY InitGood DEF InitAlone, AloneInv
<1>2. [NextAlone]_aloneVars => [Next]_vars
  BY DEF NextAlone, aloneVars
<1>3. IInv /\ [NextAlone]_aloneVars => IInv'
  BY <1>2, NextGood
<1>4. IInv /\ AloneInv /\ [NextAlone]_aloneVars
        => [\A r \in alone : req'[r] # req[r]
              => \A k \in Listed(live) : live'[k] # None \/ LeftOut(k)]_aloneVars
  BY SyncStepPreserves
<1> QED BY <1>1, <1>3, <1>4, AloneGood, PTL DEF SpecAlone, SyncPreservesPeers
=============================================================================
