----------------------------- MODULE PeerSync -----------------------------
(***************************************************************************)
(* One WireGuard server as Network-Manager sees it: the device rows of its *)
(* peers, the live interface they are pushed to, and the requests that     *)
(* read the one and write the other.  The process is a single Node thread, *)
(* so code runs without interruption up to its next await; a request is a  *)
(* sequence of actions, one per stretch between two awaits, and anything   *)
(* (another request, another administrator's wg command, a lock of the     *)
(* vault, a restart) may happen in between.                                *)
(***************************************************************************)
EXTENDS Naturals, FiniteSets
\* Definitions named Mut... are deliberate bugs, each tried in place of the
\* definition it precedes to see that a property notices; nothing else uses them.

CONSTANTS
    Devices,       \* ids of device rows (kind 'peer')
    Keys,          \* WireGuard public keys
    Hosts,         \* single addresses of the server's range that a peer may get
    Subnets,       \* other prefixes an external peer may advertise
    SubnetHosts,   \* [Subnets -> SUBSET Hosts]: the hosts a subnet covers
    ExternalSets,  \* the AllowedIPs other tools configure (a bound on inputs)
    Requests,      \* requests that may be in flight at the same time
    Remote,        \* wireguard_server.location = 'remote'
    MaxEvents,     \* bound: calls begun and events from outside over a run
    None

Prefixes == Hosts \cup Subnets

ASSUME SubnetAssumption   == SubnetHosts \in [Subnets -> SUBSET Hosts] /\ Hosts \cap Subnets = {}
ASSUME ExternalAssumption == ExternalSets \subseteq SUBSET Prefixes
ASSUME RemoteAssumption   == Remote \in BOOLEAN /\ MaxEvents \in Nat

VARIABLES
    rows,      \* the device table: a row or None for each id
    status,    \* wireguard_server.status; "deleted" when that row is gone
    unlocked,  \* the vault holds its DEK
    up,        \* the interface exists
    live,      \* the interface's peers and their AllowedIPs
    files,     \* wgN.conf, and the stripped copy that wg syncconf reads
    req,       \* what each request is doing
    issued,    \* who generated each key, "nobody" for a key still unused
    events     \* how many calls and outside events there were (only bounds the model)

vars == <<rows, status, unlocked, up, live, files, req, issued, events>>

-----------------------------------------------------------------------------
(* Data.  A peer row has an address, or verbatim AllowedIPs, or (imported  *)
(* from a peer that had none) neither; {} stands for a null allowed_ips.   *)

Row == [key     : Keys,
        addr    : Hosts \cup {None},
        allowed : SUBSET Prefixes,
        private : BOOLEAN,                      \* peer_private_key is not null
        state   : {"managed", "needs_review"}]

(* A list of peers: the AllowedIPs of each, None for a key not listed. *)
PeerList     == [Keys -> ({None} \cup SUBSET Prefixes)]
NoPeers      == [k \in Keys |-> None]
Listed(peers) == {k \in Keys : peers[k] # None}

(* None is a value of its own: no key, prefix, list of prefixes, row or list. *)
ASSUME NoneAssumption ==
    /\ None \notin Keys \cup Prefixes
    /\ None \notin Row /\ None \notin PeerList
    /\ \A ips \in SUBSET Prefixes : None # ips

(* What LocalApplier.status and RemoteApplier.status answer.  A command    *)
(* that could not be run is reported like an interface that is down; only  *)
(* a failed SSH connection throws.                                         *)
Answer == [how : {"read", "failed", "threw"}, up : BOOLEAN, peers : PeerList]
Unread(how) == [how |-> how, up |-> FALSE, peers |-> NoPeers]

Covers(p)   == IF p \in Hosts THEN {p} ELSE SubnetHosts[p]
Tracked(rs) == {d \in Devices : rs[d] # None}
KeysOf(rs)  == {rs[d].key : d \in Tracked(rs)}
Free        == Devices \ Tracked(rows)

(* DeviceRepo.usedAddresses and usedCidrs. *)
UsedAddresses(rs) == {rs[d].addr : d \in Tracked(rs)} \ {None}
HostsOf(row)      == ({row.addr} \ {None}) \cup UNION {Covers(p) : p \in row.allowed}
UsedHosts(rs)     == UNION {HostsOf(rs[d]) : d \in Tracked(rs)}

(* deriveImportAddress and importPeer: one host that no row has as its     *)
(* address goes in tunnel_address, anything else is kept verbatim.         *)
MutMakesPrivateKey(k, ips, used) ==
    LET single == \E h \in Hosts \ used : ips = {h}
    IN  [key |-> k, addr |-> IF single THEN CHOOSE h \in Hosts : ips = {h} ELSE None,
         allowed |-> IF single THEN {} ELSE ips, private |-> TRUE, state |-> "needs_review"]
ImportedRow(k, ips, used) ==
    LET single == \E h \in Hosts \ used : ips = {h}
    IN  [key     |-> k,
         addr    |-> IF single THEN CHOOSE h \in Hosts : ips = {h} ELSE None,
         allowed |-> IF single THEN {} ELSE ips,
         private |-> FALSE,
         state   |-> "needs_review"]

(* importLivePeers: a row for each live peer whose key no row has.  Live   *)
(* peers never share a prefix, so the order of the list does not matter.   *)
(* On a deleted server the first INSERT fails its foreign key.             *)
MutImportsAll(peers) == IF status = "deleted" THEN {} ELSE Listed(peers)
Unknown(peers) == IF status = "deleted" THEN {} ELSE Listed(peers) \ KeysOf(rows)

Slots(peers) ==
    {slot \in [Unknown(peers) -> Free] :
        \A k, l \in Unknown(peers) : slot[k] = slot[l] => k = l}

MutUpsert(peers, slot) ==
    [d \in Devices |->
        IF \E k \in Unknown(peers) : slot[k] = d
        THEN LET k == CHOOSE k \in Unknown(peers) : slot[k] = d
             IN  ImportedRow(k, peers[k], UsedAddresses(rows))
        ELSE IF rows[d] # None /\ peers[rows[d].key] # None
        THEN ImportedRow(rows[d].key, peers[rows[d].key], UsedAddresses(rows) \ {rows[d].addr})
        ELSE rows[d]]
RowsWithImported(peers, slot) ==
    [d \in Devices |->
        IF \E k \in Unknown(peers) : slot[k] = d
        THEN LET k == CHOOSE k \in Unknown(peers) : slot[k] = d
             IN  ImportedRow(k, peers[k], UsedAddresses(rows))
        ELSE rows[d]]

(* renderConfig and buildServerConfig: every peer row that has an address  *)
(* or AllowedIPs.  Without the server's row the file has no valid key.     *)
MutNeedsAddress(row) == row.addr # None
Renderable(row) == row.addr # None \/ row.allowed # {}
Rendered(row)   == IF row.allowed # {} THEN row.allowed ELSE {row.addr}

Render(rs) ==
    LET rowsOf(k) == {d \in Tracked(rs) : rs[d].key = k /\ Renderable(rs[d])}
    IN  [k \in Keys |-> IF rowsOf(k) = {} THEN None
                        ELSE Rendered(rs[CHOOSE d \in rowsOf(k) : TRUE])]

(* What WireGuard makes of a file: a prefix several peers list belongs to  *)
(* the last one, and the order of the list is the devices' names.          *)
Loaded(file) ==
    LET claimants(p) == {k \in Listed(file) : p \in file[k]}
        owners == {o \in [Prefixes -> Keys \cup {None}] :
                     \A p \in Prefixes : IF claimants(p) = {} THEN o[p] = None
                                         ELSE o[p] \in claimants(p)}
    IN  {[k \in Keys |-> IF file[k] = None THEN None
                         ELSE {p \in file[k] : o[p] = k}] : o \in owners}

-----------------------------------------------------------------------------
(* Requests. *)

Idle == [op |-> "idle"]

(* The routes that ask the interface for its peers. *)
Readers == {"apply", "reconcile", "status"}

Request ==
    {Idle}
    \cup [op : {"add"}, addr : Hosts]
    \cup [op : {"rotate"}, dev : Devices]
    \cup [op : {"reading"}, for : Readers]
    \cup [op : {"read"}, for : Readers, answer : Answer]
    \cup [op : {"rendered"}, how : {"read", "failed", "threw"}, config : {None} \cup PeerList]
    \cup [op : {"staged"}, how : {"read", "failed", "threw"}, command : {"syncconf", "up"}]

Event == events < MaxEvents /\ events' = events + 1

Goto(r, what) == req' = [req EXCEPT ![r] = what]

(* A route runs only with the vault unlocked when the request arrives *)
(* (requireAuthAndUnlocked), and answers 404 without the server's row. *)
Begin(r, what) ==
    /\ req[r] = Idle
    /\ unlocked
    /\ status # "deleted"
    /\ Event
    /\ Goto(r, what)

Init ==
    /\ rows = [d \in Devices |-> None]
    /\ status = "unknown"
    /\ unlocked = TRUE
    /\ up \in BOOLEAN
    /\ live = NoPeers
    /\ files = [conf |-> NoPeers, sync |-> None]
    /\ req = [r \in Requests |-> Idle]
    /\ issued = [k \in Keys |-> "nobody"]
    /\ events = 0

(* DeviceService.add of a peer: the address is checked (the operator's, or *)
(* the allocator's, which AddressSpace shows to be one of them), then the  *)
(* keys are awaited, then the row is inserted.                             *)
AddBegin(r) ==
    /\ \E h \in Hosts \ UsedHosts(rows) : Begin(r, [op |-> "add", addr |-> h])
    /\ UNCHANGED <<rows, status, unlocked, up, live, files, issued>>

(* The INSERT needs the vault (the private key is encrypted), the server's *)
(* row (foreign key) and the address (unique index), or it throws.         *)
MutKeyOfTable(r) ==
    /\ req[r].op = "add"
    /\ unlocked /\ status # "deleted" /\ req[r].addr \notin UsedAddresses(rows)
    /\ \E d \in Free, k \in Keys :
        /\ k \notin KeysOf(rows)
        /\ issued' = [issued EXCEPT ![k] = "app"]
        /\ rows' = [rows EXCEPT ![d] = [key |-> k, addr |-> req[r].addr, allowed |-> {},
                                        private |-> TRUE, state |-> "managed"]]
    /\ Goto(r, Idle)
    /\ UNCHANGED <<status, unlocked, up, live, files, events>>
AddInsert(r) ==
    /\ req[r].op = "add"
    /\ unlocked /\ status # "deleted" /\ req[r].addr \notin UsedAddresses(rows)
    /\ \E d \in Free, k \in Keys :
        /\ issued[k] = "nobody"
        /\ issued' = [issued EXCEPT ![k] = "app"]
        /\ rows' = [rows EXCEPT ![d] = [key |-> k, addr |-> req[r].addr, allowed |-> {},
                                        private |-> TRUE, state |-> "managed"]]
    /\ Goto(r, Idle)
    /\ UNCHANGED <<status, unlocked, up, live, files, events>>

AddFail(r) ==
    /\ req[r].op = "add"
    /\ ~unlocked \/ status = "deleted" \/ req[r].addr \in UsedAddresses(rows)
    /\ Goto(r, Idle)
    /\ UNCHANGED <<rows, status, unlocked, up, live, files, issued, events>>

(* DeviceService.rotateKeys: the UPDATE replaces both halves of the key and *)
(* nothing else; it finds no row when the device went away meanwhile.       *)
RotateBegin(r) ==
    /\ \E d \in Tracked(rows) : Begin(r, [op |-> "rotate", dev |-> d])
    /\ UNCHANGED <<rows, status, unlocked, up, live, files, issued>>

RotateUpdate(r) ==
    /\ req[r].op = "rotate"
    /\ unlocked /\ rows[req[r].dev] # None
    /\ \E k \in Keys :
        /\ issued[k] = "nobody"
        /\ issued' = [issued EXCEPT ![k] = "app"]
        /\ rows' = [rows EXCEPT ![req[r].dev].key = k, ![req[r].dev].private = TRUE]
    /\ Goto(r, Idle)
    /\ UNCHANGED <<status, unlocked, up, live, files, events>>

RotateFail(r) ==
    /\ req[r].op = "rotate"
    /\ ~unlocked \/ rows[req[r].dev] = None
    /\ Goto(r, Idle)
    /\ UNCHANGED <<rows, status, unlocked, up, live, files, issued, events>>

(* DeviceService.adopt, remove: no await, so one step each. *)
Adopt(d) ==
    /\ unlocked
    /\ rows[d] # None
    /\ rows[d].state = "needs_review"
    /\ ~\E e \in Tracked(rows) \ {d} :
          rows[e].state = "managed" /\ rows[d].addr # None /\ rows[e].addr = rows[d].addr
    /\ rows' = [rows EXCEPT ![d].state = "managed"]
    /\ Event
    /\ UNCHANGED <<status, unlocked, up, live, files, req, issued>>

Remove(d) ==
    /\ unlocked
    /\ rows[d] # None
    /\ rows' = [rows EXCEPT ![d] = None]
    /\ Event
    /\ UNCHANGED <<status, unlocked, up, live, files, req, issued>>

(* ServerService.delete; the devices go with it (ON DELETE CASCADE). *)
DeleteServer ==
    /\ unlocked
    /\ status # "deleted"
    /\ status' = "deleted"
    /\ rows' = [d \in Devices |-> None]
    /\ Event
    /\ UNCHANGED <<unlocked, up, live, files, req, issued>>

-----------------------------------------------------------------------------
(* ServerService.apply, ServerService.status and PeerReconcileService      *)
(* .reconcile (through status) all begin by asking the interface.          *)

ReadBegin(r) ==
    /\ \E what \in Readers : Begin(r, [op |-> "reading", for |-> what])
    /\ UNCHANGED <<rows, status, unlocked, up, live, files, issued>>

ReadLive(r) ==
    /\ req[r].op = "reading"
    /\ \E answer \in {[how |-> "read", up |-> up, peers |-> live], Unread("failed")}
                       \cup (IF Remote THEN {Unread("threw")} ELSE {}) :
          Goto(r, [op |-> "read", for |-> req[r].for, answer |-> answer])
    /\ UNCHANGED <<rows, status, unlocked, up, live, files, issued, events>>

SetStatus(s) == status' = IF status = "deleted" THEN "deleted" ELSE s

RecordStatus(a) ==
    SetStatus(IF a.how = "threw" THEN "unknown" ELSE IF a.up THEN "up" ELSE "down")

(* status: record it, answer. *)
StatusRecord(r) ==
    /\ req[r].op = "read" /\ req[r].for = "status"
    /\ RecordStatus(req[r].answer)
    /\ Goto(r, Idle)
    /\ UNCHANGED <<rows, unlocked, up, live, files, issued, events>>

(* reconcile: record the status, import what is unknown, answer. *)
ReconcileMerge(r) ==
    /\ req[r].op = "read" /\ req[r].for = "reconcile"
    /\ LET a == req[r].answer
       IN  /\ RecordStatus(a)
           /\ \E slot \in Slots(a.peers) : rows' = RowsWithImported(a.peers, slot)
    /\ Goto(r, Idle)
    /\ UNCHANGED <<unlocked, up, live, files, issued, events>>

(* apply: import what is unknown and render the table in one go.  With the *)
(* vault locked meanwhile the server's key cannot be decrypted and the     *)
(* request fails there, after the import.                                  *)
ApplyRender(r) ==
    /\ req[r].op = "read" /\ req[r].for = "apply"
    /\ LET a == req[r].answer
       IN  \E slot \in Slots(a.peers) :
            /\ rows' = RowsWithImported(a.peers, slot)
            /\ Goto(r, IF status = "deleted"
                       THEN [op |-> "rendered", how |-> a.how, config |-> None]
                       ELSE IF unlocked
                       THEN [op |-> "rendered", how |-> a.how, config |-> Render(rows')]
                       ELSE Idle)
    /\ UNCHANGED <<status, unlocked, up, live, files, issued, events>>

(* LocalApplier.apply, RemoteApplier.apply: write the file, see whether    *)
(* the interface exists, and if so write the copy for syncconf; the two    *)
(* files are shared by all requests.                                       *)
MutStagesConf(r) ==
    /\ req[r].op = "rendered"
    /\ files' = [conf |-> req[r].config, sync |-> IF files.sync = None THEN req[r].config ELSE files.sync]
    /\ Goto(r, [op |-> "staged", how |-> req[r].how,
                command |-> IF up THEN "syncconf" ELSE "up"])
    /\ UNCHANGED <<rows, status, unlocked, up, live, issued, events>>
ApplyStage(r) ==
    /\ req[r].op = "rendered"
    /\ files' = [conf |-> req[r].config, sync |-> IF up THEN req[r].config ELSE files.sync]
    /\ Goto(r, [op |-> "staged", how |-> req[r].how,
                command |-> IF up THEN "syncconf" ELSE "up"])
    /\ UNCHANGED <<rows, status, unlocked, up, live, issued, events>>

(* wg syncconf wants the interface, wg-quick up wants it absent, and both  *)
(* want a file that parses.                                                *)
Command(c) ==
    \/ c = "syncconf" /\ up /\ files.sync # None /\ live' \in Loaded(files.sync) /\ up' = up
    \/ c = "up" /\ ~up /\ files.conf # None /\ live' \in Loaded(files.conf) /\ up' = TRUE

ApplyRun(r) ==
    /\ req[r].op = "staged"
    /\ Command(req[r].command)
    /\ SetStatus("up")
    /\ Goto(r, Idle)
    /\ UNCHANGED <<rows, unlocked, files, issued, events>>

(* Any of the commands may fail, or succeed and its answer be lost with    *)
(* the SSH connection: the status becomes "down" and the request fails.    *)
ApplyFail(r) ==
    /\ \/ req[r].op = "rendered" /\ UNCHANGED <<up, live>>
       \/ req[r].op = "staged" /\ (UNCHANGED <<up, live>> \/ (Remote /\ Command(req[r].command)))
    /\ SetStatus("down")
    /\ Goto(r, Idle)
    /\ UNCHANGED <<rows, unlocked, files, issued, events>>

-----------------------------------------------------------------------------
(* The rest of the program: the vault, and a crash or restart, which loses *)
(* the requests and the DEK but neither the database nor the interface.    *)

Lock ==
    /\ unlocked /\ unlocked' = FALSE
    /\ Event
    /\ UNCHANGED <<rows, status, up, live, files, req, issued>>

Unlock ==
    /\ ~unlocked /\ unlocked' = TRUE
    /\ UNCHANGED <<rows, status, up, live, files, req, issued, events>>

Restart ==
    /\ req' = [r \in Requests |-> Idle]
    /\ unlocked' = FALSE
    /\ Event
    /\ UNCHANGED <<rows, status, up, live, files, issued>>

(* Other tools on the WireGuard host (external: no code of the repository). *)
(* A prefix given to one peer is taken from the peer that had it.           *)
Assign(k, ips) == live' = [l \in Keys |-> IF l = k THEN ips
                                          ELSE IF live[l] = None THEN None ELSE live[l] \ ips]

ExternalSet(k) ==
    /\ up
    /\ live[k] # None \/ issued[k] = "nobody"
    /\ \E ips \in ExternalSets : Assign(k, ips)
    /\ issued' = [issued EXCEPT ![k] = IF @ = "nobody" THEN "external" ELSE @]
    /\ Event
    /\ UNCHANGED <<rows, status, unlocked, up, files, req>>

ExternalRemove(k) ==
    /\ live[k] # None
    /\ live' = [live EXCEPT ![k] = None]
    /\ Event
    /\ UNCHANGED <<rows, status, unlocked, up, files, req, issued>>

(* wg-quick down: SaveConfig = true writes the live peers back to wgN.conf; *)
(* a host that simply stops does not.                                       *)
InterfaceDown ==
    /\ up
    /\ up' = FALSE
    /\ live' = NoPeers
    /\ \/ files' = [files EXCEPT !.conf = live]
       \/ UNCHANGED files
    /\ Event
    /\ UNCHANGED <<rows, status, unlocked, req, issued>>

InterfaceUp ==
    /\ Command("up")
    /\ Event
    /\ UNCHANGED <<rows, status, unlocked, files, req, issued>>

-----------------------------------------------------------------------------
Handle(r) ==
    \/ AddBegin(r) \/ AddInsert(r) \/ AddFail(r)
    \/ RotateBegin(r) \/ RotateUpdate(r) \/ RotateFail(r)
    \/ ReadBegin(r) \/ ReadLive(r) \/ StatusRecord(r) \/ ReconcileMerge(r)
    \/ ApplyRender(r) \/ ApplyStage(r) \/ ApplyRun(r) \/ ApplyFail(r)

Next ==
    \/ \E r \in Requests : Handle(r)
    \/ \E d \in Devices : Adopt(d) \/ Remove(d)
    \/ DeleteServer \/ Lock \/ Unlock \/ Restart
    \/ \E k \in Keys : ExternalSet(k) \/ ExternalRemove(k)
    \/ InterfaceDown \/ InterfaceUp

Spec == Init /\ [][Next]_vars

-----------------------------------------------------------------------------
(* Types; and a row has a private key only for a public key this program   *)
(* generated: none is made up for an imported or adopted peer (FR-012).    *)
TypeOK ==
    /\ rows \in [Devices -> {None} \cup Row]
    /\ status \in {"unknown", "up", "down", "deleted"}
    /\ unlocked \in BOOLEAN
    /\ up \in BOOLEAN
    /\ live \in PeerList
    /\ files \in [conf : {None} \cup PeerList, sync : {None} \cup PeerList]
    /\ req \in [Requests -> Request]
    /\ issued \in [Keys -> {"nobody", "app", "external"}]
    /\ events \in 0 .. MaxEvents
    /\ \A d \in Tracked(rows) : rows[d].private => issued[rows[d].key] = "app"

(* No two rows have the same public key, and none the same tunnel address, *)
(* with adds, rotations and two imports in flight.  No index is on the key: *)
(* it rests on the import looking the key up in the same uninterrupted     *)
(* stretch that inserts it, and on new keys being fresh.  The index on the *)
(* address guards the INSERT of an add; an import must never reach it, or  *)
(* the peers after it would be lost (importLivePeers, add, rotateKeys).    *)
PeersDistinct ==
    \A d, e \in Tracked(rows) :
        rows[d].key = rows[e].key \/ (rows[d].addr # None /\ rows[d].addr = rows[e].addr)
            => d = e

Kept(d) ==
    rows'[d] # None =>
        /\ rows'[d].addr = rows[d].addr /\ rows'[d].allowed = rows[d].allowed
        /\ rows'[d].key # rows[d].key => issued[rows'[d].key] = "nobody" /\ rows'[d].private
        /\ rows[d].private => rows'[d].private
        /\ rows[d].state = "managed" => rows'[d].state = "managed"

(* A tracked peer is never rewritten: while its row lives its address and  *)
(* AllowedIPs stay, its key changes only for one nobody used before, held  *)
(* with its private half, and it never goes back to needs_review.  Imports *)
(* and applies in flight, whose data is old, must not undo an adoption or  *)
(* a rotation.                                                             *)
TrackedRowsStable == [][\A d \in Tracked(rows) : Kept(d)]_vars

(* The step in which request r takes up the answer it was waiting for. *)
Merging(r) == req[r].op = "read" /\ req[r].for # "status" /\ req'[r].op # "read" /\ events' = events
Seen(r)    == req[r].answer.peers

Merged(r) ==
    \A k \in Listed(Seen(r)) :
       /\ k \in KeysOf(rows')
       /\ req'[r].op = "rendered" =>
            /\ k \notin KeysOf(rows) /\ Seen(r)[k] # {} => req'[r].config[k] = Seen(r)[k]
            /\ \A d \in Tracked(rows) : rows[d].key = k /\ Renderable(rows[d])
                  => req'[r].config[k] = Rendered(rows[d])

(* Whatever the interface reported is tracked in the end, and in the       *)
(* configuration the same apply pushes: a peer met for the first time with *)
(* exactly the AllowedIPs it had (FR-002a, FR-016), a known one as its row *)
(* has it. (A peer without AllowedIPs is tracked, but left out of the      *)
(* file.)                                                                  *)
SeenPeersKept ==
    [][\A r \in Requests : Merging(r) /\ status # "deleted" => Merged(r)]_vars

\* What a request in flight may yet put into the table or on the interface.
Carries(q, k) ==
    \/ q.op = "read" /\ q.answer.peers[k] # None
    \/ q.op = "rendered" /\ q.config # None /\ q.config[k] # None
    \/ q.op = "staged" /\ q.command = "syncconf" /\ files.sync # None /\ files.sync[k] # None

\* A key somebody used, and now neither the table, the interface, its file nor
\* a request in flight knows.  The copy for syncconf may still list it.
Forgotten(k) ==
    /\ issued[k] # "nobody" /\ k \notin KeysOf(rows)
    /\ live[k] = None /\ (files.conf = None \/ files.conf[k] = None)
    /\ \A r \in Requests : ~Carries(req[r], k)

(* Revoking holds once it got through: a key that is forgotten everywhere  *)
(* is never on the interface nor in the table again, whatever the requests *)
(* in flight, stale copies of files, restarts of the interface, rotations  *)
(* and imports do (FR-004, FR-005).  Other administrators may add keys, but *)
(* not one somebody used before (ExternalSet).                             *)
ForgottenStaysOut == [][\A k \in Keys : Forgotten(k) => Forgotten(k)']_vars

-----------------------------------------------------------------------------
(* What the documents say and the code does not do. *)

(* "Remove/revoke a device so it can no longer connect (FR-005)" and       *)
(* "invalidating old credentials (FR-004)": a key the program issued and   *)
(* then dropped is not registered by the program again.                    *)
RevokedKeyStaysOut ==
    [][\A k \in Keys : issued[k] = "app" /\ k \notin KeysOf(rows)
                          => k \notin KeysOf(rows')]_vars
=============================================================================
