---------------------------- MODULE AddressPool ----------------------------
(***************************************************************************)
(* The tunnel addresses of the peers of every server over a long sequence  *)
(* of calls: peers added with an automatic or an operator-chosen address,  *)
(* peers imported with whatever AllowedIPs the live interface had,         *)
(* removals, and the servers under them created, given another range and   *)
(* deleted with their peers.  Each call about a peer runs alone here;      *)
(* PeerSync interleaves them.                                              *)
(***************************************************************************)
EXTENDS ServerCatalogue

CONSTANTS
    Peers,         \* rows a created peer may occupy
    Foreign,       \* AllowedIPs entries peers are imported with
    MaxImported,   \* bound: entries of imported peers of a server at a time
    NoDevice       \* no row

VARIABLES
    device,     \* server and tunnel_address of each created peer
    imported,   \* AllowedIPs entries of the imported peers of each server
    moved       \* history: peers whose server was given another range since

vars == <<range, creating, raced, device, imported, moved>>

ASSUME ForeignAssumption  == Foreign \subseteq Entry
ASSUME NoDeviceAssumption == NoDevice \notin [server : Servers, address : Address]

Taken     == {p \in Peers : device[p] # NoDevice}
PeersOf(s) == {p \in Taken : device[p].server = s}

(* DeviceRepo.usedCidrs: created peers as /32, imported ones entry by entry. *)
UsedCidrs(s) == {Host(device[p].address) : p \in PeersOf(s)} \cup imported[s]

Init ==
    /\ CatalogueInit
    /\ device = [p \in Peers |-> NoDevice]
    /\ imported = [s \in Servers |-> {}]
    /\ moved = {}

Insert(p, s, a) ==
    /\ device[p] = NoDevice
    /\ device' = [device EXCEPT ![p] = [server |-> s, address |-> a]]
    /\ UNCHANGED <<range, creating, raced, imported, moved>>

(* add with no tunnelAddress; exhaustion, and a range that is no CIDR, is a *)
(* 409 and changes nothing.                                                 *)
AddAuto(p, s) ==
    /\ range[s] \in Cidr
    /\ AllocateAddress(range[s], UsedCidrs(s)) # NoAddress
    /\ Insert(p, s, AllocateAddress(range[s], UsedCidrs(s)))

(* add with tunnelAddress; an input the validation refuses changes nothing. *)
AddManual(p, s, input) ==
    /\ range[s] \in Cidr
    /\ ValidateAssignable(range[s], input, UsedCidrs(s)) = "ok"
    /\ Insert(p, s, input.ip)

(* An imported peer is stored whatever its addresses collide with. *)
Import(s, e) ==
    /\ s \in Live
    /\ Cardinality(imported[s]) < MaxImported
    /\ imported' = [imported EXCEPT ![s] = @ \cup {e}]
    /\ UNCHANGED <<range, creating, raced, device, moved>>

RemoveCreated(p) ==
    /\ p \in Taken
    /\ device' = [device EXCEPT ![p] = NoDevice]
    /\ moved' = moved \ {p}
    /\ UNCHANGED <<range, creating, raced, imported>>

RemoveImported(s, e) ==
    /\ e \in imported[s]
    /\ imported' = [imported EXCEPT ![s] = @ \ {e}]
    /\ UNCHANGED <<range, creating, raced, device, moved>>

Create ==
    /\ \E q \in Requests : \/ \E r \in Ranges : CreateBegin(q, r)
                           \/ \E s \in Servers : CreateEnd(q, s)
                           \/ CreateFails(q)
    /\ UNCHANGED <<device, imported, moved>>

(* The peers of the server are not looked at. *)
Update(s, r) ==
    /\ UpdateRange(s, r)
    /\ moved' = moved \cup PeersOf(s)
    /\ UNCHANGED <<device, imported>>

(* ON DELETE CASCADE *)
MutPeersStay(s) ==
    /\ DeleteRow(s)
    /\ UNCHANGED <<device, moved>>
    /\ imported' = [imported EXCEPT ![s] = {}]
Delete(s) ==
    /\ DeleteRow(s)
    /\ device' = [p \in Peers |-> IF p \in PeersOf(s) THEN NoDevice ELSE device[p]]
    /\ moved' = moved \ PeersOf(s)
    /\ imported' = [imported EXCEPT ![s] = {}]

Next ==
    \/ Create
    \/ \E s \in Servers, r \in Ranges : Update(s, r)
    \/ \E s \in Servers : Delete(s)
    \/ \E p \in Peers, s \in Servers : AddAuto(p, s)
    \/ \E p \in Peers, s \in Servers, input \in Entry : AddManual(p, s, input)
    \/ \E p \in Peers : RemoveCreated(p)
    \/ \E s \in Servers, e \in Foreign : Import(s, e) \/ RemoveImported(s, e)

Spec == Init /\ [][Next]_vars

-----------------------------------------------------------------------------
(* Every variable keeps its type, and a peer row belongs to a server that  *)
(* exists.                                                                 *)
TypeOK ==
    /\ CatalogueTyped
    /\ device \in [Peers -> [server : Live, address : Address] \cup {NoDevice}]
    /\ imported \in [Servers -> SUBSET Foreign]
    /\ moved \subseteq Taken

(* Every address handed out is a usable host of the server's range, that is *)
(* none of its network, server and broadcast addresses, whatever was added, *)
(* imported and removed before, and until the range itself is edited        *)
(* (allocateAddress, validateAssignableAddress: FR-007, FR-008).             *)
AssignedUsable ==
    \A p \in Taken \ moved :
        LET a == device[p].address
        IN  {a - 2, a - 1, a, a + 1} \subseteq Block(range[device[p].server])

(* No two created peers of a server hold the same address, although the    *)
(* check reads a list of CIDRs, an address freed by a removal is handed out *)
(* again, and the range under the peers may be edited.                     *)
NoSharedAddress ==
    \A p, q \in Taken : device[p] = device[q] => p = q

(* An address is handed out only when no tracked peer of the server covers *)
(* it at that moment, a subnet of an imported peer counting in full         *)
(* (FR-009).                                                                *)
NeverCoveredWhenAssigned ==
    [][\A p \in Peers : device'[p] \notin {device[p], NoDevice} =>
          \A e \in imported[device'[p].server] \ {Opaque} :
              device'[p].address \notin Block(e)]_vars

(* The two ways to get an address agree: the allocator returns an address  *)
(* that the validation of a typed one accepts, and answers "exhausted"     *)
(* exactly when the validation accepts none (/31, /32 and full ranges too). *)
AllocationHonest ==
    \A s \in Servers : range[s] \in Cidr =>
        LET a == AllocateAddress(range[s], UsedCidrs(s))
        IN  IF a = NoAddress
            THEN \A b \in Address :
                     ValidateAssignable(range[s], Host(b), UsedCidrs(s)) # "ok"
            ELSE ValidateAssignable(range[s], Host(a), UsedCidrs(s)) = "ok"
=============================================================================
