-------------------------- MODULE ServerCatalogue --------------------------
(***************************************************************************)
(* The rows of wireguard_server and their address ranges                   *)
(* (servers/service.ts create, update, delete).  A creation is two steps:  *)
(* its overlap check, then, after the await of the key generation, its     *)
(* insert.  The other two run in one.  Names, endpoints, interface and SSH *)
(* target are left out: a refusal over them changes nothing.               *)
(***************************************************************************)
EXTENDS AddressSpace, FiniteSets

CONSTANTS
    Servers,     \* ids a row may have
    Ranges,      \* texts an operator gives as a range, Opaque where it is no CIDR
    Requests,    \* bound: creations in flight
    NoRange,     \* no row with this id
    Idle         \* no creation in flight

VARIABLES
    range,       \* wireguard_server.address_range, NoRange where there is no row
    creating,    \* per request: the range it checked, and the rows inserted or
                 \* given another range since (missed: what its check did not see)
    raced        \* history: pairs of rows of which neither check saw the other's range

catalogue == <<range, creating, raced>>

ASSUME RangesAssumption  == Ranges \subseteq Entry
ASSUME NoRangeAssumption == NoRange \notin Entry
ASSUME IdleAssumption    == Idle \notin [range : Cidr, missed : SUBSET Servers]

Live == {s \in Servers : range[s] # NoRange}

(* The check throws on a range that is no CIDR, the stored one or the new  *)
(* one, as soon as there are two to compare.                               *)
MutSeesNested(r, others) ==
    \A t \in others : /\ {r, range[t]} \subseteq Cidr
                      /\ ~(First(r) <= First(range[t]) /\ Last(range[t]) <= Last(r))
ClearOf(r, others) ==
    \A t \in others : {r, range[t]} \subseteq Cidr /\ ~CidrsOverlap(range[t], r)

(* What every creation in flight no longer knows once s has a new range. *)
MissedBy(s, inFlight) ==
    [q \in Requests |-> IF inFlight[q] = Idle THEN Idle
                        ELSE [inFlight[q] EXCEPT !.missed = @ \cup {s}]]
WithoutRow(s, pairs) == {pair \in pairs : s \notin pair}

CatalogueInit ==
    /\ range = [s \in Servers |-> NoRange]
    /\ creating = [q \in Requests |-> Idle]
    /\ raced = {}

CreateBegin(q, r) ==
    /\ creating[q] = Idle
    /\ r \in Cidr
    /\ ClearOf(r, Live)
    /\ creating' = [creating EXCEPT ![q] = [range |-> r, missed |-> {}]]
    /\ UNCHANGED <<range, raced>>

CreateEnd(q, s) ==
    /\ creating[q] # Idle
    /\ s \notin Live
    /\ range' = [range EXCEPT ![s] = creating[q].range]
    /\ creating' = MissedBy(s, [creating EXCEPT ![q] = Idle])
    /\ raced' = raced \cup {{s, t} : t \in creating[q].missed}

(* Locked meanwhile (encryptField throws), or the name is taken (UNIQUE). *)
CreateFails(q) ==
    /\ creating[q] # Idle
    /\ creating' = [creating EXCEPT ![q] = Idle]
    /\ UNCHANGED <<range, raced>>

(* A PATCH of the only row compares nothing, so any text is stored. *)
UpdateRange(s, r) ==
    /\ s \in Live
    /\ r # range[s]
    /\ ClearOf(r, Live \ {s})
    /\ range' = [range EXCEPT ![s] = r]
    /\ creating' = MissedBy(s, creating)
    /\ raced' = WithoutRow(s, raced)

DeleteRow(s) ==
    /\ s \in Live
    /\ range' = [range EXCEPT ![s] = NoRange]
    /\ creating' = [q \in Requests |-> IF creating[q] = Idle THEN Idle
                                       ELSE [creating[q] EXCEPT !.missed = @ \ {s}]]
    /\ raced' = WithoutRow(s, raced)

-----------------------------------------------------------------------------
CatalogueTyped ==
    /\ range \in [Servers -> Ranges \cup {NoRange}]
    /\ creating \in [Requests -> [range : Cidr \cap Ranges, missed : SUBSET Servers] \cup {Idle}]
    /\ raced \subseteq SUBSET Servers

(* The block of a CIDR without the code's masks: the addresses that agree  *)
(* with it on the first prefix bits.                                       *)
Block(c) == {a \in Address : a \div Size(c) = c.ip \div Size(c)}

(* No two servers route the same address, whatever is created, edited and  *)
(* deleted (FR-007), but for two whose checks could not see each other:    *)
(* the one looked at the rows before the other's range was stored, and the *)
(* other did not look since.                                               *)
RangesDisjoint ==
    \A s, t \in Live :
        s # t /\ {range[s], range[t]} \subseteq Cidr /\ {s, t} \notin raced =>
            Block(range[s]) \cap Block(range[t]) = {}
=============================================================================
