--------------------------- MODULE AddressProofs ---------------------------
(***************************************************************************)
(* Proofs about the address arithmetic of AddressSpace and the sequences   *)
(* of allocations of AddressPool, for every width and every set of peers.  *)
(***************************************************************************)
EXTENDS AddressPool, TLAPS, WellFoundedInduction, NaturalsInduction

(* Masking never goes below zero. *)
LEMMA ModBelow ==
    ASSUME NEW a \in Nat, NEW s \in Nat \ {0}
    PROVE  a % s \in 0 .. a
OBVIOUS

(* A product grows with its factors. *)
LEMMA MulMono ==
    ASSUME NEW m \in Nat, NEW x \in Nat, NEW y \in Nat, x <= y
    PROVE  m * x <= m * y
<1> DEFINE d == y - x
<1>1. d \in Nat /\ y = x + d
  OBVIOUS
<1>2. m * d \in Nat
  BY <1>1
<1>3. m * y = m * x + m * d
  BY <1>1
<1>4. m * x \in Nat
  OBVIOUS
<1> HIDE DEF d
<1> QED BY <1>2, <1>3, <1>4

(* Quotient and remainder. *)
LEMMA DivMod ==
    ASSUME NEW a \in Nat, NEW m \in Nat \ {0}
    PROVE  /\ a \div m \in Nat
           /\ a = m * (a \div m) + (a % m)
           /\ a % m \in 0 .. m - 1
OBVIOUS

(* The quotient is the block a number falls in. *)
LEMMA DivIs ==
    ASSUME NEW a \in Nat, NEW q \in Nat, NEW m \in Nat \ {0}
    PROVE  a \div m = q <=> m * q <= a /\ a < m * q + m
<1> DEFINE d == a \div m
<1>1. d \in Nat /\ m * d <= a /\ a < m * d + m
  BY DivMod
<1>2. m * d \in Nat /\ m * q \in Nat
  BY <1>1
<1> HIDE DEF d
<1>3. ASSUME m * q <= a, a < m * q + m PROVE d = q
  <2>1. ~(d + 1 <= q)
    <3>1. d + 1 <= q => m * (d + 1) <= m * q
      BY <1>1, MulMono
    <3>2. m * (d + 1) = m * d + m
      BY <1>1
    <3> QED BY <3>1, <3>2, <1>1, <1>2, <1>3
  <2>2. ~(q + 1 <= d)
    <3>1. q + 1 <= d => m * (q + 1) <= m * d
      BY <1>1, MulMono
    <3>2. m * (q + 1) = m * q + m
      OBVIOUS
    <3> QED BY <3>1, <3>2, <1>1, <1>2, <1>3
  <2> QED BY <2>1, <2>2, <1>1
<1>4. d = q => m * q <= a /\ a < m * q + m
  BY <1>1
<1> QED BY <1>3, <1>4 DEF d

(* A set of naturals has a least one. *)
LEMMA LeastNatural ==
    ASSUME NEW T \in SUBSET Nat, T # {}
    PROVE  \E x \in T : \A y \in T : x <= y
<1> DEFINE R == {p \in Nat \X Nat : p[1] < p[2]}
<1>1. IsWellFoundedOn(R, Nat)
  BY NatLessThanWellFounded, Zenon DEF OpToRel
<1>2. PICK x \in T : \A y \in T : ~(<<y, x>> \in R)
  <2> HIDE DEF R
  <2> QED BY <1>1, WFMin
<1>3. ASSUME NEW y \in T PROVE x <= y
  <2>1. y < x => <<y, x>> \in R
    BY x \in Nat, y \in Nat
  <2> QED BY <2>1, <1>2, x \in Nat, y \in Nat
<1> QED BY <1>3

(* The ends of a CIDR: its base is a natural and its last address fits the *)
(* address width even when base + size wraps around.                       *)
LEMMA CidrEnds ==
    ASSUME NEW c \in Cidr
    PROVE  First(c) \in 0 .. c.ip /\ Last(c) \in Address /\ Top \in Nat \ {0}
<1>1. c.prefix \in 0 .. Width /\ Width - c.prefix \in 0 .. Width
  BY WidthAssumption DEF Cidr
<1>2. Size(c) \in 1 .. Top /\ Top \in Nat \ {0}
  <2>1. 2 ^ (Width - c.prefix) \in 1 .. 2 ^ Width
    BY <1>1, WidthAssumption
  <2>2. 2 ^ Width \in 1 .. 2 ^ Width
    BY WidthAssumption
  <2> QED BY <2>1, <2>2 DEF Size, Top
<1>3. c.ip \in Nat
  BY <1>2 DEF Cidr, Address
<1>4. Base(c) \in 0 .. c.ip
  BY <1>2, <1>3, ModBelow DEF Base
<1>5. Last(c) \in 0 .. Top - 1
  BY <1>2, <1>3, <1>4 DEF Last
<1> QED BY <1>2, <1>4, <1>5 DEF First, Address

(* A CIDR covers one block of its size, and never wraps: the sizes divide   *)
(* the address space.                                                       *)
LEMMA BlockIsRange ==
    ASSUME NEW c \in Cidr
    PROVE  /\ Block(c) = First(c) .. Last(c)
           /\ First(c) \in Nat /\ Last(c) \in Nat /\ First(c) <= Last(c)
           /\ First(c) .. Last(c) \subseteq Address
<1> DEFINE m == Size(c)
           q == c.ip \div m
<1>1. c.prefix \in 0 .. Width /\ Width - c.prefix \in 0 .. Width
  BY WidthAssumption DEF Cidr
<1>2. m \in 1 .. Top /\ Top \in Nat \ {0} /\ \E k \in Nat : Top = m * k
  <2>1. PICK k \in 1 .. 2 ^ Width : 2 ^ Width = k * 2 ^ (Width - c.prefix)
    BY <1>1, WidthAssumption
  <2>2. 2 ^ (Width - c.prefix) \in 1 .. 2 ^ Width /\ 2 ^ Width \in 1 .. 2 ^ Width
    BY <1>1, WidthAssumption
  <2> QED BY <2>1, <2>2 DEF Size, Top
<1>3. c.ip \in Nat /\ c.ip < Top
  BY <1>2 DEF Cidr, Address
<1>4. q \in Nat /\ m * q \in Nat /\ First(c) = m * q /\ m * q <= c.ip
  <2>1. q \in Nat /\ c.ip = m * q + (c.ip % m) /\ c.ip % m \in 0 .. m - 1
    <3>1. m \in Nat \ {0}
      BY <1>2
    <3> HIDE DEF m
    <3> QED BY <3>1, <1>3, DivMod
  <2>2. m * q \in Nat
    BY <2>1, <1>2
  <2> HIDE DEF q
  <2> QED BY <2>1, <2>2, <1>2 DEF First, Base
<1>5. m * q + m <= Top
  <2>1. PICK k \in Nat : Top = m * k
    BY <1>2
  <2>2. q < k
    <3>1. k <= q => m * k <= m * q
      BY <1>2, <1>4, MulMono
    <3> QED BY <3>1, <2>1, <1>2, <1>3, <1>4
  <2>3. m * (q + 1) <= m * k
    BY <2>2, <1>2, <1>4, MulMono
  <2>4. m * (q + 1) = m * q + m
    BY <1>2, <1>4
  <2> QED BY <2>1, <2>3, <2>4
<1> HIDE DEF m, q
<1>6. Last(c) = m * q + m - 1
  <2>1. m * q + m - 1 \in 0 .. Top - 1
    BY <1>2, <1>4, <1>5
  <2>2. Last(c) = (m * q + m - 1) % Top
    BY <1>4 DEF Last, First, m
  <2> QED BY <2>1, <2>2, <1>2
<1>7. \A a \in Address : a \div m = q <=> a \in First(c) .. Last(c)
  <2> SUFFICES ASSUME NEW a \in Address PROVE a \div m = q <=> a \in First(c) .. Last(c)
    OBVIOUS
  <2>1. a \in Nat
    BY <1>2 DEF Address
  <2>2. a \div m = q <=> m * q <= a /\ a < m * q + m
    BY <2>1, <1>2, <1>4, DivIs
  <2> QED BY <2>1, <2>2, <1>2, <1>4, <1>6
<1>8. First(c) .. Last(c) \subseteq Address
  BY <1>2, <1>4, <1>5, <1>6 DEF Address
<1> QED BY <1>2, <1>4, <1>6, <1>7, <1>8 DEF Block, m, q

(* Two CIDRs overlap, as the code compares them, exactly when they share an *)
(* address.                                                                 *)
LEMMA OverlapExact ==
    ASSUME NEW c \in Cidr, NEW d \in Cidr
    PROVE  CidrsOverlap(c, d) <=> Block(c) \cap Block(d) # {}
<1>1. ASSUME First(c) <= Last(d), First(d) <= Last(c)
      PROVE  Block(c) \cap Block(d) # {}
  <2>1. CASE First(c) <= First(d)
    BY <1>1, <2>1, BlockIsRange, First(d) \in Block(c) \cap Block(d)
  <2>2. CASE First(d) <= First(c)
    BY <1>1, <2>2, BlockIsRange, First(c) \in Block(c) \cap Block(d)
  <2> QED BY <2>1, <2>2, BlockIsRange
<1>2. ASSUME NEW a \in Block(c) \cap Block(d)
      PROVE  First(c) <= Last(d) /\ First(d) <= Last(c)
  BY BlockIsRange
<1> QED BY <1>1, <1>2 DEF CidrsOverlap

(* A /32 covers its host and nothing else. *)
LEMMA HostEnds ==
    ASSUME NEW a \in Address
    PROVE  Host(a) \in Cidr /\ First(Host(a)) = a /\ Last(Host(a)) = a
<1>1. Host(a) \in Cidr
  BY WidthAssumption DEF Host, Cidr
<1>2. Size(Host(a)) = 1
  BY WidthAssumption DEF Size, Host
<1>3. Top \in Nat \ {0} /\ a \in 0 .. Top - 1
  BY <1>1, CidrEnds DEF Address
<1>4. Base(Host(a)) = a
  BY <1>2, <1>3 DEF Base, Host
<1>5. Last(Host(a)) = a
  BY <1>2, <1>3, <1>4 DEF Last
<1> QED BY <1>1, <1>4, <1>5 DEF First

(* What the validation accepts are the candidates of the allocator. *)
LEMMA ValidIsFree ==
    ASSUME NEW r \in Cidr, NEW used \in SUBSET Entry, NEW input \in Entry
    PROVE  ValidateAssignable(r, input, used) = "ok" <=>
             /\ input # Opaque /\ input.prefix = Width
             /\ input.ip \in FreeAddresses(r, used)
<1> SUFFICES ASSUME input # Opaque, input.prefix = Width
             PROVE  ValidateAssignable(r, input, used) = "ok" <=>
                      input.ip \in FreeAddresses(r, used)
  BY DEF ValidateAssignable
<1> DEFINE b == input.ip
<1>1. First(r) \in Nat /\ Last(r) \in 0 .. Top - 1 /\ Top \in Nat \ {0} /\ First(r) < Top
  BY CidrEnds DEF Cidr, Address
<1>2. First(r) + 2 <= Last(r) => ServerAddress(r) = First(r) + 1
  BY <1>1 DEF ServerAddress, First
<1>3. b \in Nat
  BY <1>1 DEF Entry, Cidr, Address
<1>4. ValidateAssignable(r, input, used) = "ok" <=>
          /\ First(r) <= b /\ b <= Last(r)
          /\ b # First(r) /\ b # Last(r) /\ b # ServerAddress(r)
          /\ ~AddressCovered(b, used)
  BY DEF ValidateAssignable, AddressInRange
<1>5. (First(r) <= b /\ b <= Last(r) /\ b # First(r) /\ b # Last(r)
       /\ b # ServerAddress(r)) <=>
      b \in First(r) + 2 .. Last(r) - 1 /\ b # ServerAddress(r)
  <2>1. First(r) + 1 < Last(r) => ServerAddress(r) = First(r) + 1
    BY <1>1, <1>2
  <2> QED BY <1>1, <1>3, <2>1
<1> QED BY <1>4, <1>5 DEF FreeAddresses

(* Whatever address the allocator returns, the validation of the same text *)
(* typed by the operator accepts; and it throws only when the validation    *)
(* accepts no address (allocateAddress, validateAssignableAddress).         *)
THEOREM AllocatorAgreesWithValidation ==
    ASSUME NEW r \in Cidr, NEW used \in SUBSET Entry
    PROVE  LET a == AllocateAddress(r, used)
           IN  IF a = NoAddress
               THEN \A b \in Address : ValidateAssignable(r, Host(b), used) # "ok"
               ELSE a \in Address /\ ValidateAssignable(r, Host(a), used) = "ok"
<1> DEFINE free == FreeAddresses(r, used)
<1>1. First(r) \in Nat /\ Last(r) \in 0 .. Top - 1 /\ Top \in Nat
  BY CidrEnds DEF Cidr, Address
<1>2. free \subseteq Address /\ free \subseteq Nat
  BY <1>1 DEF FreeAddresses, Address
<1>3. ASSUME NEW b \in Address
      PROVE  ValidateAssignable(r, Host(b), used) = "ok" <=> b \in free
  <2>1. Host(b) \in Entry /\ Host(b) # Opaque /\ Host(b).prefix = Width /\ Host(b).ip = b
    BY HostEnds, OpaqueAssumption DEF Host, Cidr, Entry
  <2> QED BY <2>1, ValidIsFree
<1>4. CASE free = {}
  BY <1>3, <1>4 DEF AllocateAddress
<1>5. CASE free # {}
  <2>1. AllocateAddress(r, used) \in free
    BY <1>2, <1>5, LeastNatural DEF AllocateAddress
  <2>2. AllocateAddress(r, used) # NoAddress
    BY <2>1, <1>2, NoAddressAssumption
  <2> QED BY <2>1, <2>2, <1>2, <1>3
<1> QED BY <1>4, <1>5

-----------------------------------------------------------------------------
(* What an add may insert: a candidate of the allocator at that moment. *)
Assignable(s, a) == range[s] \in Cidr /\ a \in FreeAddresses(range[s], UsedCidrs(s))

(* Such an address is a usable host of the range, and no entry in use      *)
(* covers it.                                                              *)
LEMMA FreeIsUsable ==
    ASSUME NEW r \in Cidr, NEW used \in SUBSET Entry, NEW a \in FreeAddresses(r, used)
    PROVE  /\ a \in Address
           /\ {a - 2, a - 1, a, a + 1} \subseteq Block(r)
           /\ \A e \in used \ {Opaque} : a \notin Block(e)
<1>1. /\ Block(r) = First(r) .. Last(r) /\ First(r) \in Nat /\ Last(r) \in Nat
      /\ First(r) .. Last(r) \subseteq Address
  BY BlockIsRange
<1>2. a \in First(r) + 2 .. Last(r) - 1 /\ ~AddressCovered(a, used)
  BY DEF FreeAddresses
<1>3. {a - 2, a - 1, a, a + 1} \subseteq First(r) .. Last(r)
  BY <1>1, <1>2
<1>4. ASSUME NEW e \in used \ {Opaque} PROVE a \notin Block(e)
  <2>1. e \in Cidr
    BY DEF Entry
  <2>2. Block(e) = First(e) .. Last(e)
    BY <2>1, BlockIsRange
  <2>3. ~(First(e) <= a /\ a <= Last(e))
    BY <1>2 DEF AddressCovered, UsedRanges
  <2> QED BY <2>2, <2>3
<1> QED BY <1>1, <1>3, <1>4

(* Every entry the allocator reads is a CIDR or is skipped. *)
LEMMA UsedTyped ==
    ASSUME TypeOK, NEW s \in Servers
    PROVE  UsedCidrs(s) \in SUBSET Entry
<1> SUFFICES ASSUME NEW e \in UsedCidrs(s) PROVE e \in Entry
  OBVIOUS
<1>1. CASE e \in imported[s]
  BY <1>1, ForeignAssumption DEF TypeOK
<1>2. CASE \E p \in PeersOf(s) : e = Host(device[p].address)
  BY <1>2, HostEnds DEF TypeOK, PeersOf, Taken, Entry
<1> QED BY <1>1, <1>2 DEF UsedCidrs

(* The address of a row is covered for the next add on its server. *)
LEMMA TakenCovered ==
    ASSUME TypeOK, NEW p \in Taken, NEW a, Assignable(device[p].server, a)
    PROVE  a # device[p].address
<1> DEFINE s == device[p].server
           h == Host(device[p].address)
<1>1. s \in Live /\ s \in Servers /\ device[p].address \in Address
  BY DEF TypeOK, Taken, Live
<1>2. h \in UsedCidrs(s) /\ h \in Cidr /\ h # Opaque
  BY <1>1, HostEnds, OpaqueAssumption DEF UsedCidrs, PeersOf, Taken, Cidr
<1>3. First(h) = device[p].address /\ Last(h) = device[p].address
  BY <1>1, HostEnds
<1>4. a \in FreeAddresses(range[s], UsedCidrs(s))
  BY DEF Assignable
<1>5. UsedCidrs(s) \in SUBSET Entry
  BY <1>1, UsedTyped
<1>6. a \notin Block(h)
  BY <1>2, <1>4, <1>5, FreeIsUsable DEF Assignable
<1>7. device[p].address \in Block(h)
  BY <1>2, <1>3, BlockIsRange
<1> QED BY <1>6, <1>7

(* The adds, automatic and typed, insert an assignable address. *)
LEMMA AddInsertsFree ==
    ASSUME TypeOK, NEW p \in Peers, NEW s \in Servers,
           AddAuto(p, s) \/ \E input \in Entry : AddManual(p, s, input)
    PROVE  \E a \in Address : Insert(p, s, a) /\ Assignable(s, a)
<1>1. UsedCidrs(s) \in SUBSET Entry
  BY UsedTyped
<1>2. CASE AddAuto(p, s)
  <2> DEFINE a == AllocateAddress(range[s], UsedCidrs(s))
  <2>1. /\ range[s] \in Cidr /\ a \in Address
        /\ ValidateAssignable(range[s], Host(a), UsedCidrs(s)) = "ok"
    BY <1>1, <1>2, AllocatorAgreesWithValidation DEF AddAuto
  <2> HIDE DEF a
  <2>2. Host(a) \in Entry /\ Host(a).ip = a
    BY <2>1, HostEnds DEF Host, Entry
  <2>3. a \in FreeAddresses(range[s], UsedCidrs(s))
    BY <1>1, <2>1, <2>2, ValidIsFree
  <2> QED BY <1>2, <2>1, <2>3 DEF AddAuto, Assignable, a
<1>3. ASSUME NEW input \in Entry, AddManual(p, s, input)
      PROVE  \E a \in Address : Insert(p, s, a) /\ Assignable(s, a)
  <2>1. Assignable(s, input.ip) /\ input # Opaque
    BY <1>1, <1>3, ValidIsFree DEF AddManual, Assignable
  <2>2. input.ip \in Address
    BY <2>1 DEF Entry, Cidr
  <2> QED BY <1>3, <2>1, <2>2 DEF AddManual
<1> QED BY <1>2, <1>3

(* Which rows there are after a step of the catalogue. *)
LEMMA LiveAfter ==
    ASSUME CatalogueTyped
    PROVE  /\ \A q \in Requests, s \in Servers : CreateEnd(q, s) => Live' = Live \cup {s}
           /\ \A s \in Servers, r \in Ranges : UpdateRange(s, r) => Live' = Live
           /\ \A s \in Servers : DeleteRow(s) => Live' = Live \ {s}
<1> USE RangesAssumption, NoRangeAssumption DEF Live, CatalogueTyped
<1>1. ASSUME NEW q \in Requests, NEW s \in Servers, CreateEnd(q, s)
      PROVE  Live' = Live \cup {s}
  <2>1. creating[q].range # NoRange
    BY <1>1, IdleAssumption DEF CreateEnd, Entry
  <2> QED BY <1>1, <2>1 DEF CreateEnd
<1>2. ASSUME NEW s \in Servers, NEW r \in Ranges, UpdateRange(s, r)
      PROVE  Live' = Live
  BY <1>2 DEF UpdateRange
<1>3. ASSUME NEW s \in Servers, DeleteRow(s) PROVE Live' = Live \ {s}
  BY <1>3 DEF DeleteRow
<1> QED BY <1>1, <1>2, <1>3

(* A step is one of these: the two adds are one. *)
LEMMA Steps ==
    ASSUME TypeOK, [Next]_vars
    PROVE  \/ Create
           \/ \E s \in Servers, r \in Ranges : Update(s, r)
           \/ \E s \in Servers : Delete(s)
           \/ \E p \in Peers, s \in Servers, a \in Address : Insert(p, s, a) /\ Assignable(s, a)
           \/ \E p \in Peers : RemoveCreated(p)
           \/ \E s \in Servers, e \in Foreign : Import(s, e) \/ RemoveImported(s, e)
           \/ UNCHANGED vars
BY AddInsertsFree DEF Next

LEMMA CatalogueTypeStep ==
    ASSUME CatalogueTyped
    PROVE  /\ \A q \in Requests, r \in Ranges : CreateBegin(q, r) => CatalogueTyped'
           /\ \A q \in Requests, s \in Servers : CreateEnd(q, s) => CatalogueTyped'
           /\ \A q \in Requests : CreateFails(q) => CatalogueTyped'
           /\ \A s \in Servers, r \in Ranges : UpdateRange(s, r) => CatalogueTyped'
           /\ \A s \in Servers : DeleteRow(s) => CatalogueTyped'
           /\ UNCHANGED catalogue => CatalogueTyped'
<1>1. ASSUME NEW q \in Requests, NEW r \in Ranges, CreateBegin(q, r)
      PROVE  CatalogueTyped'
  BY <1>1 DEF CreateBegin, CatalogueTyped, Live
<1>2. ASSUME NEW q \in Requests, NEW s \in Servers, CreateEnd(q, s)
      PROVE  CatalogueTyped'
  <2>1. creating[q] \in [range : Cidr \cap Ranges, missed : SUBSET Servers]
    BY <1>2 DEF CreateEnd, CatalogueTyped
  <2>2. range' \in [Servers -> Ranges \cup {NoRange}]
    BY <1>2, <2>1 DEF CreateEnd, CatalogueTyped
  <2>3. creating' \in [Requests -> [range : Cidr \cap Ranges, missed : SUBSET Servers]
                                       \cup {Idle}]
    BY <1>2 DEF CreateEnd, CatalogueTyped, MissedBy
  <2>4. raced' \subseteq SUBSET Servers
    BY <1>2, <2>1 DEF CreateEnd, CatalogueTyped, Live
  <2> QED BY <2>2, <2>3, <2>4 DEF CatalogueTyped
<1>3. ASSUME NEW q \in Requests, CreateFails(q) PROVE CatalogueTyped'
  BY <1>3 DEF CreateFails, CatalogueTyped, Live
<1>4. ASSUME NEW s \in Servers, NEW r \in Ranges, UpdateRange(s, r)
      PROVE  CatalogueTyped'
  BY <1>4 DEF UpdateRange, CatalogueTyped, MissedBy, WithoutRow, Live
<1>5. ASSUME NEW s \in Servers, DeleteRow(s) PROVE CatalogueTyped'
  BY <1>5 DEF DeleteRow, CatalogueTyped, WithoutRow, Live
<1>6. ASSUME UNCHANGED catalogue PROVE CatalogueTyped'
  BY <1>6 DEF catalogue, CatalogueTyped, Live
<1> QED BY <1>1, <1>2, <1>3, <1>4, <1>5, <1>6

-----------------------------------------------------------------------------
(* Types are preserved by every call; a peer row never outlives its server. *)
THEOREM PoolTyped == Spec => []TypeOK
<1>1. Init => TypeOK
  BY DEF Init, CatalogueInit, TypeOK, CatalogueTyped
<1>2. TypeOK /\ [Next]_vars => TypeOK'
  <2> SUFFICES ASSUME TypeOK, [Next]_vars PROVE TypeOK'
    OBVIOUS
  <2>1. CASE Create
    <3>1. CatalogueTyped' /\ Live \subseteq Live'
      <4>1. ASSUME NEW q \in Requests, NEW r \in Ranges, CreateBegin(q, r)
            PROVE  CatalogueTyped' /\ Live \subseteq Live'
        BY <4>1, CatalogueTypeStep DEF TypeOK, CreateBegin, Live
      <4>2. ASSUME NEW q \in Requests, NEW s \in Servers, CreateEnd(q, s)
            PROVE  CatalogueTyped' /\ Live \subseteq Live'
        BY <4>2, CatalogueTypeStep, LiveAfter DEF TypeOK
      <4>3. ASSUME NEW q \in Requests, CreateFails(q)
            PROVE  CatalogueTyped' /\ Live \subseteq Live'
        BY <4>3, CatalogueTypeStep DEF TypeOK, CreateFails, Live
      <4> QED BY <2>1, <4>1, <4>2, <4>3 DEF Create
    <3>2. UNCHANGED <<device, imported, moved>>
      BY <2>1 DEF Create
    <3> QED BY <3>1, <3>2 DEF TypeOK, Taken
  <2>2. ASSUME NEW s \in Servers, NEW r \in Ranges, Update(s, r) PROVE TypeOK'
    <3>1. CatalogueTyped' /\ Live' = Live
      BY <2>2, CatalogueTypeStep, LiveAfter DEF Update, TypeOK
    <3> QED BY <2>2, <3>1 DEF Update, TypeOK, Taken, PeersOf
  <2>3. ASSUME NEW s \in Servers, Delete(s) PROVE TypeOK'
    <3>1. CatalogueTyped' /\ Live' = Live \ {s}
      BY <2>3, CatalogueTypeStep, LiveAfter DEF Delete, TypeOK
    <3>2. device' \in [Peers -> [server : Live', address : Address] \cup {NoDevice}]
      <4> SUFFICES ASSUME NEW p \in Peers
                   PROVE  device'[p] \in [server : Live', address : Address] \cup {NoDevice}
        BY <2>3 DEF Delete
      <4>1. CASE device[p] = NoDevice
        BY <2>3, <4>1 DEF Delete, PeersOf, Taken
      <4>2. CASE device[p] # NoDevice
        BY <2>3, <3>1, <4>2 DEF Delete, PeersOf, Taken, TypeOK
      <4> QED BY <4>1, <4>2
    <3> QED BY <2>3, <3>1, <3>2 DEF Delete, TypeOK, Taken, PeersOf
  <2>4. ASSUME NEW p \in Peers, NEW s \in Servers, NEW a \in Address,
               Insert(p, s, a), Assignable(s, a)
        PROVE  TypeOK'
    <3>1. CatalogueTyped' /\ Live' = Live /\ s \in Live
      BY <2>4, CatalogueTypeStep, NoRangeAssumption
      DEF Insert, TypeOK, catalogue, Live, Assignable, Entry
    <3> QED BY <2>4, <3>1 DEF Insert, TypeOK, Taken
  <2>5. ASSUME NEW p \in Peers, RemoveCreated(p) PROVE TypeOK'
    <3>1. CatalogueTyped' /\ Live' = Live
      BY <2>5, CatalogueTypeStep DEF RemoveCreated, TypeOK, catalogue, Live
    <3> QED BY <2>5, <3>1 DEF RemoveCreated, TypeOK, Taken
  <2>6. ASSUME NEW s \in Servers, NEW e \in Foreign, Import(s, e) \/ RemoveImported(s, e)
        PROVE  TypeOK'
    <3>1. CatalogueTyped' /\ Live' = Live
      BY <2>6, CatalogueTypeStep DEF Import, RemoveImported, TypeOK, catalogue, Live
    <3> QED BY <2>6, <3>1 DEF Import, RemoveImported, TypeOK, Taken
  <2>7. CASE UNCHANGED vars
    BY <2>7, CatalogueTypeStep DEF vars, catalogue, TypeOK, Taken, Live
  <2> QED BY <2>1, <2>2, <2>3, <2>4, <2>5, <2>6, <2>7, Steps
<1> QED BY <1>1, <1>2, PTL DEF Spec

(* No sequence of calls gives two created peers of a server one address. *)
THEOREM PoolNoSharedAddress == Spec => []NoSharedAddress
<1>1. Init => NoSharedAddress
  BY DEF Init, NoSharedAddress, Taken
<1>2. TypeOK /\ NoSharedAddress /\ [Next]_vars => NoSharedAddress'
  <2> SUFFICES ASSUME TypeOK, NoSharedAddress, [Next]_vars PROVE NoSharedAddress'
    OBVIOUS
  <2>1. ASSUME UNCHANGED device PROVE NoSharedAddress'
    BY <2>1 DEF NoSharedAddress, Taken
  <2>2. ASSUME NEW s \in Servers, Delete(s) PROVE NoSharedAddress'
    BY <2>2 DEF Delete, NoSharedAddress, Taken, PeersOf, TypeOK
  <2>3. ASSUME NEW p \in Peers, NEW s \in Servers, NEW a \in Address,
               Insert(p, s, a), Assignable(s, a)
        PROVE  NoSharedAddress'
    <3>1. \A q \in Taken : device[q] # [server |-> s, address |-> a]
      BY <2>3, TakenCovered
    <3> QED BY <2>3, <3>1 DEF Insert, NoSharedAddress, Taken, TypeOK
  <2>4. ASSUME NEW p \in Peers, RemoveCreated(p) PROVE NoSharedAddress'
    BY <2>4 DEF RemoveCreated, NoSharedAddress, Taken, TypeOK
  <2> QED BY <2>1, <2>2, <2>3, <2>4, Steps
          DEF Create, Update, Import, RemoveImported, vars
<1> QED BY <1>1, <1>2, PoolTyped, PTL DEF Spec

(* In every reachable state "exhausted" is the truth, and the automatic    *)
(* address is one the operator could have typed.                           *)
THEOREM PoolAllocationHonest == Spec => []AllocationHonest
<1>1. TypeOK => AllocationHonest
  BY UsedTyped, AllocatorAgreesWithValidation DEF AllocationHonest
<1> QED BY <1>1, PoolTyped, PTL

(* Nothing is handed out that a tracked peer of the server covers. *)
THEOREM PoolNeverCovered == Spec => NeverCoveredWhenAssigned
<1> DEFINE Covered(p) == \E e \in imported[device'[p].server] \ {Opaque} :
                             device'[p].address \in Block(e)
<1>1. TypeOK /\ [Next]_vars =>
          [\A p \in Peers : device'[p] \notin {device[p], NoDevice} =>
              \A e \in imported[device'[p].server] \ {Opaque} :
                  device'[p].address \notin Block(e)]_vars
  <2> SUFFICES ASSUME TypeOK, [Next]_vars, NEW p \in Peers,
                      device'[p] \notin {device[p], NoDevice}
               PROVE  ~Covered(p)
    OBVIOUS
  <2>1. ASSUME NEW o \in Peers, NEW s \in Servers, NEW a \in Address,
               Insert(o, s, a), Assignable(s, a)
        PROVE  ~Covered(p)
    <3>1. device'[p] = [server |-> s, address |-> a]
      BY <2>1 DEF Insert, TypeOK
    <3>2. \A e \in UsedCidrs(s) \ {Opaque} : a \notin Block(e)
      BY <2>1, UsedTyped, FreeIsUsable DEF Assignable
    <3> QED BY <3>1, <3>2 DEF UsedCidrs
  <2>2. ASSUME NEW s \in Servers, Delete(s) PROVE FALSE
    BY <2>2 DEF Delete
  <2>3. ASSUME NEW o \in Peers, RemoveCreated(o) PROVE FALSE
    BY <2>3 DEF RemoveCreated, TypeOK
  <2> QED BY <2>1, <2>2, <2>3, Steps DEF Create, Update, Import, RemoveImported, vars
<1> QED BY <1>1, PoolTyped, PTL DEF Spec, NeverCoveredWhenAssigned

(* Every address a peer was given under its server's present range is a    *)
(* usable host of that range.                                              *)
THEOREM PoolAssignedUsable == Spec => []AssignedUsable
<1> DEFINE Usable(d) == {d.address - 2, d.address - 1, d.address, d.address + 1}
                          \subseteq Block(range[d.server])
<1>1. Init => AssignedUsable
  BY DEF Init, AssignedUsable, Taken
<1>2. TypeOK /\ AssignedUsable /\ [Next]_vars => AssignedUsable'
  <2> SUFFICES ASSUME TypeOK, AssignedUsable, [Next]_vars,
                      NEW p \in Peers, p \in Taken', p \notin moved'
               PROVE  Usable(device[p])'
    BY DEF AssignedUsable, Taken
  <2>1. ASSUME device'[p] = device[p], p \notin moved,
               range'[device[p].server] = range[device[p].server]
        PROVE  Usable(device[p])'
    <3>1. p \in Taken \ moved
      BY <2>1 DEF Taken
    <3>2. Usable(device[p])
      BY <3>1 DEF AssignedUsable
    <3> QED BY <2>1, <3>2
  <2>2. CASE Create
    <3>1. UNCHANGED <<device, moved>> /\ p \in Taken /\ device[p].server \in Live
      BY <2>2 DEF Create, Taken, TypeOK
    <3>2. range'[device[p].server] = range[device[p].server]
      BY <2>2, <3>1 DEF Create, CreateBegin, CreateEnd, CreateFails, TypeOK, CatalogueTyped, Live
    <3> QED BY <2>1, <3>1, <3>2
  <2>3. ASSUME NEW s \in Servers, NEW r \in Ranges, Update(s, r)
        PROVE  Usable(device[p])'
    <3>1. p \notin moved /\ device'[p] = device[p] /\ device[p].server # s
      BY <2>3 DEF Update, PeersOf, Taken
    <3>2. range'[device[p].server] = range[device[p].server]
      BY <2>3, <3>1 DEF Update, UpdateRange, TypeOK, CatalogueTyped, Taken, Live
    <3> QED BY <2>1, <3>1, <3>2
  <2>4. ASSUME NEW s \in Servers, Delete(s) PROVE Usable(device[p])'
    <3>1. p \notin moved /\ device'[p] = device[p] /\ device[p].server # s
      BY <2>4 DEF Delete, PeersOf, Taken
    <3>2. range'[device[p].server] = range[device[p].server]
      BY <2>4, <3>1 DEF Delete, DeleteRow, TypeOK, CatalogueTyped, Taken, Live
    <3> QED BY <2>1, <3>1, <3>2
  <2>5. ASSUME NEW q \in Peers, NEW s \in Servers, NEW a \in Address,
               Insert(q, s, a), Assignable(s, a)
        PROVE  Usable(device[p])'
    <3>1. CASE p = q
      <4>1. device'[p] = [server |-> s, address |-> a] /\ range' = range
        BY <2>5, <3>1 DEF Insert, TypeOK
      <4>2. {a - 2, a - 1, a, a + 1} \subseteq Block(range[s])
        BY <2>5, UsedTyped, FreeIsUsable DEF Assignable
      <4> QED BY <4>1, <4>2
    <3>2. CASE p # q
      BY <2>1, <2>5, <3>2 DEF Insert, TypeOK
    <3> QED BY <3>1, <3>2
  <2>6. ASSUME NEW q \in Peers, RemoveCreated(q) PROVE Usable(device[p])'
    <3>1. p # q
      BY <2>6 DEF RemoveCreated, Taken, TypeOK
    <3> QED BY <2>1, <2>6, <3>1 DEF RemoveCreated, TypeOK
  <2>7. CASE UNCHANGED <<device, moved, range>>
    BY <2>1, <2>7
  <2> QED BY <2>2, <2>3, <2>4, <2>5, <2>6, <2>7, Steps DEF Import, RemoveImported, vars
<1> QED BY <1>1, <1>2, PoolTyped, PTL DEF Spec

-----------------------------------------------------------------------------
(* The strengthening of RangesDisjoint.  In the code's own terms, two rows *)
(* that did not race do not overlap; and what makes an insert keep it: a   *)
(* creation in flight is still clear of every row it has not missed.       *)
SeenInFlight ==
    \A q \in Requests : creating[q] # Idle =>
        ClearOf(creating[q].range, Live \ creating[q].missed)
PairsClear ==
    \A s, t \in Live :
        s # t /\ {range[s], range[t]} \subseteq Cidr /\ {s, t} \notin raced =>
            ~CidrsOverlap(range[s], range[t])
CatalogueInv == CatalogueTyped /\ SeenInFlight /\ PairsClear

LEMMA OverlapSymmetric == \A c, d : CidrsOverlap(c, d) <=> CidrsOverlap(d, c)
BY DEF CidrsOverlap

(* A row with a range that every row but those it races is clear of. *)
LEMMA NewRange ==
    ASSUME CatalogueInv, NEW s \in Servers, NEW r \in Ranges, NEW missed \in SUBSET Servers,
           ClearOf(r, (Live \ {s}) \ missed),
           range'[s] = r, \A t \in Servers \ {s} : range'[t] = range[t], Live' = Live \cup {s},
           \A pair \in raced : s \notin pair => pair \in raced',
           \A t \in missed : {s, t} \in raced'
    PROVE  PairsClear'
<1> SUFFICES ASSUME NEW u \in Live', NEW t \in Live', u # t,
                    {range'[u], range'[t]} \subseteq Cidr, {u, t} \notin raced'
             PROVE  ~CidrsOverlap(range'[u], range'[t])
  BY DEF PairsClear
<1> USE DEF CatalogueInv, CatalogueTyped
<1>1. CASE u = s
  <2>1. t \in (Live \ {s}) \ missed /\ range'[t] = range[t] /\ range'[u] = r
    BY <1>1 DEF Live
  <2> QED BY <2>1, OverlapSymmetric DEF ClearOf
<1>2. CASE t = s
  <2>1. {u, t} = {s, u}
    BY <1>2
  <2>2. u \in (Live \ {s}) \ missed /\ range'[u] = range[u] /\ range'[t] = r
    BY <1>2, <2>1 DEF Live
  <2> QED BY <2>2 DEF ClearOf
<1>3. CASE u # s /\ t # s
  <2>1. {u, t} \notin raced /\ u \in Live /\ t \in Live
    BY <1>3
  <2>2. range'[u] = range[u] /\ range'[t] = range[t]
    BY <1>3, <2>1 DEF Live
  <2> QED BY <2>1, <2>2 DEF PairsClear
<1> QED BY <1>1, <1>2, <1>3

(* No two servers' ranges meet unless their checks could not see each other. *)
THEOREM CatalogueRangesDisjoint == Spec => []RangesDisjoint
<1>1. Init => CatalogueInv
  BY DEF Init, CatalogueInit, CatalogueInv, CatalogueTyped, SeenInFlight, PairsClear, Live
<1>2. TypeOK /\ CatalogueInv /\ [Next]_vars => CatalogueInv'
  <2> SUFFICES ASSUME TypeOK, CatalogueInv, [Next]_vars PROVE CatalogueInv'
    OBVIOUS
  <2> USE DEF CatalogueInv
  <2>1. ASSUME NEW q \in Requests, NEW r \in Ranges, CreateBegin(q, r)
        PROVE  CatalogueInv'
    <3>1. CatalogueTyped' /\ Live' = Live
      BY <2>1, CatalogueTypeStep DEF CreateBegin, Live
    <3>2. PairsClear'
      BY <2>1, <3>1 DEF CreateBegin, PairsClear
    <3>3. SeenInFlight'
      BY <2>1, <3>1 DEF CreateBegin, SeenInFlight, ClearOf, CatalogueTyped
    <3> QED BY <3>1, <3>2, <3>3
  <2>2. ASSUME NEW q \in Requests, NEW s \in Servers, CreateEnd(q, s)
        PROVE  CatalogueInv'
    <3> DEFINE r == creating[q].range
               missed == creating[q].missed
    <3>1. CatalogueTyped' /\ Live' = Live \cup {s}
      BY <2>2, CatalogueTypeStep, LiveAfter
    <3>2. r \in Ranges /\ missed \in SUBSET Servers /\ ClearOf(r, (Live \ {s}) \ missed)
      BY <2>2 DEF CreateEnd, CatalogueTyped, SeenInFlight, ClearOf
    <3>3. PairsClear'
      <4>1. range'[s] = r /\ \A t \in Servers \ {s} : range'[t] = range[t]
        BY <2>2 DEF CreateEnd, CatalogueTyped
      <4>2. /\ \A pair \in raced : s \notin pair => pair \in raced'
            /\ \A t \in missed : {s, t} \in raced'
        BY <2>2 DEF CreateEnd
      <4> HIDE DEF r, missed
      <4> QED BY <3>1, <3>2, <4>1, <4>2, NewRange
    <3>4. SeenInFlight'
      <4> SUFFICES ASSUME NEW o \in Requests, creating'[o] # Idle,
                          NEW t \in Live' \ creating'[o].missed
                   PROVE  /\ {creating'[o].range, range'[t]} \subseteq Cidr
                          /\ ~CidrsOverlap(range'[t], creating'[o].range)
        BY DEF SeenInFlight, ClearOf
      <4>1. o # q /\ creating[o] # Idle
            /\ creating'[o] = [creating[o] EXCEPT !.missed = @ \cup {s}]
        BY <2>2 DEF CreateEnd, MissedBy, CatalogueTyped
      <4>2. creating[o] \in [range : Cidr \cap Ranges, missed : SUBSET Servers]
        BY <4>1 DEF CatalogueTyped
      <4>3. creating'[o].range = creating[o].range
            /\ t \in Live \ creating[o].missed /\ t # s
        BY <3>1, <4>1, <4>2
      <4>4. range'[t] = range[t]
        BY <2>2, <4>3 DEF CreateEnd, CatalogueTyped, Live
      <4> QED BY <4>1, <4>3, <4>4 DEF SeenInFlight, ClearOf
    <3> QED BY <3>1, <3>3, <3>4
  <2>3. ASSUME NEW q \in Requests, CreateFails(q) PROVE CatalogueInv'
    <3>1. CatalogueTyped' /\ Live' = Live
      BY <2>3, CatalogueTypeStep DEF CreateFails, Live
    <3> QED BY <2>3, <3>1 DEF CreateFails, PairsClear, SeenInFlight, ClearOf, CatalogueTyped
  <2>4. ASSUME NEW s \in Servers, NEW r \in Ranges, UpdateRange(s, r)
        PROVE  CatalogueInv'
    <3>1. CatalogueTyped' /\ Live' = Live /\ Live' = Live \cup {s}
      BY <2>4, CatalogueTypeStep, LiveAfter DEF UpdateRange
    <3>2. PairsClear'
      <4>1. ClearOf(r, (Live \ {s}) \ {}) /\ {} \in SUBSET Servers
        BY <2>4 DEF UpdateRange, ClearOf
      <4>2. range'[s] = r /\ \A t \in Servers \ {s} : range'[t] = range[t]
        BY <2>4 DEF UpdateRange, CatalogueTyped
      <4>3. /\ \A pair \in raced : s \notin pair => pair \in raced'
            /\ \A t \in {} : {s, t} \in raced'
        BY <2>4 DEF UpdateRange, WithoutRow
      <4> QED BY <3>1, <4>1, <4>2, <4>3, NewRange
    <3>3. SeenInFlight'
      <4> SUFFICES ASSUME NEW o \in Requests, creating'[o] # Idle,
                          NEW t \in Live' \ creating'[o].missed
                   PROVE  /\ {creating'[o].range, range'[t]} \subseteq Cidr
                          /\ ~CidrsOverlap(range'[t], creating'[o].range)
        BY DEF SeenInFlight, ClearOf
      <4>1. creating[o] # Idle /\ creating'[o] = [creating[o] EXCEPT !.missed = @ \cup {s}]
        BY <2>4 DEF UpdateRange, MissedBy
      <4>2. creating[o] \in [range : Cidr \cap Ranges, missed : SUBSET Servers]
        BY <4>1 DEF CatalogueTyped
      <4>3. creating'[o].range = creating[o].range
            /\ t \in Live \ creating[o].missed /\ t # s
        BY <3>1, <4>1, <4>2
      <4>4. range'[t] = range[t]
        BY <2>4, <4>3 DEF UpdateRange, CatalogueTyped, Live
      <4> QED BY <4>1, <4>3, <4>4 DEF SeenInFlight, ClearOf
    <3> QED BY <3>1, <3>2, <3>3
  <2>5. ASSUME NEW s \in Servers, DeleteRow(s) PROVE CatalogueInv'
    <3>1. CatalogueTyped' /\ Live' = Live \ {s}
      BY <2>5, CatalogueTypeStep, LiveAfter
    <3>2. \A t \in Live' : range'[t] = range[t]
      BY <2>5, <3>1 DEF DeleteRow, CatalogueTyped, Live
    <3>3. PairsClear'
      <4> SUFFICES ASSUME NEW u \in Live', NEW t \in Live', u # t,
                          {range'[u], range'[t]} \subseteq Cidr, {u, t} \notin raced'
                   PROVE  ~CidrsOverlap(range'[u], range'[t])
        BY DEF PairsClear
      <4>1. u \in Live /\ t \in Live /\ s \notin {u, t}
        BY <3>1
      <4>2. {u, t} \notin raced
        BY <2>5, <4>1 DEF DeleteRow, WithoutRow
      <4>3. range'[u] = range[u] /\ range'[t] = range[t]
        BY <3>2
      <4> QED BY <4>1, <4>2, <4>3 DEF PairsClear
    <3>4. SeenInFlight'
      <4> SUFFICES ASSUME NEW o \in Requests, creating'[o] # Idle,
                          NEW t \in Live' \ creating'[o].missed
                   PROVE  /\ {creating'[o].range, range'[t]} \subseteq Cidr
                          /\ ~CidrsOverlap(range'[t], creating'[o].range)
        BY DEF SeenInFlight, ClearOf
      <4>1. creating[o] # Idle /\ creating'[o] = [creating[o] EXCEPT !.missed = @ \ {s}]
        BY <2>5 DEF DeleteRow
      <4>2. creating[o] \in [range : Cidr \cap Ranges, missed : SUBSET Servers]
        BY <4>1 DEF CatalogueTyped
      <4>3. creating'[o].range = creating[o].range /\ t \in Live \ creating[o].missed
        BY <3>1, <4>1, <4>2
      <4> QED BY <3>2, <4>1, <4>3 DEF SeenInFlight, ClearOf
    <3> QED BY <3>1, <3>3, <3>4
  <2>6. CASE UNCHANGED catalogue
    BY <2>6, CatalogueTypeStep DEF catalogue, PairsClear, SeenInFlight, ClearOf, Live
  <2> QED BY <2>1, <2>2, <2>3, <2>4, <2>5, <2>6, Steps
          DEF Create, Update, Delete, Insert, RemoveCreated, Import, RemoveImported,
              vars, catalogue
<1>3. CatalogueInv => RangesDisjoint
  BY OverlapExact DEF CatalogueInv, PairsClear, RangesDisjoint
<1> QED BY <1>1, <1>2, <1>3, PoolTyped, PTL DEF Spec
=============================================================================
