---------------------------- MODULE AddressSpace ----------------------------
(***************************************************************************)
(* The IPv4 arithmetic of servers/net.ts: what a CIDR covers, when two     *)
(* ranges overlap, which addresses are in use, and which address a new     *)
(* peer may be given.  An address is a number of Width bits (32 in the     *)
(* code); every ">>> 0" of the source is a reduction modulo 2^Width.       *)
(***************************************************************************)
EXTENDS Integers
\* Definitions named Mut... are deliberate bugs, each tried in place of the
\* definition it precedes to see that a property notices; nothing else uses them.

CONSTANTS
    Width,      \* bits of an address
    Opaque,     \* any "used" entry that is not IPv4 (an IPv6 prefix, garbage)
    NoAddress   \* what the allocator returns where the code throws

Top     == 2 ^ Width
Address == 0 .. Top - 1

(* Of the powers of two the proofs use that they are naturals below the top *)
(* one and divide it: the provers know nothing of ^, and TLC evaluates the  *)
(* assumption.                                                              *)
ASSUME WidthAssumption ==
    /\ Width \in Nat \ {0}
    /\ 2 ^ 0 = 1
    /\ \A n \in 0 .. Width : 2 ^ n \in 1 .. 2 ^ Width
    /\ \A n \in 0 .. Width : \E k \in 1 .. 2 ^ Width : 2 ^ Width = k * 2 ^ n
ASSUME OpaqueAssumption    == Opaque \notin [ip : Address, prefix : 0 .. Width]
ASSUME NoAddressAssumption == NoAddress \notin Int

(* A CIDR as it is written: a host and a prefix length, not yet masked. *)
Cidr  == [ip : Address, prefix : 0 .. Width]
Entry == Cidr \cup {Opaque}
Host(a) == [ip |-> a, prefix |-> Width]

(* parseCidr: the network address.  Masking clears the host bits. *)
Size(c) == 2 ^ (Width - c.prefix)
Base(c) == c.ip - (c.ip % Size(c))

(* cidrRange *)
First(c) == Base(c)
Last(c)  == (Base(c) + Size(c) - 1) % Top

CidrsOverlap(a, b) == First(a) <= Last(b) /\ First(b) <= Last(a)

ServerAddress(range) == (Base(range) + 1) % Top

(* usedRanges, addressCovered: entries that are not IPv4 are skipped. *)
MutOnlyHosts(used) == {u \in used \ {Opaque} : u.prefix = Width}
UsedRanges(used) == used \ {Opaque}

MutFirstNotCovered(a, used) ==
    \E u \in UsedRanges(used) : First(u) < a /\ a <= Last(u)
AddressCovered(a, used) ==
    \E u \in UsedRanges(used) : First(u) <= a /\ a <= Last(u)

AddressInRange(a, range) == First(range) <= a /\ a <= Last(range)

(* The candidates of allocateAddress's loop that it would not skip. *)
MutStopsEarly(range, used) ==
    {n \in First(range) + 2 .. Last(range) - 2 :
        n # ServerAddress(range) /\ ~AddressCovered(n, used)}
FreeAddresses(range, used) ==
    {n \in First(range) + 2 .. Last(range) - 1 :
        n # ServerAddress(range) /\ ~AddressCovered(n, used)}

(* The loop returns the first free candidate, or throws. *)
AllocateAddress(range, used) ==
    LET free == FreeAddresses(range, used)
    IN  IF free = {} THEN NoAddress
        ELSE CHOOSE n \in free : \A m \in free : n <= m

(* validateAssignableAddress: the first refusal that applies.  The input is *)
(* an address with the prefix written after it (Width when none was), or    *)
(* text that is no IPv4 address.                                            *)
MutBroadcastAllowed(range, input, used) ==
    IF input = Opaque \/ input.prefix # Width THEN "malformed"
    ELSE IF ~AddressInRange(input.ip, range) THEN "out_of_range"
    ELSE IF input.ip \in {First(range), ServerAddress(range)} THEN "reserved"
    ELSE IF AddressCovered(input.ip, used) THEN "in_use"
    ELSE "ok"
ValidateAssignable(range, input, used) ==
    IF input = Opaque \/ input.prefix # Width THEN "malformed"
    ELSE IF ~AddressInRange(input.ip, range) THEN "out_of_range"
    ELSE IF input.ip \in {First(range), Last(range), ServerAddress(range)} THEN "reserved"
    ELSE IF AddressCovered(input.ip, used) THEN "in_use"
    ELSE "ok"
=============================================================================
