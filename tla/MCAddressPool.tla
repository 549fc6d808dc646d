--------------------------- MODULE MCAddressPool ---------------------------
EXTENDS AddressPool, TLC

C(ip, prefix) == [ip |-> ip, prefix |-> prefix]

(* Everything, its halves (the lower one written with host bits), the top  *)
(* address alone, and a text that is no CIDR.                              *)
MCRanges  == {C(0, 0), C(1, 1), C(4, 1), C(7, 3), Opaque}
(* A host, a subnet, everything, and an IPv6 entry. *)
MCForeign == {C(2, 3), C(6, 2), C(0, 0), Opaque}

Symmetries == Permutations(Peers) \cup Permutations(Servers) \cup Permutations(Requests)
=============================================================================
