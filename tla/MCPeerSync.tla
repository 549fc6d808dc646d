----------------------------- MODULE MCPeerSync -----------------------------
EXTENDS PeerSyncAlone, TLC

CONSTANTS h1, h2, net

(* The subnet another tool's peer may advertise covers the second host only. *)
MCSubnetHosts  == [s \in {net} |-> {h2}]
MCExternalSets == {{}, {h1}, {net}}

Symmetry == Permutations(Devices) \cup Permutations(Keys) \cup Permutations(Requests)
=============================================================================
