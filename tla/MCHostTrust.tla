---------------------------- MODULE MCHostTrust ----------------------------
EXTENDS HostTrust, TLC

CONSTANTS h1, h2

Symmetry == Permutations(Targets) \cup Permutations(Keys) \cup Permutations(Connections)
=============================================================================
