------------------------------ MODULE MCVault ------------------------------
EXTENDS Vault, TLC

Symmetry == Permutations(Passphrases) \cup Permutations(Deks) \cup Permutations(Requests)
=============================================================================
