SPECIFICATION Spec
CONSTANTS
    None = None
    Passphrases = {p1, p2, p3}
    Deks = {k1, k2}
    Requests = {r1, r2, r3}
    MaxEvents = 6
SYMMETRY Symmetry
INVARIANTS SecretsReadable
PROPERTIES ImplementsVaultState
CHECK_DEADLOCK FALSE
