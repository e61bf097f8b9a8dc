CONSTANTS
    r1 = r1
    r2 = r2
    r3 = r3
    r4 = r4
    alice = alice
    Nothing = Nothing
    Request = {r1, r2, r3, r4}
    User = {alice}
    AccessTTL = 1
    RefreshTTL = 2
    AccessHold = 1
    RefreshHold = 2
    Horizon = 3
    Faults = TRUE
SPECIFICATION Spec
SYMMETRY Symmetry
INVARIANTS
    TypeOK
    RevokedUntilExpiry
PROPERTIES
    RevokedIsTurnedAway
    ImplementsRegister
CHECK_DEADLOCK FALSE
