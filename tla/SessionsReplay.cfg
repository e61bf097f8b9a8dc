CONSTANTS
    r1 = r1
    r2 = r2
    r3 = r3
    alice = alice
    Nothing = Nothing
    Request = {r1, r2, r3}
    User = {alice}
    AccessTTL = 2
    RefreshTTL = 3
    AccessHold = 2
    RefreshHold = 3
    Horizon = 5
    Faults = FALSE
SPECIFICATION Spec
INVARIANT
    RefreshIsSingleUse
CHECK_DEADLOCK FALSE
