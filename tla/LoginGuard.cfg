CONSTANTS
    r1 = r1
    r2 = r2
    r3 = r3
    r4 = r4
    r5 = r5
    alice = alice
    Forever = Forever
    Request = {r1, r2, r3, r4, r5}
    Email = {alice}
    MaxAttempts = 2
    Window = 2
    MaxInFlight = 3
    Faults = TRUE
SPECIFICATION FairSpec
INVARIANTS
    TypeOK
    OverrunIsBounded
    CounterExpires
PROPERTY
    LockoutEnds
CHECK_DEADLOCK FALSE
