CONSTANTS
    r1 = r1
    r2 = r2
    r3 = r3
    alice = alice
    Forever = Forever
    Request = {r1, r2, r3}
    Email = {alice}
    MaxAttempts = 2
    Window = 2
    MaxInFlight = 2
    Faults = TRUE
SPECIFICATION FairSpec
PROPERTY
    LockoutIsTemporary
CHECK_DEADLOCK FALSE
