CONSTANTS
    r1 = r1
    r2 = r2
    r3 = r3
    r4 = r4
    f1 = f1
    Nothing = Nothing
    Request = {r1, r2, r3, r4}
    File = {f1}
    Lifetime <- MCLifetime
    MaxDownloads <- MCMaxDownloads
    Horizon = 2
    MaxInFlight = 3
    Faults = TRUE
SPECIFICATION Spec
SYMMETRY Symmetry
INVARIANTS
    TypeOK
    CountWithinMax
    CountIsBacked
    AnsweredShareKept
    AccessMissesOnlyPurged
PROPERTY
    OverStaysOver
