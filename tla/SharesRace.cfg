CONSTANTS
    r1 = r1
    r2 = r2
    r3 = r3
    f1 = f1
    Nothing = Nothing
    Request = {r1, r2, r3}
    File = {f1}
    Lifetime = {1}
    MaxDownloads = {1}
    Horizon = 1
    MaxInFlight = 2
    Faults = FALSE
SPECIFICATION Spec
INVARIANT ServedWithinMax
