CONSTANTS
    r1 = r1
    r2 = r2
    r3 = r3
    alice = alice
    root = root
    Nothing = Nothing
    Request = {r1, r2, r3}
    User = {alice, root}
    Admin = {root}
    Size = {1, 2}
    Limit = 3
    Verdict = {"clean"}
    Op = {"create", "revise", "delete", "purge", "download", "history", "login"}
    MaxInFlight = 3
    Faults = TRUE
SPECIFICATION Spec
SYMMETRY Symmetry
INVARIANTS
    TypeOK
    RecordedUsageWithinLimit
    RowsHaveContent
    HistoryHasNoGaps
    AcknowledgedUploadKept
    DownloadMissesOnlyPurged
    PurgeLeavesNoHoles
    OrphansAreErrors
PROPERTIES
    EmptyHistoryOnlyUnfinished
    WithdrawnForGood
