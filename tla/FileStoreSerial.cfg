CONSTANTS
    r1 = r1
    r2 = r2
    r3 = r3
    alice = alice
    root = root
    Nothing = Nothing
    Request = {r1, r2, r3}
    CreatedAt <- TwoInstants
    RawPage <- Pages
    RawLimit <- Limits
    User = {alice, root}
    Admin = {root}
    Size = {1, 2}
    Limit = 3
    Verdict = {"clean", "error", "infected"}
    Op = {"create", "revise", "delete", "purge", "download", "login"}
    MaxInFlight = 1
    Faults = FALSE
SPECIFICATION FairSpec
INVARIANTS
    HistoryIsExact
    PurgeIsComplete
    QuotaCoversContent
    PagesCoverList
PROPERTIES
    ImplementsContract
    CursorKeepsRest
    EveryRequestAnswered
