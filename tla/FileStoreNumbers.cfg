CONSTANTS
    r1 = r1
    r2 = r2
    r3 = r3
    alice = alice
    Nothing = Nothing
    Request = {r1, r2, r3}
    User = {alice}
    Admin = {}
    Size = {1}
    Limit = 3
    Verdict = {"clean"}
    Op = {"create", "revise"}
    MaxInFlight = 2
    Faults = FALSE
SPECIFICATION Spec
INVARIANT
    VersionNumbersAreUnique
