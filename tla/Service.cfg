CONSTANTS
    r1 = r1
    r2 = r2
    s1 = s1
    small = small
    capital = capital
    other = other
    secret = secret
    Nothing = Nothing
    Registration = {r1, r2}
    Login = {s1}
    Client = {r1, r2, s1}
    Spelling <- TwoAddresses
    Lower <- ToLower
    Password = {secret}
    AuthFaults = TRUE
    MaxConnections = 2
    MaxSignals = 2
    MaxStarts = 2
    ProcessFaults = TRUE
SPECIFICATION FairSpec
INVARIANTS
    TypeOK
    OneAccountPerAddress
    RefusalIsTrue
    AcknowledgedAccountKept
    WaitingClientsHaveStores
PROPERTIES
    LoginKnowsAccounts
    ShutdownCutsNobodyWaiting
    ImplementsDirectory
    SignalEndsProcess
CHECK_DEADLOCK FALSE
