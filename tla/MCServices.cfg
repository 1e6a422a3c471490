SPECIFICATION MCSpec
CONSTANTS
    MaxTime = 5
    MaxPauses = 3
    Clients = {k1, k2, k3}
    limit = 1
    windowMs = 2
    maxEntries = 2
    MaxMs = 5
    Profiles = {a1, a2}
    NoProfile = NoProfile
    Targets = {1}
    MaxSessions = 2
    Calls = {t1, t2}
    SessionTtl = 1
    PruneAfter = 1
    MaxXp = 1
    MaxClock = 3
    Accounts = {a1, a2}
    NoAccount = NoAccount
    Tabs = {t1, t2}
    ChallengeTtl = 1
    CookieTtl = 1
    MaxHour = 3
    Announced = {t1, t2}
    Legacy = {injected}
    Addresses = {a1, a2}
    MaxAttempts = 4
    MaxTransactions = 3
    Players = {p1, p2}
    Handles = {h1, h2}
    NoHandle = NoHandle
    Today = 4
    ScoreDays = {3, 4}
    DuolingoBlocks = {1, 2}
    PageBlocks = 2
    MaxBlocks = 3
    Actions = {join, checkIns}
    Polls = {t1, t2}
    HealthTtl = 1
    MaxRead = 1
    MaxSecond = 4
SYMMETRY symmetry
INVARIANTS
    SearchCorrect
    SearchFindsEveryPause
    ProofPathBeforeExposure
    LimitsAreKept
    OneSessionOneWrite
    SpeaksOnlyForSigners
    ChooserFollowsTheWallet
    OneTransactionAtATime
    BoardMatchesContract
    OfferedWasOpen
PROPERTY EveryRoundHalves
CHECK_DEADLOCK FALSE
