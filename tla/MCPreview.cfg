SPECIFICATION PreviewSpec
CONSTANTS
    Profiles = {a1}
    NoProfile = NoProfile
    Targets = {1, 2}
    Calls = {c1, c2}
    MaxSessions = 3
    SessionTtl = 2
    PruneAfter = 2
    MaxXp = 1
    MaxClock = 2
SYMMETRY PreviewSymmetry
INVARIANT PassedIsThisRunsDelta
CHECK_DEADLOCK FALSE
