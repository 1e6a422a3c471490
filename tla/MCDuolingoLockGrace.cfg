SPECIFICATION LockSpec
CONSTANTS
    a = a  b = b
    i1 = i1  i2 = i2
    h1 = h1  h2 = h2
    Wallets = {a, b}
    NoAddress = NoAddress
    Identities = {i1, i2}
    NoIdentity = NoIdentity
    Nullifiers <- BackendNullifiers
    IdentitiesOf <- Accounts
    NullifiersOf <- NoNullifiers
    Nonces = {1}
    Signers = {1}
    PactIds <- OnePact
    Stakes = {1}
    Targets = {1}
    MinParticipants = 2
    MaxParticipants = 2
    MinDuration = 1
    MaxDuration = 1
    MaxStartDelay = 1
    SubmissionGrace = 2
    MaxAttestationAge = 2
    MaxClockSkew = 0
    MaxTime = 4
    MaxPauses = 1
    Handlers = {h1}
    MaxSessions = 3
    MaxXp = 1
    BackendKey = 1
    SessionTtl = 2
    AttestationTtl = 1
INVARIANT CapturedFinalIsGoodForTheGrace
CHECK_DEADLOCK FALSE
