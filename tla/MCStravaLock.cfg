SPECIFICATION MCSpec
CONSTANTS
    a = a  b = b
    ann = ann  ben = ben
    h1 = h1
    Wallets = {a, b}
    NoAddress = NoAddress
    Identities = {ann, ben}
    NoIdentity = NoIdentity
    NoAthlete = NoAthlete
    Nullifiers <- Ids
    AccessNonces <- Ids
    EvidenceSigners = {1}
    AccessSigners = {1}
    EvidenceKey = 1
    AccessKey = 1
    PactIds <- TwoPacts
    Configurations <- BothTerms
    DayLength = 2
    SubmissionGrace = 1
    MaxStartDelay = 1
    MinRegistration = 1
    MaxAttestationAge = 1
    MaxClockSkew = 0
    LockScorePerDay = 10
    PageSize = 1
    DiscoveryLimit = 1
    Surpluses = {0, 1}
    ActivityKinds <- Kinds
    Handlers = {h1}
    MaxActivities = 2
    MaxAccesses = 3
    UploadDelay = 0
    AccessTtl = 1
    CompletionTtl = 1
    MaxTime = 6
    MaxPauses = 2
SYMMETRY Symmetry
CONSTRAINT Bounds
INVARIANTS
    LockTypeOK
    DaysAndCountersMatch
    OneAdmissionOneStake
    EveryDayIsARunOfItsOwn
    OneAthleteOnePlayer
    ScoresCountUtcDaysOnce
    CanaryReconciles
    PagesMatchContract
PROPERTIES
    OutcomeFrozenAtDeadline
    ImplementsSettlement
CHECK_DEADLOCK FALSE
