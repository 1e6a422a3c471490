SPECIFICATION FairSpec
CONSTANTS
    a = a  b = b  c = c
    i1 = i1  i2 = i2
    n1 = n1  n2 = n2  n3 = n3
    Wallets = {a, b}
    NoAddress = NoAddress
    Identities = {a, b}
    NoIdentity = NoIdentity
    Nullifiers <- TwoProofsEach
    IdentitiesOf <- OwnIdentity
    NullifiersOf <- OwnNullifiers
    Nonces = {1}
    Signers = {1}
    PactIds <- OnePact
    Stakes = {3}
    Targets = {1}
    MinParticipants = 2
    MaxParticipants = 2
    MinDuration = 1
    MaxDuration = 1
    MaxStartDelay = 1
    SubmissionGrace = 1
    MaxAttestationAge = 1
    MaxClockSkew = 1
    MaxTime = 4
    MaxPauses = 2
PROPERTIES
    EveryStakeIsSettled
CHECK_DEADLOCK FALSE
