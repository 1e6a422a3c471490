SPECIFICATION Spec
CONSTANTS
    a = a  b = b  c = c
    i1 = i1  i2 = i2
    n1 = n1  n2 = n2  n3 = n3
    Wallets = {a, b}
    NoAddress = NoAddress
    Identities = {i1, i2}
    NoIdentity = NoIdentity
    Nullifiers = {n1, n2, n3}
    IdentitiesOf <- AnyIdentity
    NullifiersOf <- AnyNullifier
    Nonces = {1}
    Signers = {1, 2}
    PactIds <- TwoPacts
    Stakes = {2}
    Targets = {1}
    MinParticipants = 2
    MaxParticipants = 2
    MinDuration = 1
    MaxDuration = 1
    MaxStartDelay = 1
    SubmissionGrace = 1
    MaxAttestationAge = 1
    MaxClockSkew = 1
    MaxTime = 3
    MaxPauses = 1
SYMMETRY EvidenceSymmetry
INVARIANTS
    Solvent
    OneProofOneEffect
    OneIdentityOnePlayer
CHECK_DEADLOCK FALSE
