SPECIFICATION Spec
CONSTANTS
    w1 = w1  w2 = w2
    ann = ann  ben = ben
    r1 = r1  r2 = r2
    Wallets = {w1, w2}
    Athletes = {ann, ben}
    Requests = {r1, r2}
    MaxTime = 1
    MaxStates = 2
    MaxTokens = 3
    StateTtl = 0
SYMMETRY Symmetry
INVARIANTS
    OneWalletPerAthlete
    StateUsedOnceInItsWindow
PROPERTIES
    ForgottenStaysForgotten
CHECK_DEADLOCK FALSE
