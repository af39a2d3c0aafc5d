\* Two workers, two rounds each; one socket timeout.
SPECIFICATION Spec
CONSTANTS
    Conns = {w1, w2, setup, check}
    Workers = {w1, w2}
    Setup = setup
    Check = check
    Colls = {occ_storm}
    Col = occ_storm
    Keys = {shared}
    Shared = shared
    Vals <- MCVals
    InitialBalance = 10
    Rounds = 2
    MaxDocs = 2
    MaxTimeouts = 1
    JoinMayExpire = FALSE
INVARIANT FindReturnsList
CHECK_DEADLOCK FALSE
