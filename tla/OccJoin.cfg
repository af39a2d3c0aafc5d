\* Two workers, one round each; no socket timeout, a join may expire.
SPECIFICATION Spec
CONSTANTS
    Conns = {w1, w2, setup, check}
    Workers = {w1, w2}
    Setup = setup
    Check = check
    Colls = {occ_storm}
    Col = occ_storm
    Keys = {shared}
    Shared = shared
    Vals <- MCVals
    InitialBalance = 10
    Rounds = 1
    MaxDocs = 2
    MaxTimeouts = 0
    JoinMayExpire = TRUE
INVARIANT BalanceIsCommits
CHECK_DEADLOCK FALSE
