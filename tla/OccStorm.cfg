\* Two workers, two rounds each; at most one socket timeout, every join waits.
SPECIFICATION Spec
CONSTANTS
    Conns = {w1, w2, setup, check}
    Workers = {w1, w2}
    Setup = setup
    Check = check
    Colls = {occ_storm}
    Col = occ_storm
    Keys = {shared}
    Shared = shared
    Vals <- MCVals
    InitialBalance = 10
    Rounds = 2
    MaxDocs = 2
    MaxTimeouts = 1
    JoinMayExpire = FALSE
INVARIANT TypeOK
INVARIANT BalanceIsCommits
INVARIANT NoUnexpectedErrors
INVARIANT EveryCommitAddsOne
PROPERTY AbortedAfterClose
PROPERTY Termination
CHECK_DEADLOCK FALSE
