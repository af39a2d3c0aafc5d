\* Two workers with two documents each, one update and one delete per worker;
\* at most one call of the run times out, every join waits.
SPECIFICATION Spec
CONSTANTS
    Conns = {w1, w2, setup, check}
    Workers = {w1, w2}
    Setup = setup
    Check = check
    Colls = {integrity_test}
    Col = integrity_test
    Keys = {w1, w2}
    Vals <- MCVals
    Rounds = 2
    UPDATES_PER_WORKER = 1
    DELETES_PER_WORKER = 1
    MaxDocs = 4
    MaxTimeouts = 1
    JoinMayExpire = FALSE
INVARIANT TypeOK
INVARIANT TestPasses
INVARIANT LocalTracksStore
PROPERTY StoreSettled
