\* The probe and the four tests, with one thread of each kind (two
\* churn workers) and loops of two rounds; at most one socket timeout, in
\* the probe or in the last test.
SPECIFICATION Spec
CONSTANTS
    Role <- MCRole
    Conns <- MCConns
    Colls <- MCColls
    Keys <- MCKeys
    Vals <- MCVals
    Rounds = 2
    SeedDocs = 2
    Reseed = 1
    ChurnDocs = 2
    VolatileDocs = 1
    MaxDocs = 20
    MaxTimeouts = 1
    JoinMayExpire = FALSE
    SlowTests = {0, 4}
INVARIANT TypeOK
INVARIANT ChurnSucceeds
INVARIANT StableUntouched
INVARIANT LeavesNothing
