\* Two workers, one transfer each over two accounts; one socket timeout;
\* joins may expire.
SPECIFICATION Spec
CONSTANTS
    Conns = {w1, w2, setup, check}
    Workers = {w1, w2}
    Setup = setup
    Check = check
    Colls = {transfer_test}
    Col = transfer_test
    NumAccounts = 2
    Keys <- Accounts
    Vals <- MCVals
    InitialBalance = 10
    Amounts = {1}
    Rounds = 1
    MaxDocs = 2
    MaxTimeouts = 1
    JoinMayExpire = TRUE
INVARIANT TypeOK
INVARIANT TotalPreserved
INVARIANT NoPartialTransfer
CHECK_DEADLOCK FALSE
