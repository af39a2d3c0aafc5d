\* main of test_crash_recovery.py: its three tests on one data directory;
\* two writers in the third; one socket timeout in the first two.
SPECIFICATION MainSpec
CONSTANTS
    Conns = {"w1", "w2", "setup", "check", "c147", "c186", "c262", "c296"}
    Workers = {"w1", "w2"}
    Setup = "setup"
    Check = "check"
    client <- MCclient
    Colls = {"crash_test_1", "crash_committed", "crash_uncommitted", "crash_heavy"}
    Col = "crash_heavy"
    Keys = {"w1", "w2", "payload", "committed", "uncommitted"}
    Vals <- MCVals
    NumDocs = 2
    NumCommitted = 1
    NumUncommitted = 1
    Rounds = 3
    MaxDocs = 9
    MaxTimeouts = 1
    JoinMayExpire = FALSE
INVARIANT MainTypeOK
INVARIANT NoConfirmedLost
INVARIANT CommittedSurvive
INVARIANT UncommittedLost
PROPERTY ImplementsDurableStore
PROPERTY Termination
CHECK_DEADLOCK FALSE
