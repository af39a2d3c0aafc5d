\* Three workers, two increments each; at most two socket timeouts.
SPECIFICATION Spec
CONSTANTS
    Conns = {w1, w2, w3, setup, check}
    Workers = {w1, w2, w3}
    Setup = setup
    Check = check
    Colls = {counter_test}
    Col = counter_test
    Keys = {counter}
    Name = counter
    Vals <- MCVals
    Rounds = 2
    MaxDocs = 2
    MaxTimeouts = 2
    JoinMayExpire = FALSE
INVARIANT TypeOK
INVARIANT CounterIsExact
INVARIANT IncrementsConserved
CHECK_DEADLOCK FALSE
