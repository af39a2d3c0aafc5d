\* The demo with the client of python/oxidb.py and with one that has every
\* method main calls; at most one socket timeout.
SPECIFICATION Spec
CONSTANTS
    Conns = {db}
    db = db
    Colls <- MCColls
    Keys <- MCKeys
    Vals <- MCVals
    Buckets <- MCBuckets
    ObjKeys <- MCObjKeys
    KeyPrefixes <- MCPrefixes
    RustGuide = RustGuide
    PythonTips = PythonTips
    Stale = Stale
    Bytes = {RustGuide, PythonTips, Stale}
    Clients <- BothClients
    Garbage = 2
    MaxDocs = 13
    MaxTimeouts = 1
INVARIANT TypeOK
INVARIANT DemoCompletes
INVARIANT DuplicateRejected
INVARIANT RollbackLeavesNothing
INVARIANT GetReturnsWhatWasPut
INVARIANT LeavesNothingBehind
INVARIANT TimeoutEndsMain
