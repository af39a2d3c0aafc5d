\* The demo with the client of python/oxidb.py; no socket timeout.
SPECIFICATION Spec
CONSTANTS
    Conns = {db}
    db = db
    Colls <- MCColls
    Keys <- MCKeys
    Vals <- MCVals
    Buckets <- MCBuckets
    ObjKeys <- MCObjKeys
    KeyPrefixes <- MCPrefixes
    RustGuide = RustGuide
    PythonTips = PythonTips
    Stale = Stale
    Bytes = {RustGuide, PythonTips, Stale}
    Clients <- ThisClient
    Garbage = 2
    MaxDocs = 13
    MaxTimeouts = 0
INVARIANT RunsToSummary
CHECK_DEADLOCK FALSE
