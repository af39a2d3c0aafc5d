\* The suite with the loops of its tests cut short; at most one socket
\* timeout.
SPECIFICATION Spec
CONSTANTS
    Conns <- MCConns
    Colls <- MCColls
    Keys <- MCKeys
    Vals <- MCVals
    Buckets <- MCBuckets
    ObjKeys <- MCObjKeys
    KeyPrefixes <- MCPrefixes
    SlowTests <- MCSlowTests
    Hello = Hello
    Fox = Fox
    Bytes = {Hello, Fox}
    CompactDocs = 2
    StressCount = 2
    BatchSize = 1
    FindLimit = 1
    MaxDocs = 35
    MaxTimeouts = 1
INVARIANT TypeOK
INVARIANT SuitePasses
INVARIANT FailuresStayLocal
INVARIANT SuiteCleansUp
