\* Four calls on one connection, two socket timeouts, a server that may end
\* the stream; bytes 0..3, a prefix of two bytes.
SPECIFICATION Spec
CONSTANTS
    Base = 4
    Width = 2
    Json <- MCJson
    MaxCalls = 4
    MaxTimeouts = 2
INVARIANT TypeOK
INVARIANT ReturnsAreSent
PROPERTY ImplementsFrameChannel
