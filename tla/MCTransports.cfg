SPECIFICATION Spec
CONSTANTS
    Messages = {m1, m2}
    MemoryReads = {r1, r2}
    NoMessage = none
    SocketWrites = {w1, w2, w3}
    SocketReads = {r1, r2}
    Writes = {w1, w2}
    Reads = {r1, r2}
    Closers = {c1}
    InnerClosers = {i1}
    MaxLines = 2
    Connections = {k1, k2}
INVARIANTS WebSocketInTurn
    CloseIsOrderly ReadsAwake
PROPERTIES MemoryIsAChannel CloseEndsCalls
CHECK_DEADLOCK FALSE
