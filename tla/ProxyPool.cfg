\* Three requests on a pool of two connections that grows, shrinks and replaces
\* its sockets after timeouts, Connection: close and unreadable headers.
CONSTANTS
    r1 = r1
    r2 = r2
    r3 = r3
    Requests = {r1, r2, r3}
    NoRequest = NoRequest
    RemoteAddr <- OneService
    WConns = {1, 2, 3}
    Conns = {1, 2, 3, 4}
    MaxConns = 2
    MaxRetry = 1
    LogInt <- MCLog
    Kinds <- Framed
    Faults <- Timeouts
SYMMETRY Symmetry
SPECIFICATION Spec
\* Finitely many requests: once they are answered the proxy waits for ever.
CHECK_DEADLOCK FALSE
INVARIANTS
    TypeOK
    OneDriver
    OwnResponse
    OneOutstanding
    PoolBound
