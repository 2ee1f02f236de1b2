\* A connection that timed out is kept when the new dial fails.
CONSTANTS
    r1 = r1
    r2 = r2
    r3 = r3
    Requests = {r1, r2}
    NoRequest = NoRequest
    RemoteAddr <- OneService
    WConns = {1, 2}
    Conns = {1, 2}
    MaxConns = 1
    MaxRetry = 1
    LogInt <- MCLog
    Kinds <- OnlyLength
    Faults <- LossyNoDial
SYMMETRY Symmetry
SPECIFICATION Spec
\* Finitely many requests: once they are answered the proxy waits for ever.
CHECK_DEADLOCK FALSE
INVARIANT OwnResponse
