\* One connection and no fault at all: a header the parser refuses leaves its
\* chunked body on the socket, for the scan of the next request.
CONSTANTS
    r1 = r1
    r2 = r2
    r3 = r3
    Requests = {r1, r2, r3}
    NoRequest = NoRequest
    RemoteAddr <- OneService
    WConns = {1, 2}
    Conns = {1, 2}
    MaxConns = 1
    MaxRetry = 1
    LogInt <- MCLog
    Kinds <- Leftover
    Faults <- NoFault
SYMMETRY Symmetry
SPECIFICATION Spec
\* Finitely many requests: once they are answered the proxy waits for ever.
CHECK_DEADLOCK FALSE
INVARIANT OwnResponse
