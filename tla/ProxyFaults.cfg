\* Two requests and everything that can go wrong: failed dials, refused
\* operations, resets, timeouts, Close.
CONSTANTS
    r1 = r1
    r2 = r2
    r3 = r3
    Requests = {r1, r2}
    NoRequest = NoRequest
    RemoteAddr <- OneService
    WConns = {1, 2, 3}
    Conns = {1, 2, 3, 4}
    MaxConns = 2
    MaxRetry = 1
    LogInt <- MCLog
    Kinds <- Unsized
    Faults <- EveryFault
SYMMETRY Symmetry
SPECIFICATION Spec
\* Finitely many requests: once they are answered the proxy waits for ever.
CHECK_DEADLOCK FALSE
INVARIANTS
    IInv
    NoLostWakeup
    ResumedOnce
    CompletesFront
    PoolOwnsSockets
