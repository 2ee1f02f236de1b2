\* Two requests of any kind or three ordinary ones, every failure.
CONSTANTS
    Kinds <- AllKinds
    MaxRequests = 3
    Scripts <- OneOfEverything
    MaxHeader = 6
    MaxBody = 2
    ProxyResults <- EveryResult
    Faults <- EveryFault
SPECIFICATION FairSpec
\* The client sends finitely many requests, then the connection is closed.
CHECK_DEADLOCK FALSE
INVARIANTS
    IInv
    OneDriver
    ResponsesMatchRequests
    WritesCounted
PROPERTIES
    ClosesAfterLatestWrite
    HttpEventuallyClosed
    EventuallyAnswered
