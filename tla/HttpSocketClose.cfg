\* A websocket handler or a close frame asks for the connection to be closed.
CONSTANTS
    Kinds <- Sockets
    MaxRequests = 2
    Scripts <- TwoWithSocket
    MaxHeader = 4
    MaxBody = 2
    ProxyResults <- Results
    Faults <- NoFault
SPECIFICATION FairSpec
\* The client sends finitely many requests, then the connection is closed.
CHECK_DEADLOCK FALSE
PROPERTY EventuallyClosed
