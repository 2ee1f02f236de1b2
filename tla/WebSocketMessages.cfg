\* Three frames, cut anywhere; answers that fit into RspHeader's array and
\* answers that do not.
CONSTANTS
    Bursts <- WholeMessages
    MaxFrames = 3
    MaxControl = 3
    Inline = 2
    Replies <- Always
SPECIFICATION Spec
\* The client sends finitely many frames.
CHECK_DEADLOCK FALSE
INVARIANTS
    TypeOK
    HandlerSeesMessages
    AnswersInOrder
    NothingWaits
