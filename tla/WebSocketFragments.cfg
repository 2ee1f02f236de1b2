\* A message in two fragments.
CONSTANTS
    Bursts <- Fragmented
    MaxFrames = 6
    MaxControl = 3
    Inline = 2
    Replies <- Always
SPECIFICATION Spec
\* The client sends finitely many frames.
CHECK_DEADLOCK FALSE
INVARIANT HandlerSeesMessages
