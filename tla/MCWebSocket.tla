----------------------------- MODULE MCWebSocket -----------------------------
(***************************************************************************)
(* Constants of the WebSocket runs.                                        *)
(***************************************************************************)
EXTENDS WebSocket

Frame(op, final, size) ==
    [op |-> op, final |-> final, size |-> size, masked |-> TRUE, rsv |-> FALSE]

Text    == Frame("text", TRUE, 5)
Short   == Frame("text", TRUE, 2)
Ping    == Frame("ping", TRUE, 3)
Close   == Frame("close", TRUE, 2)
Opening == Frame("binary", FALSE, 3)
Ending  == Frame("continuation", TRUE, 0)

\* A reserved bit, no mask, a long or split control frame, an unknown opcode, a
\* continuation of nothing.
Refused == {[Ping EXCEPT !.rsv = TRUE], [Ping EXCEPT !.masked = FALSE],
            [Ping EXCEPT !.size = 4], [Ping EXCEPT !.final = FALSE],
            Frame("unknown", TRUE, 0), Ending}

\* Messages in one frame or with an empty last fragment, and every error.
WholeMessages == {<<Text>>, <<Short>>, <<Ping>>, <<Close>>, <<Opening, Ending>>} \cup {<<k>> : k \in Refused}

\* Two fragments that both carry data.
Fragmented == {<<Frame("text", FALSE, 1), Frame("continuation", TRUE, 1)>>}

Always == {TRUE}
=============================================================================
