--------------------------- MODULE MCHttpProcessor ---------------------------
(***************************************************************************)
(* Constants of the HttpProcessor runs: requests by what they exercise.    *)
(***************************************************************************)
EXTENDS HttpProcessorInv

Request(head, body, length, route) ==
    [head |-> head, body |-> body, length |-> length, close |-> FALSE, route |-> route]
Closing(k) == [k EXCEPT !.close = TRUE]

Get       == Request(1, 0, -2, "local")
Post      == Request(2, 2, 2, "local")
Chunked   == Request(1, 1, -1, "local")
Proxied   == Request(1, 1, 1, "proxy")
Failing   == Request(1, 0, 0, "fails")
Malformed == Request(1, 0, -2, "malformed")
LongHead  == Request(7, 0, -2, "local")
LongBody  == Request(1, 3, 3, "local")
Upgrading == Closing(Request(1, 0, -2, "upgrade"))
Refused   == Request(1, 0, -2, "refused")

Ordinaries == {Get, Post, Proxied, Closing(Get), Closing(Proxied)}
Everything == {Get, Post, Chunked, Proxied, Failing, Malformed, LongHead, LongBody,
               Closing(Post), Upgrading, Refused, Closing(Refused)}
Pipelined == {Get, Post}
Sockets == {Get, Upgrading}

\* Any two requests; three ordinary ones.
Upto(n, kinds) == UNION {[1 .. m -> kinds] : m \in 0 .. n}
OneOfEverything == Upto(2, Everything) \cup Upto(3, Ordinaries)
AllKinds == Everything \cup Ordinaries
TwoPipelined == Upto(2, Pipelined)
TwoWithSocket == Upto(2, Sockets)

Results == {"data", "close", "error"}
EveryResult == Results \cup {"nothing", "void"}
EveryFault == {"abort", "timeout", "limit"}
NoFault == {}
=============================================================================
