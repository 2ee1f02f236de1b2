------------------------------ MODULE MCMessages ------------------------------
(***************************************************************************)
(* Constants of the Messages run, and Args objects (ArgsTable) beside the  *)
(* messages: they are used while the stream that brings nothing arrives.   *)
(***************************************************************************)
EXTENDS Messages

CONSTANTS Objects, Keys, Values, MaxLen
VARIABLES slots, len, heap, del

Table == INSTANCE ArgsTable

Text(kind, start, lines, max, ends) ==
    [kind |-> kind, start |-> B(start), pieces |-> {B(line) : line \in lines}, max |-> max,
     ends |-> {B(end) : end \in ends}]

Finish  == {"\r\n", "X: v\r\n\r\nbody\r\n"}
GetText == "GET "
Version == " HTTP/1.1\r\n\r\n"

MCStream ==
    \* Nothing arrives.
    "idle" :> Text("request", "", {}, -1, {})
    \* Any lines of a header: bodies of all kinds, lines that go on, lines that are wrong.
    @@ "request" :> Text("request", "GET /a HTTP/1.1\r\n",
           {"Host: h:80\r\n", "content-length: 3\r\n", "Content-Length: x\r\n",
            "Transfer-Encoding: chunked\r\n", "Transfer-Encoding: identity\r\n",
            "Connection: close\r\n", "Connection: Keep-Alive, Upgrade\r\n",
            "Cookie: a=1; b=2\r\n", "x-key:  v \n", " \tgo: on\r\n", "\tgo on\r\n",
            " on \r\n", "bad\r\n"}, 3, Finish)
    @@ "response" :> Text("response", "HTTP/1.1 200 OK\r\n",
           {"Server: s\r\n", "Content-Length: 3\r\n", "Content-Length: x\r\n",
            "Transfer-Encoding: chunked\r\n", "Connection: close\r\n",
            "Connection: keep-alive\r\n", "Date: d\r\n", "Set-Cookie: a=1\r\n", ": v\r\n",
            " goes on\r\n"}, 3, Finish)
    @@ "old" :> Text("response", "HTTP/1.0 204 None\r\n",
           {"Content-Length: 3\r\n", "Connection: keep-alive\r\n"}, 2, Finish)
    \* First lines.
    @@ "line" :> Text("request", "", {"GET", "POST", " ", "/?", "HTTP/1.1", "HTTP/1.0", "\r\n"}, 4, {"\r\n\r\n"})
    \* The end of a header, and of chunks, byte by byte.
    @@ "bytes"  :> Text("request", "GET / HTTP/1.0", {"\r", "\n", ":", " "}, 6, {})
    @@ "chunks" :> Text("chunks", "0\r", {"0", "a", "\r", "\n"}, 6, {})
    \* Targets, queries and cookies.
    @@ "target" :> Text("request", GetText, {"/", "a", "..", ".", "%2e", "%3F", "?", "#"}, 4,
                        {Version})
    @@ "absolute" :> Text("request", GetText \o "Http:/", {"/", "A", "@", ":", "?", "#"}, 4, {Version})
    @@ "query" :> Text("request", GetText \o "/?", {"a", "=", "&", "+", "%", "3D", "%26"}, 4, {Version})
    @@ "cookies" :> Text("request", "GET / HTTP/1.1\r\nCookie: ", {"a", "=", "; ", " ", "\"", "b=c"}, 4,
                         {"\r\n\r\n"})
    @@ "set-cookie" :> Text("response", "HTTP/1.1 200 OK\r\nSet-Cookie: k=v",
           {"; ", "Path=", "a", " max-age=", "7", ";samesite", "=lax", ";secure;httponly", "\"",
            "; Expires=Tue, 10 Nov 2009 23:00:00 GMT"}, 3, {"\r\n\r\n"})
    \* Headers that a handler changes.
    @@ "handled" :> Text("request", "GET /a HTTP/1.1\r\n",
           {"Transfer-Encoding: chunked\r\n", "Cookie: a=1; b=2\r\n", "Content-Length: 3\r\n"},
           1, {"\r\n"})
    @@ "answered" :> Text("response", "HTTP/1.1 200 OK\r\n",
           {"Transfer-Encoding: chunked\r\n", "Content-Length: 3\r\n", "Set-Cookie: a=1\r\n"},
           1, {"\r\n"})
    @@ "fresh request"  :> Text("fresh request", "", {}, -1, {})
    @@ "fresh response" :> Text("fresh response", "", {}, -1, {})

MCStreams == DOMAIN MCStream

MCMaxOps == [s \in MCStreams |-> CASE s \in {"fresh request", "fresh response"} -> 3
                                  [] s \in {"handled", "answered"} -> 2
                                  [] OTHER -> 0]

MCLengths == [request |-> {-1, 0, 3}, response |-> {-2, -1, 0, 3}]

KeysOfBoth == {ContentLength, TransferEncoding, Connection, B("x-key")}
MCHeaderKeys == [request  |-> KeysOfBoth \cup {B("Host"), B("Cookie")},
                 response |-> KeysOfBoth \cup {B("Server"), B("Set-Cookie")}]
MCHeaderValues == [key \in UNION {MCHeaderKeys[k] : k \in DOMAIN MCHeaderKeys} |->
    CASE key = ContentLength -> {B("5"), B("x")}
      [] key = Connection -> {Close, B("keep-alive")}
      [] key = TransferEncoding -> {Chunked}
      [] key = B("Cookie") -> {B("a=3; c=4")}
      [] key = B("Set-Cookie") -> {B("a=3")}
      [] OTHER -> {B("v\nw"), <<>>}]

MCUpdates == {B(s) : s \in {"c", "../c?q#f", "./", "/c/../d", "?q?#", "#f?#", "/", "%2e%2E/c"}}

MCMaxLen == [o \in Objects |-> IF o = "args" THEN 2 ELSE 1]
-----------------------------------------------------------------------------
tableVars == <<slots, len, heap, del>>

MCInit == Init /\ Table!Init

MCNext ==
    \/ Next /\ UNCHANGED tableVars
    \/ stream = "idle" /\ Table!Next /\ UNCHANGED vars

MCSpec == MCInit /\ [][MCNext]_<<vars, tableVars>>

\* Args objects never share the buffers of an argument: an argument that is written
\* changes no other, however slots are released, moved and taken again.
NoAliasing == Table!NoAliasing

\* An Args object is the list of pairs it promises to be.
ImplementsPairList == Table!ImplementsPairList
=============================================================================
