------------------------------- MODULE Headers -------------------------------
(***************************************************************************)
(* RequestHeader and ResponseHeader of src/header.go: what their           *)
(* operations make of a header, how a header is parsed and how it is       *)
(* written.  A header is a record with the fields of its type; keys are    *)
(* always normalised (disableNormalizing is false).  The wording of status *)
(* lines and dates is left out.                                            *)
(***************************************************************************)
EXTENDS HeaderScanner, Cookies, ArgsList

ContentType      == B("Content-Type")
ContentLength    == B("Content-Length")
TransferEncoding == B("Transfer-Encoding")
Connection       == B("Connection")
Date             == B("Date")
Close     == B("close")
KeepAlive == B("keep-alive")
Upgrade   == B("Upgrade")
Chunked   == B("chunked")
Identity  == B("identity")

\* The headers that have a field of their own.
Fields == [request  |-> B("Host") :> "host" @@ ContentType :> "contentType"
                          @@ B("User-Agent") :> "userAgent",
           response |-> ContentType :> "contentType" @@ B("Server") :> "server"]
CookieName == [request |-> B("Cookie"), response |-> B("Set-Cookie")]

Common == [noHTTP11 |-> FALSE, connectionClose |-> FALSE, contentLength |-> 0,
           contentLengthBytes |-> <<>>, contentType |-> <<>>, h |-> <<>>, cookies |-> <<>>]

NewRequest == Common @@
    [kind |-> "request", method |-> <<>>, proto |-> <<>>, requestURI |-> <<>>, host |-> <<>>,
     userAgent |-> <<>>, cookiesCollected |-> FALSE, rawHeaders |-> <<>>,
     path |-> <<>>, hostName |-> <<>>, upgrade |-> FALSE]

NewResponse == Common @@
    [kind |-> "response", statusCode |-> 0, server |-> <<>>,
     noDefaultContentType |-> FALSE, noDefaultDate |-> FALSE]

\* Reset: path, hostName and upgrade stay as the last request left them.
Reset(h) ==
    IF h.kind = "response" THEN NewResponse
    ELSE [NewRequest EXCEPT !.path = h.path, !.hostName = h.hostName, !.upgrade = h.upgrade]

CopyTo(h, dst) ==
    IF h.kind = "response" THEN h
    ELSE [h EXCEPT !.path = dst.path, !.hostName = dst.hostName, !.upgrade = dst.upgrade]

\* The accessors that have a default.
Default(b, default) == IF b = <<>> THEN default ELSE b
Method(h)     == Default(h.method, B("GET"))
Protocol(h)   == Default(h.proto, HTTP11)
RequestURI(h) == Default(h.requestURI, B("/"))
StatusCode(h) == IF h.statusCode = 0 THEN 200 ELSE h.statusCode
ContentTypeOf(h) ==
    IF h.kind = "request" \/ h.noDefaultContentType THEN h.contentType
    ELSE Default(h.contentType, B("text/html"))
-----------------------------------------------------------------------------
(***************************************************************************)
(* Operations.                                                             *)
(***************************************************************************)
PutArg(h, key, value) == [h EXCEPT !.h = SetArg(@, KeyValue(key, value))]

SetConnectionClose(h) == [h EXCEPT !.connectionClose = TRUE]

ResetConnectionClose(h) ==
    IF h.connectionClose THEN [h EXCEPT !.connectionClose = FALSE, !.h = DelAllArgs(@, Connection)]
    ELSE h

\* Responses to which no body belongs: SetContentLength leaves them alone.
MustSkipContentLength(h) ==
    h.kind = "response" /\ (StatusCode(h) \in {204, 304} \/ StatusCode(h) \in 100 .. 199)

\* Mutant: the transfer encoding of an earlier length stays.
KeepEncoding(h, n) ==
    LET length == [h EXCEPT !.contentLength = n,
                            !.contentLengthBytes = IF n >= 0 THEN AppendUint(n) ELSE <<>>]
    IN  IF MustSkipContentLength(h) THEN h
        ELSE IF n >= 0 THEN length ELSE PutArg(length, TransferEncoding, Chunked)

\* -1 is for chunks, -2 for a response that ends with its connection.
SetContentLength(h, n) ==
    LET length == [h EXCEPT !.contentLength = n,
                            !.contentLengthBytes = IF n >= 0 THEN AppendUint(n) ELSE <<>>]
    IN  IF MustSkipContentLength(h) THEN h
        ELSE IF n >= 0 THEN [length EXCEPT !.h = DelAllArgs(@, TransferEncoding)]
        ELSE IF n = -2 /\ h.kind = "response"
        THEN PutArg(SetConnectionClose(length), TransferEncoding, Identity)
        ELSE PutArg(length, TransferEncoding, Chunked)

\* The cookies of a request are taken out of its headers when they are first asked for.
CollectCookies(h) ==
    LET isCookie(kv) == SameButCase(kv.key, CookieName.request)
    IN  IF h.cookiesCollected THEN h
        ELSE [h EXCEPT !.cookiesCollected = TRUE,
                       !.h = SelectSeq(@, LAMBDA kv : ~isCookie(kv)),
                       !.cookies = FoldLeft(LAMBDA c, kv : ParseRequestCookies(c, kv.value), @,
                                            SelectSeq(h.h, isCookie))]

SetCookie(h, key, value) ==
    [CollectCookies(h) EXCEPT !.cookies = SetArg(@, KeyValue(key, value))]
SetResponseCookie(h, cookie) ==
    [h EXCEPT !.cookies = SetArg(@, KeyValue(cookie.key, AppendCookie(cookie)))]

Collected(h) == IF h.kind = "request" THEN CollectCookies(h) ELSE h
DelCookie(h, key) == [Collected(h) EXCEPT !.cookies = DelAllArgs(@, key)]
DelAllCookies(h)  == [Collected(h) EXCEPT !.cookies = <<>>]

\* A cookie header that is set is one more.
AddCookieHeader(h, value) ==
    IF h.kind = "request" THEN [CollectCookies(h) EXCEPT !.cookies = ParseRequestCookies(@, value)]
    ELSE [h EXCEPT !.cookies = Append(@, KeyValue(GetCookieKey(value), value))]

SetCanonical(h, key, value) ==
    LET n == ParseUint(value, IntSize)
    IN  CASE key \in DOMAIN Fields[h.kind] -> [h EXCEPT ![Fields[h.kind][key]] = value]
          [] key = CookieName[h.kind] -> AddCookieHeader(h, value)
          [] key = ContentLength ->
               IF n.ok THEN [h EXCEPT !.contentLength = n.v, !.contentLengthBytes = value] ELSE h
          [] key = Connection ->
               IF value = Close THEN SetConnectionClose(h)
               ELSE PutArg(ResetConnectionClose(h), key, value)
          [] key = TransferEncoding \/ (h.kind = "response" /\ key = Date) -> h
          [] OTHER -> PutArg(h, key, value)

\* A value has no ends of lines.
Set(h, key, value) ==
    SetCanonical(h, NormalizeKey(key),
                 [i \in DOMAIN value |-> IF value[i] \in {CR, LF} THEN " " ELSE value[i]])

\* Add asks for no field: what it adds is written beside it, ends of lines included.
Add(h, key, value) == [h EXCEPT !.h = Append(@, KeyValue(NormalizeKey(key), value))]

Del(h, key) ==
    LET name == NormalizeKey(key)
        rest == [h EXCEPT !.h = DelAllArgs(@, name)]
    IN  CASE name \in DOMAIN Fields[h.kind] -> [rest EXCEPT ![Fields[h.kind][name]] = <<>>]
          [] name = CookieName[h.kind] -> [rest EXCEPT !.cookies = <<>>]
          [] name = ContentLength -> [rest EXCEPT !.contentLength = 0, !.contentLengthBytes = <<>>]
          [] name = Connection -> [rest EXCEPT !.connectionClose = FALSE]
          [] OTHER -> rest

Peek(h, key) ==
    LET name == NormalizeKey(key)
    IN  CASE name = ContentType -> ContentTypeOf(h)
          [] name # ContentType /\ name \in DOMAIN Fields[h.kind] -> h[Fields[h.kind][name]]
          [] name = Connection /\ h.connectionClose -> Close
          [] name = ContentLength -> h.contentLengthBytes
          [] h.kind = "response" /\ name = CookieName.response -> ResponseCookieBytes(h.cookies)
          [] h.kind = "request" /\ name = CookieName.request /\ h.cookiesCollected ->
               RequestCookieBytes(h.cookies)
          [] OTHER -> PeekArg(h.h, name, <<>>)

ConnectionUpgrade(h) == HasValue(Peek(h, Connection), Upgrade)

\* SetContentRange and SetByteRange; a negative position is none.
SetContentRange(h, start, end, length) ==
    SetCanonical(h, B("Content-Range"),
                 B("bytes ") \o AppendUint(start) \o <<"-">> \o AppendUint(end)
                   \o <<"/">> \o AppendUint(length))
SetByteRange(h, start, end) ==
    LET position(n) == IF n >= 0 THEN AppendUint(n) ELSE <<>>
    IN  SetCanonical(h, B("Range"),
                     B("bytes=") \o position(start) \o <<"-">>
                       \o position(IF start >= 0 THEN end ELSE -start))
-----------------------------------------------------------------------------
(***************************************************************************)
(* Writing.                                                                *)
(***************************************************************************)
HeaderLine(key, value) == key \o B(": ") \o value \o CRLF
OptionalLine(key, value) == IF value = <<>> THEN <<>> ELSE HeaderLine(key, value)
HeaderLines(h) == FlattenSeq([i \in DOMAIN h |-> HeaderLine(h[i].key, h[i].value)])
CloseLine(h) == IF h.connectionClose THEN HeaderLine(Connection, Close) ELSE <<>>

\* What a request with a body has for want of a type.
RequestContentType(h) ==
    IF Method(h) \in {B("GET"), B("HEAD")} THEN h.contentType
    ELSE Default(h.contentType, B("application/x-www-form-urlencoded"))

AppendRequest(h) ==
    Method(h) \o <<" ">> \o RequestURI(h) \o <<" ">> \o Protocol(h) \o CRLF
      \o OptionalLine(B("User-Agent"), h.userAgent) \o OptionalLine(B("Host"), h.host)
      \o OptionalLine(ContentType, RequestContentType(h))
      \o OptionalLine(ContentLength, h.contentLengthBytes)
      \o HeaderLines(h.h)
      \o (IF h.cookies = <<>> THEN <<>>
          ELSE HeaderLine(CookieName.request, RequestCookieBytes(h.cookies)))
      \o CloseLine(h) \o CRLF

\* The date of a response is the server's own.
AppendResponse(h) ==
    LET isKept(kv) == h.noDefaultDate \/ kv.key # Date
    IN  HTTP11 \o <<" ">> \o AppendUint(StatusCode(h)) \o B(" OK") \o CRLF
          \o OptionalLine(B("Server"), h.server)
          \o (IF h.noDefaultDate THEN <<>> ELSE HeaderLine(Date, B("now")))
          \o (IF h.contentLength = 0 /\ h.contentType = <<>> THEN <<>>
              ELSE OptionalLine(ContentType, ContentTypeOf(h)))
          \o OptionalLine(ContentLength, h.contentLengthBytes)
          \o HeaderLines(SelectSeq(h.h, isKept))
          \o HeaderLines([i \in DOMAIN h.cookies |->
                            KeyValue(CookieName.response, h.cookies[i].value)])
          \o CloseLine(h) \o CRLF

AppendHeader(h) == IF h.kind = "request" THEN AppendRequest(h) ELSE AppendResponse(h)
-----------------------------------------------------------------------------
(***************************************************************************)
(* Parsing.                                                                *)
(***************************************************************************)
\* readRawHeaders: up to the empty line, as it was received.
ReadRawHeaders(b) ==
    LET ends(i) == \/ b[i] = LF /\ (i = 1 \/ b[i - 1] = LF)
                   \/ b[i] = LF /\ b[i - 1] = CR /\ (i = 2 \/ b[i - 2] = LF)
        end     == SelectInSeq([i \in DOMAIN b |-> i], ends)
    IN  [ok |-> end # 0, raw |-> IF end \in {1, 2} THEN <<>> ELSE SubSeq(b, 1, end)]

\* The length of a body, unless it comes in chunks.
LengthField(r, kv) ==
    LET n == ParseUint(kv.value, IntSize)
    IN  CASE r.h.contentLength = -1 -> r
          [] r.h.contentLength # -1 /\ n.ok ->
               [r EXCEPT !.h = [@ EXCEPT !.contentLength = n.v, !.contentLengthBytes = kv.value]]
          [] OTHER -> [h |-> [r.h EXCEPT !.contentLength = -2], err |-> r.err \/ r.h.kind = "request"]

ConnectionField(h, value) ==
    LET isClose == IF h.kind = "response" THEN value = Close
                   ELSE ~ContainsButCase(value, KeepAlive)
        next == [h EXCEPT !.connectionClose = isClose,
                          !.h = IF isClose THEN @ ELSE Append(@, KeyValue(Connection, value))]
    IN  IF h.kind = "request" /\ ContainsButCase(value, Upgrade)
        THEN [next EXCEPT !.upgrade = TRUE] ELSE next

EncodingField(r, value) ==
    IF value = Identity \/ (r.h.kind = "response" /\ value = <<>>) THEN r
    ELSE [r EXCEPT !.h = PutArg([@ EXCEPT !.contentLength = -1], TransferEncoding, Chunked)]

\* The host without its port is kept from a host with a port.
HostField(h, value) ==
    [h EXCEPT !.host = value,
              !.hostName = IF IndexByte(value, ":") > 1 THEN Before(value, IndexByte(value, ":")) ELSE @]

\* Mutant: of two lines with a key the second is kept.
OtherOnce(h, kv) == PutArg(h, kv.key, kv.value)

\* A header without a field of its own is kept, however often its key comes.
OtherField(h, kv) == [h EXCEPT !.h = Append(@, kv)]

\* One round of parseHeaders.
Field(r, kv) ==
    LET is(name) == SameButCase(kv.key, name)
        own == {name \in DOMAIN Fields[r.h.kind] : is(name)}
        isRequest == r.h.kind = "request"
    IN  CASE ~isRequest /\ kv.key = <<>> -> r
          [] isRequest /\ Range(kv.key) \cap {" ", "\t"} # {} -> [r EXCEPT !.err = TRUE]
          [] isRequest /\ is(B("Host")) -> [r EXCEPT !.h = HostField(@, kv.value)]
          [] own \ {B("Host")} # {} ->
               [r EXCEPT !.h[Fields[r.h.kind][CHOOSE name \in own : TRUE]] = kv.value]
          [] is(ContentLength) -> LengthField(r, kv)
          [] is(Connection) -> [r EXCEPT !.h = ConnectionField(@, kv.value)]
          [] is(TransferEncoding) -> EncodingField(r, kv.value)
          [] ~isRequest /\ is(CookieName.response) -> [r EXCEPT !.h = AddCookieHeader(@, kv.value)]
          [] OTHER -> [r EXCEPT !.h = OtherField(@, kv)]

\* What follows the loop: a connection that is older than HTTP/1.1 ends with the
\* message unless it says otherwise,
CloseIfOld(h) ==
    IF h.noHTTP11 /\ ~h.connectionClose
    THEN [h EXCEPT !.connectionClose = ~HasValue(PeekArg(h.h, Connection, <<>>), KeepAlive)]
    ELSE h

\* Mutant: a length before the transfer encoding is written with it.
LengthKept(h) == CloseIfOld(h)

\* ... and a response without a length ends with its connection.
Completed(h) ==
    LET length   == IF h.contentLength < 0 THEN [h EXCEPT !.contentLengthBytes = <<>>] ELSE h
        untilEnd == /\ h.kind = "response" /\ h.contentLength = -2
                    /\ ~ConnectionUpgrade(h) /\ ~MustSkipContentLength(h)
    IN  CloseIfOld(IF untilEnd
                   THEN PutArg(SetConnectionClose(length), TransferEncoding, Identity)
                   ELSE length)

\* The fields of the first line.
FirstLineOf(h, line) ==
    IF h.kind = "response"
    THEN [h EXCEPT !.statusCode = line.statusCode, !.noHTTP11 = line.noHTTP11]
    ELSE [h EXCEPT !.method = line.method, !.requestURI = line.requestURI, !.path = line.path,
                   !.proto = line.proto, !.noHTTP11 = line.noHTTP11]

\* parseHeaders: the fields that were scanned.
ParseHeaders(h, scan) ==
    LET n == Len(scan.fields)
        read[k \in 0 .. n] ==
            IF k = 0 THEN [h |-> [h EXCEPT !.contentLength = -2], err |-> scan.end.err]
            ELSE Field(read[k - 1], scan.fields[k])
    IN  read[n]

\* ... and what is left of rest.
Parsed(r, rest, end) ==
    IF r.err THEN [ok |-> FALSE]
    ELSE [ok |-> TRUE, h |-> Completed(r.h),
          rest |-> IF r.h.kind = "request" THEN RestOfRequest(rest, end) ELSE RestOfResponse(rest, end)]

ParseLines(h, rest, scan) == Parsed(ParseHeaders(h, scan), rest, scan.end)

\* parse, when the first line is known; a request keeps a copy of the lines.
ParseRest(old, line, rest) ==
    LET h == FirstLineOf(Reset(old), line)
        raw == ReadRawHeaders(rest)
    IN  IF ~line.ok \/ (h.kind = "request" /\ ~raw.ok) THEN [ok |-> FALSE]
        ELSE ParseLines(IF h.kind = "request" THEN [h EXCEPT !.rawHeaders = raw.raw] ELSE h,
                        rest, Scan(rest))

\* Reset and parse: the header, or that there is an error, and what is left of b.
Parse(old, b) ==
    LET first == FirstLine(b)
    IN  IF ~first.ok THEN [ok |-> FALSE]
        ELSE ParseRest(old, IF old.kind = "request" THEN RequestFields(first.line)
                            ELSE StatusFields(first.line),
                       From(b, first.size))
=============================================================================
