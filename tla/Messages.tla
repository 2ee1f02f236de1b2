------------------------------- MODULE Messages -------------------------------
(***************************************************************************)
(* The life of a message in the gateway: its bytes are received in pieces, *)
(* the matcher looks for the end of its header (procHeader of src/proc.go  *)
(* and src/proxy.go) or of its chunks (procBody of src/proxy.go), the      *)
(* header is parsed and taken from the buffer, a handler changes it        *)
(* through the operations of src/header.go, and it is written for the next *)
(* reader, who parses it again.  The same module asks of the texts in a    *)
(* header -- cookies, the request URI and its query -- that parsing and    *)
(* writing them agree.                                                     *)
(***************************************************************************)
EXTENDS Headers, Uri

CONSTANTS
    Streams,    \* names of the messages that may arrive
    Stream,     \* Stream[s]: kind ("request", "response", "chunks", "fresh request",
                \*   "fresh response"), start, pieces, max, ends
    HeaderKeys, HeaderValues,   \* what handlers set, by kind
    Lengths,    \* lengths that handlers set, by kind
    MaxOps,     \* bound on the operations of a handler, by stream
    Updates     \* URIs that a URI is updated with: none has "//"

\* Texts are bytes.  What a handler sets as a length is no less than -2, and is read
\* as it was written, which a number that int cannot hold would not be.
ASSUME MessagesAssumption ==
    /\ \A s \in Streams :
         LET text == Stream[s] IN
         /\ text.kind \in {"request", "response", "chunks", "fresh request", "fresh response"}
         /\ text.start \in Seq(Byte) /\ text.pieces \subseteq Seq(Byte) /\ text.ends \subseteq Seq(Byte)
         /\ text.max \in Int /\ text.max >= -1 /\ MaxOps[s] \in Nat
         /\ text.kind \in {"fresh request", "fresh response"} => text.start = <<>>
    /\ \A kind \in {"request", "response"} : \A n \in Lengths[kind] :
         /\ n \in Int /\ n >= -2
         /\ n >= 0 => ParseUint(AppendUint(n), IntSize) = [v |-> n, ok |-> TRUE]

VARIABLES
    stream,     \* which message this is
    phase,      \* "receiving", then "parsed" or "refused"; "matched" for chunks
    received,   \* all bytes that have arrived
    pieces,     \* how many pieces that were
    matcher,    \* expectedChar, and whether the end was found
    header,     \* RequestHeader or ResponseHeader
    left,       \* what the parser leaves in the buffer
    operations, \* how often the handler changed the header
    byHand      \* the handler tampered with what the header manages

vars == <<stream, phase, received, pieces, matcher, header, left, operations, byHand>>

Kind == Stream[stream].kind
Flag == IF Kind = "chunks" THEN ChunkDataEndFlag ELSE HeaderEndFlag
Fresh == {"fresh request", "fresh response"}

Init ==
    /\ stream \in Streams
    /\ phase = IF Kind \in Fresh THEN "parsed" ELSE "receiving"
    /\ received = Stream[stream].start
    /\ pieces = 0
    /\ matcher = Match(Unmatched, received, Flag)
    /\ header = IF Kind \in {"request", "fresh request"} THEN NewRequest ELSE NewResponse
    /\ left = <<>>
    /\ operations = 0
    /\ byHand = FALSE
-----------------------------------------------------------------------------
(***************************************************************************)
(* Receiving and parsing.                                                  *)
(***************************************************************************)
\* A read ends anywhere; the scan for the flag goes on where it stopped.
Receive(piece) ==
    /\ phase = "receiving" /\ ~matcher.found
    /\ received' = received \o piece
    /\ matcher' = Match(matcher, piece, Flag)
    /\ UNCHANGED <<stream, phase, header, left, operations, byHand>>

ReceivePiece ==
    /\ pieces < Stream[stream].max
    /\ \E piece \in Stream[stream].pieces : Receive(piece)
    /\ pieces' = pieces + 1

\* The end of the header, and what follows it.
ReceiveEnd ==
    /\ pieces <= Stream[stream].max
    /\ \E end \in Stream[stream].ends : Receive(end)
    /\ pieces' = Stream[stream].max + 1

Take(r) ==
    /\ phase' = IF r.ok THEN "parsed" ELSE "refused"
    /\ header' = IF r.ok THEN r.h ELSE header
    /\ left' = IF r.ok THEN r.rest ELSE <<>>

\* A header is parsed when its end is found; a message that cannot be parsed ends
\* its connection.
ParseMessage ==
    /\ phase = "receiving" /\ matcher.found /\ Kind # "chunks"
    /\ Take(Parse(header, received))
    /\ UNCHANGED <<stream, received, pieces, matcher, operations, byHand>>
-----------------------------------------------------------------------------
(***************************************************************************)
(* A handler's operations.                                                 *)
(***************************************************************************)
\* Transfer-Encoding is the header's own business: a length set beside it, or its
\* removal, is the handler's.  So is a second line for what has a field, and a value of
\* several lines, which Add writes as it is.
Managed(key) == key \in {ContentLength, TransferEncoding}
HasEncoding == HasArg(header.h, TransferEncoding)

Operate(h, tampers) ==
    /\ phase = "parsed" /\ operations < MaxOps[stream]
    /\ header' = h
    /\ operations' = operations + 1
    /\ byHand' = (byHand \/ tampers)
    /\ UNCHANGED <<stream, phase, received, pieces, matcher, left>>

ChangeHeader ==
    \E key \in HeaderKeys[header.kind] :
        \/ \E value \in HeaderValues[key] :
             \/ Operate(Set(header, key, value), key = ContentLength /\ HasEncoding)
             \/ Operate(Add(header, key, value),
                        \/ Managed(key) \/ key = Connection \/ key \in DOMAIN Fields[header.kind]
                        \/ LF \in Range(value))
        \/ Operate(Del(header, key), Managed(key) /\ HasEncoding)

ChangeFraming ==
    \/ \E n \in Lengths[header.kind] : Operate(SetContentLength(header, n), FALSE)
    \/ Operate(SetConnectionClose(header), FALSE)
    \/ Operate(ResetConnectionClose(header), FALSE)
    \/ Operate(IF header.kind = "request" THEN SetByteRange(header, -5, 0)
               ELSE SetContentRange(header, 0, 4, 10), FALSE)
    \/ Operate(CopyTo(header, IF header.kind = "request" THEN NewRequest ELSE NewResponse), FALSE)

ChangeCookies ==
    \E key \in {B("a"), B("b")} :
        \/ header.kind = "request" /\ Operate(SetCookie(header, key, B("s")), FALSE)
        \/ header.kind = "response"
           /\ LET cookie == [ResetCookie EXCEPT !.key = key]
              IN  Operate(SetResponseCookie(header, SetSameSite(cookie, B("None"))), FALSE)
        \/ Operate(DelCookie(header, key), FALSE)
        \/ Operate(DelAllCookies(header), FALSE)

Next ==
    \/ ReceivePiece \/ ReceiveEnd \/ ParseMessage
    \/ ChangeHeader \/ ChangeFraming \/ ChangeCookies

Spec == Init /\ [][Next]_vars
-----------------------------------------------------------------------------
(***************************************************************************)
(* Receiving.                                                              *)
(***************************************************************************)
\* Every variable has its type.
TypeOK ==
    /\ stream \in Streams /\ pieces \in 0 .. Stream[stream].max + 1
    /\ phase \in {"receiving", "parsed", "refused"}
    /\ matcher \in [expectedChar : 0 .. Len(Flag), found : BOOLEAN]
    /\ header.kind \in {"request", "response"}
    /\ header.contentLength >= -2
    /\ header.contentLengthBytes # <<>> => ParseUint(header.contentLengthBytes, IntSize)
                                             = [v |-> header.contentLength, ok |-> TRUE]
    /\ operations <= MaxOps[stream]

\* However the bytes are cut into reads: the flag is found, unless a beginning of the
\* flag comes right before it; and what is found is the flag.
FlagFound ==
    LET flag  == Flag
        found == Occurrences(received, flag)
        isClean(i) == \A k \in 1 .. Len(flag) - 1 :
                        ~IsSuffix(SubSeq(flag, 1, k), Before(received, i))
    IN  /\ (\E i \in found : isClean(i)) => matcher.found
        /\ matcher.found => found # {}

\* The header lines of a text without its first line: ends at the empty line.
RawLines(b) ==
    LET cut   == Split(b, LF)
        lines == [i \in DOMAIN cut |-> TrimRight(cut[i], CR)]
        end   == SelectInSeq(lines, LAMBDA line : line = <<>>)
    IN  SubSeq(lines, 1, end - 1)

\* Every line but the continued ones, which belong to the line before.
Continues(line) == Head(line) \in {" ", "\t"} /\ IndexByte(line, ":") = 0
Unfolded(b) ==
    LET untabbed(line) == IF Head(line) = "\t" THEN <<" ">> \o Tail(line) ELSE line
    IN  FoldLeft(LAMBDA lines, line :
                     IF lines # <<>> /\ Continues(line)
                     THEN [lines EXCEPT ![Len(lines)] = @ \o untabbed(line)]
                     ELSE Append(lines, line),
                 <<>>, RawLines(b))

\* The scanner finds in a header the key and the value of each of its lines, lines
\* that are continued included, or that a line has no colon; but of a continued line
\* that ends with a space it takes the space for the beginning of the next line.
HeaderFields ==
    phase \in {"parsed", "refused"} /\ FirstLine(received).ok =>
        LET body  == From(received, FirstLine(received).size)
            lines == Unfolded(body)
            scan  == Scan(body)
            raw   == RawLines(body)
        IN  (\A i \in DOMAIN raw : Continues(raw[i]) => Last(raw[i]) # " ") =>
            /\ scan.end.err <=> \E i \in DOMAIN lines : IndexByte(lines[i], ":") = 0
            /\ ~scan.end.err =>
                  scan.fields = [i \in DOMAIN lines |->
                      LET colon == IndexByte(lines[i], ":")
                      IN  KeyValue(NormalizeKey(Before(lines[i], colon)),
                                   Trim(From(lines[i], colon), " "))]

\* The line behind the end of line at i goes on with the value before it.
IsContinued(b, i) ==
    /\ b[i] = LF /\ i < Len(b) /\ b[i + 1] \in {" ", "\t"}
    /\ ":" \notin Range(UpTo(From(b, i), LF))

\* Of a header without continued lines the parser takes exactly what its raw copy
\* holds, up to the empty line, and leaves the body and what is pipelined behind it.
RestIsBody ==
    phase = "parsed" /\ received # <<>> =>
        LET body == From(received, FirstLine(received).size)
            raw  == ReadRawHeaders(body)
            size == Len(raw.raw)
            last == IF raw.ok THEN size - 1 ELSE Len(body)
        IN  (\A i \in 1 .. last : ~IsContinued(body, i)) =>
                left = From(body, IF size = 0 THEN IndexByte(body, LF) ELSE size)
-----------------------------------------------------------------------------
(***************************************************************************)
(* Forwarding.                                                             *)
(***************************************************************************)
\* What the next reader makes of the header that is written.
Reread == Parse(header, AppendHeader(header))

CookieLines(h) == SelectSeq(h.h, LAMBDA kv : SameButCase(kv.key, CookieName[h.kind]))

\* All cookies of a header in the order they are written.
CookiesOf(h) ==
    IF h.kind = "request"
    THEN FoldLeft(LAMBDA c, kv : ParseRequestCookies(c, kv.value), <<>>, CookieLines(h)) \o h.cookies
    ELSE [i \in DOMAIN CookieLines(h) |-> CookieLines(h)[i].value]
           \o [i \in DOMAIN h.cookies |-> h.cookies[i].value]

\* What a header says but for its framing and the upgrade, which goes no further than
\* the gateway; the date of a response is the gateway's.
Contents(h) ==
    << IF h.kind = "request" THEN <<Method(h), RequestURI(h), Protocol(h), h.host, h.userAgent,
                                    RequestContentType(h)>>
       ELSE <<StatusCode(h), h.server, ContentTypeOf(h)>>,
       CookiesOf(h),
       SelectSeq(h.h, LAMBDA kv : ~SameButCase(kv.key, CookieName[h.kind])
                                    /\ kv.key \notin {TransferEncoding, Date}) >>

\* What is forwarded is what was received and what the handler made of it: every
\* header once, in its order, every cookie once, wherever it is kept.
Forwarded ==
    phase = "parsed" /\ ~byHand =>
        LET again == Reread IN again.ok /\ Contents(again.h) = Contents(header)

\* The length of the body the writer goes by; a request without one has none.
BodyLength(h) == IF h.kind = "request" /\ h.contentLength = -2 THEN 0 ELSE h.contentLength

\* Writer and reader agree on where the body of a message ends, and on whether its
\* connection does, for every header whose length was ever set.
FramingKept ==
    phase = "parsed" /\ ~byHand =>
        LET again == Reread.h IN
        /\ header.contentLengthBytes # <<>> \/ header.contentLength < 0 \/ header.kind = "request"
             => BodyLength(again) = BodyLength(header)
        /\ header.connectionClose => again.connectionClose
-----------------------------------------------------------------------------
(***************************************************************************)
(* Texts in a header.                                                      *)
(***************************************************************************)
\* A cookie that can be written: it has a name, or no "=" in its value, and its value
\* is not in quotes or between spaces, which are taken off whenever it is read.
Writable(kv) ==
    /\ kv.key # <<>> \/ IndexByte(kv.value, "=") = 0
    /\ kv.value = Trim(kv.value, " ")
    /\ Len(kv.value) > 1 => ~(Head(kv.value) = "\"" /\ Last(kv.value) = "\"")

CookieKept(r) ==
    r.state = "ok" /\ AppendCookie(r.c) # <<>> /\ Writable(r.c)
      /\ Writable(KeyValue(<<"k">>, r.c.path)) =>
        ParseCookie(AppendCookie(r.c)) =
          [state |-> "ok", c |-> [r.c EXCEPT !.expire = IF r.c.maxAge > 0 THEN <<>> ELSE @]]

\* Cookies of a request, and the attributes of a response's cookie, that are read,
\* written and read again are the same; but an age hides an expiry.
CookieRoundTrip ==
    phase = "parsed" =>
        LET cookies == CookiesOf(header) IN
        IF header.kind = "request"
        THEN (\A i \in DOMAIN cookies : Writable(cookies[i]))
                => ParseRequestCookies(<<>>, RequestCookieBytes(cookies)) = cookies
        ELSE \A i \in DOMAIN cookies : CookieKept(ParseCookie(cookies[i]))

Target == ParseURI(<<>>, RequestURI(header), FALSE)
\* A host with a second "@" is cut again when it is read again; a handler's operations
\* leave the target alone.
HasTarget ==
    /\ phase = "parsed" /\ operations = 0 /\ header.kind = "request"
    /\ LET target == Target IN target.ok /\ IndexByte(target.u.host, "@") = 0

\* A decoded path by its names: empty ones and "." are left out, ".." takes the name
\* before it; the last one may be empty or ".".
NormalForm(path) ==
    LET names == Split(path, "/")
        walk  == FoldLeft(LAMBDA p, name : CASE name \in {<<>>, B(".")} -> p
                                             [] name = B("..") -> SubSeq(p, 1, Len(p) - 1)
                                             [] OTHER -> Append(p, name),
                          <<>>, Front(names))
        all   == IF Last(names) = B("..") THEN Append(SubSeq(walk, 1, Len(walk) - 1), <<>>)
                 ELSE Append(walk, Last(names))
    IN  FlattenSeq([i \in DOMAIN all |-> <<"/">> \o all[i]])

IsNormal(original, path) ==
    LET decoded == Unquoted(original, FALSE)
    IN  path = NormalForm(IF decoded # <<>> /\ Head(original) = "/" THEN decoded
                          ELSE <<"/">> \o decoded)

\* A path is decoded once and then normalised, never beyond the root: no escape,
\* dot or doubled slash that hides another is left.
PathNormal ==
    HasTarget => LET u == Target.u IN IsNormal(u.pathOriginal, u.path)

Parts(u) == <<u.scheme, u.host, u.path, u.queryString, u.hash>>
SameURI(u, again) ==
    again.ok /\ Parts(again.u) = Parts([u EXCEPT !.scheme = IF @ = <<>> THEN B("http") ELSE @])

\* The full form of a URI is parsed to the same URI, but for the user.
UriRoundTrip ==
    HasTarget => LET u == Target.u IN SameURI(u, ParseURI(<<>>, FullURI(u), FALSE))

QueryKept(u) ==
    LET numbered(k) == SetArg(u.queryArgs, UintArg(u.queryArgs[k].key, 255))
    IN  /\ \A k \in DOMAIN u.queryArgs :
              GetUint(ParseArgs(AppendArgs(numbered(k))), u.queryArgs[k].key, IntSize)
                = [v |-> 255, ok |-> TRUE]
        /\ ParseArgs(AppendArgs(u.queryArgs)) = u.queryArgs
        /\ ParseQueryArgs(ParseURI(<<>>, FullURI(u), FALSE).u).queryArgs
              = (IF u.queryArgs = <<>> THEN ParseArgs(u.queryString) ELSE u.queryArgs)

\* Arguments that are read from a query, written and read again are the same; so is a
\* number that is set in the place of one.
QueryRoundTrip ==
    HasTarget => QueryKept(ParseQueryArgs(Target.u))

Resolved(u, new, v) ==
    LET local == UpTo(UpTo(new, "#"), "?")
        dir   == SubSeq(u.path, 1, LastIndexByte(u.path, "/"))
    IN  /\ v.host = u.host
        /\ v.scheme \in {u.scheme, B("http")}
        /\ v.path = (IF local = <<>> THEN u.path
                     ELSE NormalForm((IF Head(local) = "/" THEN <<>> ELSE dir)
                                       \o Unquoted(local, FALSE)))
        /\ v.hash = (IF Head(new) = "?" THEN u.hash ELSE After(new, "#"))
        /\ v.queryString = (CASE Head(new) = "#" -> u.queryString
                              [] Head(new) = "?" -> Tail(new)
                              [] OTHER -> After(UpTo(new, "#"), "?"))

\* An update without "//" keeps scheme and host, and replaces the path, a part of it,
\* the query or the hash as the comment of UpdateBytes says; an update of the query is
\* not cut at a "#".
UpdateResolves ==
    HasTarget => LET u == Target.u IN
                 \A new \in Updates : Resolved(u, new, Update(u, new))
=============================================================================
