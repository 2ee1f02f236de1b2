---------------------------- MODULE HttpProcessor ----------------------------
(***************************************************************************)
(* AsyncHttpProcessor of src/proc.go: the life of one client connection.   *)
(* The agent goroutine handles one event at a time: the result of a read,  *)
(* the result of a write, or the resumption of a request that was handed   *)
(* to a DelegationProxy.  It cuts the bytes read into requests, runs the   *)
(* handler of each, writes the responses, and closes the connection.       *)
(*                                                                         *)
(* Connections share nothing but the agent's time and the limiter, so one  *)
(* is enough.  Bytes are tokens: a request is some header tokens, the last *)
(* of which carries the empty line, and some body tokens.                  *)
(***************************************************************************)
EXTENDS Subsequence, SequencesExt

CONSTANTS
    Kinds,          \* the requests a client may send, see Kind
    MaxRequests,    \* requests a client sends on the connection
    Scripts,        \* the sequences of requests a client may send
    MaxHeader,      \* proc.maximumHeaderSize, in tokens
    MaxBody,        \* proc.maximumBodySize, in tokens
    ProxyResults,   \* what a DelegationProxy may resume a client with
    Faults          \* what else may happen: "abort", "timeout", "limit"

Routes == {"local", "fails", "proxy", "malformed", "upgrade", "refused"}

\* `length' is what ContentLength() returns: -1 for chunked, -2 for none.
Kind == [head : Nat \ {0}, body : Nat, length : Nat \cup {-1, -2},
         close : BOOLEAN, route : Routes]

ASSUME ProcessorAssumption ==
    /\ Kinds \subseteq Kind
    /\ MaxRequests \in Nat \ {0} /\ MaxHeader \in Nat /\ MaxBody \in Nat
    /\ Scripts \subseteq Seq(Kinds)
    /\ ProxyResults \subseteq {"data", "close", "error", "nothing", "void"}
    /\ Faults \subseteq {"abort", "timeout", "limit"}

VARIABLES
    asked,      \* the requests the client has sent, in order
    inbound,    \* their tokens, sent and not yet read
    gone,       \* the client has closed or reset the connection
    ctx,        \* the BaseContext
    pc,         \* the function the agent is in, or "idle"
    reads,      \* reads the library has accepted: by the deadline they have
    writes,     \* writes it has accepted: the request each answers
    remote,     \* requests a DelegationProxy works on
    handled,    \* requests the handler was called for
    received,   \* responses the client has received, by request
    silent,     \* history: requests the proxy had nothing to say about
    closed      \* why the processor freed the connection first, or "no"

vars == <<asked, inbound, gone, ctx, pc, reads, writes, remote, handled,
          received, silent, closed>>

\* A response to no request: a websocket frame.
Frame == 0

Numbers == 1 .. MaxRequests

\* What a response on the wire answers.
Answers == Numbers \cup {Frame}

Piece == [req : Numbers, pos : Nat \ {0}]

Context == [protoState : {"header", "body", "proxy", "ws"}, buffer : Seq(Piece),
            nextCompare : Nat, matched : BOOLEAN, cur : Answers,
            upgrade : BOOLEAN, numWrites : Int, closeAfterWrite : BOOLEAN]

Reasons == {"no", "read", "write", "written", "headersize", "parse", "limit",
            "bodysize", "handler", "upgrade"}

Token(i, p) == [req |-> i, pos |-> p]
Tokens(i, k) == [p \in 1 .. k.head + k.body |-> Token(i, p)]

\* The token that ends the header of its request.
EndsHeader(t) == t.pos = asked[t.req].head

Init ==
    /\ asked = <<>>
    /\ inbound = <<>>
    /\ gone = FALSE
    /\ ctx = [ protoState |-> "header", buffer |-> <<>>, nextCompare |-> 0,
               matched |-> FALSE,       \* expectedChar is past the flag's end
               cur |-> Frame,           \* the request in Header
               upgrade |-> FALSE, numWrites |-> 0, closeAfterWrite |-> FALSE ]
    /\ pc = "idle"
    /\ reads = <<"header">>
    /\ writes = <<>>
    /\ remote = <<>>
    /\ handled = <<>>
    /\ received = <<>>
    /\ silent = {}
    /\ closed = "no"

\* watcher.Free, for a reason, in a handler that ends there.
Free(why) == closed' = IF closed = "no" THEN why ELSE closed
-----------------------------------------------------------------------------
(***************************************************************************)
(* The client: it may pipeline its requests, and leave.                    *)
(***************************************************************************)
Send(k) ==
    /\ ~gone /\ Len(asked) < MaxRequests
    /\ Append(asked, k) \in Scripts
    /\ asked' = Append(asked, k)
    /\ inbound' = inbound \o Tokens(Len(asked) + 1, k)
    /\ UNCHANGED <<gone, ctx, pc, reads, writes, remote, handled, received, closed, silent>>

Abort ==
    /\ "abort" \in Faults /\ ~gone
    /\ gone' = TRUE
    /\ UNCHANGED <<asked, inbound, ctx, pc, reads, writes, remote, handled, received, closed, silent>>
-----------------------------------------------------------------------------
(***************************************************************************)
(* Results of the library.                                                 *)
(***************************************************************************)
\* processRequest: where a state continues; a delegated request does not.
Continue(state) == IF state = "proxy" THEN "idle" ELSE state

ReadData ==
    /\ pc = "idle" /\ reads # <<>> /\ closed = "no"
    /\ \E n \in 1 .. Len(inbound) :
         /\ ctx' = [ctx EXCEPT !.buffer = @ \o SubSeq(inbound, 1, n)]
         /\ inbound' = SubSeq(inbound, n + 1, Len(inbound))
    /\ reads' = Tail(reads)
    /\ pc' = Continue(ctx.protoState)
    /\ UNCHANGED <<asked, gone, writes, remote, handled, received, closed, silent>>

ReadError ==
    /\ pc = "idle" /\ reads # <<>>
    /\ reads' = Tail(reads)
    /\ Free("read")
    /\ UNCHANGED <<asked, inbound, gone, ctx, pc, writes, remote, handled, received, silent>>

\* The client left, or the connection was freed.
ReadFailed == ReadError /\ (closed # "no" \/ (gone /\ inbound = <<>>))

\* A deadline passed.
ReadTimeout == "timeout" \in Faults /\ reads # <<>> /\ Head(reads) # "none" /\ ReadError

\* Mutants: any write is the last; the count is compared before it is lowered.
AnyWrite(n) == ctx.closeAfterWrite
LastButOne(n) == n = 1 /\ ctx.closeAfterWrite

\* The last write of a connection to be closed has gone out.
LastWrite(n) == n = 0 /\ ctx.closeAfterWrite

WriteDone ==
    LET n == ctx.numWrites - 1 IN
    /\ pc = "idle" /\ writes # <<>> /\ closed = "no"
    /\ ctx' = [ctx EXCEPT !.numWrites = n]
    /\ writes' = Tail(writes)
    /\ received' = Append(received, Head(writes))
    /\ IF LastWrite(n) THEN Free("written") ELSE UNCHANGED closed
    /\ UNCHANGED <<asked, inbound, gone, pc, reads, remote, handled, silent>>

WriteFailed ==
    /\ pc = "idle" /\ writes # <<>> /\ (gone \/ closed # "no")
    /\ ctx' = [ctx EXCEPT !.numWrites = @ - 1]
    /\ writes' = Tail(writes)
    /\ Free("write")
    /\ UNCHANGED <<asked, inbound, gone, pc, reads, remote, handled, received, silent>>
-----------------------------------------------------------------------------
(***************************************************************************)
(* procHeader.                                                             *)
(***************************************************************************)
\* The scan goes on where the last one stopped.
HeaderFound(c) ==
    \E i \in c.nextCompare + 1 .. Len(c.buffer) : EndsHeader(c.buffer[i])

\* What the parser consumes: the first header of the buffer, with its end.
HeaderSize(c) == SelectInSeq(c.buffer, EndsHeader)

TooLarge(c) == Len(c.buffer) > MaxHeader

\* The parser wants the buffer to begin with a request line.
Parses(c) == LET t == Head(c.buffer) IN t.pos = 1 /\ asked[t.req].route # "malformed"

\* Indexing HeaderEndFlag with an expectedChar that was not set back.
PastTheFlag(c) == c.matched /\ Len(c.buffer) > c.nextCompare

Scanning == pc = "header" /\ ~PastTheFlag(ctx)

Panic ==
    /\ pc = "header" /\ PastTheFlag(ctx)
    /\ pc' = "panic"
    /\ UNCHANGED <<asked, inbound, gone, ctx, reads, writes, remote, handled, received, closed, silent>>

HeaderTooLarge ==
    /\ Scanning /\ TooLarge(ctx)
    /\ Free("headersize")
    /\ pc' = "idle"
    /\ UNCHANGED <<asked, inbound, gone, ctx, reads, writes, remote, handled, received, silent>>

HeaderIncomplete ==
    /\ Scanning /\ ~TooLarge(ctx) /\ ~HeaderFound(ctx)
    /\ ctx' = [ctx EXCEPT !.nextCompare = Len(ctx.buffer)]
    /\ reads' = Append(reads, "header")
    /\ pc' = "idle"
    /\ UNCHANGED <<asked, inbound, gone, writes, remote, handled, received, closed, silent>>

\* Unreadable, over the limit of its rule, or with too large a body.
HeaderRefused ==
    /\ Scanning /\ ~TooLarge(ctx) /\ HeaderFound(ctx)
    /\ \/ ~Parses(ctx) /\ Free("parse")
       \/ Parses(ctx) /\ "limit" \in Faults /\ Free("limit")
       \/ Parses(ctx) /\ asked[Head(ctx.buffer).req].length > MaxBody /\ Free("bodysize")
    /\ pc' = "idle"
    /\ UNCHANGED <<asked, inbound, gone, ctx, reads, writes, remote, handled, received, silent>>

\* The context once the header is parsed and removed.  Reset leaves `upgrade'.
Parsed(c) ==
    LET i == Head(c.buffer).req
    IN  [c EXCEPT !.nextCompare = Len(c.buffer), !.matched = TRUE,
                  !.buffer = SubSeq(@, HeaderSize(c) + 1, Len(@)),
                  !.cur = i,
                  !.upgrade = @ \/ asked[i].route \in {"upgrade", "refused"}]

Accepted(c) ==
    /\ Scanning /\ ~TooLarge(c) /\ HeaderFound(c) /\ Parses(c)
    /\ asked[Head(c.buffer).req].length <= MaxBody

HeaderParsed ==
    /\ Accepted(ctx)
    /\ ~Parsed(ctx).upgrade
    /\ ctx' = [Parsed(ctx) EXCEPT !.protoState = "body"]
    /\ pc' = "body"
    /\ UNCHANGED <<asked, inbound, gone, reads, writes, remote, handled, received, closed, silent>>

\* Mutant: the write is not counted.
RespondUncounted(c, header) ==
    [c EXCEPT !.closeAfterWrite = @ \/ (header /\ asked[c.cur].close)]

\* WriteHttpRspData: with a header it also decides whether to close.
Respond(c, header) ==
    [c EXCEPT !.numWrites = @ + 1,
              !.closeAfterWrite = @ \/ (header /\ asked[c.cur].close)]

\* The upgrade check, whether it accepts or refuses: what is pipelined behind
\* the request is an error; what is not sets no scan state back.
Upgrade ==
    LET c == Parsed(ctx)
        accepts == asked[c.cur].route = "upgrade" IN
    /\ Accepted(ctx)
    /\ c.upgrade
    /\ writes' = Append(writes, c.cur)
    /\ \/ /\ c.buffer # <<>>
          /\ ctx' = Respond(c, TRUE)
          /\ Free("upgrade")
          /\ UNCHANGED reads
       \/ /\ c.buffer = <<>>
          /\ ctx' = [Respond(c, ~accepts) EXCEPT !.protoState = IF accepts THEN "ws" ELSE @]
          /\ reads' = Append(reads, "none")
          /\ UNCHANGED closed
    /\ pc' = "idle"
    /\ UNCHANGED <<asked, inbound, gone, remote, handled, received, silent>>
-----------------------------------------------------------------------------
(***************************************************************************)
(* procBody.                                                               *)
(***************************************************************************)
\* Mutant: the read for the rest of a body is forgotten.
BodyForgotten ==
    /\ pc = "body" /\ Len(ctx.buffer) < asked[ctx.cur].length
    /\ pc' = "idle"
    /\ UNCHANGED <<asked, inbound, gone, ctx, reads, writes, remote, handled, received, closed, silent>>

BodyIncomplete ==
    /\ pc = "body" /\ Len(ctx.buffer) < asked[ctx.cur].length
    /\ reads' = Append(reads, "body")
    /\ pc' = "idle"
    /\ UNCHANGED <<asked, inbound, gone, ctx, writes, remote, handled, received, closed, silent>>

BodyComplete == pc = "body" /\ Len(ctx.buffer) >= asked[ctx.cur].length

HandlerFails ==
    /\ BodyComplete /\ asked[ctx.cur].route = "fails"
    /\ handled' = Append(handled, ctx.cur)
    /\ Free("handler")
    /\ pc' = "idle"
    /\ UNCHANGED <<asked, inbound, gone, ctx, reads, writes, remote, received, silent>>

\* Mutant: the scan goes on where the last request's ended.
ScanKept(c) ==
    LET n == asked[c.cur].length
    IN  [c EXCEPT !.buffer = IF n > 0 THEN SubSeq(@, n + 1, Len(@)) ELSE @,
                  !.protoState = "header", !.matched = FALSE]

\* Discard the body and start over with what is left in the buffer.
NextRequest(c) ==
    LET n == asked[c.cur].length
    IN  [c EXCEPT !.buffer = IF n > 0 THEN SubSeq(@, n + 1, Len(@)) ELSE @,
                  !.protoState = "header", !.nextCompare = 0, !.matched = FALSE]

\* Mutant: without the return for a proxied request.
DelegatesAndReplies ==
    /\ BodyComplete /\ asked[ctx.cur].route = "proxy"
    /\ handled' = Append(handled, ctx.cur)
    /\ ctx' = Respond(NextRequest(ctx), TRUE)
    /\ writes' = Append(writes, ctx.cur)
    /\ remote' = Append(remote, ctx.cur)
    /\ pc' = "header"
    /\ UNCHANGED <<asked, inbound, gone, reads, received, closed, silent>>

\* The handler calls Delegate, which sets stateProxy; no read is submitted.
HandlerDelegates ==
    /\ BodyComplete /\ asked[ctx.cur].route = "proxy"
    /\ handled' = Append(handled, ctx.cur)
    /\ ctx' = [ctx EXCEPT !.protoState = "proxy"]
    /\ remote' = Append(remote, ctx.cur)
    /\ pc' = "idle"
    /\ UNCHANGED <<asked, inbound, gone, reads, writes, received, closed, silent>>

HandlerReplies ==
    /\ BodyComplete /\ asked[ctx.cur].route = "local"
    /\ handled' = Append(handled, ctx.cur)
    /\ ctx' = Respond(NextRequest(ctx), TRUE)
    /\ writes' = Append(writes, ctx.cur)
    /\ pc' = "header"
    /\ UNCHANGED <<asked, inbound, gone, reads, remote, received, closed, silent>>
-----------------------------------------------------------------------------
(***************************************************************************)
(* The agent receives from chResume: the proxy is done with a request.     *)
(***************************************************************************)
Resume ==
    /\ pc = "idle" /\ remote # <<>>
    /\ remote' = Tail(remote)
    /\ \E result \in ProxyResults :
         LET close == result \in {"close", "void"}
             some  == result \notin {"nothing", "void"} IN
         /\ ctx' = [NextRequest(ctx) EXCEPT
                      !.closeAfterWrite = @ \/ close,
                      !.numWrites = IF some THEN @ + 1 ELSE @]
         /\ writes' = IF some THEN Append(writes, Head(remote)) ELSE writes
         /\ silent' = IF some THEN silent ELSE silent \cup {Head(remote)}
    /\ pc' = "header"
    /\ UNCHANGED <<asked, inbound, gone, reads, handled, received, closed>>
-----------------------------------------------------------------------------
(***************************************************************************)
(* procWS, here only by what it does to the connection: it consumes the    *)
(* frames read, may write frames (without counting the write) and may mark *)
(* the connection to be closed; then it reads again without a deadline.    *)
(***************************************************************************)
Frames ==
    /\ pc = "ws"
    /\ \E replies \in 0 .. 2, kept \in 0 .. Len(ctx.buffer), close \in BOOLEAN :
         /\ writes' = writes \o [i \in 1 .. replies |-> Frame]
         /\ ctx' = [ctx EXCEPT !.buffer = SubSeq(@, Len(@) - kept + 1, Len(@)),
                              !.closeAfterWrite = @ \/ close]
    /\ reads' = Append(reads, "none")
    /\ pc' = "idle"
    /\ UNCHANGED <<asked, inbound, gone, remote, handled, received, closed, silent>>
-----------------------------------------------------------------------------
Client == Abort \/ \E k \in Kinds : Send(k)

Library == ReadData \/ ReadFailed \/ WriteDone \/ WriteFailed

Agent == \/ Panic \/ HeaderTooLarge \/ HeaderIncomplete \/ HeaderRefused \/ HeaderParsed
         \/ Upgrade \/ BodyIncomplete
         \/ HandlerFails \/ HandlerDelegates \/ HandlerReplies
         \/ Frames

Next == Client \/ Library \/ ReadTimeout \/ Agent \/ Resume

Spec == Init /\ [][Next]_vars

\* The agent and the library run; the proxy answers (EventuallyResumed of
\* DelegationProxy).  A timeout is never owed: nothing may rest on one.
FairSpec == Spec /\ WF_vars(Library) /\ WF_vars(Agent) /\ WF_vars(Resume)
-----------------------------------------------------------------------------
(***************************************************************************)
(* Properties.                                                             *)
(***************************************************************************)
\* Every variable has its type, and the scan for the end of a header begins
\* inside the buffer, but after a refused upgrade.
TypeOK ==
    /\ asked \in Seq(Kinds)
    /\ inbound \in Seq(Piece)
    /\ gone \in BOOLEAN
    /\ ctx \in Context
    /\ pc \in {"idle", "header", "body", "ws", "panic"}
    /\ pc = "header" /\ ~ctx.upgrade => ctx.nextCompare <= Len(ctx.buffer)
    /\ reads \in Seq({"header", "body", "none"})
    /\ writes \in Seq(Answers)
    /\ remote \in Seq(Numbers)
    /\ handled \in Seq(Numbers)
    /\ received \in Seq(Answers)
    /\ silent \subseteq Numbers
    /\ closed \in Reasons

\* Between two events exactly one thing moves an open connection on: a pending
\* read, or the proxy that works on its request.  Two reads would mix requests,
\* none would leave the client hanging.
OneDriver ==
    pc = "idle" => LET n == Len(reads) + Len(remote)
                   IN  n <= 1 /\ (closed = "no" => n = 1)

\* The handled requests of an open connection and its responses are the same
\* sequence, but for what the proxy says nothing about: every request is answered
\* once and in order, with pipelining and with requests that take the way through
\* the proxy.
Ordinary == {i \in DOMAIN asked : asked[i].route \notin {"upgrade", "refused"}}

ResponsesMatchRequests ==
    closed = "no" => Only(received \o writes, Ordinary) \o remote = Only(handled, Numbers \ silent)

\* numWrites counts the responses on their way out; the decision to close
\* rests on it.
WritesCounted == ctx.protoState # "ws" => ctx.numWrites = Len(writes)

\* "CloseAfterWrite: mark if server should close the connection after latest
\* write" (aiohttp_context.go): closing for that reason discards no response, on a
\* connection that is not upgraded.
ClosesAfterLatestWrite ==
    [][closed = "no" /\ closed' = "written" /\ ~ctx.upgrade => writes' = <<>>]_vars

\* ... and a connection so marked, with a response to be written, is closed.
EventuallyClosed == ctx.closeAfterWrite /\ writes # <<>> ~> closed # "no"

\* What holds of this: the connection is closed, unless it asked to be upgraded.
HttpEventuallyClosed ==
    ctx.closeAfterWrite /\ writes # <<>> ~> closed # "no" \/ ctx.upgrade

\* Every request is answered, or the client learns that it is not: the
\* connection is closed.  What follows an upgrade is not a request, and what the
\* proxy is silent about is not answered.
EventuallyAnswered ==
    \A i \in 1 .. MaxRequests :
        Len(asked) >= i ~> \/ \E j \in DOMAIN received : received[j] = i
                           \/ closed # "no" \/ i \in silent \/ ctx.upgrade
=============================================================================
