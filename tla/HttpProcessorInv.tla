-------------------------- MODULE HttpProcessorInv --------------------------
(***************************************************************************)
(* An inductive invariant of HttpProcessor: what moves a connection on,    *)
(* and the order of its requests and responses.  Each part says what a     *)
(* handler of src/proc.go relies on and does not check.                    *)
(***************************************************************************)
EXTENDS HttpProcessor

\* What is read or parsed belongs to a request the client has sent.
Sent == {t \in Piece : t.req <= Len(asked)}

RequestsSent ==
    /\ inbound \in Seq(Sent) /\ ctx.buffer \in Seq(Sent)
    /\ ctx.cur <= Len(asked)
    /\ Len(asked) <= MaxRequests

\* A function of the processor runs in the state it is named for, with no read
\* pending and no request at the proxy.
Control ==
    pc # "idle" => /\ reads = <<>> /\ remote = <<>>
                   /\ ctx.protoState = IF pc = "panic" THEN "header" ELSE pc

\* stateProxy lasts exactly as long as the proxy works on the request.
ProxyState == ctx.protoState = "proxy" <=> remote # <<>>

\* A body is read, or delegated, for a request.
HasRequest == ctx.protoState \in {"body", "proxy"} => ctx.cur # Frame

\* Only an upgrade leads to a websocket.
Upgraded == ctx.protoState = "ws" => ctx.upgrade

\* nextCompare stays inside the buffer from one read to the next.
ScanInside ==
    ctx.protoState = "header" /\ ~ctx.upgrade => ctx.nextCompare <= Len(ctx.buffer)

DriveInv ==
    /\ TypeOK /\ RequestsSent /\ Control /\ ProxyState /\ HasRequest /\ Upgraded
    /\ ScanInside /\ OneDriver /\ WritesCounted
-----------------------------------------------------------------------------
(***************************************************************************)
(* The order of requests and responses.                                    *)
(***************************************************************************)
\* What is on its way to the client, or there, answers requests it has sent.
AnswersOfSent == received \in Seq(0 .. Len(asked)) /\ writes \in Seq(0 .. Len(asked))

\* Once the upgrade flag is set no header is looked for any more: expectedChar
\* stays where the last one ended.
UpgradeEnds ==
    ctx.upgrade => \/ ctx.protoState = "ws"
                   \/ ctx.protoState = "header" /\ ctx.matched

Before(s, t) == s.req < t.req \/ (s.req = t.req /\ s.pos < t.pos)

\* A stream of tokens that comes in the order it was sent, all of it after the
\* first token of request i.
InOrder(stream, i) ==
    /\ \A j, k \in DOMAIN stream : j < k => Before(stream[j], stream[k])
    /\ \A j \in DOMAIN stream : Before(Token(i, 1), stream[j])

\* What is not parsed yet follows the last request that was.
TokensInOrder == InOrder(ctx.buffer \o inbound, ctx.cur)

\* The request in Header is one whose handler is still to be called.
BodyAwaited == ctx.protoState = "body" /\ (pc = "body" \/ reads # <<>>)

\* Requests are handled in their order, each once.
HandledInOrder ==
    /\ \A i, j \in DOMAIN handled : i < j => handled[i] < handled[j]
    /\ \A i \in DOMAIN handled : handled[i] <= ctx.cur /\ (BodyAwaited => handled[i] < ctx.cur)

\* The proxy is silent about requests that were handed to it, not about the one
\* it works on.
SilentIsPast ==
    \A i \in silent : /\ i <= ctx.cur
                      /\ ctx.protoState \in {"body", "proxy"} => i < ctx.cur

\* The proxy works on the request that was handled last.
ProxyOnLast ==
    remote # <<>> => /\ remote = <<ctx.cur>>
                     /\ handled # <<>> /\ handled[Len(handled)] = ctx.cur
                     /\ ctx.cur \in Ordinary

OrderInv ==
    /\ AnswersOfSent /\ UpgradeEnds /\ TokensInOrder /\ HandledInOrder /\ SilentIsPast
    /\ ProxyOnLast /\ ResponsesMatchRequests

IInv == DriveInv /\ OrderInv
=============================================================================
