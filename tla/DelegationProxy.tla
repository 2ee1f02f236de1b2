--------------------------- MODULE DelegationProxy ---------------------------
(***************************************************************************)
(* DelegationProxy of src/proxy.go: requests of HTTP clients are handed to *)
(* a scheduler goroutine, queued on the least loaded of a pool of          *)
(* connections to their remote service, submitted one at a time on each    *)
(* connection to an asynchronous IO library (gaio), and answered through   *)
(* the processor that owns the client.                                     *)
(*                                                                         *)
(* Goroutines: the agents that call Delegate (one per request here), the   *)
(* request scheduler, the goroutine that waits for IO results, and the     *)
(* goroutines `go notifySchedulerError' starts.  Environment: the library, *)
(* the sockets and the remote services.                                    *)
(***************************************************************************)
EXTENDS Subsequence, FiniteSets, Functions

CONSTANTS
    Requests,       \* one element per RemoteContext
    NoRequest,      \* no request
    RemoteAddr,     \* the remote service (URI) of each request
    WConns,         \* names for the weightedConn structures (naturals > 0)
    Conns,          \* names for the sockets (naturals > 0), reused once closed
    MaxConns,       \* proxy.maxConns
    MaxRetry,       \* defaultMaximumWriteRetry
    LogInt,         \* LogInt[n]: int(math.Log(float64(n))), negative at 0
    Kinds,          \* the shapes of response the remote services produce
    Faults          \* what may go wrong around the proxy, see AllFaults

Addrs == {RemoteAddr[r] : r \in Requests}

AllKinds == {"length", "chunked", "early", "late", "zero", "close", "until", "void",
             "empty", "bad", "badbody", "badchunked"}

\* net.Dial fails, the library refuses an operation, a remote closes its end,
\* a read meets its deadline, the user calls Close().
AllFaults == {"dial", "submit", "reset", "timeout", "close"}

ASSUME ConstantAssumption ==
    /\ NoRequest \notin Requests
    /\ IsFiniteSet(Requests)
    /\ RemoteAddr \in [Requests -> Addrs]
    /\ WConns \subseteq Nat \ {0}
    /\ Conns \subseteq Nat \ {0}
    /\ MaxConns \in Nat \ {0}
    /\ MaxRetry \in Nat
    /\ LogInt \in [0 .. Cardinality(Requests) + 1 -> Int]
    /\ Kinds \subseteq AllKinds
    /\ Faults \subseteq AllFaults

VARIABLES
    ctx,            \* ctx[r]: the RemoteContext of r, with its client's side
    newRequests,    \* proxy.newRequests
    notify,         \* chNotifyNewRequests (capacity 1) holds a token
    die,            \* the die channel is closed
    sched,          \* the scheduler goroutine: where it is, its batch, its ctx
    pool,           \* proxy.pool: the weightedConns of each remote service
    wconns,         \* the weightedConn structures
    ops,            \* operations the library has accepted and not completed
    notifiers,      \* requests whose `go notifySchedulerError' has not ended
    waiter,         \* the WaitIO goroutine: waiting, or blocked on a channel
    socks           \* the sockets, with the remote's end of each

vars == <<ctx, newRequests, notify, die, sched, pool, wconns, ops, notifiers,
          waiter, socks>>

NoWConn == 0
NoConn == 0

(***************************************************************************)
(* A response on the wire is a header token and, for the kinds that have   *)
(* one, a body in one piece, or two.  Kinds:                               *)
(*   "length"  a body with a Content-Length; "close" the same and          *)
(*             Connection: close; "zero" Content-Length: 0                 *)
(*   "chunked" a chunked body, the last chunk behind no other 0\r\n\r\n    *)
(*   "early"   one whose data contain 0\r\n\r\n, which cuts it in two      *)
(*   "late"    one whose data end in 0, so that the last chunk is not seen *)
(*   "until"   a body that ends with the connection; "void" the same with  *)
(*             no byte of body                                             *)
(*   "empty"   a status that has no body nor length (204, 304)             *)
(*   "bad"     a header the parser refuses and no body; "badbody" the same *)
(*             and a body; "badchunked" the same and a chunked body        *)
(* Of bodies, only the chunked ones hold the \r\n\r\n that ends a header.  *)
(***************************************************************************)
Token == [of : Requests, part : {"header", "body", "rest"}, kind : Kinds]

Bodiless == {"zero", "void", "empty", "bad"}

Response(r, k) ==
    LET piece(part) == [of |-> r, part |-> part, kind |-> k]
    IN  IF k \in Bodiless THEN <<piece("header")>>
        ELSE IF k = "early" THEN <<piece("header"), piece("body"), piece("rest")>>
        ELSE <<piece("header"), piece("body")>>

Chunked == {"chunked", "early", "late"}            \* ContentLength() = -1
Refused == {"bad", "badbody", "badchunked"}

\* The bytes of token t hold HeaderEndFlag, and ChunkDataEndFlag where the scan
\* of procBody finds it.
EndsHeader(t) == t.part = "header" \/ t.kind \in Chunked \cup {"badchunked"}
EndsChunks(t) == t.part # "header" /\ t.kind \in {"chunked", "early", "badchunked"}

UntilEOF == {"until", "void", "empty"}   \* ContentLength() = -2

\* RespHeader.ConnectionClose(): said by the remote, or set by the parser for
\* a response whose end is the end of the connection, if it may have a body.
ConnectionClose(k) == k \in {"close", "until", "void"}

Outcome == {"none", "error", "data", "nothing"}

Ctx == [ phase : {"idle", "appended", "delegated"},
         protoState : {"header", "body"},
         buffer : Seq(Token),
         respHeader : Seq(Token), respData : Seq(Token),
         err : BOOLEAN, done : BOOLEAN, disconnected : BOOLEAN,
         retries : Nat, wConn : WConns \cup {NoWConn},
         outcome : Outcome,         \* what proxyResponse holds
         resumes : Nat ]            \* times the client's agent was resumed

NewContext ==
    [ phase |-> "idle", protoState |-> "header", buffer |-> <<>>,
      respHeader |-> <<>>, respData |-> <<>>,
      err |-> FALSE, done |-> FALSE, disconnected |-> FALSE, retries |-> 0,
      wConn |-> NoWConn, outcome |-> "none", resumes |-> 0 ]

Op == [ctx : Requests, op : {"write", "read"}, conn : Conns]

SchedState ==
    [pc : {"select", "swap", "batch", "refuse", "resume", "finish", "exit"},
     batch : Seq(Requests), cur : Requests \cup {NoRequest}]

WConn == [conn : Conns \cup {NoConn}, requestList : Seq(Requests)]

WaiterState == [pc : {"wait", "retry", "complete"}, cur : Requests \cup {NoRequest}]

Socket == [open : BOOLEAN,
           sent : Seq(Requests),    \* written and not answered by the remote
           wire : Seq(Token),       \* sent by the remote and not read
           eof : BOOLEAN]           \* the remote has closed its end

ClosedSocket == [open |-> FALSE, sent |-> <<>>, wire |-> <<>>, eof |-> FALSE]
OpenSocket   == [open |-> TRUE, sent |-> <<>>, wire |-> <<>>, eof |-> FALSE]

Init ==
    /\ ctx = [r \in Requests |-> NewContext]
    /\ newRequests = <<>>
    /\ notify = FALSE
    /\ die = FALSE
    /\ sched = [pc |-> "select", batch |-> <<>>, cur |-> NoRequest]
    /\ pool = [a \in Addrs |-> {}]
    /\ wconns = [w \in WConns |-> [conn |-> NoConn, requestList |-> <<>>]]
    /\ ops = {}
    /\ notifiers = {}
    /\ waiter = [pc |-> "wait", cur |-> NoRequest]
    /\ socks = [c \in Conns |-> ClosedSocket]
-----------------------------------------------------------------------------
(***************************************************************************)
(* The agents: Delegate and Close.                                         *)
(***************************************************************************)
DelegateAppend(r) ==
    /\ ctx[r].phase = "idle"
    /\ ctx' = [ctx EXCEPT ![r].phase = "appended"]
    /\ newRequests' = Append(newRequests, r)
    /\ UNCHANGED <<notify, die, sched, pool, wconns, ops, notifiers, waiter, socks>>

\* Mutant: a channel without a buffer drops the token of a busy scheduler.
UnbufferedNotify(r) ==
    /\ ctx[r].phase = "appended"
    /\ ctx' = [ctx EXCEPT ![r].phase = "delegated"]
    /\ notify' = (notify \/ sched.pc = "select")
    /\ UNCHANGED <<newRequests, die, sched, pool, wconns, ops, notifiers, waiter, socks>>

\* The select with a default: a token already in the channel is enough.
DelegateNotify(r) ==
    /\ ctx[r].phase = "appended"
    /\ ctx' = [ctx EXCEPT ![r].phase = "delegated"]
    /\ notify' = TRUE
    /\ UNCHANGED <<newRequests, die, sched, pool, wconns, ops, notifiers, waiter, socks>>

Close ==
    /\ "close" \in Faults /\ ~die
    /\ die' = TRUE
    /\ UNCHANGED <<ctx, newRequests, notify, sched, pool, wconns, ops, notifiers, waiter, socks>>
-----------------------------------------------------------------------------
(***************************************************************************)
(* Helpers of the scheduler.                                               *)
(***************************************************************************)
\* A name is free for a new socket once nothing refers to the old one.
FreeConns == {c \in Conns : /\ ~socks[c].open
                            /\ \A o \in ops : o.conn # c}

\* net.Dial: the least free name, or a failure.
Dial == {c \in FreeConns : \A d \in FreeConns : c <= d}
            \cup (IF "dial" \in Faults THEN {NoConn} ELSE {})

Pooled == UNION {pool[a] : a \in Addrs}

Unpooled == WConns \ Pooled

Load(lists, S) == FoldFunctionOnSet(+, 0, [w \in WConns |-> Len(lists[w].requestList)], S)

totalLoad(a) == Load(wconns, pool[a])

\* heap[0]: the heap yields one of the least loaded connections.
LeastLoaded(S) ==
    {w \in S : \A v \in S : Len(wconns[w].requestList) <= Len(wconns[v].requestList)}

\* watcher.Write of request r on socket c: accepted, or refused and then
\* reported by a goroutine that completes request `told' with an error.
Submit(r, c, told) ==
    \/ /\ ops' = ops \cup {[ctx |-> r, op |-> "write", conn |-> c]}
       /\ UNCHANGED notifiers
    \/ /\ "submit" \in Faults
       /\ notifiers' = notifiers \cup {told}
       /\ UNCHANGED ops

Sockets(freed, dialled) ==
    [c \in Conns |-> IF c = dialled THEN OpenSocket
                     ELSE IF c \in freed THEN ClosedSocket ELSE socks[c]]

\* The scheduler moves on with its batch, or back to its select.
NextInBatch(batch) == [pc |-> IF batch = <<>> THEN "select" ELSE "batch",
                       batch |-> batch, cur |-> NoRequest]
-----------------------------------------------------------------------------
(***************************************************************************)
(* The scheduler: new requests.                                            *)
(***************************************************************************)
TakeNotification ==
    /\ sched.pc = "select" /\ notify
    /\ notify' = FALSE
    /\ sched' = [sched EXCEPT !.pc = "swap"]
    /\ UNCHANGED <<ctx, newRequests, die, pool, wconns, ops, notifiers, waiter, socks>>

SwapNewRequests ==
    /\ sched.pc = "swap"
    /\ newRequests' = <<>>
    /\ sched' = NextInBatch(newRequests)
    /\ UNCHANGED <<ctx, notify, die, pool, wconns, ops, notifiers, waiter, socks>>

\* Mutant: off by one at the limit.
ScalesPastLimit(a) ==
    LET n == Cardinality(pool[a])
    IN  n <= MaxConns /\ (n = 0 \/ LogInt[totalLoad(a) + 1] > n)

\* The pool is below maxConns and empty or too loaded.
ScalesUp(a) ==
    LET n == Cardinality(pool[a])
    IN  n < MaxConns /\ (n = 0 \/ LogInt[totalLoad(a) + 1] > n)

\* sched when no connection is in the pool and none can be made.
SchedRefuse ==
    LET r == Head(sched.batch) IN
    /\ sched.pc = "batch"
    /\ pool[RemoteAddr[r]] = {}
    /\ NoConn \in Dial
    /\ ctx' = [ctx EXCEPT ![r].outcome = "error"]
    /\ sched' = [sched EXCEPT !.pc = "refuse", !.cur = r]
    /\ UNCHANGED <<newRequests, notify, die, pool, wconns, ops, notifiers, waiter, socks>>

\* Mutants: the new request is submitted behind a busy one, or queued in front.
SubmitsAlways(list) == TRUE
PushFront(list, r) == <<r>> \o list

SubmitsAtOnce(list) == list = <<>>
PushBack(list, r) == Append(list, r)

\* sched's use of connection w: queue the request behind those of w, submit
\* it when it is the only one.  `lists' is wconns after a possible dial.
QueueOn(r, w, lists) ==
    LET list == lists[w].requestList IN
    /\ wconns' = [lists EXCEPT ![w].requestList = PushBack(@, r)]
    /\ ctx' = [ctx EXCEPT ![r].wConn = w]
    /\ sched' = NextInBatch(Tail(sched.batch))
    /\ IF SubmitsAtOnce(list) THEN Submit(r, lists[w].conn, r)
                              ELSE UNCHANGED <<ops, notifiers>>
    /\ UNCHANGED <<newRequests, notify, die, waiter>>

SchedOnPool ==
    LET r == Head(sched.batch)
        a == RemoteAddr[r] IN
    /\ sched.pc = "batch"
    /\ ScalesUp(a) => NoConn \in Dial
    /\ \E w \in LeastLoaded(pool[a]) : QueueOn(r, w, wconns)
    /\ UNCHANGED <<pool, socks>>

\* A fresh connection carries no request, so it is a candidate for the least
\* loaded; so are the idle ones.
SchedOnDial ==
    LET r == Head(sched.batch)
        a == RemoteAddr[r] IN
    /\ sched.pc = "batch"
    /\ ScalesUp(a)
    /\ \E c \in Dial \ {NoConn}, v \in Unpooled :
         /\ \A u \in Unpooled : v <= u
         /\ pool' = [pool EXCEPT ![a] = @ \cup {v}]
         /\ socks' = Sockets({}, c)
         /\ \E w \in {v} \cup {u \in pool[a] : wconns[u].requestList = <<>>} :
              QueueOn(r, w, [wconns EXCEPT ![v] = [conn |-> c, requestList |-> <<>>]])

\* resumeFromProxy is a rendezvous with the client's agent, always ready.
ResumeRefused ==
    /\ sched.pc = "refuse"
    /\ ctx' = [ctx EXCEPT ![sched.cur].resumes = @ + 1]
    /\ sched' = NextInBatch(Tail(sched.batch))
    /\ UNCHANGED <<newRequests, notify, die, pool, wconns, ops, notifiers, waiter, socks>>
-----------------------------------------------------------------------------
(***************************************************************************)
(* The scheduler: retries and completions.  A send on an unbuffered        *)
(* channel and its receipt are one step of both goroutines.                *)
(***************************************************************************)
TakeRetry ==
    LET r == waiter.cur
        w == ctx[r].wConn
        old == wconns[w].conn IN
    /\ sched.pc = "select" /\ waiter.pc = "retry"
    /\ \E c \in Dial :
         IF c = NoConn
         THEN /\ Submit(r, old, r)
              /\ UNCHANGED <<wconns, socks>>
         ELSE /\ wconns' = [wconns EXCEPT ![w].conn = c]
              /\ socks' = Sockets({old}, c)
              /\ Submit(r, c, r)
    /\ ctx' = [ctx EXCEPT ![r].retries = @ + 1]
    /\ waiter' = [pc |-> "wait", cur |-> NoRequest]
    /\ UNCHANGED <<newRequests, notify, die, sched, pool>>

\* What marshalling the response yields: an error text, header and data, or
\* no byte at all when a response without length had no data.
Marshalled(c) ==
    IF c.err THEN "error"
    ELSE IF c.respData # <<>> \/ Head(c.respHeader).kind = "zero" THEN "data"
    ELSE "nothing"

\* Mutant: without the check of ctx.done.
CompleteAgain(r, failed) ==
    LET c == [ctx[r] EXCEPT !.done = TRUE, !.err = failed] IN
    /\ sched.pc = "select"
    /\ ctx' = [ctx EXCEPT ![r] = [c EXCEPT !.outcome = Marshalled(c)]]
    /\ sched' = [sched EXCEPT !.pc = "resume", !.cur = r]
    /\ UNCHANGED <<newRequests, notify, die, pool, wconns, ops, socks>>

\* A completion received for r, with an error or not; the later ones of a
\* request that is done are dropped.
Complete(r, failed) ==
    LET c == [ctx[r] EXCEPT !.done = TRUE, !.err = failed] IN
    /\ sched.pc = "select"
    /\ IF ctx[r].done
       THEN UNCHANGED <<ctx, sched>>
       ELSE /\ ctx' = [ctx EXCEPT ![r] = [c EXCEPT !.outcome = Marshalled(c)]]
            /\ sched' = [sched EXCEPT !.pc = "resume", !.cur = r]
    /\ UNCHANGED <<newRequests, notify, die, pool, wconns, ops, socks>>

TakeCompleted ==
    /\ waiter.pc = "complete"
    /\ Complete(waiter.cur, ctx[waiter.cur].err)
    /\ waiter' = [pc |-> "wait", cur |-> NoRequest]
    /\ UNCHANGED notifiers

TakeNotified(r) ==
    /\ r \in notifiers
    /\ Complete(r, TRUE)
    /\ notifiers' = notifiers \ {r}
    /\ UNCHANGED waiter

Resume ==
    /\ sched.pc = "resume"
    /\ ctx' = [ctx EXCEPT ![sched.cur].resumes = @ + 1]
    /\ sched' = [sched EXCEPT !.pc = "finish"]
    /\ UNCHANGED <<newRequests, notify, die, pool, wconns, ops, notifiers, waiter, socks>>

\* After the removal of the front request: the connection is idle and the
\* pool larger than its load calls for.
ScalesDown(a, w, lists) ==
    /\ Cardinality(pool[a]) > 1
    /\ lists[w].requestList = <<>>
    /\ LogInt[Load(lists, pool[a])] < Cardinality(pool[a])

\* Mutants: the new connection replaces the old one even after a failed dial,
\* or never; the next request is forgotten.
ReplacedAlways(old, dialled) == dialled
ReplacedNever(old, dialled) == old
ForgetNext(rest, conn, r) == UNCHANGED <<ops, notifiers>>

ReplacedConn(old, dialled) == IF dialled = NoConn THEN old ELSE dialled

\* "Submit next request": a refusal is reported for r, which is done, and not
\* for the request that was refused.
SubmitNext(rest, conn, r) ==
    IF rest = <<>> THEN UNCHANGED <<ops, notifiers>>
                   ELSE Submit(Head(rest), conn, r)

Finish ==
    LET r == sched.cur
        a == RemoteAddr[r]
        w == ctx[r].wConn
        old == wconns[w].conn
        lists == [wconns EXCEPT ![w].requestList = Tail(@)]
        down == ScalesDown(a, w, lists) IN
    /\ sched.pc = "finish"
    /\ pool' = IF down THEN [pool EXCEPT ![a] = @ \ {w}] ELSE pool
    /\ \E c \in IF ctx[r].disconnected THEN Dial ELSE {NoConn} :
         /\ wconns' = [lists EXCEPT ![w].conn = ReplacedConn(old, c)]
         /\ socks' = Sockets(IF down \/ c # NoConn THEN {old} ELSE {}, c)
         /\ SubmitNext(lists[w].requestList, ReplacedConn(old, c), r)
    /\ sched' = NextInBatch(<<>>)
    /\ UNCHANGED <<ctx, newRequests, notify, die, waiter>>

SchedulerExit ==
    /\ sched.pc = "select" /\ die
    /\ sched' = [sched EXCEPT !.pc = "exit"]
    /\ UNCHANGED <<ctx, newRequests, notify, die, pool, wconns, ops, notifiers, waiter, socks>>

\* Once die is closed, a blocked sender may take the other case of its select.
NotifierGivesUp(r) ==
    /\ die /\ r \in notifiers
    /\ notifiers' = notifiers \ {r}
    /\ UNCHANGED <<ctx, newRequests, notify, die, sched, pool, wconns, ops, waiter, socks>>

\* procBody, having given up on a response, returns io.EOF: its caller sets the
\* error and tries to send once more.
WaiterGivesUp ==
    LET r == waiter.cur
        response == waiter.pc = "complete" /\ ~ctx[r].err IN
    /\ die /\ waiter.pc # "wait"
    /\ ctx' = [ctx EXCEPT ![r].retries = @ + (IF waiter.pc = "retry" THEN 1 ELSE 0),
                          ![r].err = @ \/ response]
    /\ waiter' = IF response THEN waiter ELSE [pc |-> "wait", cur |-> NoRequest]
    /\ UNCHANGED <<newRequests, notify, die, sched, pool, wconns, ops, notifiers, socks>>
-----------------------------------------------------------------------------
(***************************************************************************)
(* The goroutine that waits for IO results.  The library's execution of an *)
(* operation and the handling of its result are one step.                  *)
(***************************************************************************)
Blocked(pc, r) == [pc |-> pc, cur |-> r]

WriteDone(o) ==
    /\ waiter.pc = "wait"
    /\ o \in ops /\ o.op = "write" /\ socks[o.conn].open
    /\ socks' = IF socks[o.conn].eof THEN socks
                ELSE [socks EXCEPT ![o.conn].sent = Append(@, o.ctx)]
    /\ \/ ops' = (ops \ {o}) \cup {[o EXCEPT !.op = "read"]}
       \/ "submit" \in Faults /\ ops' = ops \ {o}      \* the error is ignored
    /\ UNCHANGED <<ctx, newRequests, notify, die, sched, pool, wconns, notifiers, waiter>>

WriteFailed(o) ==
    LET r == o.ctx
        retry == ctx[r].retries < MaxRetry IN
    /\ waiter.pc = "wait"
    /\ o \in ops /\ o.op = "write"
    /\ socks[o.conn].eof \/ ~socks[o.conn].open
    /\ ops' = ops \ {o}
    /\ ctx' = [ctx EXCEPT ![r].disconnected = TRUE, ![r].err = @ \/ ~retry]
    /\ waiter' = Blocked(IF retry THEN "retry" ELSE "complete", r)
    /\ UNCHANGED <<newRequests, notify, die, sched, pool, wconns, notifiers, socks>>

\* The body is complete: none is expected, a length or what looks like the last
\* chunk has been reached, or the connection has ended.
HasResponse(c, error) ==
    LET kind == Head(c.respHeader).kind
    IN  \/ kind = "zero"
        \/ kind \in {"length", "close"} /\ c.buffer # <<>>
        \/ kind \in Chunked /\ \E i \in DOMAIN c.buffer : EndsChunks(c.buffer[i])
        \/ kind \in UntilEOF /\ error = "EOF"

\* What is copied: as much as the length says, or all there is.
Body(c) ==
    LET kind == Head(c.respHeader).kind
    IN  IF kind = "zero" THEN <<>>
        ELSE IF kind \in {"length", "close"} THEN <<Head(c.buffer)>>
        ELSE c.buffer

\* procBody: the response is complete, or more must be read, or it failed.
procBody(c, error) ==
    IF HasResponse(c, error)
    THEN [ctx |-> [c EXCEPT !.respData = Body(c)], verdict |-> "complete"]
    ELSE [ctx |-> c, verdict |-> IF error = "nil" THEN "again" ELSE "fail"]

\* procHeader: the scan finds the end of a header anywhere in the buffer, in what
\* an earlier response left on the socket as well; the parser starts at the
\* first byte and refuses what is not a good header (a body is taken for none).
procHeader(c, error) ==
    IF \E i \in DOMAIN c.buffer : EndsHeader(c.buffer[i])
    THEN LET first == Head(c.buffer)
         IN  IF first.part = "header" /\ first.kind \notin Refused
             THEN procBody([c EXCEPT !.respHeader = <<first>>,
                                     !.disconnected = @ \/ ConnectionClose(first.kind),
                                     !.buffer = Tail(@),
                                     !.protoState = "body"], error)
             ELSE [ctx |-> c, verdict |-> "fail"]
    ELSE [ctx |-> c, verdict |-> IF error = "nil" THEN "again" ELSE "fail"]

\* Mutant: a deadline leaves the connection in use.
BreaksOnEOF(error) == error = "EOF"

\* "Mark connection error": of any error of an operation.
Breaks(error) == error # "nil"

\* A read of o's request ended with the tokens `got' and `error'.
ReadResult(o, got, error) ==
    LET r == o.ctx
        c == [ctx[r] EXCEPT !.buffer = @ \o got,
                            !.disconnected = @ \/ Breaks(error)]
        res == IF c.protoState = "header" THEN procHeader(c, error) ELSE procBody(c, error)
    IN
    /\ \/ /\ res.verdict = "again"
          /\ ops' = ops
          /\ ctx' = [ctx EXCEPT ![r] = res.ctx]
          /\ UNCHANGED waiter
       \/ /\ res.verdict = "complete"
          /\ ops' = ops \ {o}
          /\ ctx' = [ctx EXCEPT ![r] = res.ctx]
          /\ waiter' = Blocked("complete", r)
       \/ /\ res.verdict = "fail" \/ (res.verdict = "again" /\ "submit" \in Faults)
          /\ ops' = ops \ {o}
          /\ ctx' = [ctx EXCEPT ![r] = [res.ctx EXCEPT !.err = TRUE]]
          /\ waiter' = Blocked("complete", r)
    /\ UNCHANGED <<newRequests, notify, die, sched, pool, wconns, notifiers>>

ReadData(o) ==
    LET c == o.conn
        wire == socks[c].wire IN
    /\ waiter.pc = "wait"
    /\ o \in ops /\ o.op = "read"
    /\ \E n \in 1 .. Len(wire) :
         /\ socks' = [socks EXCEPT ![c].wire = SubSeq(@, n + 1, Len(@))]
         /\ ReadResult(o, SubSeq(wire, 1, n), "nil")

ReadEOF(o) ==
    /\ waiter.pc = "wait"
    /\ o \in ops /\ o.op = "read"
    /\ ~socks[o.conn].open \/ (socks[o.conn].eof /\ socks[o.conn].wire = <<>>)
    /\ ReadResult(o, <<>>, "EOF")
    /\ UNCHANGED socks

\* The header or the body deadline passes.
ReadTimeout(o) ==
    /\ "timeout" \in Faults
    /\ waiter.pc = "wait"
    /\ o \in ops /\ o.op = "read" /\ socks[o.conn].open
    /\ ReadResult(o, <<>>, "timeout")
    /\ UNCHANGED socks
-----------------------------------------------------------------------------
(***************************************************************************)
(* The environment: remote services answer the requests of a connection in *)
(* order or close it; the runtime closes a socket nothing refers to.       *)
(***************************************************************************)
RemoteReply(c) ==
    LET s == socks[c] IN
    /\ s.open /\ s.sent # <<>>
    /\ \E k \in Kinds :
         socks' = [socks EXCEPT ![c] =
                     [s EXCEPT !.wire = @ \o Response(Head(s.sent), k),
                               !.sent = IF ConnectionClose(k) THEN <<>> ELSE Tail(@),
                               !.eof  = ConnectionClose(k)]]
    /\ UNCHANGED <<ctx, newRequests, notify, die, sched, pool, wconns, ops, notifiers, waiter>>

RemoteClose(c) ==
    /\ "reset" \in Faults
    /\ socks[c].open /\ ~socks[c].eof
    /\ socks' = [socks EXCEPT ![c].eof = TRUE, ![c].sent = <<>>]
    /\ UNCHANGED <<ctx, newRequests, notify, die, sched, pool, wconns, ops, notifiers, waiter>>

Collect(c) ==
    /\ socks[c].open
    /\ \A w \in Pooled : wconns[w].conn # c
    /\ \A o \in ops : o.conn # c
    /\ socks' = [socks EXCEPT ![c] = ClosedSocket]
    /\ UNCHANGED <<ctx, newRequests, notify, die, sched, pool, wconns, ops, notifiers, waiter>>
-----------------------------------------------------------------------------
Scheduler ==
    \/ TakeNotification \/ SwapNewRequests
    \/ SchedRefuse \/ SchedOnPool \/ SchedOnDial \/ ResumeRefused
    \/ TakeRetry \/ TakeCompleted \/ (\E r \in Requests : TakeNotified(r))
    \/ Resume \/ Finish \/ SchedulerExit

GiveUp == WaiterGivesUp \/ \E r \in Requests : NotifierGivesUp(r)

Waiter == \E o \in ops : \/ WriteDone(o) \/ WriteFailed(o)
                         \/ ReadData(o) \/ ReadEOF(o) \/ ReadTimeout(o)

Agents == Close \/ \E r \in Requests : DelegateAppend(r) \/ DelegateNotify(r)

Environment == \E c \in Conns : RemoteReply(c) \/ RemoteClose(c) \/ Collect(c)

Next == Agents \/ Scheduler \/ GiveUp \/ Waiter \/ Environment

Spec == Init /\ [][Next]_vars
-----------------------------------------------------------------------------
(***************************************************************************)
(* Fairness: the agents finish what they began, the two goroutines run,    *)
(* the library completes its operations (reads have a deadline).           *)
(***************************************************************************)
Fairness ==
    /\ \A r \in Requests : WF_vars(DelegateNotify(r))
    /\ WF_vars(Scheduler)
    /\ WF_vars(Waiter)

FairSpec == Spec /\ Fairness
-----------------------------------------------------------------------------
(***************************************************************************)
(* Properties.                                                             *)
(***************************************************************************)
\* Every variable has its type.
TypeOK ==
    /\ ctx \in [Requests -> Ctx]
    /\ newRequests \in Seq(Requests)
    /\ notify \in BOOLEAN
    /\ die \in BOOLEAN
    /\ sched \in SchedState
    /\ pool \in [Addrs -> SUBSET WConns]
    /\ wconns \in [WConns -> WConn]
    /\ ops \subseteq Op
    /\ notifiers \subseteq Requests
    /\ waiter \in WaiterState
    /\ socks \in [Conns -> Socket]

\* No lost wake-up: while requests wait in newRequests, the scheduler has been
\* notified, is about to swap the list, or an agent is still to notify it; the
\* token dropped by Delegate's default case is never the one that was needed.
NoLostWakeup ==
    newRequests # <<>> /\ sched.pc # "exit" =>
        \/ notify
        \/ sched.pc = "swap"
        \/ \E r \in Requests : ctx[r].phase = "appended"

\* A client is resumed at most once for a request, by the error of a dial, a
\* response, a failure or one of several reports of it, and only when the
\* response bytes have been decided.
ResumedOnce ==
    \A r \in Requests : /\ ctx[r].resumes <= 1
                        /\ ctx[r].resumes = 1 => ctx[r].outcome # "none"

\* Who will move request r on: an operation in the library, the IO goroutine
\* blocked on a channel, a notifier, the scheduler at work on its completion.
Drivers(r) ==
    {<<o.op, o.conn>> : o \in {o \in ops : o.ctx = r}}
        \cup (IF waiter.pc # "wait" /\ waiter.cur = r THEN {<<waiter.pc, NoConn>>} ELSE {})
        \cup (IF r \in notifiers THEN {<<"notifier", NoConn>>} ELSE {})
        \cup (IF sched.pc \in {"resume", "finish"} /\ sched.cur = r
              THEN {<<sched.pc, NoConn>>} ELSE {})

\* "Request will be submitted one by one" (the comment on requestList): the
\* front request of a connection has exactly one driver and those behind it
\* none, so none is forgotten, and none submitted twice or out of turn.
OneDriver ==
    ~die => \A w \in Pooled : LET list == wconns[w].requestList IN
        \A i \in DOMAIN list :
            /\ ctx[list[i]].wConn = w
            /\ Cardinality(Drivers(list[i])) = IF i = 1 THEN 1 ELSE 0

\* The request a completion is handled for is the front of its connection's
\* list, the element "remove front request" takes off without looking at it.
CompletesFront ==
    sched.pc \in {"resume", "finish"} =>
        LET list == wconns[ctx[sched.cur].wConn].requestList
        IN  list # <<>> /\ Head(list) = sched.cur

\* Pooled connections own distinct open sockets, and an operation in the
\* library is on the socket of its request's connection: Free never hits a
\* socket in use, through retries, reconnects and scale-down.
PoolOwnsSockets ==
    /\ \A w \in Pooled : wconns[w].conn # NoConn /\ socks[wconns[w].conn].open
    /\ \A v, w \in Pooled : v # w => wconns[v].conn # wconns[w].conn
    /\ \A o \in ops : LET w == ctx[o.ctx].wConn
                      IN  w \in Pooled /\ wconns[w].conn = o.conn

\* A response of these kinds may leave bytes of its body on a socket in use.
Misframed == {"early", "badbody", "badchunked"}

\* A client gets the response of its own request (the diagram above
\* DelegationProxy: REQ1 .. REQn, RESP1 .. RESPn), though connections carry
\* the requests of many clients, time out and are replaced.  The code keeps this
\* while no dial fails and no service sends one of the Misframed kinds.
OwnResponse ==
    \A r \in Requests : ctx[r].outcome = "data" =>
        LET bytes == ctx[r].respHeader \o ctx[r].respData
        IN  \A i \in DOMAIN bytes : bytes[i].of = r

\* A remote service never holds two unanswered requests of one connection
\* (under the same conditions).
OneOutstanding == \A c \in Conns : Len(socks[c].sent) <= 1

\* "maximum connections for a single URI" (the comment on maxConns): no more
\* pooled connections to a remote service than that.
PoolBound == \A a \in Addrs : Cardinality(pool[a]) <= MaxConns

\* Every delegated request is answered in the end, by a response or an error.
EventuallyResumed == \A r \in Requests : ctx[r].phase = "appended" ~> ctx[r].resumes = 1
-----------------------------------------------------------------------------
(***************************************************************************)
(* With one connection per service the proxy implements                    *)
(* SequentialDelegation: what is queued there is, of each service, the     *)
(* list of its connection, the scheduler's batch, and newRequests.         *)
(***************************************************************************)
\* The list of the one connection to service a.
ListAt(a) == IF pool[a] = {} THEN <<>>
             ELSE wconns[CHOOSE w \in pool[a] : TRUE].requestList

\* Requests for service a whose clients have not been resumed.
Owed(a) == {r \in Requests : RemoteAddr[r] = a /\ ctx[r].resumes = 0}

\* Them, in the order in which they are queued.
Unanswered(a) == Only(ListAt(a) \o sched.batch \o newRequests, Owed(a))

Queues == [a \in Addrs |-> Unanswered(a)]

Resumed == {r \in Requests : ctx[r].resumes > 0}

Sequential == INSTANCE SequentialDelegation WITH queue <- Queues, answered <- Resumed

\* The refinement: order, once each, and (under FairSpec) eventually.
ImplementsSequential == Sequential!Spec
=============================================================================
