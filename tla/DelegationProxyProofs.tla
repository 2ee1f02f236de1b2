------------------------ MODULE DelegationProxyProofs ------------------------
(***************************************************************************)
(* Theorems about DelegationProxy, for any number of requests, services    *)
(* and connections, any responses and any faults: the queues, then who     *)
(* owns the sockets of the pool and who moves each request on.             *)
(***************************************************************************)
EXTENDS DelegationProxyInv, SequenceLemmas, SequenceTheorems, FiniteSetTheorems, TLAPS

(***************************************************************************)
(* What the helpers return.                                                *)
(***************************************************************************)
\* A socket as it is after a dial, or once freed, has its type.
LEMMA SocketKinds == ClosedSocket \in Socket /\ OpenSocket \in Socket
  BY DEF ClosedSocket, OpenSocket, Socket

\* A dial yields a socket name, or none.
LEMMA DialType == Dial \subseteq Conns \cup {NoConn}
  BY DEF Dial, FreeConns

\* The scheduler's next place is one.
LEMMA NextInBatchType ==
    ASSUME NEW b \in Seq(Requests)
    PROVE  NextInBatch(b) \in SchedState
  BY DEF NextInBatch, SchedState

\* Freeing and opening sockets yields sockets.
LEMMA SocketsType ==
    ASSUME TypeOK, NEW freed, NEW dialled
    PROVE  Sockets(freed, dialled) \in [Conns -> Socket]
  BY SocketKinds DEF TypeOK, Sockets

\* What the assignments to the fields of a weightedConn yield.
LEMMA WConnUpdates ==
    ASSUME NEW v \in WConn
    PROVE  /\ \A l : [v EXCEPT !.requestList = l] = [conn |-> v.conn, requestList |-> l]
           /\ \A c : [v EXCEPT !.conn = c] = [conn |-> c, requestList |-> v.requestList]
  BY DEF WConn

\* A submission adds an operation or a notifier.
LEMMA SubmitType ==
    ASSUME TypeOK, NEW r \in Requests, NEW c \in Conns, NEW told \in Requests,
           Submit(r, c, told)
    PROVE  ops' \subseteq Op /\ notifiers' \subseteq Requests
<1>1. [ctx |-> r, op |-> "write", conn |-> c] \in Op
  BY DEF Op
<1>2. QED BY <1>1 DEF Submit, TypeOK

\* What the response handling leaves alone of a request: where it is queued,
\* whether it is done, what its client got.
SameFate(c, d) ==
    /\ d.phase = c.phase /\ d.wConn = c.wConn /\ d.done = c.done
    /\ d.outcome = c.outcome /\ d.resumes = c.resumes
Proceeds(c, p) ==
    /\ p.ctx \in Ctx
    /\ SameFate(c, p.ctx)
    /\ p.verdict \in {"again", "complete", "fail"}

\* procBody yields a context with the same fate and a verdict.
LEMMA ProcBodyType ==
    ASSUME NEW c \in Ctx, NEW e
    PROVE  Proceeds(c, procBody(c, e))
<1>1. CASE HasResponse(c, e)
  <2>1. Body(c) \in Seq(Token)
    <3>1. c.buffer \in Seq(Token)
      BY DEF Ctx
    <3>2. CASE Head(c.respHeader).kind = "zero"
      BY <3>2 DEF Body
    <3>3. CASE Head(c.respHeader).kind \in {"length", "close"}
      BY <1>1, <3>1, <3>3 DEF Body, HasResponse, UntilEOF, Chunked
    <3>4. CASE Head(c.respHeader).kind \notin {"zero", "length", "close"}
      BY <3>1, <3>4 DEF Body
    <3>5. QED BY <3>2, <3>3, <3>4
  <2>2. procBody(c, e) = [ctx |-> [c EXCEPT !.respData = Body(c)], verdict |-> "complete"]
    BY <1>1 DEF procBody
  <2>3. \A d \in Seq(Token) : [c EXCEPT !.respData = d] \in Ctx /\ SameFate(c, [c EXCEPT !.respData = d])
    BY DEF Ctx, SameFate
  <2>4. QED BY <2>1, <2>2, <2>3 DEF Proceeds
<1>2. CASE ~HasResponse(c, e)
  <2>1. procBody(c, e).ctx = c /\ procBody(c, e).verdict \in {"again", "fail"}
    BY <1>2 DEF procBody
  <2>2. QED BY <2>1 DEF SameFate, Proceeds
<1>3. QED BY <1>1, <1>2

\* So does procHeader.
LEMMA ProcHeaderType ==
    ASSUME NEW c \in Ctx, NEW e
    PROVE  Proceeds(c, procHeader(c, e))
<1> DEFINE first == Head(c.buffer)
           good  == /\ \E i \in DOMAIN c.buffer : EndsHeader(c.buffer[i])
                    /\ first.part = "header" /\ first.kind \notin Refused
           d == [c EXCEPT !.respHeader = <<first>>,
                          !.disconnected = @ \/ ConnectionClose(first.kind),
                          !.buffer = Tail(@), !.protoState = "body"]
<1>1. CASE ~good
  <2>1. procHeader(c, e).ctx = c /\ procHeader(c, e).verdict \in {"again", "fail"}
    BY <1>1 DEF procHeader
  <2>2. QED BY <2>1 DEF SameFate, Proceeds
<1>2. CASE good
  <2>1. c.buffer \in Seq(Token) /\ c.buffer # <<>>
    BY <1>2 DEF Ctx
  <2>2. <<first>> \in Seq(Token) /\ Tail(c.buffer) \in Seq(Token)
    BY <2>1
  <2>3. d \in Ctx /\ SameFate(c, d)
    <3>1. \A h, t \in Seq(Token), b \in BOOLEAN :
            LET q == [c EXCEPT !.respHeader = h, !.disconnected = b, !.buffer = t,
                               !.protoState = "body"]
            IN  q \in Ctx /\ SameFate(c, q)
      <4> TAKE h, t \in Seq(Token), b \in BOOLEAN
      <4> DEFINE q == [c EXCEPT !.respHeader = h, !.disconnected = b, !.buffer = t,
                                !.protoState = "body"]
      <4>1. q \in Ctx
        BY DEF Ctx
      <4>2. SameFate(c, q)
        BY DEF Ctx, SameFate
      <4>3. QED BY <4>1, <4>2
    <3>2. (c.disconnected \/ ConnectionClose(first.kind)) \in BOOLEAN
      OBVIOUS
    <3>3. d = [c EXCEPT !.respHeader = <<first>>,
                        !.disconnected = (c.disconnected \/ ConnectionClose(first.kind)),
                        !.buffer = Tail(c.buffer), !.protoState = "body"]
      BY DEF Ctx
    <3>4. QED BY <2>2, <3>1, <3>2, <3>3
  <2>4. procHeader(c, e) = procBody(d, e)
    BY <1>2 DEF procHeader
  <2> HIDE DEF d
  <2>5. Proceeds(d, procBody(d, e))
    BY <2>3, ProcBodyType
  <2>6. QED BY <2>3, <2>4, <2>5 DEF Proceeds, SameFate
<1>3. QED BY <1>1, <1>2

(***************************************************************************)
(* Type correctness.                                                       *)
(***************************************************************************)
\* The assignments the actions make to the fields of a RemoteContext keep its
\* type.
LEMMA CtxType ==
    ASSUME NEW c \in Ctx
    PROVE  /\ \A p \in {"appended", "delegated"} : [c EXCEPT !.phase = p] \in Ctx
           /\ \A o \in Outcome : [c EXCEPT !.outcome = o] \in Ctx
           /\ \A w \in WConns : [c EXCEPT !.wConn = w] \in Ctx
           /\ [c EXCEPT !.resumes = @ + 1] \in Ctx
           /\ [c EXCEPT !.retries = @ + 1] \in Ctx
           /\ [c EXCEPT !.err = TRUE] \in Ctx
           /\ \A e \in BOOLEAN : [c EXCEPT !.disconnected = TRUE, !.err = e] \in Ctx
           /\ \A m \in Nat, e \in BOOLEAN : [c EXCEPT !.retries = @ + m, !.err = e] \in Ctx
<1>1. \A p \in {"appended", "delegated"} : [c EXCEPT !.phase = p] \in Ctx
  BY DEF Ctx
<1>2. \A o \in Outcome : [c EXCEPT !.outcome = o] \in Ctx
  BY DEF Ctx
<1>3. \A w \in WConns : [c EXCEPT !.wConn = w] \in Ctx
  BY DEF Ctx
<1>4. [c EXCEPT !.resumes = @ + 1] \in Ctx
  BY SMTT(30) DEF Ctx
<1>5. [c EXCEPT !.retries = @ + 1] \in Ctx
  BY DEF Ctx
<1>6. [c EXCEPT !.err = TRUE] \in Ctx
  BY DEF Ctx
<1>7. \A e \in BOOLEAN : [c EXCEPT !.disconnected = TRUE, !.err = e] \in Ctx
  BY DEF Ctx
<1>8. \A m \in Nat, e \in BOOLEAN : [c EXCEPT !.retries = @ + m, !.err = e] \in Ctx
  <2> TAKE m \in Nat, e \in BOOLEAN
  <2>1. c.retries + m \in Nat
    BY DEF Ctx
  <2>2. \A n \in Nat : [c EXCEPT !.retries = n, !.err = e] \in Ctx
    BY DEF Ctx
  <2>3. QED BY <2>1, <2>2, Zenon
<1>9. QED BY <1>1, <1>2, <1>3, <1>4, <1>5, <1>6, <1>7, <1>8

\* The initial state has its type.
LEMMA InitType == Init => TypeOK
<1> SUFFICES ASSUME Init PROVE TypeOK
  OBVIOUS
<1>1. ctx \in [Requests -> Ctx]
  <2>1. NewContext \in Ctx
    BY DEF NewContext, Ctx, Outcome, NoWConn
  <2>2. QED BY <2>1 DEF Init
<1>2. sched \in SchedState /\ waiter \in WaiterState
  BY DEF Init, SchedState, WaiterState
<1>3. wconns \in [WConns -> WConn]
  <2>1. [conn |-> NoConn, requestList |-> <<>>] \in WConn
    BY DEF WConn
  <2>2. QED BY <2>1 DEF Init
<1>4. socks \in [Conns -> Socket] /\ pool \in [Addrs -> SUBSET WConns]
  BY SocketKinds DEF Init
<1>5. newRequests \in Seq(Requests)
  BY DEF Init
<1>8. notify \in BOOLEAN /\ die \in BOOLEAN
  BY DEF Init
<1>6. ops \subseteq Op /\ notifiers \subseteq Requests
  BY DEF Init
<1>7. QED BY <1>1, <1>2, <1>3, <1>4, <1>5, <1>6, <1>8 DEF TypeOK

(***************************************************************************)
(* Steps that decide nothing.                                              *)
(***************************************************************************)
\* A step preserves the invariant when it leaves the queues, the pool and the
\* scheduler alone, the fate of every request the same, and makes no other
\* request active: all the steps of the library, the IO goroutine and the
\* environment.
LEMMA FrameStep ==
    ASSUME QueueInv, TypeOK', UNCHANGED <<newRequests, sched, pool>>,
           \A w \in WConns : /\ wconns'[w].requestList = wconns[w].requestList
                             /\ wconns[w].conn # NoConn => wconns'[w].conn # NoConn,
           \A r \in Requests : SameFate(ctx[r], ctx'[r]) /\ (Active(r)' => Active(r)),
           waiter'.pc # "wait" => waiter'.cur \in Requests
    PROVE  QueueInv'
<1> USE DEF QueueInv, SameFate
<1>0. /\ \A a \in Addrs : pool[a] \subseteq WConns
      /\ \A r \in Requests : ctx[r].wConn # NoWConn => ctx[r].wConn \in WConns
      /\ \A w \in WConns : wconns[w].requestList \in Seq(Requests)
  BY DEF TypeOK, Ctx, WConn
<1>1. ConnsNamed'
  BY <1>0 DEF ConnsNamed, Pooled
<1>2. ActiveIsFront'
  BY <1>0 DEF ActiveIsFront, ListOf
<1>3. SchedulerAtWork'
  BY <1>0 DEF SchedulerAtWork, ListOf, TypeOK, SchedState
<1>4. ListsOwned'
  BY <1>0 DEF ListsOwned, Unpooled, Pooled
<1>5. WaitsOnce'
  BY DEF WaitsOnce
<1>6. WaitsFresh'
  BY DEF WaitsFresh, Waits, Fresh
<1>7. DoneFirst'
  BY DEF DoneFirst
<1>8. ResumedOnce'
  BY DEF ResumedOnce
<1>9. QED BY <1>1, <1>2, <1>3, <1>4, <1>5, <1>6, <1>7, <1>8

\* What such steps have in common.
Quiet == /\ UNCHANGED <<newRequests, notify, sched, pool>>
         /\ \A r \in Requests : SameFate(ctx[r], ctx'[r])

\* A read's result, whatever it is.
LEMMA ReadResultStep ==
    ASSUME QueueInv, NEW o \in ops, waiter.pc = "wait",
           NEW got \in Seq(Token), NEW error, ReadResult(o, got, error),
           socks' \in [Conns -> Socket]
    PROVE  QueueInv' /\ Quiet
<1> DEFINE r == o.ctx
           c == [ctx[r] EXCEPT !.buffer = @ \o got,
                               !.disconnected = @ \/ Breaks(error)]
           res == IF c.protoState = "header" THEN procHeader(c, error)
                  ELSE procBody(c, error)
<1>1. o \in Op /\ r \in Requests /\ ctx[r] \in Ctx
  BY DEF QueueInv, TypeOK, Op
<1>2. c \in Ctx /\ SameFate(ctx[r], c)
  <2>1. \A b \in Seq(Token), d \in BOOLEAN :
          LET q == [ctx[r] EXCEPT !.buffer = b, !.disconnected = d]
          IN  q \in Ctx /\ SameFate(ctx[r], q)
    <3> TAKE b \in Seq(Token), d \in BOOLEAN
    <3>1. [ctx[r] EXCEPT !.buffer = b, !.disconnected = d] \in Ctx
      BY <1>1 DEF Ctx
    <3>2. SameFate(ctx[r], [ctx[r] EXCEPT !.buffer = b, !.disconnected = d])
      BY <1>1 DEF Ctx, SameFate
    <3>3. QED BY <3>1, <3>2
  <2>2. ctx[r].buffer \o got \in Seq(Token)
    BY <1>1 DEF Ctx
  <2>3. (ctx[r].disconnected \/ Breaks(error)) \in BOOLEAN
    OBVIOUS
  <2>4. c = [ctx[r] EXCEPT !.buffer = ctx[r].buffer \o got,
                           !.disconnected = (ctx[r].disconnected \/ Breaks(error))]
    BY <1>1 DEF Ctx
  <2>5. QED BY <2>1, <2>2, <2>3, <2>4
<1> HIDE DEF c
<1>3. Proceeds(c, res)
  BY <1>2, ProcHeaderType, ProcBodyType
<1> HIDE DEF res
<1>4. \E d \in Ctx : SameFate(ctx[r], d) /\ ctx' = [ctx EXCEPT ![r] = d]
  <2>1. res.ctx \in Ctx /\ SameFate(ctx[r], res.ctx)
    BY <1>2, <1>3 DEF Proceeds, SameFate
  <2>2. [res.ctx EXCEPT !.err = TRUE] \in Ctx /\ SameFate(ctx[r], [res.ctx EXCEPT !.err = TRUE])
    <3>1. [res.ctx EXCEPT !.err = TRUE] \in Ctx
      BY <2>1, CtxType
    <3>2. SameFate(res.ctx, [res.ctx EXCEPT !.err = TRUE])
      BY <2>1 DEF SameFate, Ctx
    <3>3. QED BY <2>1, <3>1, <3>2 DEF SameFate
  <2>3. QED BY <2>1, <2>2 DEF ReadResult, res, c
<1>5. \/ ops' = ops /\ waiter' = waiter
      \/ ops' = ops \ {o} /\ waiter' = Blocked("complete", r)
  BY DEF ReadResult
<1>6. UNCHANGED <<newRequests, notify, die, sched, pool, wconns, notifiers>>
  BY DEF ReadResult
<1>7. Blocked("complete", r) \in WaiterState
  BY <1>1 DEF Blocked, WaiterState
<1>8. TypeOK'
  BY <1>4, <1>5, <1>6, <1>7 DEF QueueInv, TypeOK
<1>9. \A q \in Requests : SameFate(ctx[q], ctx'[q])
  BY <1>1, <1>4 DEF SameFate, QueueInv, TypeOK
<1>10. \A q \in Requests : Active(q)' => Active(q)
  BY <1>1, <1>5, <1>6 DEF Active, Blocked
<1>11. waiter'.pc # "wait" => waiter'.cur \in Requests
  BY <1>1, <1>5 DEF Blocked
<1>12. QED BY <1>6, <1>8, <1>9, <1>10, <1>11, FrameStep DEF Quiet

\* The goroutine that waits for IO results preserves the invariant.
LEMMA WaiterStep == QueueInv /\ Waiter => QueueInv' /\ Quiet
<1> SUFFICES ASSUME QueueInv, NEW o \in ops,
                    \/ WriteDone(o) \/ WriteFailed(o)
                    \/ ReadData(o) \/ ReadEOF(o) \/ ReadTimeout(o)
             PROVE  QueueInv' /\ Quiet
  BY DEF Waiter
<1>1. /\ o \in Op /\ o.ctx \in Requests /\ o.conn \in Conns /\ ctx[o.ctx] \in Ctx
      /\ socks[o.conn] \in Socket
  BY DEF QueueInv, TypeOK, Op
<1>2. CASE WriteDone(o)
  <2>1. socks' \in [Conns -> Socket]
    <3>1. [socks[o.conn] EXCEPT !.sent = Append(@, o.ctx)] \in Socket
      <4>1. Append(socks[o.conn].sent, o.ctx) \in Seq(Requests)
        BY <1>1 DEF Socket
      <4>2. QED BY <1>1, <4>1 DEF Socket
    <3>2. QED BY <1>2, <3>1 DEF WriteDone, QueueInv, TypeOK
  <2>2. [o EXCEPT !.op = "read"] \in Op /\ [o EXCEPT !.op = "read"].ctx = o.ctx
    BY <1>1 DEF Op
  <2>3. TypeOK'
    BY <1>2, <2>1, <2>2 DEF WriteDone, QueueInv, TypeOK
  <2>4. \A q \in Requests : Active(q)' => Active(q)
    BY <1>1, <1>2, <2>2 DEF WriteDone, Active
  <2>5. QED BY <1>2, <2>3, <2>4, FrameStep DEF WriteDone, Quiet, SameFate, QueueInv, ActiveIsFront
<1>3. CASE WriteFailed(o)
  <2> DEFINE retry == ctx[o.ctx].retries < MaxRetry
             d == [ctx[o.ctx] EXCEPT !.disconnected = TRUE,
                                     !.err = (ctx[o.ctx].err \/ ~retry)]
  <2>1. d \in Ctx /\ SameFate(ctx[o.ctx], d)
    <3>1. (ctx[o.ctx].err \/ ~retry) \in BOOLEAN
      OBVIOUS
    <3>2. d \in Ctx
      BY <1>1, <3>1, CtxType
    <3>3. SameFate(ctx[o.ctx], d)
      BY <1>1 DEF SameFate, Ctx
    <3>4. QED BY <3>2, <3>3
  <2>2. ctx' = [ctx EXCEPT ![o.ctx] = d]
    BY <1>1, <1>3 DEF WriteFailed, QueueInv, TypeOK
  <2> HIDE DEF d
  <2>3. waiter' \in WaiterState /\ waiter'.cur = o.ctx
    BY <1>1, <1>3 DEF WriteFailed, Blocked, WaiterState
  <2>4. TypeOK'
    BY <1>3, <2>1, <2>2, <2>3 DEF WriteFailed, QueueInv, TypeOK
  <2>5. \A q \in Requests : SameFate(ctx[q], ctx'[q])
    BY <1>1, <2>1, <2>2 DEF SameFate, QueueInv, TypeOK
  <2>6. \A q \in Requests : Active(q)' => Active(q)
    BY <1>1, <1>3, <2>3 DEF WriteFailed, Active
  <2>7. QED BY <1>1, <1>3, <2>3, <2>4, <2>5, <2>6, FrameStep DEF WriteFailed, Quiet
<1>4. CASE ReadData(o)
  <2>1. PICK n \in 1 .. Len(socks[o.conn].wire) :
          /\ socks' = [socks EXCEPT ![o.conn].wire = SubSeq(@, n + 1, Len(@))]
          /\ ReadResult(o, SubSeq(socks[o.conn].wire, 1, n), "nil")
    BY <1>4 DEF ReadData
  <2>2. socks[o.conn].wire \in Seq(Token)
    BY <1>1 DEF Socket
  <2>3. SubSeq(socks[o.conn].wire, 1, n) \in Seq(Token)
        /\ SubSeq(socks[o.conn].wire, n + 1, Len(socks[o.conn].wire)) \in Seq(Token)
    BY <2>2
  <2>4. [socks[o.conn] EXCEPT !.wire = SubSeq(@, n + 1, Len(@))] \in Socket
    BY <1>1, <2>3 DEF Socket
  <2>5. socks' \in [Conns -> Socket]
    BY <2>1, <2>4 DEF QueueInv, TypeOK
  <2>6. QED BY <1>4, <2>1, <2>3, <2>5, ReadResultStep DEF ReadData
<1>5. CASE ReadEOF(o)
  <2>1. <<>> \in Seq(Token)
    OBVIOUS
  <2>2. QED BY <1>5, <2>1, ReadResultStep DEF ReadEOF, QueueInv, TypeOK
<1>6. CASE ReadTimeout(o)
  <2>1. <<>> \in Seq(Token)
    OBVIOUS
  <2>2. QED BY <1>6, <2>1, ReadResultStep DEF ReadTimeout, QueueInv, TypeOK
<1>7. QED BY <1>2, <1>3, <1>4, <1>5, <1>6

\* A retry is one of these steps too: it resubmits an active request.
LEMMA TakeRetryStep == QueueInv /\ TakeRetry => QueueInv'
<1> SUFFICES ASSUME QueueInv, TakeRetry PROVE QueueInv'
  OBVIOUS
<1> DEFINE r == waiter.cur
           w == ctx[r].wConn
           old == wconns[w].conn
<1>1. /\ r \in Requests /\ Active(r) /\ w \in WConns /\ old \in Conns
      /\ wconns \in [WConns -> WConn] /\ ctx[r] \in Ctx
  <2>1. r \in Requests /\ Active(r)
    BY DEF TakeRetry, QueueInv, ActiveIsFront, Active
  <2>2. w # NoWConn /\ ctx[r] \in Ctx
    BY <2>1 DEF QueueInv, ActiveIsFront, TypeOK
  <2>3. w \in WConns
    BY <2>2 DEF Ctx
  <2>4. old \in Conns
    BY <2>1, <2>2, <2>3 DEF QueueInv, ConnsNamed, TypeOK, WConn
  <2>5. QED BY <2>1, <2>2, <2>3, <2>4 DEF QueueInv, TypeOK
<1>2. PICK c \in Dial :
         IF c = NoConn
         THEN /\ Submit(r, old, r)
              /\ UNCHANGED <<wconns, socks>>
         ELSE /\ wconns' = [wconns EXCEPT ![w].conn = c]
              /\ socks' = Sockets({old}, c)
              /\ Submit(r, c, r)
  BY DEF TakeRetry
<1>3. \E d \in Conns : Submit(r, d, r)
  BY <1>1, <1>2, DialType
<1>4. ops' \subseteq Op /\ notifiers' \subseteq Requests
  BY <1>1, <1>3, SubmitType DEF QueueInv
<1>5. /\ wconns' \in [WConns -> WConn] /\ socks' \in [Conns -> Socket]
      /\ \A v \in WConns : /\ wconns'[v].requestList = wconns[v].requestList
                           /\ wconns[v].conn # NoConn => wconns'[v].conn # NoConn
  <2>1. CASE c = NoConn
    BY <1>1, <1>2, <2>1 DEF QueueInv, TypeOK
  <2>2. CASE c # NoConn
    <3>1. socks' \in [Conns -> Socket]
      BY <1>2, <2>2, SocketsType DEF QueueInv
    <3>2. [wconns[w] EXCEPT !.conn = c] \in WConn
      BY <1>1, <2>2, DialType DEF WConn
    <3>3. wconns' = [wconns EXCEPT ![w] = [wconns[w] EXCEPT !.conn = c]]
      BY <1>2, <2>2
    <3>4. [wconns[w] EXCEPT !.conn = c].requestList = wconns[w].requestList
          /\ [wconns[w] EXCEPT !.conn = c].conn = c
      BY <1>1 DEF WConn
    <3>5. QED BY <1>1, <2>2, <3>1, <3>2, <3>3, <3>4
  <2>3. QED BY <2>1, <2>2
<1>6. [ctx[r] EXCEPT !.retries = @ + 1] \in Ctx
      /\ SameFate(ctx[r], [ctx[r] EXCEPT !.retries = @ + 1])
  <2>1. [ctx[r] EXCEPT !.retries = @ + 1] \in Ctx
    BY <1>1, CtxType
  <2>2. SameFate(ctx[r], [ctx[r] EXCEPT !.retries = @ + 1])
    BY <1>1 DEF Ctx, SameFate
  <2>3. QED BY <2>1, <2>2
<1>7. ctx' \in [Requests -> Ctx] /\ \A q \in Requests : SameFate(ctx[q], ctx'[q])
  BY <1>1, <1>6 DEF TakeRetry, QueueInv, TypeOK, SameFate
<1>8. waiter' \in WaiterState /\ waiter'.pc = "wait"
  BY DEF TakeRetry, WaiterState
<1>9. TypeOK'
  BY <1>4, <1>5, <1>7, <1>8 DEF TakeRetry, QueueInv, TypeOK
<1>10. \A q \in Requests : Active(q)' => Active(q)
  <2>1. \A q \in Requests : Active(q)' => Active(q) \/ q = r
    BY <1>3, <1>8 DEF Submit, Active
  <2>2. QED BY <1>1, <2>1
<1>11. QED BY <1>5, <1>7, <1>8, <1>9, <1>10, FrameStep DEF TakeRetry

\* The remote services and the runtime preserve the invariant.
LEMMA EnvironmentStep == QueueInv /\ Environment => QueueInv' /\ Quiet
<1> SUFFICES ASSUME QueueInv, NEW c \in Conns, RemoteReply(c) \/ RemoteClose(c) \/ Collect(c)
             PROVE  QueueInv' /\ Quiet
  BY DEF Environment
<1>1. UNCHANGED <<ctx, newRequests, notify, die, sched, pool, wconns, ops, notifiers, waiter>>
  BY DEF RemoteReply, RemoteClose, Collect
<1>2. socks[c] \in Socket
  BY DEF QueueInv, TypeOK
<1>3. \A s \in Seq(Requests), t \in Seq(Token), e \in BOOLEAN :
        [socks[c] EXCEPT !.sent = s, !.wire = t, !.eof = e] \in Socket
  BY <1>2 DEF Socket
<1>4. socks' \in [Conns -> Socket]
  <2>1. CASE RemoteReply(c)
    <3>1. PICK k \in Kinds :
             socks' = [socks EXCEPT ![c] =
                [socks[c] EXCEPT !.wire = @ \o Response(Head(socks[c].sent), k),
                                 !.sent = IF ConnectionClose(k) THEN <<>> ELSE Tail(@),
                                 !.eof  = ConnectionClose(k)]]
      BY <2>1 DEF RemoteReply
    <3> DEFINE q == Head(socks[c].sent)
               wire == socks[c].wire \o Response(q, k)
               sent == IF ConnectionClose(k) THEN <<>> ELSE Tail(socks[c].sent)
    <3>2. q \in Requests /\ sent \in Seq(Requests)
      <4>1. socks[c].sent \in Seq(Requests) /\ socks[c].sent # <<>>
        BY <1>2, <2>1 DEF RemoteReply, Socket
      <4>2. QED BY <4>1
    <3>3. wire \in Seq(Token)
      <4>1. Response(q, k) \in Seq(Token)
        <5>1. \A p \in {"header", "body", "rest"} : [of |-> q, part |-> p, kind |-> k] \in Token
          BY <3>2 DEF Token
        <5>2. QED BY <5>1 DEF Response
      <4>2. QED BY <1>2, <4>1 DEF Socket
    <3>4. ConnectionClose(k) \in BOOLEAN
      BY DEF ConnectionClose
    <3>5. socks' = [socks EXCEPT ![c] = [socks[c] EXCEPT !.sent = sent, !.wire = wire,
                                                         !.eof = ConnectionClose(k)]]
      BY <1>2, <3>1 DEF Socket
    <3> HIDE DEF wire, sent
    <3>6. QED BY <1>3, <3>2, <3>3, <3>4, <3>5 DEF QueueInv, TypeOK
  <2>2. CASE RemoteClose(c)
    <3>1. [socks[c] EXCEPT !.eof = TRUE, !.sent = <<>>] \in Socket
      <4>1. \A s \in Seq(Requests) : [socks[c] EXCEPT !.eof = TRUE, !.sent = s] \in Socket
        BY <1>2 DEF Socket
      <4>2. <<>> \in Seq(Requests)
        OBVIOUS
      <4>3. QED BY <4>1, <4>2
    <3>2. socks' = [socks EXCEPT ![c] = [socks[c] EXCEPT !.eof = TRUE, !.sent = <<>>]]
      BY <1>2, <2>2 DEF RemoteClose, QueueInv, TypeOK, Socket
    <3>3. QED BY <3>1, <3>2 DEF QueueInv, TypeOK
  <2>3. CASE Collect(c)
    BY <2>3, SocketKinds DEF Collect, QueueInv, TypeOK
  <2>4. QED BY <2>1, <2>2, <2>3
<1>5. TypeOK'
  BY <1>1, <1>4 DEF QueueInv, TypeOK
<1>6. QED BY <1>1, <1>5, FrameStep DEF Active, Quiet, SameFate, QueueInv, ActiveIsFront

\* A blocked sender that gives up after Close preserves the invariant.
LEMMA GiveUpStep == QueueInv /\ GiveUp => QueueInv' /\ Quiet
<1> SUFFICES ASSUME QueueInv, GiveUp PROVE QueueInv' /\ Quiet
  OBVIOUS
<1>1. CASE WaiterGivesUp
  <2>1. waiter.cur \in Requests /\ ctx[waiter.cur] \in Ctx
    BY <1>1 DEF WaiterGivesUp, QueueInv, ActiveIsFront, TypeOK
  <2> DEFINE n == IF waiter.pc = "retry" THEN 1 ELSE 0
             e == ctx[waiter.cur].err \/ (waiter.pc = "complete" /\ ~ctx[waiter.cur].err)
             d == [ctx[waiter.cur] EXCEPT !.retries = @ + n, !.err = e]
  <2>10. n \in Nat
    OBVIOUS
  <2>11. e \in BOOLEAN
    OBVIOUS
  <2>4. ctx' = [ctx EXCEPT ![waiter.cur] = d]
    BY <1>1, <2>1 DEF WaiterGivesUp, QueueInv, TypeOK
  <2> HIDE DEF n, e
  <2>2. d \in Ctx
    BY <2>1, <2>10, <2>11, CtxType, Zenon
  <2>3. SameFate(ctx[waiter.cur], d)
    BY <2>1 DEF Ctx, SameFate
  <2> HIDE DEF d
  <2>5. ctx' \in [Requests -> Ctx] /\ \A q \in Requests : SameFate(ctx[q], ctx'[q])
    BY <2>1, <2>2, <2>3, <2>4 DEF QueueInv, TypeOK, SameFate
  <2>6. waiter' \in WaiterState /\ (waiter' = waiter \/ waiter'.pc = "wait")
    BY <1>1 DEF WaiterGivesUp, WaiterState, QueueInv, TypeOK
  <2>7. TypeOK'
    BY <1>1, <2>5, <2>6 DEF WaiterGivesUp, QueueInv, TypeOK
  <2>8. \A q \in Requests : Active(q)' => Active(q)
    BY <1>1, <2>6 DEF WaiterGivesUp, Active
  <2>9. QED BY <1>1, <2>1, <2>5, <2>6, <2>7, <2>8, FrameStep DEF WaiterGivesUp, Quiet
<1>2. ASSUME NEW r \in Requests, NotifierGivesUp(r)
      PROVE  QueueInv' /\ Quiet
  <2>1. TypeOK'
    BY <1>2 DEF NotifierGivesUp, QueueInv, TypeOK
  <2>2. \A q \in Requests : Active(q)' => Active(q)
    BY <1>2 DEF NotifierGivesUp, Active
  <2>3. QED BY <1>2, <2>1, <2>2, FrameStep DEF NotifierGivesUp, Quiet, SameFate, QueueInv, ActiveIsFront
<1>3. QED BY <1>1, <1>2 DEF GiveUp

\* Nothing happens to the invariant when nothing happens.
LEMMA StutterStep == QueueInv /\ UNCHANGED vars => QueueInv' /\ Quiet
<1> SUFFICES ASSUME QueueInv, UNCHANGED vars PROVE QueueInv' /\ Quiet
  OBVIOUS
<1>1. TypeOK'
  BY DEF vars, QueueInv, TypeOK
<1>2. QED BY <1>1, FrameStep DEF vars, Active, Quiet, SameFate, QueueInv, ActiveIsFront

(***************************************************************************)
(* Delegate and Close.                                                     *)
(***************************************************************************)
\* A request enters newRequests once: it is then no longer idle.
LEMMA DelegateAppendStep ==
    ASSUME QueueInv, NEW r \in Requests, DelegateAppend(r)
    PROVE  QueueInv'
<1> USE DEF QueueInv
<1> DEFINE d == [ctx[r] EXCEPT !.phase = "appended"]
<1>1. ctx[r] \in Ctx /\ d \in Ctx
  BY CtxType DEF TypeOK
<1>2. /\ d.wConn = ctx[r].wConn /\ d.done = ctx[r].done /\ d.outcome = ctx[r].outcome
      /\ d.resumes = ctx[r].resumes /\ d.phase = "appended"
  BY <1>1 DEF Ctx
<1>3. ctx' = [ctx EXCEPT ![r] = d]
  BY DEF DelegateAppend
<1> HIDE DEF d
<1>4. ctx' \in [Requests -> Ctx]
  BY <1>1, <1>3 DEF TypeOK
<1>5. \A q \in Requests : /\ ctx'[q].wConn = ctx[q].wConn /\ ctx'[q].done = ctx[q].done
                          /\ ctx'[q].outcome = ctx[q].outcome
                          /\ ctx'[q].resumes = ctx[q].resumes
                          /\ ctx'[q].phase = IF q = r THEN "appended" ELSE ctx[q].phase
  BY <1>2, <1>3 DEF TypeOK
<1>6. newRequests \in Seq(Requests) /\ newRequests' = Append(newRequests, r)
      /\ newRequests' \in Seq(Requests)
  BY DEF TypeOK, DelegateAppend
<1>7. UNCHANGED <<notify, die, sched, pool, wconns, ops, notifiers, waiter, socks>>
  BY DEF DelegateAppend
<1>8. TypeOK'
  BY <1>4, <1>6, <1>7 DEF TypeOK
<1>9. ~Waits(r) /\ Fresh(ctx[r])
  BY DEF WaitsFresh, DelegateAppend
<1>10. /\ \A a \in Addrs : pool[a] \subseteq WConns
       /\ \A w \in WConns : wconns[w].requestList \in Seq(Requests)
  BY DEF TypeOK, WConn
<1>11. ConnsNamed'
  BY <1>5, <1>7, <1>10 DEF ConnsNamed, Pooled
<1>12. ActiveIsFront'
  BY <1>5, <1>7 DEF ActiveIsFront, Active, ListOf
<1>13. SchedulerAtWork'
  BY <1>5, <1>7 DEF SchedulerAtWork, ListOf, TypeOK, SchedState
<1>14. ListsOwned'
  BY <1>5, <1>7, <1>10 DEF ListsOwned, Unpooled, Pooled
<1>15. WaitsOnce'
  BY <1>6, <1>7, <1>9 DEF WaitsOnce, Waits
<1>16. WaitsFresh'
  <2>1. \A q \in Requests : Waits(q)' => Waits(q) \/ q = r
    BY <1>6, <1>7 DEF Waits
  <2>2. QED BY <1>5, <1>9, <2>1 DEF WaitsFresh, Fresh
<1>17. DoneFirst'
  BY <1>5 DEF DoneFirst
<1>18. ResumedOnce'
  BY <1>5 DEF ResumedOnce
<1>19. QED BY <1>8, <1>11, <1>12, <1>13, <1>14, <1>15, <1>16, <1>17, <1>18

\* The notification that follows changes nothing the invariant speaks of.
LEMMA DelegateNotifyStep ==
    ASSUME QueueInv, NEW r \in Requests, DelegateNotify(r)
    PROVE  QueueInv'
<1> USE DEF QueueInv
<1> DEFINE d == [ctx[r] EXCEPT !.phase = "delegated"]
<1>1. ctx[r] \in Ctx /\ d \in Ctx
  BY CtxType DEF TypeOK
<1>2. /\ d.wConn = ctx[r].wConn /\ d.done = ctx[r].done /\ d.outcome = ctx[r].outcome
      /\ d.resumes = ctx[r].resumes /\ d.phase = "delegated"
  BY <1>1 DEF Ctx
<1>3. ctx' = [ctx EXCEPT ![r] = d]
  BY DEF DelegateNotify
<1> HIDE DEF d
<1>4. ctx' \in [Requests -> Ctx]
  BY <1>1, <1>3 DEF TypeOK
<1>5. \A q \in Requests : /\ ctx'[q].wConn = ctx[q].wConn /\ ctx'[q].done = ctx[q].done
                          /\ ctx'[q].outcome = ctx[q].outcome
                          /\ ctx'[q].resumes = ctx[q].resumes
                          /\ ctx'[q].phase = IF q = r THEN "delegated" ELSE ctx[q].phase
  BY <1>2, <1>3 DEF TypeOK
<1>6. notify' \in BOOLEAN
      /\ UNCHANGED <<newRequests, die, sched, pool, wconns, ops, notifiers, waiter, socks>>
  BY DEF DelegateNotify
<1>7. TypeOK'
  BY <1>4, <1>6 DEF TypeOK
<1>8. /\ \A a \in Addrs : pool[a] \subseteq WConns
      /\ \A w \in WConns : wconns[w].requestList \in Seq(Requests)
  BY DEF TypeOK, WConn
<1>9. ConnsNamed'
  BY <1>5, <1>6, <1>8 DEF ConnsNamed, Pooled
<1>10. ActiveIsFront'
  BY <1>5, <1>6 DEF ActiveIsFront, Active, ListOf
<1>11. SchedulerAtWork'
  BY <1>5, <1>6 DEF SchedulerAtWork, ListOf, TypeOK, SchedState
<1>12. ListsOwned'
  BY <1>5, <1>6, <1>8 DEF ListsOwned, Unpooled, Pooled
<1>13. WaitsOnce' /\ DoneFirst' /\ ResumedOnce'
  BY <1>5, <1>6 DEF WaitsOnce, DoneFirst, ResumedOnce
<1>14. WaitsFresh'
  BY <1>5, <1>6 DEF WaitsFresh, Waits, Fresh
<1>15. QED BY <1>7, <1>9, <1>10, <1>11, <1>12, <1>13, <1>14

\* Close changes nothing but the channel that ends the scheduler.
LEMMA CloseStep == QueueInv /\ Close => QueueInv' /\ Quiet
<1> SUFFICES ASSUME QueueInv, Close PROVE QueueInv' /\ Quiet
  OBVIOUS
<1>1. TypeOK'
  BY DEF Close, QueueInv, TypeOK
<1>2. QED BY <1>1, FrameStep DEF Close, Active, Quiet, SameFate, QueueInv, ActiveIsFront

(***************************************************************************)
(* The scheduler's steps between its batches.                              *)
(***************************************************************************)
\* The scheduler moves between its select, the swap and its exit.
LEMMA SelectStep == QueueInv /\ (TakeNotification \/ SchedulerExit) => QueueInv'
<1> SUFFICES ASSUME QueueInv, TakeNotification \/ SchedulerExit PROVE QueueInv'
  OBVIOUS
<1> USE DEF QueueInv
<1>1. /\ UNCHANGED <<ctx, newRequests, die, pool, wconns, ops, notifiers, waiter, socks>>
      /\ notify' \in BOOLEAN
      /\ sched.pc = "select" /\ sched \in SchedState
      /\ \E pc \in {"swap", "exit"} : sched' = [sched EXCEPT !.pc = pc]
  BY DEF TakeNotification, SchedulerExit, TypeOK
<1>2. sched' \in SchedState /\ sched'.batch = sched.batch /\ sched'.pc \in {"swap", "exit"}
  BY <1>1 DEF SchedState
<1>3. TypeOK'
  BY <1>1, <1>2 DEF TypeOK
<1>4. ConnsNamed' /\ ActiveIsFront' /\ ListsOwned' /\ DoneFirst' /\ ResumedOnce'
  BY <1>1 DEF ConnsNamed, Pooled, ActiveIsFront, Active, ListOf, ListsOwned, Unpooled,
              DoneFirst, ResumedOnce
<1>5. SchedulerAtWork'
  BY <1>1, <1>2 DEF SchedulerAtWork
<1>6. WaitsOnce' /\ WaitsFresh'
  BY <1>1, <1>2 DEF WaitsOnce, WaitsFresh, Waits
<1>7. QED BY <1>3, <1>4, <1>5, <1>6

\* The batch becomes what waited in newRequests.
LEMMA SwapStep == QueueInv /\ SwapNewRequests => QueueInv'
<1> SUFFICES ASSUME QueueInv, SwapNewRequests PROVE QueueInv'
  OBVIOUS
<1> USE DEF QueueInv
<1>1. /\ UNCHANGED <<ctx, notify, die, pool, wconns, ops, notifiers, waiter, socks>>
      /\ sched.batch = <<>> /\ newRequests \in Seq(Requests)
      /\ newRequests' = <<>> /\ sched' = NextInBatch(newRequests)
  BY DEF SwapNewRequests, TypeOK, SchedulerAtWork
<1>2. /\ sched' \in SchedState /\ sched'.batch = newRequests
      /\ sched'.pc = IF newRequests = <<>> THEN "select" ELSE "batch"
  BY <1>1, NextInBatchType DEF NextInBatch
<1>3. TypeOK'
  BY <1>1, <1>2 DEF TypeOK
<1>4. ConnsNamed' /\ ActiveIsFront' /\ ListsOwned' /\ DoneFirst' /\ ResumedOnce'
  BY <1>1 DEF ConnsNamed, Pooled, ActiveIsFront, Active, ListOf, ListsOwned, Unpooled,
              DoneFirst, ResumedOnce
<1>5. SchedulerAtWork'
  BY <1>2 DEF SchedulerAtWork
<1>6. WaitsOnce'
  BY <1>1, <1>2 DEF WaitsOnce
<1>7. WaitsFresh'
  <2>1. \A q \in Requests : Waits(q)' => Waits(q)
    BY <1>1, <1>2 DEF Waits
  <2>2. QED BY <1>1, <2>1 DEF WaitsFresh, Fresh
<1>8. QED BY <1>3, <1>4, <1>5, <1>6, <1>7

(***************************************************************************)
(* The scheduler's steps within a batch.                                   *)
(***************************************************************************)
\* The request at hand waits, so it is fresh and nothing else moves it.
LEMMA HeadOfBatch ==
    ASSUME QueueInv, sched.pc \in {"batch", "refuse"}
    PROVE  /\ sched.batch \in Seq(Requests) /\ sched.batch # <<>>
           /\ Head(sched.batch) \in Requests
           /\ Fresh(ctx[Head(sched.batch)]) /\ ~Active(Head(sched.batch))
           /\ ctx[Head(sched.batch)].phase # "idle"
<1> USE DEF QueueInv
<1>1. sched.batch \in Seq(Requests) /\ sched.batch # <<>>
  BY DEF TypeOK, SchedState, SchedulerAtWork
<1>2. Head(sched.batch) \in Requests /\ Waits(Head(sched.batch))
  BY <1>1 DEF Waits
<1>3. Fresh(ctx[Head(sched.batch)]) /\ ctx[Head(sched.batch)].phase # "idle"
  BY <1>2 DEF WaitsFresh
<1>4. QED BY <1>1, <1>2, <1>3 DEF ActiveIsFront, Fresh

\* Moving on in the batch, its head no longer waits and the rest does as before.
LEMMA BatchAdvances ==
    ASSUME QueueInv, sched.pc \in {"batch", "refuse"},
           newRequests' = newRequests, sched' = NextInBatch(Tail(sched.batch))
    PROVE  /\ sched' \in SchedState /\ sched'.pc \in {"select", "batch"}
           /\ sched'.pc = "select" <=> sched'.batch = <<>>
           /\ WaitsOnce'
           /\ \A q \in Requests : Waits(q)' => Waits(q) /\ q # Head(sched.batch)
<1> DEFINE rest == Tail(sched.batch)
<1>1. sched.batch \in Seq(Requests) /\ sched.batch # <<>> /\ rest \in Seq(Requests)
  BY HeadOfBatch
<1>2. /\ sched' \in SchedState /\ sched'.batch = rest
      /\ sched'.pc \in {"select", "batch"} /\ (sched'.pc = "select" <=> rest = <<>>)
  BY <1>1, NextInBatchType DEF NextInBatch
<1>3. /\ Len(rest) = Len(sched.batch) - 1 /\ Len(sched.batch) \in Nat
      /\ \A i \in 1 .. Len(rest) : rest[i] = sched.batch[i + 1]
  BY <1>1
<1>4. DOMAIN rest = 1 .. Len(rest) /\ DOMAIN sched.batch = 1 .. Len(sched.batch)
  BY <1>1
<1> HIDE DEF rest
<1>5. \A i \in DOMAIN rest : i + 1 \in DOMAIN sched.batch /\ i + 1 # 1
                             /\ rest[i] = sched.batch[i + 1]
  BY <1>3, <1>4
<1>6. 1 \in DOMAIN sched.batch /\ Head(sched.batch) = sched.batch[1]
  BY <1>1
<1>7. WaitsOnce'
  <2>1. \A i, j \in DOMAIN rest : rest[i] = rest[j] => i = j
    BY <1>3, <1>4, <1>5 DEF QueueInv, WaitsOnce
  <2>2. QED BY <1>2, <1>5, <2>1 DEF QueueInv, WaitsOnce
<1>8. \A q \in Requests : Waits(q)' => Waits(q) /\ q # Head(sched.batch)
  BY <1>2, <1>5, <1>6 DEF QueueInv, WaitsOnce, Waits
<1>9. QED BY <1>2, <1>7, <1>8

\* No connection can be made: the request is to be resumed with an error.
LEMMA SchedRefuseStep == QueueInv /\ SchedRefuse => QueueInv'
<1> SUFFICES ASSUME QueueInv, SchedRefuse PROVE QueueInv'
  OBVIOUS
<1> USE DEF QueueInv
<1> DEFINE r == Head(sched.batch)
           d == [ctx[r] EXCEPT !.outcome = "error"]
<1>1. sched.pc = "batch" /\ ctx' = [ctx EXCEPT ![r] = d]
      /\ sched' = [sched EXCEPT !.pc = "refuse", !.cur = r]
      /\ UNCHANGED <<newRequests, notify, die, pool, wconns, ops, notifiers, waiter, socks>>
  BY DEF SchedRefuse
<1>2. /\ sched.batch # <<>> /\ r \in Requests /\ Fresh(ctx[r]) /\ ~Active(r)
      /\ ctx[r] \in Ctx /\ sched \in SchedState
  BY <1>1, HeadOfBatch DEF TypeOK
<1>3. d \in Ctx
  BY <1>2, CtxType DEF Outcome
<1>4. d.wConn = ctx[r].wConn /\ d.done = ctx[r].done /\ d.resumes = ctx[r].resumes
      /\ d.phase = ctx[r].phase /\ d.outcome = "error"
  BY <1>2 DEF Ctx
<1> HIDE DEF d
<1>5. \A q \in Requests : /\ ctx'[q].wConn = ctx[q].wConn /\ ctx'[q].done = ctx[q].done
                          /\ ctx'[q].resumes = ctx[q].resumes
                          /\ ctx'[q].phase = ctx[q].phase
                          /\ ctx'[q].outcome = IF q = r THEN "error" ELSE ctx[q].outcome
  BY <1>1, <1>4 DEF TypeOK
<1>6. sched' \in SchedState /\ sched'.pc = "refuse" /\ sched'.cur = r
      /\ sched'.batch = sched.batch
  BY <1>1, <1>2 DEF SchedState
<1>7. TypeOK'
  BY <1>1, <1>2, <1>3, <1>6 DEF TypeOK
<1>8. /\ \A a \in Addrs : pool[a] \subseteq WConns
      /\ \A w \in WConns : wconns[w].requestList \in Seq(Requests)
  BY DEF TypeOK, WConn
<1>9. ConnsNamed' /\ ListsOwned'
  BY <1>1, <1>5, <1>8 DEF ConnsNamed, Pooled, ListsOwned, Unpooled
<1>10. ActiveIsFront'
  BY <1>1, <1>5 DEF ActiveIsFront, Active, ListOf
<1>11. SchedulerAtWork'
  BY <1>2, <1>5, <1>6 DEF SchedulerAtWork
<1>12. WaitsOnce' /\ WaitsFresh' /\ DoneFirst'
  BY <1>1, <1>5, <1>6 DEF WaitsOnce, WaitsFresh, Waits, Fresh, DoneFirst
<1>13. ResumedOnce'
  BY <1>2, <1>5 DEF ResumedOnce, Fresh
<1>14. QED BY <1>7, <1>9, <1>10, <1>11, <1>12, <1>13

\* It is resumed.
LEMMA ResumeRefusedStep == QueueInv /\ ResumeRefused => QueueInv'
<1> SUFFICES ASSUME QueueInv, ResumeRefused PROVE QueueInv'
  OBVIOUS
<1> USE DEF QueueInv
<1> DEFINE r == Head(sched.batch)
           d == [ctx[r] EXCEPT !.resumes = @ + 1]
<1>1. /\ sched.pc = "refuse" /\ sched.cur = r /\ ctx' = [ctx EXCEPT ![r] = d]
      /\ sched' = NextInBatch(Tail(sched.batch))
      /\ UNCHANGED <<newRequests, notify, die, pool, wconns, ops, notifiers, waiter, socks>>
      /\ ctx[r].outcome # "none"
  BY DEF ResumeRefused, SchedulerAtWork
<1>2. /\ r \in Requests /\ Fresh(ctx[r]) /\ ~Active(r) /\ ctx[r].phase # "idle"
      /\ ctx[r] \in Ctx
  BY <1>1, HeadOfBatch DEF TypeOK
<1>3. d \in Ctx
  BY <1>2, CtxType
<1>4. d.wConn = ctx[r].wConn /\ d.done = ctx[r].done /\ d.resumes = 1
      /\ d.phase = ctx[r].phase /\ d.outcome = ctx[r].outcome
  BY <1>2 DEF Ctx, Fresh
<1> HIDE DEF d
<1>5. \A q \in Requests : /\ ctx'[q].wConn = ctx[q].wConn /\ ctx'[q].done = ctx[q].done
                          /\ ctx'[q].resumes = IF q = r THEN 1 ELSE ctx[q].resumes
                          /\ ctx'[q].phase = ctx[q].phase
                          /\ ctx'[q].outcome = ctx[q].outcome
  BY <1>1, <1>4 DEF TypeOK
<1>6. /\ sched' \in SchedState /\ sched'.pc \in {"select", "batch"}
      /\ sched'.pc = "select" <=> sched'.batch = <<>>
      /\ WaitsOnce'
      /\ \A q \in Requests : Waits(q)' => Waits(q) /\ q # r
  BY <1>1, BatchAdvances
<1>7. TypeOK'
  BY <1>1, <1>2, <1>3, <1>6 DEF TypeOK
<1>8. /\ \A a \in Addrs : pool[a] \subseteq WConns
      /\ \A w \in WConns : wconns[w].requestList \in Seq(Requests)
  BY DEF TypeOK, WConn
<1>9. ConnsNamed' /\ ListsOwned'
  BY <1>1, <1>5, <1>8 DEF ConnsNamed, Pooled, ListsOwned, Unpooled
<1>10. ActiveIsFront'
  BY <1>1, <1>5 DEF ActiveIsFront, Active, ListOf
<1>11. SchedulerAtWork'
  BY <1>6 DEF SchedulerAtWork
<1>12. WaitsFresh' /\ DoneFirst'
  BY <1>2, <1>5, <1>6 DEF WaitsFresh, Fresh, DoneFirst
<1>13. ResumedOnce'
  BY <1>1, <1>5 DEF ResumedOnce
<1>14. QED BY <1>6, <1>7, <1>9, <1>10, <1>11, <1>12, <1>13

\* The request joins the queue of a connection, and is submitted if alone.
LEMMA QueueOnStep ==
    ASSUME QueueInv, sched.pc = "batch",
           NEW w \in WConns, NEW lists \in [WConns -> WConn],
           QueueOn(Head(sched.batch), w, lists),
           pool' \in [Addrs -> SUBSET WConns], socks' \in [Conns -> Socket],
           Pooled \subseteq Pooled', w \in Pooled',
           \A u \in Pooled' : lists[u].conn # NoConn,
           \A u \in WConns : /\ lists[u].requestList = wconns[u].requestList
                             /\ wconns[u].conn # NoConn => lists[u].conn # NoConn
    PROVE  QueueInv'
<1> USE DEF QueueInv
<1> DEFINE r == Head(sched.batch)
           list == wconns[w].requestList
           d == [ctx[r] EXCEPT !.wConn = w]
<1>1. /\ r \in Requests /\ Fresh(ctx[r]) /\ ~Active(r) /\ ctx[r].phase # "idle"
      /\ ctx[r] \in Ctx /\ list \in Seq(Requests) /\ lists[w].requestList = list
      /\ lists[w].conn \in Conns /\ w # NoWConn
  <2>1. r \in Requests /\ Fresh(ctx[r]) /\ ~Active(r) /\ ctx[r].phase # "idle"
        /\ ctx[r] \in Ctx
    BY HeadOfBatch DEF TypeOK
  <2>2. list \in Seq(Requests) /\ lists[w].requestList = list /\ lists[w].conn \in Conns
    BY DEF TypeOK, WConn
  <2>3. w # NoWConn
    BY ConstantAssumption DEF ConstantAssumption, NoWConn
  <2>4. QED BY <2>1, <2>2, <2>3
<1> DEFINE longer == Append(list, r)
<1>2. /\ wconns' = [lists EXCEPT ![w] = [lists[w] EXCEPT !.requestList = longer]]
      /\ ctx' = [ctx EXCEPT ![r] = d]
      /\ sched' = NextInBatch(Tail(sched.batch))
      /\ UNCHANGED <<newRequests, notify, die, waiter>>
  BY <1>1 DEF QueueOn, PushBack
<1>3. d \in Ctx /\ d.wConn = w /\ d.done = ctx[r].done /\ d.resumes = ctx[r].resumes
      /\ d.phase = ctx[r].phase /\ d.outcome = ctx[r].outcome
  <2>1. d \in Ctx
    BY <1>1, CtxType
  <2>2. QED BY <1>1, <2>1 DEF Ctx
<1> HIDE DEF d
<1>4. \A q \in Requests : /\ ctx'[q].wConn = IF q = r THEN w ELSE ctx[q].wConn
                          /\ ctx'[q].done = ctx[q].done
                          /\ ctx'[q].resumes = ctx[q].resumes
                          /\ ctx'[q].phase = ctx[q].phase
                          /\ ctx'[q].outcome = ctx[q].outcome
  BY <1>1, <1>2, <1>3 DEF TypeOK
<1>5. /\ longer \in Seq(Requests) /\ longer # <<>>
      /\ Head(longer) = IF list = <<>> THEN r ELSE Head(list)
      /\ \A i \in DOMAIN longer : longer[i] = r \/ (i \in DOMAIN list /\ longer[i] = list[i])
  BY <1>1
<1> HIDE DEF longer
<1>6. /\ wconns' \in [WConns -> WConn]
      /\ \A u \in WConns : /\ wconns'[u].requestList = IF u = w THEN longer
                                                       ELSE wconns[u].requestList
                           /\ wconns'[u].conn = lists[u].conn
  <2>1. [lists[w] EXCEPT !.requestList = longer] \in WConn
    BY ZenonT(60), <1>5 DEF WConn
  <2>2. [lists[w] EXCEPT !.requestList = longer].requestList = longer
        /\ [lists[w] EXCEPT !.requestList = longer].conn = lists[w].conn
    BY DEF WConn
  <2>3. QED BY <1>2, <2>1, <2>2
<1>7. /\ ops' \subseteq Op /\ notifiers' \subseteq Requests
      /\ \A q \in Requests : Active(q)' => Active(q) \/ (q = r /\ list = <<>>)
  <2>1. CASE list = <<>>
    <3>1. Submit(r, lists[w].conn, r)
      BY <1>1, <2>1 DEF QueueOn, SubmitsAtOnce
    <3>2. ops' \subseteq Op /\ notifiers' \subseteq Requests
      BY <1>1, <3>1, SubmitType
    <3>3. QED BY <1>2, <2>1, <3>1, <3>2 DEF Submit, Active
  <2>2. CASE list # <<>>
    <3>1. UNCHANGED <<ops, notifiers>>
      BY <1>1, <2>2 DEF QueueOn, SubmitsAtOnce
    <3>2. QED BY <1>2, <3>1 DEF TypeOK, Active
  <2>3. QED BY <2>1, <2>2
<1>8. /\ sched' \in SchedState /\ sched'.pc \in {"select", "batch"}
      /\ sched'.pc = "select" <=> sched'.batch = <<>>
      /\ WaitsOnce'
      /\ \A q \in Requests : Waits(q)' => Waits(q) /\ q # r
  BY <1>2, BatchAdvances
<1>9. TypeOK'
  <2>1. ctx' \in [Requests -> Ctx]
    BY <1>1, <1>2, <1>3 DEF TypeOK
  <2>2. QED BY <1>2, <1>6, <1>7, <1>8, <2>1 DEF TypeOK
<1>10. /\ \A q \in Requests : ctx[q].wConn # NoWConn => ctx[q].wConn \in WConns
       /\ Pooled' \subseteq WConns
  <2>1. \A q \in Requests : ctx[q].wConn # NoWConn => ctx[q].wConn \in WConns
    BY DEF TypeOK, Ctx
  <2>2. Pooled' \subseteq WConns
    BY DEF Pooled
  <2>3. QED BY <2>1, <2>2
<1>11. ConnsNamed'
  <2>1. \A u \in Pooled' : wconns'[u].conn # NoConn
    BY <1>6, <1>10
  <2>2. \A q \in Requests : ctx'[q].wConn # NoWConn => wconns'[ctx'[q].wConn].conn # NoConn
    BY <1>1, <1>4, <1>6, <1>10 DEF ConnsNamed
  <2>3. QED BY <2>1, <2>2 DEF ConnsNamed
<1>12. ActiveIsFront'
  <2>1. waiter'.pc # "wait" => waiter'.cur \in Requests
    BY <1>2 DEF ActiveIsFront
  <2>2. ASSUME NEW q \in Requests, Active(q)'
        PROVE  /\ ctx'[q].wConn # NoWConn
               /\ ~ctx'[q].done => ListOf(q)' # <<>> /\ Head(ListOf(q)') = q
    <3>1. CASE q = r
      BY <1>1, <1>4, <1>5, <1>6, <1>7, <2>2, <3>1 DEF ListOf
    <3>2. CASE q # r
      <4>1. Active(q) /\ ctx'[q].wConn = ctx[q].wConn /\ ctx'[q].done = ctx[q].done
        BY <1>4, <1>7, <2>2, <3>2
      <4>2. /\ ctx[q].wConn # NoWConn /\ ctx[q].wConn \in WConns
            /\ ~ctx[q].done => ListOf(q) # <<>> /\ Head(ListOf(q)) = q
        BY <1>10, <4>1 DEF ActiveIsFront
      <4>3. ListOf(q)' = IF ctx[q].wConn = w THEN longer ELSE ListOf(q)
        BY <1>6, <4>1, <4>2 DEF ListOf
      <4>4. QED BY <1>5, <4>1, <4>2, <4>3 DEF ListOf
    <3>3. QED BY <3>1, <3>2
  <2>3. QED BY <2>1, <2>2 DEF ActiveIsFront
<1>13. SchedulerAtWork'
  BY <1>8 DEF SchedulerAtWork
<1>14. ListsOwned'
  <2>1. ASSUME NEW u \in WConns, NEW i \in DOMAIN wconns'[u].requestList
        PROVE  ctx'[wconns'[u].requestList[i]].wConn = u
    <3>1. \A v \in WConns : v # NoWConn /\ wconns[v].requestList \in Seq(Requests)
      BY ConstantAssumption DEF ConstantAssumption, NoWConn, TypeOK, WConn
    <3>2. ASSUME i \in DOMAIN wconns[u].requestList,
                 wconns'[u].requestList[i] = wconns[u].requestList[i]
          PROVE  ctx'[wconns'[u].requestList[i]].wConn = u
      <4>1. wconns[u].requestList[i] \in Requests
        BY <3>1, <3>2
      <4>2. ctx[wconns[u].requestList[i]].wConn = u
        BY <3>2 DEF ListsOwned
      <4>3. QED BY <1>1, <1>4, <3>1, <3>2, <4>1, <4>2 DEF Fresh
    <3>3. CASE u = w
      BY <1>1, <1>4, <1>5, <1>6, <2>1, <3>2, <3>3
    <3>4. CASE u # w
      BY <1>6, <2>1, <3>2, <3>4
    <3>5. QED BY <3>3, <3>4
  <2>2. \A u \in Unpooled' : wconns'[u].requestList = <<>>
    BY <1>6 DEF ListsOwned, Unpooled
  <2>3. QED BY <2>1, <2>2 DEF ListsOwned
<1>15. WaitsFresh'
  BY <1>1, <1>4, <1>8 DEF WaitsFresh, Fresh
<1>16. DoneFirst' /\ ResumedOnce'
  BY <1>1, <1>4 DEF DoneFirst, ResumedOnce, Fresh
<1>17. QED BY <1>8, <1>9, <1>11, <1>12, <1>13, <1>14, <1>15, <1>16

\* A request is queued on a connection of the pool.
LEMMA SchedOnPoolStep == QueueInv /\ SchedOnPool => QueueInv'
<1> SUFFICES ASSUME QueueInv, SchedOnPool PROVE QueueInv'
  OBVIOUS
<1> DEFINE r == Head(sched.batch)
<1>1. sched.pc = "batch" /\ UNCHANGED <<pool, socks>>
  BY DEF SchedOnPool
<1>2. PICK w \in LeastLoaded(pool[RemoteAddr[r]]) : QueueOn(r, w, wconns)
  BY DEF SchedOnPool
<1>3. r \in Requests /\ RemoteAddr[r] \in Addrs
  BY <1>1, HeadOfBatch DEF Addrs
<1>4. w \in Pooled /\ w \in WConns
  BY <1>2, <1>3 DEF LeastLoaded, Pooled, QueueInv, TypeOK
<1>5. Pooled' = Pooled /\ \A u \in Pooled : wconns[u].conn # NoConn
  BY <1>1 DEF Pooled, QueueInv, ConnsNamed
<1>6. /\ wconns \in [WConns -> WConn] /\ pool' \in [Addrs -> SUBSET WConns]
      /\ socks' \in [Conns -> Socket]
  BY <1>1 DEF QueueInv, TypeOK
<1>7. QED BY <1>1, <1>2, <1>4, <1>5, <1>6, QueueOnStep

\* A request is queued after a dial has added a connection to the pool.
LEMMA SchedOnDialStep == QueueInv /\ SchedOnDial => QueueInv'
<1> SUFFICES ASSUME QueueInv, SchedOnDial PROVE QueueInv'
  OBVIOUS
<1> DEFINE r == Head(sched.batch)
           a == RemoteAddr[r]
<1>1. sched.pc = "batch" /\ r \in Requests /\ a \in Addrs
  BY HeadOfBatch DEF SchedOnDial, Addrs
<1>2. PICK c \in Dial \ {NoConn}, v \in Unpooled :
         /\ pool' = [pool EXCEPT ![a] = @ \cup {v}]
         /\ socks' = Sockets({}, c)
         /\ \E w \in {v} \cup {u \in pool[a] : wconns[u].requestList = <<>>} :
              QueueOn(r, w, [wconns EXCEPT ![v] = [conn |-> c, requestList |-> <<>>]])
  BY DEF SchedOnDial
<1> DEFINE fresh == [conn |-> c, requestList |-> <<>>]
           lists == [wconns EXCEPT ![v] = fresh]
<1>3. PICK w \in {v} \cup {u \in pool[a] : wconns[u].requestList = <<>>} :
         QueueOn(r, w, lists)
  BY <1>2
<1>4. /\ v \in WConns /\ wconns[v].requestList = <<>> /\ c \in Conns /\ c # NoConn
      /\ pool \in [Addrs -> SUBSET WConns] /\ wconns \in [WConns -> WConn]
  BY <1>2, DialType DEF Unpooled, QueueInv, TypeOK, ListsOwned
<1>5. fresh \in WConn /\ fresh.conn # NoConn /\ fresh.requestList = <<>>
  <2>1. <<>> \in Seq(Requests)
    OBVIOUS
  <2>2. QED BY <1>4, <2>1 DEF WConn
<1> HIDE DEF fresh
<1>6. /\ lists \in [WConns -> WConn]
      /\ \A u \in WConns : /\ lists[u].requestList = wconns[u].requestList
                           /\ wconns[u].conn # NoConn => lists[u].conn # NoConn
  BY <1>4, <1>5
<1>7. pool' \in [Addrs -> SUBSET WConns] /\ Pooled' = Pooled \cup {v}
  BY <1>1, <1>2, <1>4 DEF Pooled
<1>8. \A u \in Pooled' : u \in WConns /\ lists[u].conn # NoConn
  <2>1. \A u \in Pooled : u \in WConns /\ wconns[u].conn # NoConn
    BY <1>4 DEF QueueInv, ConnsNamed, Pooled
  <2>2. QED BY <1>4, <1>5, <1>6, <1>7, <2>1
<1>9. w \in Pooled' /\ w \in WConns
  BY <1>1, <1>3, <1>4, <1>7 DEF Pooled
<1>10. socks' \in [Conns -> Socket]
  BY <1>2, SocketsType DEF QueueInv
<1> HIDE DEF lists
<1>11. QED BY <1>1, <1>3, <1>6, <1>7, <1>8, <1>9, <1>10, QueueOnStep

(***************************************************************************)
(* The scheduler's steps for a completion.                                 *)
(***************************************************************************)
\* A completed request has an outcome.
LEMMA MarshalledType ==
    ASSUME NEW c
    PROVE  Marshalled(c) \in Outcome \ {"none"}
  BY DEF Marshalled, Outcome

\* The first report of a completion is handled, the others are dropped.
LEMMA CompleteStep ==
    ASSUME QueueInv, NEW r \in Requests, NEW failed \in BOOLEAN, Active(r),
           Complete(r, failed),
           notifiers' \subseteq notifiers, waiter' \in WaiterState,
           waiter' = waiter \/ waiter'.pc = "wait"
    PROVE  QueueInv'
<1> USE DEF QueueInv
<1>1. /\ sched.pc = "select" /\ sched \in SchedState /\ ctx[r] \in Ctx
      /\ UNCHANGED <<newRequests, notify, die, pool, wconns, ops, socks>>
  BY DEF Complete, TypeOK
<1>2. /\ \A q \in Requests : Active(q)' => Active(q)
      /\ waiter'.pc # "wait" => waiter'.cur \in Requests
  BY <1>1 DEF Active, ActiveIsFront
<1>3. CASE ctx[r].done
  <2>1. UNCHANGED <<ctx, sched>>
    BY <1>3 DEF Complete
  <2>2. TypeOK'
    BY <1>1, <2>1 DEF TypeOK
  <2>3. QED BY <1>1, <1>2, <2>1, <2>2, FrameStep DEF SameFate
<1>4. CASE ~ctx[r].done
  <2> DEFINE c == [ctx[r] EXCEPT !.done = TRUE, !.err = failed]
             d == [c EXCEPT !.outcome = Marshalled(c)]
  <2>1. ctx' = [ctx EXCEPT ![r] = d] /\ sched' = [sched EXCEPT !.pc = "resume", !.cur = r]
    BY <1>4 DEF Complete
  <2>2. c \in Ctx /\ c.done /\ c.wConn = ctx[r].wConn /\ c.resumes = ctx[r].resumes
        /\ c.phase = ctx[r].phase
    <3>1. c \in Ctx
      BY <1>1 DEF Ctx
    <3>2. QED BY <1>1, <3>1 DEF Ctx
  <2> HIDE DEF c
  <2>3. d \in Ctx /\ d.done /\ d.wConn = ctx[r].wConn /\ d.resumes = ctx[r].resumes
        /\ d.phase = ctx[r].phase /\ d.outcome # "none"
    <3>1. d \in Ctx
      BY <2>2, MarshalledType, CtxType
    <3>2. d.outcome = Marshalled(c) /\ d.done = c.done /\ d.wConn = c.wConn
          /\ d.resumes = c.resumes /\ d.phase = c.phase
      BY <2>2, <3>1 DEF Ctx
    <3>3. QED BY <2>2, <3>1, <3>2, MarshalledType
  <2> HIDE DEF d
  <2>4. \A q \in Requests : /\ ctx'[q].wConn = ctx[q].wConn
                            /\ ctx'[q].resumes = ctx[q].resumes
                            /\ ctx'[q].phase = ctx[q].phase
                            /\ ctx'[q].done = (q = r \/ ctx[q].done)
                            /\ ctx[q].outcome # "none" => ctx'[q].outcome # "none"
    BY <1>1, <2>1, <2>3 DEF TypeOK, Ctx
  <2>5. sched' \in SchedState /\ sched'.pc = "resume" /\ sched'.cur = r
        /\ sched'.batch = sched.batch
    BY <1>1, <2>1 DEF SchedState
  <2>6. /\ ctx[r].wConn # NoWConn /\ ctx[r].resumes = 0
        /\ ListOf(r) # <<>> /\ Head(ListOf(r)) = r
    BY <1>4 DEF ActiveIsFront, DoneFirst
  <2>7. TypeOK'
    <3>1. ctx' \in [Requests -> Ctx]
      BY <2>1, <2>3 DEF TypeOK
    <3>2. QED BY <1>1, <2>5, <3>1 DEF TypeOK
  <2>8. ConnsNamed' /\ ListsOwned'
    <3>1. \A w \in WConns : wconns[w].requestList \in Seq(Requests)
      BY DEF TypeOK, WConn
    <3>2. QED BY <1>1, <2>4, <3>1 DEF ConnsNamed, Pooled, ListsOwned, Unpooled
  <2>9. ActiveIsFront'
    BY <1>1, <1>2, <2>4 DEF ActiveIsFront, ListOf
  <2>10. SchedulerAtWork'
    <3>1. sched'.batch = <<>>
      BY <1>1, <2>5 DEF SchedulerAtWork
    <3>2. ctx'[r].done /\ ctx'[r].outcome # "none" /\ ctx'[r].resumes = 0
          /\ ctx'[r].wConn # NoWConn /\ ListOf(r)' = ListOf(r)
      BY <1>1, <2>1, <2>3, <2>4, <2>6 DEF ListOf, TypeOK
    <3>3. QED BY <2>5, <2>6, <3>1, <3>2 DEF SchedulerAtWork
  <2>11. WaitsOnce' /\ DoneFirst'
    <3>1. WaitsOnce'
      BY <1>1, <2>5 DEF WaitsOnce
    <3>2. DoneFirst'
      BY <2>4 DEF DoneFirst
    <3>3. QED BY <3>1, <3>2
  <2>12. WaitsFresh'
    <3>1. ~Waits(r) /\ ctx[r].phase # "idle"
      BY <2>6 DEF WaitsFresh, Fresh
    <3>2. \A q \in Requests : Waits(q)' => Waits(q)
      BY <1>1, <2>5 DEF Waits
    <3>3. QED BY ZenonT(60), <2>4, <3>1, <3>2 DEF WaitsFresh, Fresh
  <2>13. ResumedOnce'
    BY <2>4 DEF ResumedOnce
  <2>14. QED BY <2>7, <2>8, <2>9, <2>10, <2>11, <2>12, <2>13
<1>5. QED BY <1>3, <1>4

\* The IO goroutine's report.
LEMMA TakeCompletedStep == QueueInv /\ TakeCompleted => QueueInv'
<1> SUFFICES ASSUME QueueInv, TakeCompleted PROVE QueueInv'
  OBVIOUS
<1>1. waiter.cur \in Requests /\ Active(waiter.cur)
  BY DEF TakeCompleted, Active, QueueInv, ActiveIsFront
<1>2. ctx[waiter.cur].err \in BOOLEAN
  BY <1>1 DEF QueueInv, TypeOK, Ctx
<1>3. waiter' \in WaiterState /\ waiter'.pc = "wait" /\ notifiers' \subseteq notifiers
  BY DEF TakeCompleted, WaiterState
<1>4. QED BY <1>1, <1>2, <1>3, CompleteStep DEF TakeCompleted

\* A notifier's report.
LEMMA TakeNotifiedStep ==
    ASSUME QueueInv, NEW r \in Requests, TakeNotified(r)
    PROVE  QueueInv'
<1>1. Active(r) /\ notifiers' \subseteq notifiers
      /\ waiter' = waiter /\ waiter' \in WaiterState
  BY DEF TakeNotified, Active, QueueInv, TypeOK
<1>2. QED BY <1>1, CompleteStep DEF TakeNotified

\* The client is resumed with what was decided.
LEMMA ResumeStep == QueueInv /\ Resume => QueueInv'
<1> SUFFICES ASSUME QueueInv, Resume PROVE QueueInv'
  OBVIOUS
<1> USE DEF QueueInv
<1> DEFINE r == sched.cur
           d == [ctx[r] EXCEPT !.resumes = @ + 1]
<1>1. /\ sched.pc = "resume" /\ ctx' = [ctx EXCEPT ![r] = d]
      /\ sched' = [sched EXCEPT !.pc = "finish"]
      /\ UNCHANGED <<newRequests, notify, die, pool, wconns, ops, notifiers, waiter, socks>>
  BY DEF Resume
<1>2. /\ r \in Requests /\ ctx[r].done /\ ctx[r].outcome # "none" /\ ctx[r].resumes = 0
      /\ ctx[r].wConn # NoWConn /\ ListOf(r) # <<>> /\ Head(ListOf(r)) = r
      /\ sched.batch = <<>>
  BY <1>1 DEF SchedulerAtWork
<1>3. ctx[r] \in Ctx /\ sched \in SchedState
  BY <1>2 DEF TypeOK
<1>4. d \in Ctx
  BY <1>3, CtxType
<1>5. d.wConn = ctx[r].wConn /\ d.done = ctx[r].done /\ d.resumes = 1
      /\ d.phase = ctx[r].phase /\ d.outcome = ctx[r].outcome
  <2>1. d.resumes = ctx[r].resumes + 1
    BY <1>3 DEF Ctx
  <2>2. d.wConn = ctx[r].wConn /\ d.done = ctx[r].done
        /\ d.phase = ctx[r].phase /\ d.outcome = ctx[r].outcome
    BY <1>3 DEF Ctx
  <2> HIDE DEF d
  <2>3. QED BY <1>2, <2>1, <2>2
<1> HIDE DEF d
<1>6. \A q \in Requests : /\ ctx'[q].wConn = ctx[q].wConn /\ ctx'[q].done = ctx[q].done
                          /\ ctx'[q].resumes = IF q = r THEN 1 ELSE ctx[q].resumes
                          /\ ctx'[q].phase = ctx[q].phase
                          /\ ctx'[q].outcome = ctx[q].outcome
  BY <1>1, <1>2, <1>5 DEF TypeOK
<1>7. sched' \in SchedState /\ sched'.pc = "finish" /\ sched'.cur = r /\ sched'.batch = <<>>
  BY <1>1, <1>2, <1>3 DEF SchedState
<1>8. TypeOK'
  <2>1. ctx' \in [Requests -> Ctx]
    BY <1>1, <1>4 DEF TypeOK
  <2>2. QED BY <1>1, <1>7, <2>1 DEF TypeOK
<1>9. ConnsNamed' /\ ListsOwned'
  <2>1. \A w \in WConns : wconns[w].requestList \in Seq(Requests)
    BY DEF TypeOK, WConn
  <2>2. QED BY <1>1, <1>6, <2>1 DEF ConnsNamed, Pooled, ListsOwned, Unpooled
<1>10. ActiveIsFront'
  BY <1>1, <1>6 DEF ActiveIsFront, Active, ListOf
<1>11. SchedulerAtWork'
  BY <1>1, <1>2, <1>6, <1>7 DEF SchedulerAtWork, ListOf
<1>12. WaitsOnce'
  BY <1>1, <1>2, <1>7 DEF WaitsOnce
<1>13. WaitsFresh'
  <2>1. \A q \in Requests : Waits(q)' => Waits(q)
    BY <1>1, <1>2, <1>7 DEF Waits
  <2>2. QED BY <1>2, <1>6, <2>1 DEF WaitsFresh, Fresh
<1>14. DoneFirst' /\ ResumedOnce'
  BY <1>2, <1>6 DEF DoneFirst, ResumedOnce
<1>15. QED BY <1>8, <1>9, <1>10, <1>11, <1>12, <1>13, <1>14

\* The front request leaves its connection, which is replaced when it has to
\* be and leaves the pool when it is idle; the next request is submitted.
LEMMA FinishStep == QueueInv /\ Finish => QueueInv'
<1> SUFFICES ASSUME QueueInv, Finish PROVE QueueInv'
  OBVIOUS
<1> USE DEF QueueInv
<1> DEFINE r == sched.cur
           a == RemoteAddr[r]
           w == ctx[r].wConn
           old == wconns[w].conn
           list == wconns[w].requestList
           lists == [wconns EXCEPT ![w].requestList = Tail(@)]
           down == ScalesDown(a, w, lists)
<1>1. /\ sched.pc = "finish" /\ sched' = NextInBatch(<<>>)
      /\ pool' = IF down THEN [pool EXCEPT ![a] = @ \ {w}] ELSE pool
      /\ UNCHANGED <<ctx, newRequests, notify, die, waiter>>
  BY ZenonT(60) DEF Finish
<1>2. PICK c \in IF ctx[r].disconnected THEN Dial ELSE {NoConn} :
         /\ wconns' = [lists EXCEPT ![w].conn = ReplacedConn(old, c)]
         /\ socks' = Sockets(IF down \/ c # NoConn THEN {old} ELSE {}, c)
         /\ SubmitNext(lists[w].requestList, ReplacedConn(old, c), r)
  BY Zenon DEF Finish
<1>3. /\ r \in Requests /\ a \in Addrs /\ ctx[r].done /\ w # NoWConn
      /\ list # <<>> /\ Head(list) = r /\ sched.batch = <<>>
  BY <1>1 DEF SchedulerAtWork, ListOf, Addrs
<1>4. /\ w \in WConns /\ wconns \in [WConns -> WConn] /\ list \in Seq(Requests)
      /\ old \in Conns
  <2>1. w \in WConns
    BY <1>3 DEF TypeOK, Ctx
  <2>2. QED BY <1>3, <2>1 DEF TypeOK, WConn, ConnsNamed
<1> DEFINE rest == Tail(list)
           conn == ReplacedConn(old, c)
<1>5. conn \in Conns /\ conn # NoConn
  <2>1. old # NoConn
    BY <1>3 DEF ConnsNamed
  <2>2. c \in Conns \cup {NoConn}
    BY ZenonT(60), <1>2, DialType
  <2>3. QED BY <1>4, <2>1, <2>2 DEF ReplacedConn
<1>6. /\ rest \in Seq(Requests)
      /\ \A i \in DOMAIN rest : i + 1 \in DOMAIN list /\ rest[i] = list[i + 1]
      /\ rest # <<>> => /\ Head(rest) = list[2] /\ 2 \in DOMAIN list
                        /\ Head(rest) \in Requests
  <2>1. PICK s \in Seq(Requests) : s = list /\ s # <<>>
    BY <1>3, <1>4
  <2>2. rest = Tail(s)
    BY <2>1
  <2> HIDE DEF lists, list, rest, conn, down
  <2>3. /\ Tail(s) \in Seq(Requests)
        /\ \A i \in DOMAIN Tail(s) : i + 1 \in DOMAIN s /\ Tail(s)[i] = s[i + 1]
        /\ Tail(s) # <<>> => /\ Head(Tail(s)) = s[2] /\ 2 \in DOMAIN s
                             /\ Head(Tail(s)) \in Requests
    BY <2>1
  <2>4. QED BY <2>1, <2>2, <2>3
<1>7. /\ lists[w].requestList = rest
      /\ wconns' = [wconns EXCEPT ![w] = [conn |-> conn, requestList |-> rest]]
  <2>1. wconns[w] \in WConn
    BY <1>4
  <2>2. [wconns[w] EXCEPT !.requestList = rest] = [conn |-> old, requestList |-> rest]
    BY <2>1, WConnUpdates
  <2>3. lists = [wconns EXCEPT ![w] = [wconns[w] EXCEPT !.requestList = rest]]
    OBVIOUS
  <2> DEFINE v == [conn |-> old, requestList |-> rest]
  <2>4. v \in WConn /\ v.requestList = rest
    BY SMTT(30), <1>4, <1>6 DEF WConn
  <2>5. [v EXCEPT !.conn = conn] = [conn |-> conn, requestList |-> rest]
    BY <2>4, WConnUpdates
  <2> HIDE DEF rest, conn, v
  <2>6. lists = [wconns EXCEPT ![w] = v]
    BY <2>2, <2>3 DEF v
  <2> HIDE DEF lists
  <2>7. lists[w] = v
    BY <1>4, <2>6
  <2>8. wconns' = [lists EXCEPT ![w] = [lists[w] EXCEPT !.conn = conn]]
    BY <1>2 DEF conn
  <2>9. QED BY <1>4, <2>4, <2>5, <2>6, <2>7, <2>8
<1> HIDE DEF rest, conn, lists
<1>8. [conn |-> conn, requestList |-> rest] \in WConn
  BY <1>5, <1>6 DEF WConn
<1>9. /\ wconns' \in [WConns -> WConn]
      /\ wconns'[w].conn = conn /\ wconns'[w].requestList = rest
      /\ \A u \in WConns \ {w} : wconns'[u] = wconns[u]
  BY <1>4, <1>7, <1>8
<1>10. SubmitNext(rest, conn, r)
  BY <1>2, <1>7 DEF conn
<1>11. /\ ops' \subseteq Op /\ notifiers' \subseteq Requests
       /\ \A q \in Requests :
            Active(q)' => \/ Active(q) \/ q = r
                          \/ rest # <<>> /\ q = Head(rest)
  <2>1. CASE rest = <<>>
    BY <1>1, <1>10, <2>1 DEF SubmitNext, TypeOK, Active
  <2>2. CASE rest # <<>>
    <3>1. Submit(Head(rest), conn, r)
      BY <1>10, <2>2 DEF SubmitNext
    <3>2. ops' \subseteq Op /\ notifiers' \subseteq Requests
      BY <1>3, <1>5, <1>6, <2>2, <3>1, SubmitType
    <3>3. QED BY <1>1, <2>2, <3>1, <3>2 DEF Submit, Active
  <2>3. QED BY <2>1, <2>2
<1>12. sched' \in SchedState /\ sched'.pc = "select" /\ sched'.batch = <<>>
  <2>1. <<>> \in Seq(Requests)
    OBVIOUS
  <2>2. QED BY <1>1, <2>1, NextInBatchType DEF NextInBatch
<1>13. /\ pool' \in [Addrs -> SUBSET WConns]
       /\ Pooled' \subseteq Pooled
       /\ \A u \in Pooled \ Pooled' : u = w /\ rest = <<>>
  <2>1. pool \in [Addrs -> SUBSET WConns] /\ (down => rest = <<>>)
    BY <1>7 DEF TypeOK, ScalesDown
  <2> HIDE DEF down
  <2>2. QED BY <1>1, <1>3, <2>1 DEF Pooled
<1>14. TypeOK'
  <2>1. socks' \in [Conns -> Socket]
    BY <1>2, SocketsType
  <2>2. QED BY <1>1, <1>9, <1>11, <1>12, <1>13, <2>1 DEF TypeOK
<1>15. /\ \A q \in Requests : ctx[q].wConn # NoWConn => ctx[q].wConn \in WConns
       /\ Pooled \subseteq WConns
  BY DEF TypeOK, Ctx, Pooled
<1>16. ConnsNamed'
  <2>1. \A u \in WConns : wconns[u].conn # NoConn => wconns'[u].conn # NoConn
    BY <1>5, <1>9
  <2>2. \A u \in Pooled' : wconns'[u].conn # NoConn
    BY <1>13, <1>15, <2>1 DEF ConnsNamed
  <2>3. \A q \in Requests : ctx'[q].wConn # NoWConn => wconns'[ctx'[q].wConn].conn # NoConn
    BY <1>1, <1>15, <2>1 DEF ConnsNamed
  <2>4. QED BY <2>2, <2>3 DEF ConnsNamed
<1>17. ActiveIsFront'
  <2>1. ASSUME NEW q \in Requests, Active(q)'
        PROVE  /\ ctx'[q].wConn # NoWConn
               /\ ~ctx'[q].done => ListOf(q)' # <<>> /\ Head(ListOf(q)') = q
    <3>1. CASE q = r
      BY <1>1, <1>3, <3>1
    <3>2. CASE rest # <<>> /\ q = Head(rest)
      <4>1. ctx[q].wConn = w
        BY <1>4, <1>6, <3>2 DEF ListsOwned
      <4>2. QED BY <1>1, <1>3, <1>9, <3>2, <4>1 DEF ListOf
    <3>3. CASE Active(q) /\ q # r
      <4>1. /\ ctx[q].wConn # NoWConn /\ ctx[q].wConn \in WConns
            /\ ~ctx[q].done => ListOf(q) # <<>> /\ Head(ListOf(q)) = q
        BY <1>15, <3>3 DEF ActiveIsFront
      <4>2. CASE ctx[q].wConn = w
        BY <1>1, <1>3, <3>3, <4>1, <4>2 DEF ListOf
      <4>3. CASE ctx[q].wConn # w
        BY <1>1, <1>9, <4>1, <4>3 DEF ListOf
      <4>4. QED BY <4>2, <4>3
    <3>4. QED BY <1>11, <2>1, <3>1, <3>2, <3>3
  <2>2. QED BY <1>1, <2>1 DEF ActiveIsFront
<1>18. SchedulerAtWork'
  BY <1>12 DEF SchedulerAtWork
<1>19. ListsOwned'
  <2>1. ASSUME NEW u \in WConns, NEW i \in DOMAIN wconns'[u].requestList
        PROVE  ctx'[wconns'[u].requestList[i]].wConn = u
    <3>1. CASE u = w
      BY <1>1, <1>4, <1>6, <1>9, <2>1, <3>1 DEF ListsOwned
    <3>2. CASE u # w
      BY <1>1, <1>9, <2>1, <3>2 DEF ListsOwned
    <3>3. QED BY <3>1, <3>2
  <2>2. ASSUME NEW u \in Unpooled'
        PROVE  wconns'[u].requestList = <<>>
    <3>1. u \in WConns /\ (u \in Unpooled \/ (u = w /\ rest = <<>>))
      BY <1>13 DEF Unpooled
    <3>2. u \in Unpooled => wconns[u].requestList = <<>> /\ u # w
      BY <1>3 DEF ListsOwned
    <3>3. QED BY <1>9, <3>1, <3>2
  <2>3. QED BY <2>1, <2>2 DEF ListsOwned
<1>20. WaitsOnce' /\ WaitsFresh'
  BY <1>1, <1>3, <1>12 DEF WaitsOnce, WaitsFresh, Waits
<1>21. DoneFirst' /\ ResumedOnce'
  BY <1>1 DEF DoneFirst, ResumedOnce
<1>22. QED BY <1>14, <1>16, <1>17, <1>18, <1>19, <1>20, <1>21

(***************************************************************************)
(* The theorems.                                                           *)
(***************************************************************************)
\* The invariant holds at the start.
LEMMA InitInv == Init => QueueInv
<1> SUFFICES ASSUME Init PROVE QueueInv
  OBVIOUS
<1>1. TypeOK
  BY InitType
<1>2. ConnsNamed /\ ListsOwned
  BY DEF Init, ConnsNamed, Pooled, ListsOwned, Unpooled, NewContext
<1>3. ActiveIsFront /\ SchedulerAtWork
  BY DEF Init, ActiveIsFront, Active, SchedulerAtWork
<1>4. WaitsOnce /\ DoneFirst /\ ResumedOnce
  BY DEF Init, WaitsOnce, DoneFirst, ResumedOnce, NewContext
<1>5. WaitsFresh
  BY DEF Init, WaitsFresh, Waits, Fresh, NewContext
<1>6. QED BY <1>1, <1>2, <1>3, <1>4, <1>5 DEF QueueInv

\* Every step preserves it.
LEMMA NextInv == QueueInv /\ [Next]_vars => QueueInv'
<1> SUFFICES ASSUME QueueInv, [Next]_vars PROVE QueueInv'
  OBVIOUS
<1>1. CASE Agents
  BY <1>1, CloseStep, DelegateAppendStep, DelegateNotifyStep DEF Agents
<1>2. CASE Scheduler
  BY <1>2, SelectStep, SwapStep, SchedRefuseStep, SchedOnPoolStep, SchedOnDialStep,
     ResumeRefusedStep, TakeRetryStep, TakeCompletedStep, TakeNotifiedStep, ResumeStep,
     FinishStep DEF Scheduler
<1>3. CASE GiveUp
  BY <1>3, GiveUpStep
<1>4. CASE Waiter
  BY <1>4, WaiterStep
<1>5. CASE Environment
  BY <1>5, EnvironmentStep
<1>6. CASE UNCHANGED vars
  BY <1>6, StutterStep
<1>7. QED BY <1>1, <1>2, <1>3, <1>4, <1>5, <1>6 DEF Next

\* The invariant of the proxy's queues: an active request is the front of the
\* list of the connection it is queued on, what waits for the scheduler is
\* untouched, and the scheduler's own request is done and decided.
THEOREM Invariance == Spec => []QueueInv
<1>1. QED BY InitInv, NextInv, PTL DEF Spec

\* The variables of the proxy keep their types: in particular no step takes the
\* front of an empty list or uses a socket or a connection that is not there.
THEOREM TypeCorrectness == Spec => []TypeOK
<1>1. QueueInv => TypeOK
  BY DEF QueueInv
<1>2. QED BY <1>1, Invariance, PTL

\* A client is resumed at most once for a request, and only with a decided
\* response, however many reports of its completion reach the scheduler.
THEOREM ClientResumedOnce == Spec => []ResumedOnce
<1>1. QueueInv => ResumedOnce
  BY DEF QueueInv
<1>2. QED BY <1>1, Invariance, PTL

\* "Remove front request" takes off the request that completed.
THEOREM CompletionIsOfTheFront == Spec => []CompletesFront
<1>1. QueueInv => CompletesFront
  BY DEF QueueInv, SchedulerAtWork, CompletesFront, ListOf
<1>2. QED BY <1>1, Invariance, PTL

(***************************************************************************)
(* Two more invariants, relative to QueueInv.                                  *)
(***************************************************************************)
\* The scheduler's handling of requests takes none back to "appended".
LEMMA SchedulerKeepsPhase ==
    ASSUME QueueInv, Scheduler, NEW q \in Requests
    PROVE  ctx'[q].phase = ctx[q].phase
<1> USE DEF QueueInv
<1>1. ctx \in [Requests -> Ctx]
  BY DEF TypeOK
<1>2. CASE UNCHANGED ctx
  BY <1>2
<1>3. ASSUME NEW r \in Requests, NEW d, d.phase = ctx[r].phase, ctx' = [ctx EXCEPT ![r] = d]
      PROVE  ctx'[q].phase = ctx[q].phase
  BY <1>1, <1>3
<1>4. \A r \in Requests :
        /\ \A o : [ctx[r] EXCEPT !.outcome = o].phase = ctx[r].phase
        /\ \A w : [ctx[r] EXCEPT !.wConn = w].phase = ctx[r].phase
        /\ \A n : [ctx[r] EXCEPT !.retries = n].phase = ctx[r].phase
        /\ \A n : [ctx[r] EXCEPT !.resumes = n].phase = ctx[r].phase
        /\ \A e, o : [[ctx[r] EXCEPT !.done = TRUE, !.err = e] EXCEPT !.outcome = o].phase
                       = ctx[r].phase
  BY <1>1 DEF Ctx
<1>5. CASE TakeNotification \/ SwapNewRequests \/ Finish \/ SchedulerExit
  BY Zenon, <1>2, <1>5 DEF TakeNotification, SwapNewRequests, Finish, SchedulerExit
<1>6. CASE SchedRefuse
  <2>1. Head(sched.batch) \in Requests
    BY <1>6, HeadOfBatch DEF SchedRefuse
  <2>2. QED BY <1>3, <1>4, <1>6, <2>1 DEF SchedRefuse
<1>7. CASE SchedOnPool \/ SchedOnDial
  <2>1. Head(sched.batch) \in Requests
    BY <1>7, HeadOfBatch DEF SchedOnPool, SchedOnDial
  <2>2. \E w : ctx' = [ctx EXCEPT ![Head(sched.batch)] =
                          [ctx[Head(sched.batch)] EXCEPT !.wConn = w]]
    BY <1>7 DEF SchedOnPool, SchedOnDial, QueueOn
  <2>3. QED BY <1>3, <1>4, <2>1, <2>2
<1>8. CASE ResumeRefused
  <2>1. sched.cur \in Requests
    BY <1>8, HeadOfBatch DEF ResumeRefused, SchedulerAtWork
  <2>2. QED BY <1>3, <1>4, <1>8, <2>1 DEF ResumeRefused
<1>9. CASE TakeRetry
  <2>1. waiter.cur \in Requests
    BY <1>9 DEF TakeRetry, ActiveIsFront
  <2>2. ctx' = [ctx EXCEPT ![waiter.cur] =
                   [ctx[waiter.cur] EXCEPT !.retries = ctx[waiter.cur].retries + 1]]
    BY <1>9 DEF TakeRetry
  <2>3. QED BY <1>3, <1>4, <2>1, <2>2
<1>10. ASSUME NEW r \in Requests, NEW failed, Complete(r, failed)
       PROVE  ctx'[q].phase = ctx[q].phase
  <2>1. CASE UNCHANGED ctx
    BY <1>2, <2>1
  <2>2. CASE ~UNCHANGED ctx
    <3> DEFINE c == [ctx[r] EXCEPT !.done = TRUE, !.err = failed]
               o == Marshalled(c)
    <3>1. ctx' = [ctx EXCEPT ![r] = [c EXCEPT !.outcome = o]]
      BY <1>10, <2>2 DEF Complete
    <3> HIDE DEF o
    <3>2. [c EXCEPT !.outcome = o].phase = ctx[r].phase
      BY <1>4
    <3> HIDE DEF c
    <3>3. QED BY <1>3, <3>1, <3>2
  <2>3. QED BY <2>1, <2>2
<1>11. CASE TakeCompleted
  <2>1. waiter.cur \in Requests
    BY <1>11 DEF TakeCompleted, ActiveIsFront
  <2>2. QED BY <1>10, <1>11, <2>1 DEF TakeCompleted
<1>12. ASSUME NEW r \in Requests, TakeNotified(r)
       PROVE  ctx'[q].phase = ctx[q].phase
  BY <1>10, <1>12 DEF TakeNotified
<1>13. CASE Resume
  <2>1. sched.cur \in Requests
    BY <1>13 DEF Resume, SchedulerAtWork
  <2>2. QED BY <1>3, <1>4, <1>13, <2>1 DEF Resume
<1>14. QED BY <1>5, <1>6, <1>7, <1>8, <1>9, <1>11, <1>12, <1>13 DEF Scheduler

\* While requests wait in newRequests the scheduler has been or will be told:
\* the token that Delegate drops when one is pending is never needed.
THEOREM NoWakeupIsLost == Spec => []NoLostWakeup
<1>1. Init => NoLostWakeup
  BY DEF Init, NoLostWakeup
<1>2. QueueInv /\ NoLostWakeup /\ [Next]_vars => NoLostWakeup'
  <2> SUFFICES ASSUME QueueInv, NoLostWakeup, [Next]_vars PROVE NoLostWakeup'
    OBVIOUS
  <2>1. ASSUME UNCHANGED <<newRequests, notify>>,
               sched' = sched \/ sched.pc \notin {"swap", "exit"},
               \A r \in Requests : ctx'[r].phase = ctx[r].phase
        PROVE  NoLostWakeup'
    BY <2>1 DEF NoLostWakeup
  <2>2. CASE Quiet
    BY <2>1, <2>2 DEF Quiet, SameFate
  <2>3. CASE Waiter \/ Environment \/ GiveUp \/ Close \/ UNCHANGED vars
    BY <2>2, <2>3, WaiterStep, EnvironmentStep, GiveUpStep, CloseStep, StutterStep
  <2>4. ASSUME NEW r \in Requests, DelegateAppend(r)
        PROVE  NoLostWakeup'
    <3>1. ctx'[r].phase = "appended"
      BY <2>4 DEF DelegateAppend, QueueInv, TypeOK, Ctx
    <3>2. QED BY <3>1 DEF NoLostWakeup
  <2>5. ASSUME NEW r \in Requests, DelegateNotify(r)
        PROVE  NoLostWakeup'
    BY <2>5 DEF DelegateNotify, NoLostWakeup
  <2>6. CASE TakeNotification
    BY <2>6 DEF TakeNotification, NoLostWakeup, QueueInv, TypeOK, SchedState
  <2>7. CASE SwapNewRequests
    BY <2>7 DEF SwapNewRequests, NoLostWakeup
  <2>8. CASE SchedulerExit
    BY <2>8 DEF SchedulerExit, NoLostWakeup, QueueInv, TypeOK, SchedState
  <2>9. CASE Scheduler /\ ~TakeNotification /\ ~SwapNewRequests /\ ~SchedulerExit
    <3>1. UNCHANGED <<newRequests, notify>> /\ sched.pc \notin {"swap", "exit"}
      BY Zenon, <2>9 DEF Scheduler, SchedRefuse, SchedOnPool, SchedOnDial, QueueOn, ResumeRefused,
         TakeRetry, TakeCompleted, TakeNotified, Complete, Resume, Finish
    <3>2. QED BY <2>1, <2>9, <3>1, SchedulerKeepsPhase
  <2>10. QED BY <2>3, <2>4, <2>5, <2>6, <2>7, <2>8, <2>9 DEF Next, Agents
<1>3. QED BY <1>1, <1>2, Invariance, PTL DEF Spec

\* The pool of a service is finite and within maxConns.
Bounded == \A a \in Addrs : IsFiniteSet(pool[a]) /\ Cardinality(pool[a]) <= MaxConns

\* It stays so.
LEMMA PoolsBounded == Spec => []Bounded
<1>1. Init => Bounded
  BY FS_EmptySet, ConstantAssumption DEF Init, Bounded, ConstantAssumption
<1>2. QueueInv /\ Bounded /\ [Next]_vars => Bounded'
  <2> SUFFICES ASSUME QueueInv, Bounded, [Next]_vars PROVE Bounded'
    OBVIOUS
  <2>1. pool \in [Addrs -> SUBSET WConns]
    BY DEF QueueInv, TypeOK
  <2>2. CASE UNCHANGED pool
    BY <2>2 DEF Bounded
  <2>3. CASE SchedOnDial
    <3> DEFINE a == RemoteAddr[Head(sched.batch)]
    <3>1. PICK v : pool' = [pool EXCEPT ![a] = @ \cup {v}]
      BY <2>3 DEF SchedOnDial
    <3>2. a \in Addrs
      BY <2>3, HeadOfBatch DEF SchedOnDial, Addrs
    <3>3. Cardinality(pool[a]) < MaxConns /\ IsFiniteSet(pool[a])
      BY <2>3, <3>2 DEF SchedOnDial, ScalesUp, Bounded
    <3>4. /\ IsFiniteSet(pool[a] \cup {v}) /\ Cardinality(pool[a]) \in Nat
          /\ \/ Cardinality(pool[a] \cup {v}) = Cardinality(pool[a])
             \/ Cardinality(pool[a] \cup {v}) = Cardinality(pool[a]) + 1
      BY <3>3, FS_AddElement, FS_CardinalityType
    <3>5. Cardinality(pool[a] \cup {v}) <= MaxConns
      BY <3>3, <3>4, ConstantAssumption DEF ConstantAssumption
    <3>6. QED BY <2>1, <3>1, <3>2, <3>4, <3>5 DEF Bounded
  <2>4. CASE Finish
    <3>1. PICK a, w : pool' = pool \/ pool' = [pool EXCEPT ![a] = @ \ {w}]
      BY Zenon, <2>4 DEF Finish
    <3>2. \A b \in Addrs : pool'[b] = pool[b] \/ pool'[b] = pool[b] \ {w}
      BY <2>1, <3>1
    <3>3. ASSUME NEW b \in Addrs
          PROVE  IsFiniteSet(pool'[b]) /\ Cardinality(pool'[b]) <= MaxConns
      <4>1. IsFiniteSet(pool[b]) /\ Cardinality(pool[b]) <= MaxConns
        BY DEF Bounded
      <4>2. /\ IsFiniteSet(pool[b] \ {w}) /\ Cardinality(pool[b]) \in Nat
            /\ Cardinality(pool[b] \ {w}) = Cardinality(pool[b])
                 \/ Cardinality(pool[b] \ {w}) = Cardinality(pool[b]) - 1
        BY <4>1, FS_RemoveElement, FS_CardinalityType
      <4>3. Cardinality(pool[b] \ {w}) <= MaxConns
        BY <4>1, <4>2, ConstantAssumption DEF ConstantAssumption
      <4>4. QED BY <3>2, <4>1, <4>2, <4>3
    <3>4. QED BY <3>3 DEF Bounded
  <2>5. CASE Waiter \/ Environment \/ GiveUp \/ Close \/ UNCHANGED vars
    BY <2>2, <2>5, WaiterStep, EnvironmentStep, GiveUpStep, CloseStep, StutterStep DEF Quiet
  <2>6. ASSUME NEW r \in Requests, DelegateAppend(r) \/ DelegateNotify(r)
        PROVE  Bounded'
    BY <2>2, <2>6 DEF DelegateAppend, DelegateNotify
  <2>7. CASE Scheduler /\ ~SchedOnDial /\ ~Finish
    BY Zenon, <2>2, <2>7 DEF Scheduler, TakeNotification, SwapNewRequests, SchedRefuse, SchedOnPool,
       ResumeRefused, TakeRetry, TakeCompleted, TakeNotified, Complete, Resume, SchedulerExit
  <2>8. QED BY <2>3, <2>4, <2>5, <2>6, <2>7 DEF Next, Agents
<1>3. QED BY <1>1, <1>2, Invariance, PTL DEF Spec

\* "Maximum connections for a single URI": dials, completions, retries and
\* scale-downs keep the pool of each service within it.
THEOREM PoolWithinLimit == Spec => []PoolBound
<1>1. Bounded => PoolBound
  BY DEF Bounded, PoolBound
<1>2. QED BY <1>1, PoolsBounded, PTL
-----------------------------------------------------------------------------
\* The types these proofs use, in one place.
LEMMA Types ==
    ASSUME QueueInv
    PROVE  /\ ctx \in [Requests -> Ctx]
           /\ \A q \in Requests : /\ ctx[q].wConn \in WConns \cup {NoWConn}
                                  /\ ctx[q].done \in BOOLEAN
                                  /\ RemoteAddr[q] \in Addrs
           /\ wconns \in [WConns -> WConn]
           /\ \A w \in WConns : /\ wconns[w].conn \in Conns \cup {NoConn}
                                /\ wconns[w].requestList \in Seq(Requests)
           /\ pool \in [Addrs -> SUBSET WConns]
           /\ Pooled \subseteq WConns
           /\ NoWConn \notin WConns /\ NoConn \notin Conns
           /\ \A o \in ops : o \in Op /\ o.ctx \in Requests /\ o.conn \in Conns
           /\ socks \in [Conns -> Socket]
           /\ \A c \in Conns : socks[c].open \in BOOLEAN
           /\ sched \in SchedState /\ waiter \in WaiterState
           /\ notifiers \subseteq Requests
<1>1. TypeOK
  BY DEF QueueInv
<1>2. ctx \in [Requests -> Ctx] /\ \A q \in Requests : ctx[q].wConn \in WConns \cup {NoWConn}
                                      /\ ctx[q].done \in BOOLEAN
  BY <1>1 DEF TypeOK, Ctx
<1>3. \A q \in Requests : RemoteAddr[q] \in Addrs
  BY DEF Addrs
<1>4. /\ wconns \in [WConns -> WConn]
      /\ \A w \in WConns : /\ wconns[w].conn \in Conns \cup {NoConn}
                           /\ wconns[w].requestList \in Seq(Requests)
  BY <1>1 DEF TypeOK, WConn
<1>5. pool \in [Addrs -> SUBSET WConns] /\ Pooled \subseteq WConns
  BY <1>1 DEF TypeOK, Pooled
<1>6. NoWConn \notin WConns /\ NoConn \notin Conns
  BY ConstantAssumption DEF ConstantAssumption, NoWConn, NoConn
<1>7. \A o \in ops : o \in Op /\ o.ctx \in Requests /\ o.conn \in Conns
  BY <1>1 DEF TypeOK, Op
<1>8. socks \in [Conns -> Socket] /\ \A c \in Conns : socks[c].open \in BOOLEAN
  BY <1>1 DEF TypeOK, Socket
<1>9. QED BY <1>1, <1>2, <1>3, <1>4, <1>5, <1>6, <1>7, <1>8 DEF TypeOK

(***************************************************************************)
(* Steps that leave the lists, the pool and the places of the requests.    *)
(***************************************************************************)
\* Such a step preserves the ownership when it closes no socket of the pool,
\* adds no operation or report but in place of one, and, with nothing refused,
\* leaves every active request active.
LEMMA OwnershipFrame ==
    ASSUME IInv, UNCHANGED <<wconns, pool>>,
           \A q \in Requests : ctx'[q].wConn = ctx[q].wConn /\ ctx'[q].done = ctx[q].done,
           \A q \in Requests : AtWork(q) => AtWork(q)',
           \A w \in Pooled : socks[wconns[w].conn].open => socks'[wconns[w].conn].open,
           notifiers' \subseteq notifiers,
           \A o \in ops' : \E p \in ops : p.ctx = o.ctx /\ p.conn = o.conn,
           \A o, p \in ops' : o.ctx = p.ctx => o = p,
           waiter'.pc # "wait" => \/ waiter.pc # "wait" /\ waiter'.cur = waiter.cur
                                  \/ \E p \in ops : p.ctx = waiter'.cur,
           waiter'.pc # "wait" => \A o \in ops' : o.ctx # waiter'.cur,
           ~die' /\ "submit" \notin Faults =>
               ~die /\ \A q \in Requests : Active(q) => Active(q)'
    PROVE  Ownership'
<1>1. QueueInv /\ Ownership
  BY DEF IInv
<1>2. ListsOnce' /\ InOwnPool'
  BY <1>1 DEF Ownership, ListsOnce, InOwnPool
<1>3. DoneAtWork'
  <2>1. \A w \in WConns : \A i \in DOMAIN wconns[w].requestList : wconns[w].requestList[i] \in Requests
    BY <1>1, Types
  <2>2. QED BY <1>1, <2>1 DEF Ownership, DoneAtWork
<1>4. OneReport'
  <2>1. waiter.pc # "wait" => waiter.cur \in Requests
    BY <1>1 DEF QueueInv, ActiveIsFront
  <2>2. \A o \in ops : o.ctx \in Requests
    BY <1>1, Types
  <2>3. \A o \in ops' : ~ctx'[o.ctx].done /\ o.ctx \notin notifiers'
    BY <1>1, <2>2 DEF Ownership, OneReport
  <2>4. waiter'.pc # "wait" => ~ctx'[waiter'.cur].done /\ waiter'.cur \notin notifiers'
    BY <1>1, <2>1, <2>2 DEF Ownership, OneReport
  <2>5. QED BY <2>3, <2>4 DEF OneReport
<1>5. PoolOwnsSockets'
  <2>1. Pooled' = Pooled
    BY DEF Pooled
  <2>2. \A o \in ops' : LET w == ctx'[o.ctx].wConn
                        IN  w \in Pooled /\ wconns[w].conn = o.conn
    BY <1>1, Types DEF Ownership, PoolOwnsSockets
  <2>3. QED BY <1>1, <2>1, <2>2 DEF Ownership, PoolOwnsSockets
<1>6. FrontDriven'
  <2>1. SUFFICES ASSUME ~die', "submit" \notin Faults
                 PROVE  /\ notifiers' = {}
                        /\ \A w \in WConns : LET list == wconns[w].requestList IN
                             list # <<>> => Active(Head(list))' \/ AtWork(Head(list))'
    BY DEF FrontDriven
  <2>2. /\ ~die /\ notifiers = {}
        /\ \A w \in WConns : LET list == wconns[w].requestList IN
             list # <<>> => Active(Head(list)) \/ AtWork(Head(list))
    BY <1>1, <2>1 DEF Ownership, FrontDriven
  <2>3. \A w \in WConns : wconns[w].requestList # <<>> => Head(wconns[w].requestList) \in Requests
    BY <1>1, Types
  <2>4. QED BY <2>1, <2>2, <2>3
<1>7. QED BY <1>2, <1>3, <1>4, <1>5, <1>6 DEF Ownership
\* In particular one that touches neither operations nor reports.
LEMMA OwnershipStill ==
    ASSUME IInv, UNCHANGED <<wconns, pool, ops, notifiers, waiter>>,
           \A q \in Requests : ctx'[q].wConn = ctx[q].wConn /\ ctx'[q].done = ctx[q].done,
           \A q \in Requests : AtWork(q) => AtWork(q)',
           \A w \in Pooled : socks[wconns[w].conn].open => socks'[wconns[w].conn].open,
           die => die'
    PROVE  Ownership'
<1>1. \A o, p \in ops : o.ctx = p.ctx => o = p
  BY DEF IInv, Ownership, OneReport
<1>2. waiter.pc # "wait" => \A o \in ops : o.ctx # waiter.cur
  BY DEF IInv, Ownership, OneReport
<1>3. \A q \in Requests : Active(q) => Active(q)'
  BY DEF Active
<1>4. QED BY <1>1, <1>2, <1>3, OwnershipFrame

\* The assignments to a request that change neither its place nor its end.
LEMMA SamePlace ==
    ASSUME QueueInv, NEW r \in Requests,
           \/ \E p : ctx' = [ctx EXCEPT ![r] = [ctx[r] EXCEPT !.phase = p]]
           \/ \E o : ctx' = [ctx EXCEPT ![r] = [ctx[r] EXCEPT !.outcome = o]]
           \/ \E n : ctx' = [ctx EXCEPT ![r] = [ctx[r] EXCEPT !.resumes = n]]
           \/ \E n : ctx' = [ctx EXCEPT ![r] = [ctx[r] EXCEPT !.retries = n]]
    PROVE  \A q \in Requests : ctx'[q].wConn = ctx[q].wConn /\ ctx'[q].done = ctx[q].done
<1>1. ctx \in [Requests -> Ctx] /\ ctx[r] \in Ctx
  BY Types
<1>2. /\ \A p : LET d == [ctx[r] EXCEPT !.phase = p]
                IN  d.wConn = ctx[r].wConn /\ d.done = ctx[r].done
      /\ \A p : LET d == [ctx[r] EXCEPT !.outcome = p]
                IN  d.wConn = ctx[r].wConn /\ d.done = ctx[r].done
      /\ \A p : LET d == [ctx[r] EXCEPT !.resumes = p]
                IN  d.wConn = ctx[r].wConn /\ d.done = ctx[r].done
      /\ \A p : LET d == [ctx[r] EXCEPT !.retries = p]
                IN  d.wConn = ctx[r].wConn /\ d.done = ctx[r].done
  BY <1>1 DEF Ctx
<1>3. ASSUME NEW d, d.wConn = ctx[r].wConn /\ d.done = ctx[r].done,
             ctx' = [ctx EXCEPT ![r] = d]
      PROVE  \A q \in Requests : ctx'[q].wConn = ctx[q].wConn /\ ctx'[q].done = ctx[q].done
  BY <1>1, <1>3
<1>4. CASE \E p : ctx' = [ctx EXCEPT ![r] = [ctx[r] EXCEPT !.phase = p]]
  BY <1>2, <1>3, <1>4
<1>5. CASE \E p : ctx' = [ctx EXCEPT ![r] = [ctx[r] EXCEPT !.outcome = p]]
  BY <1>2, <1>3, <1>5
<1>6. CASE \E p : ctx' = [ctx EXCEPT ![r] = [ctx[r] EXCEPT !.resumes = p]]
  BY <1>2, <1>3, <1>6
<1>7. CASE \E p : ctx' = [ctx EXCEPT ![r] = [ctx[r] EXCEPT !.retries = p]]
  BY <1>2, <1>3, <1>7
<1>8. QED BY <1>4, <1>5, <1>6, <1>7

\* The agents, the sockets' remote ends and the runtime, the reports given up,
\* and the scheduler's steps between the lists.
LEMMA StillSteps ==
    ASSUME IInv,
           \/ Agents \/ Environment
           \/ TakeNotification \/ SwapNewRequests \/ SchedRefuse \/ ResumeRefused
           \/ Resume \/ SchedulerExit \/ UNCHANGED vars
    PROVE  Ownership'
<1>0. QueueInv /\ sched \in SchedState
  BY Types DEF IInv
<1>1. CASE Close \/ TakeNotification \/ SwapNewRequests \/ SchedulerExit \/ UNCHANGED vars
  <2>1. UNCHANGED <<ctx, wconns, pool, ops, notifiers, waiter, socks>> /\ (die => die')
    BY <1>1 DEF Close, TakeNotification, SwapNewRequests, SchedulerExit, vars
  <2>2. \A q \in Requests : AtWork(q) => AtWork(q)'
    BY <1>1 DEF Close, TakeNotification, SwapNewRequests, SchedulerExit, vars, AtWork
  <2>3. QED BY <2>1, <2>2, OwnershipStill
<1>2. ASSUME NEW r \in Requests, DelegateAppend(r) \/ DelegateNotify(r)
      PROVE  Ownership'
  <2>1. \E p : ctx' = [ctx EXCEPT ![r] = [ctx[r] EXCEPT !.phase = p]]
    BY <1>2 DEF DelegateAppend, DelegateNotify
  <2>2. UNCHANGED <<sched, die, wconns, pool, ops, notifiers, waiter, socks>>
    BY <1>2 DEF DelegateAppend, DelegateNotify
  <2>3. QED BY <1>0, <2>1, <2>2, SamePlace, OwnershipStill DEF AtWork
<1>3. CASE Environment
  <2>1. UNCHANGED <<ctx, sched, die, wconns, pool, ops, notifiers, waiter>>
    BY <1>3 DEF Environment, RemoteReply, RemoteClose, Collect
  <2>2. \A w \in Pooled : socks[wconns[w].conn].open => socks'[wconns[w].conn].open
    <3>1. PICK c \in Conns : RemoteReply(c) \/ RemoteClose(c) \/ Collect(c)
      BY <1>3 DEF Environment
    <3>2. socks \in [Conns -> Socket] /\ socks[c] \in Socket
      BY <1>0, Types
    <3>3. CASE Collect(c)
      BY <3>2, <3>3 DEF Collect
    <3>4. CASE RemoteReply(c) \/ RemoteClose(c)
      <4>1. \A d \in Conns : socks'[d].open = socks[d].open
        BY <3>2, <3>4 DEF RemoteReply, RemoteClose, Socket
      <4>2. \A w \in Pooled : wconns[w].conn \in Conns
        BY <1>0, Types DEF QueueInv, ConnsNamed
      <4>3. QED BY <4>1, <4>2
    <3>5. QED BY <3>1, <3>3, <3>4
  <2>3. QED BY SMTT(30), <2>1, <2>2, OwnershipStill DEF AtWork
<1>4. CASE SchedRefuse \/ ResumeRefused \/ Resume
  <2>1. UNCHANGED <<die, wconns, pool, ops, notifiers, waiter, socks>>
    BY <1>4 DEF SchedRefuse, ResumeRefused, Resume
  <2>2. \A q \in Requests : AtWork(q) => AtWork(q)'
    BY <1>0, <1>4 DEF SchedRefuse, ResumeRefused, Resume, AtWork, SchedState
  <2>3. CASE SchedRefuse
    <3>1. Head(sched.batch) \in Requests
      BY <1>0, <2>3, HeadOfBatch DEF SchedRefuse
    <3>2. \E o : ctx' = [ctx EXCEPT ![Head(sched.batch)] = [ctx[Head(sched.batch)] EXCEPT !.outcome = o]]
      BY <2>3 DEF SchedRefuse
    <3>3. QED BY <1>0, <2>1, <2>2, <3>1, <3>2, SamePlace, OwnershipStill
  <2>4. CASE ResumeRefused \/ Resume
    <3>1. sched.cur \in Requests
      BY <1>0, <2>4, HeadOfBatch DEF ResumeRefused, Resume, QueueInv, SchedulerAtWork
    <3>2. \E n : ctx' = [ctx EXCEPT ![sched.cur] = [ctx[sched.cur] EXCEPT !.resumes = n]]
      BY <2>4 DEF ResumeRefused, Resume
    <3>3. QED BY <1>0, <2>1, <2>2, <3>1, <3>2, SamePlace, OwnershipStill
  <2>5. QED BY <1>4, <2>3, <2>4
<1>5. QED BY <1>1, <1>2, <1>3, <1>4 DEF Agents

\* Reports given up once the proxy is closed.
LEMMA GiveUpOwns == IInv /\ GiveUp => Ownership'
<1> SUFFICES ASSUME IInv, GiveUp PROVE Ownership'
  OBVIOUS
<1>1. QueueInv /\ OneReport
  BY DEF IInv, Ownership
<1>2. UNCHANGED <<sched, pool>> /\ \A q \in Requests : SameFate(ctx[q], ctx'[q])
  BY <1>1, GiveUpStep DEF Quiet
<1>3. /\ UNCHANGED <<die, wconns, ops, socks>> /\ die
      /\ notifiers' \subseteq notifiers
      /\ waiter'.pc # "wait" => waiter.pc # "wait" /\ waiter'.cur = waiter.cur
  BY DEF GiveUp, WaiterGivesUp, NotifierGivesUp
<1>4. /\ \A o, p \in ops : o.ctx = p.ctx => o = p
      /\ waiter'.pc # "wait" => \A o \in ops : o.ctx # waiter'.cur
  BY <1>1, <1>3 DEF OneReport
<1>5. QED BY <1>2, <1>3, <1>4, OwnershipFrame DEF SameFate, AtWork

(***************************************************************************)
(* The IO goroutine: an operation goes on, or becomes its only report.     *)
(***************************************************************************)
Continues(o) ==
    \/ UNCHANGED <<ops, waiter>>
    \/ /\ ops' = (ops \ {o}) \cup {[o EXCEPT !.op = "read"]}
       /\ UNCHANGED waiter
    \/ /\ ops' = ops \ {o}
       /\ waiter' \in WaiterState /\ waiter'.pc # "wait" /\ waiter'.cur = o.ctx
    \/ ops' = ops \ {o} /\ UNCHANGED waiter /\ "submit" \in Faults

\* The steps of the IO goroutine.
LEMMA WaiterOwns == IInv /\ Waiter => Ownership'
<1> SUFFICES ASSUME IInv, NEW o \in ops,
                    \/ WriteDone(o) \/ WriteFailed(o)
                    \/ ReadData(o) \/ ReadEOF(o) \/ ReadTimeout(o)
             PROVE  Ownership'
  BY DEF Waiter
<1>1. /\ QueueInv /\ o.ctx \in Requests /\ o.conn \in Conns /\ o \in Op
      /\ socks \in [Conns -> Socket] /\ waiter.pc = "wait"
  BY Types DEF IInv, WriteDone, WriteFailed, ReadData, ReadEOF, ReadTimeout
<1>2. /\ UNCHANGED <<sched, pool>> /\ \A q \in Requests : SameFate(ctx[q], ctx'[q])
      /\ UNCHANGED <<die, wconns, notifiers>>
  <2>1. Waiter
    BY DEF Waiter
  <2>2. UNCHANGED <<die, wconns, notifiers>>
    BY Zenon DEF WriteDone, WriteFailed, ReadData, ReadEOF, ReadTimeout, ReadResult
  <2>3. QED BY <1>1, <2>1, <2>2, WaiterStep DEF Quiet
<1>3. Continues(o)
  <2>1. \A pc \in {"retry", "complete"} :
          LET b == Blocked(pc, o.ctx)
          IN  b \in WaiterState /\ b.pc # "wait" /\ b.cur = o.ctx
    BY <1>1 DEF Blocked, WaiterState
  <2>2. CASE WriteDone(o)
    BY <2>2 DEF WriteDone, Continues
  <2>3. CASE WriteFailed(o)
    BY <2>1, <2>3 DEF WriteFailed, Continues
  <2>4. ASSUME NEW got, NEW error, ReadResult(o, got, error)
        PROVE  Continues(o)
    BY <2>1, <2>4 DEF ReadResult, Continues
  <2>5. QED BY <2>2, <2>3, <2>4 DEF ReadData, ReadEOF, ReadTimeout
<1>4. \A c \in Conns : socks'[c].open = socks[c].open
  <2>1. socks[o.conn] \in Socket
    BY <1>1
  <2>2. \A x : /\ [socks[o.conn] EXCEPT !.sent = x].open = socks[o.conn].open
               /\ [socks[o.conn] EXCEPT !.wire = x].open = socks[o.conn].open
    BY <2>1 DEF Socket
  <2>3. \/ UNCHANGED socks
        \/ \E x : socks' = [socks EXCEPT ![o.conn] = [socks[o.conn] EXCEPT !.sent = x]]
        \/ \E x : socks' = [socks EXCEPT ![o.conn] = [socks[o.conn] EXCEPT !.wire = x]]
    BY DEF WriteDone, WriteFailed, ReadData, ReadEOF, ReadTimeout
  <2>4. CASE UNCHANGED socks
    BY <2>4
  <2>5. CASE \E x : socks' = [socks EXCEPT ![o.conn] = [socks[o.conn] EXCEPT !.sent = x]]
    BY <1>1, <2>2, <2>5
  <2>6. CASE \E x : socks' = [socks EXCEPT ![o.conn] = [socks[o.conn] EXCEPT !.wire = x]]
    BY <1>1, <2>2, <2>6
  <2>7. QED BY <2>3, <2>4, <2>5, <2>6
<1>5. \A w \in Pooled : socks[wconns[w].conn].open => socks'[wconns[w].conn].open
  <2>1. \A w \in Pooled : wconns[w].conn \in Conns
    BY <1>1, Types DEF QueueInv, ConnsNamed
  <2>2. QED BY <1>4, <2>1
<1>6. \A p, q \in ops : p.ctx = q.ctx => p = q
  BY DEF IInv, Ownership, OneReport
<1>7. [o EXCEPT !.op = "read"].ctx = o.ctx /\ [o EXCEPT !.op = "read"].conn = o.conn
  BY <1>1 DEF Op
<1>8. /\ \A p \in ops' : \E q \in ops : q.ctx = p.ctx /\ q.conn = p.conn
      /\ \A p, q \in ops' : p.ctx = q.ctx => p = q
      /\ waiter'.pc # "wait" => waiter'.cur = o.ctx /\ \A p \in ops' : p.ctx # waiter'.cur
  BY <1>1, <1>3, <1>6, <1>7 DEF Continues
<1>9. "submit" \notin Faults => \A q \in Requests : Active(q) => Active(q)'
  BY <1>1, <1>2, <1>3, <1>7 DEF Continues, Active
<1>10. QED BY <1>2, <1>5, <1>8, <1>9, OwnershipFrame DEF SameFate, AtWork

(***************************************************************************)
(* A completion: the request is done, and nothing reports it any more.     *)
(***************************************************************************)
LEMMA CompleteOwns ==
    ASSUME IInv, NEW r \in Requests, NEW failed, Complete(r, failed),
           r \in notifiers \/ ~ctx[r].done,
           \A o \in ops : o.ctx # r,
           notifiers' \subseteq notifiers, r \notin notifiers',
           waiter'.pc # "wait" => waiter' = waiter /\ waiter.cur # r,
           \A q \in Requests \ {r} : Active(q) => Active(q)'
    PROVE  Ownership'
<1>1. /\ QueueInv /\ Ownership /\ ctx[r] \in Ctx /\ ctx \in [Requests -> Ctx]
      /\ sched \in SchedState
  BY Types DEF IInv
<1>2. sched.pc = "select" /\ UNCHANGED <<newRequests, notify, die, pool, wconns, ops, socks>>
  BY DEF Complete
<1>3. CASE ctx[r].done
  <2>1. UNCHANGED <<ctx, sched>>
    BY <1>3 DEF Complete
  <2>2. die \/ "submit" \in Faults
    BY <1>1, <1>3 DEF Ownership, FrontDriven
  <2>3. /\ \A o, p \in ops : o.ctx = p.ctx => o = p
        /\ waiter'.pc # "wait" => \A o \in ops : o.ctx # waiter'.cur
    BY <1>1 DEF Ownership, OneReport
  <2>4. QED BY <1>2, <2>1, <2>2, <2>3, OwnershipFrame DEF AtWork
<1>4. CASE ~ctx[r].done
  <2> DEFINE c == [ctx[r] EXCEPT !.done = TRUE, !.err = failed]
             o == Marshalled(c)
             d == [c EXCEPT !.outcome = o]
  <2>1. /\ ctx' = [ctx EXCEPT ![r] = d]
        /\ sched' = [sched EXCEPT !.pc = "resume", !.cur = r]
    BY <1>4 DEF Complete
  <2> HIDE DEF o
  <2>2. d.wConn = ctx[r].wConn /\ d.done = TRUE
    BY <1>1 DEF Ctx
  <2> HIDE DEF d
  <2>3. /\ \A q \in Requests : ctx'[q].wConn = ctx[q].wConn
        /\ \A q \in Requests \ {r} : ctx'[q].done = ctx[q].done
        /\ AtWork(r)'
    BY <1>1, <2>1, <2>2 DEF AtWork, SchedState
  <2>4. ListsOnce' /\ InOwnPool'
    BY <1>1, <1>2 DEF Ownership, ListsOnce, InOwnPool
  <2>5. DoneAtWork'
    <3>1. \A w \in WConns : \A i \in DOMAIN wconns[w].requestList : wconns[w].requestList[i] \in Requests
      BY <1>1, Types
    <3>2. \A w \in WConns : \A i \in DOMAIN wconns[w].requestList : ~ctx[wconns[w].requestList[i]].done
      BY <1>1, <1>2 DEF Ownership, DoneAtWork, AtWork
    <3>3. QED BY <1>2, <2>3, <3>1, <3>2 DEF DoneAtWork
  <2>6. OneReport'
    <3>1. waiter.pc # "wait" => waiter.cur \in Requests
      BY <1>1 DEF QueueInv, ActiveIsFront
    <3>2. \A p \in ops : p.ctx \in Requests
      BY <1>1, Types
    <3>3. QED BY <1>1, <1>2, <2>3, <3>1, <3>2 DEF Ownership, OneReport
  <2>7. PoolOwnsSockets'
    <3>1. \A p \in ops : p.ctx \in Requests
      BY <1>1, Types
    <3>2. QED BY <1>1, <1>2, <2>3, <3>1 DEF Ownership, PoolOwnsSockets, Pooled
  <2>8. FrontDriven'
    <3>1. SUFFICES ASSUME ~die', "submit" \notin Faults
                   PROVE  /\ notifiers' = {}
                          /\ \A w \in WConns : LET list == wconns[w].requestList IN
                               list # <<>> => Active(Head(list))' \/ AtWork(Head(list))'
      BY <1>2 DEF FrontDriven
    <3>2. /\ notifiers = {}
          /\ \A w \in WConns : LET list == wconns[w].requestList IN
               list # <<>> => Active(Head(list))
      BY <1>1, <1>2, <3>1 DEF Ownership, FrontDriven, AtWork
    <3>3. \A w \in WConns : wconns[w].requestList # <<>> => Head(wconns[w].requestList) \in Requests
      BY <1>1, Types
    <3>4. QED BY <1>2, <2>3, <3>2, <3>3
  <2>9. QED BY <2>4, <2>5, <2>6, <2>7, <2>8 DEF Ownership
<1>5. QED BY <1>3, <1>4

\* A response or an error from the IO goroutine, a report of a notifier.
LEMMA ReportOwns ==
    ASSUME IInv, TakeCompleted \/ \E r \in Requests : TakeNotified(r)
    PROVE  Ownership'
<1>1. QueueInv /\ OneReport
  BY DEF IInv, Ownership
<1>2. CASE TakeCompleted
  <2>1. /\ waiter.pc # "wait" /\ waiter'.pc = "wait" /\ UNCHANGED <<notifiers, ops>>
        /\ Complete(waiter.cur, ctx[waiter.cur].err)
    BY <1>2 DEF TakeCompleted, Complete
  <2>2. waiter.cur \in Requests
    BY <1>1, <2>1 DEF QueueInv, ActiveIsFront
  <2>3. /\ ~ctx[waiter.cur].done /\ waiter.cur \notin notifiers
        /\ \A o \in ops : o.ctx # waiter.cur
    BY <1>1, <2>1 DEF OneReport
  <2>4. \A q \in Requests \ {waiter.cur} : Active(q) => Active(q)'
    BY <2>1 DEF Active
  <2>5. QED BY <2>1, <2>2, <2>3, <2>4, CompleteOwns
<1>3. ASSUME NEW r \in Requests, TakeNotified(r) PROVE Ownership'
  <2>1. /\ r \in notifiers /\ Complete(r, TRUE) /\ notifiers' = notifiers \ {r}
        /\ UNCHANGED <<waiter, ops>>
    BY <1>3 DEF TakeNotified, Complete
  <2>2. (waiter.pc # "wait" => waiter.cur # r) /\ \A o \in ops : o.ctx # r
    BY <1>1, <2>1 DEF OneReport
  <2>3. \A q \in Requests \ {r} : Active(q) => Active(q)'
    BY <2>1 DEF Active
  <2>4. QED BY <2>1, <2>2, <2>3, CompleteOwns
<1>4. QED BY <1>2, <1>3

(***************************************************************************)
(* Submissions.                                                            *)
(***************************************************************************)
\* The operation of a request that is not done and has no report is its only
\* one; so is the report of its refusal, when `told' has none either.
LEMMA SubmitReports ==
    ASSUME IInv, NEW r \in Requests, NEW c \in Conns, NEW told \in Requests,
           Submit(r, c, told),
           \A o \in ops : o.ctx \notin {r, told},
           ~ctx[r].done, r \notin notifiers,
           waiter'.pc # "wait" => waiter' = waiter /\ waiter.cur \notin {r, told},
           \A q \in Requests : ctx'[q].done = ctx[q].done
    PROVE  OneReport'
<1>1. QueueInv /\ OneReport /\ \A o \in ops : o.ctx \in Requests
  BY Types DEF IInv, Ownership
<1>2. waiter.pc # "wait" => waiter.cur \in Requests
  BY <1>1 DEF QueueInv, ActiveIsFront
<1> DEFINE n == [ctx |-> r, op |-> "write", conn |-> c]
<1>3. \/ ops' = ops \cup {n} /\ UNCHANGED notifiers
      \/ notifiers' = notifiers \cup {told} /\ UNCHANGED ops
  BY DEF Submit
<1>4. n.ctx = r
  OBVIOUS
<1> HIDE DEF n
<1>5. \A o, p \in ops' : o.ctx = p.ctx => o = p
  BY <1>1, <1>3, <1>4 DEF OneReport
<1>6. \A o \in ops' : /\ ~ctx'[o.ctx].done /\ o.ctx \notin notifiers'
                      /\ waiter'.pc # "wait" => waiter'.cur # o.ctx
  BY <1>1, <1>3, <1>4 DEF OneReport
<1>7. waiter'.pc # "wait" => ~ctx'[waiter'.cur].done /\ waiter'.cur \notin notifiers'
  BY <1>1, <1>2, <1>3 DEF OneReport
<1>8. QED BY <1>5, <1>6, <1>7 DEF OneReport

\* A request queued on a connection of its pool, submitted there if alone.
LEMMA QueueOnOwns ==
    ASSUME IInv, sched.pc = "batch", NEW r, r = Head(sched.batch),
           NEW w \in WConns, NEW lists \in [WConns -> WConn],
           QueueOn(r, w, lists),
           \A u \in WConns : lists[u].requestList = wconns[u].requestList,
           pool' \in [Addrs -> SUBSET WConns],
           \A a \in Addrs : pool[a] \subseteq pool'[a],
           \A a, b \in Addrs : a # b => pool'[a] \cap pool'[b] = {},
           w \in pool'[RemoteAddr[r]],
           \A u \in Pooled : lists[u].conn = wconns[u].conn,
           \A u \in Pooled' : lists[u].conn \in Conns /\ socks'[lists[u].conn].open,
           \A u, v \in Pooled' : u # v => lists[u].conn # lists[v].conn
    PROVE  Ownership'
<1> DEFINE list == wconns[w].requestList
           longer == Append(list, r)
           d == [ctx[r] EXCEPT !.wConn = w]
<1>1. /\ QueueInv /\ Ownership
      /\ r \in Requests /\ Fresh(ctx[r]) /\ ~Active(r) /\ ctx[r] \in Ctx
      /\ list \in Seq(Requests) /\ w # NoWConn /\ r \in Requests
      /\ ctx \in [Requests -> Ctx] /\ RemoteAddr[r] \in Addrs
  BY HeadOfBatch, Types DEF IInv
<1>2. /\ wconns' = [lists EXCEPT ![w] = [lists[w] EXCEPT !.requestList = longer]]
      /\ ctx' = [ctx EXCEPT ![r] = d]
      /\ sched' = NextInBatch(Tail(sched.batch))
      /\ UNCHANGED <<newRequests, notify, die, waiter>>
      /\ IF list = <<>> THEN Submit(r, lists[w].conn, r) ELSE UNCHANGED <<ops, notifiers>>
  BY DEF QueueOn, PushBack, SubmitsAtOnce
<1>3. d.wConn = w /\ d.done = ctx[r].done
  BY <1>1 DEF Ctx
<1> HIDE DEF d
<1>4. /\ \A q \in Requests : ctx'[q].wConn = IF q = r THEN w ELSE ctx[q].wConn
      /\ \A q \in Requests : ctx'[q].done = ctx[q].done
      /\ ctx[r].wConn = NoWConn /\ ~ctx[r].done
  BY <1>1, <1>2, <1>3 DEF Fresh
<1>5. \A u \in WConns : \A i \in DOMAIN wconns[u].requestList :
         wconns[u].requestList[i] \in Requests /\ wconns[u].requestList[i] # r
  <2>1. \A u \in WConns : \A i \in DOMAIN wconns[u].requestList :
           wconns[u].requestList[i] \in Requests /\ ctx[wconns[u].requestList[i]].wConn = u
    BY <1>1, Types DEF QueueInv, ListsOwned
  <2>2. NoWConn \notin WConns
    BY <1>1, Types
  <2>3. QED BY <1>4, <2>1, <2>2
<1>6. /\ \A u \in WConns : /\ wconns'[u].requestList = IF u = w THEN longer
                                                       ELSE wconns[u].requestList
                           /\ wconns'[u].conn = lists[u].conn
  <2>1. longer \in Seq(Requests)
    BY <1>1
  <2> HIDE DEF longer
  <2>2. /\ [lists[w] EXCEPT !.requestList = longer].requestList = longer
        /\ [lists[w] EXCEPT !.requestList = longer].conn = lists[w].conn
    BY DEF WConn
  <2>3. QED BY <1>2, <2>2
<1>7. /\ DOMAIN longer = 1 .. Len(list) + 1 /\ DOMAIN list = 1 .. Len(list)
      /\ Len(list) \in Nat /\ longer[Len(list) + 1] = r
      /\ \A i \in DOMAIN list : longer[i] = list[i]
      /\ longer # <<>> /\ Head(longer) = IF list = <<>> THEN r ELSE Head(list)
  <2>1. list \in Seq(Requests) /\ r \in Requests
    BY <1>1
  <2> HIDE DEF list
  <2>2. /\ DOMAIN longer = 1 .. Len(list) + 1 /\ DOMAIN list = 1 .. Len(list)
        /\ Len(list) \in Nat /\ longer[Len(list) + 1] = r
        /\ \A i \in DOMAIN list : longer[i] = list[i]
    BY <2>1
  <2>3. longer \in Seq(Requests) /\ Len(longer) = Len(list) + 1
    BY <2>1
  <2>4. longer # <<>> /\ Head(longer) = longer[1]
    <3>1. \A s \in Seq(Requests) : Len(s) > 0 => s # <<>> /\ Head(s) = s[1]
      OBVIOUS
    <3>2. Len(longer) > 0
      BY <2>2, <2>3
    <3>3. QED BY <2>3, <3>1, <3>2
  <2>5. Head(longer) = IF list = <<>> THEN r ELSE Head(list)
    BY <2>1, <2>2, <2>4
  <2>6. QED BY <2>2, <2>4, <2>5
<1> HIDE DEF longer
<1>8. \A i \in DOMAIN longer : (i = Len(list) + 1 /\ longer[i] = r)
                               \/ (i \in DOMAIN list /\ longer[i] = list[i])
  BY <1>7
<1>9. ~\E q : AtWork(q) \/ AtWork(q)'
  BY <1>2 DEF AtWork, NextInBatch
<1>10. /\ w \in Pooled' /\ Pooled \subseteq Pooled' /\ lists[w].conn \in Conns
  <2>1. w \in Pooled' /\ Pooled \subseteq Pooled'
    BY <1>1 DEF Pooled
  <2>2. QED BY <2>1
<1>11. ListsOnce'
  <2>1. \A i, j \in DOMAIN longer : longer[i] = longer[j] => i = j
    BY <1>1, <1>5, <1>8 DEF Ownership, ListsOnce
  <2>2. QED BY <1>1, <1>6, <2>1 DEF Ownership, ListsOnce
<1>12. DoneAtWork'
  <2>1. \A u \in WConns : \A i \in DOMAIN wconns[u].requestList : ~ctx[wconns[u].requestList[i]].done
    BY <1>1, <1>9 DEF Ownership, DoneAtWork
  <2>2. \A i \in DOMAIN longer : ~ctx'[longer[i]].done
    BY <1>1, <1>4, <1>5, <1>8, <2>1
  <2>3. QED BY <1>4, <1>5, <1>6, <2>1, <2>2 DEF DoneAtWork
<1>13. OneReport'
  <2>1. CASE list = <<>>
    <3>1. Submit(r, lists[w].conn, r)
      BY <1>2, <2>1
    <3>2. /\ \A o \in ops : o.ctx \notin {r} /\ r \notin notifiers
          /\ waiter.pc # "wait" => waiter.cur # r
      BY <1>1 DEF Active
    <3>3. r \notin notifiers
      BY <1>1 DEF Active
    <3>4. QED BY <1>1, <1>2, <1>4, <1>10, <3>1, <3>2, <3>3, SubmitReports
  <2>2. CASE list # <<>>
    <3>1. UNCHANGED <<ops, notifiers, waiter>>
      BY <1>2, <2>2
    <3>2. /\ \A o \in ops : o.ctx \in Requests
          /\ waiter.pc # "wait" => waiter.cur \in Requests
      BY <1>1, Types DEF QueueInv, ActiveIsFront
    <3>3. QED BY <1>1, <1>4, <3>1, <3>2 DEF Ownership, OneReport
  <2>3. QED BY <2>1, <2>2
<1>14. InOwnPool'
  <2>1. \A u \in WConns : \A i \in DOMAIN wconns[u].requestList :
           u \in pool'[RemoteAddr[wconns[u].requestList[i]]]
    BY <1>1, <1>5, Types DEF Ownership, InOwnPool
  <2>2. \A i \in DOMAIN longer : w \in pool'[RemoteAddr[longer[i]]]
    BY <1>8, <2>1
  <2>3. QED BY <1>6, <2>1, <2>2 DEF InOwnPool
<1>15. PoolOwnsSockets'
  <2>1. \A o \in ops' : \/ o \in ops
                        \/ o.ctx = r /\ o.conn = lists[w].conn
    BY <1>2 DEF Submit
  <2>2. \A o \in ops : /\ o.ctx \in Requests /\ o.ctx # r
                       /\ ctx[o.ctx].wConn \in Pooled
                       /\ wconns[ctx[o.ctx].wConn].conn = o.conn
    BY <1>1, Types DEF Active, Ownership, PoolOwnsSockets
  <2>3. \A o \in ops : /\ ctx'[o.ctx].wConn \in Pooled'
                       /\ wconns'[ctx'[o.ctx].wConn].conn = o.conn
    BY <1>1, <1>4, <1>6, <1>10, <2>2, Types
  <2>4. \A o \in ops' : /\ ctx'[o.ctx].wConn \in Pooled'
                        /\ wconns'[ctx'[o.ctx].wConn].conn = o.conn
    BY <1>1, <1>4, <1>6, <1>10, <2>1, <2>3
  <2>5. \A u \in Pooled' : u \in WConns
    BY DEF Pooled
  <2>6. NoConn \notin Conns
    BY <1>1, Types
  <2>7. QED BY <1>6, <2>4, <2>5, <2>6 DEF PoolOwnsSockets
<1>16. FrontDriven'
  <2>1. SUFFICES ASSUME ~die', "submit" \notin Faults
                 PROVE  /\ notifiers' = {}
                        /\ \A u \in WConns :
                             (wconns[u].requestList # <<>> => Active(Head(wconns[u].requestList)))'
    BY DEF FrontDriven
  <2>2. /\ notifiers = {}
        /\ \A u \in WConns : wconns[u].requestList # <<>> => Active(Head(wconns[u].requestList))
    BY <1>1, <1>2, <1>9, <2>1 DEF Ownership, FrontDriven
  <2>3. /\ notifiers' = {} /\ \A q : Active(q) => Active(q)'
        /\ list = <<>> => Active(r)'
    <3> DEFINE n == [ctx |-> r, op |-> "write", conn |-> lists[w].conn]
    <3>1. UNCHANGED <<notifiers, waiter>> /\ ops' = IF list = <<>> THEN ops \cup {n} ELSE ops
      BY <1>2, <2>1 DEF Submit
    <3>2. n.ctx = r
      OBVIOUS
    <3> HIDE DEF n
    <3>3. (\A q : Active(q) => Active(q)') /\ (list = <<>> => \E o \in ops' : o.ctx = r)
      BY <3>1, <3>2 DEF Active
    <3>4. QED BY <2>2, <3>1, <3>3 DEF Active
  <2>4. ASSUME NEW u \in WConns, wconns'[u].requestList # <<>>
        PROVE  Active(Head(wconns[u].requestList))'
    <3>0. PICK q : q = Head(wconns'[u].requestList)
      OBVIOUS
    <3>1. CASE u = w /\ list = <<>>
      BY <1>6, <1>7, <2>3, <3>1 DEF Active
    <3>2. CASE u # w \/ list # <<>>
      <4>1. wconns[u].requestList # <<>> /\ q = Head(wconns[u].requestList)
        BY <1>6, <1>7, <2>4, <3>0, <3>2
      <4>2. Active(q)
        BY <2>2, <4>1
      <4>3. Active(q)'
        BY <2>3, <4>2
      <4>4. QED BY <3>0, <4>3 DEF Active
    <3>3. QED BY <3>1, <3>2
  <2>5. QED BY <2>3, <2>4
<1>17. QED BY <1>11, <1>12, <1>13, <1>14, <1>15, <1>16 DEF Ownership

\* A dial yields a socket that is neither open nor in use.
LEMMA DialIsFree ==
    ASSUME NEW c \in Dial, c # NoConn
    PROVE  c \in Conns /\ ~socks[c].open
  BY DEF Dial, FreeConns

\* Open after a step: the socket dialled, and those that were and are not freed.
LEMMA SocketsOpen ==
    ASSUME QueueInv, NEW freed, NEW c
    PROVE  \A d \in Conns :
               Sockets(freed, c)[d].open <=> d = c \/ (d \notin freed /\ socks[d].open)
<1>1. \A d \in Conns : socks[d].open \in BOOLEAN
  BY Types
<1>2. OpenSocket.open = TRUE /\ ClosedSocket.open = FALSE
  BY DEF OpenSocket, ClosedSocket
<1>3. \A d \in Conns : Sockets(freed, c)[d] = IF d = c THEN OpenSocket
                                              ELSE IF d \in freed THEN ClosedSocket ELSE socks[d]
  BY DEF Sockets
<1>4. QED BY <1>1, <1>2, <1>3

\* A new request is queued: on a connection of the pool,
LEMMA SchedOnPoolOwns == IInv /\ SchedOnPool => Ownership'
<1> SUFFICES ASSUME IInv, SchedOnPool PROVE Ownership'
  OBVIOUS
<1>1. PICK r : r = Head(sched.batch)
  OBVIOUS
<1>2. sched.pc = "batch" /\ UNCHANGED <<pool, socks>>
  BY DEF SchedOnPool
<1>3. PICK w \in LeastLoaded(pool[RemoteAddr[r]]) : QueueOn(r, w, wconns)
  BY <1>1 DEF SchedOnPool
<1>4. QueueInv /\ r \in Requests /\ RemoteAddr[r] \in Addrs
  BY <1>1, <1>2, HeadOfBatch, Types DEF IInv
<1>5. w \in pool[RemoteAddr[r]] /\ w \in WConns
  BY <1>3, <1>4, Types DEF LeastLoaded
<1>6. /\ wconns \in [WConns -> WConn] /\ pool' \in [Addrs -> SUBSET WConns]
      /\ pool' = pool /\ Pooled' = Pooled
  BY <1>2, <1>4, Types DEF Pooled
<1>7. \A a, b \in Addrs : a # b => pool'[a] \cap pool'[b] = {}
  BY <1>6 DEF IInv, Ownership, InOwnPool
<1>8. /\ \A u \in Pooled' : wconns[u].conn \in Conns /\ socks'[wconns[u].conn].open
      /\ \A u, v \in Pooled' : u # v => wconns[u].conn # wconns[v].conn
  <2>1. \A u \in Pooled : wconns[u].conn \in Conns \cup {NoConn}
    BY <1>4, Types
  <2>2. QED BY <1>2, <1>6, <2>1 DEF IInv, Ownership, PoolOwnsSockets
<1>9. QED BY <1>1, <1>2, <1>3, <1>5, <1>6, <1>7, <1>8, QueueOnOwns

\* or after a dial has added one.
LEMMA SchedOnDialOwns == IInv /\ SchedOnDial => Ownership'
<1> SUFFICES ASSUME IInv, SchedOnDial PROVE Ownership'
  OBVIOUS
<1>1. PICK r : r = Head(sched.batch)
  OBVIOUS
<1> DEFINE a == RemoteAddr[r]
<1>2. PICK c \in Dial \ {NoConn}, v \in Unpooled :
         /\ pool' = [pool EXCEPT ![a] = @ \cup {v}]
         /\ socks' = Sockets({}, c)
         /\ \E w \in {v} \cup {u \in pool[a] : wconns[u].requestList = <<>>} :
              QueueOn(r, w, [wconns EXCEPT ![v] = [conn |-> c, requestList |-> <<>>]])
  BY <1>1 DEF SchedOnDial
<1> DEFINE fresh == [conn |-> c, requestList |-> <<>>]
           lists == [wconns EXCEPT ![v] = fresh]
<1>3. PICK w \in {v} \cup {u \in pool[a] : wconns[u].requestList = <<>>} :
         QueueOn(r, w, lists)
  BY <1>2
<1>4. /\ QueueInv /\ sched.pc = "batch" /\ r \in Requests /\ a \in Addrs
      /\ wconns \in [WConns -> WConn] /\ pool \in [Addrs -> SUBSET WConns]
      /\ v \in WConns \ Pooled
      /\ wconns[v].requestList = <<>>
  <2>1. QueueInv /\ sched.pc = "batch"
    BY DEF IInv, SchedOnDial
  <2>2. QED BY <1>1, <1>2, <2>1, HeadOfBatch, Types DEF QueueInv, ListsOwned, Unpooled
<1>5. c \in Conns /\ ~socks[c].open
  BY <1>2, DialIsFree
<1>6. fresh \in WConn /\ fresh.requestList = <<>> /\ fresh.conn = c
  <2>1. <<>> \in Seq(Requests)
    OBVIOUS
  <2>2. QED BY <1>5, <2>1 DEF WConn
<1> HIDE DEF fresh
<1>7. /\ lists \in [WConns -> WConn]
      /\ \A u \in WConns : /\ lists[u].requestList = wconns[u].requestList
                           /\ lists[u].conn = IF u = v THEN c ELSE wconns[u].conn
  BY <1>4, <1>6
<1>8. /\ pool' \in [Addrs -> SUBSET WConns] /\ Pooled' = Pooled \cup {v}
      /\ \A b \in Addrs : pool'[b] = IF b = a THEN pool[b] \cup {v} ELSE pool[b]
  <2>1. pool' = [pool EXCEPT ![a] = pool[a] \cup {v}]
    BY <1>2
  <2>2. /\ pool' \in [Addrs -> SUBSET WConns]
        /\ \A b \in Addrs : pool'[b] = IF b = a THEN pool[b] \cup {v} ELSE pool[b]
    BY <1>4, <2>1
  <2>3. Pooled' = Pooled \cup {v}
    BY <1>4, <2>2 DEF Pooled
  <2>4. QED BY <2>2, <2>3
<1>9. \A b, d \in Addrs : b # d => pool'[b] \cap pool'[d] = {}
  <2>1. \A b \in Addrs : v \notin pool[b]
    BY <1>4 DEF Pooled
  <2>2. QED BY <1>8, <2>1 DEF IInv, Ownership, InOwnPool
<1>10. w \in pool'[a] /\ w \in WConns /\ \A b \in Addrs : pool[b] \subseteq pool'[b]
  BY <1>3, <1>4, <1>8
<1> HIDE DEF lists
<1>11. \A u \in Pooled : /\ u \in WConns /\ u # v /\ lists[u].conn = wconns[u].conn
                         /\ wconns[u].conn \in Conns /\ socks[wconns[u].conn].open
  <2>1. \A u \in Pooled : u \in WConns /\ wconns[u].conn \in Conns \cup {NoConn}
    BY <1>4, Types
  <2>2. QED BY <1>4, <1>7, <2>1 DEF IInv, Ownership, PoolOwnsSockets
<1>12. \A d \in Conns : socks'[d].open <=> (d = c \/ socks[d].open)
  BY <1>2, <1>4, SocketsOpen
<1>13. \A u \in Pooled' : lists[u].conn \in Conns /\ socks'[lists[u].conn].open
  BY <1>4, <1>5, <1>7, <1>8, <1>11, <1>12
<1>14. \A u, x \in Pooled' : u # x => lists[u].conn # lists[x].conn
  <2>1. \A u, x \in Pooled : u # x => wconns[u].conn # wconns[x].conn
    BY DEF IInv, Ownership, PoolOwnsSockets
  <2>2. QED BY <1>4, <1>5, <1>7, <1>8, <1>11, <2>1
<1>15. QED BY <1>1, <1>3, <1>4, <1>7, <1>8, <1>9, <1>10, <1>11, <1>13, <1>14, QueueOnOwns

(***************************************************************************)
(* The connection changes its socket: a retry, and the end of a request.   *)
(***************************************************************************)
\* No operation is on the connection of a request r whose turn it is and that
\* has none itself.
LEMMA NobodyElse ==
    ASSUME IInv, NEW r \in Requests, NEW w \in WConns,
           wconns[w].requestList # <<>>, Head(wconns[w].requestList) = r,
           \A o \in ops : o.ctx # r
    PROVE  w \in Pooled /\ \A o \in ops : ctx[o.ctx].wConn # w
<1>1. QueueInv /\ Ownership /\ \A o \in ops : o.ctx \in Requests
  BY Types DEF IInv
<1>2. w \in Pooled
  BY <1>1 DEF QueueInv, ListsOwned, Unpooled
<1>3. \A o \in ops : ctx[o.ctx].wConn = w => Head(wconns[w].requestList) = o.ctx
  BY <1>1 DEF Ownership, OneReport, QueueInv, ActiveIsFront, Active, ListOf
<1>4. QED BY <1>2, <1>3

\* A write is tried again, on a new socket if one can be dialled.
LEMMA TakeRetryOwns == IInv /\ TakeRetry => Ownership'
<1> SUFFICES ASSUME IInv, TakeRetry PROVE Ownership'
  OBVIOUS
<1>1. QueueInv /\ Ownership
  BY DEF IInv
<1>2. PICK r : r = waiter.cur
  OBVIOUS
<1>3. PICK w : w = ctx[r].wConn
  OBVIOUS
<1>4. PICK old : old = wconns[w].conn
  OBVIOUS
<1>5. /\ sched.pc = "select" /\ waiter.pc # "wait" /\ waiter'.pc = "wait"
      /\ UNCHANGED <<sched, pool, die>>
      /\ ctx' = [ctx EXCEPT ![r] = [ctx[r] EXCEPT !.retries = ctx[r].retries + 1]]
  BY <1>2 DEF TakeRetry
<1>6. /\ r \in Requests /\ ~ctx[r].done /\ r \notin notifiers /\ \A o \in ops : o.ctx # r
  BY <1>1, <1>2, <1>5 DEF Ownership, OneReport, QueueInv, ActiveIsFront
<1>7. /\ w \in WConns /\ wconns[w].requestList # <<>> /\ Head(wconns[w].requestList) = r
  <2>1. Active(r)
    BY <1>2, <1>5 DEF Active
  <2>2. NoWConn \notin WConns /\ ctx[r].wConn \in WConns \cup {NoWConn}
    BY <1>1, <1>6, Types
  <2>3. QED BY <1>1, <1>3, <1>6, <2>1, <2>2 DEF QueueInv, ActiveIsFront, ListOf
<1>8. w \in Pooled /\ \A o \in ops : ctx[o.ctx].wConn # w
  BY <1>6, <1>7, NobodyElse
<1>9. \A q \in Requests : ctx'[q].wConn = ctx[q].wConn /\ ctx'[q].done = ctx[q].done
  <2>1. \E n : ctx' = [ctx EXCEPT ![r] = [ctx[r] EXCEPT !.retries = n]]
    BY <1>5
  <2>2. QED BY <1>1, <1>6, <2>1, SamePlace
<1>10. PICK c \in Dial :
         IF c = NoConn
         THEN /\ Submit(r, old, r)
              /\ UNCHANGED <<wconns, socks>>
         ELSE /\ wconns' = [wconns EXCEPT ![w].conn = c]
              /\ socks' = Sockets({old}, c)
              /\ Submit(r, c, r)
  BY <1>2, <1>3, <1>4 DEF TakeRetry
<1>11. PICK conn : conn = IF c = NoConn THEN old ELSE c
  OBVIOUS
<1>12. old \in Conns /\ socks[old].open
  BY <1>1, <1>4, <1>7, <1>8, Types DEF Ownership, PoolOwnsSockets
<1>13. conn \in Conns /\ (conn = old \/ ~socks[conn].open) /\ Submit(r, conn, r)
  BY <1>10, <1>11, <1>12, DialIsFree
<1>14. \A u \in WConns : /\ wconns'[u].requestList = wconns[u].requestList
                         /\ wconns'[u].conn = IF u = w THEN conn ELSE wconns[u].conn
  <2>1. wconns \in [WConns -> WConn]
    BY <1>1, Types
  <2>2. CASE c = NoConn
    BY <1>4, <1>10, <1>11, <2>2
  <2>3. CASE c # NoConn
    <3>1. wconns' = [wconns EXCEPT ![w] = [wconns[w] EXCEPT !.conn = c]]
      BY <1>10, <2>3
    <3>2. /\ [wconns[w] EXCEPT !.conn = c].requestList = wconns[w].requestList
          /\ [wconns[w] EXCEPT !.conn = c].conn = c
      BY <1>7, <2>1 DEF WConn
    <3>3. QED BY <1>7, <1>11, <2>1, <2>3, <3>1, <3>2
  <2>4. QED BY <2>2, <2>3
<1>15. \A d \in Conns : d = conn \/ (d # old /\ socks[d].open) => socks'[d].open
  <2>1. CASE c = NoConn
    BY <1>10, <1>11, <1>12, <2>1
  <2>2. CASE c # NoConn
    BY <1>1, <1>10, <1>11, <2>2, SocketsOpen
  <2>3. QED BY <2>1, <2>2
<1>16. ListsOnce' /\ InOwnPool'
  BY <1>1, <1>5, <1>14 DEF Ownership, ListsOnce, InOwnPool
<1>17. DoneAtWork'
  <2>1. \A u \in WConns : \A i \in DOMAIN wconns[u].requestList : wconns[u].requestList[i] \in Requests
    BY <1>1, Types
  <2>2. QED BY <1>1, <1>5, <1>9, <1>14, <2>1 DEF Ownership, DoneAtWork, AtWork
<1>18. OneReport'
  BY <1>5, <1>6, <1>9, <1>13, SubmitReports
<1>19. PoolOwnsSockets'
  <2>1. Pooled' = Pooled /\ Pooled \subseteq WConns /\ NoConn \notin Conns
    BY <1>1, <1>5, Types DEF Pooled
  <2>2. \A u \in Pooled : /\ wconns[u].conn \in Conns /\ socks[wconns[u].conn].open
                          /\ u # w => wconns[u].conn # old
    BY <1>1, <1>4, <1>8, Types DEF Ownership, PoolOwnsSockets
  <2>3. \A u \in Pooled : wconns'[u].conn \in Conns /\ socks'[wconns'[u].conn].open
    BY <1>13, <1>14, <1>15, <2>1, <2>2
  <2>4. \A u, v \in Pooled : u # v => wconns'[u].conn # wconns'[v].conn
    <3>1. \A u, v \in Pooled : u # v => wconns[u].conn # wconns[v].conn
      BY <1>1 DEF Ownership, PoolOwnsSockets
    <3>2. \A u \in Pooled \ {w} : wconns[u].conn # conn
      BY <1>13, <2>2
    <3>3. QED BY <1>14, <2>1, <3>1, <3>2
  <2>5. \A o \in ops' : o \in ops \/ (o.ctx = r /\ o.conn = conn)
    BY <1>13 DEF Submit
  <2>6. \A o \in ops : /\ o.ctx \in Requests
                       /\ ctx[o.ctx].wConn \in Pooled \ {w}
                       /\ wconns[ctx[o.ctx].wConn].conn = o.conn
    BY <1>1, <1>8, Types DEF Ownership, PoolOwnsSockets
  <2>7. \A o \in ops' : /\ ctx'[o.ctx].wConn \in Pooled
                        /\ wconns'[ctx'[o.ctx].wConn].conn = o.conn
    BY <1>3, <1>6, <1>7, <1>8, <1>9, <1>14, <2>1, <2>5, <2>6
  <2>8. QED BY <2>1, <2>3, <2>4, <2>7 DEF PoolOwnsSockets
<1>20. FrontDriven'
  <2>1. SUFFICES ASSUME ~die', "submit" \notin Faults
                 PROVE  /\ notifiers' = {}
                        /\ \A u \in WConns :
                             (wconns[u].requestList # <<>> => Active(Head(wconns[u].requestList)))'
    BY DEF FrontDriven
  <2>2. /\ notifiers = {}
        /\ \A u \in WConns : wconns[u].requestList # <<>> => Active(Head(wconns[u].requestList))
    BY <1>1, <1>5, <2>1 DEF Ownership, FrontDriven, AtWork
  <2>3. notifiers' = {} /\ \A q : Active(q) => \E o \in ops' : o.ctx = q
    <3> DEFINE n == [ctx |-> r, op |-> "write", conn |-> conn]
    <3>1. UNCHANGED notifiers /\ ops' = ops \cup {n}
      BY <1>13, <2>1 DEF Submit
    <3>2. n.ctx = r
      OBVIOUS
    <3> HIDE DEF n
    <3>3. QED BY <1>2, <2>2, <3>1, <3>2 DEF Active
  <2>4. QED BY <1>14, <2>2, <2>3 DEF Active
<1>21. QED BY <1>16, <1>17, <1>18, <1>19, <1>20 DEF Ownership

\* What the end of a request does, put together: the list loses its front, the
\* connection may get another socket or leave its pool, the next is submitted.
Ends(r, w, old, rest, c, down, conn) ==
    /\ c \in IF ctx[r].disconnected THEN Dial ELSE {NoConn}
    /\ conn = IF c = NoConn THEN old ELSE c
    /\ down => rest = <<>>
    /\ wconns' = [wconns EXCEPT ![w] = [conn |-> conn, requestList |-> rest]]
    /\ socks' = Sockets(IF down \/ c # NoConn THEN {old} ELSE {}, c)
    /\ pool' = IF down THEN [pool EXCEPT ![RemoteAddr[r]] = @ \ {w}] ELSE pool
    /\ SubmitNext(rest, conn, r)

\* Finish, as Ends states it.
LEMMA FinishEffect ==
    ASSUME IInv, Finish, NEW r, r = sched.cur, NEW w, w = ctx[r].wConn,
           NEW old, old = wconns[w].conn, NEW rest, rest = Tail(wconns[w].requestList)
    PROVE  \E c \in Dial \cup {NoConn}, down \in BOOLEAN, conn \in Conns :
               Ends(r, w, old, rest, c, down, conn)
<1> DEFINE list == wconns[w].requestList
           lists == [wconns EXCEPT ![w].requestList = Tail(@)]
<1>1. QueueInv /\ sched.pc = "finish"
  BY Zenon DEF IInv, Finish
<1>2. /\ r \in Requests /\ w \in WConns /\ list # <<>> /\ list \in Seq(Requests)
      /\ wconns \in [WConns -> WConn] /\ old \in Conns
  BY <1>1, Types DEF QueueInv, SchedulerAtWork, ListOf, ConnsNamed
<1>3. PICK down \in BOOLEAN : down = ScalesDown(RemoteAddr[r], w, lists)
  BY Zenon DEF ScalesDown
<1>4. pool' = IF down THEN [pool EXCEPT ![RemoteAddr[r]] = @ \ {w}] ELSE pool
  BY ZenonT(60), <1>3 DEF Finish
<1>5. PICK c \in IF ctx[r].disconnected THEN Dial ELSE {NoConn} :
         /\ wconns' = [lists EXCEPT ![w].conn = ReplacedConn(old, c)]
         /\ socks' = Sockets(IF down \/ c # NoConn THEN {old} ELSE {}, c)
         /\ SubmitNext(lists[w].requestList, ReplacedConn(old, c), r)
  BY ZenonT(60), <1>3 DEF Finish
<1>6. PICK conn : conn = ReplacedConn(old, c)
  OBVIOUS
<1>7. conn \in Conns /\ conn = IF c = NoConn THEN old ELSE c
  BY Zenon, <1>2, <1>5, <1>6, DialType DEF ReplacedConn
<1>8. rest \in Seq(Requests)
  BY <1>2
<1>9. PICK v : v = [conn |-> old, requestList |-> rest]
  OBVIOUS
<1>10. v \in WConn /\ v.requestList = rest
  BY SMTT(30), <1>2, <1>8, <1>9 DEF WConn
<1>11. lists = [wconns EXCEPT ![w] = v]
  <2>1. lists = [wconns EXCEPT ![w] = [wconns[w] EXCEPT !.requestList = rest]]
    OBVIOUS
  <2>2. wconns[w] \in WConn
    BY <1>2
  <2>3. [wconns[w] EXCEPT !.requestList = rest] = v
    BY <1>9, <2>2, WConnUpdates
  <2>4. QED BY <2>1, <2>3
<1> HIDE DEF lists
<1>12. lists[w] = v
  BY <1>2, <1>11
<1>13. [v EXCEPT !.conn = conn] = [conn |-> conn, requestList |-> rest]
  BY <1>10, WConnUpdates
<1>14. wconns' = [wconns EXCEPT ![w] = [conn |-> conn, requestList |-> rest]]
  <2>1. wconns' = [lists EXCEPT ![w] = [lists[w] EXCEPT !.conn = conn]]
    BY <1>5, <1>6
  <2>2. QED BY <1>2, <1>10, <1>11, <1>12, <1>13, <2>1
<1>15. down => rest = <<>>
  BY <1>3, <1>10, <1>12 DEF ScalesDown
<1>16. SubmitNext(rest, conn, r)
  BY <1>5, <1>6, <1>10, <1>12
<1>17. c \in Dial \cup {NoConn}
  BY <1>5
<1>18. socks' = Sockets(IF down \/ c # NoConn THEN {old} ELSE {}, c)
  BY <1>5
<1>19. Ends(r, w, old, rest, c, down, conn)
  BY Zenon, <1>4, <1>5, <1>7, <1>14, <1>15, <1>16, <1>18 DEF Ends
<1>20. QED BY Zenon, <1>7, <1>17, <1>19

\* The end of a request keeps the ownership: its list has no other that is done,
\* and nothing is on its connection, which may therefore lose its socket.
LEMMA FinishOwns == IInv /\ Finish => Ownership'
<1> SUFFICES ASSUME IInv, Finish PROVE Ownership'
  OBVIOUS
<1>1. QueueInv /\ Ownership
  BY DEF IInv
<1>2. PICK r : r = sched.cur
  OBVIOUS
<1>3. PICK w : w = ctx[r].wConn
  OBVIOUS
<1>4. PICK old : old = wconns[w].conn
  OBVIOUS
<1>5. PICK list : list = wconns[w].requestList
  OBVIOUS
<1>6. PICK rest : rest = Tail(list)
  OBVIOUS
<1>0. rest = Tail(wconns[w].requestList)
  BY <1>5, <1>6
<1>7. PICK c \in Dial \cup {NoConn}, down \in BOOLEAN, conn \in Conns :
           Ends(r, w, old, rest, c, down, conn)
  BY ZenonT(60), <1>0, <1>2, <1>3, <1>4, FinishEffect
<1> USE DEF Ends
<1>8. /\ sched.pc = "finish" /\ sched'.pc = "select"
      /\ UNCHANGED <<ctx, die, waiter>>
  BY Zenon DEF Finish, NextInBatch
<1>9. /\ r \in Requests /\ w \in WConns /\ ctx[r].done /\ RemoteAddr[r] \in Addrs
      /\ list \in Seq(Requests) /\ list # <<>> /\ Head(list) = r
  BY <1>1, <1>2, <1>3, <1>5, <1>8, Types DEF QueueInv, SchedulerAtWork, ListOf
<1>10. \A o \in ops : o.ctx # r
  BY <1>1, <1>9 DEF Ownership, OneReport
<1>11. w \in Pooled /\ \A o \in ops : ctx[o.ctx].wConn # w
  BY <1>5, <1>9, <1>10, NobodyElse
<1>12. old \in Conns /\ socks[old].open
  BY <1>1, <1>4, <1>9, <1>11, Types DEF Ownership, PoolOwnsSockets
<1>13. \A u \in WConns : /\ wconns'[u].requestList = IF u = w THEN rest
                                                      ELSE wconns[u].requestList
                         /\ wconns'[u].conn = IF u = w THEN conn ELSE wconns[u].conn
  <2>1. wconns \in [WConns -> WConn]
    BY <1>1, Types
  <2>2. QED BY <1>7, <1>9, <2>1
<1>14. /\ rest \in Seq(Requests) /\ DOMAIN rest = 1 .. Len(rest)
       /\ \A i \in DOMAIN rest : i + 1 \in DOMAIN list /\ rest[i] = list[i + 1] /\ i + 1 # 1
       /\ 1 \in DOMAIN list /\ list[1] = r
       /\ rest # <<>> => 1 \in DOMAIN rest /\ Head(rest) = rest[1]
  <2>1. rest \in Seq(Requests) /\ 1 \in DOMAIN list /\ list[1] = r
    BY <1>6, <1>9
  <2>2. \A i \in DOMAIN rest : i + 1 \in DOMAIN list /\ rest[i] = list[i + 1] /\ i + 1 # 1
    BY <1>6, <1>9
  <2>3. \A s \in Seq(Requests) : DOMAIN s = 1 .. Len(s) /\ (s # <<>> => 1 \in DOMAIN s /\ Head(s) = s[1])
    OBVIOUS
  <2>4. QED BY <2>1, <2>2, <2>3
<1>15. \A i \in DOMAIN rest : /\ rest[i] \in Requests /\ rest[i] # r
                              /\ ~ctx[rest[i]].done /\ ctx[rest[i]].wConn = w
  <2>1. \A i, j \in DOMAIN list : list[i] = list[j] => i = j
    BY <1>1, <1>5, <1>9 DEF Ownership, ListsOnce
  <2>2. \A i \in DOMAIN rest : rest[i] \in Requests /\ rest[i] # r
    BY <1>9, <1>14, <2>1
  <2>3. \A i \in DOMAIN list : ctx[list[i]].done => list[i] = r
    BY <1>1, <1>2, <1>5, <1>9 DEF Ownership, DoneAtWork, AtWork
  <2>4. \A i \in DOMAIN list : ctx[list[i]].wConn = w
    BY <1>1, <1>5, <1>9 DEF QueueInv, ListsOwned
  <2>5. QED BY <1>14, <2>2, <2>3, <2>4
<1>16. \A i \in DOMAIN rest : ~Active(rest[i])
  <2>1. \A i \in DOMAIN rest : Active(rest[i]) => Head(list) = rest[i]
    BY <1>1, <1>5, <1>15 DEF QueueInv, ActiveIsFront, ListOf
  <2>2. QED BY <1>9, <1>15, <2>1
<1>17. /\ w \in pool[RemoteAddr[r]]
       /\ \A a \in Addrs : a # RemoteAddr[r] => w \notin pool[a]
  BY <1>1, <1>5, <1>9, <1>14 DEF Ownership, InOwnPool
<1>18. /\ \A a \in Addrs : pool'[a] = IF down THEN pool[a] \ {w} ELSE pool[a]
       /\ Pooled' = IF down THEN Pooled \ {w} ELSE Pooled
  <2>1. pool \in [Addrs -> SUBSET WConns]
    BY <1>1, Types
  <2>2. \A a \in Addrs : pool'[a] = IF down THEN pool[a] \ {w} ELSE pool[a]
    <3>1. CASE down
      <4>1. pool' = [pool EXCEPT ![RemoteAddr[r]] = pool[RemoteAddr[r]] \ {w}]
        BY <1>7, <3>1
      <4>2. QED BY <1>17, <2>1, <3>1, <4>1
    <3>2. CASE ~down
      BY <1>7, <3>2
    <3>3. QED BY <3>1, <3>2
  <2>3. Pooled' = IF down THEN Pooled \ {w} ELSE Pooled
    <3>1. CASE down
      <4>1. \A a \in Addrs : pool'[a] = pool[a] \ {w}
        BY <2>2, <3>1
      <4>2. QED BY <3>1, <4>1 DEF Pooled
    <3>2. CASE ~down
      <4>1. \A a \in Addrs : pool'[a] = pool[a]
        BY <2>2, <3>2
      <4>2. QED BY <3>2, <4>1 DEF Pooled
    <3>3. QED BY <3>1, <3>2
  <2>4. QED BY <2>2, <2>3
<1>19. /\ \A d \in Conns : d # old /\ socks[d].open => socks'[d].open
       /\ ~down => socks'[conn].open
       /\ conn = old \/ ~socks[conn].open
  <2>1. \A d \in Conns : socks'[d].open <=>
           d = c \/ (d \notin (IF down \/ c # NoConn THEN {old} ELSE {}) /\ socks[d].open)
    BY <1>1, <1>7, SocketsOpen
  <2>2. c # NoConn => ~socks[c].open
    BY <1>7, DialIsFree
  <2>3. QED BY <1>7, <1>12, <2>1, <2>2
<1>20. ListsOnce'
  <2>1. \A i, j \in DOMAIN rest : rest[i] = rest[j] => i = j
    <3>1. \A i, j \in DOMAIN list : list[i] = list[j] => i = j
      BY <1>1, <1>5, <1>9 DEF Ownership, ListsOnce
    <3>2. \A i, j \in DOMAIN rest : rest[i] = rest[j] => i + 1 = j + 1
      BY <1>14, <3>1
    <3>3. QED BY <1>14, <3>2
  <2>2. QED BY <1>1, <1>13, <2>1 DEF Ownership, ListsOnce
<1>21. DoneAtWork'
  <2>1. \A u \in WConns \ {w} : \A i \in DOMAIN wconns[u].requestList :
           ~ctx[wconns[u].requestList[i]].done
    BY <1>1, <1>2, <1>3 DEF Ownership, DoneAtWork, AtWork, QueueInv, ListsOwned
  <2>2. QED BY <1>8, <1>13, <1>15, <2>1 DEF DoneAtWork
<1>22. OneReport'
  <2>1. CASE rest = <<>>
    <3>1. UNCHANGED <<ops, notifiers>>
      BY <1>7, <2>1 DEF SubmitNext
    <3>2. QED BY <1>1, <1>8, <3>1 DEF Ownership, OneReport
  <2>2. CASE rest # <<>>
    <3>1. PICK h : h = Head(rest)
      OBVIOUS
    <3>2. h \in Requests /\ h # r /\ ~ctx[h].done /\ ~Active(h)
      BY <1>14, <1>15, <1>16, <2>2, <3>1
    <3>3. Submit(h, conn, r)
      BY <1>7, <2>2, <3>1 DEF SubmitNext
    <3>4. /\ \A o \in ops : o.ctx \notin {h, r}
          /\ h \notin notifiers
          /\ waiter.pc # "wait" => waiter.cur \notin {h, r}
      BY <1>1, <1>9, <1>10, <3>2 DEF Active, Ownership, OneReport
    <3>5. QED BY <1>7, <1>8, <1>9, <3>2, <3>3, <3>4, SubmitReports
  <2>3. QED BY <2>1, <2>2
<1>23. InOwnPool'
  <2>1. \A a, b \in Addrs : a # b => pool'[a] \cap pool'[b] = {}
    BY <1>1, <1>18 DEF Ownership, InOwnPool
  <2>2. \A u \in WConns \ {w} : \A i \in DOMAIN wconns[u].requestList :
           u \in pool'[RemoteAddr[wconns[u].requestList[i]]]
    <3>1. \A u \in WConns : \A i \in DOMAIN wconns[u].requestList :
             /\ RemoteAddr[wconns[u].requestList[i]] \in Addrs
             /\ u \in pool[RemoteAddr[wconns[u].requestList[i]]]
      BY <1>1, Types DEF Ownership, InOwnPool
    <3>2. \A b \in Addrs : \A u \in pool[b] : u # w => u \in pool'[b]
      BY <1>18
    <3>3. QED BY <3>1, <3>2
  <2>3. \A i \in DOMAIN rest : w \in pool'[RemoteAddr[rest[i]]]
    <3>1. \A i \in DOMAIN list : w \in pool[RemoteAddr[list[i]]]
      BY <1>1, <1>5, <1>9 DEF Ownership, InOwnPool
    <3>2. \A i \in DOMAIN rest : w \in pool[RemoteAddr[rest[i]]] /\ RemoteAddr[rest[i]] \in Addrs
      BY <1>1, <1>14, <1>15, <3>1, Types
    <3>3. ASSUME NEW i \in DOMAIN rest PROVE ~down
      BY <1>7, <3>3
    <3>4. QED BY <1>18, <3>2, <3>3
  <2>4. QED BY <1>13, <2>1, <2>2, <2>3 DEF InOwnPool
<1>24. PoolOwnsSockets'
  <2>1. Pooled \subseteq WConns /\ NoConn \notin Conns
    BY <1>1, Types
  <2>2. \A u \in Pooled : /\ wconns[u].conn \in Conns /\ socks[wconns[u].conn].open
                          /\ u # w => wconns[u].conn # old
    BY <1>1, <1>4, <1>11, Types DEF Ownership, PoolOwnsSockets
  <2>3. \A u \in Pooled' : wconns'[u].conn \in Conns /\ socks'[wconns'[u].conn].open
    <3>1. SUFFICES ASSUME NEW u \in Pooled'
                   PROVE  wconns'[u].conn \in Conns /\ socks'[wconns'[u].conn].open
      OBVIOUS
    <3>2. u \in Pooled /\ u \in WConns /\ (u = w => ~down)
      BY <1>18, <2>1, <3>1
    <3>3. CASE u = w
      BY <1>7, <1>13, <1>19, <3>2, <3>3
    <3>4. CASE u # w
      BY <1>13, <1>19, <2>2, <3>2, <3>4
    <3>5. QED BY <3>3, <3>4
  <2>4. \A u, v \in Pooled' : u # v => wconns'[u].conn # wconns'[v].conn
    <3>1. \A u, v \in Pooled : u # v => wconns[u].conn # wconns[v].conn
      BY <1>1 DEF Ownership, PoolOwnsSockets
    <3>2. \A u \in Pooled \ {w} : wconns[u].conn # conn
      BY <1>19, <2>2
    <3>3. QED BY <1>13, <1>18, <2>1, <3>1, <3>2
  <2>5. \A o \in ops : /\ o.ctx \in Requests
                       /\ ctx[o.ctx].wConn \in Pooled \ {w}
                       /\ wconns[ctx[o.ctx].wConn].conn = o.conn
    BY <1>1, <1>11, Types DEF Ownership, PoolOwnsSockets
  <2>6. \A o \in ops : /\ ctx'[o.ctx].wConn \in Pooled'
                       /\ wconns'[ctx'[o.ctx].wConn].conn = o.conn
    BY <1>8, <1>13, <1>18, <2>1, <2>5
  <2>7. \A o \in ops' : /\ ctx'[o.ctx].wConn \in Pooled'
                        /\ wconns'[ctx'[o.ctx].wConn].conn = o.conn
    <3>1. CASE rest = <<>>
      BY <1>7, <2>6, <3>1 DEF SubmitNext
    <3>2. CASE rest # <<>>
      <4>1. ctx[Head(rest)].wConn = w
        BY <1>14, <1>15, <3>2
      <4>2. \A o \in ops' : o \in ops \/ (o.ctx = Head(rest) /\ o.conn = conn)
        BY <1>7, <3>2 DEF SubmitNext, Submit
      <4>3. w \in Pooled'
        BY <1>7, <1>11, <1>18, <3>2
      <4>4. QED BY <1>8, <1>9, <1>13, <2>6, <4>1, <4>2, <4>3
    <3>3. QED BY <3>1, <3>2
  <2>8. QED BY <2>1, <2>3, <2>4, <2>7 DEF PoolOwnsSockets
<1>25. FrontDriven'
  <2>1. SUFFICES ASSUME ~die', "submit" \notin Faults
                 PROVE  /\ notifiers' = {}
                        /\ \A u \in WConns :
                             (wconns[u].requestList # <<>> => Active(Head(wconns[u].requestList)))'
    BY DEF FrontDriven
  <2>2. /\ notifiers = {}
        /\ \A u \in WConns : wconns[u].requestList # <<>> =>
             Active(Head(wconns[u].requestList)) \/ Head(wconns[u].requestList) = r
    BY <1>1, <1>2, <1>8, <2>1 DEF Ownership, FrontDriven, AtWork
  <2>3. \A u \in WConns \ {w} : wconns[u].requestList # <<>> => Head(wconns[u].requestList) # r
    <3>1. \A u \in WConns : wconns[u].requestList # <<>> => ctx[Head(wconns[u].requestList)].wConn = u
      BY <1>1, Types DEF QueueInv, ListsOwned
    <3>2. QED BY <1>3, <3>1
  <2>4. notifiers' = {} /\ (\A q : Active(q) => Active(q)')
        /\ (rest # <<>> => \E o \in ops' : o.ctx = Head(rest))
    <3>1. CASE rest = <<>>
      BY <1>7, <1>8, <2>2, <3>1 DEF SubmitNext, Active
    <3>2. CASE rest # <<>>
      <4> DEFINE n == [ctx |-> Head(rest), op |-> "write", conn |-> conn]
      <4>1. UNCHANGED notifiers /\ ops' = ops \cup {n}
        BY <1>7, <2>1, <3>2 DEF SubmitNext, Submit
      <4>2. n.ctx = Head(rest)
        OBVIOUS
      <4> HIDE DEF n
      <4>3. QED BY <1>8, <2>2, <4>1, <4>2 DEF Active
    <3>3. QED BY <3>1, <3>2
  <2>5. ASSUME NEW u \in WConns, wconns'[u].requestList # <<>>
        PROVE  Active(Head(wconns[u].requestList))'
    <3>1. CASE u = w
      BY <1>13, <2>4, <2>5, <3>1 DEF Active
    <3>2. CASE u # w
      <4>1. PICK q : q = Head(wconns'[u].requestList)
        OBVIOUS
      <4>2. Active(q)
        BY <1>13, <2>2, <2>3, <2>5, <3>2, <4>1
      <4>3. QED BY <2>4, <4>1, <4>2 DEF Active
    <3>3. QED BY <3>1, <3>2
  <2>6. QED BY <2>4, <2>5
<1>26. QED BY <1>20, <1>21, <1>22, <1>23, <1>24, <1>25 DEF Ownership

(***************************************************************************)
(* The theorems.                                                           *)
(***************************************************************************)
\* Nothing is owned at the start.
LEMMA InitOwns == Init => Ownership
<1> SUFFICES ASSUME Init PROVE Ownership
  OBVIOUS
<1>1. ListsOnce /\ DoneAtWork
  BY DEF Init, ListsOnce, DoneAtWork
<1>2. OneReport /\ FrontDriven
  BY DEF Init, OneReport, FrontDriven
<1>3. InOwnPool /\ PoolOwnsSockets
  BY DEF Init, InOwnPool, PoolOwnsSockets, Pooled
<1>4. QED BY <1>1, <1>2, <1>3 DEF Ownership

\* Every step preserves the ownership.
LEMMA NextOwns == IInv /\ [Next]_vars => Ownership'
<1> SUFFICES ASSUME IInv, [Next]_vars PROVE Ownership'
  OBVIOUS
<1>1. CASE Agents \/ Environment \/ UNCHANGED vars
  BY <1>1, StillSteps
<1>2. CASE Scheduler
  BY <1>2, StillSteps, ReportOwns, SchedOnPoolOwns, SchedOnDialOwns, TakeRetryOwns,
     FinishOwns DEF Scheduler
<1>3. CASE GiveUp
  BY <1>3, GiveUpOwns
<1>4. CASE Waiter
  BY <1>4, WaiterOwns
<1>5. QED BY <1>1, <1>2, <1>3, <1>4 DEF Next

\* The inductive invariant of the proxy: that of the queues, with a request in
\* one list once, in flight once, on a connection of its own service's pool.
THEOREM InvarianceWithOwnership == Spec => []IInv
<1>1. Init => IInv
  BY InitInv, InitOwns DEF IInv
<1>2. IInv /\ [Next]_vars => IInv'
  BY NextInv, NextOwns DEF IInv
<1>3. QED BY <1>1, <1>2, PTL DEF Spec

\* Pooled connections own distinct open sockets, and an operation is on the
\* socket of its request's connection: retries, reconnects and scale-downs
\* never Free a socket another request uses.
THEOREM SocketsOwned == Spec => []PoolOwnsSockets
<1>1. IInv => PoolOwnsSockets
  BY DEF IInv, Ownership
<1>2. QED BY <1>1, InvarianceWithOwnership, PTL

\* "Request will be submitted one by one": as long as the library refuses no
\* operation and the proxy is not closed, the front of each connection is moved
\* on from exactly one place and those behind it from none.
THEOREM SubmittedOneByOne ==
    ASSUME "submit" \notin Faults
    PROVE  Spec => []OneDriver
<1>1. IInv => OneDriver
  <2> SUFFICES ASSUME IInv, ~die, NEW w \in Pooled,
                      NEW i \in DOMAIN wconns[w].requestList
               PROVE  LET q == wconns[w].requestList[i] IN
                        /\ ctx[q].wConn = w
                        /\ Cardinality(Drivers(q)) = IF i = 1 THEN 1 ELSE 0
    BY DEF OneDriver
  <2> DEFINE list == wconns[w].requestList
             q == list[i]
  <2>1. QueueInv /\ Ownership /\ notifiers = {}
    BY DEF IInv, Ownership, FrontDriven
  <2>2. /\ w \in WConns /\ list \in Seq(Requests) /\ q \in Requests /\ list # <<>>
        /\ 1 \in DOMAIN list /\ Head(list) = list[1]
    BY <2>1, Types
  <2>3. ctx[q].wConn = w /\ w # NoWConn
    BY <2>1, <2>2, Types DEF QueueInv, ListsOwned
  <2>4. q = Head(list) => i = 1
    BY <2>1, <2>2 DEF Ownership, ListsOnce
  <2>5. AtWork(q) => q = Head(list) /\ ctx[q].done
    BY <2>1, <2>3 DEF AtWork, QueueInv, SchedulerAtWork, ListOf
  <2>6. Active(q) => q = Head(list)
    BY <2>1, <2>2, <2>3, <2>5 DEF QueueInv, ActiveIsFront, ListOf, Ownership, DoneAtWork
  <2>7. i = 1 => Active(q) \/ AtWork(q)
    BY <2>1, <2>2 DEF Ownership, FrontDriven
  <2> HIDE DEF q, list
  <2>8. CASE i # 1
    <3>1. ~Active(q) /\ ~AtWork(q)
      BY <2>4, <2>5, <2>6, <2>8
    <3>2. Drivers(q) = {}
      BY <2>1, <3>1 DEF Drivers, Active, AtWork
    <3>3. QED BY <2>3, <2>8, <3>2, FS_EmptySet DEF q, list
  <2>9. CASE i = 1
    <3>1. \E x : Drivers(q) = {x}
      <4>1. CASE AtWork(q)
        <5>1. /\ \A o \in ops : o.ctx # q
              /\ waiter.pc # "wait" => waiter.cur # q
          BY <2>1, <2>5, <4>1 DEF Ownership, OneReport
        <5>2. Drivers(q) = {<<sched.pc, NoConn>>}
          BY <2>1, <4>1, <5>1 DEF Drivers, AtWork
        <5>3. QED BY <5>2
      <4>2. CASE ~AtWork(q) /\ \E o \in ops : o.ctx = q
        <5>1. PICK o \in ops : o.ctx = q
          BY <4>2
        <5>2. /\ \A p \in ops : p.ctx = q => p = o
              /\ waiter.pc # "wait" => waiter.cur # q
          BY <2>1, <5>1 DEF Ownership, OneReport
        <5>3. Drivers(q) = {<<o.op, o.conn>>}
          BY <2>1, <4>2, <5>1, <5>2 DEF Drivers, AtWork
        <5>4. QED BY <5>3
      <4>3. CASE ~AtWork(q) /\ ~\E o \in ops : o.ctx = q
        <5>1. waiter.pc # "wait" /\ waiter.cur = q
          BY <2>1, <2>7, <2>9, <4>3 DEF Active
        <5>2. Drivers(q) = {<<waiter.pc, NoConn>>}
          BY <2>1, <4>3, <5>1 DEF Drivers, AtWork
        <5>3. QED BY <5>2
      <4>4. QED BY <4>1, <4>2, <4>3
    <3>2. Cardinality(Drivers(q)) = 1
      BY <3>1, FS_Singleton
    <3>3. QED BY <2>3, <2>9, <3>2 DEF q, list
  <2>10. QED BY <2>8, <2>9
<1>2. QED BY <1>1, InvarianceWithOwnership, PTL
=============================================================================
