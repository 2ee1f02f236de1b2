------------------------- MODULE DelegationProxyInv -------------------------
(***************************************************************************)
(* The inductive invariant of DelegationProxy, checked by TLC on small     *)
(* instances: what holds of the queues, and who owns what (proved in       *)
(* DelegationProxyProofs).                                                 *)
(***************************************************************************)
EXTENDS DelegationProxy

\* Something outside the scheduler moves r on.
Active(r) == \/ \E o \in ops : o.ctx = r
             \/ r \in notifiers
             \/ waiter.pc # "wait" /\ waiter.cur = r

ListOf(r) == wconns[ctx[r].wConn].requestList

\* Connections in the pool, and those requests are queued on, have a socket.
ConnsNamed ==
    /\ \A w \in Pooled : wconns[w].conn # NoConn
    /\ \A r \in Requests : ctx[r].wConn # NoWConn => wconns[ctx[r].wConn].conn # NoConn

\* An active request is queued on a connection and, unless done, its front.
ActiveIsFront ==
    /\ waiter.pc # "wait" => waiter.cur \in Requests
    /\ \A r \in Requests : Active(r) =>
         /\ ctx[r].wConn # NoWConn
         /\ ~ctx[r].done => ListOf(r) # <<>> /\ Head(ListOf(r)) = r

\* Where the scheduler is, and what it knows of the request at hand.
SchedulerAtWork ==
    /\ sched.pc \in {"select", "swap", "resume", "finish", "exit"} => sched.batch = <<>>
    /\ sched.pc \in {"batch", "refuse"} => sched.batch # <<>>
    /\ sched.pc = "refuse" =>
         sched.cur = Head(sched.batch) /\ ctx[sched.cur].outcome # "none"
    /\ sched.pc \in {"resume", "finish"} =>
         /\ sched.cur \in Requests
         /\ ctx[sched.cur].done /\ ctx[sched.cur].outcome # "none"
         /\ ctx[sched.cur].wConn # NoWConn
         /\ ListOf(sched.cur) # <<>> /\ Head(ListOf(sched.cur)) = sched.cur
    /\ sched.pc = "resume" => ctx[sched.cur].resumes = 0

\* A request is in the list of its connection; one out of the pool has none.
ListsOwned ==
    /\ \A w \in WConns : \A i \in DOMAIN wconns[w].requestList :
         ctx[wconns[w].requestList[i]].wConn = w
    /\ \A w \in Unpooled : wconns[w].requestList = <<>>

\* No request waits twice for the scheduler.
WaitsOnce ==
    /\ \A i, j \in DOMAIN newRequests : newRequests[i] = newRequests[j] => i = j
    /\ \A i, j \in DOMAIN sched.batch : sched.batch[i] = sched.batch[j] => i = j
    /\ \A i \in DOMAIN newRequests, j \in DOMAIN sched.batch :
         newRequests[i] # sched.batch[j]

Waits(r) == \/ \E i \in DOMAIN newRequests : newRequests[i] = r
            \/ \E i \in DOMAIN sched.batch : sched.batch[i] = r

Fresh(c) == c.wConn = NoWConn /\ ~c.done /\ c.resumes = 0

\* What waits has been delegated and not been touched.
WaitsFresh ==
    \A r \in Requests : /\ Waits(r) => ctx[r].phase # "idle" /\ Fresh(ctx[r])
                        /\ ctx[r].phase = "idle" => Fresh(ctx[r])

\* A queued request that is not done has not been resumed.
DoneFirst ==
    \A r \in Requests : ctx[r].wConn # NoWConn /\ ~ctx[r].done => ctx[r].resumes = 0

QueueInv == /\ TypeOK /\ ConnsNamed /\ ActiveIsFront /\ SchedulerAtWork /\ ListsOwned
        /\ WaitsOnce /\ WaitsFresh /\ DoneFirst /\ ResumedOnce
-----------------------------------------------------------------------------
(***************************************************************************)
(* Who owns what: one report in flight for a request, one connection for a *)
(* list, one socket for a connection.                                      *)
(***************************************************************************)
\* No request is twice in a list.
ListsOnce ==
    \A w \in WConns : \A i, j \in DOMAIN wconns[w].requestList :
        wconns[w].requestList[i] = wconns[w].requestList[j] => i = j

\* The scheduler is completing r.
AtWork(r) == sched.pc \in {"resume", "finish"} /\ sched.cur = r

\* A done request stays in its list only while the scheduler completes it.
DoneAtWork ==
    \A w \in WConns : \A i \in DOMAIN wconns[w].requestList :
        ctx[wconns[w].requestList[i]].done => AtWork(wconns[w].requestList[i])

\* A request that is not done is reported from one place at most, and an
\* operation or a blocked report is never that of a done one.
OneReport ==
    /\ \A o, p \in ops : o.ctx = p.ctx => o = p
    /\ \A o \in ops : /\ ~ctx[o.ctx].done /\ o.ctx \notin notifiers
                      /\ waiter.pc # "wait" => waiter.cur # o.ctx
    /\ waiter.pc # "wait" => ~ctx[waiter.cur].done /\ waiter.cur \notin notifiers

\* A connection is in one pool, that of the service its requests are for.
InOwnPool ==
    /\ \A a, b \in Addrs : a # b => pool[a] \cap pool[b] = {}
    /\ \A w \in WConns : \A i \in DOMAIN wconns[w].requestList :
         w \in pool[RemoteAddr[wconns[w].requestList[i]]]

\* While no operation is refused, the front of every list has a driver.
FrontDriven ==
    ~die /\ "submit" \notin Faults =>
        /\ notifiers = {}
        /\ \A w \in WConns : LET list == wconns[w].requestList
                             IN  list # <<>> => Active(Head(list)) \/ AtWork(Head(list))

Ownership == /\ ListsOnce /\ DoneAtWork /\ OneReport /\ InOwnPool
             /\ PoolOwnsSockets /\ FrontDriven

IInv == QueueInv /\ Ownership
-----------------------------------------------------------------------------
(***************************************************************************)
(* What is on the wire (proved in DelegationProxyOrderProofs), when no     *)
(* dial fails, the library refuses no operation and no service sends a     *)
(* misframed response: the bytes of a response are all read, or given up   *)
(* with their socket, before the next request is written.                  *)
(***************************************************************************)
\* Nothing is owed on socket s, and nothing is left on it.
Ready(s) == s.sent = <<>> /\ s.wire = <<>>

\* Nothing was read for the request of context c.
Blank(c) == c.protoState = "header" /\ c.buffer = <<>>

\* On the wire is nothing, or a whole response to r.
Begins(r, wire) == wire = <<>> \/ \E k \in Kinds : wire = Response(r, k)

BodyTokens(r, k) == Tail(Response(r, k))

\* Request r, with context c, is reading its response from socket s: it has read
\* nothing yet, or the header, and the body is on the wire or in its buffer.
Reads(r, c, s) ==
    \/ /\ Blank(c)
       /\ Begins(r, s.wire)
       /\ s.sent = <<>> \/ (s.sent = <<r>> /\ s.wire = <<>>)
    \/ /\ c.protoState = "body"
       /\ s.sent = <<>>
       /\ \E k \in Kinds : /\ c.respHeader = <<Head(Response(r, k))>>
                           /\ {c.buffer, s.wire} \subseteq {<<>>, BodyTokens(r, k)}
       /\ c.buffer = <<>> \/ s.wire = <<>>

InTheLibrary ==
    \A o \in ops : IF o.op = "write" THEN Blank(ctx[o.ctx]) /\ Ready(socks[o.conn])
                   ELSE Reads(o.ctx, ctx[o.ctx], socks[o.conn])

\* Requests that are not submitted have read nothing; those to be written again
\* neither.
Unread ==
    /\ \A r \in Requests : ctx[r].wConn = NoWConn => Blank(ctx[r])
    /\ \A w \in WConns : LET list == wconns[w].requestList
                         IN  \A i \in DOMAIN list : i > 1 => Blank(ctx[list[i]])
    /\ waiter.pc = "retry" => Blank(ctx[waiter.cur])

\* The response of r is on its way to the client, or has failed.
Reported(r) == (waiter.pc = "complete" /\ waiter.cur = r) \/ AtWork(r)

\* A connection that is not to be replaced is ready for the next request.
ReadyNext ==
    /\ \A r \in Requests :
         Reported(r) /\ ~ctx[r].disconnected => Ready(socks[wconns[ctx[r].wConn].conn])
    /\ \A w \in Pooled : wconns[w].requestList = <<>> => Ready(socks[wconns[w].conn])

OwnBytes ==
    \A r \in Requests : /\ \A i \in DOMAIN ctx[r].respHeader : ctx[r].respHeader[i].of = r
                        /\ \A i \in DOMAIN ctx[r].respData : ctx[r].respData[i].of = r

WireInv == /\ notifiers = {} /\ InTheLibrary /\ Unread /\ ReadyNext
           /\ OwnBytes /\ OneOutstanding
=============================================================================
