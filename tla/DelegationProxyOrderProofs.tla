--------------------- MODULE DelegationProxyOrderProofs ---------------------
(***************************************************************************)
(* Theorems about DelegationProxy, continued: with one connection per      *)
(* service the requests of a service are answered in the order of          *)
(* delegation; and whose bytes a connection carries.                       *)
(***************************************************************************)
EXTENDS DelegationProxyProofs

(***************************************************************************)
(* With one connection per service the proxy implements the safety of      *)
(* SequentialDelegation.                                                   *)
(***************************************************************************)
\* The element of a set that has one.
LEMMA AtMostOne ==
    ASSUME NEW P, IsFiniteSet(P), Cardinality(P) <= 1, NEW w \in P
    PROVE  (CHOOSE x \in P : TRUE) = w
<1>1. IsFiniteSet(P \ {w}) /\ Cardinality(P \ {w}) = Cardinality(P) - 1
  BY FS_RemoveElement
<1>2. Cardinality(P) \in Nat /\ Cardinality(P \ {w}) \in Nat
  BY <1>1, FS_CardinalityType
<1>3. Cardinality(P \ {w}) = 0
  BY <1>1, <1>2
<1>4. P \ {w} = {}
  BY <1>1, <1>3, FS_EmptySet
<1>5. (CHOOSE x \in P : TRUE) \in P
  BY Zenon
<1>6. QED BY <1>4, <1>5

\* The scheduler refuses a request only when its service has no connection, and
\* finishes one whose client has been resumed.
InHand == /\ sched.pc = "refuse" => pool[RemoteAddr[sched.cur]] = {}
          /\ sched.pc = "finish" => ctx[sched.cur].resumes # 0

OrderInv == IInv /\ InHand /\ Bounded

\* The scheduler's other steps leave neither place behind them.
LEMMA NextInHand == IInv /\ InHand /\ [Next]_vars => InHand'
<1> SUFFICES ASSUME IInv, InHand, [Next]_vars PROVE InHand'
  OBVIOUS
<1>1. QueueInv /\ ctx \in [Requests -> Ctx] /\ sched \in SchedState
  BY Types DEF IInv
<1>2. ASSUME UNCHANGED <<pool, sched>>, \A q \in Requests : ctx'[q].resumes = ctx[q].resumes
      PROVE  InHand'
  BY <1>1, <1>2 DEF InHand, QueueInv, SchedulerAtWork
<1>3. ASSUME sched'.pc \notin {"refuse", "finish"}
      PROVE  InHand'
  BY <1>3 DEF InHand
<1>4. CASE Waiter \/ Environment \/ GiveUp \/ Close \/ UNCHANGED vars
  BY <1>1, <1>2, <1>4, WaiterStep, EnvironmentStep, GiveUpStep, CloseStep, StutterStep
  DEF Quiet, SameFate
<1>5. ASSUME NEW r \in Requests, DelegateAppend(r) \/ DelegateNotify(r)
      PROVE  InHand'
  <2>1. \A p : [ctx[r] EXCEPT !.phase = p].resumes = ctx[r].resumes
    BY <1>1 DEF Ctx
  <2>2. \E p : ctx' = [ctx EXCEPT ![r] = [ctx[r] EXCEPT !.phase = p]]
    BY <1>5 DEF DelegateAppend, DelegateNotify
  <2>3. \A q \in Requests : ctx'[q].resumes = ctx[q].resumes
    BY <1>1, <2>1, <2>2
  <2>4. QED BY <1>2, <1>5, <2>3 DEF DelegateAppend, DelegateNotify
<1>6. CASE TakeNotification \/ SwapNewRequests \/ SchedulerExit
  BY <1>1, <1>3, <1>6 DEF TakeNotification, SwapNewRequests, SchedulerExit, NextInBatch, SchedState
<1>7. CASE SchedOnPool \/ SchedOnDial \/ ResumeRefused \/ Finish
  <2>1. \E b : sched' = NextInBatch(b)
    BY Zenon, <1>7 DEF SchedOnPool, SchedOnDial, ResumeRefused, QueueOn, Finish
  <2>2. QED BY <1>3, <2>1 DEF NextInBatch
<1>8. CASE SchedRefuse
  BY <1>1, <1>8 DEF SchedRefuse, InHand, SchedState
<1>9. CASE TakeRetry
  BY <1>3, <1>9 DEF TakeRetry
<1>10. ASSUME NEW r, NEW failed, Complete(r, failed)
       PROVE  InHand'
  BY <1>1, <1>3, <1>10 DEF Complete, SchedState
<1>11. CASE TakeCompleted \/ \E r \in Requests : TakeNotified(r)
  BY <1>10, <1>11 DEF TakeCompleted, TakeNotified
<1>12. CASE Resume
  <2>1. sched.cur \in Requests /\ ctx[sched.cur] \in Ctx
    BY <1>1, <1>12 DEF Resume, QueueInv, SchedulerAtWork
  <2>2. [ctx[sched.cur] EXCEPT !.resumes = ctx[sched.cur].resumes + 1].resumes # 0
    BY <2>1 DEF Ctx
  <2>3. ctx'[sched.cur].resumes # 0
    BY <1>1, <1>12, <2>1, <2>2 DEF Resume
  <2>4. QED BY <1>1, <1>12, <2>3 DEF Resume, InHand, SchedState
<1>13. QED BY <1>4, <1>5, <1>6, <1>7, <1>8, <1>9, <1>11, <1>12 DEF Next, Agents, Scheduler

\* What the refinement rests on holds always.
LEMMA OrderInvariance == Spec => []OrderInv
<1>1. Init => InHand
  BY DEF Init, InHand
<1>2. IInv /\ InHand /\ [Next]_vars => InHand'
  BY NextInHand
<1>3. QED BY <1>1, <1>2, InvarianceWithOwnership, PoolsBounded, PTL DEF Spec, OrderInv

\* All that is queued for service a, and what it is made of.
Line(a) == ListAt(a) \o sched.batch \o newRequests

\* The line of a service with at most one connection.
LEMMA LineType ==
    ASSUME OrderInv, MaxConns = 1, NEW a \in Addrs
    PROVE  /\ ListAt(a) \in Seq(Requests)
           /\ sched.batch \in Seq(Requests) /\ newRequests \in Seq(Requests)
           /\ \A w \in pool[a] : ListAt(a) = wconns[w].requestList
           /\ pool[a] = {} => ListAt(a) = <<>>
           /\ Line(a) \in Seq(Requests)
<1>1. QueueInv /\ sched.batch \in Seq(Requests) /\ newRequests \in Seq(Requests)
  BY DEF OrderInv, IInv, QueueInv, TypeOK, SchedState
<1>2. \A w \in pool[a] : ListAt(a) = wconns[w].requestList
  <2>1. SUFFICES ASSUME NEW w \in pool[a] PROVE ListAt(a) = wconns[w].requestList
    OBVIOUS
  <2>2. (CHOOSE x \in pool[a] : TRUE) = w
    BY AtMostOne DEF OrderInv, Bounded
  <2>3. QED BY Zenon, <2>2 DEF ListAt
<1>3. pool[a] = {} => ListAt(a) = <<>>
  BY Zenon DEF ListAt
<1>4. ListAt(a) \in Seq(Requests)
  <2>1. pool[a] \subseteq WConns /\ \A w \in WConns : wconns[w].requestList \in Seq(Requests)
    BY <1>1, Types
  <2>2. <<>> \in Seq(Requests)
    OBVIOUS
  <2>3. QED BY <1>2, <1>3, <2>1, <2>2
<1>5. Line(a) \in Seq(Requests)
  BY <1>1, <1>4 DEF Line
<1>6. QED BY <1>1, <1>2, <1>3, <1>4, <1>5

\* The same of the next state.
LEMMA ListAtNext ==
    ASSUME OrderInv', MaxConns = 1, NEW a \in Addrs
    PROVE  /\ \A w \in pool'[a] : ListAt(a)' = wconns'[w].requestList
           /\ pool'[a] = {} => ListAt(a)' = <<>>
<1>1. \A w \in pool'[a] : ListAt(a)' = wconns'[w].requestList
  <2>1. SUFFICES ASSUME NEW w \in pool'[a] PROVE ListAt(a)' = wconns'[w].requestList
    OBVIOUS
  <2>2. (CHOOSE x \in pool'[a] : TRUE) = w
    BY AtMostOne DEF OrderInv, Bounded
  <2>3. QED BY Zenon, <2>2 DEF ListAt
<1>2. pool'[a] = {} => ListAt(a)' = <<>>
  BY Zenon DEF ListAt
<1>3. QED BY <1>1, <1>2

\* A service whose pool and lists are left alone.
LEMMA SameList ==
    ASSUME OrderInv, OrderInv', MaxConns = 1, NEW a \in Addrs, pool'[a] = pool[a],
           \A w \in pool[a] : wconns'[w].requestList = wconns[w].requestList
    PROVE  ListAt(a)' = ListAt(a)
BY LineType, ListAtNext

\* The client's side decides what is owed.
LEMMA SameOwed ==
    ASSUME NEW a \in Addrs,
           \A q \in Requests : RemoteAddr[q] = a => ctx'[q].resumes = ctx[q].resumes
    PROVE  Owed(a)' = Owed(a)
BY DEF Owed

\* A step that changes no queue and resumes no client is none of the abstract
\* specification's.
LEMMA Unchanged ==
    ASSUME \A a \in Addrs : Unanswered(a)' = Unanswered(a),
           \A q \in Requests : ctx'[q].resumes = ctx[q].resumes
    PROVE  UNCHANGED <<Queues, Resumed>>
<1>1. Queues' = Queues
  BY DEF Queues
<1>2. Resumed' = Resumed
  BY DEF Resumed
<1>3. QED BY <1>1, <1>2

\* A step that leaves lists, batch and clients alone is not seen.
LEMMA Stutters ==
    ASSUME OrderInv, OrderInv', MaxConns = 1,
           UNCHANGED <<pool, newRequests>>, sched'.batch = sched.batch,
           \A w \in WConns : wconns'[w].requestList = wconns[w].requestList,
           \A q \in Requests : ctx'[q].resumes = ctx[q].resumes
    PROVE  UNCHANGED <<Queues, Resumed>>
<1>1. ASSUME NEW a \in Addrs PROVE Unanswered(a)' = Unanswered(a)
  <2>1. pool[a] \subseteq WConns
    BY Types DEF OrderInv, IInv
  <2>2. ListAt(a)' = ListAt(a)
    BY <2>1, SameList
  <2>3. Owed(a)' = Owed(a)
    BY SameOwed
  <2>4. QED BY Zenon, <2>2, <2>3 DEF Unanswered
<1>2. QED BY <1>1, Unchanged

\* What changes of a request without its client being told.
LEMMA ResumesKept ==
    ASSUME QueueInv, NEW r \in Requests,
           \/ \E p : ctx' = [ctx EXCEPT ![r] = [ctx[r] EXCEPT !.phase = p]]
           \/ \E o : ctx' = [ctx EXCEPT ![r] = [ctx[r] EXCEPT !.outcome = o]]
           \/ \E w : ctx' = [ctx EXCEPT ![r] = [ctx[r] EXCEPT !.wConn = w]]
           \/ \E n : ctx' = [ctx EXCEPT ![r] = [ctx[r] EXCEPT !.retries = n]]
           \/ \E e, o : ctx' = [ctx EXCEPT ![r] = [[ctx[r] EXCEPT !.done = TRUE, !.err = e]
                                                     EXCEPT !.outcome = o]]
    PROVE  \A q \in Requests : ctx'[q].resumes = ctx[q].resumes
<1>1. ctx \in [Requests -> Ctx] /\ ctx[r] \in Ctx
  BY Types
<1>2. /\ \A p : [ctx[r] EXCEPT !.phase = p].resumes = ctx[r].resumes
      /\ \A o : [ctx[r] EXCEPT !.outcome = o].resumes = ctx[r].resumes
      /\ \A w : [ctx[r] EXCEPT !.wConn = w].resumes = ctx[r].resumes
      /\ \A n : [ctx[r] EXCEPT !.retries = n].resumes = ctx[r].resumes
      /\ \A e, o : [[ctx[r] EXCEPT !.done = TRUE, !.err = e] EXCEPT !.outcome = o].resumes
                     = ctx[r].resumes
  BY <1>1 DEF Ctx
<1>3. ASSUME NEW d, d.resumes = ctx[r].resumes, ctx' = [ctx EXCEPT ![r] = d]
      PROVE  \A q \in Requests : ctx'[q].resumes = ctx[q].resumes
  BY <1>1, <1>3
<1>4. PICK d : d.resumes = ctx[r].resumes /\ ctx' = [ctx EXCEPT ![r] = d]
  BY Zenon, <1>2
<1>5. QED BY <1>3, <1>4

\* The goroutines around the scheduler, and its steps that move no request.
LEMMA QuietStutters ==
    ASSUME OrderInv, OrderInv', MaxConns = 1,
           \/ Waiter \/ Environment \/ GiveUp \/ Close \/ UNCHANGED vars
           \/ TakeNotification \/ SchedulerExit
           \/ \E r \in Requests : DelegateNotify(r)
    PROVE  UNCHANGED <<Queues, Resumed>>
<1>1. QueueInv /\ sched \in SchedState
  BY Types DEF OrderInv, IInv
<1>2. CASE Waiter \/ Environment \/ GiveUp \/ Close \/ UNCHANGED vars
  <2>1. Quiet
    BY <1>1, <1>2, WaiterStep, EnvironmentStep, GiveUpStep, CloseStep, StutterStep
  <2>2. UNCHANGED wconns
    <3>1. ASSUME NEW o, WriteDone(o) \/ WriteFailed(o) \/ ReadData(o) \/ ReadEOF(o) \/ ReadTimeout(o)
          PROVE  UNCHANGED wconns
      BY Zenon, <3>1 DEF WriteDone, WriteFailed, ReadData, ReadEOF, ReadTimeout, ReadResult
    <3>2. Environment \/ GiveUp \/ Close => UNCHANGED wconns
      BY Zenon DEF Environment, RemoteReply, RemoteClose, Collect, GiveUp, WaiterGivesUp,
         NotifierGivesUp, Close
    <3>3. QED BY Zenon, <1>2, <3>1, <3>2 DEF Waiter, vars
  <2>3. /\ UNCHANGED <<pool, newRequests>> /\ sched' = sched
        /\ \A q \in Requests : ctx'[q].resumes = ctx[q].resumes
    BY <2>1 DEF Quiet, SameFate
  <2>4. QED BY <2>2, <2>3, Stutters
<1>3. CASE TakeNotification \/ SchedulerExit
  <2>1. UNCHANGED <<ctx, pool, newRequests, wconns>>
    BY <1>3 DEF TakeNotification, SchedulerExit
  <2>2. sched'.batch = sched.batch
    BY <1>1, <1>3 DEF TakeNotification, SchedulerExit, SchedState
  <2>3. QED BY <2>1, <2>2, Stutters
<1>4. ASSUME NEW r \in Requests, DelegateNotify(r)
      PROVE  UNCHANGED <<Queues, Resumed>>
  <2>1. UNCHANGED <<sched, pool, newRequests, wconns>>
    BY <1>4 DEF DelegateNotify
  <2>2. ctx' = [ctx EXCEPT ![r] = [ctx[r] EXCEPT !.phase = "delegated"]]
    BY <1>4 DEF DelegateNotify
  <2>3. \A q \in Requests : ctx'[q].resumes = ctx[q].resumes
    BY <1>1, <2>2, ResumesKept
  <2>4. QED BY <2>1, <2>3, Stutters
<1>5. QED BY <1>2, <1>3, <1>4

\* A refusal or a completion that is decided but not told, a write to be tried
\* again.
LEMMA DecidedStutters ==
    ASSUME OrderInv, OrderInv', MaxConns = 1,
           \/ SchedRefuse \/ TakeRetry \/ TakeCompleted
           \/ \E r \in Requests : TakeNotified(r)
    PROVE  UNCHANGED <<Queues, Resumed>>
<1>1. /\ QueueInv /\ sched \in SchedState /\ wconns \in [WConns -> WConn]
  BY Types DEF OrderInv, IInv
<1>2. CASE SchedRefuse
  <2>1. Head(sched.batch) \in Requests
    BY <1>1, <1>2, HeadOfBatch DEF SchedRefuse
  <2>2. /\ UNCHANGED <<pool, newRequests, wconns>> /\ sched'.batch = sched.batch
        /\ ctx' = [ctx EXCEPT ![Head(sched.batch)] =
                      [ctx[Head(sched.batch)] EXCEPT !.outcome = "error"]]
    BY <1>1, <1>2 DEF SchedRefuse, SchedState
  <2>3. \A q \in Requests : ctx'[q].resumes = ctx[q].resumes
    BY <1>1, <2>1, <2>2, ResumesKept
  <2>4. QED BY <2>2, <2>3, Stutters
<1>3. CASE TakeRetry
  <2>1. waiter.cur \in Requests
    BY <1>1, <1>3 DEF TakeRetry, QueueInv, ActiveIsFront
  <2>2. /\ UNCHANGED <<pool, newRequests, sched>>
        /\ ctx' = [ctx EXCEPT ![waiter.cur] =
                      [ctx[waiter.cur] EXCEPT !.retries = ctx[waiter.cur].retries + 1]]
    BY <1>3 DEF TakeRetry
  <2>3. \A q \in Requests : ctx'[q].resumes = ctx[q].resumes
    BY <1>1, <2>1, <2>2, ResumesKept
  <2>4. \A w \in WConns : wconns'[w].requestList = wconns[w].requestList
    <3>1. PICK w : \/ UNCHANGED wconns
                   \/ \E c : wconns' = [wconns EXCEPT ![w] = [wconns[w] EXCEPT !.conn = c]]
      BY <1>3 DEF TakeRetry
    <3>2. \A v \in WConns : \A c : [wconns[v] EXCEPT !.conn = c].requestList = wconns[v].requestList
      BY <1>1 DEF WConn
    <3>3. CASE UNCHANGED wconns
      BY <3>3
    <3>4. ASSUME NEW d, \A v \in WConns : v = w => d.requestList = wconns[v].requestList,
                 wconns' = [wconns EXCEPT ![w] = d]
          PROVE  \A v \in WConns : wconns'[v].requestList = wconns[v].requestList
      BY <1>1, <3>4
    <3>5. ASSUME NEW c, wconns' = [wconns EXCEPT ![w] = [wconns[w] EXCEPT !.conn = c]]
          PROVE  \A v \in WConns : wconns'[v].requestList = wconns[v].requestList
      <4>1. \A v \in WConns : v = w => [wconns[w] EXCEPT !.conn = c].requestList = wconns[v].requestList
        BY <3>2
      <4>2. QED BY Zenon, <3>4, <3>5, <4>1
    <3>6. QED BY Zenon, <3>1, <3>3, <3>5
  <2>5. QED BY <2>2, <2>3, <2>4, Stutters
<1>4. ASSUME NEW r \in Requests, NEW failed, Complete(r, failed)
      PROVE  UNCHANGED <<Queues, Resumed>>
  <2>1. UNCHANGED <<pool, newRequests, wconns>> /\ sched'.batch = sched.batch
    BY <1>1, <1>4 DEF Complete, SchedState
  <2>2. UNCHANGED ctx \/ \E o : ctx' = [ctx EXCEPT ![r] = [[ctx[r] EXCEPT !.done = TRUE,
                                                            !.err = failed] EXCEPT !.outcome = o]]
    BY <1>4 DEF Complete
  <2>3. \A q \in Requests : ctx'[q].resumes = ctx[q].resumes
    <3>1. CASE UNCHANGED ctx
      BY <3>1
    <3>2. CASE ~UNCHANGED ctx
      <4>1. PICK o : ctx' = [ctx EXCEPT ![r] = [[ctx[r] EXCEPT !.done = TRUE, !.err = failed]
                                                  EXCEPT !.outcome = o]]
        BY Zenon, <2>2, <3>2
      <4>2. \E e, o2 : ctx' = [ctx EXCEPT ![r] = [[ctx[r] EXCEPT !.done = TRUE, !.err = e]
                                                  EXCEPT !.outcome = o2]]
        BY Zenon, <4>1
      <4>3. QED BY <1>1, <4>2, ResumesKept
    <3>3. QED BY <3>1, <3>2
  <2>4. QED BY <2>1, <2>3, Stutters
<1>5. CASE TakeCompleted
  <2>1. waiter.cur \in Requests
    BY <1>1, <1>5 DEF TakeCompleted, QueueInv, ActiveIsFront
  <2>2. QED BY <1>4, <1>5, <2>1 DEF TakeCompleted
<1>6. CASE \E r \in Requests : TakeNotified(r)
  BY <1>4, <1>6 DEF TakeNotified
<1>7. QED BY <1>2, <1>3, <1>5, <1>6

\* The scheduler takes all of newRequests for its batch.
LEMMA SwapStutters ==
    ASSUME OrderInv, OrderInv', MaxConns = 1, SwapNewRequests
    PROVE  UNCHANGED <<Queues, Resumed>>
<1>1. /\ UNCHANGED <<ctx, pool, wconns>>
      /\ sched.batch = <<>> /\ newRequests' = <<>> /\ sched'.batch = newRequests
  BY DEF SwapNewRequests, NextInBatch, OrderInv, IInv, QueueInv, SchedulerAtWork
<1>2. ASSUME NEW a \in Addrs PROVE Unanswered(a)' = Unanswered(a)
  <2>1. PICK l \in Seq(Requests), n \in Seq(Requests) : l = ListAt(a) /\ n = newRequests
    BY Zenon, LineType
  <2>2. ListAt(a)' = l
    BY <1>1, <2>1, SameList
  <2>3. l \o n \o <<>> = l \o <<>> \o n
    OBVIOUS
  <2>4. Owed(a)' = Owed(a)
    BY <1>1, SameOwed
  <2>5. QED BY Zenon, <1>1, <2>1, <2>2, <2>3, <2>4 DEF Unanswered
<1>3. QED BY <1>1, <1>2, Unchanged

\* A request queued on the connection of its service goes from the head of the
\* batch to the end of the list before it; the others' services do not see it.
LEMMA QueueOnStutters ==
    ASSUME OrderInv, OrderInv', MaxConns = 1, sched.pc = "batch",
           NEW r, r = Head(sched.batch), NEW w \in WConns,
           NEW lists \in [WConns -> WConn], QueueOn(r, w, lists),
           \A u \in WConns : lists[u].requestList = wconns[u].requestList,
           pool[RemoteAddr[r]] \subseteq pool'[RemoteAddr[r]], w \in pool'[RemoteAddr[r]],
           w \notin pool[RemoteAddr[r]] => wconns[w].requestList = <<>>,
           \A b \in Addrs : b # RemoteAddr[r] => pool'[b] = pool[b]
    PROVE  UNCHANGED <<Queues, Resumed>>
<1>1. /\ QueueInv /\ r \in Requests /\ RemoteAddr[r] \in Addrs
      /\ sched.batch \in Seq(Requests) /\ sched.batch # <<>>
      /\ pool \in [Addrs -> SUBSET WConns]
      /\ wconns[w].requestList \in Seq(Requests)
  BY HeadOfBatch, Types DEF OrderInv, IInv
<1>2. PICK a \in Addrs : a = RemoteAddr[r]
  BY Zenon, <1>1
<1>3. PICK longer : longer = Append(wconns[w].requestList, r)
  OBVIOUS
<1>4. /\ wconns' = [lists EXCEPT ![w] = [lists[w] EXCEPT !.requestList = longer]]
      /\ ctx' = [ctx EXCEPT ![r] = [ctx[r] EXCEPT !.wConn = w]]
      /\ sched'.batch = Tail(sched.batch) /\ newRequests' = newRequests
  BY <1>3 DEF QueueOn, PushBack, NextInBatch
<1>5. \A u \in WConns : wconns'[u].requestList = IF u = w THEN longer ELSE wconns[u].requestList
  <2>1. [lists[w] EXCEPT !.requestList = longer].requestList = longer
    BY DEF WConn
  <2>2. QED BY <1>4, <2>1
<1>6. \A q \in Requests : ctx'[q].resumes = ctx[q].resumes
  BY <1>1, <1>4, ResumesKept
<1>7. PICK b \in Seq(Requests), n \in Seq(Requests) : b = sched.batch /\ n = newRequests
  BY Zenon, <1>2, LineType
<1>8. Unanswered(a)' = Unanswered(a)
  <2>1. ListAt(a)' = longer
    BY <1>2, <1>5, ListAtNext
  <2>2. ListAt(a) = wconns[w].requestList
    <3>1. CASE w \in pool[a]
      BY <3>1, LineType
    <3>2. CASE w \notin pool[a]
      <4>1. \A u \in pool'[a] : u = w
        <5>1. IsFiniteSet(pool'[a]) /\ Cardinality(pool'[a]) <= 1
          BY DEF OrderInv, Bounded
        <5>2. \A u \in pool'[a] : (CHOOSE x \in pool'[a] : TRUE) = u
          BY <5>1, AtMostOne
        <5>3. QED BY <1>2, <5>2
      <4>2. pool[a] = {}
        BY <1>2, <3>2, <4>1
      <4>3. QED BY <1>2, <3>2, <4>2, LineType
    <3>3. QED BY <3>1, <3>2
  <2>3. PICK l \in Seq(Requests) : l = ListAt(a)
    BY Zenon, LineType
  <2>4. longer \o Tail(b) \o n = l \o b \o n
    <3>1. Append(l, Head(b)) \o Tail(b) = l \o b
      BY <1>1, <1>7, ConcatMove
    <3>2. longer = Append(l, Head(b))
      BY Zenon, <1>3, <1>7, <2>2, <2>3
    <3>3. QED BY Zenon, <3>1, <3>2
  <2>5. Owed(a)' = Owed(a)
    BY <1>6, SameOwed
  <2>6. QED BY Zenon, <1>4, <1>7, <2>1, <2>3, <2>4, <2>5 DEF Unanswered
<1>9. ASSUME NEW d \in Addrs, d # a PROVE Unanswered(d)' = Unanswered(d)
  <2>1. w \notin pool'[d] /\ pool'[d] = pool[d] /\ pool[d] \subseteq WConns
    BY <1>1, <1>2, <1>9 DEF OrderInv, IInv, Ownership, InOwnPool
  <2>2. ListAt(d)' = ListAt(d)
    BY <1>5, <2>1, SameList
  <2>3. PICK l \in Seq(Requests) : l = ListAt(d)
    BY Zenon, LineType
  <2>4. PICK A : A = Owed(d)
    OBVIOUS
  <2>5. r \notin A
    BY <1>2, <1>9, <2>4 DEF Owed
  <2>6. Only(l \o Tail(b) \o n, A) = Only(l \o b \o n, A)
    <3>1. \A s, t, u \in Seq(Requests) :
             t # <<>> /\ Head(t) \notin A => Only(s \o Tail(t) \o u, A) = Only(s \o t \o u, A)
      BY OnlySkips
    <3>2. b # <<>> /\ Head(b) \notin A
      BY <1>1, <1>7, <2>5
    <3>3. QED BY Zenon, <3>1, <3>2
  <2>7. Owed(d)' = Owed(d)
    BY <1>6, SameOwed
  <2>8. QED BY Zenon, <1>4, <1>7, <2>2, <2>3, <2>4, <2>6, <2>7 DEF Unanswered
<1>10. QED BY <1>6, <1>8, <1>9, Unchanged

\* On a connection that is there, or that is dialled for it.
LEMMA SchedStutters ==
    ASSUME OrderInv, OrderInv', MaxConns = 1, SchedOnPool \/ SchedOnDial
    PROVE  UNCHANGED <<Queues, Resumed>>
<1>1. PICK r : r = Head(sched.batch)
  OBVIOUS
<1>2. PICK a : a = RemoteAddr[r]
  OBVIOUS
<1>3. sched.pc = "batch"
  BY Zenon DEF SchedOnPool, SchedOnDial
<1>4. /\ QueueInv /\ a \in Addrs
      /\ pool \in [Addrs -> SUBSET WConns] /\ wconns \in [WConns -> WConn]
  BY <1>1, <1>2, <1>3, HeadOfBatch, Types DEF OrderInv, IInv
<1>5. CASE SchedOnPool
  <2>1. PICK w \in LeastLoaded(pool[a]) : QueueOn(r, w, wconns)
    BY <1>1, <1>2, <1>5 DEF SchedOnPool
  <2>2. w \in pool[a] /\ w \in WConns /\ UNCHANGED pool
    BY <1>4, <1>5, <2>1 DEF LeastLoaded, SchedOnPool
  <2>3. QED BY <1>1, <1>2, <1>3, <1>4, <2>1, <2>2, QueueOnStutters
<1>6. CASE SchedOnDial
  <2>1. PICK c \in Dial \ {NoConn}, v \in Unpooled :
           /\ pool' = [pool EXCEPT ![a] = @ \cup {v}]
           /\ \E w \in {v} \cup {u \in pool[a] : wconns[u].requestList = <<>>} :
                QueueOn(r, w, [wconns EXCEPT ![v] = [conn |-> c, requestList |-> <<>>]])
    BY <1>1, <1>2, <1>6 DEF SchedOnDial
  <2>2. PICK fresh : fresh = [conn |-> c, requestList |-> <<>>]
    OBVIOUS
  <2>3. PICK lists : lists = [wconns EXCEPT ![v] = fresh]
    OBVIOUS
  <2>4. PICK w \in {v} \cup {u \in pool[a] : wconns[u].requestList = <<>>} : QueueOn(r, w, lists)
    BY Zenon, <2>1, <2>2, <2>3
  <2>5. v \in WConns /\ v \notin pool[a] /\ wconns[v].requestList = <<>>
    BY <1>4 DEF Unpooled, Pooled, QueueInv, ListsOwned
  <2>6. fresh \in WConn /\ fresh.requestList = <<>>
    <3>1. <<>> \in Seq(Requests) /\ c \in Conns
      BY <2>1, DialIsFree
    <3>2. QED BY <2>2, <3>1 DEF WConn
  <2>7. /\ lists \in [WConns -> WConn]
        /\ \A u \in WConns : lists[u].requestList = wconns[u].requestList
    BY <1>4, <2>3, <2>5, <2>6
  <2>8. /\ pool'[a] = pool[a] \cup {v} /\ \A b \in Addrs : b # a => pool'[b] = pool[b]
    BY <1>4, <2>1
  <2>9. w \in pool'[a] /\ w \in WConns /\ wconns[w].requestList = <<>>
    BY <1>4, <2>4, <2>5, <2>8
  <2>10. QED BY <1>1, <1>2, <1>3, <2>4, <2>7, <2>8, <2>9, QueueOnStutters
<1>7. QED BY <1>5, <1>6

\* Delegate queues a request that was neither queued nor answered.
LEMMA Delegates ==
    ASSUME OrderInv, OrderInv', MaxConns = 1, NEW r \in Requests, DelegateAppend(r)
    PROVE  Sequential!Next
<1>1. /\ QueueInv /\ ctx[r].phase = "idle" /\ Fresh(ctx[r]) /\ ~Waits(r)
      /\ newRequests' = Append(newRequests, r)
      /\ UNCHANGED <<sched, pool, wconns>>
      /\ ctx' = [ctx EXCEPT ![r] = [ctx[r] EXCEPT !.phase = "appended"]]
  BY DEF DelegateAppend, OrderInv, IInv, QueueInv, WaitsFresh
<1>2. \A q \in Requests : ctx'[q].resumes = ctx[q].resumes
  BY <1>1, ResumesKept
<1>3. PICK a \in Addrs : a = RemoteAddr[r]
  BY DEF Addrs
<1>4. \A d \in Addrs : ListAt(d)' = ListAt(d) /\ Owed(d)' = Owed(d)
  BY <1>1, <1>2, SameList, SameOwed
<1>5. PICK b \in Seq(Requests), n \in Seq(Requests) : b = sched.batch /\ n = newRequests
  BY Zenon, <1>3, LineType
<1>6. ASSUME NEW d \in Addrs
      PROVE  /\ d = a => Unanswered(d)' = Append(Unanswered(d), r)
             /\ d # a => Unanswered(d)' = Unanswered(d)
  <2>1. PICK s \in Seq(Requests) : s = Line(d)
    BY Zenon, LineType
  <2>2. PICK A : A = Owed(d)
    OBVIOUS
  <2>3. Line(d)' = Append(s, r)
    <3>1. PICK l \in Seq(Requests) : l = ListAt(d)
      BY Zenon, LineType
    <3>2. (l \o b) \o Append(n, r) = Append((l \o b) \o n, r)
      OBVIOUS
    <3>3. QED BY Zenon, <1>1, <1>4, <1>5, <2>1, <3>1, <3>2 DEF Line
  <2>4. /\ r \in A => Only(Append(s, r), A) = Append(Only(s, A), r)
        /\ r \notin A => Only(Append(s, r), A) = Only(s, A)
    BY OnlyAppend
  <2>5. r \in A <=> d = a
    BY <1>1, <1>3, <2>2 DEF Owed, Fresh
  <2>6. Unanswered(d) = Only(s, A) /\ Unanswered(d)' = Only(Append(s, r), A)
    BY Zenon, <1>4, <2>1, <2>2, <2>3 DEF Unanswered, Line
  <2>7. QED BY <2>4, <2>5, <2>6
<1>7. \A i \in DOMAIN Unanswered(a) : Unanswered(a)[i] # r
  <2>1. PICK l \in Seq(Requests) : l = ListAt(a)
    BY Zenon, LineType
  <2>2. \A i \in 1 .. Len(l) : l[i] # r
    <3>1. CASE pool[a] = {}
      BY <2>1, <3>1, LineType
    <3>2. ASSUME NEW w \in pool[a] PROVE \A i \in 1 .. Len(l) : l[i] # r
      <4>1. l = wconns[w].requestList /\ w \in WConns /\ w # NoWConn
        BY <1>1, <2>1, LineType, Types
      <4>2. \A i \in DOMAIN wconns[w].requestList : ctx[wconns[w].requestList[i]].wConn = w
        BY <1>1, <4>1 DEF QueueInv, ListsOwned
      <4>3. QED BY <1>1, <4>1, <4>2 DEF Fresh
    <3>3. QED BY <3>1, <3>2
  <2>3. /\ \A i \in 1 .. Len(b) : b[i] # r
        /\ \A i \in 1 .. Len(n) : n[i] # r
    BY <1>1, <1>5 DEF Waits
  <2>4. \A i \in 1 .. Len(l \o b \o n) : (l \o b \o n)[i] # r
    BY <2>2, <2>3
  <2>5. PICK s \in Seq(Requests) : s = l \o b \o n
    <3>1. l \o b \o n \in Seq(Requests)
      OBVIOUS
    <3>2. QED BY Zenon, <3>1
  <2>6. PICK A : A = Owed(a)
    OBVIOUS
  <2>7. Unanswered(a) = Only(s, A)
    BY Zenon, <1>5, <2>1, <2>5, <2>6 DEF Unanswered
  <2>8. PICK t \in Seq(Requests) : t = Only(s, A)
    BY OnlyType
  <2>9. \A i \in 1 .. Len(t) : t[i] # r
    <3>1. \A i \in 1 .. Len(s) : s[i] # r
      BY Zenon, <2>4, <2>5
    <3>2. QED BY <2>8, <3>1, OnlyAmong
  <2>10. DOMAIN t = 1 .. Len(t)
    OBVIOUS
  <2>11. QED BY Zenon, <2>7, <2>8, <2>9, <2>10
<1>8. Queues' = [Queues EXCEPT ![a] = Append(Queues[a], r)]
  <2>1. PICK q : q = Append(Unanswered(a), r)
    OBVIOUS
  <2>2. \A d \in Addrs : Unanswered(d)' = IF d = a THEN q ELSE Unanswered(d)
    BY <1>6, <2>1
  <2>3. Queues' = [Queues EXCEPT ![a] = q]
    BY <2>2 DEF Queues
  <2>4. Queues[a] = Unanswered(a)
    BY DEF Queues
  <2>5. QED BY Zenon, <2>1, <2>3, <2>4
<1>9. Resumed' = Resumed /\ r \notin Resumed
  BY <1>1, <1>2 DEF Resumed, Fresh
<1>10. \A i \in DOMAIN Queues[a] : Queues[a][i] # r
  <2>1. Queues[a] = Unanswered(a)
    BY DEF Queues
  <2>2. QED BY Zenon, <1>7, <2>1
<1>11. Sequential!Delegate(r)
  BY Zenon, <1>3, <1>8, <1>9, <1>10 DEF Sequential!Delegate
<1>12. QED BY <1>11 DEF Sequential!Next

\* Request r is the first of s, the line of its service a, and once there.
Leads(r, a, s) ==
    /\ r \in Requests /\ a \in Addrs /\ a = RemoteAddr[r] /\ ctx[r].resumes = 0
    /\ s \in Seq(Requests) /\ s = Line(a) /\ s # <<>> /\ Head(s) = r
    /\ \A i \in 1 .. Len(s) : s[i] = r => i = 1

\* The client of r is resumed, the first of its service's line, and no other.
LEMMA Answers ==
    ASSUME OrderInv, MaxConns = 1, NEW r, NEW a, NEW s, Leads(r, a, s),
           \A q \in Requests : ctx'[q].resumes = IF q = r THEN 1 ELSE ctx[q].resumes,
           Line(a)' = s \/ Line(a)' = Tail(s),
           \A d \in Addrs : d # a => Unanswered(d)' = Unanswered(d)
    PROVE  Sequential!Next
<1>0. /\ r \in Requests /\ a \in Addrs /\ a = RemoteAddr[r] /\ ctx[r].resumes = 0
      /\ s \in Seq(Requests) /\ s = Line(a) /\ s # <<>> /\ Head(s) = r
      /\ \A i \in 1 .. Len(s) : s[i] = r => i = 1
  BY DEF Leads
<1>1. PICK A : A = Owed(a)
  OBVIOUS
<1>2. r \in A /\ Owed(a)' = A \ {r}
  BY <1>0, <1>1 DEF Owed
<1>3. /\ Only(s, A) # <<>> /\ Head(Only(s, A)) = r
      /\ Tail(Only(s, A)) = Only(s, A \ {r})
      /\ Only(Tail(s), A \ {r}) = Only(s, A \ {r})
  <2>1. Head(s) \in A /\ \A i \in 1 .. Len(s) : s[i] = Head(s) => i = 1
    BY Zenon, <1>0, <1>2
  <2>2. /\ Only(s, A) # <<>> /\ Head(Only(s, A)) = Head(s)
        /\ Tail(Only(s, A)) = Only(s, A \ {Head(s)})
        /\ Only(Tail(s), A \ {Head(s)}) = Only(s, A \ {Head(s)})
    BY <1>0, <2>1, OnlyTakes
  <2>3. QED BY Zenon, <1>0, <2>2
<1>4. Unanswered(a) = Only(s, A)
  BY Zenon, <1>0, <1>1 DEF Unanswered, Line
<1>5. Unanswered(a)' = Only(s, A \ {r})
  <2>1. Unanswered(a)' = Only(Line(a)', A \ {r})
    BY Zenon, <1>2 DEF Unanswered, Line
  <2>2. QED BY Zenon, <1>3, <2>1
<1>6. Queues[a] = Unanswered(a) /\ Queues[a] # <<>> /\ Head(Queues[a]) = r
  <2>1. Queues[a] = Unanswered(a)
    BY <1>0 DEF Queues
  <2>2. QED BY Zenon, <1>3, <1>4, <2>1
<1>7. Queues' = [Queues EXCEPT ![a] = Tail(Queues[a])]
  <2>1. PICK q : q = Tail(Queues[a])
    OBVIOUS
  <2>2. Unanswered(a)' = q
    BY Zenon, <1>3, <1>4, <1>5, <1>6, <2>1
  <2>3. Queues' = [Queues EXCEPT ![a] = q]
    BY <1>0, <2>2 DEF Queues
  <2>4. QED BY Zenon, <2>1, <2>3
<1>8. Resumed' = Resumed \cup {Head(Queues[a])}
  <2>1. \A q \in Requests : ctx[q].resumes \in Nat
    BY Types DEF OrderInv, IInv, Ctx
  <2>2. Resumed' = Resumed \cup {r}
    BY <1>0, <2>1 DEF Resumed
  <2>3. QED BY Zenon, <1>6, <2>2
<1>9. Sequential!Answer(a)
  BY Zenon, <1>6, <1>7, <1>8 DEF Sequential!Answer
<1>10. Sequential!Addrs = Addrs
  BY DEF Addrs, Sequential!Addrs
<1>11. QED BY <1>0, <1>9, <1>10 DEF Sequential!Next

\* Resuming a client changes nothing but the number of times it was.
LEMMA ResumesOne ==
    ASSUME QueueInv, NEW r \in Requests, ctx[r].resumes = 0,
           ctx' = [ctx EXCEPT ![r].resumes = @ + 1]
    PROVE  \A q \in Requests : ctx'[q].resumes = IF q = r THEN 1 ELSE ctx[q].resumes
<1>1. ctx \in [Requests -> Ctx] /\ ctx[r] \in Ctx
  BY Types
<1>2. [ctx[r] EXCEPT !.resumes = ctx[r].resumes + 1].resumes = 1
  BY <1>1 DEF Ctx
<1>3. QED BY <1>1, <1>2

\* A refused request is the first of its service's line: there is no list.
LEMMA RefusalAnswers ==
    ASSUME OrderInv, OrderInv', MaxConns = 1, ResumeRefused
    PROVE  Sequential!Next
<1>1. PICK r : r = sched.cur
  OBVIOUS
<1>2. /\ QueueInv /\ sched.pc = "refuse" /\ r = Head(sched.batch) /\ r \in Requests
      /\ sched.batch # <<>> /\ Fresh(ctx[r]) /\ RemoteAddr[r] \in Addrs
      /\ pool[RemoteAddr[r]] = {}
  BY <1>1, HeadOfBatch, Types DEF ResumeRefused, OrderInv, IInv, InHand, QueueInv, SchedulerAtWork
<1>3. PICK a \in Addrs : a = RemoteAddr[r]
  BY Zenon, <1>2
<1>4. /\ ctx' = [ctx EXCEPT ![r].resumes = @ + 1]
      /\ UNCHANGED <<newRequests, pool, wconns>> /\ sched'.batch = Tail(sched.batch)
  BY <1>1 DEF ResumeRefused, NextInBatch
<1>5. PICK b \in Seq(Requests), n \in Seq(Requests) : b = sched.batch /\ n = newRequests
  BY Zenon, <1>3, LineType
<1>6. ctx[r].resumes = 0 /\ \A q \in Requests : ctx'[q].resumes = IF q = r THEN 1 ELSE ctx[q].resumes
  BY <1>2, <1>4, ResumesOne DEF Fresh
<1>7. \A d \in Addrs : ListAt(d)' = ListAt(d)
  BY <1>4, SameList
<1>8. PICK s \in Seq(Requests) : s = b \o n
  <2>1. b \o n \in Seq(Requests)
    OBVIOUS
  <2>2. QED BY Zenon, <2>1
<1>9. s = Line(a) /\ Line(a)' = Tail(b) \o n
  <2>1. ListAt(a) = <<>>
    BY <1>2, <1>3, LineType
  <2>2. <<>> \o b \o n = b \o n /\ <<>> \o Tail(b) \o n = Tail(b) \o n
    BY <1>2, <1>5
  <2>3. QED BY Zenon, <1>4, <1>5, <1>7, <1>8, <2>1, <2>2 DEF Line
<1>10. s # <<>> /\ Head(s) = r /\ Tail(s) = Tail(b) \o n
  <2>1. b \o n # <<>> /\ Head(b \o n) = Head(b) /\ Tail(b \o n) = Tail(b) \o n
    BY <1>2, <1>5, ConcatFront
  <2>2. QED BY Zenon, <1>2, <1>5, <1>8, <2>1
<1>11. \A i \in 1 .. Len(s) : s[i] = r => i = 1
  <2>1. /\ \A i \in 1 .. Len(b) : b[i] = r => i = 1
        /\ \A i \in 1 .. Len(n) : n[i] # r
    <3>1. b[1] = r /\ 1 \in 1 .. Len(b)
      BY <1>2, <1>5
    <3>2. QED BY <1>2, <1>5, <3>1 DEF QueueInv, WaitsOnce
  <2>2. QED BY <1>8, <2>1
<1>12. ASSUME NEW d \in Addrs, d # a PROVE Unanswered(d)' = Unanswered(d)
  <2>1. PICK l \in Seq(Requests) : l = ListAt(d)
    BY Zenon, LineType
  <2>2. PICK A : A = Owed(d)
    OBVIOUS
  <2>3. r \notin A
    BY <1>3, <1>12, <2>2 DEF Owed
  <2>4. Only(l \o Tail(b) \o n, A) = Only(l \o b \o n, A)
    <3>1. \A x, t, u \in Seq(Requests) :
             t # <<>> /\ Head(t) \notin A => Only(x \o Tail(t) \o u, A) = Only(x \o t \o u, A)
      BY OnlySkips
    <3>2. b # <<>> /\ Head(b) \notin A
      BY <1>2, <1>5, <2>3
    <3>3. QED BY Zenon, <3>1, <3>2
  <2>5. Owed(d)' = Owed(d)
    BY <1>3, <1>6, <1>12, SameOwed
  <2>6. QED BY Zenon, <1>4, <1>5, <1>7, <2>1, <2>2, <2>4, <2>5 DEF Unanswered
<1>13. Line(a)' = Tail(s)
  BY Zenon, <1>9, <1>10
<1>14. Leads(r, a, s)
  BY <1>2, <1>3, <1>6, <1>9, <1>10, <1>11 DEF Leads
<1>15. QED BY <1>6, <1>12, <1>13, <1>14, Answers

\* The request the scheduler completes is the front of its service's list.
LEMMA CompletedIsFront ==
    ASSUME OrderInv, MaxConns = 1, sched.pc \in {"resume", "finish"}, NEW r, r = sched.cur,
           NEW w, w = ctx[r].wConn
    PROVE  /\ r \in Requests /\ RemoteAddr[r] \in Addrs /\ w \in pool[RemoteAddr[r]]
           /\ w \in WConns /\ wconns[w].requestList \in Seq(Requests)
           /\ wconns[w].requestList # <<>> /\ Head(wconns[w].requestList) = r
           /\ ListAt(RemoteAddr[r]) = wconns[w].requestList
           /\ sched.batch = <<>>
<1>1. /\ QueueInv /\ r \in Requests /\ RemoteAddr[r] \in Addrs /\ sched.batch = <<>>
      /\ w \in WConns /\ wconns[w].requestList \in Seq(Requests)
      /\ wconns[w].requestList # <<>> /\ Head(wconns[w].requestList) = r
  <2>1. QueueInv
    BY DEF OrderInv, IInv
  <2>2. r \in Requests /\ w # NoWConn /\ ListOf(r) # <<>> /\ Head(ListOf(r)) = r /\ sched.batch = <<>>
    BY <2>1 DEF QueueInv, SchedulerAtWork
  <2>3. w \in WConns
    BY <2>1, <2>2, Types
  <2>4. QED BY <2>1, <2>2, <2>3, Types DEF ListOf
<1>2. w \in pool[RemoteAddr[r]]
  <2>1. 1 \in DOMAIN wconns[w].requestList /\ wconns[w].requestList[1] = r
    BY <1>1
  <2>2. QED BY <1>1, <2>1 DEF OrderInv, IInv, Ownership, InOwnPool
<1>3. QED BY <1>1, <1>2, LineType

\* A completed request is the first of its service's line.
LEMMA CompletionAnswers ==
    ASSUME OrderInv, OrderInv', MaxConns = 1, Resume
    PROVE  Sequential!Next
<1>1. PICK r : r = sched.cur
  OBVIOUS
<1>2. PICK w : w = ctx[r].wConn
  OBVIOUS
<1>3. /\ QueueInv /\ sched.pc = "resume" /\ sched \in SchedState /\ ctx[r].resumes = 0
      /\ w # NoWConn
  BY <1>1, <1>2, Types DEF Resume, OrderInv, IInv, QueueInv, SchedulerAtWork
<1>4. PICK a \in Addrs : a = RemoteAddr[r]
  BY Zenon, <1>1, <1>2, <1>3, CompletedIsFront
<1>5. /\ r \in Requests /\ w \in WConns /\ sched.batch = <<>>
      /\ ListAt(a) = wconns[w].requestList
      /\ wconns[w].requestList # <<>> /\ Head(wconns[w].requestList) = r
  BY <1>1, <1>2, <1>3, <1>4, CompletedIsFront
<1>6. /\ ctx' = [ctx EXCEPT ![r].resumes = @ + 1]
      /\ UNCHANGED <<newRequests, pool, wconns>> /\ sched'.batch = sched.batch
  BY <1>1, <1>3 DEF Resume, SchedState
<1>7. \A q \in Requests : ctx'[q].resumes = IF q = r THEN 1 ELSE ctx[q].resumes
  BY <1>3, <1>5, <1>6, ResumesOne
<1>8. \A d \in Addrs : ListAt(d)' = ListAt(d) /\ Line(d)' = Line(d)
  <2>1. \A d \in Addrs : ListAt(d)' = ListAt(d)
    BY <1>6, SameList
  <2>2. QED BY Zenon, <1>6, <2>1 DEF Line
<1>9. PICK l \in Seq(Requests), n \in Seq(Requests) : l = ListAt(a) /\ n = newRequests
  BY Zenon, LineType
<1>10. PICK s \in Seq(Requests) : s = l \o n
  <2>1. l \o n \in Seq(Requests)
    OBVIOUS
  <2>2. QED BY Zenon, <2>1
<1>11. s = Line(a)
  <2>1. l \o <<>> \o n = l \o n
    OBVIOUS
  <2>2. QED BY Zenon, <1>5, <1>9, <1>10, <2>1 DEF Line
<1>12. l # <<>> /\ Head(l) = r
  BY Zenon, <1>5, <1>9
<1>13. s # <<>> /\ Head(s) = r
  <2>1. l \o n # <<>> /\ Head(l \o n) = Head(l)
    BY <1>12, ConcatFront
  <2>2. QED BY Zenon, <1>10, <1>12, <2>1
<1>14. \A i \in 1 .. Len(s) : s[i] = r => i = 1
  <2>1. \A i \in 1 .. Len(l) : l[i] = r => i = 1
    <3>1. l = wconns[w].requestList
      BY Zenon, <1>5, <1>9
    <3>2. \A i, j \in DOMAIN l : l[i] = l[j] => i = j
      BY Zenon, <1>5, <3>1 DEF OrderInv, IInv, Ownership, ListsOnce
    <3>3. 1 \in DOMAIN l /\ l[1] = r /\ DOMAIN l = 1 .. Len(l)
      BY <1>12
    <3>4. QED BY <3>2, <3>3
  <2>2. \A i \in 1 .. Len(n) : n[i] # r
    <3>1. ~Waits(r)
      BY <1>2, <1>3, <1>5 DEF QueueInv, WaitsFresh, Fresh
    <3>2. QED BY <1>9, <3>1 DEF Waits
  <2>3. \A i \in 1 .. Len(s) : \/ i \in 1 .. Len(l) /\ s[i] = l[i]
                               \/ i - Len(l) \in 1 .. Len(n) /\ s[i] = n[i - Len(l)]
    BY <1>10
  <2>4. QED BY <2>1, <2>2, <2>3
<1>15. ASSUME NEW d \in Addrs, d # a PROVE Unanswered(d)' = Unanswered(d)
  <2>1. Owed(d)' = Owed(d)
    BY <1>4, <1>7, <1>15, SameOwed
  <2>2. QED BY Zenon, <1>8, <2>1 DEF Unanswered, Line
<1>16. Line(a)' = s
  BY Zenon, <1>8, <1>11
<1>17. Leads(r, a, s)
  BY <1>3, <1>4, <1>5, <1>11, <1>13, <1>14 DEF Leads
<1>18. QED BY <1>7, <1>15, <1>16, <1>17, Answers

\* The end of a request takes it off its list; its client has been resumed.
LEMMA FinishStutters ==
    ASSUME OrderInv, OrderInv', MaxConns = 1, Finish
    PROVE  UNCHANGED <<Queues, Resumed>>
<1>1. PICK r : r = sched.cur
  OBVIOUS
<1>2. PICK w : w = ctx[r].wConn
  OBVIOUS
<1>3. PICK rest : rest = Tail(wconns[w].requestList)
  OBVIOUS
<1>4. QueueInv /\ sched.pc = "finish" /\ ctx[r].resumes # 0
  <2>1. sched.pc = "finish"
    BY Zenon DEF Finish
  <2>2. QED BY <1>1, <2>1 DEF OrderInv, IInv, InHand
<1>5. PICK a \in Addrs : a = RemoteAddr[r]
  BY Zenon, <1>1, <1>2, <1>4, CompletedIsFront
<1>6. /\ r \in Requests /\ w \in WConns /\ w \in pool[a] /\ sched.batch = <<>>
      /\ wconns[w].requestList \in Seq(Requests)
      /\ ListAt(a) = wconns[w].requestList
      /\ wconns[w].requestList # <<>> /\ Head(wconns[w].requestList) = r
  BY <1>1, <1>2, <1>4, <1>5, CompletedIsFront
<1>7. UNCHANGED <<ctx, newRequests>> /\ sched'.batch = <<>>
  <2>1. UNCHANGED <<ctx, newRequests>> /\ sched' = NextInBatch(<<>>)
    BY Zenon DEF Finish
  <2>2. QED BY <2>1 DEF NextInBatch
<1>8. PICK down \in BOOLEAN, conn \in Conns :
         /\ down => rest = <<>>
         /\ wconns' = [wconns EXCEPT ![w] = [conn |-> conn, requestList |-> rest]]
         /\ pool' = IF down THEN [pool EXCEPT ![a] = @ \ {w}] ELSE pool
  <2>1. IInv
    BY DEF OrderInv
  <2>2. PICK old : old = wconns[w].conn
    OBVIOUS
  <2>3. \E c \in Dial \cup {NoConn}, down \in BOOLEAN, conn \in Conns :
           Ends(r, w, old, rest, c, down, conn)
    BY <1>1, <1>2, <1>3, <2>1, <2>2, FinishEffect
  <2>4. QED BY Zenon, <1>5, <2>3 DEF Ends
<1>9. /\ pool \in [Addrs -> SUBSET WConns] /\ wconns \in [WConns -> WConn]
  BY <1>4, Types
<1>10. \A u \in WConns : wconns'[u].requestList = IF u = w THEN rest ELSE wconns[u].requestList
  BY <1>8, <1>9
<1>11. ListAt(a)' = rest
  <2>1. CASE down
    <3>1. pool'[a] = pool[a] \ {w}
      BY <1>8, <1>9, <2>1
    <3>2. \A u \in pool[a] : u = w
      <4>1. \A u \in pool[a] : (CHOOSE x \in pool[a] : TRUE) = u
        BY AtMostOne DEF OrderInv, Bounded
      <4>2. QED BY <1>6, <4>1
    <3>3. pool'[a] = {}
      BY <3>1, <3>2
    <3>4. QED BY <1>8, <2>1, <3>3, ListAtNext
  <2>2. CASE ~down
    <3>1. pool'[a] = pool[a]
      BY <1>8, <2>2
    <3>2. QED BY <1>6, <1>10, <3>1, ListAtNext
  <2>3. QED BY <2>1, <2>2
<1>12. \A d \in Addrs : Owed(d)' = Owed(d) /\ r \notin Owed(d)
  BY <1>4, <1>7 DEF Owed
<1>13. PICK n \in Seq(Requests) : n = newRequests
  BY Zenon, LineType
<1>14. Unanswered(a)' = Unanswered(a)
  <2>1. PICK A : A = Owed(a)
    OBVIOUS
  <2>2. PICK l \in Seq(Requests) : l = ListAt(a)
    BY Zenon, LineType
  <2>3. l # <<>> /\ Head(l) = r /\ Tail(l) = rest
    BY Zenon, <1>3, <1>6, <2>2
  <2>4. Only(<<>> \o Tail(l) \o n, A) = Only(<<>> \o l \o n, A)
    <3>1. \A x, t, u \in Seq(Requests) :
             t # <<>> /\ Head(t) \notin A => Only(x \o Tail(t) \o u, A) = Only(x \o t \o u, A)
      BY OnlySkips
    <3>2. <<>> \in Seq(Requests)
      OBVIOUS
    <3>3. Head(l) \notin A
      BY Zenon, <1>12, <2>1, <2>3
    <3>4. QED BY Zenon, <2>3, <3>1, <3>2, <3>3
  <2>5. /\ <<>> \o Tail(l) \o n = Tail(l) \o <<>> \o n
        /\ <<>> \o l \o n = l \o <<>> \o n
    BY <2>3
  <2>6. Unanswered(a)' = Only(rest \o <<>> \o n, A)
    BY Zenon, <1>7, <1>11, <1>12, <1>13, <2>1 DEF Unanswered
  <2>7. Unanswered(a) = Only(l \o <<>> \o n, A)
    BY Zenon, <1>6, <1>13, <2>1, <2>2 DEF Unanswered
  <2>8. QED BY Zenon, <2>3, <2>4, <2>5, <2>6, <2>7
<1>15. ASSUME NEW d \in Addrs, d # a PROVE Unanswered(d)' = Unanswered(d)
  <2>1. w \notin pool[d] /\ pool'[d] = pool[d] /\ pool[d] \subseteq WConns
    BY <1>6, <1>8, <1>9, <1>15 DEF OrderInv, IInv, Ownership, InOwnPool
  <2>2. ListAt(d)' = ListAt(d)
    BY <1>10, <2>1, SameList
  <2>3. QED BY Zenon, <1>6, <1>7, <1>12, <2>2 DEF Unanswered
<1>16. QED BY <1>7, <1>14, <1>15, Unchanged

\* Nothing is queued or answered at the start.
LEMMA InitSequential == Init => Sequential!Init
<1> SUFFICES ASSUME Init PROVE Sequential!Init
  OBVIOUS
<1>1. ASSUME NEW a \in Addrs PROVE Unanswered(a) = <<>>
  <2>1. ListAt(a) = <<>> /\ sched.batch = <<>> /\ newRequests = <<>>
    BY DEF Init, ListAt
  <2>2. <<>> \o <<>> \o <<>> = <<>>
    OBVIOUS
  <2>3. QED BY <2>1, <2>2, OnlyEmpty DEF Unanswered
<1>2. Resumed = {}
  BY DEF Init, NewContext, Resumed
<1>3. Addrs = Sequential!Addrs
  BY DEF Addrs, Sequential!Addrs
<1>4. QED BY <1>1, <1>2, <1>3 DEF Sequential!Init, Queues

\* Every step of the proxy is one of the abstract specification, or none.
LEMMA NextSequential ==
    ASSUME MaxConns = 1
    PROVE  OrderInv /\ OrderInv' /\ [Next]_vars => [Sequential!Next]_<<Queues, Resumed>>
<1> SUFFICES ASSUME OrderInv, OrderInv', [Next]_vars PROVE [Sequential!Next]_<<Queues, Resumed>>
  OBVIOUS
<1>1. CASE UNCHANGED <<Queues, Resumed>>
  BY <1>1
<1>2. CASE Waiter \/ Environment \/ GiveUp \/ UNCHANGED vars
  BY <1>2, QuietStutters
<1>3. CASE Agents
  BY <1>3, QuietStutters, Delegates DEF Agents
<1>4. CASE Scheduler
  BY <1>4, QuietStutters, DecidedStutters, SwapStutters, SchedStutters, RefusalAnswers,
     CompletionAnswers, FinishStutters DEF Scheduler
<1>5. QED BY <1>2, <1>3, <1>4 DEF Next

\* A proxy with one connection per service answers the requests for it once
\* each, in the order they were delegated, through batches, refusals, retries,
\* reconnects and failed responses, whatever faults occur.
THEOREM SequentialRefinement ==
    ASSUME MaxConns = 1
    PROVE  Spec => Sequential!SafetySpec
<1>1. OrderInv /\ OrderInv' /\ [Next]_vars => [Sequential!Next]_<<Queues, Resumed>>
  BY NextSequential
<1>2. QED BY <1>1, InitSequential, OrderInvariance, PTL DEF Spec, Sequential!SafetySpec, Sequential!vars

(***************************************************************************)
(* As long as no dial fails, the library refuses no operation and no       *)
(* service sends a misframed response, what a request reads is the         *)
(* response to it.                                                         *)
(***************************************************************************)
\* The types of what is read and of what is on the wire.
LEMMA WireTypes ==
    ASSUME QueueInv
    PROVE  /\ \A q \in Requests : /\ ctx[q] \in Ctx
                                  /\ ctx[q].buffer \in Seq(Token)
                                  /\ ctx[q].respHeader \in Seq(Token)
                                  /\ ctx[q].respData \in Seq(Token)
           /\ \A c \in Conns : /\ socks[c] \in Socket
                               /\ socks[c].sent \in Seq(Requests)
                               /\ socks[c].wire \in Seq(Token)
<1>1. TypeOK
  BY DEF QueueInv
<1>2. \A q \in Requests : ctx[q] \in Ctx
  BY <1>1 DEF TypeOK
<1>3. \A d \in Ctx : d.buffer \in Seq(Token) /\ d.respHeader \in Seq(Token) /\ d.respData \in Seq(Token)
  BY DEF Ctx
<1>4. \A c \in Conns : socks[c] \in Socket
  BY <1>1 DEF TypeOK
<1>5. \A s \in Socket : s.sent \in Seq(Requests) /\ s.wire \in Seq(Token)
  BY DEF Socket
<1>6. QED BY <1>2, <1>3, <1>4, <1>5

\* The next request may be written to t if to s, and the response that may be
\* read from s may be read from t.
Keeps(s, t) == /\ Ready(s) => Ready(t)
               /\ \A r \in Requests, c \in Ctx : Reads(r, c, s) => Reads(r, c, t)
               /\ Len(s.sent) <= 1 => Len(t.sent) <= 1

LEMMA KeepsItself == ASSUME NEW s PROVE Keeps(s, s)
  BY DEF Keeps

\* A socket just dialled or closed carries nothing.
LEMMA KeepsFresh == ASSUME NEW s PROVE Keeps(s, OpenSocket) /\ Keeps(s, ClosedSocket)
<1>1. /\ OpenSocket.sent = <<>> /\ OpenSocket.wire = <<>>
      /\ ClosedSocket.sent = <<>> /\ ClosedSocket.wire = <<>>
  BY DEF OpenSocket, ClosedSocket
<1>2. ASSUME NEW t, t.sent = <<>>, t.wire = <<>> PROVE Keeps(s, t)
  <2>1. Ready(t)
    BY <1>2 DEF Ready
  <2>2. \A r \in Requests, c \in Ctx : Reads(r, c, s) => Reads(r, c, t)
    BY <1>2 DEF Reads, Begins
  <2>3. Len(t.sent) <= 1
    BY <1>2
  <2>4. QED BY <2>1, <2>2, <2>3 DEF Keeps
<1>3. QED BY <1>1, <1>2

LEMMA FreshIsReady == Ready(OpenSocket) /\ Ready(ClosedSocket)
  BY DEF Ready, OpenSocket, ClosedSocket

LEMMA SocketsKeep ==
    ASSUME NEW freed, NEW c
    PROVE  \A d \in Conns : Keeps(socks[d], Sockets(freed, c)[d])
<1>1. \A d \in Conns : Sockets(freed, c)[d] = IF d = c THEN OpenSocket
                                              ELSE IF d \in freed THEN ClosedSocket ELSE socks[d]
  BY DEF Sockets
<1>2. QED BY <1>1, KeepsItself, KeepsFresh

\* The same was read for both contexts.
SameReading(c, d) == d.protoState = c.protoState /\ d.buffer = c.buffer

SameBytes(c, d) == d.respHeader = c.respHeader /\ d.respData = c.respData

(***************************************************************************)
(* Steps that read nothing: what is submitted has read nothing, and goes   *)
(* to a socket that is ready.                                              *)
(***************************************************************************)
LEMMA WireStep ==
    ASSUME IInv, WireInv,
           \A q \in Requests : SameReading(ctx[q], ctx'[q]) /\ SameBytes(ctx[q], ctx'[q]),
           \A q \in Requests : ctx'[q].wConn = NoWConn => ctx[q].wConn = NoWConn,
           \A c \in Conns : Keeps(socks[c], socks'[c]),
           notifiers' = {},
           \A o \in ops' \ ops : /\ o.op = "write" /\ o.ctx \in Requests
                                 /\ Blank(ctx[o.ctx]) /\ Ready(socks'[o.conn]),
           \A w \in WConns : \A i \in DOMAIN wconns'[w].requestList :
               i > 1 => /\ wconns'[w].requestList[i] \in Requests
                        /\ Blank(ctx[wconns'[w].requestList[i]]),
           waiter'.pc = "retry" => waiter' = waiter,
           ReadyNext', IInv'
    PROVE  WireInv'
<1>1. QueueInv /\ QueueInv'
  BY DEF IInv
<1>2. \A q \in Requests : ctx[q] \in Ctx /\ ctx'[q] \in Ctx
  BY <1>1 DEF QueueInv, TypeOK
<1>3. \A q \in Requests : Blank(ctx[q]) => Blank(ctx'[q])
  BY DEF SameReading, Blank
<1>4. InTheLibrary'
  <2>1. SUFFICES ASSUME NEW o \in ops'
                 PROVE  IF o.op = "write" THEN Blank(ctx'[o.ctx]) /\ Ready(socks'[o.conn])
                        ELSE Reads(o.ctx, ctx'[o.ctx], socks'[o.conn])
    BY DEF InTheLibrary
  <2>2. CASE o \in ops
    <3>1. /\ IF o.op = "write" THEN Blank(ctx[o.ctx]) /\ Ready(socks[o.conn])
             ELSE Reads(o.ctx, ctx[o.ctx], socks[o.conn])
          /\ o.ctx \in Requests /\ o.conn \in Conns
      BY <1>1, <2>2, Types DEF WireInv, InTheLibrary
    <3>2. Keeps(socks[o.conn], socks'[o.conn])
      BY <3>1
    <3>3. CASE o.op = "write"
      BY <1>3, <3>1, <3>2, <3>3 DEF Keeps
    <3>4. CASE o.op # "write"
      <4>1. Reads(o.ctx, ctx[o.ctx], socks'[o.conn])
        BY <1>2, <3>1, <3>2, <3>4 DEF Keeps
      <4>2. QED BY <3>1, <3>4, <4>1 DEF Reads, Blank, SameReading, SameBytes
    <3>5. QED BY <3>3, <3>4
  <2>3. CASE o \notin ops
    BY <1>3, <2>1, <2>3
  <2>4. QED BY <2>2, <2>3
<1>5. Unread'
  <2>1. \A q \in Requests : ctx'[q].wConn = NoWConn => Blank(ctx'[q])
    BY <1>3 DEF WireInv, Unread
  <2>2. \A w \in WConns : \A i \in DOMAIN wconns'[w].requestList :
           i > 1 => Blank(ctx'[wconns'[w].requestList[i]])
    BY <1>3
  <2>3. waiter'.pc = "retry" => Blank(ctx'[waiter'.cur])
    <3>1. waiter.pc = "retry" => waiter.cur \in Requests
      BY <1>1 DEF QueueInv, ActiveIsFront
    <3>2. QED BY <1>3, <3>1 DEF WireInv, Unread
  <2>4. QED BY <2>1, <2>2, <2>3 DEF Unread
<1>6. OwnBytes'
  BY DEF WireInv, OwnBytes, SameBytes
<1>7. OneOutstanding'
  BY DEF WireInv, OneOutstanding, Keeps
<1>8. QED BY <1>4, <1>5, <1>6, <1>7 DEF WireInv

\* In particular steps that submit nothing, and report nothing new.
LEMMA WireFrame ==
    ASSUME IInv, WireInv, IInv',
           UNCHANGED <<wconns, pool, notifiers>>, ops' \subseteq ops,
           \A q \in Requests : /\ SameReading(ctx[q], ctx'[q]) /\ SameBytes(ctx[q], ctx'[q])
                               /\ ctx'[q].wConn = ctx[q].wConn
                               /\ ctx'[q].disconnected = ctx[q].disconnected
                               /\ Reported(q)' => Reported(q),
           \A c \in Conns : Keeps(socks[c], socks'[c]),
           waiter'.pc = "retry" => waiter' = waiter
    PROVE  WireInv'
<1>1. QueueInv
  BY DEF IInv
<1>2. \A w \in WConns : \A i \in DOMAIN wconns'[w].requestList :
          i > 1 => /\ wconns'[w].requestList[i] \in Requests
                   /\ Blank(ctx[wconns'[w].requestList[i]])
  <2>1. \A w \in WConns : \A i \in DOMAIN wconns[w].requestList : wconns[w].requestList[i] \in Requests
    BY <1>1, Types
  <2>2. QED BY <2>1 DEF WireInv, Unread
<1>3. ReadyNext'
  <2>1. ASSUME NEW q \in Requests, Reported(q)', ~ctx'[q].disconnected
        PROVE  Ready(socks'[wconns'[ctx'[q].wConn].conn])
    <3>1. Reported(q) /\ Ready(socks[wconns[ctx[q].wConn].conn])
      BY <2>1 DEF WireInv, ReadyNext
    <3>2. ctx[q].wConn \in WConns /\ wconns[ctx[q].wConn].conn \in Conns
      BY <1>1, <3>1, Types DEF Reported, AtWork, QueueInv, ActiveIsFront, Active,
         SchedulerAtWork, ConnsNamed
    <3>3. QED BY <3>1, <3>2 DEF Keeps
  <2>2. ASSUME NEW w \in Pooled, wconns[w].requestList = <<>>
        PROVE  Ready(socks'[wconns[w].conn])
    <3>1. Ready(socks[wconns[w].conn]) /\ wconns[w].conn \in Conns
      BY <1>1, <2>2, Types DEF WireInv, ReadyNext, QueueInv, ConnsNamed
    <3>2. QED BY <3>1 DEF Keeps
  <2>3. Pooled' = Pooled
    BY DEF Pooled
  <2>4. QED BY <2>1, <2>2, <2>3 DEF ReadyNext
<1>4. notifiers' = {}
  BY DEF WireInv
<1>5. \A o \in ops' \ ops : FALSE
  OBVIOUS
<1>6. QED BY <1>2, <1>3, <1>4, <1>5, WireStep

(***************************************************************************)
(* Steps that submit nothing.                                              *)
(***************************************************************************)
\* What matters of a context to the connections is the same.
SameWire(c, d) == /\ SameReading(c, d) /\ SameBytes(c, d)
                  /\ d.wConn = c.wConn /\ d.disconnected = c.disconnected

LEMMA Unrelated ==
    ASSUME NEW c \in Ctx
    PROVE  /\ \A x : /\ SameWire(c, [c EXCEPT !.phase = x])
                     /\ SameWire(c, [c EXCEPT !.outcome = x])
                     /\ SameWire(c, [c EXCEPT !.resumes = x])
                     /\ SameWire(c, [c EXCEPT !.retries = x])
           /\ \A x, y : SameWire(c, [c EXCEPT !.retries = x, !.err = y])
           /\ \A x, y : SameWire(c, [[c EXCEPT !.done = TRUE, !.err = x] EXCEPT !.outcome = y])
<1>1. \A x : /\ SameWire(c, [c EXCEPT !.phase = x])
             /\ SameWire(c, [c EXCEPT !.outcome = x])
             /\ SameWire(c, [c EXCEPT !.resumes = x])
             /\ SameWire(c, [c EXCEPT !.retries = x])
  BY DEF Ctx, SameWire, SameReading, SameBytes
<1>2. \A x, y : SameWire(c, [c EXCEPT !.retries = x, !.err = y])
  BY DEF Ctx, SameWire, SameReading, SameBytes
<1>3. \A x, y : SameWire(c, [[c EXCEPT !.done = TRUE, !.err = x] EXCEPT !.outcome = y])
  BY DEF Ctx, SameWire, SameReading, SameBytes
<1>4. QED BY <1>1, <1>2, <1>3

LEMMA OneContext ==
    ASSUME QueueInv, NEW r \in Requests, NEW d, ctx' = [ctx EXCEPT ![r] = d], SameWire(ctx[r], d)
    PROVE  \A q \in Requests : SameWire(ctx[q], ctx'[q])
<1>1. ctx \in [Requests -> Ctx]
  BY Types
<1>2. \A q \in Requests : SameWire(ctx[q], ctx[q])
  BY DEF SameWire, SameReading, SameBytes
<1>3. QED BY <1>1, <1>2

\* The agents, the reports, and the scheduler between the lists.
LEMMA StillWire ==
    ASSUME IInv, WireInv, IInv',
           \/ Agents \/ GiveUp \/ UNCHANGED vars
           \/ TakeNotification \/ SwapNewRequests \/ SchedRefuse \/ ResumeRefused
           \/ TakeCompleted \/ Resume \/ SchedulerExit
    PROVE  WireInv'
<1>1. QueueInv /\ sched \in SchedState /\ ctx \in [Requests -> Ctx]
  BY Types DEF IInv
<1>2. /\ UNCHANGED <<wconns, pool, ops, socks>>
      /\ \A c \in Conns : Keeps(socks[c], socks'[c])
  <2>1. UNCHANGED <<wconns, pool, ops, socks>>
    BY DEF Agents, Close, DelegateAppend, DelegateNotify, GiveUp, WaiterGivesUp, NotifierGivesUp,
       vars, TakeNotification, SwapNewRequests, SchedRefuse, ResumeRefused, TakeCompleted,
       Complete, Resume, SchedulerExit
  <2>2. QED BY <2>1, KeepsItself
<1>3. ASSUME UNCHANGED notifiers, \A q \in Requests : SameWire(ctx[q], ctx'[q]),
             \A q \in Requests : Reported(q)' => Reported(q),
             waiter'.pc = "retry" => waiter' = waiter
      PROVE  WireInv'
  BY <1>2, <1>3, WireFrame DEF SameWire
<1>4. CASE Close \/ TakeNotification \/ SwapNewRequests \/ SchedulerExit \/ UNCHANGED vars
  <2>1. UNCHANGED <<ctx, notifiers, waiter>>
    BY <1>4 DEF Close, TakeNotification, SwapNewRequests, SchedulerExit, vars
  <2>2. \A q \in Requests : Reported(q)' => Reported(q)
    <3>1. sched'.pc \in {"resume", "finish"} => sched' = sched
      BY <1>1, <1>4 DEF Close, TakeNotification, SwapNewRequests, SchedulerExit, vars,
         NextInBatch, SchedState
    <3>2. QED BY <2>1, <3>1 DEF Reported, AtWork
  <2>3. QED BY <1>3, <2>1, <2>2 DEF SameWire, SameReading, SameBytes
<1>5. ASSUME NEW r \in Requests, DelegateAppend(r) \/ DelegateNotify(r)
      PROVE  WireInv'
  <2>1. PICK p : ctx' = [ctx EXCEPT ![r] = [ctx[r] EXCEPT !.phase = p]]
    BY <1>5 DEF DelegateAppend, DelegateNotify
  <2>2. UNCHANGED <<sched, notifiers, waiter>>
    BY <1>5 DEF DelegateAppend, DelegateNotify
  <2>3. \A q \in Requests : SameWire(ctx[q], ctx'[q])
    BY <1>1, <2>1, Unrelated, OneContext
  <2>4. QED BY <1>3, <2>2, <2>3 DEF Reported, AtWork
<1>6. CASE SchedRefuse \/ ResumeRefused \/ Resume
  <2>1. UNCHANGED <<notifiers, waiter>>
    BY <1>6 DEF SchedRefuse, ResumeRefused, Resume
  <2>2. \A q \in Requests : Reported(q)' => Reported(q)
    <3>1. CASE SchedRefuse
      BY <1>1, <2>1, <3>1 DEF SchedRefuse, Reported, AtWork, SchedState
    <3>2. CASE ResumeRefused
      BY <1>1, <2>1, <3>2 DEF ResumeRefused, Reported, AtWork, NextInBatch, SchedState
    <3>3. CASE Resume
      BY <1>1, <2>1, <3>3 DEF Resume, Reported, AtWork, SchedState
    <3>4. QED BY <1>6, <3>1, <3>2, <3>3
  <2>3. \A q \in Requests : SameWire(ctx[q], ctx'[q])
    <3>1. CASE SchedRefuse
      <4>1. Head(sched.batch) \in Requests
        BY <1>1, <3>1, HeadOfBatch DEF SchedRefuse
      <4>2. \E x : ctx' = [ctx EXCEPT ![Head(sched.batch)] = [ctx[Head(sched.batch)] EXCEPT !.outcome = x]]
        BY <3>1 DEF SchedRefuse
      <4>3. QED BY <1>1, <4>1, <4>2, Unrelated, OneContext
    <3>2. CASE ResumeRefused \/ Resume
      <4>1. sched.cur \in Requests
        BY <1>1, <3>2, HeadOfBatch DEF ResumeRefused, Resume, QueueInv, SchedulerAtWork
      <4>2. \E x : ctx' = [ctx EXCEPT ![sched.cur] = [ctx[sched.cur] EXCEPT !.resumes = x]]
        BY <3>2 DEF ResumeRefused, Resume
      <4>3. QED BY <1>1, <4>1, <4>2, Unrelated, OneContext
    <3>3. QED BY <1>6, <3>1, <3>2
  <2>4. QED BY <1>3, <2>1, <2>2, <2>3
<1>7. CASE TakeCompleted
  <2>1. PICK r : r = waiter.cur
    OBVIOUS
  <2>2. /\ waiter.pc = "complete" /\ waiter'.pc = "wait" /\ UNCHANGED notifiers
        /\ Complete(r, ctx[r].err)
    BY <1>7, <2>1 DEF TakeCompleted
  <2>3. r \in Requests /\ ~ctx[r].done
    BY <1>1, <2>1, <2>2 DEF QueueInv, ActiveIsFront, IInv, Ownership, OneReport
  <2>4. \A q \in Requests : SameWire(ctx[q], ctx'[q])
    <3>1. PICK x, d : /\ ctx' = [ctx EXCEPT ![r] = d]
                      /\ d = [[ctx[r] EXCEPT !.done = TRUE, !.err = ctx[r].err] EXCEPT !.outcome = x]
      BY <2>2, <2>3 DEF Complete
    <3>2. SameWire(ctx[r], d)
      BY <1>1, <2>3, <3>1, Unrelated
    <3>3. QED BY <1>1, <2>3, <3>1, <3>2, OneContext
  <2>5. \A q \in Requests : Reported(q)' => Reported(q)
    <3>1. sched' = [sched EXCEPT !.pc = "resume", !.cur = r]
      BY <2>2, <2>3 DEF Complete
    <3>2. sched'.cur = r
      BY <1>1, <3>1 DEF SchedState
    <3>3. QED BY <2>1, <2>2, <3>2 DEF Reported, AtWork
  <2>6. QED BY <1>3, <2>2, <2>4, <2>5
<1>8. CASE GiveUp
  <2>1. WaiterGivesUp
    BY <1>8 DEF GiveUp, NotifierGivesUp, WireInv
  <2>2. waiter.cur \in Requests
    BY <1>1, <2>1 DEF WaiterGivesUp, QueueInv, ActiveIsFront
  <2>3. PICK x, y, d : /\ ctx' = [ctx EXCEPT ![waiter.cur] = d]
                       /\ d = [ctx[waiter.cur] EXCEPT !.retries = x, !.err = y]
    BY <1>1, <2>1, <2>2 DEF WaiterGivesUp
  <2>4. \A q \in Requests : SameWire(ctx[q], ctx'[q])
    <3>1. SameWire(ctx[waiter.cur], d)
      BY <1>1, <2>2, <2>3, Unrelated
    <3>2. QED BY <1>1, <2>2, <2>3, <3>1, OneContext
  <2>5. UNCHANGED <<sched, notifiers>> /\ (waiter' = waiter \/ waiter'.pc = "wait")
    BY <2>1 DEF WaiterGivesUp
  <2>6. QED BY <1>3, <2>4, <2>5 DEF Reported, AtWork
<1>9. QED BY <1>4, <1>5, <1>6, <1>7, <1>8 DEF Agents

(***************************************************************************)
(* The remote ends.                                                        *)
(***************************************************************************)
\* What is sent by a remote is the response to the only request it holds.
LEMMA ReplyKeeps ==
    ASSUME NEW s \in Socket, s.sent # <<>>, Len(s.sent) <= 1, NEW k \in Kinds, NEW t,
           t.wire = s.wire \o Response(Head(s.sent), k),
           t.sent = <<>> \/ t.sent = Tail(s.sent)
    PROVE  Keeps(s, t)
<1>1. s.sent \in Seq(Requests) /\ s.wire \in Seq(Token)
  BY DEF Socket
<1>2. PICK r \in Requests : s.sent = <<r>> /\ r = Head(s.sent)
  BY <1>1
<1>3. t.sent = <<>>
  BY <1>1, <1>2
<1>4. ~Ready(s)
  BY DEF Ready
<1>5. ASSUME NEW q \in Requests, NEW c \in Ctx, Reads(q, c, s) PROVE Reads(q, c, t)
  <2>1. Blank(c) /\ q = r /\ s.wire = <<>>
    BY <1>2, <1>5 DEF Reads
  <2>2. Begins(q, t.wire)
    <3>1. \A u : u = Response(r, k) => u \in Seq(Token)
      <4>1. \A part \in {"header", "body", "rest"} : [of |-> r, part |-> part, kind |-> k] \in Token
        BY DEF Token
      <4>2. QED BY <4>1 DEF Response
    <3>2. t.wire = Response(r, k)
      BY <1>2, <2>1, <3>1
    <3>3. QED BY <2>1, <3>2 DEF Begins
  <2>3. QED BY <1>3, <2>1, <2>2 DEF Reads
<1>6. QED BY <1>3, <1>4, <1>5 DEF Keeps

LEMMA EnvironmentWire ==
    ASSUME IInv, WireInv, IInv', Environment
    PROVE  WireInv'
<1>1. QueueInv /\ socks \in [Conns -> Socket]
  BY Types DEF IInv
<1>2. UNCHANGED <<ctx, sched, wconns, pool, ops, notifiers, waiter>>
  BY DEF Environment, RemoteReply, RemoteClose, Collect
<1>3. PICK c \in Conns : RemoteReply(c) \/ RemoteClose(c) \/ Collect(c)
  BY DEF Environment
<1>4. PICK s \in Socket : s = socks[c]
  BY <1>1
<1>5. \E t : socks' = [socks EXCEPT ![c] = t] /\ Keeps(s, t)
  <2>1. CASE RemoteReply(c)
    <3>1. PICK k \in Kinds :
             socks' = [socks EXCEPT ![c] =
                         [s EXCEPT !.wire = @ \o Response(Head(s.sent), k),
                                   !.sent = IF ConnectionClose(k) THEN <<>> ELSE Tail(@),
                                   !.eof  = ConnectionClose(k)]]
      BY <1>4, <2>1 DEF RemoteReply
    <3>2. PICK t : t = [s EXCEPT !.wire = @ \o Response(Head(s.sent), k),
                                 !.sent = IF ConnectionClose(k) THEN <<>> ELSE Tail(@),
                                 !.eof  = ConnectionClose(k)]
      OBVIOUS
    <3>3. s.sent # <<>> /\ Len(s.sent) <= 1
      BY <1>4, <2>1 DEF RemoteReply, WireInv, OneOutstanding
    <3>4. t.wire = s.wire \o Response(Head(s.sent), k) /\ (t.sent = <<>> \/ t.sent = Tail(s.sent))
      BY <3>2 DEF Socket
    <3>5. QED BY <3>1, <3>2, <3>3, <3>4, ReplyKeeps
  <2>2. CASE RemoteClose(c)
    <3>1. PICK t : socks' = [socks EXCEPT ![c] = t] /\ t = [s EXCEPT !.eof = TRUE, !.sent = <<>>]
      BY <1>4, <2>2 DEF RemoteClose
    <3>2. t.sent = <<>> /\ t.wire = s.wire
      BY <3>1 DEF Socket
    <3>3. Keeps(s, t)
      <4>1. \A q \in Requests, d \in Ctx : Reads(q, d, s) => Reads(q, d, t)
        BY <3>2 DEF Reads
      <4>2. QED BY <3>2, <4>1 DEF Keeps, Ready
    <3>4. QED BY <3>1, <3>3
  <2>3. CASE Collect(c)
    <3>1. socks' = [socks EXCEPT ![c] = ClosedSocket]
      BY <2>3 DEF Collect
    <3>2. QED BY <3>1, KeepsFresh
  <2>4. QED BY <1>3, <2>1, <2>2, <2>3
<1>6. \A d \in Conns : Keeps(socks[d], socks'[d])
  BY <1>1, <1>4, <1>5, KeepsItself
<1>7. \A q \in Requests : /\ SameReading(ctx[q], ctx'[q]) /\ SameBytes(ctx[q], ctx'[q])
                          /\ Reported(q)' => Reported(q)
  BY <1>2 DEF SameReading, SameBytes, Reported, AtWork
<1>8. QED BY <1>2, <1>6, <1>7, WireFrame

(***************************************************************************)
(* Steps that submit a request: its socket is new, or ready.               *)
(***************************************************************************)
LEMMA DialSucceeds == "dial" \notin Faults => NoConn \notin Dial
<1>1. NoConn \notin FreeConns
  BY ConstantAssumption DEF ConstantAssumption, FreeConns, NoConn
<1>2. QED BY <1>1 DEF Dial

LEMMA SubmitWrites ==
    ASSUME "submit" \notin Faults, notifiers = {}, NEW r \in Requests, NEW c, NEW told,
           Submit(r, c, told), Blank(ctx[r]), Ready(socks'[c])
    PROVE  /\ notifiers' = {}
           /\ \A o \in ops' \ ops : /\ o.op = "write" /\ o.ctx \in Requests
                                    /\ Blank(ctx[o.ctx]) /\ Ready(socks'[o.conn])
<1>1. PICK n : n = [ctx |-> r, op |-> "write", conn |-> c]
  OBVIOUS
<1>2. notifiers' = {} /\ ops' = ops \cup {n}
  BY <1>1 DEF Submit
<1>3. n.ctx = r /\ n.op = "write" /\ n.conn = c
  BY <1>1
<1>4. QED BY <1>2, <1>3

\* A new request joins the list of a connection.
LEMMA QueueOnWire ==
    ASSUME IInv, WireInv, IInv', "submit" \notin Faults,
           sched.pc = "batch", NEW r, r = Head(sched.batch),
           NEW w \in WConns, NEW lists \in [WConns -> WConn],
           QueueOn(r, w, lists),
           \A u \in WConns : lists[u].requestList = wconns[u].requestList,
           \A c \in Conns : Keeps(socks[c], socks'[c]),
           \A u \in Pooled : lists[u].conn = wconns[u].conn,
           \A u \in Pooled' : u \in WConns /\ (lists[u].requestList = <<>> => Ready(socks'[lists[u].conn])),
           w \in Pooled'
    PROVE  WireInv'
<1>1. /\ QueueInv /\ r \in Requests /\ Fresh(ctx[r]) /\ ~Active(r) /\ ctx[r] \in Ctx
      /\ ctx \in [Requests -> Ctx] /\ notifiers = {} /\ sched \in SchedState
      /\ lists[w] \in WConn /\ lists[w].requestList \in Seq(Requests)
  BY HeadOfBatch, Types DEF IInv, WireInv
<1>2. PICK list \in Seq(Requests) : list = lists[w].requestList
  BY <1>1
<1>3. PICK d : d = [ctx[r] EXCEPT !.wConn = w]
  OBVIOUS
<1>4. PICK longer : longer = Append(list, r)
  OBVIOUS
<1>5. /\ wconns' = [lists EXCEPT ![w] = [lists[w] EXCEPT !.requestList = longer]]
      /\ ctx' = [ctx EXCEPT ![r] = d]
      /\ sched' = NextInBatch(Tail(sched.batch)) /\ UNCHANGED waiter
      /\ IF list = <<>> THEN Submit(r, lists[w].conn, r) ELSE UNCHANGED <<ops, notifiers>>
  BY <1>2, <1>3, <1>4 DEF QueueOn, PushBack, SubmitsAtOnce
<1>6. /\ SameReading(ctx[r], d) /\ SameBytes(ctx[r], d)
      /\ d.disconnected = ctx[r].disconnected /\ d.wConn = w
  BY <1>1, <1>3 DEF Ctx, SameReading, SameBytes
<1>7. /\ \A q \in Requests : SameReading(ctx[q], ctx'[q]) /\ SameBytes(ctx[q], ctx'[q])
      /\ \A q \in Requests \ {r} : ctx'[q] = ctx[q]
      /\ \A q \in Requests : ctx'[q].wConn = NoWConn => ctx[q].wConn = NoWConn
  <2>1. w # NoWConn
    BY <1>1, Types
  <2>2. QED BY <1>1, <1>5, <1>6, <2>1 DEF SameReading, SameBytes
<1>8. Blank(ctx[r])
  BY <1>1 DEF Fresh, WireInv, Unread
<1>9. \A u \in WConns : /\ wconns'[u].requestList = IF u = w THEN longer ELSE wconns[u].requestList
                        /\ wconns'[u].conn = lists[u].conn
  <2>1. /\ [lists[w] EXCEPT !.requestList = longer].requestList = longer
        /\ [lists[w] EXCEPT !.requestList = longer].conn = lists[w].conn
    BY <1>1 DEF WConn
  <2>2. QED BY <1>5, <2>1
<1>10. /\ longer # <<>>
       /\ \A i \in DOMAIN longer : longer[i] = r \/ (i \in DOMAIN list /\ longer[i] = list[i])
  BY <1>1, <1>2, <1>4
<1>11. \A u \in WConns : \A i \in DOMAIN wconns'[u].requestList :
           i > 1 => /\ wconns'[u].requestList[i] \in Requests
                    /\ Blank(ctx[wconns'[u].requestList[i]])
  <2>1. \A u \in WConns : \A i \in DOMAIN wconns[u].requestList :
            /\ wconns[u].requestList[i] \in Requests
            /\ i > 1 => Blank(ctx[wconns[u].requestList[i]])
    BY <1>1, Types DEF WireInv, Unread
  <2>2. \A i \in DOMAIN longer : i > 1 => longer[i] \in Requests /\ Blank(ctx[longer[i]])
    BY <1>1, <1>2, <1>8, <1>10, <2>1
  <2>3. QED BY <1>9, <2>1, <2>2
<1>12. /\ notifiers' = {}
       /\ \A o \in ops' \ ops : /\ o.op = "write" /\ o.ctx \in Requests
                                /\ Blank(ctx[o.ctx]) /\ Ready(socks'[o.conn])
  <2>1. CASE list # <<>>
    BY <1>1, <1>5, <2>1
  <2>2. CASE list = <<>>
    <3>1. Ready(socks'[lists[w].conn])
      BY <1>2, <2>2
    <3>2. Submit(r, lists[w].conn, r)
      BY <1>5, <2>2
    <3>3. QED BY <1>1, <1>8, <3>1, <3>2, SubmitWrites
  <2>3. QED BY <2>1, <2>2
<1>13. ReadyNext'
  <2>1. ASSUME NEW q \in Requests, Reported(q)', ~ctx'[q].disconnected
        PROVE  Ready(socks'[wconns'[ctx'[q].wConn].conn])
    <3>1. waiter.pc = "complete" /\ waiter.cur = q
      BY <1>1, <1>5, <2>1 DEF Reported, AtWork, NextInBatch
    <3>2. Active(q) /\ q # r /\ Reported(q) /\ ~ctx[q].done
      BY <1>1, <3>1 DEF Active, Reported, IInv, Ownership, OneReport
    <3>3. /\ ctx[q].wConn \in WConns /\ ctx[q].wConn \in Pooled
          /\ wconns[ctx[q].wConn].conn \in Conns
      <4>1. ctx[q].wConn \in WConns /\ wconns[ctx[q].wConn].requestList # <<>>
        BY <1>1, <3>2, Types DEF QueueInv, ActiveIsFront, ListOf
      <4>2. QED BY <1>1, <4>1, Types DEF QueueInv, ListsOwned, Unpooled, ConnsNamed
    <3>4. ctx'[q] = ctx[q] /\ Ready(socks[wconns[ctx[q].wConn].conn])
      BY <1>7, <2>1, <3>2 DEF WireInv, ReadyNext
    <3>5. wconns'[ctx'[q].wConn].conn = wconns[ctx[q].wConn].conn
      BY <1>9, <3>3, <3>4
    <3>6. QED BY <3>3, <3>4, <3>5 DEF Keeps
  <2>2. \A u \in Pooled' : wconns'[u].requestList = <<>> => Ready(socks'[wconns'[u].conn])
    BY <1>9, <1>10
  <2>3. QED BY <2>1, <2>2 DEF ReadyNext
<1>14. waiter'.pc = "retry" => waiter' = waiter
  BY <1>5
<1>15. QED BY <1>7, <1>11, <1>12, <1>13, <1>14, WireStep

LEMMA SchedOnPoolWire ==
    ASSUME IInv, WireInv, IInv', "submit" \notin Faults, SchedOnPool
    PROVE  WireInv'
<1>1. PICK r : r = Head(sched.batch)
  OBVIOUS
<1>2. sched.pc = "batch" /\ UNCHANGED <<pool, socks>>
  BY DEF SchedOnPool
<1>3. PICK w \in LeastLoaded(pool[RemoteAddr[r]]) : QueueOn(r, w, wconns)
  BY <1>1 DEF SchedOnPool
<1>4. QueueInv /\ r \in Requests /\ RemoteAddr[r] \in Addrs
  BY <1>1, <1>2, HeadOfBatch, Types DEF IInv
<1>5. w \in pool[RemoteAddr[r]] /\ w \in WConns
  BY <1>3, <1>4, Types DEF LeastLoaded
<1>6. /\ wconns \in [WConns -> WConn] /\ Pooled' = Pooled /\ w \in Pooled'
      /\ \A u \in Pooled' : u \in WConns
  BY <1>2, <1>4, <1>5, Types DEF Pooled
<1>7. \A u \in Pooled' : wconns[u].requestList = <<>> => Ready(socks'[wconns[u].conn])
  BY <1>2, <1>6 DEF WireInv, ReadyNext
<1>8. \A c \in Conns : Keeps(socks[c], socks'[c])
  BY <1>2, KeepsItself
<1>9. QED BY <1>1, <1>2, <1>3, <1>5, <1>6, <1>7, <1>8, QueueOnWire

LEMMA SchedOnDialWire ==
    ASSUME IInv, WireInv, IInv', "submit" \notin Faults, SchedOnDial
    PROVE  WireInv'
<1>1. PICK r : r = Head(sched.batch)
  OBVIOUS
<1> DEFINE a == RemoteAddr[r]
<1>2. PICK c \in Dial \ {NoConn}, v \in Unpooled :
         /\ pool' = [pool EXCEPT ![a] = @ \cup {v}]
         /\ socks' = Sockets({}, c)
         /\ \E w \in {v} \cup {u \in pool[a] : wconns[u].requestList = <<>>} :
              QueueOn(r, w, [wconns EXCEPT ![v] = [conn |-> c, requestList |-> <<>>]])
  BY <1>1 DEF SchedOnDial
<1> DEFINE fresh == [conn |-> c, requestList |-> <<>>]
           lists == [wconns EXCEPT ![v] = fresh]
<1>3. PICK w \in {v} \cup {u \in pool[a] : wconns[u].requestList = <<>>} :
         QueueOn(r, w, lists)
  BY <1>2
<1>4. /\ QueueInv /\ sched.pc = "batch" /\ r \in Requests /\ a \in Addrs
      /\ wconns \in [WConns -> WConn] /\ pool \in [Addrs -> SUBSET WConns]
      /\ v \in WConns \ Pooled /\ Pooled \subseteq WConns
      /\ wconns[v].requestList = <<>>
  <2>1. QueueInv /\ sched.pc = "batch"
    BY DEF IInv, SchedOnDial
  <2>2. QED BY <1>1, <1>2, <2>1, HeadOfBatch, Types DEF QueueInv, ListsOwned, Unpooled
<1>5. c \in Conns
  BY <1>2, DialIsFree
<1>6. fresh \in WConn /\ fresh.requestList = <<>> /\ fresh.conn = c
  <2>1. <<>> \in Seq(Requests)
    OBVIOUS
  <2>2. QED BY <1>5, <2>1 DEF WConn
<1> HIDE DEF fresh
<1>7. /\ lists \in [WConns -> WConn]
      /\ \A u \in WConns : /\ lists[u].requestList = wconns[u].requestList
                           /\ lists[u].conn = IF u = v THEN c ELSE wconns[u].conn
  BY <1>4, <1>6
<1>8. Pooled' = Pooled \cup {v}
  <2>1. pool' = [pool EXCEPT ![a] = pool[a] \cup {v}]
    BY <1>2
  <2>2. \A b \in Addrs : pool'[b] = IF b = a THEN pool[b] \cup {v} ELSE pool[b]
    BY <1>4, <2>1
  <2>3. a \in Addrs
    BY <1>4
  <2> HIDE DEF a
  <2>4. Pooled' \subseteq Pooled \cup {v}
    BY ZenonT(60), <2>2, <2>3 DEF Pooled
  <2>5. Pooled \subseteq Pooled'
    BY ZenonT(60), <2>2, <2>3 DEF Pooled
  <2>6. v \in Pooled'
    BY <2>2, <2>3 DEF Pooled
  <2>7. QED BY <2>4, <2>5, <2>6
<1>9. w \in WConns /\ w \in Pooled'
  BY <1>3, <1>4, <1>8 DEF Pooled
<1> HIDE DEF lists
<1>10. \A d \in Conns : Keeps(socks[d], socks'[d])
  BY <1>2, SocketsKeep
<1>11. socks'[c] = OpenSocket
  BY <1>2, <1>5 DEF Sockets
<1>12. ASSUME NEW u \in Pooled', lists[u].requestList = <<>>
       PROVE  Ready(socks'[lists[u].conn])
  <2>1. CASE u = v
    BY <1>4, <1>7, <1>11, <2>1, FreshIsReady
  <2>2. CASE u # v
    <3>1. u \in Pooled /\ u \in WConns /\ wconns[u].requestList = <<>> /\ lists[u].conn = wconns[u].conn
      BY <1>4, <1>7, <1>8, <1>12, <2>2
    <3>2. wconns[u].conn \in Conns /\ Ready(socks[wconns[u].conn])
      BY <1>4, <3>1, Types DEF QueueInv, ConnsNamed, WireInv, ReadyNext
    <3>3. QED BY <1>10, <3>1, <3>2 DEF Keeps
  <2>3. QED BY <2>1, <2>2
<1>13. \A u \in Pooled : lists[u].conn = wconns[u].conn
  BY <1>4, <1>7
<1>14. \A u \in Pooled' : u \in WConns /\ (lists[u].requestList = <<>> => Ready(socks'[lists[u].conn]))
  BY <1>4, <1>8, <1>12
<1>15. QED BY <1>1, <1>3, <1>4, <1>7, <1>9, <1>10, <1>13, <1>14, QueueOnWire

\* What a request is read from, or an idle connection keeps for the next, is
\* not the socket of another request at the front.
LEMMA Elsewhere ==
    ASSUME IInv, NEW w \in Pooled, NEW r, wconns[w].requestList # <<>>,
           Head(wconns[w].requestList) = r
    PROVE  /\ \A q \in Requests \ {r} : Reported(q) =>
                /\ ctx[q].wConn \in WConns \ {w}
                /\ wconns[ctx[q].wConn].conn \in Conns \ {wconns[w].conn}
           /\ \A u \in Pooled \ {w} : wconns[u].conn \in Conns \ {wconns[w].conn}
<1>1. QueueInv /\ Ownership
  BY DEF IInv
<1>2. \A u \in Pooled \ {w} : wconns[u].conn \in Conns \ {wconns[w].conn}
  BY <1>1, Types DEF Ownership, PoolOwnsSockets
<1>3. ASSUME NEW q \in Requests \ {r}, Reported(q)
      PROVE  ctx[q].wConn \in Pooled \ {w}
  <2>1. /\ ctx[q].wConn \in WConns
        /\ wconns[ctx[q].wConn].requestList # <<>> /\ Head(wconns[ctx[q].wConn].requestList) = q
    <3>1. CASE AtWork(q)
      BY <1>1, <3>1, Types DEF AtWork, QueueInv, SchedulerAtWork, ListOf
    <3>2. CASE waiter.pc = "complete" /\ waiter.cur = q
      BY <1>1, <3>2, Types DEF QueueInv, ActiveIsFront, Active, ListOf, Ownership, OneReport
    <3>3. QED BY <1>3, <3>1, <3>2 DEF Reported
  <2>2. QED BY <1>1, <2>1 DEF QueueInv, ListsOwned, Unpooled
<1>4. QED BY <1>1, <1>2, <1>3, Types

\* A write is tried again, on a new socket.
LEMMA TakeRetryWire ==
    ASSUME IInv, WireInv, IInv', {"dial", "submit"} \cap Faults = {}, TakeRetry
    PROVE  WireInv'
<1>1. QueueInv /\ Ownership /\ notifiers = {}
  BY DEF IInv, WireInv
<1>2. PICK r : r = waiter.cur
  OBVIOUS
<1>3. PICK w : w = ctx[r].wConn
  OBVIOUS
<1>4. /\ sched.pc = "select" /\ waiter.pc = "retry" /\ waiter'.pc = "wait"
      /\ UNCHANGED <<sched, pool>>
      /\ \E n : ctx' = [ctx EXCEPT ![r] = [ctx[r] EXCEPT !.retries = n]]
  BY <1>2 DEF TakeRetry
<1>5. PICK c \in Dial : /\ c # NoConn
                        /\ wconns' = [wconns EXCEPT ![w] = [wconns[w] EXCEPT !.conn = c]]
                        /\ socks' = Sockets({wconns[w].conn}, c)
                        /\ Submit(r, c, r)
  BY <1>2, <1>3, DialSucceeds DEF TakeRetry
<1>6. /\ r \in Requests /\ Blank(ctx[r]) /\ c \in Conns /\ ctx[r] \in Ctx
      /\ w \in WConns /\ wconns[w].requestList # <<>> /\ Head(wconns[w].requestList) = r
      /\ \A o \in ops : o.ctx # r
  <2>1. r \in Requests /\ ~ctx[r].done /\ Active(r) /\ \A o \in ops : o.ctx # r
    BY <1>1, <1>2, <1>4 DEF QueueInv, ActiveIsFront, Ownership, OneReport, Active
  <2>2. Blank(ctx[r])
    BY <1>2, <1>4 DEF WireInv, Unread
  <2>3. w \in WConns /\ wconns[w].requestList # <<>> /\ Head(wconns[w].requestList) = r
    BY <1>1, <1>3, <2>1, Types DEF QueueInv, ActiveIsFront, ListOf
  <2>4. QED BY <1>1, <1>5, <2>1, <2>2, <2>3, DialIsFree, Types
<1>7. w \in Pooled
  BY <1>6, NobodyElse
<1>8. \A q \in Requests : SameWire(ctx[q], ctx'[q])
  <2>1. PICK n, d : ctx' = [ctx EXCEPT ![r] = d] /\ d = [ctx[r] EXCEPT !.retries = n]
    BY <1>4
  <2>2. SameWire(ctx[r], d)
    BY <1>6, <2>1, Unrelated
  <2>3. QED BY <1>1, <1>6, <2>1, <2>2, OneContext
<1>9. \A d \in Conns : Keeps(socks[d], socks'[d])
  BY <1>5, SocketsKeep
<1>10. socks'[c] = OpenSocket
  BY <1>5, <1>6 DEF Sockets
<1>11. /\ notifiers' = {}
       /\ \A o \in ops' \ ops : /\ o.op = "write" /\ o.ctx \in Requests
                                /\ Blank(ctx[o.ctx]) /\ Ready(socks'[o.conn])
  BY <1>1, <1>5, <1>6, <1>10, FreshIsReady, SubmitWrites
<1>12. \A u \in WConns : /\ wconns'[u].requestList = wconns[u].requestList
                         /\ u # w => wconns'[u].conn = wconns[u].conn
  <2>1. wconns \in [WConns -> WConn]
    BY <1>1, Types
  <2>2. [wconns[w] EXCEPT !.conn = c].requestList = wconns[w].requestList
    BY <1>6, <2>1 DEF WConn
  <2>3. QED BY <1>5, <1>6, <2>1, <2>2
<1>13. \A u \in WConns : \A i \in DOMAIN wconns'[u].requestList :
           i > 1 => /\ wconns'[u].requestList[i] \in Requests
                    /\ Blank(ctx[wconns'[u].requestList[i]])
  <2>1. \A u \in WConns : \A i \in DOMAIN wconns[u].requestList : wconns[u].requestList[i] \in Requests
    BY <1>1, Types
  <2>2. QED BY <1>12, <2>1 DEF WireInv, Unread
<1>14. ReadyNext'
  <2>1. \A q \in Requests : ~Reported(q)'
    BY <1>4 DEF Reported, AtWork
  <2>2. ASSUME NEW u \in Pooled, wconns'[u].requestList = <<>>
        PROVE  Ready(socks'[wconns'[u].conn])
    <3>1. u \in WConns /\ u # w /\ wconns[u].requestList = <<>> /\ wconns'[u].conn = wconns[u].conn
      BY <1>1, <1>6, <1>12, <2>2, Types
    <3>2. wconns[u].conn \in Conns /\ Ready(socks[wconns[u].conn])
      BY <1>6, <1>7, <3>1, Elsewhere DEF WireInv, ReadyNext
    <3>3. QED BY <1>9, <3>1, <3>2 DEF Keeps
  <2>3. Pooled' = Pooled
    BY <1>4 DEF Pooled
  <2>4. QED BY <2>1, <2>2, <2>3 DEF ReadyNext
<1>15. waiter'.pc = "retry" => waiter' = waiter
  BY <1>4
<1>16. QED BY <1>8, <1>9, <1>11, <1>13, <1>14, <1>15, WireStep DEF SameWire

\* The end of a request: the next one is written to a new socket when the
\* connection broke, and else to one on which nothing is owed.
LEMMA FinishWire ==
    ASSUME IInv, WireInv, IInv', {"dial", "submit"} \cap Faults = {}, Finish
    PROVE  WireInv'
<1>1. QueueInv /\ Ownership /\ notifiers = {}
  BY DEF IInv, WireInv
<1>2. PICK r : r = sched.cur
  OBVIOUS
<1>3. PICK w : w = ctx[r].wConn
  OBVIOUS
<1>4. PICK old : old = wconns[w].conn
  OBVIOUS
<1>5. PICK list : list = wconns[w].requestList
  OBVIOUS
<1>6. PICK rest : rest = Tail(list)
  OBVIOUS
<1>0. rest = Tail(wconns[w].requestList)
  BY <1>5, <1>6
<1>7. PICK c \in Dial \cup {NoConn}, down \in BOOLEAN, conn \in Conns :
         Ends(r, w, old, rest, c, down, conn)
  BY <1>0, <1>2, <1>3, <1>4, FinishEffect, ZenonT(120)
<1>8. /\ conn = IF c = NoConn THEN old ELSE c
      /\ c = NoConn => ~ctx[r].disconnected
      /\ down => rest = <<>>
      /\ wconns' = [wconns EXCEPT ![w] = [conn |-> conn, requestList |-> rest]]
      /\ socks' = Sockets(IF down \/ c # NoConn THEN {old} ELSE {}, c)
      /\ pool' = IF down THEN [pool EXCEPT ![RemoteAddr[r]] = @ \ {w}] ELSE pool
      /\ SubmitNext(rest, conn, r)
  BY <1>7, DialSucceeds DEF Ends
<1>9. sched.pc = "finish" /\ sched'.pc = "select" /\ UNCHANGED <<ctx, waiter>>
  BY Zenon DEF Finish, NextInBatch
<1>10. /\ r \in Requests /\ w \in WConns /\ list \in Seq(Requests) /\ list # <<>> /\ Head(list) = r
       /\ ctx[r].done /\ AtWork(r) /\ old \in Conns
  BY <1>1, <1>2, <1>3, <1>4, <1>5, <1>9, Types DEF QueueInv, SchedulerAtWork, ListOf, AtWork, ConnsNamed
<1>11. w \in Pooled
  BY <1>1, <1>5, <1>10 DEF QueueInv, ListsOwned, Unpooled
<1>12. \A d \in Conns : Keeps(socks[d], socks'[d])
  BY <1>8, SocketsKeep
<1>13. ~down => Ready(socks'[conn])
  <2>1. CASE c = NoConn
    <3>1. Ready(socks[old])
      BY <1>3, <1>4, <1>8, <1>10, <2>1 DEF WireInv, ReadyNext, Reported
    <3>2. QED BY <1>8, <1>10, <1>12, <2>1, <3>1 DEF Keeps
  <2>2. CASE c # NoConn
    <3>1. socks'[conn] = OpenSocket
      BY <1>7, <1>8, <2>2 DEF Sockets
    <3>2. QED BY <3>1, FreshIsReady
  <2>3. QED BY <2>1, <2>2
<1>14. \A u \in WConns : /\ wconns'[u].requestList = IF u = w THEN rest ELSE wconns[u].requestList
                         /\ wconns'[u].conn = IF u = w THEN conn ELSE wconns[u].conn
  <2>1. wconns \in [WConns -> WConn]
    BY <1>1, Types
  <2>2. QED BY <1>8, <1>10, <2>1
<1>15. /\ \A i \in DOMAIN rest : /\ i + 1 \in DOMAIN list /\ rest[i] = list[i + 1]
                                 /\ i + 1 > 1 /\ (i > 1 => i + 1 > 1)
       /\ rest # <<>> => Head(rest) = rest[1] /\ 1 \in DOMAIN rest
  <2>1. rest \in Seq(Requests)
    BY <1>6, <1>10
  <2>2. \A i \in DOMAIN rest : i + 1 \in DOMAIN list /\ rest[i] = list[i + 1] /\ i + 1 > 1
    BY <1>6, <1>10
  <2>3. QED BY <2>1, <2>2
<1>16. \A i \in DOMAIN rest : rest[i] \in Requests /\ Blank(ctx[rest[i]])
  <2>1. \A i \in DOMAIN list : list[i] \in Requests /\ (i > 1 => Blank(ctx[list[i]]))
    BY <1>5, <1>10 DEF WireInv, Unread
  <2>2. QED BY <1>15, <2>1
<1>17. /\ notifiers' = {}
       /\ \A o \in ops' \ ops : /\ o.op = "write" /\ o.ctx \in Requests
                                /\ Blank(ctx[o.ctx]) /\ Ready(socks'[o.conn])
  <2>1. CASE rest = <<>>
    BY <1>1, <1>8, <2>1 DEF SubmitNext
  <2>2. CASE rest # <<>>
    <3>1. Head(rest) \in Requests /\ Blank(ctx[Head(rest)])
      BY <1>15, <1>16, <2>2
    <3>2. Submit(Head(rest), conn, r) /\ Ready(socks'[conn])
      BY <1>8, <1>13, <2>2 DEF SubmitNext
    <3>3. QED BY <1>1, <3>1, <3>2, SubmitWrites
  <2>3. QED BY <2>1, <2>2
<1>18. \A u \in WConns : \A i \in DOMAIN wconns'[u].requestList :
           i > 1 => /\ wconns'[u].requestList[i] \in Requests
                    /\ Blank(ctx[wconns'[u].requestList[i]])
  <2>1. \A u \in WConns : \A i \in DOMAIN wconns[u].requestList : wconns[u].requestList[i] \in Requests
    BY <1>1, Types
  <2>2. QED BY <1>14, <1>16, <2>1 DEF WireInv, Unread
<1>19. Pooled' \subseteq Pooled /\ (down => w \notin Pooled')
  <2>1. pool \in [Addrs -> SUBSET WConns] /\ RemoteAddr[r] \in Addrs
    BY <1>1, <1>10, Types
  <2>2. \A a \in Addrs : pool'[a] \subseteq pool[a]
    BY <1>8, <2>1
  <2>3. \A a \in Addrs \ {RemoteAddr[r]} : w \notin pool[a]
    <3>1. w \in pool[RemoteAddr[r]]
      BY <1>1, <1>5, <1>10 DEF Ownership, InOwnPool
    <3>2. QED BY <1>1, <2>1, <3>1 DEF Ownership, InOwnPool
  <2>4. down => \A a \in Addrs : w \notin pool'[a]
    BY <1>8, <2>1, <2>2, <2>3
  <2>5. QED BY <2>2, <2>4 DEF Pooled
<1>20. ReadyNext'
  <2>1. ASSUME NEW q \in Requests, Reported(q)', ~ctx'[q].disconnected
        PROVE  Ready(socks'[wconns'[ctx'[q].wConn].conn])
    <3>1. waiter.pc = "complete" /\ waiter.cur = q
      BY <1>9, <2>1 DEF Reported, AtWork
    <3>2. q # r /\ Reported(q)
      BY <1>1, <1>10, <3>1 DEF Reported, Ownership, OneReport
    <3>3. Ready(socks[wconns[ctx[q].wConn].conn])
      BY <1>9, <2>1, <3>2 DEF WireInv, ReadyNext
    <3>4. ctx[q].wConn \in WConns \ {w} /\ wconns[ctx[q].wConn].conn \in Conns
      BY <1>5, <1>10, <1>11, <3>2, Elsewhere
    <3>5. QED BY <1>9, <1>12, <1>14, <3>3, <3>4 DEF Keeps
  <2>2. ASSUME NEW u \in Pooled', wconns'[u].requestList = <<>>
        PROVE  Ready(socks'[wconns'[u].conn])
    <3>1. CASE u = w
      BY <1>10, <1>13, <1>14, <1>19, <2>2, <3>1
    <3>2. CASE u # w
      <4>1. u \in Pooled /\ u \in WConns
        BY <1>1, <1>19, <2>2, Types
      <4>2. /\ wconns[u].requestList = <<>> /\ wconns'[u].conn = wconns[u].conn
            /\ wconns[u].conn \in Conns
        BY <1>5, <1>10, <1>11, <1>14, <2>2, <3>2, <4>1, Elsewhere
      <4>3. Ready(socks[wconns[u].conn])
        BY <4>1, <4>2 DEF WireInv, ReadyNext
      <4>4. QED BY <1>12, <4>2, <4>3 DEF Keeps
    <3>3. QED BY <3>1, <3>2
  <2>3. QED BY <2>1, <2>2 DEF ReadyNext
<1>21. /\ \A q \in Requests : /\ SameReading(ctx[q], ctx'[q]) /\ SameBytes(ctx[q], ctx'[q])
                              /\ ctx'[q].wConn = NoWConn => ctx[q].wConn = NoWConn
       /\ waiter'.pc = "retry" => waiter' = waiter
  BY <1>9 DEF SameReading, SameBytes
<1>22. QED BY <1>12, <1>17, <1>18, <1>20, <1>21, WireStep

(***************************************************************************)
(* The IO goroutine: one operation, its request and its socket.            *)
(***************************************************************************)
\* An operation is that of the front of its connection, alone on the socket.
LEMMA OpAlone ==
    ASSUME IInv, NEW o \in ops, NEW w, w = ctx[o.ctx].wConn
    PROVE  /\ o.ctx \in Requests /\ w \in Pooled /\ w \in WConns /\ wconns[w].conn = o.conn
           /\ o.conn \in Conns
           /\ wconns[w].requestList # <<>> /\ Head(wconns[w].requestList) = o.ctx
           /\ \A p \in ops \ {o} : /\ p.ctx \in Requests \ {o.ctx}
                                   /\ p.conn \in Conns \ {o.conn}
<1>1. QueueInv /\ Ownership
  BY DEF IInv
<1>2. ASSUME NEW p \in ops
      PROVE  /\ p.ctx \in Requests /\ p.conn \in Conns /\ ctx[p.ctx].wConn \in Pooled
             /\ wconns[ctx[p.ctx].wConn].conn = p.conn
             /\ wconns[ctx[p.ctx].wConn].requestList # <<>>
             /\ Head(wconns[ctx[p.ctx].wConn].requestList) = p.ctx
  <2>1. p.ctx \in Requests /\ p.conn \in Conns /\ Active(p.ctx) /\ ~ctx[p.ctx].done
    BY <1>1, Types DEF Active, Ownership, OneReport
  <2>2. ctx[p.ctx].wConn \in Pooled /\ wconns[ctx[p.ctx].wConn].conn = p.conn
    BY <1>1 DEF Ownership, PoolOwnsSockets
  <2>3. QED BY <1>1, <2>1, <2>2 DEF QueueInv, ActiveIsFront, ListOf
<1>3. ASSUME NEW p \in ops \ {o}
      PROVE  p.ctx # o.ctx /\ p.conn # o.conn
  <2>1. p.ctx # o.ctx
    BY <1>1 DEF Ownership, OneReport
  <2>2. ctx[p.ctx].wConn # w
    BY <1>2, <2>1
  <2>3. QED BY <1>1, <1>2, <2>1, <2>2 DEF Ownership, PoolOwnsSockets
<1>4. QED BY <1>1, <1>2, <1>3, Types

LEMMA AtOneOp ==
    ASSUME IInv, WireInv, IInv', NEW o \in ops, waiter.pc = "wait",
           UNCHANGED <<sched, pool, wconns, notifiers>>,
           \A q \in Requests \ {o.ctx} : ctx'[q] = ctx[q],
           ctx'[o.ctx].wConn = ctx[o.ctx].wConn,
           \A c \in Conns \ {o.conn} : socks'[c] = socks[c],
           Len(socks'[o.conn].sent) <= 1,
           waiter'.pc # "wait" => waiter'.cur = o.ctx,
           waiter'.pc = "retry" => Blank(ctx'[o.ctx]),
           waiter'.pc = "complete" => ctx'[o.ctx].disconnected \/ Ready(socks'[o.conn]),
           \A p \in ops' : \/ p \in ops \ {o}
                           \/ /\ p.op = "read" /\ p.ctx = o.ctx /\ p.conn = o.conn
                              /\ Reads(o.ctx, ctx'[o.ctx], socks'[o.conn]),
           \A i \in DOMAIN ctx'[o.ctx].respHeader : ctx'[o.ctx].respHeader[i].of = o.ctx,
           \A i \in DOMAIN ctx'[o.ctx].respData : ctx'[o.ctx].respData[i].of = o.ctx
    PROVE  WireInv'
<1>1. QueueInv /\ Ownership /\ notifiers = {}
  BY DEF IInv, WireInv
<1>2. PICK w : w = ctx[o.ctx].wConn
  OBVIOUS
<1>3. /\ o.ctx \in Requests /\ w \in Pooled /\ w \in WConns /\ wconns[w].conn = o.conn
      /\ o.conn \in Conns
      /\ wconns[w].requestList # <<>> /\ Head(wconns[w].requestList) = o.ctx
      /\ \A p \in ops \ {o} : p.ctx \in Requests \ {o.ctx} /\ p.conn \in Conns \ {o.conn}
  BY <1>2, OpAlone
<1>4. InTheLibrary'
  <2>1. SUFFICES ASSUME NEW p \in ops'
                 PROVE  IF p.op = "write" THEN Blank(ctx'[p.ctx]) /\ Ready(socks'[p.conn])
                        ELSE Reads(p.ctx, ctx'[p.ctx], socks'[p.conn])
    BY DEF InTheLibrary
  <2>2. CASE p \in ops \ {o}
    <3>1. ctx'[p.ctx] = ctx[p.ctx] /\ socks'[p.conn] = socks[p.conn]
      BY <1>3, <2>2
    <3>2. IF p.op = "write" THEN Blank(ctx[p.ctx]) /\ Ready(socks[p.conn])
          ELSE Reads(p.ctx, ctx[p.ctx], socks[p.conn])
      BY <2>2 DEF WireInv, InTheLibrary
    <3>3. QED BY <3>1, <3>2
  <2>3. CASE p \notin ops \ {o}
    <3>1. /\ p.op = "read" /\ p.ctx = o.ctx /\ p.conn = o.conn
          /\ Reads(o.ctx, ctx'[o.ctx], socks'[o.conn])
      BY <2>1, <2>3
    <3>2. QED BY <3>1
  <2>4. QED BY <2>2, <2>3
<1>5. Unread'
  <2>1. \A q \in Requests : ctx'[q].wConn = NoWConn => Blank(ctx'[q])
    <3>1. w # NoWConn
      BY <1>1, <1>3, Types
    <3>2. QED BY <1>2, <3>1 DEF WireInv, Unread
  <2>2. ASSUME NEW u \in WConns, NEW i \in DOMAIN wconns[u].requestList, i > 1
        PROVE  Blank(ctx'[wconns[u].requestList[i]])
    <3>1. PICK q \in Requests : q = wconns[u].requestList[i]
      BY <1>1, <2>2, Types
    <3>2. Blank(ctx[q])
      BY <2>2, <3>1 DEF WireInv, Unread
    <3>3. q # o.ctx
      <4>1. SUFFICES ASSUME q = o.ctx PROVE FALSE
        OBVIOUS
      <4>2. u = w
        <5>1. ctx[wconns[u].requestList[i]].wConn = u
          BY <1>1, <2>2 DEF QueueInv, ListsOwned
        <5>2. QED BY <1>2, <3>1, <4>1, <5>1
      <4>3. PICK list \in Seq(Requests) : list = wconns[w].requestList
        BY <1>1, <1>3, Types
      <4>4. 1 \in DOMAIN list /\ list[1] = o.ctx
        BY <1>3, <4>3
      <4>5. 1 = i
        <5>1. \A j, k \in DOMAIN list : list[j] = list[k] => j = k
          BY <1>1, <1>3, <4>3 DEF Ownership, ListsOnce
        <5>2. i \in DOMAIN list /\ list[i] = o.ctx
          BY <2>2, <3>1, <4>1, <4>2, <4>3
        <5>3. QED BY <4>4, <5>1, <5>2
      <4>6. QED BY <2>2, <4>5
    <3>4. QED BY <3>1, <3>2, <3>3
  <2>3. waiter'.pc = "retry" => Blank(ctx'[waiter'.cur])
    OBVIOUS
  <2>4. QED BY <2>1, <2>2, <2>3 DEF Unread
<1>6. ReadyNext'
  <2>1. ASSUME NEW q \in Requests, Reported(q)', ~ctx'[q].disconnected
        PROVE  Ready(socks'[wconns'[ctx'[q].wConn].conn])
    <3>1. CASE q = o.ctx
      <4>1. waiter'.pc = "complete"
        <5>1. ~AtWork(q)
          BY <1>1, <3>1 DEF AtWork, QueueInv, SchedulerAtWork, Ownership, OneReport
        <5>2. QED BY <2>1, <5>1 DEF Reported, AtWork
      <4>2. QED BY <1>2, <1>3, <2>1, <3>1, <4>1
    <3>2. CASE q # o.ctx
      <4>1. Reported(q) /\ ctx'[q] = ctx[q]
        BY <2>1, <3>2 DEF Reported, AtWork
      <4>2. ctx[q].wConn \in WConns \ {w} /\ wconns[ctx[q].wConn].conn \in Conns \ {o.conn}
        BY <1>3, <3>2, <4>1, Elsewhere
      <4>3. Ready(socks[wconns[ctx[q].wConn].conn])
        BY <2>1, <4>1 DEF WireInv, ReadyNext
      <4>4. QED BY <4>1, <4>2, <4>3
    <3>3. QED BY <3>1, <3>2
  <2>2. ASSUME NEW u \in Pooled, wconns[u].requestList = <<>>
        PROVE  Ready(socks'[wconns[u].conn])
    <3>1. u # w
      BY <1>3, <2>2
    <3>2. wconns[u].conn \in Conns \ {o.conn}
      BY <1>3, <3>1, Elsewhere
    <3>3. Ready(socks[wconns[u].conn])
      BY <2>2 DEF WireInv, ReadyNext
    <3>4. QED BY <3>2, <3>3
  <2>3. Pooled' = Pooled
    BY DEF Pooled
  <2>4. QED BY <2>1, <2>2, <2>3 DEF ReadyNext
<1>7. OwnBytes' /\ OneOutstanding'
  <2>1. OwnBytes'
    BY <1>3 DEF WireInv, OwnBytes
  <2>2. OneOutstanding'
    BY <1>3 DEF WireInv, OneOutstanding
  <2>3. QED BY <2>1, <2>2
<1>8. QED BY <1>1, <1>4, <1>5, <1>6, <1>7 DEF WireInv

\* The tokens of a response that is not misframed: a header, and a body in one
\* piece or none.
LEMMA ResponseTokens ==
    ASSUME NEW r \in Requests, NEW k \in Kinds, k \notin Misframed
    PROVE  \E h \in Token, p \in Token :
             /\ h = [of |-> r, part |-> "header", kind |-> k] /\ p.of = r
             /\ Response(r, k) = IF k \in Bodiless THEN <<h>> ELSE <<h, p>>
             /\ Head(Response(r, k)) = h
             /\ BodyTokens(r, k) = IF k \in Bodiless THEN <<>> ELSE <<p>>
<1>1. PICK h \in Token, p \in Token : /\ h = [of |-> r, part |-> "header", kind |-> k]
                                      /\ p = [of |-> r, part |-> "body", kind |-> k]
  BY DEF Token
<1>2. Response(r, k) = IF k \in Bodiless THEN <<h>> ELSE <<h, p>>
  BY <1>1 DEF Response, Misframed
<1>3. /\ Head(<<h>>) = h /\ Tail(<<h>>) = <<>>
      /\ Head(<<h, p>>) = h /\ Tail(<<h, p>>) = <<p>>
  OBVIOUS
<1>4. p.of = r
  BY <1>1
<1>5. QED BY <1>1, <1>2, <1>3, <1>4 DEF BodyTokens

\* A body in one piece is read whole or not at all.
LEMMA BodyPieces ==
    ASSUME NEW p \in Token, NEW b, b = <<>> \/ b = <<p>>,
           NEW got \in Seq(Token), NEW left \in Seq(Token), got \o left = b
    PROVE  {got, left} \subseteq {<<>>, b} /\ (got = <<>> \/ left = <<>>)
<1>1. Len(got \o left) = Len(got) + Len(left) /\ Len(got) \in Nat /\ Len(left) \in Nat
  OBVIOUS
<1>2. Len(b) <= 1
  <2>1. Len(<<>>) <= 1 /\ Len(<<p>>) <= 1
    OBVIOUS
  <2>2. QED BY <2>1
<1>3. got = <<>> \/ left = <<>>
  BY <1>1, <1>2
<1>4. got = <<>> => got \o left = left
  OBVIOUS
<1>5. left = <<>> => got \o left = got
  OBVIOUS
<1>6. QED BY <1>3, <1>4, <1>5

\* What comes first of what is read, and what is left then.
LEMMA FirstOf ==
    ASSUME NEW got \in Seq(Token), NEW left \in Seq(Token), got # <<>>
    PROVE  \E first \in Token, rest \in Seq(Token) :
             /\ first = Head(got) /\ rest = Tail(got)
             /\ first = Head(got \o left) /\ rest \o left = Tail(got \o left)
<1>1. PICK first \in Token, rest \in Seq(Token) : first = Head(got) /\ rest = Tail(got)
  <2>1. Head(got) \in Token /\ Tail(got) \in Seq(Token)
    OBVIOUS
  <2>2. QED BY <2>1
<1>2. Head(got \o left) = first
  BY <1>1
<1>3. Tail(got \o left) = rest \o left
  <2>1. got = <<first>> \o rest
    BY <1>1
  <2>2. (<<first>> \o rest) \o left = <<first>> \o (rest \o left)
    OBVIOUS
  <2>3. rest \o left \in Seq(Token)
    OBVIOUS
  <2>4. \A v \in Seq(Token) : Tail(<<first>> \o v) = v
    OBVIOUS
  <2>5. QED BY <2>1, <2>2, <2>3, <2>4
<1>4. QED BY <1>1, <1>2, <1>3

Own(r, bytes) == \A i \in DOMAIN bytes : bytes[i].of = r

\* What is made of what was read for r: bytes of its own, and more to read from
\* socket t, or a socket that is ready or to be replaced.
Sound(r, c, t, p) ==
    /\ p.ctx \in Ctx /\ p.ctx.wConn = c.wConn
    /\ Own(r, p.ctx.respHeader) /\ Own(r, p.ctx.respData)
    /\ p.verdict = "again" => Reads(r, p.ctx, t)
    /\ p.verdict # "again" => p.ctx.disconnected \/ Ready(t)

LEMMA BodySound ==
    ASSUME NEW r \in Requests, NEW k \in Kinds, k \notin Misframed, NEW c \in Ctx, NEW t, NEW e,
           c.protoState = "body", c.respHeader = <<Head(Response(r, k))>>, Own(r, c.respData),
           e = "nil" \/ c.disconnected, t.sent = <<>>,
           {c.buffer, t.wire} \subseteq {<<>>, BodyTokens(r, k)}, c.buffer = <<>> \/ t.wire = <<>>
    PROVE  Sound(r, c, t, procBody(c, e))
<1>1. PICK h \in Token, p \in Token :
         /\ h = [of |-> r, part |-> "header", kind |-> k] /\ p.of = r
         /\ Head(Response(r, k)) = h
         /\ BodyTokens(r, k) = IF k \in Bodiless THEN <<>> ELSE <<p>>
  BY ResponseTokens
<1>2. c.respHeader = <<h>> /\ Head(c.respHeader).kind = k /\ h.of = r
  BY <1>1
<1>3. Own(r, c.respHeader)
  BY <1>2 DEF Own
<1>4. Reads(r, c, t)
  BY DEF Reads
<1>5. c.buffer = <<>> \/ c.buffer = <<p>>
  BY <1>1
<1>6. CASE HasResponse(c, e)
  <2>1. c.disconnected \/ Ready(t)
    <3>1. CASE k = "zero"
      BY <1>1, <3>1 DEF Ready, Bodiless
    <3>2. CASE e = "EOF"
      BY <3>2
    <3>3. CASE k # "zero" /\ e # "EOF"
      <4>1. c.buffer # <<>>
        BY <1>2, <1>6, <3>3 DEF HasResponse
      <4>2. QED BY <4>1 DEF Ready
    <3>4. QED BY <3>1, <3>2, <3>3
  <2>2. PICK b : b = Body(c)
    OBVIOUS
  <2>3. b = <<>> \/ b = <<p>>
    <3>1. CASE k \in {"length", "close"}
      <4>1. b = <<Head(c.buffer)>> /\ c.buffer # <<>>
        BY <1>2, <1>6, <2>2, <3>1 DEF Body, HasResponse, UntilEOF, Chunked
      <4>2. QED BY <1>5, <4>1
    <3>2. CASE k \notin {"length", "close"}
      BY <1>2, <1>5, <2>2, <3>2 DEF Body
    <3>3. QED BY <3>1, <3>2
  <2>4. b \in Seq(Token) /\ Own(r, b)
    <3>1. <<>> \in Seq(Token) /\ <<p>> \in Seq(Token) /\ Own(r, <<>>) /\ Own(r, <<p>>)
      BY <1>1 DEF Own
    <3>2. QED BY <2>3, <3>1
  <2>5. PICK d : d = [c EXCEPT !.respData = b]
    OBVIOUS
  <2>6. procBody(c, e).ctx = d /\ procBody(c, e).verdict = "complete"
    BY <1>6, <2>2, <2>5 DEF procBody
  <2>7. /\ d \in Ctx /\ d.wConn = c.wConn /\ d.respHeader = c.respHeader /\ d.respData = b
        /\ d.disconnected = c.disconnected
    BY <2>4, <2>5 DEF Ctx
  <2>8. QED BY <1>3, <2>1, <2>4, <2>6, <2>7 DEF Sound
<1>7. CASE ~HasResponse(c, e)
  <2>1. procBody(c, e) = [ctx |-> c, verdict |-> IF e = "nil" THEN "again" ELSE "fail"]
    BY <1>7 DEF procBody
  <2>2. QED BY <1>3, <1>4, <2>1 DEF Sound
<1>8. QED BY <1>6, <1>7

\* The header is looked for in what has been read, got.
LEMMA HeaderSound ==
    ASSUME Misframed \cap Kinds = {},
           NEW r \in Requests, NEW c \in Ctx, NEW s \in Socket, NEW t, NEW e,
           NEW got \in Seq(Token), NEW left \in Seq(Token),
           c.protoState = "header", c.buffer = got, e = "nil" \/ c.disconnected,
           Own(r, c.respHeader), Own(r, c.respData),
           s.wire = got \o left, t.wire = left, t.sent = s.sent,
           Begins(r, s.wire), s.sent = <<>> \/ (s.sent = <<r>> /\ s.wire = <<>>)
    PROVE  Sound(r, c, t, procHeader(c, e))
<1>1. CASE got = <<>>
  <2>1. left = s.wire
    BY <1>1
  <2>2. Reads(r, c, t)
    BY <1>1, <2>1 DEF Reads, Blank
  <2>3. procHeader(c, e) = [ctx |-> c, verdict |-> IF e = "nil" THEN "again" ELSE "fail"]
    BY <1>1 DEF procHeader
  <2>4. QED BY <2>2, <2>3 DEF Sound
<1>2. CASE got # <<>>
  <2>1. s.wire # <<>>
    BY <1>2
  <2>2. PICK k \in Kinds : s.wire = Response(r, k)
    BY <2>1 DEF Begins
  <2>3. s.sent = <<>> /\ k \notin Misframed
    BY <2>1
  <2>4. PICK h \in Token, p \in Token :
           /\ h = [of |-> r, part |-> "header", kind |-> k] /\ p.of = r
           /\ Response(r, k) = IF k \in Bodiless THEN <<h>> ELSE <<h, p>>
           /\ Head(Response(r, k)) = h
           /\ BodyTokens(r, k) = IF k \in Bodiless THEN <<>> ELSE <<p>>
    BY <2>3, ResponseTokens
  <2>5. /\ Head(got) = h /\ Tail(got) \in Seq(Token)
        /\ {Tail(got), left} \subseteq {<<>>, BodyTokens(r, k)}
        /\ Tail(got) = <<>> \/ left = <<>>
    <3>1. PICK first \in Token, rest \in Seq(Token) :
             /\ first = Head(got) /\ rest = Tail(got)
             /\ first = Head(got \o left) /\ rest \o left = Tail(got \o left)
      BY <1>2, FirstOf
    <3>2. PICK b : b = BodyTokens(r, k)
      OBVIOUS
    <3>3. first = h /\ rest \o left = b /\ (b = <<>> \/ b = <<p>>)
      BY <2>2, <2>4, <3>1, <3>2 DEF BodyTokens
    <3>4. {rest, left} \subseteq {<<>>, b} /\ (rest = <<>> \/ left = <<>>)
      BY <3>3, BodyPieces
    <3>5. QED BY <3>1, <3>2, <3>3, <3>4
  <2>6. h.part = "header" /\ h.kind = k /\ h.of = r
    BY <2>4
  <2>7. \E i \in DOMAIN c.buffer : EndsHeader(c.buffer[i])
    <3>1. 1 \in DOMAIN got /\ got[1] = h
      BY <1>2, <2>5
    <3>2. QED BY <2>6, <3>1 DEF EndsHeader
  <2> DEFINE d == [c EXCEPT !.respHeader = <<h>>,
                            !.disconnected = @ \/ ConnectionClose(h.kind),
                            !.buffer = Tail(@), !.protoState = "body"]
  <2>8. CASE k \in Refused
    <3>1. procHeader(c, e) = [ctx |-> c, verdict |-> "fail"]
      BY <2>5, <2>6, <2>7, <2>8 DEF procHeader
    <3>2. left = <<>>
      BY <2>3, <2>4, <2>5, <2>8 DEF Refused, Misframed, Bodiless
    <3>3. Ready(t)
      BY <2>3, <3>2 DEF Ready
    <3>4. QED BY <3>1, <3>3 DEF Sound
  <2>9. CASE k \notin Refused
    <3>1. procHeader(c, e) = procBody(d, e)
      BY <2>5, <2>6, <2>7, <2>9 DEF procHeader
    <3>2. PICK m \in BOOLEAN, v \in Seq(Token), l \in Seq(Token) :
             m = (c.disconnected \/ ConnectionClose(h.kind)) /\ v = Tail(got) /\ l = <<h>>
      <4>1. (c.disconnected \/ ConnectionClose(h.kind)) \in BOOLEAN
        OBVIOUS
      <4>2. <<h>> \in Seq(Token)
        OBVIOUS
      <4>3. QED BY <2>5, <4>1, <4>2
    <3>3. d = [c EXCEPT !.respHeader = l, !.disconnected = m, !.buffer = v, !.protoState = "body"]
      BY <3>2 DEF Ctx
    <3> HIDE DEF d
    <3>4. /\ d \in Ctx /\ d.protoState = "body" /\ d.buffer = v /\ d.respHeader = l
          /\ d.respData = c.respData /\ d.wConn = c.wConn /\ d.disconnected = m
      BY <3>3 DEF Ctx
    <3>5. Sound(r, d, t, procBody(d, e))
      BY <2>3, <2>4, <2>5, <3>2, <3>4, BodySound
    <3>6. QED BY <3>1, <3>4, <3>5 DEF Sound
  <2>10. QED BY <2>8, <2>9
<1>3. QED BY <1>1, <1>2

\* A read of what is in front of a wire.
LEMMA ReadWire ==
    ASSUME IInv, WireInv, IInv', "submit" \notin Faults, Misframed \cap Kinds = {},
           NEW o \in ops, o.op = "read", waiter.pc = "wait",
           NEW got \in Seq(Token), NEW e, ReadResult(o, got, e), e = "nil" \/ Breaks(e),
           \A c \in Conns \ {o.conn} : socks'[c] = socks[c],
           socks[o.conn].wire = got \o socks'[o.conn].wire,
           socks'[o.conn].sent = socks[o.conn].sent
    PROVE  WireInv'
<1>1. QueueInv /\ QueueInv' /\ ctx \in [Requests -> Ctx]
  BY Types DEF IInv
<1>2. PICK r \in Requests : r = o.ctx
  BY <1>1, Types
<1>3. PICK s \in Socket, t \in Socket : s = socks[o.conn] /\ t = socks'[o.conn]
  BY <1>1, Types DEF QueueInv, TypeOK
<1>4. PICK x \in Ctx : x = ctx[r]
  BY <1>1
<1>5. PICK b \in Seq(Token), left \in Seq(Token) : b = x.buffer /\ left = t.wire
  BY <1>4 DEF Ctx, Socket
<1>6. Reads(r, x, s) /\ Own(r, x.respHeader) /\ Own(r, x.respData) /\ Len(s.sent) <= 1
  <2>1. o.conn \in Conns
    BY <1>1, Types
  <2>2. Reads(r, x, s)
    BY <1>2, <1>3, <1>4 DEF WireInv, InTheLibrary
  <2>3. Own(r, x.respHeader) /\ Own(r, x.respData) /\ Len(s.sent) <= 1
    BY <1>3, <1>4, <2>1 DEF WireInv, OwnBytes, Own, OneOutstanding
  <2>4. QED BY <2>2, <2>3
<1>7. PICK c : c = [x EXCEPT !.buffer = @ \o got, !.disconnected = @ \/ Breaks(e)]
  OBVIOUS
<1>8. /\ c \in Ctx /\ c.buffer = b \o got /\ (Breaks(e) => c.disconnected)
      /\ c.protoState = x.protoState /\ c.wConn = x.wConn
      /\ c.respHeader = x.respHeader /\ c.respData = x.respData
  <2>1. PICK v \in Seq(Token), m \in BOOLEAN : v = b \o got /\ m = (x.disconnected \/ Breaks(e))
    <3>1. (x.disconnected \/ Breaks(e)) \in BOOLEAN
      OBVIOUS
    <3>2. b \o got \in Seq(Token)
      OBVIOUS
    <3>3. QED BY <3>1, <3>2
  <2>2. c = [x EXCEPT !.buffer = v, !.disconnected = m]
    BY <1>5, <1>7, <2>1 DEF Ctx
  <2>3. QED BY <2>1, <2>2 DEF Ctx
<1>9. PICK p : p = IF c.protoState = "header" THEN procHeader(c, e) ELSE procBody(c, e)
  OBVIOUS
<1>10. Sound(r, c, t, p)
  <2>0. e = "nil" \/ c.disconnected
    BY <1>8
  <2>1. CASE Blank(x)
    <3>1. Begins(r, s.wire) /\ (s.sent = <<>> \/ (s.sent = <<r>> /\ s.wire = <<>>))
      BY <1>6, <2>1 DEF Reads, Blank
    <3>2. c.protoState = "header" /\ c.buffer = got /\ p = procHeader(c, e)
      BY <1>5, <1>8, <1>9, <2>1 DEF Blank
    <3>3. s.wire = got \o left /\ t.wire = left /\ t.sent = s.sent
      BY <1>3, <1>5
    <3>4. QED BY <1>6, <1>8, <2>0, <3>1, <3>2, <3>3, HeaderSound
  <2>2. CASE ~Blank(x)
    <3>1. PICK k \in Kinds : /\ x.respHeader = <<Head(Response(r, k))>>
                             /\ {b, s.wire} \subseteq {<<>>, BodyTokens(r, k)}
                             /\ b = <<>> \/ s.wire = <<>>
                             /\ x.protoState = "body" /\ s.sent = <<>>
      BY <1>5, <1>6, <2>2 DEF Reads
    <3>2. PICK q \in Token : BodyTokens(r, k) = <<>> \/ BodyTokens(r, k) = <<q>>
      BY ResponseTokens
    <3>3. got \o left = s.wire
      BY <1>3, <1>5
    <3>4. {got, left} \subseteq {<<>>, s.wire} /\ (got = <<>> \/ left = <<>>)
      <4>1. PICK u : u = s.wire
        OBVIOUS
      <4>2. u = <<>> \/ u = <<q>>
        BY <3>1, <3>2, <4>1
      <4>3. {got, left} \subseteq {<<>>, u} /\ (got = <<>> \/ left = <<>>)
        BY <3>3, <4>1, <4>2, BodyPieces
      <4>4. QED BY <4>1, <4>3
    <3>5. c.buffer = b \/ c.buffer = got
      <4>1. got = <<>> => b \o got = b
        OBVIOUS
      <4>2. b = <<>> => b \o got = got
        OBVIOUS
      <4>3. QED BY <1>8, <3>1, <3>4, <4>1, <4>2
    <3>6. {c.buffer, left} \subseteq {<<>>, BodyTokens(r, k)} /\ (c.buffer = <<>> \/ left = <<>>)
      <4>1. CASE s.wire = <<>>
        BY <3>1, <3>4, <3>5, <4>1
      <4>2. CASE s.wire # <<>>
        <5>1. b = <<>> /\ c.buffer = got
          BY <1>8, <3>1, <4>2
        <5>2. QED BY <3>1, <3>4, <5>1
      <4>3. QED BY <4>1, <4>2
    <3>7. p = procBody(c, e) /\ t.wire = left /\ t.sent = <<>>
      BY <1>3, <1>5, <1>8, <1>9, <3>1
    <3>8. QED BY <1>6, <1>8, <2>0, <3>1, <3>6, <3>7, BodySound
  <2>3. QED BY <2>1, <2>2
<1>11. /\ UNCHANGED <<sched, pool, wconns, notifiers>>
       /\ \/ /\ p.verdict = "again" /\ ops' = ops /\ ctx' = [ctx EXCEPT ![r] = p.ctx]
             /\ UNCHANGED waiter
          \/ /\ p.verdict # "again" /\ ops' = ops \ {o} /\ waiter' = Blocked("complete", r)
             /\ \/ ctx' = [ctx EXCEPT ![r] = p.ctx]
                \/ ctx' = [ctx EXCEPT ![r] = [p.ctx EXCEPT !.err = TRUE]]
  BY Zenon, <1>2, <1>4, <1>7, <1>9 DEF ReadResult
<1>12. /\ SameWire(p.ctx, ctx'[r])
       /\ \A q \in Requests \ {r} : ctx'[q] = ctx[q]
  <2>1. PICK d : d = [p.ctx EXCEPT !.err = TRUE]
    OBVIOUS
  <2>2. SameWire(p.ctx, p.ctx) /\ SameWire(p.ctx, d)
    BY <1>10, <2>1 DEF Sound, Ctx, SameWire, SameReading, SameBytes
  <2>3. QED BY <1>1, <1>11, <2>1, <2>2
<1>13. /\ ctx'[r].wConn = ctx[r].wConn
       /\ Own(r, ctx'[r].respHeader) /\ Own(r, ctx'[r].respData)
       /\ p.verdict = "again" => Reads(r, ctx'[r], t)
       /\ p.verdict # "again" => ctx'[r].disconnected \/ Ready(t)
  BY <1>4, <1>8, <1>10, <1>12 DEF Sound, SameWire, SameReading, SameBytes, Reads, Blank
<1>14. /\ waiter'.pc # "wait" => waiter'.cur = r /\ waiter'.pc = "complete" /\ p.verdict # "again"
       /\ \A q \in ops' : q \in ops \ {o} \/ (q = o /\ p.verdict = "again")
  BY <1>11 DEF Blocked
<1>15. waiter'.pc # "retry"
  BY <1>14
<1>16. \A q \in ops' : \/ q \in ops \ {o}
                        \/ /\ q.op = "read" /\ q.ctx = o.ctx /\ q.conn = o.conn
                           /\ Reads(o.ctx, ctx'[o.ctx], socks'[o.conn])
  BY <1>2, <1>3, <1>13, <1>14
<1>17. /\ \A i \in DOMAIN ctx'[o.ctx].respHeader : ctx'[o.ctx].respHeader[i].of = o.ctx
       /\ \A i \in DOMAIN ctx'[o.ctx].respData : ctx'[o.ctx].respData[i].of = o.ctx
  BY <1>2, <1>13 DEF Own
<1>18. waiter'.pc = "complete" => ctx'[o.ctx].disconnected \/ Ready(socks'[o.conn])
  BY <1>2, <1>3, <1>13, <1>14
<1>19. Len(socks'[o.conn].sent) <= 1
  BY <1>3, <1>6
<1>20. QED BY <1>2, <1>11, <1>12, <1>13, <1>14, <1>15, <1>16, <1>17, <1>18, <1>19, AtOneOp

\* The request has been written: its response is awaited on a socket that is
\* otherwise ready.
LEMMA WriteDoneWire ==
    ASSUME IInv, WireInv, IInv', "submit" \notin Faults, NEW o \in ops, WriteDone(o)
    PROVE  WireInv'
<1>1. QueueInv /\ socks \in [Conns -> Socket] /\ o \in Op /\ o.ctx \in Requests /\ o.conn \in Conns
  BY Types DEF IInv
<1>2. PICK n : n = [o EXCEPT !.op = "read"]
  OBVIOUS
<1>3. /\ waiter.pc = "wait" /\ o.op = "write"
      /\ UNCHANGED <<ctx, sched, pool, wconns, notifiers, waiter>>
      /\ socks' = IF socks[o.conn].eof THEN socks
                  ELSE [socks EXCEPT ![o.conn].sent = Append(@, o.ctx)]
      /\ ops' = (ops \ {o}) \cup {n}
  BY <1>2 DEF WriteDone
<1>4. n.op = "read" /\ n.ctx = o.ctx /\ n.conn = o.conn
  BY <1>1, <1>2 DEF Op
<1>5. PICK r \in Requests : r = o.ctx
  BY <1>1
<1>6. PICK s \in Socket : s = socks[o.conn]
  BY <1>1
<1>7. Blank(ctx[r]) /\ Ready(s)
  BY <1>3, <1>5, <1>6 DEF WireInv, InTheLibrary
<1>8. PICK t : t = socks'[o.conn]
  OBVIOUS
<1>9. t.wire = s.wire /\ (t.sent = <<>> \/ t.sent = <<r>>)
  <2>1. CASE s.eof
    BY <1>3, <1>6, <1>7, <1>8, <2>1 DEF Ready
  <2>2. CASE ~s.eof
    <3>1. Append(s.sent, r) = <<r>>
      BY <1>7 DEF Ready
    <3>2. t = [s EXCEPT !.sent = <<r>>]
      BY <1>1, <1>3, <1>5, <1>6, <1>8, <2>2, <3>1
    <3>3. QED BY <3>2 DEF Socket
  <2>3. QED BY <2>1, <2>2
<1>10. Reads(r, ctx[r], t)
  BY <1>7, <1>9 DEF Ready, Reads, Begins
<1>11. \A p \in ops' : \/ p \in ops \ {o}
                       \/ /\ p.op = "read" /\ p.ctx = o.ctx /\ p.conn = o.conn
                          /\ Reads(o.ctx, ctx'[o.ctx], socks'[o.conn])
  BY <1>3, <1>4, <1>5, <1>8, <1>10
<1>12. Len(t.sent) <= 1
  <2>1. Len(<<>>) <= 1 /\ Len(<<r>>) <= 1
    OBVIOUS
  <2>2. QED BY <1>9, <2>1
<1>13. \A c \in Conns \ {o.conn} : socks'[c] = socks[c]
  BY <1>1, <1>3
<1>14. /\ \A i \in DOMAIN ctx'[o.ctx].respHeader : ctx'[o.ctx].respHeader[i].of = o.ctx
       /\ \A i \in DOMAIN ctx'[o.ctx].respData : ctx'[o.ctx].respData[i].of = o.ctx
  BY <1>1, <1>3 DEF WireInv, OwnBytes
<1>15. QED BY <1>3, <1>8, <1>11, <1>12, <1>13, <1>14, AtOneOp

\* A write fails: its connection is broken, and nothing was read for it.
LEMMA WriteFailedWire ==
    ASSUME IInv, WireInv, IInv', NEW o \in ops, WriteFailed(o)
    PROVE  WireInv'
<1>1. QueueInv /\ ctx \in [Requests -> Ctx] /\ o.ctx \in Requests /\ o.conn \in Conns
  BY Types DEF IInv
<1>2. PICK r \in Requests : r = o.ctx
  BY <1>1
<1>3. PICK m, pc, d :
         /\ ctx' = [ctx EXCEPT ![r] = d] /\ d = [ctx[r] EXCEPT !.disconnected = TRUE, !.err = m]
         /\ waiter' = Blocked(pc, r)
  <2>1. PICK m : m = (ctx[r].err \/ ~(ctx[r].retries < MaxRetry))
    OBVIOUS
  <2>2. PICK pc : pc = IF ctx[r].retries < MaxRetry THEN "retry" ELSE "complete"
    OBVIOUS
  <2>3. ctx' = [ctx EXCEPT ![r] = [ctx[r] EXCEPT !.disconnected = TRUE, !.err = m]]
    BY <1>1, <1>2, <2>1 DEF WriteFailed
  <2>4. waiter' = Blocked(pc, r)
    BY <1>2, <2>2 DEF WriteFailed
  <2>5. QED BY <2>3, <2>4
<1>4. /\ waiter.pc = "wait" /\ o.op = "write" /\ ops' = ops \ {o}
      /\ UNCHANGED <<sched, pool, wconns, notifiers, socks>>
  BY DEF WriteFailed
<1>5. d.disconnected = TRUE /\ SameReading(ctx[r], d) /\ SameBytes(ctx[r], d) /\ d.wConn = ctx[r].wConn
  BY <1>1, <1>3 DEF Ctx, SameReading, SameBytes
<1>6. ctx'[r] = d /\ \A q \in Requests \ {r} : ctx'[q] = ctx[q]
  BY <1>1, <1>3
<1>7. Blank(ctx'[r])
  BY <1>2, <1>4, <1>5, <1>6 DEF WireInv, InTheLibrary, Blank, SameReading
<1>8. /\ \A i \in DOMAIN ctx'[o.ctx].respHeader : ctx'[o.ctx].respHeader[i].of = o.ctx
      /\ \A i \in DOMAIN ctx'[o.ctx].respData : ctx'[o.ctx].respData[i].of = o.ctx
  BY <1>2, <1>5, <1>6 DEF WireInv, OwnBytes, SameBytes
<1>9. Len(socks'[o.conn].sent) <= 1
  BY <1>1, <1>4 DEF WireInv, OneOutstanding
<1>10. waiter'.cur = r
  BY <1>3 DEF Blocked
<1>11. QED BY <1>2, <1>4, <1>5, <1>6, <1>7, <1>8, <1>9, <1>10, AtOneOp

LEMMA SplitWire ==
    ASSUME NEW wire \in Seq(Token), NEW n \in 1 .. Len(wire)
    PROVE  wire = SubSeq(wire, 1, n) \o SubSeq(wire, n + 1, Len(wire))
<1>1. PICK m \in Nat : m = Len(wire) /\ n \in 1 .. m
  OBVIOUS
<1>2. PICK a \in Seq(Token), b \in Seq(Token) : a = SubSeq(wire, 1, n) /\ b = SubSeq(wire, n + 1, m)
  <2>1. SubSeq(wire, 1, n) \in Seq(Token) /\ SubSeq(wire, n + 1, m) \in Seq(Token)
    BY <1>1
  <2>2. QED BY <2>1
<1>3. /\ Len(a) = n /\ \A i \in 1 .. n : a[i] = wire[i]
      /\ Len(b) = m - n /\ \A i \in 1 .. m - n : b[i] = wire[n + i]
  BY <1>1, <1>2
<1>4. /\ a \o b \in Seq(Token) /\ Len(a \o b) = Len(a) + Len(b)
      /\ \A i \in 1 .. Len(a) : (a \o b)[i] = a[i]
      /\ \A i \in Len(a) + 1 .. Len(a) + Len(b) : (a \o b)[i] = b[i - Len(a)]
  OBVIOUS
<1>5. PICK u \in Seq(Token) : u = a \o b
  BY <1>4
<1>6. Len(u) = m
  <2>1. n + (m - n) = m
    BY <1>1
  <2>2. QED BY <1>3, <1>4, <1>5, <2>1
<1>7. ASSUME NEW i \in 1 .. m PROVE u[i] = wire[i]
  <2>1. CASE i <= n
    BY <1>1, <1>3, <1>4, <1>5, <2>1
  <2>2. CASE i > n
    <3>1. i - n \in 1 .. m - n /\ n + (i - n) = i /\ i \in n + 1 .. n + (m - n)
      BY <1>1, <2>2
    <3>2. u[i] = b[i - n]
      BY <1>3, <1>4, <1>5, <3>1
    <3>3. QED BY <1>3, <3>1, <3>2
  <2>3. QED BY <1>1, <2>1, <2>2
<1>8. u = wire
  <2>1. u = [i \in 1 .. m |-> u[i]] /\ wire = [i \in 1 .. m |-> wire[i]]
    BY <1>1, <1>6
  <2>2. QED BY <1>7, <2>1
<1>9. QED BY <1>1, <1>2, <1>5, <1>8

\* A read takes the front of the wire, or nothing when it fails.
LEMMA ReadsWire ==
    ASSUME IInv, WireInv, IInv', "submit" \notin Faults, Misframed \cap Kinds = {}, NEW o \in ops,
           ReadData(o) \/ ReadEOF(o) \/ ReadTimeout(o)
    PROVE  WireInv'
<1>1. /\ QueueInv /\ socks \in [Conns -> Socket] /\ o.conn \in Conns
      /\ o.op = "read" /\ waiter.pc = "wait"
  BY Types DEF IInv, ReadData, ReadEOF, ReadTimeout
<1>2. PICK s \in Socket : s = socks[o.conn]
  BY <1>1
<1>3. PICK wire \in Seq(Token) : wire = s.wire
  BY DEF Socket
<1>4. Breaks("EOF") /\ Breaks("timeout")
  BY DEF Breaks
<1>5. CASE ReadData(o)
  <2>1. PICK n \in 1 .. Len(wire) :
           /\ socks' = [socks EXCEPT ![o.conn].wire = SubSeq(@, n + 1, Len(@))]
           /\ ReadResult(o, SubSeq(wire, 1, n), "nil")
    BY <1>2, <1>3, <1>5 DEF ReadData
  <2>2. PICK got \in Seq(Token), left \in Seq(Token) :
           /\ got = SubSeq(wire, 1, n) /\ left = SubSeq(wire, n + 1, Len(wire))
           /\ wire = got \o left
    <3>1. SubSeq(wire, 1, n) \in Seq(Token) /\ SubSeq(wire, n + 1, Len(wire)) \in Seq(Token)
      BY <2>1
    <3>2. wire = SubSeq(wire, 1, n) \o SubSeq(wire, n + 1, Len(wire))
      BY Zenon, <2>1, SplitWire
    <3>3. QED BY <3>1, <3>2
  <2>3. socks' = [socks EXCEPT ![o.conn] = [s EXCEPT !.wire = left]]
    BY Zenon, <1>2, <1>3, <2>1, <2>2
  <2>4. /\ socks'[o.conn].wire = left /\ socks'[o.conn].sent = s.sent
        /\ \A c \in Conns \ {o.conn} : socks'[c] = socks[c]
    BY <1>1, <2>3 DEF Socket
  <2>5. socks[o.conn].wire = got \o socks'[o.conn].wire
    BY Zenon, <1>2, <1>3, <2>2, <2>4
  <2>6. ReadResult(o, got, "nil")
    BY <2>1, <2>2
  <2>7. QED BY <1>1, <1>2, <2>4, <2>5, <2>6, ReadWire
<1>6. CASE ReadEOF(o) \/ ReadTimeout(o)
  <2>1. PICK e : ReadResult(o, <<>>, e) /\ Breaks(e)
    BY <1>4, <1>6 DEF ReadEOF, ReadTimeout
  <2>2. socks' = socks
    BY <1>6 DEF ReadEOF, ReadTimeout
  <2>3. wire = <<>> \o wire /\ <<>> \in Seq(Token)
    OBVIOUS
  <2>4. socks[o.conn].wire = <<>> \o socks'[o.conn].wire
    BY <1>2, <1>3, <2>2, <2>3
  <2>5. QED BY <1>1, <2>1, <2>2, <2>3, <2>4, ReadWire
<1>7. QED BY <1>5, <1>6

(***************************************************************************)
(* The theorems.                                                           *)
(***************************************************************************)
\* Nothing is on the wire at the start.
LEMMA InitWire == Init => WireInv
<1> SUFFICES ASSUME Init PROVE WireInv
  OBVIOUS
<1>1. /\ \A q \in Requests : /\ ctx[q].protoState = "header" /\ ctx[q].buffer = <<>>
                             /\ ctx[q].respHeader = <<>> /\ ctx[q].respData = <<>>
      /\ \A c \in Conns : socks[c].sent = <<>>
      /\ ops = {} /\ notifiers = {} /\ waiter.pc = "wait" /\ sched.pc = "select"
      /\ \A w \in WConns : wconns[w].requestList = <<>>
      /\ Pooled = {}
  BY DEF Init, NewContext, ClosedSocket, Pooled
<1>2. InTheLibrary /\ Unread /\ ReadyNext
  BY <1>1 DEF InTheLibrary, Unread, ReadyNext, Blank, Reported, AtWork
<1>3. OwnBytes /\ OneOutstanding
  BY <1>1 DEF OwnBytes, OneOutstanding
<1>4. QED BY <1>1, <1>2, <1>3 DEF WireInv

\* Every step keeps requests and responses apart.
LEMMA NextWire ==
    ASSUME {"dial", "submit"} \cap Faults = {}, Misframed \cap Kinds = {}, IInv, WireInv, [Next]_vars
    PROVE  WireInv'
<1>1. IInv' /\ "submit" \notin Faults /\ notifiers = {}
  BY NextInv, NextOwns DEF IInv, WireInv
<1>2. CASE Agents \/ GiveUp \/ UNCHANGED vars
  BY <1>1, <1>2, StillWire
<1>3. CASE Environment
  BY <1>1, <1>3, EnvironmentWire
<1>4. CASE Scheduler
  <2>1. CASE \/ TakeNotification \/ SwapNewRequests \/ SchedRefuse \/ ResumeRefused
             \/ TakeCompleted \/ Resume \/ SchedulerExit
    BY <1>1, <2>1, StillWire
  <2>2. CASE SchedOnPool
    BY <1>1, <2>2, SchedOnPoolWire
  <2>3. CASE SchedOnDial
    BY <1>1, <2>3, SchedOnDialWire
  <2>4. CASE TakeRetry
    BY <1>1, <2>4, TakeRetryWire
  <2>5. CASE Finish
    BY <1>1, <2>5, FinishWire
  <2>6. \A r \in Requests : ~TakeNotified(r)
    BY <1>1 DEF TakeNotified
  <2>7. QED BY <1>4, <2>1, <2>2, <2>3, <2>4, <2>5, <2>6 DEF Scheduler
<1>5. CASE Waiter
  <2>1. PICK o \in ops : \/ WriteDone(o) \/ WriteFailed(o)
                         \/ ReadData(o) \/ ReadEOF(o) \/ ReadTimeout(o)
    BY <1>5 DEF Waiter
  <2>2. QED BY <1>1, <2>1, WriteDoneWire, WriteFailedWire, ReadsWire
<1>6. QED BY <1>2, <1>3, <1>4, <1>5 DEF Next

\* The inductive invariant of what is on the wire, when no dial fails, the
\* library accepts what it is given, and no service sends a response of which
\* the proxy may leave a part behind (a body after a header its parser refuses,
\* chunk data with an end in them).
THEOREM InvarianceOfTheWire ==
    ASSUME {"dial", "submit"} \cap Faults = {}, Misframed \cap Kinds = {}
    PROVE  Spec => [](IInv /\ WireInv)
<1>1. Init => IInv /\ WireInv
  BY InitInv, InitOwns, InitWire DEF IInv
<1>2. IInv /\ WireInv /\ [Next]_vars => (IInv /\ WireInv)'
  BY NextInv, NextOwns, NextWire DEF IInv
<1>3. QED BY <1>1, <1>2, PTL DEF Spec

\* A client gets the response of its own request, under those three conditions
\* (it is false without the first and without the last: ProxyLateResponse,
\* ProxyMisframed): remote services may close, leave requests unanswered, answer
\* late or in chunks of which the end is missed, and connections be shared,
\* replaced and scaled.
THEOREM ResponseIsOfTheRequest ==
    ASSUME {"dial", "submit"} \cap Faults = {}, Misframed \cap Kinds = {}
    PROVE  Spec => []OwnResponse
<1>1. IInv /\ WireInv => OwnResponse
  <2> SUFFICES ASSUME IInv, WireInv, NEW r \in Requests
               PROVE  LET bytes == ctx[r].respHeader \o ctx[r].respData
                      IN  \A i \in DOMAIN bytes : bytes[i].of = r
    BY DEF OwnResponse
  <2>1. PICK h \in Seq(Token), d \in Seq(Token) : h = ctx[r].respHeader /\ d = ctx[r].respData
    BY WireTypes DEF IInv
  <2>2. /\ \A i \in DOMAIN h : h[i].of = r
        /\ \A i \in DOMAIN d : d[i].of = r
    BY <2>1 DEF WireInv, OwnBytes
  <2> DEFINE u == h \o d
  <2>3. \A i \in DOMAIN u : \/ \E k \in DOMAIN h : u[i] = h[k]
                            \/ \E k \in DOMAIN d : u[i] = d[k]
    <3>1. \A i \in DOMAIN u : \/ i \in DOMAIN h /\ u[i] = h[i]
                              \/ i - Len(h) \in DOMAIN d /\ u[i] = d[i - Len(h)]
      OBVIOUS
    <3>2. QED BY <3>1
  <2>4. u = ctx[r].respHeader \o ctx[r].respData
    BY <2>1
  <2> HIDE DEF u
  <2>5. \A i \in DOMAIN u : u[i].of = r
    BY <2>2, <2>3
  <2>6. QED BY <2>4, <2>5
<1>2. QED BY <1>1, InvarianceOfTheWire, PTL

\* A remote service never holds two unanswered requests of one connection: what
\* the list of a connection is for, under the same conditions.
THEOREM OneRequestOnTheWire ==
    ASSUME {"dial", "submit"} \cap Faults = {}, Misframed \cap Kinds = {}
    PROVE  Spec => []OneOutstanding
<1>1. IInv /\ WireInv => OneOutstanding
  BY DEF WireInv
<1>2. QED BY <1>1, InvarianceOfTheWire, PTL
=============================================================================
