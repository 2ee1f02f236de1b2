# gogw in TLA+

Specifications of gogw, an asynchronous HTTP gateway in Go: a server whose
connections are driven by the results of an asynchronous IO library (gaio), and a
proxy that delegates requests to remote services over pooled connections.  The
modules model its concurrent parts, whose correctness rests on the order of events,
and the sequential ones they are built on: the header parser with its scanner and
operations, URIs, arguments, cookies, the configuration files.  TLC checks them on
small instances, and TLAPS proves the safety properties of the proxy, of a client
connection, of the limiter, of the websocket's frames and of the argument tables for
every value of their constants.

All paths below are relative to `src/`.

## The system

| Component | State | Operations | Interacts with |
|---|---|---|---|
| `DelegationProxy` (proxy.go) | `newRequests` under a mutex, three channels, a pool of connections per service, a `RemoteContext` per request | `Delegate`, `Close`, the scheduler goroutine, the IO goroutine, `go notifySchedulerError` | agents call `Delegate`; channels between its goroutines; gaio; `resumeFromProxy` sends to the agent |
| `weightedConnsHeap` (proxy.go) | connections ordered by queue length, with their index | `Push`, `Pop`, `Fix`, `Remove`, `totalLoad` | the scheduler only |
| `AsyncHttpProcessor` (proc.go) | a `BaseContext` per client connection | the agent goroutine: read results, write results, resumptions; `procHeader`, `procBody`, `WriteHttpRspData` | gaio, the handler, the limiter, the proxy (`chResume`) |
| WebSocket (proc.go) | a `WSMessage` per connection, three global handlers | upgrade check, `procWS`, `parseWSReq`, `maskBytes`, control frames | the agent |
| `RegexLimiter` (limiter.go) | tokens and time of each rule | `Test`, the rule file's parser | agents, of one or several servers |
| `ProxyConfig` (proxy_config.go) | rules | `Match`, the parser | handlers |
| `Server` (serve.go) | listener | `ListenAndServe` | `AddConn` |
| headers (header.go) | `RequestHeader`, `ResponseHeader`: fields, a table of other headers, cookies; the scanner's place in the buffer | parse, `Set`, `Add`, `Del`, `Peek`, `SetContentLength`, `SetConnectionClose`, cookies, `AppendBytes` | processor and proxy parse what they read, handlers change it, both write it |
| URI (uri.go) | the parts of a URI, its query parsed or not | parse, `Path`, `Update`, `AppendBytes` | the limiter and the proxy match its path |
| arguments, cookies (args.go, cookie.go) | slots of key-value pairs that are used again; a cookie | parse, peek, set, add, delete, copy, append | headers and URIs are made of them |
| byte and string tables | none | conversions | - |

What is hard here:

* *Concurrency.*  A proxied request passes through four goroutines (its agent, the
  scheduler, the IO goroutine, a notifier), three unbuffered channels and one
  channel of capacity one whose sender does not wait.
* *Failure.*  A dial, a write, a read or a submission may fail at every point; a
  failure may be reported more than once, and after the request was answered.
* *Ordering.*  Clients pipeline requests; a connection to a service is shared by
  the requests of many clients, who must each get the response of their own.
* *Deadlines.*  A response may arrive after its request was given up.
* *Boundaries.*  The pool's limit and its logarithmic growth, a count of writes that
  decides when to close, the second of the limiter.
* *Texts that are read twice.*  Bytes arrive in pieces and are scanned where the last
  scan stopped; what is parsed is changed and written for another parser, which must
  find the same body, the same cookies and the same path; buffers are used again.

What makes the components correct:

* proxy: a client is resumed once, with its own response; a connection has one
  request in flight and none is forgotten; no wake-up is lost; a socket in use is
  never freed; the pool keeps its limit; the requests for a service are answered in
  order; every request is answered;
* processor: at any time exactly one thing moves a connection on; requests and
  responses are the same sequence; the connection is closed after the last response
  and not before;
* limiter: no more requests per second than the rule says, and no fewer;
* WebSocket: a message is the unmasked concatenation of its fragments;
* heap: its root is a least loaded connection and indices agree with positions;
* headers: the end of a header is found wherever the reads cut it, the scanner finds
  every line, the parser leaves the body, and what is forwarded says to the next reader
  what was received and what the handler changed, above all where the body ends;
* URI: a path is decoded once and normal, and parsing and writing agree;
* arguments and cookies: a list of pairs, whose slots are never shared;
* configuration files: the rules of a file are its lines two by two.

## Modules

| Module | What it is |
|---|---|
| `SequentialDelegation` | abstract: what a proxy with one connection per service promises |
| `DelegationProxy` | proxy.go |
| `DelegationProxyInv`, `DelegationProxyProofs`, `DelegationProxyOrderProofs` | the inductive invariants; the theorems about the queues and who owns what; those about the order of answers and whose bytes are on a connection |
| `HttpProcessor` | the agent of proc.go and one client connection |
| `HttpProcessorInv`, `HttpProcessorProofs` | the inductive invariant, the theorems |
| `ConfigFile` | the two configuration files: limiter.go, proxy_config.go |
| `RegexLimiter` | `Test` of limiter.go, on the rules of a file |
| `RegexLimiterProofs` | the theorems |
| `WebSocket`, `WebSocketProofs` | the frames of an upgraded connection, in proc.go; the theorems |
| `Subsequence`, `SequenceLemmas` | `Only`, the elements of a sequence that are in a set; lemmas about it, induction over numbers and sequences |
| `Bytes` | bytesconv.go and its tables: numbers, case, escapes |
| `PairList` | abstract: what an `Args` object promises |
| `ArgsList` | the functions of args.go on lists of arguments |
| `ArgsTable`, `ArgsTableProofs` | args.go with the slots it uses again; the theorems |
| `Query` | args.go on bytes: scanner, decoder, encoder |
| `Uri` | uri.go |
| `Cookies` | cookie.go |
| `HeaderScanner` | the end of a header in proc.go and proxy.go; the scanner of header.go |
| `Headers` | header.go: operations, parsers, writers |
| `Messages` | composes `Headers` and `Uri`: a message is received, parsed, handled, written |
| `MessagesProofs` | the theorems about the matcher, the scanner and the arguments beside them |
| `MCDelegationProxy`, `MCHttpProcessor`, `MCRegexLimiter`, `MCWebSocket`, `MCMessages` | constants of the runs; `MCMessages` also runs `ArgsTable` beside the messages |

### DelegationProxy and the code

| Model | Code |
|---|---|
| `ctx[r]` | the `RemoteContext` of a request, with `outcome` for `proxyResponse` and `resumes` for what its client's agent has received |
| `newRequests`, `notify` | `newRequests`, the token in `chNotifyNewRequests` |
| `sched` | where `requestScheduler` is: its select, the swap of the list, the loop over the batch, the two blocking sends of `resumeFromProxy`, the rest of a completion |
| `pool`, `wconns` | the heaps (as sets), the `weightedConn` structures |
| `ops` | operations gaio has accepted |
| `waiter` | the IO goroutine, waiting or blocked on `chIORetry` or `chIOCompleted` |
| `notifiers` | goroutines started by `go notifySchedulerError` |
| `socks` | the sockets: what was written and not answered, what was answered and not read, the remote's end |

`DelegateAppend` and `DelegateNotify` are the two halves of `Delegate`.
`TakeNotification` and `SwapNewRequests` are the first case of the scheduler's
select; `SchedRefuse`, `SchedOnPool` and `SchedOnDial` are `sched`, split by what the
dial does; `TakeRetry`, `TakeCompleted` and `TakeNotified` are the receipts of the other
two channels; `Resume` and `Finish` complete a request.  `WriteDone`, `WriteFailed`,
`ReadData`, `ReadEOF` and `ReadTimeout` are the IO goroutine's handling of results.

Abstractions, all of data or of steps no other goroutine can see:

* a response is a header and at most two pieces of body, tokens that carry the request
  they answer and its shape (`Kinds`).  Of a token the code sees whether the scans find
  their flags in it (`EndsHeader`, `EndsChunks`) and whether the parser accepts it as a
  header.  Chunked bodies hold the flag that ends a header; the end of chunks is found
  where it is, before it ("early", the data contain `0\r\n\r\n`) or not at all ("late", the
  data end in 0).  What a response leaves on a socket is scanned for the next request.  A
  read returns any number of tokens, so header and body arrive together or apart;
* an unbuffered send and its receipt are one step; so are the library's execution
  of an operation and the handling of its result, but a submitted operation is
  visible (`ops`) until then;
* the heap is the set of its connections and its root any of the least loaded;
* the names of connections and sockets are reused; the runs have enough names that
  an action is never held up for want of one;
* a socket that nothing refers to is closed by the runtime (`Collect`);
* a write is seen whole by the remote or not at all, a remote answers the requests
  of a connection in order or closes it.

### HttpProcessor and the code

One connection, because connections share nothing but the agent's time and the
limiter.  `ctx` is the `BaseContext`; `pc` the function the agent is in; `reads` and
`writes` what gaio has accepted; `remote` what a proxy works on.  Each path through
`procHeader` and `procBody` is an action; reads, writes and resumptions are the
agent's events.  `asked`, `handled` and `received` are histories.  The buffer holds
tokens of requests, and the last token of a header carries the empty line: a header
may be cut anywhere, and the scan goes on where it stopped (`nextCompare`).  `matched`
says that `expectedChar` was left at the length of the flag.

`Resume` may be given any result a proxy can produce: data, data with `Connection:
close`, an error text, nothing, nothing with `Connection: close`.  Websocket frames
are in the model by what they do to the connection (`Frames`): any suffix of the
buffer is kept, any of zero to two frames are written, the connection may be marked.

### RegexLimiter, ConfigFile and the code

The rules of a limiter are what `ParseRegexLimiter` makes of a file; `ReadLine` is one
round of the loop that both parsers have, `CompleteLines` the lines the loop looks at
(what follows the last newline it does not).  A line is a record of what the parsers ask
of it: is it blank, does it compile, is it a number.  A file with a mistake has no rules
and an error, and `FirstMatch` is the search for a rule; matching is a table, `Matches`.

`Test` takes no lock, so every access to `tokens` and `lastTest` is a step: the
look at the clock, the two assignments of a refill, the comparison, the load and the
store of `tokens--`.  `window` is a history: when the second of a rule began and how
many requests passed in it.

### WebSocket and the code

One upgraded connection.  A round of the loop of `procWS`, with `parseWSReq` and the
handler inside, is one of `Refuse`, `Incomplete`, `Fragment`, `Handle` and `Control`;
`buffer` is `ctx.buffer` without what the loop has consumed (the code keeps that in a
local until `checkEnd`), and `msg` the fields of `WSMsg`.

A frame is a token for its head and one for each byte of the payload, so a read may cut
it anywhere but inside the head (where the code waits, as it does after the head).  A
byte is the place it comes from and the set of key bytes it is xored with: xor is the
symmetric difference, and a byte is unmasked when the set is empty.  `maskBytes` is what
its three loops do together; its words and alignment are left out.

`writeWSRspData` builds the head of a reply in the array of `RspHeader` and appends the
payload behind it, in that array if it fits (fourteen bytes in all).  `header` is what
the array holds, and a write marked `shared` sends that when the library takes it; that
it takes the bytes then and not at the call is an assumption about gaio.  A write that was
spoilt so is named for the frame whose bytes it begins with; that it keeps its own length
is left out.

The operator `Messages` is the reference: the messages of a sequence of frames by RFC
6455.

What closes the connection is in `HttpProcessor`; here a closed connection is one where
nothing happens any more, which matters to none of the properties.

### Messages and the code

A byte is a string of one character, a text a sequence of bytes.  Parsers are operators
from bytes to records; where a parser moves bytes in its buffer (a value of several
lines is made one in place) the operator returns what the buffer holds afterwards.

| Model | Code |
|---|---|
| `matcher`, `Match`, `Compare` | `expectedChar`, `nextCompare` and the loops of `procHeader` and `procBody` |
| `StartScan` .. `Scan` | `headerScanner` with `nextColon`, `nextNewLine` and `hLen`; `junk` is what normalizing a value leaves at the end of the buffer |
| `RequestFields`, `StatusFields` | the two `parseFirstLine` |
| `Field`, `ParseHeaders`, `Completed` | a round of the loop of `parseHeaders`, the loop, what follows it, of both types |
| `header` | a `RequestHeader` or `ResponseHeader`; `rawHeaders`, `path`, `hostName`, `upgrade` included |
| `ChangeHeader`, `ChangeFraming`, `ChangeCookies` | a handler's calls of `Set`, `Add`, `Del`; of `SetContentLength` and its like; of the operations on cookies |
| `AppendRequest`, `AppendResponse` | the two `AppendBytes` |
| `NormalizePath`, `Update`, `FullURI` | `normalizePath`, `UpdateBytes`, `AppendBytes` of uri.go |
| `Attribute`, `AppendCookie` | the attributes of a `Set-Cookie` header |

`Receive` scans what has come, `ParseMessage` parses it once the flag is found; a
message that is refused ends its connection.  `Forwarded` and the other properties then
parse again what would be written: they relate two runs of the parser through the
writer.  `byHand` is a history: a handler did what the header does not guard (a length
set beside a transfer encoding, a line added beside a field).

### ArgsTable and the code

`slots[o]` is the array of an `Args` object and `len[o]` how much of it is arguments; a
slot is named for the buffers it owns, `heap` is what is in them.  `AppendArg` takes the
slot behind the arguments, as `allocArg` does, `CopyTo` writes over the slots of the
copy, and a deletion is one step per round of `delAllArgs`, which moves the deleted slot
behind the others.  `PairList` knows lists of pairs only.

## Runs

| Run | Instance | Shows |
|---|---|---|
| `ProxyPool` | 3 requests, at most 2 connections, timeouts; responses with a length, in chunks whose end is seen or not, with `Connection: close`, refused without a body | no request is forgotten, submitted twice, or answered with another's response; one in flight per connection; the pool's limit |
| `ProxyFaults` | 2 requests, at most 2 connections, every fault; responses that end with the connection, chunks that seem to end early, refused ones with chunks | `IInv`, no lost wake-up, one resumption, the completed request is the front, no freed socket in use |
| `ProxyOrder` | 3 requests, 1 connection, timeouts; responses in chunks whose end is seen or not, with length 0, of a status without body; fairness | implements `SequentialDelegation`; every request is answered |
| `HttpPipeline` | any two requests of every kind, any three ordinary ones, aborts, timeouts, the limiter; fairness | `IInv`; exactly one driver; writes are counted; responses are the requests' sequence; closed after the last write, and closed in the end; every request is answered |
| `LimiterOneServer` | 1 agent, every file of at most 4 lines and one of 3 overlapping rules, 4 ticks | the rules are the file's; at most the limit per second, and no refusal before |
| `WebSocketMessages` | 3 messages, with long and short answers, one of them in two frames the second of which is empty, pings, closes and every refused frame | the handler sees the messages; each answer is the write in its place, spoilt only in the shared array and by a later one; no whole frame waits |
| `Messages` | the streams below | the flag is found; the scanner's fields; the parser leaves the body; what is written says the same to the next reader, and where the body ends; cookies, paths, URIs and queries survive; slots are not shared; `Args` implements `PairList` |
| `ProxyLateResponse` | 2 requests, 1 connection, timeouts, failed dials | **violated**: a late response answers the next request |
| `LimiterShared` | 2 agents, limit 1 | **violated**: two requests pass in a second |
| `HttpSocketClose` | an upgrade and frames; fairness | **violated**: a connection marked to be closed is not |
| `ProxyMisframed` | 3 requests, 1 connection, no fault; responses with a length, refused ones with chunks | **violated**: the third client gets the second one's response |
| `WebSocketFragments` | two fragments of a byte | **violated**: the first fragment is masked again |

### Bounds

* Three requests give a connection a front, a second that is submitted when the first
  completes, and a third behind it; with two connections, one of them is idle while
  the other has a queue.  Requests are symmetric in the safety runs, and no symmetry
  is used for liveness.
* `MaxRetry` is 1 instead of 5: a retry that fails again and the end of the retries
  both happen.
* The kinds of response that leave bytes on a socket in use (`Misframed`: "early", and
  refused headers with a body) are in `ProxyFaults`, whose properties are about requests
  and sockets, and not in `ProxyPool`, where `OwnResponse` and `OneOutstanding` would be
  false: `ProxyMisframed` shows how.
* `LogInt` is a logarithm to the base of the square root of two instead of e: a pool
  grows with two requests instead of eight, and shrinks.  The proofs are for any
  function.
* `WConns` and `Conns` are one or two larger than what is in use at a time.
* Three requests on a client connection, of one, two or seven header tokens and up to
  three body tokens, with a limit of six tokens for headers and two for bodies: a header
  that is cut, one that is complete together with the next, one that is too long.
* The limiter's clock runs for four ticks, which is two windows with a second of one
  tick.  Four lines hold two rules, or a blank line between any two lines of one; the
  lines are a blank one, one that does not compile, two regexps that overlap and two
  numbers, one of them zero.
* Three frames after the upgrade, with payloads of up to five bytes (the index of the
  key wraps after four), a limit of three for control frames (four are refused, one byte
  more than the limit) and an array of two bytes: it holds the answer to a text of two
  bytes, "bad request" and a close frame, and not the one to a text of five bytes or a ping
  of three, so that short and long answers follow each other in every order.  Every
  message of the run is answered: see the hazard of proc.go:836 for what happens otherwise.
* A stream of `Messages` is a beginning, up to `max` pieces from a set, and an end.  The
  lines of *request* and *response* (three at a time) are those that decide the framing, with
  every kind of continued and wrong line; *old* is HTTP/1.0; *line* makes first lines of
  up to four pieces; *bytes* and *chunks* bring six single bytes at the end of a header or
  of chunks, enough for a flag after a false beginning; *target*, *absolute*, *query*,
  *cookies* and *set-cookie* make their texts of three or four pieces, so that an escape
  meets a dot or a slash, a quote a space.  Operations of a handler: two on a message that
  was parsed (*handled*, *answered*), three on a new one, so that each can be undone and
  done again.  Numbers wrap at 28 bits; the numbers that occur are far below.
* Two `Args` objects with two and one arguments: one has a spare slot after a deletion,
  one is too short for a copy without an allocation.
* The runs have finitely many requests and then stop, which is why the configurations
  of the proxy, the processor and the frames do not check deadlock; that nothing stops early is
  what `EventuallyResumed` and `EventuallyAnswered` say.

### Fairness

`DelegationProxy!Fairness`: an agent that has appended a request notifies; the
scheduler runs; the IO goroutine runs and gaio completes its operations.  The first
two are the Go scheduler's fairness to goroutines that can run.  The third is
justified by the deadline of every read (the fault `timeout` is in the run; without it
a silent remote would leave a read pending) and, for writes, assumed: the code gives
them no deadline.  There is no fairness for remotes, `Close` or new requests.

`HttpProcessor!FairSpec`: gaio completes what it can, the agent runs, and the proxy
resumes (that is `EventuallyResumed`).  A timeout may happen in `HttpPipeline` and is not
under fairness, so no request owes its answer to a deadline; where the connection is
closed, by a client that leaves, a limit or a deadline, the liveness properties ask for
no answer.

`RegexLimiter`, `WebSocket`, `Messages` and `ArgsTable` state safety only.  `Test` and
the operations of a handler end because they have no loop that waits.

### What the properties except

The properties say what the code does keep, and name what it does not:

* `OwnResponse`, `OneOutstanding`: services that send a response of the `Misframed` kinds,
  and dials that fail; no run that checks them has either, but those that show them violated.
* `AnswersInOrder`: an answer in the array of `RspHeader` may be overwritten by a later
  frame before the library takes it (proc.go:892).  The property bounds that: it befalls
  no other answer, and number and places stay.
* `FlagFound`: a flag right behind a beginning of itself is missed ("\r\r\n\r\n").
* `HeaderFields`: a continued line that ends with a space (header.go:2156): its space is
  taken for the beginning of the next line, which is then refused.
* `RestIsBody`: continued lines, after which the body in the buffer is shifted (header.go:2278).
* `Forwarded`, `FramingKept`: `byHand`; `FramingKept`: a new response whose length was never
  set is read as one that ends with the connection.
* `CookieRoundTrip`: `Writable`; quotes and spaces around a value are taken off when it is read.
* `HasTarget`: a host with a second "@", which is cut once more when it is read again.
* `UpdateResolves`: an update with "//" in it anywhere is taken for absolute (uri.go:473).

## Proofs

Eight modules hold theorems or lemmas; each speaks of every value of the constants that satisfies
the named assumption of its component.

| Module | Theorem | States |
|---|---|---|
| `DelegationProxyProofs` | `Invariance` | `Spec => []QueueInv` |
| | `TypeCorrectness` | `Spec => []TypeOK` |
| | `ClientResumedOnce` | `Spec => []ResumedOnce` |
| | `CompletionIsOfTheFront` | `Spec => []CompletesFront` |
| | `NoWakeupIsLost` | `Spec => []NoLostWakeup` |
| | `PoolWithinLimit` | `Spec => []PoolBound` |
| | `InvarianceWithOwnership` | `Spec => []IInv` |
| | `SocketsOwned` | `Spec => []PoolOwnsSockets` |
| | `SubmittedOneByOne` | nothing refused: `Spec => []OneDriver` |
| `DelegationProxyOrderProofs` | `SequentialRefinement` | one connection per service: `Spec => Sequential!SafetySpec` |
| | `InvarianceOfTheWire` | nothing refused by the library, no dial fails, no response of the `Misframed` kinds: `Spec => [](IInv /\ WireInv)` |
| | `ResponseIsOfTheRequest` | the same: `Spec => []OwnResponse` |
| | `OneRequestOnTheWire` | the same: `Spec => []OneOutstanding` |
| `HttpProcessorProofs` | `Driving` | `Spec => []DriveInv` |
| | `TypeCorrectness` | `Spec => []TypeOK` |
| | `OneThingDrives` | `Spec => []OneDriver` |
| | `WritesAreCounted` | `Spec => []WritesCounted` |
| | `NoResponseDiscarded` | `Spec => ClosesAfterLatestWrite` |
| | `Invariance` | `Spec => []IInv` |
| | `ResponsesInOrder` | `Spec => []ResponsesMatchRequests` |
| `RegexLimiterProofs` | `TypeCorrectness` | `Spec => []TypeOK` |
| | `RulesAreTheLines` | `Spec => []RulesOfFile` |
| | `LimitIsKept` | one agent: `Spec => []RequestsPerSecond` |
| | `NoneRefusedEarly` | one agent: `Spec => RefusedWhenSpent` |
| `ArgsTableProofs` | `TypeCorrectness` | `Spec => []TypeOK` |
| | `ArgumentsNeverAlias` | `Spec => []NoAliasing` |
| | `Refinement` | `Spec => ImplementsPairList` |
| `WebSocketProofs` | `Invariance` | `Spec => []FrameInv` |
| | `TypeCorrectness` | `Spec => []TypeOK` |
| | `NoFrameIsLeft` | no fragments: `Spec => []NothingWaits` |
| | `InvarianceOfMessages`, `HandlerIsGivenTheMessages` | and every message answered: `Spec => []MessageInv`, `Spec => []HandlerSeesMessages` |
| | `InvarianceOfAnswers`, `ClientIsAnswered` | the same: `Spec => [](MessageInv /\ AnswerInv)`, `Spec => []AnswersInOrder` |
| `MessagesProofs` | `FlagIsFound` | `Spec => []FlagFound` |
| | `ParserLeavesBody` | `Spec => []RestIsBody` |
| | `ArgumentsAreNotShared` | `MCSpec => []NoAliasing` |
| | `ArgumentsAreAList` | `MCSpec => ImplementsPairList` |

**The proxy.**  `ResumedOnce` alone is not inductive: nothing in it keeps the scheduler
from resuming a request twice.  A request is resumed when a completion of it is
received and it is not `done`; it is then `done` for ever, so a second resumption could
only come from the refusal of a request that was resumed before, that is from a
request that waits again for the scheduler.  Hence `WaitsOnce` and `WaitsFresh` (what
waits in `newRequests` or the batch is there once and has not been touched),
`DoneFirst` (a queued request that is not `done` has not been resumed) and
`SchedulerAtWork` (what the scheduler's position says of the request at hand).
`CompletesFront` needs that whoever reports a completion, reports the front of a list:
`ActiveIsFront` says so of every operation in the library, every notifier and the
blocked IO goroutine, unless the request is done, in which case the report is dropped;
`ListsOwned` says that a list holds requests of its connection and that connections
out of the pool have none, so that the list found through a request is the list it is
in.  `FrameStep` covers at once the steps that decide nothing (the library, the IO
goroutine, the environment): they leave the lists and the fate of every request alone
and make no request active that was not.  The scheduler's actions have a lemma each.
`NoLostWakeup` and `PoolBound` are inductive relative to `QueueInv`, which has all of this.

`IInv` is `QueueInv` and `Ownership`.  `PoolOwnsSockets` is about the two moments at which
a connection changes its socket, a retry and the end of a request: nothing may be on the
connection then.  An operation is that of a request that is not done (`OneReport`), hence,
by `ActiveIsFront`, of the front of a list; at a retry the front is the request that the
IO goroutine reports, which has no operation as well (`OneReport`), and at the end it is
the one that is done.  `ListsOnce` and `DoneAtWork` carry this over the removal of the
front: the next request is another one and is not done.  `InOwnPool` says that the pool a
connection is removed from is the one it is in.  `OneDriver` needs besides that the front
of every list is driven (`FrontDriven`), which is false once a submission is refused:
the refusal is reported for another request (proxy.go:326).  The theorem therefore
assumes that "submit" is not among the faults; its run does too.

*Whose bytes.*  `OwnResponse` is about two moments far apart: a request is written on a
connection, and later the front of the connection's list reads.  `WireInv` says what is on
the socket in between.  A socket is `Ready` when nothing is owed on it and nothing is on
its wire; a request is submitted on a `Ready` socket only.  `InTheLibrary` says so of
every write, and of every read what the socket carries (`Reads`): before the header is
read it is nothing, or the whole response to the reader, or the response is owed; behind
it, the body is on the wire or in the reader's buffer, or is not to come.  When a
response is reported, its socket is `Ready` or is to be replaced (`ReadyNext`): a response
that is read to its end leaves nothing, a header the parser refuses leaves nothing if there
is no body, and what is given up at a timeout or the end of the connection marks it
`disconnected`.  Requests that are not submitted, or are to be written again, have read
nothing (`Unread`).

All three assumptions are needed.  When a dial fails, the connection that should have been
replaced stays and carries the response that came late (`ProxyLateResponse`).  When the
library refuses to read on (proxy.go:437), the request ends with an error that does not
mark the connection, the next one is written with a response still owed, and the two are
on the wire together.  When a service sends a refused header with a body, or chunks whose
data contain the flag that ends chunks, the rest of the body stays on a socket in use; if it
holds the flag that ends a header, it ends the next request, whose response is then given
to the request after it (`ProxyMisframed`).  If it does not, the next request fails at
the header of its own response and leaves the body of that in turn, so a refused header
with any body is among the `Misframed` kinds.

*In order.*  With `MaxConns = 1` the proxy implements the safety of `SequentialDelegation`,
whatever faults occur.  `Queues` maps to the queue of a service the concatenation of its
connection's list, the batch and `newRequests`, of which `Only` takes what is `Owed`: the
requests for that service whose clients have not been resumed.  `DelegateAppend` appends to
it, a resumption takes its head, all other steps stutter.  Three of these take work.  The
swap and the move of a request from the batch to the list keep the concatenation, except
that requests of other services stand between, which `Only` does not see.  A completion
resumes the front of the list, which is the head of the queue since it is owed and occurs
once (`ListsOnce`, `WaitsOnce`, `WaitsFresh`).  A refusal resumes the front of the batch,
which is the head only because there is no list: that, and that the request `Finish` removes
has been resumed, is `InHand`, which `OrderInv` adds to `IInv` and the pool's bound.  With two
connections none of this is true, as two lists have no order.  The other half of the abstract
specification, that every request is answered, needs fairness and stays with `ProxyOrder`.

**A client connection.**  `OneDriver` is about the moments between two events; it is not
inductive because a handler that runs may have left a read pending.  `Control` says that
it has not: a function of the processor runs only with no read pending and nothing at
the proxy, in the state it is named for.  `ProxyState` is needed for a resumption (the
state it leaves was the proxy's), `HasRequest` and `RequestsSent` for what the body's
handlers look up, `Upgraded` because `WritesCounted` is given up with the upgrade, and
`ScanInside` for the type of the scan after a body is removed.  The header is found by a
search for the first token of a kind; that such a search finds something is a fact about
a least number (`HasLeast`).  `NoResponseDiscarded` is an action property: with
`WritesCounted`, a count of zero says that the library has no response left.

`ResponsesMatchRequests` equates two sequences, the answers (received, in the library, at
the proxy) and the requests handled, and it is `OneDriver` that keeps the order: an answer
is written only by what moves the connection on, so the request handled last is the one
answered last.  `OrderInv` adds what the equation rests on.  Tokens are parsed in the order
they were sent and none twice (`TokensInOrder`), so the header that is parsed is of a later
request than all before (`HandledInOrder`); the proxy works on the request handled last
(`ProxyOnLast`) and is silent only about requests that are over (`SilentIsPast`); after an
upgrade nothing but frames is read (`UpgradeEnds`).  Every action then either leaves both
sides alone, appends the same request to both, or moves it from the proxy to the library
or from there to the client, which concatenation does not see.

**The limiter.**  With one agent, `Balanced` says for every rule that its tokens and the
requests admitted in its window add up to the limit, and that the window began at
`lastTest`, except between the two assignments of a refill and between the load and the
store, where it says what is still to come.  Both theorems follow; for two agents
neither is true (`LimiterShared`).  That the rules are a sequence of a regexp and a limit is
proved, not assumed: `RulesAreTheLines` follows the parser line by line, with an invariant
that says what it has made of the lines so far (pairs of those that are not blank, and of an
odd number the last as the regexp that waits for its limit).

**Arguments.**  `NoAliasing` is inductive with the types: a new slot is a number the heap
does not have yet, and `Shift` is a permutation of the slots, which a lemma proves by
cases on the three ranges of an index.

`Refinement` says that an object is a list.  `Lists` leaves the arguments that a deletion will
remove out from its beginning on, so that its rounds are not seen: a round that keeps an
argument changes nothing, one that removes it moves the rest down (`OnlyWithout`), and when
the deletion ends nothing with its key is left, since what it went past has another
(`Scanned`, the one addition to the invariant).  That a write to one object changes no
other's list is `NoAliasing`.

**The frames.**  All rests on what is under way: `Stream` says that the bytes in the
buffer and on the wire are those of the last frames sent, from a head on, one behind the
other.  A burst of the client makes a longer stream, a read moves the cut between buffer
and wire, a round of the loop that consumes a frame leaves the stream of the frames behind
it; hence the first byte of the buffer is always a head, and the frame it belongs to
(`FrontFrame`) is one behind those that are `Done`.  This holds of every client
(`Invariance`).  The other theorems are about clients of whom what they say is true:

* `Unfragmented`: every message is one frame (control frames may come anywhere, and frames
  may be wrong in every way).  Otherwise `maskBytes` spoils earlier fragments
  (`WebSocketFragments`), and a data frame that is refused inside a message is accepted with
  the next bytes, against `NothingWaits`.  Messages whose last fragment is empty are in
  `WebSocketMessages` and not in the theorems;
* `Answered`: the handler answers and there is something to answer with.  Otherwise the
  message stays in `ReqData` and the next one is joined to it (proc.go:836).

Nothing is assumed of the length of answers.

`MessageInv` says that nothing of a message is left when the next begins (`Fresh`) and that
the handler was given the messages of the frames cut out (`HandledInv`); the reference
`Messages` of all frames begins with these.

`AnswerInv` says of the i-th of all writes that it is the answer to the i-th message or, behind
all answers, "bad request" (`InPlace`).  `CountInv` counts them: as many as there are messages
cut out, and more only when the front of the buffer is a frame that is refused (`Stuck`), behind
which no answer is written any more (`RefusedIsFailure`: the messages of the reference end there
as well).  `WritesInv` says it of those in the library and adds that the array holds what
was written last.  The library therefore takes, for a write in the array, its own frame or a
later one, and a later one is an answer or "bad request": `ReceivedInv`, where `Spoilt` is the
second case.

**Messages.**  `FlagFound` is about a scan that goes on from read to read and never goes back:
after a byte that does not match, it begins again behind that byte.  The inductive
invariant is what the matcher knows of the text so far (`Good`).  It stands for the last
`expectedChar` bytes, which are the beginning of the flag; and if the text ends with n bytes
of the flag, with nothing that looks like its beginning right before them (`Clean`), then n is
`expectedChar`: a clean beginning is never missed.  A byte more keeps this (`GoodNext`), hence
a read does, whatever its length (`GoodMatch`).  `Clean` is what the exception in `FlagFound` is
needed for: without it the byte that does not match may itself begin the flag.

`RestIsBody` compares two functions of header.go that look for the end of a header on
different ways: `readRawHeaders` looks for an empty line, the scanner goes on from field to
field, with the places of the next colon and newline carried from one to the next.  A round
of the scanner takes one line with its end and stands at the beginning of the next
(`AtLine`), finds the empty line (`AtEnd`) or fails, and what it carries is right for the line
it stands at (`NextKnown`), if no line goes on with the one before (`NotFolded`, which is where
the exception in `RestIsBody` is needed).  As a round takes a line at least, the scan is over
after as many rounds as there are lines (`ScanEnds`).  A failed scan is a refused
header (`ScanFailed`), since no later field takes an error back (`ErrorStays`); so in a
parsed one the scanner is at the first empty line, and the raw copy ends there as well
(`RawIs`, `EndIsBehind`).  Nothing but `ParseMessage` touches what is left (`LeftInv`).

`MCMessages` runs `ArgsTable` beside the messages; its two theorems are those of
`ArgsTableProofs`, instantiated.

`MessagesAssumption` says that texts are sequences of bytes, and of the lengths a handler sets
that they are read again as they were written, which is true of those that fit the width.

**Induction.**  The library states induction with a predicate as a parameter, which the
provers cannot instantiate.  `SequenceLemmas` states it over sets: a set with zero that
holds with a number the next one has all numbers (`SetInduction`), and the same of
sequences and `Append` (`SeqInduction`); a definition by recursion over a finite range
exists (`StepsExist`) and is unique.  The recursion in `Only`, in the parser of the files, in the
bytes of a burst and in `Messages` of the frames is therefore written as functions.

Model-checked and not proved:

* of `Messages`, `TypeOK`, `HeaderFields`, `Forwarded`, `FramingKept` and the properties of
  cookies, paths, URIs and queries.  They depend on which bytes the names of fields and
  separators are made of (`B("Content-Length")`), and the provers know no characters of a
  string; and on folds, whose induction has an operator as a parameter;
* liveness under fairness, that of `ImplementsSequential` included;
* websocket messages whose last fragment is empty.

## Findings

* *proxy.go:314.*  After a timeout a connection is replaced only if the dial succeeds.
  If it fails, the next request is submitted on the old connection, whose late response
  it then gets (`ProxyLateResponse`).  The comment at proxy.go:71 draws REQ1 .. REQn and
  RESP1 .. RESPn.
* *limiter.go:38.*  `Test` is not synchronised and tests/limited/main.go shares a limiter
  among four servers: two agents spend one token (`LimiterShared`), against the "request
  per second" of limiter.go:51.
* *proc.go:892.*  The writes of websocket frames are not counted and their completions
  are: the count misses zero and the connection is never closed (`HttpSocketClose`),
  against aiohttp_context.go:94 ("close the connection after latest write").
* *proxy.go:417.*  A response whose header is refused ends its request and leaves its body on
  a socket that stays in use.  The end of a chunked body is an end of a header to the scan:
  the next request fails, the one after it is written while a response is owed and gets it
  (`ProxyMisframed`), against the REQ1 .. REQn and RESP1 .. RESPn of proxy.go:71.
* *proc.go:747.*  `maskBytes` is applied to all of `ReqData`, earlier fragments included
  (`WebSocketFragments`), against "the request's business data, completely parsed" of
  aiohttp_context.go:30.

No run shows that the deadline of a body is computed once, in `AddConn` (proc.go:176), and used
for every request (proc.go:411), against "adjusted per request" of aiohttp_context.go:78: it
is read off the assignment, and the modules have no clock.

Behaviour that no line of the repository contradicts is in the model without a
finding.  In the proxy and the processor: a refused submission of the next request is
reported for the request before it (proxy.go:326); a connection that leaves the pool
disconnected is dialled again (proxy.go:314); a response without length and body is
answered with no byte (proxy.go:275) and, for status 204 or 304, only by the deadline;
after a refused upgrade the next byte indexes past the header's end flag (proc.go:319);
a websocket message that is not answered is joined to the next one (proc.go:836), a
control frame between fragments to the message (proc.go:817), a short reply may be
overwritten by the next before it is sent (proc.go:892), and a data frame that is
refused inside an open message stays in the buffer and, the message being reset, is
accepted with the next bytes.

In headers and texts, besides the exceptions above:

* the scan for the end of chunks (proxy.go:452) takes data that contain the flag for it,
  and misses it behind a beginning of itself (the kinds "early" and "late" of
  `DelegationProxy`); what it leaves of the first harms later requests as in `ProxyMisframed`;
* `Set` of Content-Length on a chunked header (header.go:1002) and `Del` of
  Transfer-Encoding (header.go:874) leave a header that says two things; `Add` writes a
  value's ends of lines as they are (header.go:927, 1128);
* the gateway answers with `Connection: Close` (proc.go:450), and its own parser of
  responses knows "close" only (header.go:1904);
* `path` keeps the "?" of the query (header.go:1808), `hostName` is not set by a host
  without a port (header.go:1973), and neither they nor `upgrade` are reset;
* an empty SameSite attribute is read past its end (cookie.go:392);
* the overflow check of `parseUintBuf` (bytesconv.go:188) accepts a number that wraps
  round to a larger one;
* an update "?q#f" makes "#f" a part of the query.

## Not modelled

* `Server`: it accepts connections and hands them to `AddConn`.
* The heap's own sifting, with the `idx` fields: the proxy's model has the set of its
  connections and any of the least loaded as root.
* Of the websocket, lengths of 16 and 64 bits, the checks of the handshake, and replies
  that other goroutines write (as websocket_test.go does).
* Of headers, reading through a `bufio.Reader`, `DisableNormalizing`, visitors, multipart
  boundaries, the formats of dates and the texts of status lines; of arguments `Sort`,
  floats and booleans; of URIs and cookies the setters of one field; of conversions HTML
  escapes, addresses, dates, floats and hexadecimal lengths.  None of this is called on
  the gateway's own paths, or it decides nothing there.
* The internals of gaio, and partial writes.

## Left open

1. `WebSocket` in the place of `Frames` of `HttpProcessor`, with handlers that are
   silent and messages pushed by other goroutines.
2. The heap, refining the set of `DelegationProxy`; the thresholds of growth with the
   real logarithm.
3. Several client connections, the processor and the proxy in one specification, so that
   a response is followed from remote to client.
4. A proof for the websocket's messages whose last fragment is empty.
