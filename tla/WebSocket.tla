------------------------------ MODULE WebSocket ------------------------------
(***************************************************************************)
(* procWS of src/proc.go: the frames of an upgraded connection are cut out *)
(* of the buffer, unmasked and joined to messages, messages are given to   *)
(* the handler or answered as control frames, and the answers are written. *)
(* HttpProcessor has the same function by its effect on the connection,    *)
(* and the close that ends what is modelled here.                          *)
(*                                                                         *)
(* A frame on the wire is a token for its head, of at least six bytes, and *)
(* one for each byte of its payload.  A byte is the place it comes from    *)
(* and the bytes of masking keys it is xored with.                         *)
(***************************************************************************)
EXTENDS Integers, Sequences, SequencesExt, FiniteSetsExt, Subsequence

CONSTANTS
    Bursts,     \* sequences of frames a client sends at a time
    MaxFrames,  \* bound on the frames of a client
    MaxControl, \* maxControlFramePayloadSize
    Inline,     \* payload that fits into the array of RspHeader, behind a head
    Replies     \* whether the handler may answer, may be silent

DataOps == {"text", "binary"}
ControlOps == {"close", "ping", "pong"}

\* MessageType is 0 when none is known, and 0 is the opcode of a continuation.
NoType == "continuation"
Ops == DataOps \cup ControlOps \cup {NoType, "unknown"}

FrameKind == [op : Ops, final : BOOLEAN, size : Nat, masked : BOOLEAN, rsv : BOOLEAN]

ASSUME WebSocketAssumption ==
    /\ Bursts \subseteq Seq(FrameKind)
    /\ \A burst \in Bursts : \A i \in 1 .. Len(burst) - 1 : burst[i].op # "close"
    /\ MaxFrames \in Nat /\ MaxControl \in Nat /\ Inline \in Nat
    /\ Replies \subseteq BOOLEAN

VARIABLES
    sent,       \* the frames the client has sent
    inbound,    \* their tokens, sent and not yet read
    buffer,     \* ctx.buffer
    msg,        \* ctx.WSMsg
    pc,         \* "idle", or "ws" in the loop of procWS
    handled,    \* what the handler was given
    header,     \* what the array of WSMsg.RspHeader holds
    writes,     \* writes in the library: frames, some of them in that array
    received,   \* writes the client has received, by the frame they begin with
    closing     \* ctx.CloseAfterWrite

vars == <<sent, inbound, buffer, msg, pc, handled, header, writes, received, closing>>

Reset == [msContinue |-> FALSE, messageType |-> NoType, reqData |-> <<>>]

\* A frame of the server; `bad' when it says "bad request".
Reply(type, of) == [type |-> type, of |-> of, bad |-> FALSE]
BadRequest(type) == [type |-> type, of |-> <<>>, bad |-> TRUE]

Init ==
    /\ sent = <<>>
    /\ inbound = <<>>
    /\ buffer = <<>>
    /\ msg = Reset
    /\ pc = "idle"
    /\ handled = <<>>
    /\ header = BadRequest(NoType)
    /\ writes = <<>>
    /\ received = <<>>
    /\ closing = FALSE

Tokens(f, k) == [i \in 1 .. k.size + 1 |-> [frame |-> f, pos |-> i - 1]]

\* A burst on the wire, behind n frames.
Wire(n, burst) ==
    LET wire[i \in 0 .. Len(burst)] ==
          IF i = 0 THEN <<>> ELSE wire[i - 1] \o Tokens(n + i, burst[i])
    IN  wire[Len(burst)]

\* A client sends nothing after its close frame.
Send(burst) ==
    LET n == Len(sent) IN
    /\ n + Len(burst) <= MaxFrames
    /\ \A i \in 1 .. n : sent[i].op # "close"
    /\ sent' = sent \o burst
    /\ inbound' = inbound \o Wire(n, burst)
    /\ UNCHANGED <<buffer, msg, pc, handled, header, writes, received, closing>>

ReadData ==
    /\ pc = "idle"
    /\ \E n \in 1 .. Len(inbound) :
         /\ buffer' = buffer \o SubSeq(inbound, 1, n)
         /\ inbound' = SubSeq(inbound, n + 1, Len(inbound))
    /\ pc' = "ws"
    /\ UNCHANGED <<sent, msg, handled, header, writes, received, closing>>

\* The library takes the bytes of a buffer when it writes them.  What was built
\* in the array since then is shown whole, though the write keeps its length.
WriteDone ==
    /\ writes # <<>>
    /\ received' = Append(received, IF Head(writes).shared THEN header ELSE Head(writes).frame)
    /\ writes' = Tail(writes)
    /\ UNCHANGED <<sent, inbound, buffer, msg, pc, handled, header, closing>>
-----------------------------------------------------------------------------
(***************************************************************************)
(* parseWSReq.                                                             *)
(***************************************************************************)
\* Mutant: without the wrap of the key's index.
MaskUnwrapped(key, pos, b) ==
    [i \in DOMAIN b |-> [b[i] EXCEPT !.keys = SymDiff(@, {<<key, pos + i - 1>>})]]

\* All of b is xored, with the key of a frame from position pos on.
maskBytes(key, pos, b) ==
    [i \in DOMAIN b |-> [b[i] EXCEPT !.keys = SymDiff(@, {<<key, (pos + i - 1) % 4>>})]]

Payload(f) ==
    [i \in 1 .. sent[f].size |-> [frame |-> f, pos |-> i, keys |-> {<<f, (i - 1) % 4>>}]]

\* The payload of frame f joins what came before.
Joined(m, f) ==
    IF sent[f].size = 0 THEN m.reqData
    ELSE maskBytes(f, Len(m.reqData), m.reqData \o Payload(f))

\* The first frame of a message gives it its type, even when it is incomplete
\* or refused.
Typed(m, k) == IF m.messageType = NoType THEN [m EXCEPT !.messageType = k.op] ELSE m

BadHead(k) == k.rsv \/ ~k.masked

BadFrame(m, k) ==
    \/ k.op \in ControlOps /\ (k.size > MaxControl \/ ~k.final)
    \/ k.op \in DataOps /\ m.msContinue
    \/ k.op = "continuation" /\ ~m.msContinue
    \/ k.op = "unknown"

Parsed(m, f) ==
    LET k == sent[f]
    IN  [Typed(m, k) EXCEPT !.msContinue = IF k.op \in ControlOps THEN @ ELSE ~k.final,
                            !.reqData = Joined(m, f)]

\* The frame at the front of the buffer, and what follows it.
FrontFrame == Head(buffer).frame
Rest(f) == SubSeq(buffer, sent[f].size + 2, Len(buffer))
Complete(f) == Len(buffer) > sent[f].size
-----------------------------------------------------------------------------
(***************************************************************************)
(* procWS: a round of the loop is an action.                               *)
(***************************************************************************)
\* Mutant: the array grows with the payload, and is kept for the next frame.
WriteKept(frame) ==
    /\ header' = frame
    /\ writes' = Append(writes, [frame |-> frame, shared |-> TRUE])

\* writeWSRspData, which builds the head of the frame in the array of RspHeader
\* and the payload behind it when it fits.
Write(frame) ==
    /\ header' = frame
    /\ writes' = Append(writes, [frame |-> frame, shared |-> Len(frame.of) <= Inline])

\* A refused frame stays in the buffer.
Refuse ==
    LET f == FrontFrame
        k == sent[f] IN
    /\ pc = "ws"
    /\ BadHead(k) \/ (Complete(f) /\ BadFrame(msg, k))
    /\ Write(BadRequest(Typed(msg, k).messageType))
    /\ msg' = Reset
    /\ pc' = "idle"
    /\ UNCHANGED <<sent, inbound, buffer, handled, received, closing>>

Incomplete ==
    LET k == sent[FrontFrame] IN
    /\ pc = "ws"
    /\ ~BadHead(k) /\ ~Complete(FrontFrame)
    /\ msg' = Typed(msg, k)
    /\ pc' = "idle"
    /\ UNCHANGED <<sent, inbound, buffer, handled, header, writes, received, closing>>

Accepts(f) == /\ pc = "ws"
              /\ ~BadHead(sent[f]) /\ Complete(f) /\ ~BadFrame(msg, sent[f])

Fragment ==
    LET f == FrontFrame IN
    /\ Accepts(f)
    /\ Parsed(msg, f).msContinue
    /\ msg' = Parsed(msg, f)
    /\ buffer' = Rest(f)
    /\ pc' = IF Rest(f) = <<>> THEN "idle" ELSE "ws"
    /\ UNCHANGED <<sent, inbound, handled, header, writes, received, closing>>

\* Mutants: the message is not reset once it is answered; the loop ends with
\* the first message.
AnswerKept(m, data) ==
    IF data = <<>> THEN msg' = m /\ UNCHANGED <<header, writes>>
    ELSE Write(Reply(m.messageType, data)) /\ msg' = [m EXCEPT !.messageType = NoType]

GoOnNever(f, done) == buffer' = Rest(f) /\ pc' = "idle"

\* No data, no answer, and no reset.
Answer(m, data) ==
    IF data = <<>> THEN msg' = m /\ UNCHANGED <<header, writes>>
    ELSE Write(Reply(m.messageType, data)) /\ msg' = Reset

\* checkEnd keeps what follows; the loop goes on unless the connection closes.
GoOn(f, done) ==
    /\ buffer' = Rest(f)
    /\ pc' = IF done \/ Rest(f) = <<>> THEN "idle" ELSE "ws"

\* A message by its type, which a silent predecessor may have left.
Handle ==
    LET f == FrontFrame
        m == Parsed(msg, f) IN
    /\ Accepts(f)
    /\ ~m.msContinue /\ m.messageType \notin ControlOps
    /\ handled' = Append(handled, [type |-> m.messageType, data |-> m.reqData])
    /\ \E answers \in Replies : Answer(m, IF answers THEN m.reqData ELSE <<>>)
    /\ GoOn(f, closing)
    /\ UNCHANGED <<sent, inbound, received, closing>>

PongType(type) == IF type = "ping" THEN "pong" ELSE type

\* What a ping or a close frame is answered with: its data, its code.
ControlData(m) ==
    IF m.messageType = "ping" THEN m.reqData
    ELSE IF m.messageType = "close" /\ Len(m.reqData) >= 2 THEN SubSeq(m.reqData, 1, 2)
    ELSE <<>>

Control ==
    LET f == FrontFrame
        m == Parsed(msg, f)
        close == m.messageType = "close" IN
    /\ Accepts(f)
    /\ ~m.msContinue /\ m.messageType \in ControlOps
    /\ closing' = (closing \/ close)
    /\ Answer([m EXCEPT !.messageType = PongType(@)], ControlData(m))
    /\ GoOn(f, closing')
    /\ UNCHANGED <<sent, inbound, handled, received>>

Next ==
    \/ \E burst \in Bursts : Send(burst)
    \/ ReadData \/ WriteDone
    \/ Refuse \/ Incomplete \/ Fragment \/ Handle \/ Control

Spec == Init /\ [][Next]_vars
-----------------------------------------------------------------------------
(***************************************************************************)
(* The messages of the client, by RFC 6455: fragments are joined, control  *)
(* frames may come between them, nothing follows an error.                 *)
(***************************************************************************)
Plain(f) == [i \in 1 .. sent[f].size |-> [frame |-> f, pos |-> i, keys |-> {}]]

AfterFrame(acc, f) ==
    LET k == sent[f]
        open == acc.type # NoType
        data == acc.data \o Plain(f)
        type == IF open THEN acc.type ELSE k.op
    IN  IF acc.failed THEN acc
        ELSE IF BadHead(k) \/ k.op = "unknown" \/ (k.op \in DataOps /\ open)
                \/ (k.op = "continuation" /\ ~open)
                \/ (k.op \in ControlOps /\ (k.size > MaxControl \/ ~k.final))
             THEN [acc EXCEPT !.failed = TRUE]
        ELSE IF k.op \in ControlOps
             THEN [acc EXCEPT !.messages = Append(@, [type |-> k.op, data |-> Plain(f)])]
        ELSE IF ~k.final THEN [acc EXCEPT !.type = type, !.data = data]
        ELSE [acc EXCEPT !.messages = Append(@, [type |-> type, data |-> data]),
                         !.type = NoType, !.data = <<>>]

NothingSent == [type |-> NoType, data |-> <<>>, messages |-> <<>>, failed |-> FALSE]

Messages ==
    LET after[f \in 0 .. Len(sent)] ==
          IF f = 0 THEN NothingSent ELSE AfterFrame(after[f - 1], f)
    IN  after[Len(sent)].messages

Number == 1 .. MaxFrames
Piece == [frame : Number, pos : Nat]
Byte == [frame : Number, pos : Nat \ {0}, keys : SUBSET (Number \X (0 .. 3))]
ServerFrame == [type : Ops, of : Seq(Byte), bad : BOOLEAN]

\* Every variable has its type, and a masking key has four bytes.
TypeOK ==
    /\ sent \in Seq(FrameKind)
    /\ inbound \in Seq(Piece) /\ buffer \in Seq(Piece)
    /\ msg \in [msContinue : BOOLEAN, messageType : Ops, reqData : Seq(Byte)]
    /\ pc \in {"idle", "ws"}
    /\ handled \in Seq([type : Ops, data : Seq(Byte)])
    /\ header \in ServerFrame
    /\ writes \in Seq([frame : ServerFrame, shared : BOOLEAN])
    /\ received \in Seq(ServerFrame)
    /\ closing \in BOOLEAN

\* "ReqData: the completely parsed business data of the request"
\* (aiohttp_context.go, from the Chinese): the handler is given the messages of
\* the client, unmasked, whole and in order.
HandlerSeesMessages ==
    IsPrefix(handled, Only(Messages, [type : DataOps, data : Seq(Byte)]))

\* What a client that gets an answer to everything is to receive.
AnswerTo(m) ==
    IF m.type = "ping" THEN Reply("pong", m.data)
    ELSE IF m.type = "close" THEN Reply("close", SubSeq(m.data, 1, 2))
    ELSE Reply(m.type, m.data)

Answers == [i \in DOMAIN Messages |-> AnswerTo(Messages[i])]

\* The echo, the pong or the close frame of each message is the write in its
\* place: a payload of its own as it is, one in the array of RspHeader as it is
\* unless a later frame was built there before the library took it.  Behind the
\* answers there is only "bad request".
AnswersInOrder ==
    Replies = {TRUE} => \A i \in DOMAIN received :
        IF i \in DOMAIN Answers
        THEN \/ received[i] = Answers[i]
             \/ /\ Len(Answers[i].of) <= Inline
                /\ received[i].bad \/ \E j \in i + 1 .. Len(Answers) : received[i] = Answers[j]
        ELSE received[i].bad

\* While the agent waits for more bytes, no whole frame it accepts is left in
\* the buffer.
NothingWaits ==
    pc = "idle" /\ ~closing /\ buffer # <<>> =>
        LET k == sent[FrontFrame] IN BadHead(k) \/ ~Complete(FrontFrame) \/ BadFrame(msg, k)
=============================================================================
