------------------------- MODULE HttpProcessorProofs -------------------------
(***************************************************************************)
(* Theorems about HttpProcessor, for any requests, any number of them, any *)
(* limits and any faults.                                                  *)
(***************************************************************************)
EXTENDS HttpProcessorInv, SequenceLemmas

\* The header of a request that was found ends somewhere in the buffer.
LEMMA HeaderSizeType ==
    ASSUME NEW c, c.buffer \in Seq(Piece), c.nextCompare \in Nat, HeaderFound(c)
    PROVE  HeaderSize(c) \in 1 .. Len(c.buffer)
<1> DEFINE I == {i \in 1 .. Len(c.buffer) : EndsHeader(c.buffer[i])}
<1>1. I # {} /\ I \subseteq Nat
  BY DEF HeaderFound
<1>2. \E m \in I : \A i \in I : m <= i
  <2> HIDE DEF I
  <2>1. QED BY <1>1, HasLeast
<1>3. (CHOOSE x \in I : \A y \in I : x =< y) \in I
  BY <1>2
<1>4. HeaderSize(c) = CHOOSE x \in I : \A y \in I : x =< y
  BY <1>1 DEF HeaderSize, SelectInSeq, Min
<1>5. QED BY <1>3, <1>4

LEMMA InitInv == Init => DriveInv
<1> SUFFICES ASSUME Init PROVE DriveInv
  OBVIOUS
<1>1. TypeOK
  <2>1. /\ <<>> \in Seq(Kinds) /\ <<>> \in Seq(Piece) /\ <<>> \in Seq(Numbers)
        /\ <<>> \in Seq(Answers)
        /\ <<"header">> \in Seq({"header", "body", "none"})
    BY EmptySeq
  <2>2. ctx \in Context
    BY <2>1, ProcessorAssumption DEF Init, ProcessorAssumption, Context, Numbers, Answers
  <2>3. QED BY <2>1, <2>2 DEF Init, TypeOK, Reasons
<1>2. QED
  BY <1>1, ProcessorAssumption DEF Init, DriveInv, RequestsSent, Control, ProxyState, HasRequest, Upgraded,
     ScanInside, OneDriver, WritesCounted, Frame, ProcessorAssumption

LEMMA SendStep ==
    ASSUME DriveInv, NEW k \in Kinds, Send(k)
    PROVE  DriveInv'
<1>1. /\ asked' \in Seq(Kinds) /\ Len(asked') = Len(asked) + 1 /\ Len(asked) \in Nat
      /\ Len(asked') <= MaxRequests
  BY ProcessorAssumption DEF DriveInv, TypeOK, Send, ProcessorAssumption
<1>2. Sent \subseteq Sent'
  BY <1>1 DEF Sent, Piece, Numbers
<1>3. Tokens(Len(asked) + 1, k) \in Seq(Sent')
  <2>1. k.head + k.body \in Nat
    BY ProcessorAssumption DEF ProcessorAssumption, Kind
  <2>2. \A p \in 1 .. k.head + k.body : Token(Len(asked) + 1, p) \in Sent'
    BY <1>1, <2>1 DEF Token, Sent, Piece, Numbers
  <2>3. QED BY <2>1, <2>2 DEF Tokens
<1>4. inbound' \in Seq(Sent') /\ ctx'.buffer \in Seq(Sent')
  BY <1>2, <1>3, SeqMonotonic, ConcatProperties DEF DriveInv, RequestsSent, Send
<1>5. Sent' \subseteq Piece /\ ctx.cur <= Len(asked') /\ ctx'.cur = ctx.cur
  BY <1>1 DEF Sent, DriveInv, RequestsSent, Send, TypeOK, Context, Numbers, Answers, Frame
<1>6. TypeOK' /\ RequestsSent'
  BY <1>1, <1>4, <1>5, SeqMonotonic DEF DriveInv, TypeOK, RequestsSent, Send
<1>7. QED
  BY <1>6 DEF DriveInv, Send, Control, ProxyState, HasRequest, Upgraded, ScanInside, OneDriver, WritesCounted
\* The pieces of sent requests are pieces.
LEMMA SentIsPiece == Sent \subseteq Piece /\ (asked' = asked => Sent' = Sent)
  BY DEF Sent

\* Cutting pieces off either end of what is read leaves pieces.
LEMMA CutType ==
    ASSUME NEW S, NEW s \in Seq(S), NEW n \in Nat
    PROVE  SubSeq(s, n + 1, Len(s)) \in Seq(S) /\ (n <= Len(s) => SubSeq(s, 1, n) \in Seq(S))
<1>1. Len(s) \in Nat /\ \A i \in 1 .. Len(s) : s[i] \in S
  BY LenProperties, ElementOfSeq
<1>2. QED BY <1>1, SubSeqProperties

LEMMA AbortStep == ASSUME DriveInv, Abort PROVE DriveInv'
  BY DEF DriveInv, Abort, TypeOK, RequestsSent, Sent, Control, ProxyState, HasRequest, Upgraded, ScanInside,
     OneDriver, WritesCounted

\* The result of a read finds no other read, and no request at the proxy.
LEMMA TheOnlyRead ==
    ASSUME DriveInv, pc = "idle", reads # <<>>
    PROVE  Tail(reads) = <<>> /\ remote = <<>> /\ ctx.protoState # "proxy"
<1>1. Len(reads) >= 1 /\ Len(reads) \in Nat /\ Len(remote) \in Nat /\ Len(Tail(reads)) = Len(reads) - 1
      /\ Tail(reads) \in Seq({"header", "body", "none"})
  BY EmptySeq, LenProperties, HeadTailProperties DEF DriveInv, TypeOK
<1>2. Len(Tail(reads)) = 0 /\ Len(remote) = 0
  BY <1>1 DEF DriveInv, OneDriver
<1>3. QED BY <1>1, <1>2, EmptySeq DEF DriveInv, TypeOK, ProxyState

LEMMA ReadDataStep == ASSUME DriveInv, ReadData PROVE DriveInv'
<1> USE DEF ReadData
<1>1. PICK n \in 1 .. Len(inbound) :
        /\ ctx' = [ctx EXCEPT !.buffer = @ \o SubSeq(inbound, 1, n)]
        /\ inbound' = SubSeq(inbound, n + 1, Len(inbound))
  OBVIOUS
<1>2. /\ inbound' \in Seq(Sent) /\ SubSeq(inbound, 1, n) \in Seq(Sent)
      /\ Len(ctx.buffer) \in Nat
  BY <1>1, CutType, LenProperties DEF DriveInv, RequestsSent
<1>3. /\ ctx.buffer \o SubSeq(inbound, 1, n) \in Seq(Sent)
      /\ Len(ctx.buffer \o SubSeq(inbound, 1, n)) >= Len(ctx.buffer)
  BY <1>2, ConcatProperties, LenProperties DEF DriveInv, RequestsSent
<1>4. reads' = <<>> /\ remote = <<>> /\ ctx.protoState # "proxy"
  BY TheOnlyRead
<1>5. inbound' \in Seq(Piece) /\ ctx.buffer \o SubSeq(inbound, 1, n) \in Seq(Piece)
  BY <1>2, <1>3, SentIsPiece, SeqMonotonic
<1>6. TypeOK'
  <2>1. ctx' \in Context /\ ctx'.nextCompare = ctx.nextCompare /\ ctx'.upgrade = ctx.upgrade
        /\ Len(ctx'.buffer) >= Len(ctx.buffer) /\ ctx.nextCompare \in Nat
    BY <1>1, <1>3, <1>5 DEF DriveInv, TypeOK, Context
  <2>2. pc' \in {"header", "body", "ws", "idle"} /\ (pc' = "header" => ctx.protoState = "header")
    BY DEF DriveInv, TypeOK, Context, Continue
  <2>3. reads' \in Seq({"header", "body", "none"})
    BY <1>4, EmptySeq
  <2>4. pc' = "header" /\ ~ctx'.upgrade => ctx'.nextCompare <= Len(ctx'.buffer)
    BY SMTT(30), <1>2, <1>3, <2>1, <2>2 DEF DriveInv, ScanInside
  <2>5. QED BY <1>5, <2>1, <2>2, <2>3, <2>4 DEF DriveInv, TypeOK
<1>7. RequestsSent'
  BY <1>1, <1>2, <1>3, SentIsPiece DEF DriveInv, RequestsSent, TypeOK, Context
<1>8. QED
  BY <1>1, <1>3, <1>4, <1>6, <1>7 DEF DriveInv, TypeOK, Context, Control, ProxyState, HasRequest, Upgraded, ScanInside,
     OneDriver, WritesCounted, Continue

LEMMA ReadErrorStep == ASSUME DriveInv, ReadError PROVE DriveInv'
<1>1. Tail(reads) = <<>> /\ remote = <<>> /\ ctx.protoState # "proxy" /\ closed' # "no"
  BY TheOnlyRead DEF ReadError, Free
<1>2. QED
  BY <1>1, SentIsPiece DEF DriveInv, TypeOK, RequestsSent, Control, ProxyState, HasRequest, Upgraded, ScanInside,
     OneDriver, WritesCounted, ReadError, Free, Reasons

LEMMA CountType ==
    ASSUME NEW c \in Context, NEW n \in Int
    PROVE  [c EXCEPT !.numWrites = n] \in Context
  BY DEF Context

LEMMA WriteResult ==
    ASSUME DriveInv, WriteDone \/ WriteFailed
    PROVE  DriveInv'
<1>1. /\ Head(writes) \in Answers /\ Len(Tail(writes)) = Len(writes) - 1
      /\ Tail(writes) \in Seq(Answers)
  BY HeadTailProperties DEF DriveInv, TypeOK, WriteDone, WriteFailed
<1>2. /\ ctx' = [ctx EXCEPT !.numWrites = @ - 1] /\ ctx' \in Context
      /\ writes # <<>> /\ writes' = Tail(writes) /\ writes' \in Seq(Answers)
      /\ Len(writes') = Len(writes) - 1
      /\ received' \in Seq(Answers) /\ pc = "idle"
      /\ closed' \in Reasons /\ (closed' = "no" => closed = "no")
  <2>1. ctx' = [ctx EXCEPT !.numWrites = @ - 1] /\ ctx' \in Context
    <3>1. ctx' = [ctx EXCEPT !.numWrites = ctx.numWrites - 1]
      BY Zenon DEF WriteDone, WriteFailed
    <3>2. ctx \in Context /\ ctx.numWrites - 1 \in Int
      BY DEF DriveInv, TypeOK, Context
    <3>3. QED BY <3>1, <3>2, CountType
  <2>2. closed' \in Reasons /\ (closed' = "no" => closed = "no")
    BY DEF DriveInv, TypeOK, WriteDone, WriteFailed, Free, Reasons
  <2>3. received' \in Seq(Answers)
    <3>1. received' = received \/ received' = Append(received, Head(writes))
      BY Zenon DEF WriteDone, WriteFailed
    <3>2. Append(received, Head(writes)) \in Seq(Answers)
      BY <1>1, AppendProperties DEF DriveInv, TypeOK
    <3>3. QED BY <3>1, <3>2 DEF DriveInv, TypeOK
  <2>4. QED BY Zenon, <1>1, <2>1, <2>2, <2>3 DEF WriteDone, WriteFailed
<1>3. QED
  BY Zenon, <1>2, SentIsPiece DEF DriveInv, TypeOK, Context, RequestsSent, Control, ProxyState, HasRequest, Upgraded, ScanInside,
     OneDriver, WritesCounted, WriteDone, WriteFailed

LEMMA PanicStep == ASSUME DriveInv, Panic PROVE DriveInv'
  BY SentIsPiece DEF DriveInv, Panic, TypeOK, Context, RequestsSent, Control, ProxyState, HasRequest, Upgraded,
     ScanInside, OneDriver, WritesCounted

\* A refusal ends in an idle processor that has freed its connection.
LEMMA RefusalStep ==
    ASSUME DriveInv, HeaderTooLarge \/ HeaderRefused
    PROVE  DriveInv'
<1>1. /\ pc = "header" /\ pc' = "idle" /\ closed' # "no" /\ closed' \in Reasons
      /\ UNCHANGED <<asked, inbound, gone, ctx, reads, writes, remote, handled, received, silent>>
  BY DEF DriveInv, TypeOK, HeaderTooLarge, HeaderRefused, Scanning, Free, Reasons
<1>2. Len(reads) + Len(remote) <= 1
  BY <1>1, EmptySeq DEF DriveInv, Control
<1>3. QED
  BY <1>1, <1>2, SentIsPiece DEF DriveInv, TypeOK, RequestsSent, Control, ProxyState, HasRequest, Upgraded,
     ScanInside, OneDriver, WritesCounted

LEMMA HeaderIncompleteStep == ASSUME DriveInv, HeaderIncomplete PROVE DriveInv'
<1>1. /\ pc = "header" /\ pc' = "idle" /\ ctx' = [ctx EXCEPT !.nextCompare = Len(ctx.buffer)]
      /\ ctx \in Context /\ Len(ctx.buffer) \in Nat /\ reads = <<>> /\ remote = <<>>
      /\ reads' = <<"header">>
  BY LenProperties DEF DriveInv, TypeOK, Context, Control, HeaderIncomplete, Scanning
<1>2. ctx' \in Context /\ Len(reads') = 1 /\ Len(remote) = 0 /\ reads' \in Seq({"header", "body", "none"})
  BY <1>1 DEF Context
<1>3. QED
  BY <1>1, <1>2, SentIsPiece DEF DriveInv, TypeOK, Context, RequestsSent, Control, ProxyState, HasRequest, Upgraded,
     ScanInside, OneDriver, WritesCounted, HeaderIncomplete

\* What Parsed yields: it consumes a header, the request of which is known.
LEMMA ParsedType ==
    ASSUME DriveInv, Accepted(ctx)
    PROVE  LET c == Parsed(ctx) IN
           /\ c \in Context /\ c.buffer \in Seq(Sent)
           /\ c.cur \in Numbers /\ c.cur \in 1 .. Len(asked) /\ c.cur # Frame
           /\ c.protoState = "header" /\ c.numWrites = ctx.numWrites
           /\ ctx.upgrade => c.upgrade
<1> DEFINE n == HeaderSize(ctx)
           b == SubSeq(ctx.buffer, n + 1, Len(ctx.buffer))
           i == Head(ctx.buffer).req
<1>1. /\ ctx \in Context /\ ctx.buffer \in Seq(Sent) /\ ctx.buffer \in Seq(Piece)
      /\ ctx.protoState = "header" /\ HeaderFound(ctx) /\ ctx.nextCompare \in Nat
  BY DEF DriveInv, TypeOK, RequestsSent, Control, Context, Accepted, Scanning
<1>2. ctx.buffer # <<>> /\ Len(ctx.buffer) \in Nat
  BY <1>1, EmptySeq, LenProperties DEF HeaderFound
<1>3. n \in Nat
  BY <1>1, <1>2, HeaderSizeType
<1>4. b \in Seq(Sent) /\ b \in Seq(Piece)
  BY <1>1, <1>3, CutType
<1>5. i \in Numbers /\ i \in 1 .. Len(asked) /\ i # Frame /\ i \in Answers
  <2>1. Head(ctx.buffer) \in Sent
    BY <1>1, <1>2, HeadTailProperties
  <2>2. Len(asked) \in Nat
    BY LenProperties DEF DriveInv, TypeOK
  <2>3. QED BY <2>1, <2>2, ProcessorAssumption DEF Sent, Piece, Numbers, Answers, Frame, ProcessorAssumption
<1>6. PICK u \in BOOLEAN : /\ ctx.upgrade => u
                          /\ Parsed(ctx) = [ctx EXCEPT !.nextCompare = Len(ctx.buffer), !.matched = TRUE,
                                              !.buffer = b, !.cur = i, !.upgrade = u]
  <2>1. (ctx.upgrade \/ asked[i].route \in {"upgrade", "refused"}) \in BOOLEAN
    OBVIOUS
  <2>2. QED BY <1>1, <2>1 DEF Parsed, Context
<1>7. Parsed(ctx) \in Context
  <2> HIDE DEF b, i
  <2>1. QED BY <1>1, <1>2, <1>4, <1>5, <1>6 DEF Context
<1>8. /\ Parsed(ctx).buffer = b /\ Parsed(ctx).cur = i /\ Parsed(ctx).protoState = ctx.protoState
      /\ Parsed(ctx).numWrites = ctx.numWrites /\ (ctx.upgrade => Parsed(ctx).upgrade)
  BY <1>1, <1>6 DEF Context
<1>9. QED BY <1>1, <1>4, <1>5, <1>7, <1>8

LEMMA HeaderParsedStep == ASSUME DriveInv, HeaderParsed PROVE DriveInv'
<1> DEFINE c == Parsed(ctx)
<1>1. /\ pc = "header" /\ pc' = "body" /\ ctx' = [c EXCEPT !.protoState = "body"]
      /\ Accepted(ctx) /\ ~c.upgrade
      /\ UNCHANGED <<asked, inbound, gone, reads, writes, remote, handled, received, closed, silent>>
  BY DEF HeaderParsed, Accepted, Scanning
<1>2. /\ c \in Context /\ c.buffer \in Seq(Sent)
      /\ c.cur \in 1 .. Len(asked) /\ c.cur # Frame /\ c.numWrites = ctx.numWrites
      /\ ctx.upgrade => c.upgrade
  BY <1>1, ParsedType
<1> HIDE DEF c
<1>3. /\ ctx' \in Context /\ ctx'.buffer = c.buffer /\ ctx'.cur = c.cur /\ ctx'.protoState = "body"
      /\ ctx'.numWrites = c.numWrites
  BY <1>1, <1>2 DEF Context
<1>4. reads = <<>> /\ remote = <<>> /\ ctx.protoState = "header"
  BY <1>1 DEF DriveInv, Control
<1>5. QED
  BY <1>1, <1>2, <1>3, <1>4, SentIsPiece DEF DriveInv, TypeOK, RequestsSent, Control, ProxyState, HasRequest, Upgraded,
     ScanInside, OneDriver, WritesCounted

\* What Respond yields: one more write, and perhaps that it is the last.
LEMMA RespondType ==
    ASSUME NEW c \in Context, NEW header
    PROVE  LET d == Respond(c, header) IN
           /\ d \in Context /\ d.numWrites = c.numWrites + 1
           /\ d.buffer = c.buffer /\ d.cur = c.cur /\ d.upgrade = c.upgrade
           /\ d.protoState = c.protoState /\ d.nextCompare = c.nextCompare
<1>1. PICK w \in BOOLEAN : Respond(c, header) = [c EXCEPT !.numWrites = c.numWrites + 1, !.closeAfterWrite = w]
  BY DEF Respond, Context
<1> DEFINE m == c.numWrites + 1
           d == [c EXCEPT !.numWrites = m, !.closeAfterWrite = w]
<1>2. m \in Int
  BY DEF Context
<1> HIDE DEF m
<1>3. /\ d \in Context /\ d.numWrites = m /\ d.buffer = c.buffer /\ d.cur = c.cur
      /\ d.upgrade = c.upgrade /\ d.protoState = c.protoState /\ d.nextCompare = c.nextCompare
  BY <1>2 DEF Context
<1>4. Respond(c, header) = d
  BY <1>1 DEF m
<1> HIDE DEF d
<1>5. QED BY <1>3, <1>4 DEF m

LEMMA UpgradeStep == ASSUME DriveInv, Upgrade PROVE DriveInv'
<1> DEFINE c == Parsed(ctx)
           accepts == asked[c.cur].route = "upgrade"
<1>1. /\ pc = "header" /\ pc' = "idle" /\ Accepted(ctx) /\ c.upgrade /\ writes' = Append(writes, c.cur)
      /\ UNCHANGED <<asked, inbound, gone, remote, handled, received, silent>>
  BY DEF Upgrade, Accepted, Scanning
<1>2. PICK header \in BOOLEAN, state \in {"header", "ws"} :
        /\ ctx' = [Respond(c, header) EXCEPT !.protoState = state]
        /\ \/ closed' # "no" /\ closed' \in Reasons /\ UNCHANGED reads
           \/ reads' = Append(reads, "none") /\ UNCHANGED closed
  <2>1. c \in Context /\ c.protoState = "header"
    BY <1>1, ParsedType
  <2>2. CASE /\ ctx' = Respond(c, TRUE) /\ Free("upgrade") /\ UNCHANGED reads
    <3>1. Respond(c, TRUE) \in Context /\ Respond(c, TRUE).protoState = "header"
      BY <2>1, RespondType
    <3>2. ctx' = [Respond(c, TRUE) EXCEPT !.protoState = "header"]
      BY <2>2, <3>1 DEF Context
    <3>3. closed' # "no" /\ closed' \in Reasons
      BY <2>2 DEF Free, Reasons, DriveInv, TypeOK
    <3>4. QED BY <2>2, <3>2, <3>3
  <2>3. CASE /\ ctx' = [Respond(c, ~accepts) EXCEPT !.protoState = IF accepts THEN "ws" ELSE @]
             /\ reads' = Append(reads, "none") /\ UNCHANGED closed
    <3>1. Respond(c, ~accepts).protoState = "header"
      BY <2>1, RespondType
    <3>2. QED BY <2>3, <3>1
  <2>4. QED BY <2>2, <2>3 DEF Upgrade
<1>3. /\ c \in Context /\ c.buffer \in Seq(Sent)
      /\ c.cur \in Numbers /\ c.cur \in 1 .. Len(asked) /\ c.numWrites = ctx.numWrites
  BY <1>1, ParsedType
<1> HIDE DEF c
<1>4. /\ ctx' \in Context /\ ctx'.buffer = c.buffer /\ ctx'.cur = c.cur /\ ctx'.upgrade = TRUE
      /\ ctx'.protoState \in {"header", "ws"} /\ ctx'.numWrites = ctx.numWrites + 1
  <2>1. Respond(c, header) \in Context
    BY <1>3, RespondType
  <2>2. /\ Respond(c, header).buffer = c.buffer /\ Respond(c, header).cur = c.cur
        /\ Respond(c, header).upgrade = TRUE /\ Respond(c, header).numWrites = ctx.numWrites + 1
    BY <1>1, <1>3, RespondType DEF Context
  <2> HIDE DEF Respond
  <2>3. QED BY <1>2, <2>1, <2>2 DEF Context
<1>5. /\ reads = <<>> /\ remote = <<>> /\ ctx.protoState = "header"
      /\ ctx.numWrites = Len(writes) /\ writes \in Seq(Answers)
  BY <1>1 DEF DriveInv, Control, WritesCounted, TypeOK
<1>6. writes' \in Seq(Answers) /\ Len(writes') = ctx'.numWrites
  <2>1. c.cur \in Answers
    BY <1>3 DEF Answers
  <2>2. QED BY <1>1, <1>4, <1>5, <2>1, AppendProperties
<1>7. /\ reads' \in Seq({"header", "body", "none"}) /\ Len(reads') + Len(remote') <= 1
      /\ (closed' = "no" => Len(reads') + Len(remote') = 1)
  <2>1. Len(reads) = 0 /\ Len(remote') = 0 /\ reads \in Seq({"header", "body", "none"})
    BY <1>1, <1>5, EmptySeq
  <2>2. Append(reads, "none") \in Seq({"header", "body", "none"}) /\ Len(Append(reads, "none")) = 1
    BY <2>1, AppendProperties
  <2>3. (closed' # "no" /\ reads' = reads) \/ reads' = Append(reads, "none")
    BY <1>2
  <2>4. CASE reads' = reads /\ closed' # "no"
    <3>1. Len(reads') = 0
      BY <2>1, <2>4
    <3>2. QED BY <2>1, <2>4, <3>1
  <2>5. CASE reads' = Append(reads, "none")
    <3>1. Len(reads') = 1 /\ reads' \in Seq({"header", "body", "none"})
      BY <2>2, <2>5
    <3>2. QED BY <2>1, <3>1
  <2>6. QED BY <2>3, <2>4, <2>5
<1>8. closed' \in Reasons
  BY <1>2 DEF DriveInv, TypeOK
<1>9. TypeOK' /\ RequestsSent'
  BY <1>1, <1>3, <1>4, <1>6, <1>7, <1>8, SentIsPiece DEF DriveInv, TypeOK, RequestsSent
<1>10. QED
  BY <1>1, <1>4, <1>5, <1>6, <1>7, <1>9 DEF DriveInv, Control, ProxyState, HasRequest, Upgraded, ScanInside,
     OneDriver, WritesCounted

LEMMA BodyIncompleteStep == ASSUME DriveInv, BodyIncomplete PROVE DriveInv'
<1>1. /\ pc = "body" /\ pc' = "idle" /\ ctx.protoState = "body"
      /\ reads = <<>> /\ remote = <<>> /\ reads' = <<"body">>
      /\ UNCHANGED <<asked, inbound, gone, ctx, writes, remote, handled, received, closed, silent>>
  BY DEF DriveInv, Control, BodyIncomplete
<1>2. Len(reads') = 1 /\ Len(remote) = 0 /\ reads' \in Seq({"header", "body", "none"})
  BY <1>1
<1>3. QED
  BY <1>1, <1>2, SentIsPiece DEF DriveInv, TypeOK, RequestsSent, Control, ProxyState, HasRequest, Upgraded,
     ScanInside, OneDriver, WritesCounted

\* The request whose body is there, and what is known of the processor then.
LEMMA AtBody ==
    ASSUME DriveInv, BodyComplete
    PROVE  /\ pc = "body" /\ ctx.protoState = "body" /\ reads = <<>> /\ remote = <<>>
           /\ ctx.cur \in Numbers /\ ctx.cur \in 1 .. Len(asked) /\ asked[ctx.cur] \in Kind
           /\ Append(handled, ctx.cur) \in Seq(Numbers)
           /\ ctx.numWrites = Len(writes) /\ ctx \in Context
<1>1. /\ pc = "body" /\ ctx.protoState = "body" /\ reads = <<>> /\ remote = <<>>
      /\ ctx.numWrites = Len(writes) /\ ctx \in Context
  BY DEF DriveInv, Control, BodyComplete, WritesCounted, TypeOK
<1>2. ctx.cur \in Numbers /\ ctx.cur \in 1 .. Len(asked)
  <2>1. ctx.cur \in Answers /\ ctx.cur # Frame /\ ctx.cur <= Len(asked) /\ Len(asked) \in Nat
    BY <1>1, LenProperties DEF DriveInv, HasRequest, RequestsSent, Context, TypeOK
  <2>2. QED BY <2>1, ProcessorAssumption DEF Answers, Numbers, Frame, ProcessorAssumption
<1>3. asked[ctx.cur] \in Kind
  BY <1>2, ElementOfSeq, ProcessorAssumption DEF DriveInv, TypeOK, ProcessorAssumption
<1>4. Append(handled, ctx.cur) \in Seq(Numbers)
  BY <1>2, AppendProperties DEF DriveInv, TypeOK
<1>5. QED BY <1>1, <1>2, <1>3, <1>4

LEMMA HandlerFailsStep == ASSUME DriveInv, HandlerFails PROVE DriveInv'
<1>1. /\ closed' # "no" /\ closed' \in Reasons /\ pc' = "idle" /\ handled' = Append(handled, ctx.cur)
      /\ BodyComplete
      /\ UNCHANGED <<asked, inbound, gone, ctx, reads, writes, remote, received, silent>>
  BY DEF DriveInv, TypeOK, HandlerFails, Free, Reasons
<1>2. Len(reads) + Len(remote) <= 1
  BY <1>1, AtBody, EmptySeq
<1>3. QED
  BY <1>1, <1>2, AtBody, SentIsPiece DEF DriveInv, TypeOK, RequestsSent, Control, ProxyState, HasRequest, Upgraded,
     ScanInside, OneDriver, WritesCounted

LEMMA HandlerDelegatesStep == ASSUME DriveInv, HandlerDelegates PROVE DriveInv'
<1>1. /\ pc' = "idle" /\ handled' = Append(handled, ctx.cur) /\ BodyComplete
      /\ ctx' = [ctx EXCEPT !.protoState = "proxy"] /\ remote' = Append(remote, ctx.cur)
      /\ UNCHANGED <<asked, inbound, gone, reads, writes, received, closed, silent>>
  BY DEF HandlerDelegates
<1>2. /\ ctx' \in Context /\ ctx'.buffer = ctx.buffer /\ ctx'.cur = ctx.cur /\ ctx'.protoState = "proxy"
      /\ ctx'.numWrites = ctx.numWrites /\ ctx'.upgrade = ctx.upgrade
  BY <1>1, AtBody DEF Context
<1>3. remote' = <<ctx.cur>> /\ remote' \in Seq(Numbers) /\ Len(remote') = 1 /\ Len(reads) = 0 /\ remote' # <<>>
  BY SMTT(30), <1>1, AtBody
<1>4. TypeOK' /\ RequestsSent'
  BY <1>1, <1>2, <1>3, AtBody, SentIsPiece DEF DriveInv, TypeOK, RequestsSent
<1>5. QED
  BY <1>1, <1>2, <1>3, <1>4, AtBody DEF DriveInv, Control, ProxyState, HasRequest, Upgraded, ScanInside,
     OneDriver, WritesCounted

\* NextRequest leaves the buffer what follows the body, and starts a new scan.
LEMMA NextRequestType ==
    ASSUME DriveInv, ctx.cur \in 1 .. Len(asked)
    PROVE  LET c == NextRequest(ctx) IN
           /\ c \in Context /\ c.buffer \in Seq(Sent) /\ c.cur = ctx.cur
           /\ c.protoState = "header" /\ c.nextCompare = 0 /\ c.numWrites = ctx.numWrites
<1> DEFINE n == asked[ctx.cur].length
           b == IF n > 0 THEN SubSeq(ctx.buffer, n + 1, Len(ctx.buffer)) ELSE ctx.buffer
<1>1. ctx \in Context /\ ctx.buffer \in Seq(Sent) /\ ctx.buffer \in Seq(Piece)
  BY DEF DriveInv, TypeOK, RequestsSent, Context
<1>2. asked[ctx.cur] \in Kind
  BY ElementOfSeq, ProcessorAssumption DEF DriveInv, TypeOK, ProcessorAssumption
<1>3. n > 0 => n \in Nat
  BY <1>2 DEF Kind
<1>4. b \in Seq(Sent) /\ b \in Seq(Piece)
  BY <1>1, <1>3, CutType
<1>5. NextRequest(ctx) = [ctx EXCEPT !.buffer = b, !.protoState = "header", !.nextCompare = 0, !.matched = FALSE]
  BY <1>1 DEF NextRequest
<1> HIDE DEF b
<1> DEFINE d == [ctx EXCEPT !.buffer = b, !.protoState = "header", !.nextCompare = 0, !.matched = FALSE]
<1>6. /\ d \in Context /\ d.buffer = b /\ d.cur = ctx.cur /\ d.protoState = "header"
      /\ d.nextCompare = 0 /\ d.numWrites = ctx.numWrites
  BY <1>1, <1>4 DEF Context
<1> HIDE DEF d
<1>7. QED BY <1>4, <1>5, <1>6 DEF d

LEMMA HandlerRepliesStep == ASSUME DriveInv, HandlerReplies PROVE DriveInv'
<1> DEFINE c == NextRequest(ctx)
<1>1. /\ pc' = "header" /\ handled' = Append(handled, ctx.cur) /\ BodyComplete
      /\ ctx' = Respond(c, TRUE) /\ writes' = Append(writes, ctx.cur)
      /\ UNCHANGED <<asked, inbound, gone, reads, remote, received, closed, silent>>
  BY DEF HandlerReplies
<1>2. /\ c \in Context /\ c.buffer \in Seq(Sent) /\ c.cur = ctx.cur
      /\ c.protoState = "header" /\ c.nextCompare = 0 /\ c.numWrites = ctx.numWrites
  BY <1>1, AtBody, NextRequestType
<1> HIDE DEF c
<1>3. /\ ctx' \in Context /\ ctx'.buffer \in Seq(Sent) /\ ctx'.cur = ctx.cur
      /\ ctx'.protoState = "header" /\ ctx'.nextCompare = 0 /\ ctx'.numWrites = ctx.numWrites + 1
      /\ Len(ctx'.buffer) \in Nat
  BY ZenonT(60), <1>1, <1>2, RespondType, LenProperties
<1>4. writes' \in Seq(Answers) /\ Len(writes') = Len(writes) + 1
  <2>1. ctx.cur \in Answers /\ writes \in Seq(Answers)
    BY <1>1, AtBody DEF Answers, DriveInv, TypeOK
  <2>2. QED BY <1>1, <2>1, AppendProperties
<1>5. /\ pc = "body" /\ ctx.protoState = "body" /\ reads = <<>> /\ remote = <<>>
      /\ handled' \in Seq(Numbers) /\ ctx.numWrites = Len(writes)
      /\ pc' = "header" /\ UNCHANGED <<asked, inbound, gone, reads, remote, received, closed, silent>>
  BY <1>1, AtBody
<1>6. TypeOK'
  <2>1. /\ asked \in Seq(Kinds) /\ inbound \in Seq(Piece) /\ gone \in BOOLEAN
        /\ reads \in Seq({"header", "body", "none"}) /\ remote \in Seq(Numbers)
        /\ received \in Seq(Answers) /\ silent \subseteq Numbers /\ closed \in Reasons
    BY DEF DriveInv, TypeOK
  <2>2. QED BY <1>3, <1>4, <1>5, <2>1 DEF TypeOK
<1>7. RequestsSent'
  BY <1>1, <1>3, SentIsPiece DEF DriveInv, RequestsSent
<1>8. QED
  BY <1>3, <1>4, <1>5, <1>6, <1>7 DEF DriveInv, Control, ProxyState, HasRequest, Upgraded, ScanInside,
     OneDriver, WritesCounted

LEMMA ResumeStep == ASSUME DriveInv, Resume PROVE DriveInv'
<1> DEFINE c == NextRequest(ctx)
<1>1. /\ pc = "idle" /\ pc' = "header" /\ remote # <<>> /\ remote' = Tail(remote)
      /\ UNCHANGED <<asked, inbound, gone, reads, handled, received, closed>>
  BY DEF Resume
<1>2. PICK w \in BOOLEAN, some \in BOOLEAN :
        /\ ctx' = [c EXCEPT !.closeAfterWrite = w, !.numWrites = IF some THEN @ + 1 ELSE @]
        /\ writes' = IF some THEN Append(writes, Head(remote)) ELSE writes
        /\ silent' = IF some THEN silent ELSE silent \cup {Head(remote)}
  BY DEF Resume
<1>3. /\ ctx.protoState = "proxy" /\ Head(remote) \in Numbers /\ remote' = <<>> /\ reads = <<>>
      /\ ctx.numWrites = Len(writes)
  <2>1. /\ Head(remote) \in Numbers /\ Tail(remote) \in Seq(Numbers) /\ Len(Tail(remote)) = Len(remote) - 1
        /\ Len(remote) \in Nat \ {0} /\ Len(reads) \in Nat
    BY <1>1, HeadTailProperties, EmptySeq, LenProperties DEF DriveInv, TypeOK
  <2>2. Len(Tail(remote)) = 0 /\ Len(reads) = 0
    BY <1>1, <2>1 DEF DriveInv, OneDriver
  <2>3. Tail(remote) = <<>> /\ reads = <<>>
    BY <2>1, <2>2, EmptySeq DEF DriveInv, TypeOK
  <2>4. ctx.protoState = "proxy"
    BY <1>1 DEF DriveInv, ProxyState
  <2>5. QED BY <1>1, <2>1, <2>3, <2>4 DEF DriveInv, WritesCounted
<1>4. ctx.cur \in 1 .. Len(asked)
  BY <1>3, ProcessorAssumption, LenProperties
  DEF DriveInv, HasRequest, RequestsSent, TypeOK, Context, Answers, Numbers, Frame, ProcessorAssumption
<1>5. /\ c \in Context /\ c.buffer \in Seq(Sent) /\ c.cur = ctx.cur
      /\ c.protoState = "header" /\ c.nextCompare = 0 /\ c.numWrites = ctx.numWrites
  BY <1>4, NextRequestType
<1>6. writes' \in Seq(Answers) /\ Len(writes') = IF some THEN Len(writes) + 1 ELSE Len(writes)
  <2>1. Head(remote) \in Answers /\ writes \in Seq(Answers)
    BY <1>3 DEF Answers, DriveInv, TypeOK
  <2>2. QED BY <1>2, <2>1, AppendProperties
<1>7. silent' \subseteq Numbers
  BY <1>2, <1>3 DEF DriveInv, TypeOK
<1> HIDE DEF c
<1>8. /\ ctx' \in Context /\ ctx'.buffer \in Seq(Sent) /\ ctx'.cur = ctx.cur
      /\ ctx'.protoState = "header" /\ ctx'.nextCompare = 0 /\ ctx'.numWrites = Len(writes')
      /\ Len(ctx'.buffer) \in Nat
  <2> DEFINE m == IF some THEN c.numWrites + 1 ELSE c.numWrites
  <2>1. m \in Int
    BY <1>5 DEF Context
  <2>2. m = Len(writes')
    BY <1>3, <1>5, <1>6
  <2>3. ctx' = [c EXCEPT !.closeAfterWrite = w, !.numWrites = m]
    BY <1>2
  <2> HIDE DEF m
  <2>4. /\ ctx' \in Context /\ ctx'.buffer = c.buffer /\ ctx'.cur = c.cur
        /\ ctx'.protoState = c.protoState /\ ctx'.nextCompare = c.nextCompare /\ ctx'.numWrites = m
    BY <1>5, <2>1, <2>3 DEF Context
  <2>5. QED BY <1>5, <2>2, <2>4, LenProperties
<1>9. remote' \in Seq(Numbers) /\ TypeOK' /\ RequestsSent'
  BY <1>1, <1>3, <1>6, <1>7, <1>8, EmptySeq, SentIsPiece DEF DriveInv, TypeOK, RequestsSent
<1>10. QED
  BY <1>1, <1>3, <1>6, <1>8, <1>9 DEF DriveInv, Control, ProxyState, HasRequest, Upgraded, ScanInside,
     OneDriver, WritesCounted

LEMMA FramesStep == ASSUME DriveInv, Frames PROVE DriveInv'
<1>1. /\ pc = "ws" /\ pc' = "idle" /\ reads' = Append(reads, "none")
      /\ UNCHANGED <<asked, inbound, gone, remote, handled, received, closed, silent>>
  BY DEF Frames
<1>2. PICK replies \in 0 .. 2, kept \in 0 .. Len(ctx.buffer), w \in BOOLEAN :
        /\ writes' = writes \o [i \in 1 .. replies |-> Frame]
        /\ ctx' = [ctx EXCEPT !.buffer = SubSeq(@, Len(@) - kept + 1, Len(@)), !.closeAfterWrite = w]
  BY DEF Frames
<1>3. ctx \in Context /\ ctx.buffer \in Seq(Sent) /\ ctx.buffer \in Seq(Piece) /\ Len(ctx.buffer) \in Nat
  BY LenProperties DEF DriveInv, TypeOK, RequestsSent, Context
<1> DEFINE n == Len(ctx.buffer) - kept
           b == SubSeq(ctx.buffer, n + 1, Len(ctx.buffer))
<1>4. b \in Seq(Sent) /\ b \in Seq(Piece)
  <2>1. n \in Nat
    BY <1>3
  <2> HIDE DEF n
  <2>2. QED BY <1>3, <2>1, CutType
<1>5. ctx' = [ctx EXCEPT !.buffer = b, !.closeAfterWrite = w]
  BY <1>2
<1> HIDE DEF b
<1>6. /\ ctx' \in Context /\ ctx'.buffer \in Seq(Sent) /\ ctx'.cur = ctx.cur
      /\ ctx'.protoState = "ws" /\ ctx'.upgrade = ctx.upgrade /\ ctx.protoState = "ws"
  <2>1. ctx.protoState = "ws"
    BY <1>1 DEF DriveInv, Control
  <2>2. QED BY <1>3, <1>4, <1>5, <2>1 DEF Context
<1>7. writes' \in Seq(Answers)
  <2>1. [i \in 1 .. replies |-> Frame] \in Seq(Answers)
    BY DEF Answers
  <2>2. QED BY <1>2, <2>1, ConcatProperties DEF DriveInv, TypeOK
<1>8. reads = <<>> /\ remote = <<>> /\ reads' = <<"none">>
  BY <1>1 DEF DriveInv, Control
<1>9. Len(reads') = 1 /\ Len(remote) = 0 /\ reads' \in Seq({"header", "body", "none"})
  BY <1>8
<1>10. TypeOK' /\ RequestsSent'
  BY <1>1, <1>6, <1>7, <1>9, SentIsPiece DEF DriveInv, TypeOK, RequestsSent
<1>11. QED
  BY <1>1, <1>6, <1>8, <1>9, <1>10 DEF DriveInv, Control, ProxyState, HasRequest, Upgraded, ScanInside,
     OneDriver, WritesCounted

LEMMA StutterStep == ASSUME DriveInv, UNCHANGED vars PROVE DriveInv'
  BY SentIsPiece DEF DriveInv, vars, TypeOK, RequestsSent, Control, ProxyState, HasRequest, Upgraded, ScanInside,
     OneDriver, WritesCounted

LEMMA NextInv == DriveInv /\ [Next]_vars => DriveInv'
<1> SUFFICES ASSUME DriveInv, [Next]_vars PROVE DriveInv'
  OBVIOUS
<1>1. CASE Client
  BY <1>1, AbortStep, SendStep DEF Client
<1>2. CASE Library \/ ReadTimeout
  BY <1>2, ReadDataStep, ReadErrorStep, WriteResult DEF Library, ReadFailed, ReadTimeout
<1>3. CASE Agent
  BY <1>3, PanicStep, RefusalStep, HeaderIncompleteStep, HeaderParsedStep, UpgradeStep, BodyIncompleteStep,
     HandlerFailsStep, HandlerDelegatesStep, HandlerRepliesStep, FramesStep DEF Agent
<1>4. QED BY <1>1, <1>2, <1>3, ResumeStep, StutterStep DEF Next

\* The inductive invariant holds in every reachable state.
THEOREM Driving == Spec => []DriveInv
<1>1. QED BY InitInv, NextInv, PTL DEF Spec

\* The variables of a connection keep their types, and the scan for the end of a
\* header begins inside the buffer.
THEOREM TypeCorrectness == Spec => []TypeOK
<1>1. DriveInv => TypeOK
  BY DEF DriveInv
<1>2. QED BY <1>1, Driving, PTL

\* Between two events exactly one read, or the proxy, moves an open connection on,
\* whatever the client pipelines and whatever fails.
THEOREM OneThingDrives == Spec => []OneDriver
<1>1. DriveInv => OneDriver
  BY DEF DriveInv
<1>2. QED BY <1>1, Driving, PTL

\* numWrites is the number of responses on their way out.
THEOREM WritesAreCounted == Spec => []WritesCounted
<1>1. DriveInv => WritesCounted
  BY DEF DriveInv
<1>2. QED BY <1>1, Driving, PTL

\* CloseAfterWrite discards no response of a connection that is not upgraded: the
\* last write counted is the last one there is.
THEOREM NoResponseDiscarded == Spec => ClosesAfterLatestWrite
<1> DEFINE DiscardsNone == closed = "no" /\ closed' = "written" /\ ~ctx.upgrade => writes' = <<>>
<1>1. DriveInv /\ [Next]_vars => [DiscardsNone]_vars
  <2> SUFFICES ASSUME DriveInv, Next, closed = "no", closed' = "written", ~ctx.upgrade
               PROVE  writes' = <<>>
    OBVIOUS
  <2>1. WriteDone
    BY DEF Next, Client, Library, ReadTimeout, Agent, Send, Abort, ReadData, ReadFailed, ReadError, WriteFailed,
       Free, Panic, HeaderTooLarge, HeaderIncomplete, HeaderRefused, HeaderParsed, Upgrade, BodyIncomplete,
       HandlerFails, HandlerDelegates, HandlerReplies, Frames, Resume
  <2>2. ctx.numWrites - 1 = 0 /\ writes # <<>> /\ writes' = Tail(writes)
    BY <2>1 DEF WriteDone, LastWrite
  <2>3. ctx.numWrites = Len(writes) /\ ctx.numWrites \in Int
    BY DEF DriveInv, Upgraded, WritesCounted, TypeOK, Context
  <2>4. Len(Tail(writes)) = 0 /\ Tail(writes) \in Seq(Answers)
    BY <2>2, <2>3, HeadTailProperties DEF DriveInv, TypeOK
  <2>5. QED BY <2>2, <2>4, EmptySeq
<1>2. QED BY <1>1, Driving, PTL DEF Spec, ClosesAfterLatestWrite
-----------------------------------------------------------------------------
(***************************************************************************)
(* The order of requests and responses: the rest of the inductive          *)
(* invariant, action by action, given that DriveInv holds.                 *)
(***************************************************************************)
\* The sequences of numbers of the invariant are sequences of answers.
LEMMA AnswerSeqs ==
    ASSUME DriveInv
    PROVE  /\ received \in Seq(Answers) /\ writes \in Seq(Answers)
           /\ received \o writes \in Seq(Answers)
           /\ handled \in Seq(Answers) /\ handled \in Seq(Numbers)
           /\ remote \in Seq(Answers) /\ Numbers \subseteq Answers
<1>1. Numbers \subseteq Answers
  BY DEF Answers
<1>2. QED BY <1>1, SeqMonotonic, ConcatProperties DEF DriveInv, TypeOK

LEMMA DropConcat ==
    ASSUME NEW b \in Seq(Piece), NEW t \in Seq(Piece), NEW n \in 0 .. Len(b)
    PROVE  LET v == SubSeq(b, n + 1, Len(b)) \o t
               w == b \o t
           IN  /\ Len(v) \in Nat /\ Len(w) \in Nat /\ Len(w) = Len(v) + n
               /\ DOMAIN v = 1 .. Len(v) /\ DOMAIN w = 1 .. Len(w)
               /\ v \in Seq(Piece) /\ w \in Seq(Piece)
               /\ \A j \in 1 .. Len(v) : v[j] = w[j + n]
               /\ b # <<>> => w[1] = Head(b)
<1> DEFINE s == SubSeq(b, n + 1, Len(b))
<1>1. /\ s \in Seq(Piece) /\ Len(b) \in Nat /\ Len(t) \in Nat /\ Len(s) = Len(b) - n
      /\ \A j \in 1 .. Len(s) : s[j] = b[j + n]
  BY SubSeqProperties
<1> HIDE DEF s
<1>2. /\ s \o t \in Seq(Piece) /\ Len(s \o t) = Len(s) + Len(t)
      /\ \A j \in 1 .. Len(s) + Len(t) : (s \o t)[j] = IF j <= Len(s) THEN s[j] ELSE t[j - Len(s)]
  BY <1>1, ConcatProperties
<1>3. /\ b \o t \in Seq(Piece) /\ Len(b \o t) = Len(b) + Len(t)
      /\ \A j \in 1 .. Len(b) + Len(t) : (b \o t)[j] = IF j <= Len(b) THEN b[j] ELSE t[j - Len(b)]
  BY ConcatProperties
<1>4. \A j \in 1 .. Len(s \o t) : (s \o t)[j] = (b \o t)[j + n]
  <2> SUFFICES ASSUME NEW j \in 1 .. Len(s \o t)
               PROVE  (s \o t)[j] = (b \o t)[j + n]
    OBVIOUS
  <2>0. /\ j \in Nat /\ j + n \in 1 .. Len(b) + Len(t) /\ j \in 1 .. Len(s) + Len(t)
        /\ (j <= Len(s) <=> j + n <= Len(b)) /\ (j + n) - Len(b) = j - Len(s)
    BY <1>1, <1>2
  <2>1. CASE j <= Len(s)
    <3>1. (s \o t)[j] = s[j] /\ j \in 1 .. Len(s)
      BY <2>0, <2>1, <1>2, <1>1
    <3>2. (b \o t)[j + n] = b[j + n]
      BY <2>0, <2>1, <1>3
    <3>3. QED BY <3>1, <3>2, <1>1
  <2>2. CASE ~(j <= Len(s))
    <3>1. (s \o t)[j] = t[j - Len(s)]
      BY <2>0, <2>2, <1>2
    <3>2. (b \o t)[j + n] = t[(j + n) - Len(b)]
      BY <2>0, <2>2, <1>3
    <3>3. QED BY <3>1, <3>2, <2>0
  <2>3. QED BY <2>1, <2>2
<1>5. b # <<>> => (b \o t)[1] = Head(b)
  BY <1>3, HeadTailProperties, EmptySeq
<1>6. Len(b \o t) = Len(s \o t) + n
  BY <1>1, <1>2, <1>3
<1>7. DOMAIN (s \o t) = 1 .. Len(s \o t) /\ DOMAIN (b \o t) = 1 .. Len(b \o t)
  BY <1>2, <1>3
<1>8. Len(s \o t) \in Nat /\ Len(b \o t) \in Nat
  BY <1>1, <1>2, <1>3
<1>9. QED BY Zenon, <1>2, <1>3, <1>4, <1>5, <1>6, <1>7, <1>8 DEF s

\* What is left of a stream in order is in order.
LEMMA InOrderDrop ==
    ASSUME NEW b \in Seq(Piece), NEW t \in Seq(Piece), NEW n \in 0 .. Len(b), NEW i,
           InOrder(b \o t, i)
    PROVE  InOrder(SubSeq(b, n + 1, Len(b)) \o t, i)
<1>1. PICK v, w : v = SubSeq(b, n + 1, Len(b)) \o t /\ w = b \o t
  OBVIOUS
<1>2. /\ Len(v) \in Nat /\ Len(w) \in Nat /\ Len(w) = Len(v) + n
      /\ DOMAIN v = 1 .. Len(v) /\ DOMAIN w = 1 .. Len(w)
      /\ \A j \in 1 .. Len(v) : v[j] = w[j + n]
  BY ZenonT(60), <1>1, DropConcat
<1>3. \A j \in 1 .. Len(v) : j + n \in 1 .. Len(w)
  BY <1>2
<1>4. InOrder(w, i)
  BY <1>1
<1>5. \A j, k \in DOMAIN v : j < k => Before(v[j], v[k])
  <2> SUFFICES ASSUME NEW j \in DOMAIN v, NEW k \in DOMAIN v, j < k PROVE Before(v[j], v[k])
    OBVIOUS
  <2>1. j + n < k + n /\ j + n \in DOMAIN w /\ k + n \in DOMAIN w
    BY <1>2, <1>3
  <2>2. Before(w[j + n], w[k + n])
    BY <2>1, <1>4 DEF InOrder
  <2>3. QED BY <2>2, <1>2
<1>6. \A j \in DOMAIN v : Before(Token(i, 1), v[j])
  BY <1>2, <1>3, <1>4 DEF InOrder
<1>7. InOrder(v, i)
  BY <1>5, <1>6 DEF InOrder
<1>8. QED BY <1>7, <1>1

\* What follows the first line of the request at the front.
LEMMA InOrderParsed ==
    ASSUME NEW b \in Seq(Piece), NEW t \in Seq(Piece), NEW n \in 1 .. Len(b), NEW i,
           InOrder(b \o t, i), Head(b).pos = 1
    PROVE  /\ InOrder(SubSeq(b, n + 1, Len(b)) \o t, Head(b).req)
           /\ i < Head(b).req
<1>1. PICK v, w : v = SubSeq(b, n + 1, Len(b)) \o t /\ w = b \o t
  OBVIOUS
<1>0. Len(b) \in Nat /\ n \in 0 .. Len(b) /\ b # <<>>
  BY LenProperties, EmptySeq
<1>2. /\ Len(v) \in Nat /\ Len(w) \in Nat /\ Len(w) = Len(v) + n
      /\ DOMAIN v = 1 .. Len(v) /\ DOMAIN w = 1 .. Len(w)
      /\ \A j \in 1 .. Len(v) : v[j] = w[j + n]
      /\ w[1] = Head(b)
  BY ZenonT(60), <1>0, <1>1, DropConcat
<1>3. 1 \in DOMAIN w /\ \A j \in 1 .. Len(v) : j + n \in DOMAIN w /\ 1 < j + n
  BY <1>2
<1>4. InOrder(w, i)
  BY <1>1
<1>5. \A j \in DOMAIN v : Before(Head(b), v[j])
  BY <1>2, <1>3, <1>4 DEF InOrder
<1>6. \A j \in DOMAIN v : Before(Token(Head(b).req, 1), v[j])
  BY <1>5 DEF Before, Token
<1>7. Before(Token(i, 1), Head(b))
  BY <1>2, <1>3, <1>4 DEF InOrder
<1>8. Head(b) \in Piece
  BY <1>0, HeadTailProperties
<1>9. i < Head(b).req
  BY <1>7, <1>8 DEF Before, Token
<1>10. InOrder(v, i)
  BY <1>0, <1>1, InOrderDrop
<1>11. InOrder(v, Head(b).req)
  BY <1>6, <1>10 DEF InOrder
<1>12. QED BY <1>9, <1>11, <1>1

\* A step that parses, handles and answers nothing.
LEMMA QuietStep ==
    ASSUME DriveInv, OrderInv,
           UNCHANGED <<asked, writes, remote, handled, received, silent>>,
           ctx'.buffer \o inbound' = ctx.buffer \o inbound,
           ctx'.cur = ctx.cur, ctx'.upgrade = ctx.upgrade, ctx'.protoState = ctx.protoState,
           ctx'.matched = ctx.matched,
           closed' = "no" => closed = "no",
           BodyAwaited' => BodyAwaited
    PROVE  OrderInv'
<1>1. AnswersOfSent' /\ UpgradeEnds' /\ HandledInOrder' /\ SilentIsPast'
  BY DEF OrderInv, AnswersOfSent, UpgradeEnds, HandledInOrder, SilentIsPast
<1>2. TokensInOrder'
  BY DEF OrderInv, TokensInOrder
<1>3. Ordinary' = Ordinary
  BY DEF Ordinary
<1>4. ProxyOnLast' /\ ResponsesMatchRequests'
  BY <1>3 DEF OrderInv, ProxyOnLast, ResponsesMatchRequests
<1>5. QED BY <1>1, <1>2, <1>4 DEF OrderInv

LEMMA QuietSteps ==
    ASSUME DriveInv, OrderInv,
           \/ Abort \/ Panic \/ HeaderTooLarge \/ HeaderIncomplete \/ HeaderRefused
           \/ BodyIncomplete \/ ReadError \/ UNCHANGED vars
    PROVE  OrderInv'
<1>1. /\ UNCHANGED <<asked, inbound, writes, remote, handled, received, silent>>
      /\ ctx'.buffer = ctx.buffer /\ ctx'.cur = ctx.cur /\ ctx'.upgrade = ctx.upgrade
      /\ ctx'.protoState = ctx.protoState /\ ctx'.matched = ctx.matched
  BY DEF Abort, Panic, HeaderTooLarge, HeaderIncomplete, HeaderRefused, BodyIncomplete, ReadError, vars,
         DriveInv, TypeOK, Context
<1>2. closed' = "no" => closed = "no"
  BY DEF Abort, Panic, HeaderTooLarge, HeaderIncomplete, HeaderRefused, BodyIncomplete, ReadError, vars, Free
<1>3. BodyAwaited' => BodyAwaited
  <2>1. CASE Abort \/ UNCHANGED vars
    BY <2>1 DEF Abort, vars, BodyAwaited
  <2>2. CASE Panic \/ HeaderTooLarge \/ HeaderIncomplete \/ HeaderRefused
    <3>1. ctx.protoState = "header"
      BY <2>2 DEF Panic, HeaderTooLarge, HeaderIncomplete, HeaderRefused, Scanning, DriveInv, Control
    <3>2. QED BY <1>1, <3>1 DEF BodyAwaited
  <2>3. CASE BodyIncomplete
    BY <1>1, <2>3 DEF BodyIncomplete, BodyAwaited
  <2>4. CASE ReadError
    BY <1>1, <2>4 DEF ReadError, BodyAwaited
  <2>5. QED BY <2>1, <2>2, <2>3, <2>4
<1>4. QED BY <1>1, <1>2, <1>3, QuietStep

LEMMA ReadDataOrder == ASSUME DriveInv, OrderInv, ReadData PROVE OrderInv'
<1>1. PICK n \in 1 .. Len(inbound) :
        /\ ctx' = [ctx EXCEPT !.buffer = @ \o SubSeq(inbound, 1, n)]
        /\ inbound' = SubSeq(inbound, n + 1, Len(inbound))
  BY DEF ReadData
<1>2. ctx \in Context /\ ctx.buffer \in Seq(Piece) /\ inbound \in Seq(Piece) /\ Len(inbound) \in Nat
  BY DEF DriveInv, TypeOK, Context
<1>3. /\ ctx'.buffer = ctx.buffer \o SubSeq(inbound, 1, n)
      /\ ctx'.cur = ctx.cur /\ ctx'.upgrade = ctx.upgrade /\ ctx'.protoState = ctx.protoState
      /\ ctx'.matched = ctx.matched
  BY <1>1, <1>2 DEF Context
<1>4. ctx'.buffer \o inbound' = ctx.buffer \o inbound
  <2>1. ASSUME NEW w \in Seq(Piece), NEW m \in 1 .. Len(w)
        PROVE  /\ SubSeq(w, 1, m) \in Seq(Piece) /\ SubSeq(w, m + 1, Len(w)) \in Seq(Piece)
               /\ SubSeq(w, 1, m) \o SubSeq(w, m + 1, Len(w)) = w
    <3>1. Len(w) \in Nat
      OBVIOUS
    <3>2. SubSeq(w, 1, m) \in Seq(Piece) /\ SubSeq(w, m + 1, Len(w)) \in Seq(Piece)
      BY <2>1, <3>1, CutType
    <3>3. Len(SubSeq(w, 1, m)) = m /\ Len(SubSeq(w, m + 1, Len(w))) = Len(w) - m
      BY <2>1
    <3>4. QED BY <2>1, <3>1, <3>2, <3>3
  <2>2. /\ SubSeq(inbound, 1, n) \in Seq(Piece) /\ inbound' \in Seq(Piece)
        /\ SubSeq(inbound, 1, n) \o inbound' = inbound
    BY <1>1, <1>2, <2>1
  <2>3. ASSUME NEW b \in Seq(Piece), NEW v \in Seq(Piece), NEW u \in Seq(Piece)
        PROVE (b \o v) \o u = b \o (v \o u)
    BY ConcatAssociative
  <2>4. PICK b \in Seq(Piece), v \in Seq(Piece), u \in Seq(Piece) :
          b = ctx.buffer /\ v = SubSeq(inbound, 1, n) /\ u = inbound'
    BY <1>2, <2>2
  <2>5. v \o u = inbound /\ (b \o v) \o u = b \o (v \o u)
    BY ZenonT(60), <2>2, <2>3, <2>4
  <2>6. ctx'.buffer \o inbound' = (b \o v) \o u /\ ctx.buffer \o inbound = b \o inbound
    BY <1>3, <2>4
  <2>7. QED BY <2>5, <2>6
<1>5. BodyAwaited' => BodyAwaited
  BY <1>3 DEF BodyAwaited, ReadData
<1>6. QED BY <1>3, <1>4, <1>5, QuietStep DEF ReadData

LEMMA WriteOrder == ASSUME DriveInv, OrderInv, WriteDone \/ WriteFailed PROVE OrderInv'
<1>1. /\ UNCHANGED <<asked, inbound, pc, reads, remote, handled, silent>>
      /\ ctx' = [ctx EXCEPT !.numWrites = ctx.numWrites - 1] /\ writes # <<>> /\ writes' = Tail(writes)
      /\ \/ received' = received /\ closed' # "no"
         \/ received' = Append(received, Head(writes)) /\ (closed' = "no" => closed = "no")
  BY Zenon DEF WriteDone, WriteFailed, Free
<1>2. /\ ctx'.buffer = ctx.buffer /\ ctx'.cur = ctx.cur /\ ctx'.upgrade = ctx.upgrade
      /\ ctx'.protoState = ctx.protoState /\ ctx'.matched = ctx.matched
  BY <1>1 DEF DriveInv, TypeOK, Context
<1>3. AnswersOfSent'
  <2>1. received \in Seq(0 .. Len(asked)) /\ writes \in Seq(0 .. Len(asked))
    BY DEF OrderInv, AnswersOfSent
  <2>2. Head(writes) \in 0 .. Len(asked) /\ Tail(writes) \in Seq(0 .. Len(asked))
    BY <1>1, <2>1, HeadTailProperties
  <2>3. Append(received, Head(writes)) \in Seq(0 .. Len(asked))
    BY <2>1, <2>2, AppendProperties
  <2>4. QED BY <1>1, <2>1, <2>2, <2>3 DEF AnswersOfSent
<1>4. UpgradeEnds' /\ HandledInOrder' /\ SilentIsPast' /\ TokensInOrder'
  BY <1>1, <1>2 DEF OrderInv, UpgradeEnds, HandledInOrder, SilentIsPast, TokensInOrder, BodyAwaited
<1>5. Ordinary' = Ordinary
  BY <1>1 DEF Ordinary
<1>6. ProxyOnLast'
  BY <1>1, <1>2, <1>5 DEF OrderInv, ProxyOnLast
<1>7. ResponsesMatchRequests'
  <2>1. CASE received' = received /\ closed' # "no"
    BY <2>1 DEF ResponsesMatchRequests
  <2>2. CASE received' = Append(received, Head(writes)) /\ (closed' = "no" => closed = "no")
    <3>1. received' \o writes' = received \o writes
      BY <1>1, <2>2, AnswerSeqs, ConcatMove
    <3>2. QED BY <1>1, <1>5, <2>2, <3>1 DEF OrderInv, ResponsesMatchRequests
  <2>3. QED BY <1>1, <2>1, <2>2
<1>8. QED BY <1>3, <1>4, <1>6, <1>7 DEF OrderInv

\* The tokens of a request are in order.
LEMMA SendOrder == ASSUME DriveInv, DriveInv', OrderInv, NEW k \in Kinds, Send(k) PROVE OrderInv'
<1>1. /\ asked' = Append(asked, k) /\ inbound' = inbound \o Tokens(Len(asked) + 1, k)
      /\ UNCHANGED <<ctx, pc, reads, writes, remote, handled, received, silent, closed>>
  BY DEF Send
<1>2. asked \in Seq(Kinds) /\ Len(asked) \in Nat /\ Len(asked') = Len(asked) + 1
  BY <1>1 DEF DriveInv, TypeOK
<1>3. AnswersOfSent'
  <2>1. 0 .. Len(asked) \subseteq 0 .. Len(asked')
    BY <1>2
  <2>2. QED BY <1>1, <2>1, SeqMonotonic DEF OrderInv, AnswersOfSent
<1>4. UpgradeEnds' /\ HandledInOrder' /\ SilentIsPast'
  BY <1>1 DEF OrderInv, UpgradeEnds, HandledInOrder, SilentIsPast, BodyAwaited
<1>5. \A i \in 0 .. Len(asked) : i \in Ordinary' <=> i \in Ordinary
  BY <1>1, <1>2 DEF Ordinary
<1>6. ProxyOnLast'
  <2>1. remote # <<>> => ctx.cur \in Ordinary'
    <3>1. ctx.cur \in Ordinary => ctx.cur \in 0 .. Len(asked)
      BY <1>2 DEF Ordinary
    <3>2. QED BY <1>5, <3>1 DEF OrderInv, ProxyOnLast
  <2>2. QED BY <1>1, <2>1 DEF OrderInv, ProxyOnLast
<1>7. ResponsesMatchRequests'
  <2>1. received \o writes \in Seq(0 .. Len(asked))
    BY ConcatProperties DEF OrderInv, AnswersOfSent
  <2>2. PICK s \in Seq(0 .. Len(asked)) : s = received \o writes
    BY <2>1
  <2>3. \A i \in 1 .. Len(s) : s[i] \in Ordinary' <=> s[i] \in Ordinary
    BY <1>5, ElementOfSeq
  <2>4. Only(s, Ordinary') = Only(s, Ordinary)
    BY <2>3, OnlySame
  <2>5. Only(received \o writes, Ordinary)' = Only(received \o writes, Ordinary)
    BY <1>1, <2>2, <2>4
  <2>6. QED BY <1>1, <2>5 DEF OrderInv, ResponsesMatchRequests
<1>8. TokensInOrder'
  <2> DEFINE v == ctx.buffer \o inbound
             u == Tokens(Len(asked) + 1, k)
  <2>1. /\ ctx.buffer \in Seq(Sent) /\ inbound \in Seq(Sent) /\ ctx.cur <= Len(asked)
        /\ ctx.buffer \in Seq(Piece) /\ inbound \in Seq(Piece) /\ ctx.cur \in Answers
    BY DEF DriveInv, RequestsSent, TypeOK, Context
  <2>2. v \in Seq(Sent)
    BY <2>1, ConcatProperties
  <2>3. /\ u = [p \in 1 .. k.head + k.body |-> Token(Len(asked) + 1, p)]
        /\ k.head + k.body \in Nat
    BY ProcessorAssumption DEF Tokens, ProcessorAssumption, Kind
  <2> HIDE DEF u
  <2>4. /\ u \in Seq([req : {Len(asked) + 1}, pos : Nat \ {0}])
        /\ Len(u) = k.head + k.body
        /\ \A p \in 1 .. Len(u) : u[p] = Token(Len(asked) + 1, p)
    <3>1. \A p \in 1 .. k.head + k.body : Token(Len(asked) + 1, p) \in [req : {Len(asked) + 1}, pos : Nat \ {0}]
      BY <2>3 DEF Token
    <3>2. Len(u) = k.head + k.body
      BY <2>3
    <3>3. \A p \in 1 .. k.head + k.body : u[p] = Token(Len(asked) + 1, p)
      BY <2>3
    <3>4. u \in Seq([req : {Len(asked) + 1}, pos : Nat \ {0}])
      <4>1. PICK m, T : m \in Nat /\ m = k.head + k.body /\ T = [req : {Len(asked) + 1}, pos : Nat \ {0}]
        BY <2>3
      <4>2. \A p \in 1 .. m : u[p] \in T
        BY <3>1, <3>3, <4>1
      <4>3. u = [p \in 1 .. m |-> u[p]]
        BY <2>3, <4>1
      <4>4. u \in Seq(T)
        BY <4>1, <4>2, <4>3, ListedIsSequence
      <4>5. QED BY <4>1, <4>4
    <3>5. \A p \in 1 .. Len(u) : u[p] = Token(Len(asked) + 1, p)
      BY <3>2, <3>3
    <3>6. QED BY <3>2, <3>4, <3>5
  <2>5. u \in Seq(Piece)
    <3>1. Len(asked) + 1 \in Numbers
      BY <1>2, ProcessorAssumption DEF DriveInv, RequestsSent, Numbers, ProcessorAssumption
    <3>2. [req : {Len(asked) + 1}, pos : Nat \ {0}] \subseteq Piece
      BY <3>1 DEF Piece
    <3>3. QED BY <2>4, <3>2, SeqMonotonic
  <2>6. v \in Seq(Piece) /\ Len(v) \in Nat /\ Len(u) \in Nat
    BY <2>2, <2>5, SentIsPiece, SeqMonotonic
  <2>7. \A j \in 1 .. Len(v) : v[j].req <= Len(asked) /\ v[j].req \in Nat
    <3>1. \A j \in 1 .. Len(v) : v[j] \in Sent
      BY <2>2, ElementOfSeq
    <3>2. QED BY <3>1 DEF Sent, Piece, Numbers
  <2>8. ctx'.buffer \o inbound' = v \o u
    <3>1. ASSUME NEW b \in Seq(Piece), NEW i \in Seq(Piece), NEW r \in Seq(Piece)
          PROVE b \o (i \o r) = (b \o i) \o r
      BY ConcatAssociative
    <3>2. PICK b \in Seq(Piece), i \in Seq(Piece), r \in Seq(Piece) :
            b = ctx.buffer /\ i = inbound /\ r = u
      BY <2>1, <2>5
    <3>3. v = b \o i /\ ctx'.buffer = b /\ inbound' = i \o r
      BY <1>1, <3>2 DEF u
    <3>4. b \o (i \o r) = (b \o i) \o r
      BY <3>1
    <3>5. v \o u = (b \o i) \o r
      <4> HIDE DEF v
      <4>1. QED BY <3>2, <3>3
    <3>6. ctx'.buffer \o inbound' = b \o (i \o r)
      BY <3>3
    <3>7. QED
      <4> HIDE DEF v
      <4>1. QED BY <3>4, <3>5, <3>6
  <2>9. InOrder(v, ctx.cur)
    BY DEF OrderInv, TokensInOrder
  <2> HIDE DEF v
  <2>10. PICK w : w = v \o u
    OBVIOUS
  <2>11. /\ DOMAIN w = 1 .. Len(v) + Len(u) /\ DOMAIN v = 1 .. Len(v)
         /\ \A j \in 1 .. Len(v) : w[j] = v[j]
         /\ \A j \in 1 .. Len(v) + Len(u) : ~(j <= Len(v)) => w[j] = Token(Len(asked) + 1, j - Len(v))
    <3>1. /\ Len(w) = Len(v) + Len(u) /\ w \in Seq(Piece)
          /\ \A j \in 1 .. Len(v) + Len(u) : w[j] = IF j <= Len(v) THEN v[j] ELSE u[j - Len(v)]
      BY <2>5, <2>6, <2>10, ConcatProperties
    <3>2. \A j \in 1 .. Len(v) + Len(u) : ~(j <= Len(v)) => j - Len(v) \in 1 .. Len(u)
      BY <2>6
    <3>3. QED BY <2>4, <2>6, <3>1, <3>2
  <2>12. \A i, j \in DOMAIN w : i < j => Before(w[i], w[j])
    <3> SUFFICES ASSUME NEW i \in DOMAIN w, NEW j \in DOMAIN w, i < j PROVE Before(w[i], w[j])
      OBVIOUS
    <3>0. i \in 1 .. Len(v) + Len(u) /\ j \in 1 .. Len(v) + Len(u)
      BY <2>11
    <3>1. CASE j <= Len(v)
      <4>1. i \in DOMAIN v /\ j \in DOMAIN v /\ w[i] = v[i] /\ w[j] = v[j]
        BY <2>6, <2>11, <3>0, <3>1
      <4>2. QED BY <2>9, <4>1 DEF InOrder
    <3>2. CASE i <= Len(v) /\ ~(j <= Len(v))
      <4>1. w[i] = v[i] /\ i \in 1 .. Len(v) /\ w[j] = Token(Len(asked) + 1, j - Len(v))
        BY <2>6, <2>11, <3>0, <3>2
      <4>2. w[i].req < w[j].req
        BY <1>2, <2>7, <4>1 DEF Token
      <4>3. QED BY <4>2 DEF Before
    <3>3. CASE ~(i <= Len(v))
      <4>1. ~(j <= Len(v))
        BY <2>6, <3>0, <3>3
      <4>2. w[i] = Token(Len(asked) + 1, i - Len(v)) /\ w[j] = Token(Len(asked) + 1, j - Len(v))
        BY <2>11, <3>0, <3>3, <4>1
      <4>3. i - Len(v) < j - Len(v)
        BY <2>6, <3>0
      <4>4. QED BY <4>2, <4>3 DEF Token, Before
    <3>4. QED BY <3>1, <3>2, <3>3
  <2>13. \A j \in DOMAIN w : Before(Token(ctx.cur, 1), w[j])
    <3> SUFFICES ASSUME NEW j \in DOMAIN w PROVE Before(Token(ctx.cur, 1), w[j])
      OBVIOUS
    <3>1. CASE j <= Len(v)
      BY <2>6, <2>9, <2>11, <3>1 DEF InOrder
    <3>2. CASE ~(j <= Len(v))
      <4>1. w[j] = Token(Len(asked) + 1, j - Len(v))
        BY <2>11, <3>2
      <4>2. ctx.cur < Len(asked) + 1
        BY <1>2, <2>1, ProcessorAssumption DEF Answers, Numbers, Frame, ProcessorAssumption
      <4>3. QED BY <4>1, <4>2 DEF Token, Before
    <3>3. QED BY <3>1, <3>2
  <2>14. InOrder(w, ctx.cur)
    BY <2>12, <2>13 DEF InOrder
  <2>15. QED BY <1>1, <2>8, <2>10, <2>14 DEF TokensInOrder
<1>9. QED BY <1>3, <1>4, <1>6, <1>7, <1>8 DEF OrderInv

LEMMA NumbersNat ==
    ASSUME DriveInv
    PROVE  /\ \A i \in DOMAIN handled : handled[i] \in Nat
           /\ silent \subseteq Nat
           /\ pc # "idle" => remote = <<>>
<1>1. Numbers \subseteq Nat
  BY ProcessorAssumption DEF Numbers, ProcessorAssumption
<1>2. handled \in Seq(Numbers) /\ silent \subseteq Numbers
  BY DEF DriveInv, TypeOK
<1>3. \A i \in DOMAIN handled : handled[i] \in Numbers
  BY <1>2, ElementOfSeq
<1>4. pc # "idle" => remote = <<>>
  BY DEF DriveInv, Control
<1>5. QED BY <1>1, <1>2, <1>3, <1>4

\* A header that is accepted begins a request later than all before, and is not
\* looked for once there was an upgrade.
LEMMA ParsedOrder ==
    ASSUME DriveInv, OrderInv, Accepted(ctx)
    PROVE  LET c == Parsed(ctx) IN
           /\ InOrder(c.buffer \o inbound, c.cur)
           /\ ctx.cur < c.cur /\ ctx.cur \in Nat /\ c.cur \in Nat
           /\ c.matched /\ ctx.protoState = "header"
           /\ c.upgrade <=> c.cur \notin Ordinary
           /\ c.closeAfterWrite = ctx.closeAfterWrite
<1> DEFINE n == HeaderSize(ctx)
           i == Head(ctx.buffer).req
<1>1. /\ ctx \in Context /\ ctx.buffer \in Seq(Piece) /\ ctx.nextCompare \in Nat
      /\ ctx.protoState = "header" /\ HeaderFound(ctx) /\ ~PastTheFlag(ctx) /\ inbound \in Seq(Piece)
  BY DEF DriveInv, TypeOK, Control, Context, Accepted, Scanning
<1>2. Len(ctx.buffer) > ctx.nextCompare
  BY <1>1, LenProperties DEF HeaderFound
<1>3. ~ctx.upgrade
  BY <1>1, <1>2 DEF PastTheFlag, OrderInv, UpgradeEnds
<1>4. n \in 1 .. Len(ctx.buffer)
  BY <1>1, HeaderSizeType
<1>5. Head(ctx.buffer).pos = 1
  BY DEF Accepted, Parses
<1>6. /\ InOrder(SubSeq(ctx.buffer, n + 1, Len(ctx.buffer)) \o inbound, i)
      /\ ctx.cur < i
  <2> HIDE DEF n
  <2>1. InOrder(ctx.buffer \o inbound, ctx.cur)
    BY DEF OrderInv, TokensInOrder
  <2>2. QED BY <1>1, <1>4, <1>5, <2>1, InOrderParsed
<1>7. /\ Parsed(ctx).buffer = SubSeq(ctx.buffer, n + 1, Len(ctx.buffer))
      /\ Parsed(ctx).cur = i /\ Parsed(ctx).matched = TRUE
      /\ Parsed(ctx).upgrade <=> asked[i].route \in {"upgrade", "refused"}
      /\ Parsed(ctx).closeAfterWrite = ctx.closeAfterWrite
  BY <1>1, <1>3 DEF Parsed, Context
<1>8. i \in DOMAIN asked /\ i \in Nat /\ ctx.cur \in Nat
  <2>1. Parsed(ctx).cur \in 1 .. Len(asked)
    BY ParsedType
  <2>2. asked \in Seq(Kinds) /\ ctx.cur \in Nat
    BY <1>1, ProcessorAssumption DEF DriveInv, TypeOK, Context, Answers, Numbers, Frame, ProcessorAssumption
  <2>3. QED BY <1>7, <2>1, <2>2
<1>9. (asked[i].route \in {"upgrade", "refused"}) <=> i \notin Ordinary
  BY <1>8 DEF Ordinary
<1> HIDE DEF n, i
<1>10. QED BY <1>1, <1>6, <1>7, <1>8, <1>9

LEMMA HeaderParsedOrder == ASSUME DriveInv, OrderInv, HeaderParsed PROVE OrderInv'
<1> DEFINE c == Parsed(ctx)
<1>1. /\ ctx' = [c EXCEPT !.protoState = "body"] /\ Accepted(ctx) /\ ~c.upgrade /\ pc' = "body"
      /\ UNCHANGED <<asked, inbound, reads, writes, remote, handled, received, closed, silent>>
  BY DEF HeaderParsed
<1>2. /\ c \in Context /\ InOrder(c.buffer \o inbound, c.cur) /\ ctx.cur < c.cur
      /\ ctx.cur \in Nat /\ c.cur \in Nat /\ ctx.protoState = "header"
  BY <1>1, ParsedType, ParsedOrder
<1> HIDE DEF c
<1>3. ctx'.buffer = c.buffer /\ ctx'.cur = c.cur /\ ~ctx'.upgrade /\ ctx'.protoState = "body"
  BY <1>1, <1>2 DEF Context
<1>4. /\ \A i \in DOMAIN handled : handled[i] \in Nat
      /\ silent \subseteq Nat /\ remote = <<>>
  BY <1>1, NumbersNat DEF Accepted, Scanning
<1>5. AnswersOfSent' /\ UpgradeEnds' /\ TokensInOrder'
  BY <1>1, <1>2, <1>3 DEF OrderInv, AnswersOfSent, UpgradeEnds, TokensInOrder
<1>6. HandledInOrder' /\ SilentIsPast'
  BY <1>1, <1>2, <1>3, <1>4 DEF OrderInv, HandledInOrder, SilentIsPast
<1>7. Ordinary' = Ordinary
  BY <1>1 DEF Ordinary
<1>8. ProxyOnLast' /\ ResponsesMatchRequests'
  BY <1>1, <1>4, <1>7 DEF OrderInv, ProxyOnLast, ResponsesMatchRequests
<1>9. QED BY <1>5, <1>6, <1>8 DEF OrderInv

\* One more response.
LEMMA AnswersGrow ==
    ASSUME DriveInv, OrderInv, NEW i \in Numbers, i \in 1 .. Len(asked)
    PROVE  /\ Append(writes, i) \in Seq(0 .. Len(asked))
           /\ i \in Ordinary => Only(received \o Append(writes, i), Ordinary)
                                  = Only(received \o writes, Ordinary) \o <<i>>
           /\ i \notin Ordinary => Only(received \o Append(writes, i), Ordinary)
                                  = Only(received \o writes, Ordinary)
<1>1. received \in Seq(0 .. Len(asked)) /\ writes \in Seq(0 .. Len(asked)) /\ i \in 0 .. Len(asked)
  BY DEF OrderInv, AnswersOfSent, Numbers
<1>2. received \o Append(writes, i) = (received \o writes) \o <<i>>
  BY <1>1, ConcatAppend
<1>3. PICK s \in Seq(0 .. Len(asked)) : s = received \o writes
  BY <1>1, ConcatProperties
<1>4. /\ i \in Ordinary => Only(s \o <<i>>, Ordinary) = Only(s, Ordinary) \o <<i>>
      /\ i \notin Ordinary => Only(s \o <<i>>, Ordinary) = Only(s, Ordinary)
  BY <1>1, OnlyGrows
<1>5. QED BY <1>1, <1>2, <1>3, <1>4, AppendProperties

LEMMA RespondMatched ==
    ASSUME NEW c \in Context, NEW header
    PROVE  Respond(c, header).matched = c.matched
<1>1. PICK w \in BOOLEAN : Respond(c, header) = [c EXCEPT !.numWrites = c.numWrites + 1, !.closeAfterWrite = w]
  BY DEF Respond, Context
<1>2. QED BY <1>1 DEF Context

LEMMA UpgradeOrder == ASSUME DriveInv, OrderInv, Upgrade PROVE OrderInv'
<1> DEFINE c == Parsed(ctx)
           accepts == asked[c.cur].route = "upgrade"
<1>1. /\ Accepted(ctx) /\ c.upgrade /\ pc' = "idle" /\ writes' = Append(writes, c.cur)
      /\ UNCHANGED <<asked, inbound, gone, remote, handled, received, silent>>
      /\ \/ /\ ctx' = Respond(c, TRUE) /\ closed' # "no"
         \/ /\ ctx' = [Respond(c, ~accepts) EXCEPT !.protoState = IF accepts THEN "ws" ELSE @]
            /\ closed' = closed
  BY DEF Upgrade, Free
<1>2. /\ c \in Context /\ InOrder(c.buffer \o inbound, c.cur) /\ ctx.cur < c.cur
      /\ ctx.cur \in Nat /\ c.cur \in Nat /\ c.matched /\ c.protoState = "header"
      /\ c.cur \in Numbers /\ c.cur \in 1 .. Len(asked) /\ c.cur \notin Ordinary
  BY <1>1, ParsedType, ParsedOrder
<1>3. PICK a \in BOOLEAN : a = accepts
  OBVIOUS
<1> HIDE DEF c, accepts
<1>4. /\ ctx'.buffer = c.buffer /\ ctx'.cur = c.cur /\ ctx'.upgrade = c.upgrade
      /\ ctx'.matched = c.matched /\ ctx'.protoState \in {"header", "ws"}
  <2>1. CASE ctx' = Respond(c, TRUE)
    BY <1>2, <2>1, RespondType, RespondMatched
  <2>2. CASE ctx' = [Respond(c, ~accepts) EXCEPT !.protoState = IF accepts THEN "ws" ELSE @]
    <3>1. PICK d \in Context : d = Respond(c, ~accepts)
      BY <1>2, RespondType
    <3>2. /\ d.buffer = c.buffer /\ d.cur = c.cur /\ d.upgrade = c.upgrade /\ d.matched = c.matched
          /\ d.protoState = "header"
      BY ZenonT(60), <1>2, <3>1, RespondType, RespondMatched
    <3>3. PICK p \in {"header", "ws"} : ctx' = [d EXCEPT !.protoState = p]
      BY <2>2, <3>1, <3>2
    <3>4. QED BY <3>1, <3>2, <3>3 DEF Context
  <2>3. QED BY <1>1, <2>1, <2>2
<1>5. /\ \A i \in DOMAIN handled : handled[i] \in Nat
      /\ silent \subseteq Nat /\ remote = <<>>
  BY <1>1, NumbersNat DEF Accepted, Scanning
<1>6. AnswersOfSent'
  BY <1>1, <1>2, AnswersGrow DEF OrderInv, AnswersOfSent
<1>7. UpgradeEnds' /\ TokensInOrder'
  BY <1>1, <1>2, <1>4 DEF UpgradeEnds, TokensInOrder
<1>8. HandledInOrder' /\ SilentIsPast'
  BY <1>1, <1>2, <1>4, <1>5 DEF OrderInv, HandledInOrder, SilentIsPast, BodyAwaited
<1>9. Ordinary' = Ordinary
  BY <1>1 DEF Ordinary
<1>10. ProxyOnLast'
  BY <1>1, <1>5 DEF ProxyOnLast
<1>11. ResponsesMatchRequests'
  <2>1. Only(received \o Append(writes, c.cur), Ordinary) = Only(received \o writes, Ordinary)
    BY <1>2, AnswersGrow
  <2>2. Only(received \o writes, Ordinary)' = Only(received \o writes, Ordinary)
    BY <1>1, <1>9, <2>1
  <2>3. closed' = "no" => closed = "no"
    BY <1>1
  <2>4. QED BY <1>1, <2>2, <2>3 DEF OrderInv, ResponsesMatchRequests
<1>12. QED BY <1>6, <1>7, <1>8, <1>10, <1>11 DEF OrderInv

\* The handler is called for a request later than all it was called for.
LEMMA HandledGrows ==
    ASSUME DriveInv, OrderInv, BodyComplete
    PROVE  LET h == Append(handled, ctx.cur) IN
           /\ \A i, j \in DOMAIN h : i < j => h[i] < h[j]
           /\ \A i \in DOMAIN h : h[i] <= ctx.cur
           /\ h # <<>> /\ h[Len(h)] = ctx.cur
           /\ Only(h, Numbers \ silent) = Only(handled, Numbers \ silent) \o <<ctx.cur>>
<1>1. BodyAwaited /\ ctx.cur \in Numbers /\ ctx.protoState = "body"
  BY AtBody DEF BodyComplete, BodyAwaited
<1>2. /\ handled \in Seq(Numbers) /\ Len(handled) \in Nat
      /\ \A i \in DOMAIN handled : handled[i] < ctx.cur
      /\ \A i, j \in DOMAIN handled : i < j => handled[i] < handled[j]
  BY <1>1 DEF DriveInv, TypeOK, OrderInv, HandledInOrder
<1>3. PICK h \in Seq(Numbers) : h = Append(handled, ctx.cur)
  BY <1>1, <1>2, AppendProperties
<1>4. /\ DOMAIN h = 1 .. Len(handled) + 1 /\ Len(h) = Len(handled) + 1 /\ DOMAIN handled = 1 .. Len(handled)
      /\ \A i \in 1 .. Len(handled) : h[i] = handled[i]
      /\ h[Len(handled) + 1] = ctx.cur
  BY <1>1, <1>2, <1>3, AppendProperties
<1>5. \A i, j \in DOMAIN h : i < j => h[i] < h[j]
  BY <1>2, <1>4
<1>6. \A i \in DOMAIN h : h[i] <= ctx.cur
  <2>1. ctx.cur \in Nat /\ \A i \in DOMAIN handled : handled[i] \in Nat
    BY <1>1, NumbersNat, ProcessorAssumption DEF Numbers, ProcessorAssumption
  <2>2. QED BY <1>2, <1>4, <2>1
<1>7. ctx.cur \in Numbers \ silent
  BY <1>1 DEF OrderInv, SilentIsPast, Numbers
<1>8. Append(handled, ctx.cur) = handled \o <<ctx.cur>>
  BY <1>1, <1>2, AppendIsConcat
<1>9. Only(handled \o <<ctx.cur>>, Numbers \ silent) = Only(handled, Numbers \ silent) \o <<ctx.cur>>
  <2>1. PICK x \in Numbers : x = ctx.cur
    BY <1>1
  <2>2. x \in Numbers \ silent
    BY <1>7, <2>1
  <2>3. Only(handled \o <<x>>, Numbers \ silent) = Only(handled, Numbers \ silent) \o <<x>>
    BY ZenonT(60), <1>2, <2>2, OnlyGrows
  <2>4. QED BY <2>1, <2>3
<1>10. h # <<>> /\ h[Len(h)] = ctx.cur
  BY <1>2, <1>4, EmptySeq
<1>11. QED BY <1>3, <1>5, <1>6, <1>8, <1>9, <1>10

LEMMA HandlerFailsOrder == ASSUME DriveInv, OrderInv, HandlerFails PROVE OrderInv'
<1>1. /\ BodyComplete /\ handled' = Append(handled, ctx.cur) /\ closed' # "no" /\ pc' = "idle"
      /\ UNCHANGED <<asked, inbound, ctx, reads, writes, remote, received, silent>>
  BY DEF HandlerFails, Free
<1>2. reads = <<>> /\ remote = <<>>
  BY <1>1, AtBody
<1>3. HandledInOrder'
  BY <1>1, <1>2, HandledGrows DEF HandledInOrder, BodyAwaited
<1>4. AnswersOfSent' /\ UpgradeEnds' /\ TokensInOrder' /\ SilentIsPast' /\ ProxyOnLast' /\ ResponsesMatchRequests'
  BY <1>1, <1>2 DEF OrderInv, AnswersOfSent, UpgradeEnds, TokensInOrder, SilentIsPast, ProxyOnLast,
     ResponsesMatchRequests
<1>5. QED BY <1>3, <1>4 DEF OrderInv

LEMMA HandlerDelegatesOrder == ASSUME DriveInv, OrderInv, HandlerDelegates PROVE OrderInv'
<1>1. /\ BodyComplete /\ handled' = Append(handled, ctx.cur) /\ pc' = "idle"
      /\ asked[ctx.cur].route = "proxy"
      /\ ctx' = [ctx EXCEPT !.protoState = "proxy"] /\ remote' = Append(remote, ctx.cur)
      /\ UNCHANGED <<asked, inbound, gone, reads, writes, received, closed, silent>>
  BY DEF HandlerDelegates
<1>2. /\ reads = <<>> /\ remote = <<>> /\ ctx \in Context /\ ctx.cur \in DOMAIN asked /\ ctx.cur \in Numbers
      /\ ctx.protoState = "body" /\ handled \in Seq(Numbers)
  BY <1>1, AtBody DEF DriveInv, TypeOK
<1>3. ctx'.buffer = ctx.buffer /\ ctx'.cur = ctx.cur /\ ctx'.upgrade = ctx.upgrade /\ ctx'.protoState = "proxy"
  BY <1>1, <1>2 DEF Context
<1>4. remote' = <<ctx.cur>>
  BY <1>1, <1>2
<1>5. HandledInOrder'
  BY <1>1, <1>3, HandledGrows DEF HandledInOrder, BodyAwaited
<1>6. AnswersOfSent' /\ UpgradeEnds' /\ TokensInOrder' /\ SilentIsPast'
  BY <1>1, <1>2, <1>3 DEF OrderInv, AnswersOfSent, UpgradeEnds, TokensInOrder, SilentIsPast
<1>7. Ordinary' = Ordinary /\ ctx.cur \in Ordinary
  BY <1>1, <1>2 DEF Ordinary
<1>8. ProxyOnLast'
  BY <1>1, <1>3, <1>4, <1>7, HandledGrows DEF ProxyOnLast
<1>9. ResponsesMatchRequests'
  <2> SUFFICES ASSUME closed' = "no"
               PROVE  (Only(received \o writes, Ordinary) \o remote)' = Only(handled, Numbers \ silent)'
    BY DEF ResponsesMatchRequests
  <2>1. Only(received \o writes, Ordinary) \o remote = Only(handled, Numbers \ silent)
    BY <1>1 DEF OrderInv, ResponsesMatchRequests
  <2>2. Only(received \o writes, Ordinary) \in Seq(Answers)
    BY AnswerSeqs, OnlyType
  <2>3. Only(received \o writes, Ordinary) = Only(handled, Numbers \ silent)
    BY <1>2, <2>1, <2>2
  <2>4. Only(received \o writes, Ordinary)' = Only(received \o writes, Ordinary)
    BY <1>1, <1>7
  <2>5. Only(handled, Numbers \ silent)' = Only(handled, Numbers \ silent) \o <<ctx.cur>>
    BY <1>1, HandledGrows
  <2>6. QED BY <1>4, <2>3, <2>4, <2>5
<1>10. QED BY <1>5, <1>6, <1>8, <1>9 DEF OrderInv

\* The body that is discarded is at the front of what follows the request.
LEMMA NextRequestOrder ==
    ASSUME DriveInv, OrderInv, ctx.cur \in 1 .. Len(asked), ctx.protoState \in {"body", "proxy"}
    PROVE  LET c == NextRequest(ctx) IN
           /\ InOrder(c.buffer \o inbound, ctx.cur)
           /\ ~c.upgrade
<1> DEFINE n == asked[ctx.cur].length
           b == IF n > 0 THEN SubSeq(ctx.buffer, n + 1, Len(ctx.buffer)) ELSE ctx.buffer
<1>1. /\ ctx \in Context /\ ctx.buffer \in Seq(Piece) /\ inbound \in Seq(Piece) /\ Len(ctx.buffer) \in Nat
  BY LenProperties DEF DriveInv, TypeOK, Context
<1>2. asked[ctx.cur] \in Kind
  BY ElementOfSeq, ProcessorAssumption DEF DriveInv, TypeOK, ProcessorAssumption
<1>3. n \in Int
  BY <1>2 DEF Kind
<1>4. InOrder(ctx.buffer \o inbound, ctx.cur)
  BY DEF OrderInv, TokensInOrder
<1>5. NextRequest(ctx).buffer = b /\ NextRequest(ctx).upgrade = ctx.upgrade
  BY <1>1 DEF NextRequest, Context
<1>6. ~ctx.upgrade
  BY DEF OrderInv, UpgradeEnds
<1> HIDE DEF n
<1>7. InOrder(b \o inbound, ctx.cur)
  <2>1. CASE ~(n > 0)
    BY <1>4, <2>1
  <2>2. CASE n > 0 /\ n <= Len(ctx.buffer)
    <3>1. n \in 0 .. Len(ctx.buffer)
      BY <1>1, <1>3, <2>2
    <3>2. InOrder(SubSeq(ctx.buffer, n + 1, Len(ctx.buffer)) \o inbound, ctx.cur)
      BY <1>1, <1>4, <3>1, InOrderDrop
    <3>3. QED BY <2>2, <3>2
  <2>3. CASE n > Len(ctx.buffer)
    <3>1. PICK m \in 0 .. Len(ctx.buffer) : m = Len(ctx.buffer)
      BY <1>1
    <3>2. InOrder(SubSeq(ctx.buffer, m + 1, Len(ctx.buffer)) \o inbound, ctx.cur)
      BY <1>1, <1>4, InOrderDrop
    <3>3. SubSeq(ctx.buffer, m + 1, Len(ctx.buffer)) = <<>> /\ SubSeq(ctx.buffer, n + 1, Len(ctx.buffer)) = <<>>
      BY <1>1, <1>3, <2>3, <3>1, SubSeqProperties
    <3>4. b = <<>>
      <4>1. n > 0
        BY <1>1, <1>3, <2>3
      <4>2. QED BY <3>3, <4>1
    <3>5. InOrder(<<>> \o inbound, ctx.cur)
      BY <3>2, <3>3
    <3>6. QED
      <4> HIDE DEF b
      <4>1. QED BY <3>4, <3>5
  <2>4. QED BY <1>1, <1>3, <2>1, <2>2, <2>3
<1> HIDE DEF b
<1>8. QED BY <1>5, <1>6, <1>7

LEMMA HandlerRepliesOrder == ASSUME DriveInv, OrderInv, HandlerReplies PROVE OrderInv'
<1> DEFINE c == NextRequest(ctx)
<1>1. /\ pc' = "header" /\ handled' = Append(handled, ctx.cur) /\ BodyComplete
      /\ asked[ctx.cur].route = "local"
      /\ ctx' = Respond(c, TRUE) /\ writes' = Append(writes, ctx.cur)
      /\ UNCHANGED <<asked, inbound, gone, reads, remote, received, closed, silent>>
  BY DEF HandlerReplies
<1>2. /\ ctx.protoState = "body" /\ reads = <<>> /\ remote = <<>> /\ ctx.cur \in Numbers
      /\ ctx.cur \in 1 .. Len(asked) /\ ctx.cur \in DOMAIN asked
  BY <1>1, AtBody DEF DriveInv, TypeOK
<1>3. /\ c \in Context /\ InOrder(c.buffer \o inbound, ctx.cur) /\ ~c.upgrade
      /\ c.cur = ctx.cur /\ c.protoState = "header"
  BY <1>2, NextRequestType, NextRequestOrder
<1> HIDE DEF c
<1>4. /\ ctx'.buffer = c.buffer /\ ctx'.cur = ctx.cur /\ ~ctx'.upgrade /\ ctx'.protoState = "header"
  BY <1>1, <1>3, RespondType
<1>5. Ordinary' = Ordinary /\ ctx.cur \in Ordinary
  BY <1>1, <1>2 DEF Ordinary
<1>6. AnswersOfSent'
  BY <1>1, <1>2, AnswersGrow DEF OrderInv, AnswersOfSent
<1>7. UpgradeEnds' /\ TokensInOrder'
  BY <1>1, <1>3, <1>4 DEF UpgradeEnds, TokensInOrder
<1>8. HandledInOrder'
  BY <1>1, <1>4, HandledGrows DEF HandledInOrder, BodyAwaited
<1>9. SilentIsPast' /\ ProxyOnLast'
  BY <1>1, <1>2, <1>4 DEF OrderInv, SilentIsPast, ProxyOnLast
<1>10. ResponsesMatchRequests'
  <2> SUFFICES ASSUME closed' = "no"
               PROVE  (Only(received \o writes, Ordinary) \o remote)' = Only(handled, Numbers \ silent)'
    BY DEF ResponsesMatchRequests
  <2>1. Only(received \o writes, Ordinary) \o remote = Only(handled, Numbers \ silent)
    BY <1>1 DEF OrderInv, ResponsesMatchRequests
  <2>2. Only(received \o writes, Ordinary) \in Seq(Answers)
    BY AnswerSeqs, OnlyType
  <2>3. Only(received \o writes, Ordinary) = Only(handled, Numbers \ silent)
    BY <1>2, <2>1, <2>2
  <2>4. Only(received \o Append(writes, ctx.cur), Ordinary) = Only(received \o writes, Ordinary) \o <<ctx.cur>>
    BY <1>2, <1>5, AnswersGrow
  <2>5. Only(received \o writes, Ordinary)' = Only(received \o writes, Ordinary) \o <<ctx.cur>>
    BY <1>1, <1>5, <2>4
  <2>6. Only(handled, Numbers \ silent)' = Only(handled, Numbers \ silent) \o <<ctx.cur>>
    BY <1>1, HandledGrows
  <2>7. PICK u \in Seq(Answers) : u = Only(received \o writes, Ordinary) \o <<ctx.cur>>
    <3>1. <<ctx.cur>> \in Seq(Answers)
      BY <1>2 DEF Answers
    <3>2. QED BY <2>2, <3>1, ConcatProperties
  <2>8. u \o <<>> = u
    OBVIOUS
  <2>9. Only(received \o writes, Ordinary)' = u /\ remote' = <<>> /\ Only(handled, Numbers \ silent)' = u
    BY <1>1, <1>2, <2>3, <2>5, <2>6, <2>7
  <2>10. QED BY <2>8, <2>9
<1>11. QED BY <1>6, <1>7, <1>8, <1>9, <1>10 DEF OrderInv

\* The proxy's last request is the last that was handled, and no other is it.
LEMMA LastHandled ==
    ASSUME DriveInv, OrderInv, remote # <<>>
    PROVE  \E h \in Seq(Numbers) :
             /\ handled = h \o <<ctx.cur>>
             /\ \A i \in 1 .. Len(h) : h[i] # ctx.cur
<1>1. /\ handled \in Seq(Numbers) /\ handled # <<>> /\ handled[Len(handled)] = ctx.cur
      /\ \A i, j \in DOMAIN handled : i < j => handled[i] < handled[j]
  BY DEF DriveInv, TypeOK, OrderInv, ProxyOnLast, HandledInOrder
<1>2. PICK h \in Seq(Numbers), e \in Numbers : handled = Append(h, e)
  BY <1>1, SequenceEmptyOrAppend
<1>3. /\ Len(handled) = Len(h) + 1 /\ Len(h) \in Nat /\ DOMAIN handled = 1 .. Len(h) + 1
      /\ \A i \in 1 .. Len(h) : handled[i] = h[i]
      /\ handled[Len(h) + 1] = e
  BY <1>2, AppendProperties
<1>4. e = ctx.cur
  BY <1>1, <1>3
<1>5. \A i \in DOMAIN handled : handled[i] \in Nat
  BY NumbersNat
<1>6. \A i \in 1 .. Len(h) : h[i] # ctx.cur
  <2> SUFFICES ASSUME NEW i \in 1 .. Len(h) PROVE h[i] # ctx.cur
    OBVIOUS
  <2>1. i \in DOMAIN handled /\ Len(h) + 1 \in DOMAIN handled /\ i < Len(h) + 1
    BY <1>3
  <2>2. handled[i] < handled[Len(h) + 1]
    BY <1>1, <2>1
  <2>3. QED BY <1>3, <1>4, <1>5, <2>1, <2>2
<1>7. Append(h, e) = h \o <<e>>
  BY AppendIsConcat
<1>8. QED BY <1>2, <1>4, <1>6, <1>7

LEMMA ResumeOrder == ASSUME DriveInv, DriveInv', OrderInv, Resume PROVE OrderInv'
<1> DEFINE c == NextRequest(ctx)
<1>1. /\ pc = "idle" /\ pc' = "header" /\ remote # <<>> /\ remote' = Tail(remote)
      /\ UNCHANGED <<asked, inbound, gone, reads, handled, received, closed>>
  BY DEF Resume
<1>2. PICK w \in BOOLEAN, some \in BOOLEAN :
        /\ ctx' = [c EXCEPT !.closeAfterWrite = w, !.numWrites = IF some THEN @ + 1 ELSE @]
        /\ writes' = IF some THEN Append(writes, Head(remote)) ELSE writes
        /\ silent' = IF some THEN silent ELSE silent \cup {Head(remote)}
  BY DEF Resume
<1>3. /\ ctx.protoState = "proxy" /\ remote = <<ctx.cur>> /\ ctx.cur \in Ordinary
      /\ ctx.cur \in DOMAIN asked /\ ctx.cur \in 1 .. Len(asked) /\ ctx.cur \in Numbers
      /\ Head(remote) = ctx.cur /\ remote' = <<>>
  <2>1. ctx.protoState = "proxy" /\ remote = <<ctx.cur>> /\ ctx.cur \in Ordinary
    BY <1>1 DEF OrderInv, ProxyOnLast, DriveInv, ProxyState
  <2>2. ctx.cur \in DOMAIN asked /\ ctx.cur \in 1 .. Len(asked)
    BY <2>1 DEF Ordinary, DriveInv, TypeOK
  <2>3. Head(remote) = ctx.cur /\ remote' = <<>>
    BY <1>1, <2>1
  <2>4. Head(remote) \in Numbers
    BY <1>1, HeadTailProperties DEF DriveInv, TypeOK
  <2>5. QED BY <2>1, <2>2, <2>3, <2>4
<1>4. /\ c \in Context /\ InOrder(c.buffer \o inbound, ctx.cur) /\ ~c.upgrade
      /\ c.cur = ctx.cur /\ c.protoState = "header"
  BY <1>3, NextRequestType, NextRequestOrder
<1> HIDE DEF c
<1>5. /\ ctx'.buffer = c.buffer /\ ctx'.cur = ctx.cur /\ ~ctx'.upgrade /\ ctx'.protoState = "header"
  <2>1. PICK m : ctx' = [c EXCEPT !.closeAfterWrite = w, !.numWrites = m]
    BY <1>2
  <2>2. QED BY <1>4, <2>1 DEF Context
<1>6. Ordinary' = Ordinary
  BY <1>1 DEF Ordinary
<1>7. AnswersOfSent'
  <2>1. Append(writes, ctx.cur) \in Seq(0 .. Len(asked))
    BY <1>3, AnswersGrow
  <2>2. QED BY <1>1, <1>2, <1>3, <2>1 DEF OrderInv, AnswersOfSent
<1>8. UpgradeEnds' /\ TokensInOrder' /\ ProxyOnLast'
  BY <1>1, <1>3, <1>4, <1>5 DEF UpgradeEnds, TokensInOrder, ProxyOnLast
<1>9. HandledInOrder'
  BY <1>1, <1>5 DEF OrderInv, HandledInOrder, BodyAwaited
<1>10. SilentIsPast'
  <2>1. ctx.cur \in Nat
    BY <1>3
  <2>2. \A i \in silent' : i \in silent \/ i = ctx.cur
    BY <1>2, <1>3
  <2>3. \A i \in silent' : i <= ctx.cur
    BY <2>1, <2>2 DEF OrderInv, SilentIsPast
  <2>4. QED BY <1>5, <2>3 DEF SilentIsPast
<1>11. ResponsesMatchRequests'
  <2> SUFFICES ASSUME closed' = "no"
               PROVE  (Only(received \o writes, Ordinary) \o remote)' = Only(handled, Numbers \ silent)'
    BY DEF ResponsesMatchRequests
  <2>1. Only(received \o writes, Ordinary) \o <<ctx.cur>> = Only(handled, Numbers \ silent)
    BY <1>1, <1>3 DEF OrderInv, ResponsesMatchRequests
  <2>2. PICK u \in Seq(Answers) : u = Only(received \o writes, Ordinary)
    BY AnswerSeqs, OnlyType
  <2>3. CASE some
    <3>1. writes' = Append(writes, ctx.cur) /\ silent' = silent
      BY <1>2, <1>3, <2>3
    <3>2. Only(received \o Append(writes, ctx.cur), Ordinary) = Only(received \o writes, Ordinary) \o <<ctx.cur>>
      BY <1>3, AnswersGrow
    <3>3. Only(received \o writes, Ordinary)' = u \o <<ctx.cur>>
      BY <1>1, <1>6, <2>2, <3>1, <3>2
    <3>4. Only(handled, Numbers \ silent)' = u \o <<ctx.cur>>
      BY <1>1, <2>1, <2>2, <3>1
    <3>5. PICK v \in Seq(Answers) : v = u \o <<ctx.cur>>
      <4>1. <<ctx.cur>> \in Seq(Answers)
        BY <1>3 DEF Answers
      <4>2. QED BY <4>1, ConcatProperties
    <3>6. v \o <<>> = v
      OBVIOUS
    <3>7. QED BY <1>3, <3>3, <3>4, <3>5, <3>6
  <2>4. CASE ~some
    <3>1. writes' = writes /\ silent' = silent \cup {ctx.cur}
      BY <1>2, <1>3, <2>4
    <3>2. PICK h \in Seq(Numbers) : handled = h \o <<ctx.cur>> /\ \A i \in 1 .. Len(h) : h[i] # ctx.cur
      BY <1>1, LastHandled
    <3>3. PICK x \in Numbers : x = ctx.cur
      BY <1>3
    <3>4. x \in Numbers \ silent
      BY <1>3, <3>3 DEF OrderInv, SilentIsPast
    <3>5. Only(h \o <<x>>, Numbers \ silent) = Only(h, Numbers \ silent) \o <<x>>
      BY ZenonT(60), <3>4, OnlyGrows
    <3>6. Only(h \o <<x>>, Numbers \ silent') = Only(h, Numbers \ silent')
      <4>1. x \notin Numbers \ silent'
        BY <3>1, <3>3
      <4>2. QED BY <4>1, OnlyGrows
    <3>7. Only(h, Numbers \ silent') = Only(h, Numbers \ silent)
      <4>1. \A i \in 1 .. Len(h) : h[i] \in Numbers \ silent' <=> h[i] \in Numbers \ silent
        BY <3>1, <3>2
      <4>2. QED BY <4>1, OnlySame
    <3>8. PICK v \in Seq(Answers) : v = Only(h, Numbers \ silent)
      <4>1. h \in Seq(Answers)
        BY SeqMonotonic DEF Answers
      <4>2. QED BY <4>1, OnlyType
    <3>9. u = v
      <4>1. u \o <<x>> = v \o <<x>>
        BY <2>1, <2>2, <3>2, <3>3, <3>5, <3>8
      <4>2. QED BY <4>1, CancelLast DEF Answers
    <3>10. Only(received \o writes, Ordinary)' = u
      BY <1>1, <1>6, <2>2, <3>1
    <3>11. Only(handled, Numbers \ silent)' = v
      BY <1>1, <3>2, <3>3, <3>6, <3>7, <3>8
    <3>12. u \o <<>> = u
      OBVIOUS
    <3>13. QED BY <1>3, <3>9, <3>10, <3>11, <3>12
  <2>5. QED BY <2>3, <2>4
<1>12. QED BY <1>7, <1>8, <1>9, <1>10, <1>11 DEF OrderInv

LEMMA FramesOrder == ASSUME DriveInv, OrderInv, Frames PROVE OrderInv'
<1>1. /\ pc = "ws" /\ pc' = "idle"
      /\ UNCHANGED <<asked, inbound, gone, remote, handled, received, closed, silent>>
  BY DEF Frames
<1>2. PICK replies \in 0 .. 2, kept \in 0 .. Len(ctx.buffer), w \in BOOLEAN :
        /\ writes' = writes \o [i \in 1 .. replies |-> Frame]
        /\ ctx' = [ctx EXCEPT !.buffer = SubSeq(@, Len(@) - kept + 1, Len(@)), !.closeAfterWrite = w]
  BY DEF Frames
<1>3. /\ ctx \in Context /\ ctx.buffer \in Seq(Piece) /\ Len(ctx.buffer) \in Nat /\ ctx.protoState = "ws"
      /\ remote = <<>> /\ inbound \in Seq(Piece)
  BY <1>1, LenProperties DEF DriveInv, TypeOK, Context, Control
<1> DEFINE n == Len(ctx.buffer) - kept
           b == SubSeq(ctx.buffer, n + 1, Len(ctx.buffer))
<1>4. n \in 0 .. Len(ctx.buffer)
  BY <1>3
<1>5. /\ ctx'.buffer = b /\ ctx'.cur = ctx.cur /\ ctx'.protoState = "ws"
  <2>1. ctx' = [ctx EXCEPT !.buffer = b, !.closeAfterWrite = w]
    BY <1>2
  <2> HIDE DEF b
  <2>2. QED BY <1>3, <2>1 DEF Context
<1>6. TokensInOrder'
  <2> HIDE DEF n
  <2>1. InOrder(b \o inbound, ctx.cur)
    BY <1>3, <1>4, InOrderDrop DEF OrderInv, TokensInOrder
  <2> HIDE DEF b
  <2>2. QED BY <1>1, <1>5, <2>1 DEF TokensInOrder
<1> HIDE DEF b
<1>7. UpgradeEnds' /\ HandledInOrder' /\ SilentIsPast' /\ ProxyOnLast'
  BY <1>1, <1>3, <1>5 DEF OrderInv, UpgradeEnds, HandledInOrder, BodyAwaited, SilentIsPast, ProxyOnLast
<1>8. PICK S : S = 0 .. Len(asked)
  OBVIOUS
<1>9. received \in Seq(S) /\ writes \in Seq(S)
  BY <1>8 DEF OrderInv, AnswersOfSent
<1>10. PICK f \in Seq(S) : f = [i \in 1 .. replies |-> Frame]
  <2>1. Frame \in S
    BY <1>8 DEF Frame, DriveInv, TypeOK
  <2>2. PICK F \in S : F = Frame
    BY <2>1
  <2>3. [i \in 1 .. replies |-> F] \in Seq(S)
    OBVIOUS
  <2>4. QED BY <2>2, <2>3
<1>11. AnswersOfSent'
  <2>1. writes' \in Seq(S)
    BY <1>2, <1>9, <1>10, ConcatProperties
  <2>2. QED BY <1>1, <1>8, <1>9, <2>1 DEF AnswersOfSent
<1>12. Ordinary' = Ordinary
  BY <1>1 DEF Ordinary
<1>13. ResponsesMatchRequests'
  <2>1. PICK s \in Seq(S) : s = received \o writes
    BY <1>9, ConcatProperties
  <2>2. received \o (writes \o f) = s \o f
    <3>1. received \o (writes \o f) = (received \o writes) \o f
      BY <1>9, ConcatRegroup
    <3>2. QED BY <2>1, <3>1
  <2>3. Only(s \o f, Ordinary) = Only(s, Ordinary) \o Only(f, Ordinary)
    BY OnlyConcat
  <2>4. Only(f, Ordinary) = <<>>
    <3>1. Frame \notin Ordinary
      BY DEF Ordinary, Frame, DriveInv, TypeOK
    <3>2. \A i \in 1 .. Len(f) : f[i] = Frame
      BY <1>10
    <3>3. \A i \in 1 .. Len(f) : f[i] \in Ordinary <=> f[i] \in {}
      BY <3>1, <3>2
    <3>4. Only(f, Ordinary) = Only(f, {})
      BY <3>3, OnlySame
    <3>5. QED BY <3>4, OnlyNothing
  <2>5. Only(s, Ordinary) \o <<>> = Only(s, Ordinary)
    <3>1. Only(s, Ordinary) \in Seq(S)
      BY OnlyType
    <3>2. QED BY <3>1
  <2>6. Only(received \o writes, Ordinary)' = Only(received \o writes, Ordinary)
    BY <1>1, <1>2, <1>10, <1>12, <2>1, <2>2, <2>3, <2>4, <2>5
  <2>7. QED BY <1>1, <2>6 DEF OrderInv, ResponsesMatchRequests
<1>14. QED BY <1>6, <1>7, <1>11, <1>13 DEF OrderInv

LEMMA InitOrder == Init => OrderInv
<1> SUFFICES ASSUME Init PROVE OrderInv
  OBVIOUS
<1>1. /\ ctx.buffer = <<>> /\ inbound = <<>> /\ ~ctx.upgrade /\ handled = <<>> /\ silent = {}
      /\ remote = <<>> /\ received = <<>> /\ writes = <<>> /\ asked = <<>> /\ <<>> \o <<>> = <<>>
  BY DEF Init
<1>2. AnswersOfSent /\ UpgradeEnds /\ HandledInOrder /\ SilentIsPast /\ ProxyOnLast
  BY <1>1, EmptySeq DEF AnswersOfSent, UpgradeEnds, HandledInOrder, SilentIsPast, ProxyOnLast
<1>3. TokensInOrder
  BY <1>1 DEF TokensInOrder, InOrder
<1>4. Only(received \o writes, Ordinary) \o remote = <<>> /\ Only(handled, Numbers \ silent) = <<>>
  BY <1>1, OnlyEmpty
<1>5. QED BY <1>2, <1>3, <1>4 DEF OrderInv, ResponsesMatchRequests

LEMMA NextOrder == DriveInv /\ DriveInv' /\ OrderInv /\ [Next]_vars => OrderInv'
<1> SUFFICES ASSUME DriveInv, DriveInv', OrderInv, [Next]_vars PROVE OrderInv'
  OBVIOUS
<1>1. CASE Client
  BY <1>1, QuietSteps, SendOrder DEF Client
<1>2. CASE Library \/ ReadTimeout
  BY <1>2, ReadDataOrder, QuietSteps, WriteOrder DEF Library, ReadFailed, ReadTimeout
<1>3. CASE Agent
  BY <1>3, QuietSteps, HeaderParsedOrder, UpgradeOrder, HandlerFailsOrder, HandlerDelegatesOrder,
     HandlerRepliesOrder, FramesOrder DEF Agent
<1>4. QED BY <1>1, <1>2, <1>3, QuietSteps, ResumeOrder DEF Next

\* The inductive invariant, the order of requests and responses included, holds in
\* every reachable state.
THEOREM Invariance == Spec => []IInv
<1>1. Init => OrderInv
  BY InitOrder
<1>2. DriveInv /\ DriveInv' /\ OrderInv /\ [Next]_vars => OrderInv'
  BY NextOrder
<1>3. IInv <=> DriveInv /\ OrderInv
  BY DEF IInv
<1>4. QED BY <1>1, <1>2, <1>3, Driving, PTL DEF Spec

\* Every handled request is answered once and in order, whatever is pipelined and
\* whichever requests take the way through the proxy.
THEOREM ResponsesInOrder == Spec => []ResponsesMatchRequests
<1>1. IInv => ResponsesMatchRequests
  BY DEF IInv, OrderInv
<1>2. QED BY <1>1, Invariance, PTL
==============================================================================
