--------------------------- MODULE WebSocketProofs ---------------------------
(***************************************************************************)
(* Theorems about WebSocket, for any limits, any number of frames, however *)
(* the reads cut them.  The types hold of every client.  What an agent     *)
(* that waits has left is proved of clients that do not fragment their     *)
(* messages, what the handler sees and the client receives of those that   *)
(* get an answer to everything: of others it is not true.                  *)
(***************************************************************************)
EXTENDS WebSocket, SequenceLemmas

(***************************************************************************)
(* What is on its way: the frames from one on, none missing, none begun.   *)
(***************************************************************************)
\* What follows a token of the frames s.
After(t, s) ==
    IF t.pos = s[t.frame].size THEN [frame |-> t.frame + 1, pos |-> 0]
    ELSE [frame |-> t.frame, pos |-> t.pos + 1]

\* The tokens w are those of the last of the frames s, from a head on.
Stream(w, s) ==
    /\ \A i \in 1 .. Len(w) : w[i].frame \in 1 .. Len(s) /\ w[i].pos \in 0 .. s[w[i].frame].size
    /\ \A i \in 1 .. Len(w) - 1 : w[i + 1] = After(w[i], s)
    /\ w # <<>> => /\ w[1].pos = 0
                   /\ w[Len(w)].frame = Len(s) /\ w[Len(w)].pos = s[Len(s)].size

InStream == Stream(buffer \o inbound, sent)

\* The loop has something to parse.
AtWork == pc = "ws" => buffer # <<>>

FrameInv == TypeOK /\ Len(sent) <= MaxFrames /\ InStream /\ AtWork

\* A client that sends every message in one frame.
Unfragmented == \A burst \in Bursts : \A i \in DOMAIN burst : burst[i].op \in DataOps => burst[i].final

\* No message is open.
NothingOpen ==
    /\ \A i \in DOMAIN sent : sent[i].op \in DataOps => sent[i].final
    /\ ~msg.msContinue

WaitInv == FrameInv /\ NothingOpen /\ NothingWaits

(***************************************************************************)
(* What was given to the handler, and what was answered.                   *)
(***************************************************************************)
\* A frame the code accepts when no message is open.
Sane(k) ==
    /\ ~BadHead(k) /\ k.op \in DataOps \cup ControlOps
    /\ k.op \in ControlOps => k.size <= MaxControl /\ k.final

\* A frame with something to answer: no pong, data, the code of a close frame.
HasAnswer(k) == k.op # "pong" /\ k.size > (IF k.op = "close" THEN 1 ELSE 0)

\* Every message is answered.
Answered ==
    /\ Replies = {TRUE}
    /\ \A burst \in Bursts : \A i \in DOMAIN burst : Sane(burst[i]) => HasAnswer(burst[i])

\* The frames that are cut out of the buffer.
Done == IF buffer \o inbound = <<>> THEN Len(sent) ELSE (buffer \o inbound)[1].frame - 1

Message(i) == [type |-> sent[i].op, data |-> Plain(i)]
Cut == [i \in 1 .. Done |-> Message(i)]

DataMessage == [type : DataOps, data : Seq(Byte)]

\* The frames sent: a close frame is the last, and those that are accepted have answers.
SentInv ==
    /\ \A i \in 1 .. Len(sent) - 1 : sent[i].op # "close"
    /\ \A i \in DOMAIN sent : Sane(sent[i]) => HasAnswer(sent[i])

\* Nothing of one message is left for the next but, while its frame is not
\* complete, its type.
Fresh ==
    IF closing THEN buffer \o inbound = <<>> /\ sent # <<>> /\ sent[Len(sent)].op = "close"
    ELSE /\ msg.reqData = <<>>
         /\ msg.messageType # NoType =>
              /\ buffer # <<>>
              /\ msg.messageType = sent[FrontFrame].op

HandledInv ==
    /\ \A i \in 1 .. Done : Sane(sent[i])
    /\ handled = Only(Cut, DataMessage)

MessageInv == WaitInv /\ SentInv /\ Fresh /\ HandledInv

\* The i-th of all writes is the i-th answer or, behind the answers, says
\* "bad request".
Given(i) == AnswerTo(Message(i))
InPlace(i, frame) == IF i <= Done THEN frame = Given(i) ELSE frame.bad

\* What became of an answer in the array of RspHeader, when a later frame was
\* built there.
Spoilt(i, frame) ==
    /\ i <= Done /\ Len(Given(i).of) <= Inline
    /\ frame.bad \/ \E j \in i + 1 .. Done : frame = Given(j)

\* The front of the buffer is refused: nothing more is answered.
Stuck == ~closing /\ buffer # <<>> /\ ~Sane(sent[FrontFrame])

ReceivedInv == \A i \in 1 .. Len(received) : InPlace(i, received[i]) \/ Spoilt(i, received[i])

\* The array holds what was written last.
WritesInv ==
    /\ \A i \in 1 .. Len(writes) : /\ InPlace(Len(received) + i, writes[i].frame)
                                   /\ writes[i].shared => Len(writes[i].frame.of) <= Inline
    /\ writes # <<>> => header = writes[Len(writes)].frame

\* Every answer is written, and nothing else before the last.
CountInv ==
    /\ Done <= Len(received) + Len(writes)
    /\ Done < Len(received) + Len(writes) => Stuck

AnswerInv == CountInv /\ WritesInv /\ ReceivedInv
-----------------------------------------------------------------------------
\* A token, whatever the number of frames.
Token == [frame : Nat, pos : Nat]

LEMMA TokensType ==
    ASSUME NEW f \in Nat, NEW k \in FrameKind
    PROVE  /\ k.size \in Nat /\ Tokens(f, k) \in Seq(Token) /\ Len(Tokens(f, k)) = k.size + 1
           /\ \A i \in 1 .. k.size + 1 : Tokens(f, k)[i] = [frame |-> f, pos |-> i - 1]
<1>1. k.size \in Nat
  BY DEF FrameKind
<1>2. \A i \in 1 .. k.size + 1 : [frame |-> f, pos |-> i - 1] \in Token
  BY <1>1 DEF Token
<1>3. QED BY <1>1, <1>2, IsASeq DEF Tokens

LEMMA TokensRegroup == \A x, y, z \in Seq(Token) : x \o (y \o z) = (x \o y) \o z
BY ConcatRegroup

\* The tokens of the next frame go on with what is under way.
LEMMA StreamTokens ==
    ASSUME NEW s \in Seq(FrameKind), NEW k \in FrameKind, NEW w \in Seq(Token), Stream(w, s)
    PROVE  LET v == w \o Tokens(Len(s) + 1, k) IN
           /\ v \in Seq(Token) /\ Stream(v, Append(s, k))
           /\ v # <<>> /\ v[1].frame = IF w = <<>> THEN Len(s) + 1 ELSE w[1].frame
<1> DEFINE n == Len(s)
           t == Tokens(n + 1, k)
           v == w \o t
           r == Append(s, k)
           m == Len(w)
<1>1. /\ n \in Nat /\ m \in Nat /\ k.size \in Nat /\ t \in Seq(Token) /\ Len(t) = k.size + 1
      /\ \A i \in 1 .. k.size + 1 : t[i] = [frame |-> n + 1, pos |-> i - 1]
  BY TokensType
<1>2. /\ r \in Seq(FrameKind) /\ Len(r) = n + 1 /\ r[n + 1] = k /\ \A i \in 1 .. n : r[i] = s[i]
  OBVIOUS
<1> HIDE DEF t, r
<1>3. /\ v \in Seq(Token) /\ Len(v) = m + k.size + 1
      /\ \A i \in 1 .. m : v[i] = w[i]
      /\ \A i \in 1 .. k.size + 1 : v[m + i] = [frame |-> n + 1, pos |-> i - 1]
  <2>1. v \in Seq(Token) /\ Len(v) = m + (k.size + 1)
        /\ \A i \in 1 .. m + (k.size + 1) : v[i] = IF i <= m THEN w[i] ELSE t[i - m]
    BY <1>1, ConcatProperties
  <2> HIDE DEF v
  <2>2. ASSUME NEW i \in 1 .. k.size + 1 PROVE v[m + i] = t[i]
    <3>1. m + i \in 1 .. m + (k.size + 1) /\ ~ (m + i <= m) /\ (m + i) - m = i
      BY <1>1
    <3>2. QED BY <2>1, <3>1
  <2>3. \A i \in 1 .. m : v[i] = w[i]
    <3>1. \A i \in 1 .. m : i \in 1 .. m + (k.size + 1) /\ i <= m
      BY <1>1
    <3>2. QED BY <2>1, <3>1
  <2>4. Len(v) = m + k.size + 1
    BY <1>1, <2>1
  <2>5. QED BY <1>1, <2>1, <2>2, <2>3, <2>4
<1>4. \A i \in 1 .. m : /\ w[i] \in Token
                        /\ w[i].frame \in 1 .. n /\ w[i].pos \in 0 .. s[w[i].frame].size
                        /\ After(w[i], r) = After(w[i], s)
  BY <1>1, <1>2, ElementOfSeq DEF Stream, After
<1> HIDE DEF v, m, n
<1>5. ASSUME NEW i \in 1 .. Len(v) PROVE v[i].frame \in 1 .. n + 1 /\ v[i].pos \in 0 .. r[v[i].frame].size
  <2>1. CASE i \in 1 .. m
    <3>1. v[i] = w[i] /\ w[i].frame \in 1 .. n /\ w[i].pos \in 0 .. s[w[i].frame].size
      BY <1>3, <1>4, <2>1
    <3>2. r[w[i].frame] = s[w[i].frame] /\ w[i].frame \in 1 .. n + 1
      BY <1>1, <1>2, <3>1
    <3>3. QED BY <3>1, <3>2
  <2>2. CASE i \notin 1 .. m
    <3>1. i - m \in 1 .. k.size + 1 /\ m + (i - m) = i
      BY <1>1, <1>3, <2>2
    <3>2. v[i] = [frame |-> n + 1, pos |-> (i - m) - 1]
      BY <1>3, <3>1
    <3>3. v[i].frame = n + 1 /\ v[i].pos = (i - m) - 1 /\ r[n + 1].size = k.size
      BY <1>2, <3>2
    <3>4. n + 1 \in 1 .. n + 1 /\ (i - m) - 1 \in 0 .. k.size
      BY <1>1, <3>1
    <3>5. QED BY <3>3, <3>4
  <2>3. QED BY <2>1, <2>2
<1>6. ASSUME NEW i \in 1 .. Len(v) - 1 PROVE v[i + 1] = After(v[i], r)
  <2>1. CASE i < m
    <3>1. i \in 1 .. m /\ i + 1 \in 1 .. m /\ i \in 1 .. m - 1
      BY <1>1, <2>1
    <3>2. w[i + 1] = After(w[i], s)
      BY <3>1 DEF Stream, m
    <3>3. QED BY <1>3, <1>4, <3>1, <3>2
  <2>2. CASE i = m
    <3>1. m \in 1 .. m /\ w # <<>> /\ 1 \in 1 .. k.size + 1
      BY <1>1, <2>2 DEF m
    <3>2. w[m].frame = n /\ w[m].pos = s[n].size
      BY <3>1 DEF Stream, m, n
    <3>3. After(w[m], s) = [frame |-> n + 1, pos |-> 0]
      BY <3>2 DEF After
    <3>4. v[m + 1] = [frame |-> n + 1, pos |-> 1 - 1]
      BY <1>3, <3>1
    <3>5. v[m] = w[m] /\ After(w[m], r) = After(w[m], s)
      BY <1>3, <1>4, <3>1
    <3>6. After(v[m], r) = [frame |-> n + 1, pos |-> 0]
      BY <3>3, <3>5
    <3>7. v[m + 1] = After(v[m], r)
      BY <3>4, <3>6
    <3>8. QED BY <2>2, <3>7
  <2>3. CASE i > m
    <3>1. i - m \in 1 .. k.size /\ m + (i - m) = i /\ m + (i - m + 1) = i + 1
      BY <1>1, <1>3, <2>3
    <3>2. i - m \in 1 .. k.size + 1 /\ i - m + 1 \in 1 .. k.size + 1
      <4>1. \A a, b \in Nat : a \in 1 .. b => a \in 1 .. b + 1 /\ a + 1 \in 1 .. b + 1
        OBVIOUS
      <4>2. k.size \in Nat /\ i - m \in Nat
        BY <1>1, <3>1
      <4>3. QED BY <3>1, <4>1, <4>2
    <3>3. v[i] = [frame |-> n + 1, pos |-> (i - m) - 1] /\ v[i + 1] = [frame |-> n + 1, pos |-> (i - m + 1) - 1]
      BY <1>3, <3>1, <3>2
    <3>4. QED BY <1>1, <1>2, <3>1, <3>3 DEF After
  <2>4. QED BY <1>1, <2>1, <2>2, <2>3
<1>7. v # <<>> /\ Len(v) \in Nat /\ v[Len(v)] = [frame |-> n + 1, pos |-> k.size]
  <2>1. k.size + 1 \in 1 .. k.size + 1 /\ m + (k.size + 1) = Len(v)
    BY <1>1, <1>3
  <2>2. QED BY <1>1, <1>3, <2>1
<1>8. v[1].pos = 0 /\ v[1].frame = IF w = <<>> THEN n + 1 ELSE w[1].frame
  <2>1. CASE w = <<>>
    <3>1. m = 0 /\ 1 \in 1 .. k.size + 1
      BY <1>1, <2>1 DEF m
    <3>2. v[0 + 1] = [frame |-> n + 1, pos |-> 0]
      BY <1>3, <3>1
    <3>3. QED BY <2>1, <3>2
  <2>2. CASE w # <<>>
    <3>1. 1 \in 1 .. m
      BY <1>1, <2>2, EmptySeq DEF m
    <3>2. QED BY <1>3, <2>2, <3>1 DEF Stream
  <2>3. QED BY <2>1, <2>2
<1>9. Stream(v, r)
  BY <1>2, <1>5, <1>6, <1>7, <1>8 DEF Stream
<1>10. QED BY <1>3, <1>7, <1>8, <1>9 DEF v, r, t, n

\* What Wire adds up, frame by frame.
LEMMA WireSteps ==
    ASSUME NEW n \in Nat, NEW burst \in Seq(FrameKind)
    PROVE  \E g : /\ g[0] = <<>> /\ Wire(n, burst) = g[Len(burst)]
                  /\ \A i \in 1 .. Len(burst) : g[i] = g[i - 1] \o Tokens(n + i, burst[i])
                  /\ \A i \in 0 .. Len(burst) : g[i] \in Seq(Token)
<1> DEFINE m == Len(burst)
           Is(g) == g = [i \in 0 .. m |-> IF i = 0 THEN <<>> ELSE g[i - 1] \o Tokens(n + i, burst[i])]
           S == Seq(Token)
           step == [p \in S \X S |-> p[1] \o p[2]]
           parts == [i \in 1 .. m |-> Tokens(n + i, burst[i])]
<1>1. m \in Nat /\ \A i \in 1 .. m : burst[i] \in FrameKind
  BY ElementOfSeq
<1>2. <<>> \in S /\ step \in [S \X S -> S] /\ \A a \in S, b \in S : step[<<a, b>>] = a \o b
  BY EmptySeq, ConcatProperties
<1>3. parts \in [1 .. m -> S] /\ \A i \in 1 .. m : parts[i] = Tokens(n + i, burst[i])
  <2> HIDE DEF m
  <2>1. ASSUME NEW i \in 1 .. m PROVE Tokens(n + i, burst[i]) \in Seq(Token)
    <3>1. PICK f \in Nat : f = n + i
      BY <1>1
    <3>2. PICK k \in FrameKind : k = burst[i]
      BY <1>1
    <3>3. Tokens(f, k) \in Seq(Token)
      BY TokensType
    <3>4. QED BY <3>1, <3>2, <3>3
  <2>2. QED BY <2>1
<1> HIDE DEF S, step, parts, m
<1>4. PICK g : Steps(g, S, step, <<>>, parts, m)
  BY <1>1, <1>2, <1>3, StepsExist
<1>5. Is(g)
  <2> DEFINE h == [i \in 0 .. m |-> IF i = 0 THEN <<>> ELSE g[i - 1] \o Tokens(n + i, burst[i])]
  <2>1. \A i \in 0 .. m : g[i] = h[i]
    <3> TAKE i \in 0 .. m
    <3>1. CASE i = 0
      BY <1>4, <3>1 DEF Steps
    <3>2. CASE i # 0
      <4>1. i \in 1 .. m /\ i - 1 \in 0 .. m
        BY <1>1, <3>2
      <4>2. g[i - 1] \in S /\ parts[i] \in S
        BY <1>3, <1>4, <4>1 DEF Steps
      <4>3. g[i] = g[i - 1] \o parts[i]
        BY <1>2, <1>4, <4>1, <4>2 DEF Steps
      <4>4. QED BY <1>3, <3>2, <4>1, <4>3
    <3>3. QED BY <3>1, <3>2
  <2>2. g = [i \in 0 .. m |-> g[i]] /\ h = [i \in 0 .. m |-> h[i]]
    BY <1>4 DEF Steps
  <2> HIDE DEF h
  <2>3. g = h
    BY <2>1, <2>2, SameFunction
  <2>4. QED BY <2>3 DEF h
<1>6. PICK w : Is(w) /\ Wire(n, burst) = w[m]
  <2> DEFINE c == CHOOSE c : Is(c)
  <2>1. Is(c)
    BY Zenon, <1>5
  <2>2. Wire(n, burst) = c[m]
    BY DEF Wire, m
  <2> HIDE DEF c
  <2>3. QED BY Zenon, <2>1, <2>2
<1>7. /\ w[0] = <<>>
      /\ \A i \in 1 .. m : w[i] = w[i - 1] \o Tokens(n + i, burst[i])
  <2> DEFINE h == [i \in 0 .. m |-> IF i = 0 THEN <<>> ELSE w[i - 1] \o Tokens(n + i, burst[i])]
  <2>1. h[0] = <<>> /\ \A i \in 1 .. m : h[i] = w[i - 1] \o Tokens(n + i, burst[i])
    <3>1. 0 \in 0 .. m /\ \A i \in 1 .. m : i \in 0 .. m /\ i # 0
      BY <1>1
    <3>2. h[0] = <<>>
      BY <3>1
    <3>3. \A i \in 1 .. m : h[i] = w[i - 1] \o Tokens(n + i, burst[i])
      BY <3>1
    <3>4. QED BY <3>2, <3>3
  <2>2. w = h
    BY <1>6
  <2> HIDE DEF h
  <2>3. QED BY <2>1, <2>2
<1>8. \A i \in 0 .. m : w[i] \in S
  <2> DEFINE Q == {i \in Nat : i <= m => w[i] \in S}
  <2>1. 0 \in Q
    BY <1>2, <1>7
  <2>2. ASSUME NEW i \in Nat, i \in Q PROVE i + 1 \in Q
    <3>1. SUFFICES ASSUME i + 1 <= m PROVE w[i + 1] \in S
      OBVIOUS
    <3>2. w[i] \in S /\ i + 1 \in 1 .. m /\ (i + 1) - 1 = i
      BY <1>1, <2>2, <3>1
    <3>3. w[i + 1] = w[i] \o Tokens(n + (i + 1), burst[i + 1])
      BY <1>7, <3>2
    <3>4. Tokens(n + (i + 1), burst[i + 1]) \in Seq(Token)
      BY <1>1, <3>2, TokensType
    <3>5. QED BY <3>2, <3>3, <3>4, ConcatProperties DEF S
  <2>3. Nat \subseteq Q
    <3> HIDE DEF Q
    <3>1. QED BY <2>1, <2>2, SetInduction
  <2>4. QED BY <1>1, <2>3
<1>9. QED BY <1>6, <1>7, <1>8 DEF m, S

\* A burst goes on with what is under way.
LEMMA StreamWire ==
    ASSUME NEW s \in Seq(FrameKind), NEW burst \in Seq(FrameKind), NEW w \in Seq(Token), Stream(w, s)
    PROVE  LET v == w \o Wire(Len(s), burst) IN
           /\ Wire(Len(s), burst) \in Seq(Token)
           /\ v \in Seq(Token) /\ Stream(v, s \o burst)
           /\ burst = <<>> => v = w
           /\ burst # <<>> => v # <<>> /\ v[1].frame = IF w = <<>> THEN Len(s) + 1 ELSE w[1].frame
<1> DEFINE n == Len(s)
           m == Len(burst)
<1>1. n \in Nat /\ m \in Nat /\ \A i \in 1 .. m : burst[i] \in FrameKind
  BY ElementOfSeq
<1>2. PICK g : /\ g[0] = <<>> /\ Wire(n, burst) = g[m]
               /\ \A i \in 1 .. m : g[i] = g[i - 1] \o Tokens(n + i, burst[i])
               /\ \A i \in 0 .. m : g[i] \in Seq(Token)
  BY <1>1, WireSteps
<1> DEFINE Part(i) == s \o SubSeq(burst, 1, i)
           Goes(i) == /\ w \o g[i] \in Seq(Token) /\ Stream(w \o g[i], Part(i))
                      /\ i # 0 => /\ w \o g[i] # <<>>
                                  /\ (w \o g[i])[1].frame = IF w = <<>> THEN n + 1 ELSE w[1].frame
           Q == {i \in Nat : i <= m => Goes(i)}
<1>3. w \o g[0] = w /\ w \in Seq(Token)
  BY <1>2
<1>4. 0 \in Q
  <2>1. SubSeq(burst, 1, 0) = <<>>
    OBVIOUS
  <2>2. Part(0) = s
    BY <2>1
  <2> HIDE DEF Part
  <2>3. QED BY <1>3, <2>2
<1>5. ASSUME NEW i \in Nat, i \in Q PROVE i + 1 \in Q
  <2>1. SUFFICES ASSUME i + 1 <= m PROVE Goes(i + 1)
    OBVIOUS
  <2>2. /\ i + 1 \in 1 .. m /\ (i + 1) - 1 = i /\ i <= m /\ i \in 0 .. m /\ i + 1 \in 0 .. m
        /\ n + (i + 1) = (n + i) + 1 /\ burst[i + 1] \in FrameKind
    BY <1>1, <2>1
  <2>3. Goes(i)
    BY <1>5, <2>2
  <2>4. Part(i) \in Seq(FrameKind) /\ Len(Part(i)) = n + i /\ Part(i + 1) = Append(Part(i), burst[i + 1])
    <3>1. SubSeq(burst, 1, i) \in Seq(FrameKind) /\ Len(SubSeq(burst, 1, i)) = i
          /\ SubSeq(burst, 1, i + 1) = Append(SubSeq(burst, 1, i), burst[i + 1])
      BY <1>1, <2>2
    <3>2. PICK b \in Seq(FrameKind) : b = SubSeq(burst, 1, i)
      BY <3>1
    <3>3. PICK x \in FrameKind : x = burst[i + 1]
      BY <2>2
    <3>4. s \o b \in Seq(FrameKind) /\ Len(s \o b) = n + Len(b) /\ s \o Append(b, x) = Append(s \o b, x)
      OBVIOUS
    <3>5. QED BY <3>1, <3>2, <3>3, <3>4
  <2>5. PICK v \in Seq(Token) : v = w \o g[i]
    BY <2>3
  <2>6. PICK r \in Seq(FrameKind) : r = Part(i)
    BY <2>4
  <2>7. PICK k \in FrameKind : k = burst[i + 1]
    BY <2>2
  <2>8. Stream(v, r) /\ Len(r) = n + i
    BY <2>3, <2>4, <2>5, <2>6
  <2>9. /\ v \o Tokens((n + i) + 1, k) \in Seq(Token) /\ Stream(v \o Tokens((n + i) + 1, k), Append(r, k))
        /\ v \o Tokens((n + i) + 1, k) # <<>>
        /\ (v \o Tokens((n + i) + 1, k))[1].frame = IF v = <<>> THEN (n + i) + 1 ELSE v[1].frame
    <3>1. /\ v \o Tokens(Len(r) + 1, k) \in Seq(Token) /\ Stream(v \o Tokens(Len(r) + 1, k), Append(r, k))
          /\ v \o Tokens(Len(r) + 1, k) # <<>>
          /\ (v \o Tokens(Len(r) + 1, k))[1].frame = IF v = <<>> THEN Len(r) + 1 ELSE v[1].frame
      BY <2>8, StreamTokens
    <3>2. QED BY <2>8, <3>1
  <2>10. w \o g[i + 1] = v \o Tokens((n + i) + 1, k)
    <3>1. PICK a \in Seq(Token) : a = g[i]
      BY <1>2, <2>2
    <3>2. PICK t \in Seq(Token) : t = Tokens((n + i) + 1, k)
      BY <1>1, TokensType
    <3>3. w \o (a \o t) = (w \o a) \o t
      BY TokensRegroup, Zenon
    <3>4. g[i + 1] = a \o t
      BY <1>2, <2>2, <2>7, <3>1, <3>2
    <3>5. QED BY <2>5, <3>1, <3>2, <3>3, <3>4
  <2>11. (IF v = <<>> THEN (n + i) + 1 ELSE v[1].frame) = IF w = <<>> THEN n + 1 ELSE w[1].frame
    <3>1. CASE i = 0
      BY <1>1, <1>3, <2>5, <3>1
    <3>2. CASE i # 0
      BY <2>3, <2>5, <3>2
    <3>3. QED BY <3>1, <3>2
  <2> HIDE DEF Part
  <2>12. QED BY <2>4, <2>6, <2>7, <2>9, <2>10, <2>11
<1>6. Goes(m)
  <2> HIDE DEF Goes
  <2>1. Nat \subseteq Q
    <3> HIDE DEF Q
    <3>1. QED BY <1>4, <1>5, SetInduction
  <2>2. QED BY <1>1, <2>1
<1>7. Part(m) = s \o burst
  <2>1. SubSeq(burst, 1, m) = burst
    BY <1>1
  <2>2. QED BY <2>1
<1>8. burst = <<>> <=> m = 0
  BY EmptySeq
<1>9. m \in 0 .. m
  BY <1>1
<1> HIDE DEF Part, m
<1>10. QED BY <1>2, <1>3, <1>6, <1>7, <1>8, <1>9 DEF n


\* What is left of a sequence behind the first n + 1 of it.
LEMMA Behind ==
    ASSUME NEW S, NEW w \in Seq(S), NEW n \in Nat, n < Len(w)
    PROVE  LET rest == SubSeq(w, n + 2, Len(w)) IN
           /\ rest \in Seq(S) /\ Len(rest) = Len(w) - (n + 1)
           /\ \A i \in 1 .. Len(w) - (n + 1) : rest[i] = w[(n + 1) + i]
<1> DEFINE rest == SubSeq(w, n + 2, Len(w))
<1>1. rest \in Seq(S) /\ Len(rest) = Len(w) - (n + 1)
  OBVIOUS
<1>2. ASSUME NEW i \in 1 .. Len(w) - (n + 1) PROVE rest[i] = w[(n + 1) + i]
  OBVIOUS
<1>3. QED BY SMTT(30), <1>1, <1>2

\* What is under way begins with a whole frame, and goes on behind it.
LEMMA StreamFront ==
    ASSUME NEW s \in Seq(FrameKind), NEW w \in Seq(Token), Stream(w, s), w # <<>>
    PROVE  LET f == w[1].frame
               n == s[f].size
               rest == SubSeq(w, n + 2, Len(w)) IN
           /\ f \in 1 .. Len(s) /\ s[f] \in FrameKind /\ n \in Nat /\ Len(w) > n
           /\ rest \in Seq(Token) /\ Stream(rest, s)
           /\ rest = <<>> => f = Len(s)
           /\ rest # <<>> => rest[1].frame = f + 1
<1> DEFINE f == w[1].frame
           n == s[f].size
           m == Len(w)
           l == Len(s)
           Here(j) == m > j /\ w[j + 1] = [frame |-> f, pos |-> j]
           Q == {j \in Nat : j <= n => Here(j)}
<1>1. m \in Nat /\ m >= 1 /\ l \in Nat /\ \A i \in 1 .. m : w[i] \in Token
  BY EmptySeq, ElementOfSeq
<1>2. /\ \A i \in 1 .. m : w[i].frame \in 1 .. l /\ w[i].pos \in 0 .. s[w[i].frame].size
      /\ \A i \in 1 .. m - 1 : w[i + 1] = After(w[i], s)
      /\ w[1].pos = 0 /\ w[m].frame = l /\ w[m].pos = s[l].size
  BY DEF Stream
<1>3. f \in 1 .. l /\ s[f] \in FrameKind /\ n \in Nat
  <2>1. 1 \in 1 .. m
    BY <1>1
  <2>2. f \in 1 .. l
    BY <1>2, <2>1
  <2>3. s[f] \in FrameKind
    BY <2>2, ElementOfSeq
  <2>4. QED BY <2>2, <2>3 DEF FrameKind
<1>4. w[1] = [frame |-> f, pos |-> 0]
  <2>1. w[1] \in Token
    BY <1>1
  <2>2. w[1] = [frame |-> w[1].frame, pos |-> w[1].pos]
    BY <2>1 DEF Token
  <2>3. QED BY <1>2, <2>2
<1> HIDE DEF m, l
<1>5. 0 \in Q
  BY <1>1, <1>4
<1>6. ASSUME NEW j \in Nat, j \in Q PROVE j + 1 \in Q
  <2>1. SUFFICES ASSUME j + 1 <= n PROVE Here(j + 1)
    OBVIOUS
  <2>2. m > j /\ w[j + 1] = [frame |-> f, pos |-> j]
    BY <1>3, <1>6, <2>1
  <2>3. w[j + 1].frame = f /\ w[j + 1].pos = j
    BY <2>2
  <2>4. m # j + 1
    <3>1. SUFFICES ASSUME m = j + 1 PROVE FALSE
      OBVIOUS
    <3>2. l = f /\ s[l].size = j
      BY <1>2, <2>3, <3>1
    <3>3. QED BY <1>3, <2>1, <3>2
  <2>5. j + 1 \in 1 .. m - 1 /\ (j + 1) + 1 = j + 2 /\ m > j + 1
    BY <1>1, <2>2, <2>4
  <2>6. w[(j + 1) + 1] = After(w[j + 1], s)
    BY <1>2, <2>5
  <2>7. j # n
    BY <1>3, <2>1
  <2>8. After(w[j + 1], s) = [frame |-> f, pos |-> j + 1]
    BY <2>3, <2>7 DEF After
  <2>9. QED BY <2>5, <2>6, <2>8
<1>7. Here(n)
  <2>1. Nat \subseteq Q
    <3> HIDE DEF Q
    <3>1. QED BY <1>5, <1>6, SetInduction
  <2>2. QED BY <1>3, <2>1
<1> DEFINE rest == SubSeq(w, n + 2, m)
<1>8. /\ rest \in Seq(Token) /\ Len(rest) = m - (n + 1)
      /\ \A i \in 1 .. m - (n + 1) : rest[i] = w[(n + 1) + i]
  <2>1. PICK c \in Nat : c = n
    BY <1>3
  <2> HIDE DEF n
  <2>2. c < Len(w)
    BY <1>7, <2>1 DEF m
  <2>3. QED BY <2>1, <2>2, Behind DEF m
<1>9. s[f].size = n /\ w[1].frame = f
  OBVIOUS
<1> HIDE DEF rest, n, f
<1>10. rest # <<>> => rest[1] = [frame |-> f + 1, pos |-> 0]
  <2>1. SUFFICES ASSUME rest # <<>> PROVE rest[1] = [frame |-> f + 1, pos |-> 0]
    OBVIOUS
  <2>2. 1 \in 1 .. m - (n + 1)
    BY <1>1, <1>3, <1>8, <2>1, EmptySeq
  <2>3. n + 1 \in 1 .. m - 1
    BY <1>1, <1>3, <2>2
  <2>4. rest[1] = w[(n + 1) + 1] /\ w[(n + 1) + 1] = After(w[n + 1], s)
    BY <1>2, <1>8, <2>2, <2>3
  <2>5. QED BY <1>7, <1>9, <2>4 DEF After
<1>11. rest = <<>> => f = l
  <2>1. SUFFICES ASSUME rest = <<>> PROVE f = l
    OBVIOUS
  <2>2. m = n + 1
    BY <1>1, <1>3, <1>8, <2>1
  <2>3. QED BY <1>2, <1>7, <2>2
<1>12. Stream(rest, s)
  <2>1. ASSUME NEW i \in 1 .. Len(rest)
        PROVE rest[i].frame \in 1 .. l /\ rest[i].pos \in 0 .. s[rest[i].frame].size
    <3>1. rest[i] = w[(n + 1) + i] /\ (n + 1) + i \in 1 .. m
      BY <1>1, <1>3, <1>8, <2>1
    <3>2. QED BY <1>2, <3>1
  <2>2. ASSUME NEW i \in 1 .. Len(rest) - 1
        PROVE rest[i + 1] = After(rest[i], s)
    <3>1. i \in 1 .. m - (n + 1) /\ i + 1 \in 1 .. m - (n + 1)
      BY <1>1, <1>3, <1>8, <2>2
    <3>2. (n + 1) + i \in 1 .. m - 1 /\ (n + 1) + (i + 1) = ((n + 1) + i) + 1
      BY <1>1, <1>3, <3>1
    <3>3. rest[i] = w[(n + 1) + i] /\ rest[i + 1] = w[((n + 1) + i) + 1]
      BY <1>8, <3>1, <3>2
    <3>4. QED BY <1>2, <3>2, <3>3
  <2>3. ASSUME rest # <<>>
        PROVE rest[1].pos = 0 /\ rest[Len(rest)].frame = l /\ rest[Len(rest)].pos = s[l].size
    <3>1. Len(rest) \in 1 .. m - (n + 1) /\ (n + 1) + Len(rest) = m
      BY <1>1, <1>3, <1>8, <2>3, EmptySeq
    <3>2. rest[Len(rest)] = w[m]
      BY <1>8, <3>1
    <3>3. QED BY <1>2, <1>10, <2>3, <3>2
  <2>4. QED BY <2>1, <2>2, <2>3 DEF Stream, l
<1>13. rest # <<>> => rest[1].frame = f + 1
  BY <1>10
<1>14. QED BY <1>3, <1>7, <1>8, <1>11, <1>12, <1>13 DEF rest, m, l, n, f
-----------------------------------------------------------------------------
\* What is under way is of the frames sent.
LEMMA Pieces ==
    ASSUME NEW s \in Seq(FrameKind), Len(s) <= MaxFrames,
           NEW a \in Seq(Token), NEW b \in Seq(Token), Stream(a \o b, s)
    PROVE  a \in Seq(Piece) /\ b \in Seq(Piece)
<1>1. Len(a) \in Nat /\ Len(b) \in Nat /\ Len(s) \in Nat /\ Len(a \o b) = Len(a) + Len(b) /\ MaxFrames \in Nat
  BY WebSocketAssumption
<1>2. \A i \in 1 .. Len(a) + Len(b) : (a \o b)[i].frame \in Number
  BY SMTT(30), <1>1 DEF Stream, Number
<1>3. ASSUME NEW i \in 1 .. Len(a) PROVE a[i] \in Piece
  <2>1. (a \o b)[i] = a[i] /\ i \in 1 .. Len(a) + Len(b)
    BY <1>1
  <2>2. a[i] \in Token
    BY ElementOfSeq
  <2>3. QED BY <1>2, <2>1, <2>2 DEF Token, Piece
<1>4. ASSUME NEW i \in 1 .. Len(b) PROVE b[i] \in Piece
  <2>1. (a \o b)[Len(a) + i] = b[i] /\ Len(a) + i \in 1 .. Len(a) + Len(b)
    BY <1>1
  <2>2. b[i] \in Token
    BY ElementOfSeq
  <2>3. QED BY <1>2, <2>1, <2>2 DEF Token, Piece
<1>5. \A t \in Seq(Token) : (\A i \in 1 .. Len(t) : t[i] \in Piece) => t \in Seq(Piece)
  <2>1. SUFFICES ASSUME NEW t \in Seq(Token), \A i \in 1 .. Len(t) : t[i] \in Piece
                 PROVE  t \in Seq(Piece)
    OBVIOUS
  <2>2. t = [i \in 1 .. Len(t) |-> t[i]] /\ Len(t) \in Nat
    OBVIOUS
  <2>3. QED BY <2>1, <2>2, IsASeq
<1>6. QED BY <1>3, <1>4, <1>5

LEMMA PiecesAreTokens == Seq(Piece) \subseteq Seq(Token)
<1>1. Piece \subseteq Token
  BY WebSocketAssumption DEF Piece, Token, Number
<1>2. QED BY <1>1

\* The two halves of a sequence.
LEMMA Halves ==
    ASSUME NEW S, NEW b \in Seq(S), NEW p \in Seq(S), NEW q \in Seq(S), NEW n \in Nat, n <= Len(b),
           Len(p) = n, \A i \in 1 .. n : p[i] = b[i],
           Len(q) = Len(b) - n, \A i \in 1 .. Len(b) - n : q[i] = b[n + i]
    PROVE  p \o q = b
<1>1. p \o q \in Seq(S) /\ Len(p \o q) = Len(b)
  OBVIOUS
<1>2. ASSUME NEW i \in 1 .. Len(b) PROVE (p \o q)[i] = b[i]
  <2>1. CASE i <= n
    BY <2>1
  <2>2. CASE ~(i <= n)
    <3>1. i - n \in 1 .. Len(b) - n /\ n + (i - n) = i
      BY <2>2
    <3>2. (p \o q)[i] = q[i - n]
      BY <2>2
    <3>3. QED BY <3>1, <3>2
  <2>3. QED BY <2>1, <2>2
<1>3. QED BY <1>1, <1>2, SeqEqual

\* A read takes what it takes from the front, and leaves the rest.
LEMMA ReadMoves ==
    ASSUME NEW S, NEW b \in Seq(S), NEW n \in Nat, n >= 1, n <= Len(b)
    PROVE  \E p, q \in Seq(S) : /\ p = SubSeq(b, 1, n) /\ q = SubSeq(b, n + 1, Len(b))
                                /\ p # <<>> /\ p \o q = b
<1> DEFINE front == SubSeq(b, 1, n)
           rest == SubSeq(b, n + 1, Len(b))
<1>1. front \in Seq(S) /\ rest \in Seq(S)
  OBVIOUS
<1>2. Len(front) = n
  OBVIOUS
<1>3. Len(rest) = Len(b) - n
  OBVIOUS
<1>4. \A i \in 1 .. n : front[i] = b[i]
  OBVIOUS
<1>5. \A i \in 1 .. Len(b) - n : rest[i] = b[n + i]
  OBVIOUS
<1>6. front # <<>>
  BY <1>2
<1> HIDE DEF front, rest
<1>7. front \o rest = b
  BY <1>1, <1>2, <1>3, <1>4, <1>5, Halves
<1>8. QED BY <1>1, <1>6, <1>7 DEF front, rest

\* What is cut from the buffer is cut from all that is under way.
LEMMA CutBehind ==
    ASSUME NEW S, NEW a \in Seq(S), NEW b \in Seq(S), NEW n \in Nat, n < Len(a)
    PROVE  LET rest == SubSeq(a, n + 2, Len(a)) IN
           /\ rest \in Seq(S)
           /\ rest \o b = SubSeq(a \o b, n + 2, Len(a \o b))
<1> DEFINE rest == SubSeq(a, n + 2, Len(a))
           all == SubSeq(a \o b, n + 2, Len(a \o b))
<1>1. /\ rest \in Seq(S) /\ Len(rest) = Len(a) - (n + 1)
      /\ \A i \in 1 .. Len(a) - (n + 1) : rest[i] = a[(n + 1) + i]
  BY Behind
<1>2. a \o b \in Seq(S) /\ Len(a \o b) = Len(a) + Len(b) /\ n < Len(a \o b)
  OBVIOUS
<1>3. /\ all \in Seq(S) /\ Len(all) = Len(a) + Len(b) - (n + 1)
      /\ \A i \in 1 .. Len(a) + Len(b) - (n + 1) : all[i] = (a \o b)[(n + 1) + i]
  <2>1. PICK w \in Seq(S) : w = a \o b
    BY <1>2
  <2>2. QED BY <1>2, <2>1, Behind
<1> HIDE DEF rest, all
<1>4. rest \o b \in Seq(S) /\ Len(rest \o b) = Len(all)
  BY <1>1, <1>3
<1>5. ASSUME NEW i \in 1 .. Len(all) PROVE (rest \o b)[i] = all[i]
  <2>1. CASE i <= Len(rest)
    <3>1. (rest \o b)[i] = rest[i] /\ i \in 1 .. Len(a) - (n + 1)
      BY <1>1, <1>3, <1>5, <2>1
    <3>2. all[i] = (a \o b)[(n + 1) + i]
      BY <1>3, <1>5
    <3>3. (n + 1) + i \in 1 .. Len(a)
      BY <3>1
    <3>4. (a \o b)[(n + 1) + i] = a[(n + 1) + i]
      BY <3>3
    <3>5. QED BY <1>1, <3>1, <3>2, <3>4
  <2>2. CASE ~(i <= Len(rest))
    <3>1. (rest \o b)[i] = b[i - Len(rest)]
      BY <1>1, <1>3, <1>5, <2>2
    <3>2. all[i] = (a \o b)[(n + 1) + i]
      BY <1>3, <1>5
    <3>3. /\ (n + 1) + i \in 1 .. Len(a) + Len(b) /\ ~((n + 1) + i <= Len(a))
          /\ (n + 1) + i - Len(a) = i - Len(rest)
      BY <1>1, <1>3, <1>5, <2>2
    <3>4. (a \o b)[(n + 1) + i] = b[(n + 1) + i - Len(a)]
      BY <3>3
    <3>5. QED BY <3>1, <3>2, <3>3, <3>4
  <2>3. QED BY <2>1, <2>2
<1>6. rest \o b = all
  BY <1>3, <1>4, <1>5, SeqEqual
<1>7. QED BY <1>1, <1>6 DEF rest, all
-----------------------------------------------------------------------------
(***************************************************************************)
(* The types.                                                              *)
(***************************************************************************)
WSMessage == [msContinue : BOOLEAN, messageType : Ops, reqData : Seq(Byte)]

LEMMA PayloadType ==
    ASSUME NEW f \in Number, sent[f].size \in Nat
    PROVE  Payload(f) \in Seq(Byte) /\ Plain(f) \in Seq(Byte)
<1> DEFINE k == sent[f].size
<1>1. ASSUME NEW i \in 1 .. k
      PROVE  /\ [frame |-> f, pos |-> i, keys |-> {<<f, (i - 1) % 4>>}] \in Byte
             /\ [frame |-> f, pos |-> i, keys |-> {}] \in Byte
  <2>1. (i - 1) % 4 \in 0 .. 3 /\ i \in Nat \ {0}
    OBVIOUS
  <2>2. {<<f, (i - 1) % 4>>} \in SUBSET (Number \X (0 .. 3)) /\ {} \in SUBSET (Number \X (0 .. 3))
    BY <2>1
  <2>3. QED BY <2>1, <2>2 DEF Byte
<1>2. Payload(f) \in [1 .. k -> Byte] /\ Plain(f) \in [1 .. k -> Byte]
  BY <1>1 DEF Payload, Plain
<1>3. \A n \in Nat : [1 .. n -> Byte] \subseteq Seq(Byte)
  OBVIOUS
<1>4. QED BY <1>2, <1>3

LEMMA MaskType ==
    ASSUME NEW f \in Number, NEW p \in Nat, NEW b \in Seq(Byte)
    PROVE  maskBytes(f, p, b) \in Seq(Byte)
<1>1. ASSUME NEW i \in 1 .. Len(b)
      PROVE  [b[i] EXCEPT !.keys = SymDiff(@, {<<f, (p + i - 1) % 4>>})] \in Byte
  <2>1. b[i] \in Byte
    BY ElementOfSeq
  <2>2. (p + i - 1) % 4 \in 0 .. 3
    OBVIOUS
  <2>3. PICK q \in 0 .. 3 : q = (p + i - 1) % 4
    BY <2>2
  <2>4. b[i].keys \in SUBSET (Number \X (0 .. 3))
    BY <2>1 DEF Byte
  <2>5. SymDiff(b[i].keys, {<<f, q>>}) \in SUBSET (Number \X (0 .. 3))
    BY <2>4 DEF SymDiff
  <2>6. PICK x \in SUBSET (Number \X (0 .. 3)) : x = SymDiff(b[i].keys, {<<f, q>>})
    BY <2>5
  <2>7. [b[i] EXCEPT !.keys = x] \in Byte
    BY <2>1 DEF Byte
  <2>8. QED BY <2>3, <2>6, <2>7
<1>2. DOMAIN b = 1 .. Len(b) /\ Len(b) \in Nat
  OBVIOUS
<1>3. maskBytes(f, p, b) \in [1 .. Len(b) -> Byte]
  BY <1>1, <1>2 DEF maskBytes
<1>4. \A n \in Nat : [1 .. n -> Byte] \subseteq Seq(Byte)
  OBVIOUS
<1>5. QED BY <1>2, <1>3, <1>4

LEMMA JoinedType ==
    ASSUME NEW m \in WSMessage, NEW f \in Number, sent[f].size \in Nat
    PROVE  Joined(m, f) \in Seq(Byte)
<1>1. m.reqData \in Seq(Byte)
  BY DEF WSMessage
<1>2. m.reqData \o Payload(f) \in Seq(Byte) /\ Len(m.reqData) \in Nat
  BY <1>1, PayloadType, ConcatProperties
<1>3. maskBytes(f, Len(m.reqData), m.reqData \o Payload(f)) \in Seq(Byte)
  BY <1>2, MaskType
<1>4. QED BY <1>1, <1>3 DEF Joined

LEMMA ParsedType ==
    ASSUME NEW m \in WSMessage, NEW f \in Number, sent[f] \in FrameKind
    PROVE  /\ Typed(m, sent[f]) \in WSMessage
           /\ Parsed(m, f) \in WSMessage
           /\ Parsed(m, f).messageType = Typed(m, sent[f]).messageType
           /\ Parsed(m, f).reqData = Joined(m, f)
           /\ Parsed(m, f).msContinue = IF sent[f].op \in ControlOps THEN m.msContinue ELSE ~sent[f].final
<1> DEFINE k == sent[f]
<1>1. k.size \in Nat /\ k.op \in Ops /\ k.final \in BOOLEAN
  BY DEF FrameKind
<1>2. Joined(m, f) \in Seq(Byte)
  BY <1>1, JoinedType
<1>3. PICK t \in WSMessage : t = Typed(m, k)
  BY <1>1 DEF Typed, WSMessage
<1>4. t.msContinue = m.msContinue
  BY <1>3 DEF Typed, WSMessage
<1>5. PICK j \in Seq(Byte) : j = Joined(m, f)
  BY <1>2
<1>6. PICK c \in BOOLEAN : c = IF k.op \in ControlOps THEN t.msContinue ELSE ~k.final
  BY <1>1, <1>3 DEF WSMessage
<1>7. Parsed(m, f) = [t EXCEPT !.msContinue = c, !.reqData = j]
  BY <1>3, <1>5, <1>6 DEF Parsed
<1>8. QED BY <1>3, <1>4, <1>5, <1>6, <1>7 DEF WSMessage
-----------------------------------------------------------------------------
(***************************************************************************)
(* The frame at the front of the buffer, when there is one, is the first   *)
(* of all that is under way, and what is behind it goes on.                *)
(***************************************************************************)
LEMMA AtFront ==
    ASSUME FrameInv, buffer # <<>>
    PROVE  /\ buffer \in Seq(Token) /\ inbound \in Seq(Token) /\ buffer \o inbound \in Seq(Token)
           /\ sent \in Seq(FrameKind) /\ Len(sent) \in Nat
           /\ buffer \o inbound # <<>> /\ (buffer \o inbound)[1].frame = FrontFrame
           /\ FrontFrame \in 1 .. Len(sent) /\ FrontFrame \in Number /\ sent[FrontFrame] \in FrameKind
           /\ sent[FrontFrame].size \in Nat
<1>1. buffer \in Seq(Token) /\ inbound \in Seq(Token) /\ sent \in Seq(FrameKind)
  BY PiecesAreTokens DEF FrameInv, TypeOK
<1>2. buffer \o inbound \in Seq(Token) /\ buffer \o inbound # <<>>
  <2>1. buffer \o inbound \in Seq(Token) /\ Len(buffer \o inbound) = Len(buffer) + Len(inbound)
    BY <1>1
  <2>2. Len(buffer) > 0 /\ Len(inbound) \in Nat
    BY <1>1
  <2>3. QED BY <1>1, <2>1, <2>2
<1>3. (buffer \o inbound)[1] = Head(buffer)
  BY <1>1
<1>4. Stream(buffer \o inbound, sent) /\ Len(sent) <= MaxFrames
  BY DEF FrameInv, InStream
<1>5. PICK w \in Seq(Token) : w = buffer \o inbound
  BY <1>2
<1>6. w[1].frame \in 1 .. Len(sent) /\ sent[w[1].frame] \in FrameKind /\ sent[w[1].frame].size \in Nat
  BY <1>1, <1>2, <1>4, <1>5, StreamFront
<1>7. FrontFrame = w[1].frame
  BY <1>3, <1>5 DEF FrontFrame
<1>8. Len(sent) \in Nat /\ MaxFrames \in Nat
  BY <1>1, WebSocketAssumption
<1>9. FrontFrame \in Number
  BY <1>4, <1>6, <1>7, <1>8 DEF Number
<1>10. QED BY <1>1, <1>2, <1>5, <1>6, <1>7, <1>8, <1>9

LEMMA BehindFront ==
    ASSUME FrameInv, buffer # <<>>, Complete(FrontFrame)
    PROVE  /\ Rest(FrontFrame) \in Seq(Piece)
           /\ Rest(FrontFrame) \o inbound \in Seq(Token)
           /\ Stream(Rest(FrontFrame) \o inbound, sent)
           /\ Rest(FrontFrame) \o inbound = <<>> => FrontFrame = Len(sent)
           /\ Rest(FrontFrame) \o inbound # <<>> =>
                (Rest(FrontFrame) \o inbound)[1].frame = FrontFrame + 1
<1>1. /\ buffer \in Seq(Token) /\ inbound \in Seq(Token) /\ sent \in Seq(FrameKind)
      /\ buffer \o inbound # <<>> /\ (buffer \o inbound)[1].frame = FrontFrame
      /\ sent[FrontFrame].size \in Nat
  BY AtFront
<1>2. Stream(buffer \o inbound, sent) /\ Len(sent) <= MaxFrames
  BY DEF FrameInv, InStream
<1>3. PICK w \in Seq(Token) : w = buffer \o inbound
  BY AtFront
<1>4. PICK n \in Nat : n = sent[FrontFrame].size
  BY <1>1
<1>5. PICK f : f = FrontFrame
  OBVIOUS
<1>6. n < Len(buffer)
  BY <1>4 DEF Complete
<1>7. /\ SubSeq(buffer, n + 2, Len(buffer)) \in Seq(Token)
      /\ SubSeq(buffer, n + 2, Len(buffer)) \o inbound = SubSeq(w, n + 2, Len(w))
  <2>1. \A a, b \in Seq(Token), i \in Nat : i < Len(a) =>
          /\ SubSeq(a, i + 2, Len(a)) \in Seq(Token)
          /\ SubSeq(a, i + 2, Len(a)) \o b = SubSeq(a \o b, i + 2, Len(a \o b))
    BY CutBehind
  <2>2. QED BY ZenonT(60), <1>1, <1>3, <1>6, <2>1
<1>8. PICK r \in Seq(Token) : r = SubSeq(buffer, n + 2, Len(buffer))
  BY <1>7
<1>9. Rest(f) = r
  BY <1>4, <1>5, <1>8 DEF Rest
<1>10. /\ r \o inbound \in Seq(Token) /\ Stream(r \o inbound, sent)
       /\ r \o inbound = <<>> => f = Len(sent)
       /\ r \o inbound # <<>> => (r \o inbound)[1].frame = f + 1
  <2>1. w # <<>> /\ w[1].frame = f /\ sent[f].size = n /\ Stream(w, sent)
    BY <1>1, <1>2, <1>3, <1>4, <1>5
  <2>2. /\ SubSeq(w, n + 2, Len(w)) \in Seq(Token) /\ Stream(SubSeq(w, n + 2, Len(w)), sent)
        /\ SubSeq(w, n + 2, Len(w)) = <<>> => f = Len(sent)
        /\ SubSeq(w, n + 2, Len(w)) # <<>> => SubSeq(w, n + 2, Len(w))[1].frame = f + 1
    BY <1>1, <2>1, StreamFront
  <2>3. QED BY <1>7, <1>8, <2>2
<1>11. r \in Seq(Piece)
  BY <1>1, <1>2, <1>10, Pieces
<1>12. QED BY <1>5, <1>9, <1>10, <1>11

LEMMA WriteType ==
    ASSUME FrameInv, NEW frame \in ServerFrame, Write(frame)
    PROVE  header' \in ServerFrame /\ writes' \in Seq([frame : ServerFrame, shared : BOOLEAN])
<1>1. [frame |-> frame, shared |-> Len(frame.of) <= Inline] \in [frame : ServerFrame, shared : BOOLEAN]
  OBVIOUS
<1>2. QED BY <1>1 DEF Write, FrameInv, TypeOK

LEMMA AnswerType ==
    ASSUME FrameInv, NEW m \in WSMessage, NEW data \in Seq(Byte), Answer(m, data)
    PROVE  /\ header' \in ServerFrame /\ writes' \in Seq([frame : ServerFrame, shared : BOOLEAN])
           /\ msg' \in WSMessage
<1>1. CASE data = <<>>
  BY <1>1 DEF Answer, FrameInv, TypeOK
<1>2. CASE data # <<>>
  <2>1. Reply(m.messageType, data) \in ServerFrame /\ Reset \in WSMessage
    <3>1. m.messageType \in Ops /\ NoType \in Ops /\ <<>> \in Seq(Byte)
      BY DEF WSMessage, Ops
    <3>2. QED BY <3>1 DEF Reply, ServerFrame, Reset, WSMessage
  <2>2. Write(Reply(m.messageType, data)) /\ msg' = Reset
    BY <1>2 DEF Answer
  <2>3. QED BY <2>1, <2>2, WriteType
<1>3. QED BY <1>1, <1>2

LEMMA InitFrameInv == Init => FrameInv
<1>1. SUFFICES ASSUME Init PROVE FrameInv
  OBVIOUS
<1>2. NoType \in Ops /\ MaxFrames \in Nat
  BY WebSocketAssumption DEF Ops
<1>3. TypeOK
  <2>1. \A S : <<>> \in Seq(S)
    BY EmptySeq
  <2>2. BadRequest(NoType) \in ServerFrame
    BY <1>2, <2>1 DEF BadRequest, ServerFrame
  <2>3. Reset \in WSMessage
    BY <1>2, <2>1 DEF Reset, WSMessage
  <2>4. QED BY <1>1, <2>1, <2>2, <2>3 DEF Init, TypeOK, WSMessage
<1>4. buffer \o inbound = <<>> /\ sent = <<>>
  BY <1>1 DEF Init
<1>5. InStream
  BY <1>4 DEF InStream, Stream
<1>6. Len(sent) <= MaxFrames /\ AtWork
  BY <1>1, <1>2 DEF Init, AtWork
<1>7. QED BY <1>3, <1>5, <1>6 DEF FrameInv

LEMMA NextFrameInv == FrameInv /\ [Next]_vars => FrameInv'
<1>1. SUFFICES ASSUME FrameInv, [Next]_vars PROVE FrameInv'
  OBVIOUS
<1>2. /\ TypeOK /\ InStream /\ Len(sent) <= MaxFrames /\ msg \in WSMessage
      /\ buffer \in Seq(Token) /\ inbound \in Seq(Token) /\ sent \in Seq(FrameKind)
  BY <1>1, PiecesAreTokens DEF FrameInv, TypeOK, WSMessage
<1>3. ASSUME NEW burst \in Bursts, Send(burst) PROVE FrameInv'
  <2>1. burst \in Seq(FrameKind)
    BY WebSocketAssumption
  <2>2. PICK w \in Seq(Token) : w = buffer \o inbound
    BY <1>2, ConcatProperties
  <2>3. Stream(w, sent)
    BY <1>2, <2>2 DEF InStream
  <2>4. PICK t \in Seq(Token) : t = Wire(Len(sent), burst)
    BY <1>2, <2>1, <2>3, StreamWire
  <2>5. Stream(w \o t, sent \o burst)
    BY <1>2, <2>1, <2>3, <2>4, StreamWire
  <2>6. w \o t = buffer \o (inbound \o t) /\ inbound \o t \in Seq(Token)
    <3>1. \A a, b, c \in Seq(Token) : a \o (b \o c) = (a \o b) \o c
      BY SMTT(30), ConcatRegroup
    <3>2. QED BY <1>2, <2>2, <2>4, <3>1
  <2>7. /\ sent' = sent \o burst /\ inbound' = inbound \o t /\ buffer' = buffer /\ pc' = pc
        /\ msg' = msg /\ handled' = handled /\ header' = header /\ writes' = writes
        /\ received' = received /\ closing' = closing
        /\ Len(sent) + Len(burst) <= MaxFrames
    BY <1>3, <2>4 DEF Send
  <2>8. sent' \in Seq(FrameKind) /\ Len(sent') <= MaxFrames
    <3>1. Len(sent \o burst) = Len(sent) + Len(burst) /\ sent \o burst \in Seq(FrameKind)
      BY <1>2, <2>1, ConcatProperties
    <3>2. QED BY <2>7, <3>1
  <2>9. Stream(buffer' \o inbound', sent') /\ buffer' \in Seq(Token) /\ inbound' \in Seq(Token)
    BY <1>2, <2>5, <2>6, <2>7
  <2>10. buffer' \in Seq(Piece) /\ inbound' \in Seq(Piece)
    BY <2>8, <2>9, Pieces
  <2>11. TypeOK'
    BY <1>2, <2>7, <2>8, <2>10 DEF TypeOK
  <2>12. AtWork'
    BY <1>1, <2>7 DEF FrameInv, AtWork
  <2>13. QED BY <2>8, <2>9, <2>11, <2>12 DEF FrameInv, InStream
<1>4. CASE ReadData
  <2>1. PICK n \in 1 .. Len(inbound) :
          /\ buffer' = buffer \o SubSeq(inbound, 1, n)
          /\ inbound' = SubSeq(inbound, n + 1, Len(inbound))
    BY <1>4 DEF ReadData
  <2>2. /\ pc' = "ws" /\ sent' = sent /\ msg' = msg /\ handled' = handled /\ header' = header
        /\ writes' = writes /\ received' = received /\ closing' = closing
    BY <1>4 DEF ReadData
  <2>3. /\ buffer' \in Seq(Piece) /\ inbound' \in Seq(Piece)
        /\ buffer' \o inbound' = buffer \o inbound /\ buffer' # <<>>
    <3>1. n \in Nat /\ n >= 1 /\ n <= Len(inbound) /\ buffer \in Seq(Piece) /\ inbound \in Seq(Piece)
      BY <1>2 DEF TypeOK
    <3>2. PICK p \in Seq(Piece), q \in Seq(Piece) :
            /\ p = SubSeq(inbound, 1, n) /\ q = SubSeq(inbound, n + 1, Len(inbound))
            /\ p # <<>> /\ p \o q = inbound
      BY <3>1, ReadMoves
    <3>3. buffer \o (p \o q) = (buffer \o p) \o q
      BY <3>1, ConcatRegroup
    <3>4. buffer \o p \in Seq(Piece) /\ buffer \o p # <<>>
      <4>1. Len(buffer \o p) = Len(buffer) + Len(p) /\ buffer \o p \in Seq(Piece)
        BY <3>1, <3>2, ConcatProperties
      <4>2. Len(buffer) \in Nat /\ Len(p) > 0
        BY <3>1, <3>2
      <4>3. Len(buffer \o p) # 0
        BY <4>1, <4>2
      <4>4. QED BY <4>1, <4>3, EmptySeq
    <3>5. buffer' = buffer \o p /\ inbound' = q
      BY <2>1, <3>2
    <3>6. QED BY <3>2, <3>3, <3>4, <3>5
  <2>4. TypeOK'
    BY <1>2, <2>2, <2>3 DEF TypeOK
  <2>5. QED BY <1>2, <2>2, <2>3, <2>4 DEF FrameInv, InStream, AtWork
<1>5. CASE WriteDone
  <2>1. /\ writes # <<>> /\ writes' = Tail(writes)
        /\ received' = Append(received, IF Head(writes).shared THEN header ELSE Head(writes).frame)
        /\ UNCHANGED <<sent, inbound, buffer, msg, pc, handled, header, closing>>
    BY <1>5 DEF WriteDone
  <2>2. writes \in Seq([frame : ServerFrame, shared : BOOLEAN]) /\ header \in ServerFrame
        /\ received \in Seq(ServerFrame)
    BY <1>2 DEF TypeOK
  <2>3. Head(writes).frame \in ServerFrame /\ Tail(writes) \in Seq([frame : ServerFrame, shared : BOOLEAN])
    <3>1. \A S : \A s \in Seq(S) : s # <<>> => Head(s) \in S /\ Tail(s) \in Seq(S)
      OBVIOUS
    <3>2. Head(writes) \in [frame : ServerFrame, shared : BOOLEAN]
          /\ Tail(writes) \in Seq([frame : ServerFrame, shared : BOOLEAN])
      BY <2>1, <2>2, <3>1
    <3>3. QED BY <3>2
  <2>4. received' \in Seq(ServerFrame) /\ writes' \in Seq([frame : ServerFrame, shared : BOOLEAN])
    BY <2>1, <2>2, <2>3
  <2>5. TypeOK'
    BY <1>2, <2>1, <2>4 DEF TypeOK
  <2>6. QED BY <1>1, <1>2, <2>1, <2>5 DEF FrameInv, InStream, AtWork
<1>6. ASSUME pc = "ws"
      PROVE  /\ buffer # <<>> /\ FrontFrame \in Number /\ sent[FrontFrame] \in FrameKind
             /\ Typed(msg, sent[FrontFrame]) \in WSMessage
             /\ Parsed(msg, FrontFrame) \in WSMessage
  <2>1. buffer # <<>>
    BY <1>1, <1>6 DEF FrameInv, AtWork
  <2>2. FrontFrame \in Number /\ sent[FrontFrame] \in FrameKind
    BY <1>1, <2>1, AtFront
  <2>3. QED BY <1>2, <2>1, <2>2, ParsedType
<1>7. CASE Refuse
  <2>1. pc = "ws"
    BY <1>7 DEF Refuse
  <2>2. Typed(msg, sent[FrontFrame]).messageType \in Ops
    BY <1>6, <2>1 DEF WSMessage
  <2>3. PICK type \in Ops : type = Typed(msg, sent[FrontFrame]).messageType
    BY <2>2
  <2>4. /\ Write(BadRequest(type)) /\ msg' = Reset /\ pc' = "idle"
        /\ UNCHANGED <<sent, inbound, buffer, handled, received, closing>>
    BY <1>7, <2>3 DEF Refuse
  <2>5. BadRequest(type) \in ServerFrame /\ Reset \in WSMessage
    <3>1. NoType \in Ops /\ \A S : <<>> \in Seq(S)
      BY EmptySeq DEF Ops
    <3>2. QED BY <3>1 DEF BadRequest, ServerFrame, Reset, WSMessage
  <2>6. header' \in ServerFrame /\ writes' \in Seq([frame : ServerFrame, shared : BOOLEAN])
    BY <1>1, <2>4, <2>5, WriteType
  <2>7. TypeOK'
    BY <1>2, <2>4, <2>5, <2>6 DEF TypeOK, WSMessage
  <2>8. QED BY <1>2, <2>4, <2>7 DEF FrameInv, InStream, AtWork
<1>8. CASE Incomplete
  <2>1. /\ pc = "ws" /\ msg' = Typed(msg, sent[FrontFrame]) /\ pc' = "idle"
        /\ UNCHANGED <<sent, inbound, buffer, handled, header, writes, received, closing>>
    BY <1>8 DEF Incomplete
  <2>2. TypeOK'
    BY <1>2, <1>6, <2>1 DEF TypeOK, WSMessage
  <2>3. QED BY <1>2, <2>1, <2>2 DEF FrameInv, InStream, AtWork
<1>9. ASSUME Accepts(FrontFrame), buffer' = Rest(FrontFrame),
             pc' = "idle" \/ (pc' = "ws" /\ Rest(FrontFrame) # <<>>),
             sent' = sent, inbound' = inbound, received' = received, closing' \in BOOLEAN,
             msg' \in WSMessage, handled' \in Seq([type : Ops, data : Seq(Byte)]),
             header' \in ServerFrame, writes' \in Seq([frame : ServerFrame, shared : BOOLEAN])
      PROVE  FrameInv'
  <2>1. buffer # <<>> /\ Complete(FrontFrame)
    BY <1>6, <1>9 DEF Accepts
  <2>2. Rest(FrontFrame) \in Seq(Piece) /\ Stream(Rest(FrontFrame) \o inbound, sent)
    BY <1>1, <2>1, BehindFront
  <2>3. TypeOK'
    BY <1>2, <1>9, <2>2 DEF TypeOK, WSMessage
  <2>4. QED BY <1>2, <1>9, <2>2, <2>3 DEF FrameInv, InStream, AtWork
<1>10. CASE Fragment
  <2>1. /\ Accepts(FrontFrame) /\ msg' = Parsed(msg, FrontFrame) /\ buffer' = Rest(FrontFrame)
        /\ pc' = (IF Rest(FrontFrame) = <<>> THEN "idle" ELSE "ws")
        /\ UNCHANGED <<sent, inbound, handled, header, writes, received, closing>>
    BY <1>10 DEF Fragment
  <2>2. pc = "ws"
    BY <2>1 DEF Accepts
  <2>3. pc' = "idle" \/ (pc' = "ws" /\ Rest(FrontFrame) # <<>>)
    BY <2>1
  <2>4. msg' \in WSMessage
    BY <1>6, <2>1, <2>2
  <2>5. QED BY <1>2, <1>9, <2>1, <2>3, <2>4 DEF TypeOK
<1>11. CASE Handle
  <2> DEFINE m == Parsed(msg, FrontFrame)
  <2>1. /\ Accepts(FrontFrame) /\ GoOn(FrontFrame, closing)
        /\ handled' = Append(handled, [type |-> m.messageType, data |-> m.reqData])
        /\ \E answers \in Replies : Answer(m, IF answers THEN m.reqData ELSE <<>>)
        /\ UNCHANGED <<sent, inbound, received, closing>>
    BY <1>11 DEF Handle
  <2>2. pc = "ws"
    BY <2>1 DEF Accepts
  <2>3. m \in WSMessage /\ m.messageType \in Ops /\ m.reqData \in Seq(Byte) /\ <<>> \in Seq(Byte)
    BY <1>6, <2>2, EmptySeq DEF WSMessage
  <2>4. PICK d \in Seq(Byte) : Answer(m, d)
    BY <2>1, <2>3
  <2> HIDE DEF m
  <2>5. /\ header' \in ServerFrame /\ writes' \in Seq([frame : ServerFrame, shared : BOOLEAN])
        /\ msg' \in WSMessage
    BY <1>1, <2>3, <2>4, AnswerType
  <2>6. handled' \in Seq([type : Ops, data : Seq(Byte)])
    BY <1>2, <2>1, <2>3 DEF TypeOK
  <2>7. buffer' = Rest(FrontFrame) /\ (pc' = "idle" \/ (pc' = "ws" /\ Rest(FrontFrame) # <<>>))
    BY <2>1 DEF GoOn
  <2>8. QED BY <1>2, <1>9, <2>1, <2>5, <2>6, <2>7 DEF TypeOK
<1>12. CASE Control
  <2> DEFINE m == Parsed(msg, FrontFrame)
  <2>1. /\ Accepts(FrontFrame) /\ GoOn(FrontFrame, closing')
        /\ closing' = (closing \/ m.messageType = "close")
        /\ Answer([m EXCEPT !.messageType = PongType(@)], ControlData(m))
        /\ UNCHANGED <<sent, inbound, handled, received>>
    BY <1>12 DEF Control
  <2>2. pc = "ws"
    BY <2>1 DEF Accepts
  <2>3. m \in WSMessage
    BY <1>6, <2>2
  <2> HIDE DEF m
  <2>4. [m EXCEPT !.messageType = PongType(@)] \in WSMessage
    BY <2>3 DEF WSMessage, PongType, Ops, ControlOps
  <2>5. ControlData(m) \in Seq(Byte)
    <3>1. m.reqData \in Seq(Byte) /\ <<>> \in Seq(Byte)
      BY <2>3, EmptySeq DEF WSMessage
    <3>2. ASSUME Len(m.reqData) >= 2 PROVE SubSeq(m.reqData, 1, 2) \in Seq(Byte)
      BY <3>1, <3>2
    <3>3. QED BY <3>1, <3>2 DEF ControlData
  <2>6. /\ header' \in ServerFrame /\ writes' \in Seq([frame : ServerFrame, shared : BOOLEAN])
        /\ msg' \in WSMessage
    BY <1>1, <2>1, <2>4, <2>5, AnswerType
  <2>7. buffer' = Rest(FrontFrame) /\ (pc' = "idle" \/ (pc' = "ws" /\ Rest(FrontFrame) # <<>>))
    BY <2>1 DEF GoOn
  <2>8. closing' \in BOOLEAN /\ handled' \in Seq([type : Ops, data : Seq(Byte)])
    BY <1>2, <2>1 DEF TypeOK
  <2>9. QED BY <1>9, <2>1, <2>6, <2>7, <2>8
<1>13. CASE UNCHANGED vars
  BY <1>1, <1>13 DEF vars, FrameInv, TypeOK, InStream, AtWork
<1>14. QED
  BY <1>1, <1>3, <1>4, <1>5, <1>7, <1>8, <1>10, <1>11, <1>12, <1>13 DEF Next

\* Every variable keeps its type, what is under way is the end of what was
\* sent, and the loop never runs without bytes, whatever a client sends.
THEOREM Invariance == Spec => []FrameInv
<1>1. Init => FrameInv
  BY InitFrameInv
<1>2. FrameInv /\ [Next]_vars => FrameInv'
  BY NextFrameInv
<1>3. QED BY <1>1, <1>2, PTL DEF Spec

\* The message and the frames stay well-formed: keys of four bytes, pieces of
\* frames that were sent.
THEOREM TypeCorrectness == Spec => []TypeOK
<1>1. FrameInv => TypeOK
  BY DEF FrameInv
<1>2. QED BY <1>1, Invariance, PTL
-----------------------------------------------------------------------------
(***************************************************************************)
(* What waits in the buffer, of a client that does not fragment.           *)
(***************************************************************************)
\* What a frame is refused for depends on the message only in its being open.
LEMMA SameRefusal ==
    ASSUME NEW m, NEW n, NEW k, m.msContinue = n.msContinue
    PROVE  BadFrame(m, k) <=> BadFrame(n, k)
  BY DEF BadFrame

\* Of such a client no frame opens a message.
LEMMA OpensNothing ==
    ASSUME WaitInv, Accepts(FrontFrame)
    PROVE  /\ buffer # <<>> /\ Complete(FrontFrame)
           /\ FrontFrame \in DOMAIN sent /\ FrontFrame \in Number /\ sent[FrontFrame] \in FrameKind
           /\ msg \in WSMessage
           /\ Sane(sent[FrontFrame])
           /\ sent[FrontFrame].op \in DataOps \cup ControlOps
           /\ Parsed(msg, FrontFrame) \in WSMessage
           /\ Parsed(msg, FrontFrame).msContinue = FALSE
<1> DEFINE f == FrontFrame
           k == sent[f]
<1>1. FrameInv /\ NothingOpen /\ msg \in WSMessage
  BY DEF WaitInv, FrameInv, TypeOK, WSMessage
<1>2. pc = "ws" /\ ~BadHead(k) /\ Complete(f) /\ ~BadFrame(msg, k)
  BY DEF Accepts
<1>3. buffer # <<>>
  BY <1>1, <1>2 DEF FrameInv, AtWork
<1>4. f \in 1 .. Len(sent) /\ f \in Number /\ k \in FrameKind /\ sent \in Seq(FrameKind)
  BY <1>1, <1>3, AtFront
<1>5. f \in DOMAIN sent
  BY <1>4
<1>6. ~msg.msContinue
  BY <1>1 DEF NothingOpen
<1>7. /\ k.op \in Ops /\ k.op # "unknown" /\ k.op # "continuation"
      /\ k.op \in ControlOps => ~(k.size > MaxControl) /\ k.final
  BY <1>2, <1>4, <1>6 DEF BadFrame, FrameKind
<1>8. k.op \in DataOps \cup ControlOps
  BY <1>7 DEF Ops, NoType
<1>9. k.size <= MaxControl \/ k.size > MaxControl
  BY <1>4, WebSocketAssumption DEF FrameKind
<1>10. Sane(k)
  BY <1>2, <1>7, <1>8, <1>9 DEF Sane
<1>11. Parsed(msg, f) \in WSMessage
       /\ Parsed(msg, f).msContinue = IF k.op \in ControlOps THEN msg.msContinue ELSE ~k.final
  BY <1>1, <1>4, ParsedType
<1>12. k.op \in DataOps => k.final
  BY <1>1, <1>5 DEF NothingOpen
<1>13. msg.msContinue = FALSE /\ (k.final => k.final = TRUE)
  BY <1>1, <1>4, <1>6 DEF WSMessage, FrameKind
<1>14. Parsed(msg, f).msContinue = FALSE
  BY <1>8, <1>11, <1>12, <1>13
<1>15. QED BY <1>1, <1>2, <1>3, <1>4, <1>5, <1>8, <1>10, <1>11, <1>14

\* An answer leaves a closed message closed.
LEMMA AnswerCloses ==
    ASSUME NEW m \in WSMessage, m.msContinue = FALSE, NEW data, Answer(m, data)
    PROVE  msg'.msContinue = FALSE
  BY DEF Answer, Reset, WSMessage

LEMMA InitWaitInv == Init => WaitInv
<1>1. SUFFICES ASSUME Init PROVE WaitInv
  OBVIOUS
<1>2. FrameInv
  BY <1>1, InitFrameInv
<1>3. NothingOpen
  BY <1>1 DEF Init, NothingOpen, Reset
<1>4. NothingWaits
  BY <1>1 DEF Init, NothingWaits
<1>5. QED BY <1>2, <1>3, <1>4 DEF WaitInv

LEMMA NextWaitInv == Unfragmented /\ WaitInv /\ [Next]_vars => WaitInv'
<1>1. SUFFICES ASSUME Unfragmented, WaitInv, [Next]_vars PROVE WaitInv'
  OBVIOUS
<1>2. FrameInv /\ NothingOpen /\ NothingWaits /\ msg \in WSMessage /\ sent \in Seq(FrameKind)
  BY <1>1 DEF WaitInv, FrameInv, TypeOK, WSMessage
<1>3. FrameInv'
  BY <1>1, <1>2, NextFrameInv
<1> SUFFICES NothingOpen' /\ NothingWaits'
  BY <1>3 DEF WaitInv
<1>4. ASSUME NEW burst \in Bursts, Send(burst) PROVE NothingOpen' /\ NothingWaits'
  <2>1. /\ sent' = sent \o burst /\ msg' = msg /\ buffer' = buffer /\ pc' = pc /\ closing' = closing
    BY <1>4 DEF Send
  <2>2. burst \in Seq(FrameKind)
    BY WebSocketAssumption
  <2>3. /\ Len(sent \o burst) = Len(sent) + Len(burst) /\ Len(sent) \in Nat /\ Len(burst) \in Nat
        /\ \A i \in 1 .. Len(sent) : (sent \o burst)[i] = sent[i]
        /\ \A i \in 1 .. Len(sent) + Len(burst) : i \notin 1 .. Len(sent) =>
             (sent \o burst)[i] = burst[i - Len(sent)] /\ i - Len(sent) \in 1 .. Len(burst)
    BY <1>2, <2>2
  <2>4. ASSUME NEW i \in DOMAIN sent', sent'[i].op \in DataOps PROVE sent'[i].final
    <3>1. DOMAIN sent = 1 .. Len(sent) /\ DOMAIN burst = 1 .. Len(burst)
          /\ DOMAIN sent' = 1 .. Len(sent) + Len(burst)
      BY <1>2, <2>1, <2>2, <2>3
    <3>2. CASE i \in 1 .. Len(sent)
      BY <1>2, <2>1, <2>3, <2>4, <3>1, <3>2 DEF NothingOpen
    <3>3. CASE i \notin 1 .. Len(sent)
      <4>1. sent'[i] = burst[i - Len(sent)] /\ i - Len(sent) \in DOMAIN burst
        BY <2>1, <2>3, <3>1, <3>3
      <4>2. QED BY <1>1, <2>4, <4>1 DEF Unfragmented
    <3>4. QED BY <3>2, <3>3
  <2>5. NothingOpen'
    BY <1>2, <2>1, <2>4 DEF NothingOpen
  <2>6. ASSUME pc' = "idle" /\ ~closing' /\ buffer' # <<>>
        PROVE  LET k == sent'[FrontFrame'] IN BadHead(k) \/ ~Complete(FrontFrame)' \/ BadFrame(msg', k)
    <3>1. FrontFrame \in 1 .. Len(sent)
      BY <1>2, <2>1, <2>6, AtFront
    <3>2. FrontFrame' = FrontFrame /\ sent'[FrontFrame] = sent[FrontFrame]
      BY <2>1, <2>3, <3>1 DEF FrontFrame
    <3>3. BadHead(sent[FrontFrame]) \/ ~Complete(FrontFrame) \/ BadFrame(msg, sent[FrontFrame])
      BY <1>2, <2>1, <2>6 DEF NothingWaits
    <3>4. QED BY <2>1, <3>2, <3>3 DEF Complete
  <2>7. NothingWaits'
    BY <2>6 DEF NothingWaits, Complete
  <2>8. QED BY <2>5, <2>7
<1>5. CASE ReadData
  BY <1>2, <1>5 DEF ReadData, NothingOpen, NothingWaits
<1>6. CASE WriteDone
  BY <1>2, <1>6 DEF WriteDone, NothingOpen, NothingWaits, FrontFrame, Complete
<1>7. CASE Refuse
  <2>1. /\ msg' = Reset /\ sent' = sent /\ buffer' = buffer
        /\ BadHead(sent[FrontFrame]) \/ (Complete(FrontFrame) /\ BadFrame(msg, sent[FrontFrame]))
    BY <1>7 DEF Refuse
  <2>2. Reset.msContinue = FALSE /\ msg.msContinue = FALSE
    BY <1>2 DEF Reset, NothingOpen, WSMessage
  <2>3. BadHead(sent[FrontFrame]) \/ BadFrame(Reset, sent[FrontFrame])
    BY <2>1, <2>2, SameRefusal
  <2>4. FrontFrame' = FrontFrame
    BY <2>1 DEF FrontFrame
  <2>5. NothingWaits'
    BY <2>1, <2>3, <2>4 DEF NothingWaits
  <2>6. QED BY <1>2, <2>1, <2>2, <2>5 DEF NothingOpen
<1>8. CASE Incomplete
  <2>1. /\ msg' = Typed(msg, sent[FrontFrame]) /\ sent' = sent /\ buffer' = buffer
        /\ ~Complete(FrontFrame)
    BY <1>8 DEF Incomplete
  <2>2. Typed(msg, sent[FrontFrame]).msContinue = msg.msContinue
    BY <1>2 DEF Typed, WSMessage
  <2>3. FrontFrame' = FrontFrame
    BY <2>1 DEF FrontFrame
  <2>4. QED BY <1>2, <2>1, <2>2, <2>3 DEF NothingOpen, NothingWaits, Complete
<1>9. ~Fragment
  <2>1. Fragment => Accepts(FrontFrame) /\ Parsed(msg, FrontFrame).msContinue
    BY DEF Fragment
  <2>2. QED BY <1>1, <2>1, OpensNothing
<1>10. ASSUME NEW done, GoOn(FrontFrame, done), closing' = done, sent' = sent, msg'.msContinue = FALSE
       PROVE  NothingOpen' /\ NothingWaits'
  BY <1>2, <1>10 DEF GoOn, NothingOpen, NothingWaits
<1>11. CASE Handle
  <2>1. /\ Accepts(FrontFrame) /\ GoOn(FrontFrame, closing) /\ closing' = closing /\ sent' = sent
        /\ \E data : Answer(Parsed(msg, FrontFrame), data)
    BY <1>11 DEF Handle
  <2>2. msg'.msContinue = FALSE
    BY <1>1, <2>1, OpensNothing, AnswerCloses
  <2>3. QED BY <1>10, <2>1, <2>2
<1>12. CASE Control
  <2> DEFINE m == Parsed(msg, FrontFrame)
  <2>1. /\ Accepts(FrontFrame) /\ GoOn(FrontFrame, closing') /\ sent' = sent
        /\ Answer([m EXCEPT !.messageType = PongType(@)], ControlData(m))
    BY <1>12 DEF Control
  <2>2. m \in WSMessage /\ m.msContinue = FALSE
    BY <1>1, <2>1, OpensNothing
  <2> HIDE DEF m
  <2>3. [m EXCEPT !.messageType = PongType(@)] \in WSMessage
        /\ [m EXCEPT !.messageType = PongType(@)].msContinue = FALSE
    BY <2>2 DEF WSMessage, PongType, Ops, ControlOps
  <2>4. msg'.msContinue = FALSE
    BY <2>1, <2>3, AnswerCloses
  <2>5. QED BY <1>10, <2>1, <2>4
<1>13. CASE UNCHANGED vars
  BY <1>2, <1>13 DEF vars, NothingOpen, NothingWaits, FrontFrame, Complete
<1>14. QED
  BY <1>1, <1>4, <1>5, <1>6, <1>7, <1>8, <1>9, <1>11, <1>12, <1>13 DEF Next

\* While the agent waits for more bytes of a client that does not fragment its
\* messages, no whole frame that procWS accepts is left in the buffer: however
\* a read ends, the loop has taken all it could.
THEOREM NoFrameIsLeft == ASSUME Unfragmented PROVE Spec => []NothingWaits
<1>1. Init => WaitInv
  BY InitWaitInv
<1>2. WaitInv /\ [Next]_vars => WaitInv'
  BY NextWaitInv
<1>3. WaitInv => NothingWaits
  BY DEF WaitInv
<1>4. QED BY <1>1, <1>2, <1>3, PTL DEF Spec
-----------------------------------------------------------------------------
(***************************************************************************)
(* What the handler is given, of a client that gets an answer to           *)
(* everything it sends and sends every message in one frame.               *)
(***************************************************************************)
\* Both keys of a byte are the same, and take each other away.
LEMMA Unmasked ==
    ASSUME NEW m \in WSMessage, m.reqData = <<>>, NEW f \in Number, sent[f].size \in Nat
    PROVE  Joined(m, f) = Plain(f)
<1> DEFINE n == sent[f].size
<1>1. CASE n = 0
  <2>1. Plain(f) \in Seq(Byte) /\ Len(Plain(f)) = 0
    <3>1. Plain(f) \in Seq(Byte)
      BY PayloadType
    <3>2. DOMAIN Plain(f) = 1 .. 0
      BY <1>1 DEF Plain
    <3>3. QED BY <3>1, <3>2
  <2>2. Plain(f) = <<>>
    BY <2>1, EmptySeq
  <2>3. QED BY <1>1, <2>2 DEF Joined
<1>2. CASE n # 0
  <2>1. PICK p \in Seq(Byte) : p = Payload(f)
    BY PayloadType
  <2>2. m.reqData \o Payload(f) = p /\ Len(m.reqData) = 0
    <3>1. <<>> \o p = p
      OBVIOUS
    <3>2. QED BY <2>1, <3>1
  <2>3. Joined(m, f) = maskBytes(f, 0, p)
    BY <1>2, <2>2 DEF Joined
  <2>4. DOMAIN p = 1 .. n /\ \A i \in 1 .. n : p[i] = [frame |-> f, pos |-> i, keys |-> {<<f, (i - 1) % 4>>}]
    BY <2>1 DEF Payload
  <2>5. ASSUME NEW i \in 1 .. n
        PROVE  [p[i] EXCEPT !.keys = SymDiff(@, {<<f, (0 + i - 1) % 4>>})] = [frame |-> f, pos |-> i, keys |-> {}]
    <3>1. 0 + i - 1 = i - 1
      OBVIOUS
    <3>2. PICK q : q = {<<f, (i - 1) % 4>>}
      OBVIOUS
    <3>3. p[i] = [frame |-> f, pos |-> i, keys |-> q]
      BY <2>4, <3>2
    <3>4. SymDiff(q, q) = {}
      BY DEF SymDiff
    <3>5. [p[i] EXCEPT !.keys = SymDiff(@, q)] = [frame |-> f, pos |-> i, keys |-> SymDiff(q, q)]
      BY <3>3
    <3>6. QED BY <3>1, <3>2, <3>4, <3>5
  <2>6. maskBytes(f, 0, p) = [i \in 1 .. n |-> [p[i] EXCEPT !.keys = SymDiff(@, {<<f, (0 + i - 1) % 4>>})]]
    BY <2>4 DEF maskBytes
  <2>7. Plain(f) = [i \in 1 .. n |-> [frame |-> f, pos |-> i, keys |-> {}]]
    BY DEF Plain
  <2>8. QED BY <2>3, <2>5, <2>6, <2>7
<1>3. QED BY <1>1, <1>2

LEMMA MessageType ==
    ASSUME FrameInv, NEW i \in 1 .. Len(sent)
    PROVE  /\ i \in Number /\ sent[i] \in FrameKind /\ sent[i].size \in Nat /\ sent[i].op \in Ops
           /\ Plain(i) \in Seq(Byte) /\ Len(Plain(i)) = sent[i].size
           /\ Message(i) \in [type : Ops, data : Seq(Byte)]
           /\ Message(i) \in DataMessage <=> sent[i].op \in DataOps
<1>1. sent \in Seq(FrameKind) /\ Len(sent) <= MaxFrames /\ Len(sent) \in Nat /\ MaxFrames \in Nat
  BY WebSocketAssumption DEF FrameInv, TypeOK
<1>2. i \in Number /\ sent[i] \in FrameKind
  BY <1>1, ElementOfSeq DEF Number
<1>3. sent[i].size \in Nat /\ sent[i].op \in Ops
  BY <1>2 DEF FrameKind
<1>4. Plain(i) \in Seq(Byte)
  BY <1>2, <1>3, PayloadType
<1>5. Len(Plain(i)) = sent[i].size
  <2>1. DOMAIN Plain(i) = 1 .. sent[i].size /\ DOMAIN Plain(i) = 1 .. Len(Plain(i)) /\ Len(Plain(i)) \in Nat
    <3>1. DOMAIN Plain(i) = 1 .. sent[i].size
      BY DEF Plain
    <3>2. \A p \in Seq(Byte) : DOMAIN p = 1 .. Len(p) /\ Len(p) \in Nat
      OBVIOUS
    <3>3. QED BY <1>4, <3>1, <3>2
  <2>2. QED BY <1>3, <2>1
<1>6. PICK p \in Seq(Byte) : p = Plain(i)
  BY <1>4
<1>7. Message(i) = [type |-> sent[i].op, data |-> p]
  BY <1>6 DEF Message
<1>8. Message(i) \in [type : Ops, data : Seq(Byte)] /\ (Message(i) \in DataMessage <=> sent[i].op \in DataOps)
  BY <1>3, <1>7 DEF DataMessage
<1>9. QED BY <1>2, <1>3, <1>4, <1>5, <1>8

\* The frames that are cut out come before the first that is not.
LEMMA DoneBefore ==
    ASSUME FrameInv
    PROVE  /\ Done \in 0 .. Len(sent) /\ Len(sent) \in Nat
           /\ buffer # <<>> => Done = FrontFrame - 1
<1>1. /\ buffer \in Seq(Token) /\ inbound \in Seq(Token) /\ sent \in Seq(FrameKind)
      /\ Stream(buffer \o inbound, sent)
  BY PiecesAreTokens DEF FrameInv, TypeOK, InStream
<1>2. Len(sent) \in Nat
  BY <1>1
<1>3. PICK w \in Seq(Token) : w = buffer \o inbound
  BY <1>1, ConcatProperties
<1>4. w # <<>> => w[1].frame \in 1 .. Len(sent)
  BY <1>1, <1>3, StreamFront
<1>5. Done \in 0 .. Len(sent)
  BY <1>2, <1>3, <1>4 DEF Done
<1>6. ASSUME buffer # <<>> PROVE Done = FrontFrame - 1
  BY <1>6, AtFront DEF Done
<1>7. QED BY <1>2, <1>5, <1>6

\* The messages of the first n frames.
LEMMA CutGrows ==
    ASSUME FrameInv, NEW n \in Nat, n + 1 <= Len(sent)
    PROVE  /\ [i \in 1 .. n |-> Message(i)] \in Seq([type : Ops, data : Seq(Byte)])
           /\ Message(n + 1) \in [type : Ops, data : Seq(Byte)]
           /\ [i \in 1 .. n + 1 |-> Message(i)] = Append([i \in 1 .. n |-> Message(i)], Message(n + 1))
<1> DEFINE M == [type : Ops, data : Seq(Byte)]
           c == [i \in 1 .. n |-> Message(i)]
           d == [i \in 1 .. n + 1 |-> Message(i)]
<1>1. \A i \in 1 .. n + 1 : Message(i) \in M
  <2>1. \A i \in 1 .. n + 1 : i \in 1 .. Len(sent)
    BY DoneBefore
  <2>2. QED BY <2>1, MessageType
<1> HIDE DEF M
<1>2. c \in Seq(M) /\ d \in Seq(M) /\ Len(c) = n /\ Len(d) = n + 1 /\ Message(n + 1) \in M
  <2>1. \A i \in 1 .. n : Message(i) \in M
    BY <1>1
  <2>2. n + 1 \in Nat /\ n + 1 \in 1 .. n + 1
    OBVIOUS
  <2>3. c \in Seq(M) /\ Len(c) = n
    BY <2>1, IsASeq
  <2>4. d \in Seq(M) /\ Len(d) = n + 1
    BY <1>1, <2>2, IsASeq
  <2>5. QED BY <1>1, <2>2, <2>3, <2>4
<1>3. /\ \A i \in 1 .. n : c[i] = Message(i)
      /\ \A i \in 1 .. n + 1 : d[i] = Message(i)
  OBVIOUS
<1> HIDE DEF c, d
<1>4. Append(c, Message(n + 1)) \in Seq(M) /\ Len(Append(c, Message(n + 1))) = n + 1
  BY <1>2
<1>5. ASSUME NEW i \in 1 .. n + 1 PROVE d[i] = Append(c, Message(n + 1))[i]
  <2>1. CASE i \in 1 .. n
    BY <1>2, <1>3, <2>1
  <2>2. CASE i = n + 1
    BY <1>2, <1>3, <2>2
  <2>3. i \in 1 .. n \/ i = n + 1
    OBVIOUS
  <2>4. QED BY <2>1, <2>2, <2>3
<1>6. d = Append(c, Message(n + 1))
  BY <1>2, <1>4, <1>5, SeqEqual
<1>7. QED BY <1>2, <1>6 DEF c, d, M

\* The step that takes the front frame out of the buffer: its message is whole
\* and unmasked, and the next to be cut.
LEMMA TakesFront ==
    ASSUME MessageInv, Accepts(FrontFrame), buffer' = Rest(FrontFrame),
           UNCHANGED <<sent, inbound>>
    PROVE  /\ ~closing /\ Sane(sent[FrontFrame]) /\ HasAnswer(sent[FrontFrame])
           /\ FrontFrame \in 1 .. Len(sent)
           /\ Parsed(msg, FrontFrame) \in WSMessage
           /\ Parsed(msg, FrontFrame).msContinue = FALSE
           /\ Parsed(msg, FrontFrame).messageType = sent[FrontFrame].op
           /\ Parsed(msg, FrontFrame).reqData = Plain(FrontFrame)
           /\ Done = FrontFrame - 1 /\ Done' = FrontFrame
           /\ sent[FrontFrame].op = "close" =>
                buffer' \o inbound' = <<>> /\ sent # <<>> /\ sent[Len(sent)].op = "close"
<1> DEFINE f == FrontFrame
           k == sent[f]
<1>1. WaitInv /\ FrameInv /\ SentInv /\ Fresh
  BY DEF MessageInv, WaitInv
<1>2. /\ buffer # <<>> /\ Complete(f)
      /\ f \in DOMAIN sent /\ f \in Number /\ k \in FrameKind /\ msg \in WSMessage
      /\ Sane(k) /\ k.op \in DataOps \cup ControlOps
      /\ Parsed(msg, f) \in WSMessage /\ Parsed(msg, f).msContinue = FALSE
  BY <1>1, OpensNothing
<1>3. /\ buffer \in Seq(Token) /\ inbound \in Seq(Token) /\ buffer \o inbound # <<>>
      /\ f \in 1 .. Len(sent) /\ k.size \in Nat /\ sent \in Seq(FrameKind) /\ Len(sent) \in Nat
  BY <1>1, <1>2, AtFront
<1>4. ~closing /\ msg.reqData = <<>> /\ (msg.messageType # NoType => msg.messageType = k.op)
  BY <1>1, <1>3 DEF Fresh
<1>5. HasAnswer(k)
  BY <1>1, <1>2 DEF SentInv
<1>6. /\ Parsed(msg, f).messageType = Typed(msg, k).messageType
      /\ Parsed(msg, f).reqData = Joined(msg, f)
  BY <1>2, ParsedType
<1>7. Typed(msg, k).messageType = k.op
  BY <1>2, <1>4 DEF Typed, WSMessage
<1>8. Joined(msg, f) = Plain(f)
  BY <1>2, <1>3, <1>4, Unmasked
<1>9. Done = f - 1
  BY <1>1, <1>2, DoneBefore
<1>10. /\ Rest(f) \o inbound \in Seq(Token) /\ Stream(Rest(f) \o inbound, sent)
       /\ Rest(f) \o inbound = <<>> => f = Len(sent)
       /\ Rest(f) \o inbound # <<>> => (Rest(f) \o inbound)[1].frame = f + 1
  BY <1>1, <1>2, BehindFront
<1>11. PICK w \in Seq(Token) : w = Rest(f) \o inbound
  BY <1>10
<1>12. buffer' \o inbound' = w /\ sent' = sent
  BY <1>11
<1>13. Done' = f
  <2>1. Done' = IF w = <<>> THEN Len(sent) ELSE w[1].frame - 1
    BY <1>12 DEF Done
  <2>2. w = <<>> => Len(sent) = f
    BY <1>10, <1>11
  <2>3. w # <<>> => w[1].frame - 1 = f
    BY SMTT(30), <1>3, <1>10, <1>11
  <2>4. QED BY <2>1, <2>2, <2>3
<1>14. ASSUME k.op = "close" PROVE w = <<>> /\ sent # <<>> /\ sent[Len(sent)].op = "close"
  <2>1. f = Len(sent)
    <3>1. f \notin 1 .. Len(sent) - 1
      BY <1>1, <1>14 DEF SentInv
    <3>2. QED BY <1>3, <3>1
  <2>2. w # <<>> => w[1].frame \in 1 .. Len(sent)
    BY <1>3, <1>10, <1>11, StreamFront
  <2>3. w = <<>>
    BY <1>3, <1>10, <1>11, <2>1, <2>2
  <2>4. QED BY <1>3, <1>14, <2>1, <2>3
<1>15. QED
  BY <1>2, <1>3, <1>4, <1>5, <1>6, <1>7, <1>8, <1>9, <1>12, <1>13, <1>14

\* What a round of the loop does with a whole message: it is answered, and
\* nothing of it is left in the message.
LEMMA Takes ==
    ASSUME Answered, MessageInv, Handle \/ Control
    PROVE  /\ FrontFrame \in 1 .. Len(sent) /\ Done = FrontFrame - 1 /\ Done' = FrontFrame
           /\ Sane(sent[FrontFrame]) /\ ~closing /\ closing' = (sent[FrontFrame].op = "close")
           /\ sent[FrontFrame].op \in DataOps \cup {"ping", "close"}
           /\ Write(AnswerTo(Message(FrontFrame))) /\ msg' = Reset
           /\ handled' = IF sent[FrontFrame].op \in DataOps THEN Append(handled, Message(FrontFrame)) ELSE handled
           /\ sent' = sent /\ inbound' = inbound /\ received' = received /\ buffer' = Rest(FrontFrame)
           /\ closing' => buffer' \o inbound' = <<>> /\ sent # <<>> /\ sent[Len(sent)].op = "close"
<1> DEFINE f == FrontFrame
           k == sent[f]
           m == Parsed(msg, f)
<1>1. /\ Accepts(f) /\ sent' = sent /\ inbound' = inbound /\ received' = received /\ buffer' = Rest(f)
  BY DEF Handle, Control, GoOn
<1>2. /\ ~closing /\ Sane(k) /\ HasAnswer(k) /\ f \in 1 .. Len(sent)
      /\ m \in WSMessage /\ m.msContinue = FALSE /\ m.messageType = k.op /\ m.reqData = Plain(f)
      /\ Done = f - 1 /\ Done' = f
      /\ k.op = "close" => buffer' \o inbound' = <<>> /\ sent # <<>> /\ sent[Len(sent)].op = "close"
  BY <1>1, TakesFront
<1>3. FrameInv /\ closing = FALSE
  BY <1>2 DEF MessageInv, WaitInv, FrameInv, TypeOK
<1>4. k.size \in Nat /\ Plain(f) \in Seq(Byte) /\ Len(Plain(f)) = k.size
  BY <1>2, <1>3, MessageType
<1>5. k.op \in DataOps \cup ControlOps /\ k.op # "pong" /\ k.size > (IF k.op = "close" THEN 1 ELSE 0)
  BY <1>2 DEF Sane, HasAnswer
<1>6. Plain(f) # <<>>
  BY <1>4, <1>5
<1>7. Message(f).type = k.op /\ Message(f).data = Plain(f)
  BY DEF Message
<1> HIDE DEF m
<1>8. CASE Handle
  <2>1. /\ m.messageType \notin ControlOps
        /\ handled' = Append(handled, [type |-> m.messageType, data |-> m.reqData])
        /\ closing' = closing
        /\ \E answers \in Replies : Answer(m, IF answers THEN m.reqData ELSE <<>>)
    BY <1>8 DEF Handle, m
  <2>2. Answer(m, m.reqData)
    BY <2>1 DEF Answered
  <2>3. k.op \in DataOps /\ k.op # "ping" /\ k.op # "close"
    BY <1>2, <1>5, <2>1 DEF DataOps, ControlOps
  <2>4. handled' = Append(handled, Message(f))
    BY <1>2, <2>1 DEF Message
  <2>5. Write(Reply(k.op, Plain(f))) /\ msg' = Reset
    BY <1>2, <1>6, <2>2 DEF Answer
  <2>6. AnswerTo(Message(f)) = Reply(k.op, Plain(f))
    BY <1>7, <2>3 DEF AnswerTo
  <2>7. closing' = FALSE /\ (k.op = "close") = FALSE
    BY <1>3, <2>1, <2>3
  <2>8. QED BY <1>1, <1>2, <2>3, <2>4, <2>5, <2>6, <2>7
<1>9. CASE Control
  <2>1. /\ m.messageType \in ControlOps /\ handled' = handled
        /\ closing' = (closing \/ m.messageType = "close")
        /\ Answer([m EXCEPT !.messageType = PongType(@)], ControlData(m))
    BY <1>9 DEF Control, m
  <2>2. k.op \in {"ping", "close"} /\ k.op \notin DataOps
    BY <1>2, <1>5, <2>1 DEF DataOps, ControlOps
  <2>3. PICK n : n = [m EXCEPT !.messageType = PongType(@)]
    OBVIOUS
  <2>4. n.messageType = PongType(k.op)
    BY <1>2, <2>3 DEF WSMessage
  <2>5. ControlData(m) # <<>> /\ AnswerTo(Message(f)) = Reply(PongType(k.op), ControlData(m))
    <3>1. CASE k.op = "ping"
      <4>1. ControlData(m) = Plain(f) /\ PongType(k.op) = "pong"
        BY <1>2, <3>1 DEF ControlData, PongType
      <4>2. AnswerTo(Message(f)) = Reply("pong", Plain(f))
        BY <1>7, <3>1 DEF AnswerTo
      <4>3. QED BY <1>6, <4>1, <4>2
    <3>2. CASE k.op = "close"
      <4>1. Len(m.reqData) >= 2
        BY <1>2, <1>4, <1>5, <3>2
      <4>2. k.op # "ping"
        BY <3>2
      <4>3. ControlData(m) = SubSeq(Plain(f), 1, 2) /\ PongType(k.op) = "close"
        BY <1>2, <3>2, <4>1, <4>2 DEF ControlData, PongType
      <4>4. AnswerTo(Message(f)) = Reply("close", SubSeq(Plain(f), 1, 2))
        BY <1>7, <3>2, <4>2 DEF AnswerTo
      <4>5. PICK p \in Seq(Byte) : p = Plain(f)
        BY <1>4
      <4>6. SubSeq(Plain(f), 1, 2) # <<>>
        <5>1. Len(p) >= 2
          BY <1>2, <4>1, <4>5
        <5>2. Len(SubSeq(p, 1, 2)) = 2
          BY <5>1
        <5>3. PICK q : q = SubSeq(p, 1, 2)
          OBVIOUS
        <5>4. Len(q) = 2
          BY <5>2, <5>3
        <5>5. q # <<>>
          BY <5>4
        <5>6. QED BY <4>5, <5>3, <5>5
      <4>7. QED BY <4>3, <4>4, <4>6
    <3>3. QED BY <2>2, <3>1, <3>2
  <2>6. Write(Reply(n.messageType, ControlData(m))) /\ msg' = Reset
    BY <2>1, <2>3, <2>5 DEF Answer
  <2>7. closing' = (k.op = "close")
    BY <1>2, <1>3, <2>1
  <2>8. QED BY <1>1, <1>2, <2>1, <2>2, <2>4, <2>5, <2>6, <2>7
<1>10. QED BY <1>8, <1>9

\* What a client sends comes behind what it sent.
LEMMA SendKeeps ==
    ASSUME MessageInv, NEW burst \in Bursts, Send(burst)
    PROVE  /\ Done' = Done /\ ~closing
           /\ \A i \in 1 .. Len(sent) : sent'[i] = sent[i]
           /\ buffer # <<>> => FrontFrame' = FrontFrame /\ sent'[FrontFrame'] = sent[FrontFrame]
           /\ \A i \in 1 .. Len(sent') - 1 : sent'[i].op # "close"
           /\ \A i \in DOMAIN sent' : \/ i \in DOMAIN sent /\ sent'[i] = sent[i]
                                      \/ \E j \in DOMAIN burst : sent'[i] = burst[j]
<1>1. /\ FrameInv /\ Fresh /\ sent \in Seq(FrameKind) /\ Len(sent) \in Nat
      /\ buffer \in Seq(Token) /\ inbound \in Seq(Token)
  BY PiecesAreTokens, DoneBefore DEF MessageInv, WaitInv, FrameInv, TypeOK
<1>2. /\ sent' = sent \o burst /\ buffer' = buffer
      /\ inbound' = inbound \o Wire(Len(sent), burst)
      /\ \A i \in 1 .. Len(sent) : sent[i].op # "close"
  BY DEF Send
<1>3. burst \in Seq(FrameKind) /\ Len(burst) \in Nat
      /\ \A i \in 1 .. Len(burst) - 1 : burst[i].op # "close"
  <2>1. burst \in Seq(FrameKind)
    BY WebSocketAssumption
  <2>2. QED BY <2>1, WebSocketAssumption
<1>4. /\ Len(sent \o burst) = Len(sent) + Len(burst)
      /\ \A i \in 1 .. Len(sent) : (sent \o burst)[i] = sent[i]
      /\ \A i \in 1 .. Len(sent) + Len(burst) : i \notin 1 .. Len(sent) =>
           (sent \o burst)[i] = burst[i - Len(sent)] /\ i - Len(sent) \in 1 .. Len(burst)
  BY <1>1, <1>3
<1>5. DOMAIN sent = 1 .. Len(sent) /\ DOMAIN burst = 1 .. Len(burst)
      /\ DOMAIN sent' = 1 .. Len(sent) + Len(burst) /\ Len(sent') = Len(sent) + Len(burst)
  BY <1>1, <1>2, <1>3, <1>4
<1>6. ASSUME NEW i \in 1 .. Len(sent') - 1 PROVE sent'[i].op # "close"
  <2>1. CASE i \in 1 .. Len(sent)
    BY <1>2, <1>4, <2>1
  <2>2. CASE i \notin 1 .. Len(sent)
    <3>1. i \in 1 .. Len(sent) + Len(burst)
      BY <1>1, <1>3, <1>5
    <3>2. sent'[i] = burst[i - Len(sent)]
      BY <1>2, <1>4, <2>2, <3>1
    <3>3. i - Len(sent) \in 1 .. Len(burst) - 1
      BY <1>1, <1>3, <1>5, <2>2
    <3>4. QED BY <1>3, <3>2, <3>3
  <2>3. QED BY <2>1, <2>2
<1>7. ASSUME NEW i \in DOMAIN sent'
      PROVE  (i \in DOMAIN sent /\ sent'[i] = sent[i]) \/ \E j \in DOMAIN burst : sent'[i] = burst[j]
  <2>1. CASE i \in 1 .. Len(sent)
    BY <1>2, <1>4, <1>5, <2>1
  <2>2. CASE i \notin 1 .. Len(sent)
    <3>1. sent'[i] = burst[i - Len(sent)] /\ i - Len(sent) \in DOMAIN burst
      BY <1>2, <1>4, <1>5, <2>2
    <3>2. QED BY <3>1
  <2>3. QED BY <2>1, <2>2
<1>8. ~closing
  <2>1. SUFFICES ASSUME closing PROVE FALSE
    OBVIOUS
  <2>2. sent # <<>> /\ sent[Len(sent)].op = "close"
    BY <1>1, <2>1 DEF Fresh
  <2>3. Len(sent) \in 1 .. Len(sent)
    BY <1>1, <2>2
  <2>4. QED BY <1>2, <2>2, <2>3
<1>9. ASSUME buffer # <<>> PROVE FrontFrame' = FrontFrame /\ sent'[FrontFrame'] = sent[FrontFrame]
  <2>1. FrontFrame \in 1 .. Len(sent)
    BY <1>1, <1>9, AtFront
  <2>2. FrontFrame' = FrontFrame
    BY <1>2 DEF FrontFrame
  <2>3. QED BY <1>2, <1>4, <2>1, <2>2
<1>10. Done' = Done
  <2>1. PICK w \in Seq(Token) : w = buffer \o inbound
    BY <1>1, ConcatProperties
  <2>2. Stream(w, sent)
    BY <1>1, <2>1 DEF FrameInv, InStream
  <2>3. PICK t \in Seq(Token) : t = Wire(Len(sent), burst)
    BY <1>1, <1>3, <2>2, StreamWire
  <2>4. /\ burst = <<>> => w \o t = w
        /\ burst # <<>> => w \o t # <<>> /\ (w \o t)[1].frame = IF w = <<>> THEN Len(sent) + 1 ELSE w[1].frame
    BY <1>1, <1>3, <2>2, <2>3, StreamWire
  <2>5. buffer' \o inbound' = w \o t
    <3>1. buffer \o (inbound \o t) = (buffer \o inbound) \o t
      BY SMTT(30), <1>1, <2>3, ConcatRegroup
    <3>2. QED BY <1>2, <2>1, <2>3, <3>1
  <2>6. PICK v : v = w \o t
    OBVIOUS
  <2>7. /\ Done = IF w = <<>> THEN Len(sent) ELSE w[1].frame - 1
        /\ Done' = IF v = <<>> THEN Len(sent') ELSE v[1].frame - 1
    BY <2>1, <2>5, <2>6 DEF Done
  <2>8. CASE burst = <<>>
    <3>1. v = w /\ Len(sent') = Len(sent)
      BY <1>1, <1>5, <2>4, <2>6, <2>8
    <3>2. QED BY <2>7, <3>1
  <2>9. CASE burst # <<>>
    <3>1. v # <<>> /\ v[1].frame = IF w = <<>> THEN Len(sent) + 1 ELSE w[1].frame
      BY <2>4, <2>6, <2>9
    <3>2. (Len(sent) + 1) - 1 = Len(sent)
      BY <1>1
    <3>3. QED BY <2>7, <3>1, <3>2
  <2>10. QED BY <2>8, <2>9
<1>11. \A i \in 1 .. Len(sent) : sent'[i] = sent[i]
  BY <1>2, <1>4
<1>12. QED BY <1>6, <1>7, <1>8, <1>9, <1>10, <1>11

\* A read moves bytes, and changes nothing of what is under way.
LEMMA ReadKeeps ==
    ASSUME FrameInv, ReadData
    PROVE  /\ buffer' \o inbound' = buffer \o inbound /\ Done' = Done
           /\ buffer # <<>> => buffer' # <<>> /\ FrontFrame' = FrontFrame
<1>1. buffer \in Seq(Token) /\ inbound \in Seq(Token)
  BY PiecesAreTokens DEF FrameInv, TypeOK
<1>2. PICK n \in 1 .. Len(inbound) :
        /\ buffer' = buffer \o SubSeq(inbound, 1, n)
        /\ inbound' = SubSeq(inbound, n + 1, Len(inbound))
  BY DEF ReadData
<1>3. PICK p \in Seq(Token), q \in Seq(Token) :
        /\ p = SubSeq(inbound, 1, n) /\ q = SubSeq(inbound, n + 1, Len(inbound))
        /\ p # <<>> /\ p \o q = inbound
  <2>1. n \in Nat /\ n >= 1 /\ n <= Len(inbound)
    BY <1>1
  <2>2. QED BY <1>1, <2>1, ReadMoves
<1>4. buffer' = buffer \o p /\ inbound' = q
  BY <1>2, <1>3
<1>5. buffer' \o inbound' = buffer \o inbound
  <2>1. buffer \o (p \o q) = (buffer \o p) \o q
    BY <1>1, ConcatRegroup
  <2>2. QED BY <1>3, <1>4, <2>1
<1>6. Done' = Done
  BY <1>5 DEF Done, ReadData
<1>7. ASSUME buffer # <<>> PROVE buffer \o p # <<>> /\ Head(buffer \o p) = Head(buffer)
  <2>1. Len(buffer \o p) = Len(buffer) + Len(p) /\ buffer \o p \in Seq(Token)
    BY <1>1, ConcatProperties
  <2>2. Len(buffer) > 0 /\ Len(buffer) \in Nat /\ Len(p) \in Nat
    BY <1>1, <1>7
  <2>3. (buffer \o p)[1] = buffer[1]
    BY <1>1, <2>2
  <2>4. Len(buffer \o p) # 0
    BY <2>1, <2>2
  <2>5. QED BY <1>7, <2>1, <2>3, <2>4, EmptySeq
<1>8. QED BY <1>4, <1>5, <1>6, <1>7 DEF FrontFrame

LEMMA InitMessageInv == Init => MessageInv
<1>1. SUFFICES ASSUME Init PROVE MessageInv
  OBVIOUS
<1>2. WaitInv
  BY <1>1, InitWaitInv
<1>3. sent = <<>> /\ buffer \o inbound = <<>> /\ closing = FALSE /\ msg = Reset /\ handled = <<>>
  BY <1>1 DEF Init
<1>4. SentInv /\ Fresh
  BY <1>3 DEF SentInv, Fresh, Reset
<1>5. Done = 0
  BY <1>3 DEF Done
<1>6. Cut = <<>>
  <2>1. Cut = [i \in 1 .. 0 |-> Message(i)]
    BY <1>5 DEF Cut
  <2>2. QED BY <2>1
<1>7. HandledInv
  BY <1>3, <1>5, <1>6, OnlyEmpty DEF HandledInv
<1>8. QED BY <1>2, <1>4, <1>7 DEF MessageInv

LEMMA NextMessageInv ==
    ASSUME Unfragmented, Answered PROVE MessageInv /\ [Next]_vars => MessageInv'
<1>1. SUFFICES ASSUME MessageInv, [Next]_vars PROVE MessageInv'
  OBVIOUS
<1>2. /\ WaitInv /\ FrameInv /\ SentInv /\ Fresh /\ HandledInv
      /\ msg \in WSMessage /\ sent \in Seq(FrameKind) /\ Len(sent) \in Nat
      /\ buffer \in Seq(Token) /\ inbound \in Seq(Token)
      /\ Done \in 0 .. Len(sent) /\ closing \in BOOLEAN
  <2>1. WaitInv /\ FrameInv /\ SentInv /\ Fresh /\ HandledInv
    BY <1>1 DEF MessageInv, WaitInv
  <2>2. Done \in 0 .. Len(sent) /\ Len(sent) \in Nat
    BY <2>1, DoneBefore
  <2>3. QED BY <2>1, <2>2, PiecesAreTokens DEF FrameInv, TypeOK, WSMessage
<1>3. WaitInv'
  BY <1>1, <1>2, NextWaitInv
<1> SUFFICES SentInv' /\ Fresh' /\ HandledInv'
  BY <1>3 DEF MessageInv
<1>4. ASSUME sent' = sent, Done' = Done, handled' = handled PROVE SentInv' /\ HandledInv'
  <2>1. Cut' = Cut
    BY <1>4 DEF Cut, Message, Plain
  <2>2. HandledInv'
    BY <1>2, <1>4, <2>1 DEF HandledInv
  <2>3. QED BY <1>2, <1>4, <2>2 DEF SentInv
<1>5. ASSUME NEW burst \in Bursts, Send(burst) PROVE SentInv' /\ Fresh' /\ HandledInv'
  <2>1. /\ msg' = msg /\ buffer' = buffer /\ closing' = closing /\ handled' = handled
    BY <1>5 DEF Send
  <2>2. /\ Done' = Done /\ ~closing
        /\ \A i \in 1 .. Len(sent) : sent'[i] = sent[i]
        /\ buffer # <<>> => FrontFrame' = FrontFrame /\ sent'[FrontFrame'] = sent[FrontFrame]
        /\ \A i \in 1 .. Len(sent') - 1 : sent'[i].op # "close"
        /\ \A i \in DOMAIN sent' : \/ i \in DOMAIN sent /\ sent'[i] = sent[i]
                                   \/ \E j \in DOMAIN burst : sent'[i] = burst[j]
    BY <1>1, <1>5, SendKeeps
  <2>3. ASSUME NEW i \in DOMAIN sent', Sane(sent'[i]) PROVE HasAnswer(sent'[i])
    BY <1>2, <2>2, <2>3 DEF SentInv, Answered
  <2>4. SentInv'
    BY <2>2, <2>3 DEF SentInv
  <2>5. Fresh'
    BY <1>2, <2>1, <2>2 DEF Fresh
  <2>6. \A i \in 1 .. Done : sent'[i] = sent[i]
    BY <1>2, <2>2
  <2>7. Cut' = Cut
    BY <2>2, <2>6 DEF Cut, Message, Plain
  <2>8. HandledInv'
    BY <1>2, <2>1, <2>2, <2>6, <2>7 DEF HandledInv
  <2>9. QED BY <2>4, <2>5, <2>8
<1>6. CASE ReadData
  <2>1. sent' = sent /\ msg' = msg /\ handled' = handled /\ closing' = closing
    BY <1>6 DEF ReadData
  <2>2. /\ buffer' \o inbound' = buffer \o inbound /\ Done' = Done
        /\ buffer # <<>> => buffer' # <<>> /\ FrontFrame' = FrontFrame
    BY <1>2, <1>6, ReadKeeps
  <2>3. Fresh'
    BY <1>2, <2>1, <2>2 DEF Fresh
  <2>4. QED BY <1>4, <2>1, <2>2, <2>3
<1>7. ASSUME UNCHANGED <<sent, inbound, buffer, closing, handled>>
      PROVE  /\ SentInv' /\ HandledInv' /\ FrontFrame' = FrontFrame
             /\ buffer' \o inbound' = buffer \o inbound
  BY <1>4, <1>7 DEF Done, FrontFrame
<1>8. CASE WriteDone \/ UNCHANGED vars
  <2>1. UNCHANGED <<sent, inbound, buffer, closing, handled, msg>>
    BY <1>8 DEF WriteDone, vars
  <2>2. Fresh'
    BY <1>2, <1>7, <2>1 DEF Fresh
  <2>3. QED BY <1>7, <2>1, <2>2
<1>9. CASE Refuse
  <2>1. UNCHANGED <<sent, inbound, buffer, closing, handled>> /\ msg' = Reset
    BY <1>9 DEF Refuse
  <2>2. Reset.reqData = <<>> /\ Reset.messageType = NoType
    BY DEF Reset
  <2>3. Fresh'
    BY <1>2, <1>7, <2>1, <2>2 DEF Fresh
  <2>4. QED BY <1>7, <2>1, <2>3
<1>10. CASE Incomplete
  <2>1. UNCHANGED <<sent, inbound, buffer, closing, handled>> /\ msg' = Typed(msg, sent[FrontFrame]) /\ pc = "ws"
    BY <1>10 DEF Incomplete
  <2>2. buffer # <<>>
    BY <1>2, <2>1 DEF FrameInv, AtWork
  <2>3. /\ msg'.reqData = msg.reqData
        /\ msg'.messageType = IF msg.messageType = NoType THEN sent[FrontFrame].op ELSE msg.messageType
    BY <1>2, <2>1 DEF Typed, WSMessage
  <2>4. Fresh'
    BY <1>2, <1>7, <2>1, <2>2, <2>3 DEF Fresh
  <2>5. QED BY <1>7, <2>1, <2>4
<1>11. ~Fragment
  <2>1. Fragment => Accepts(FrontFrame) /\ Parsed(msg, FrontFrame).msContinue
    BY DEF Fragment
  <2>2. QED BY <1>2, <2>1, OpensNothing
<1>12. CASE Handle \/ Control
  <2> DEFINE f == FrontFrame
             M == [type : Ops, data : Seq(Byte)]
  <2>1. /\ f \in 1 .. Len(sent) /\ Done = f - 1 /\ Done' = f /\ Sane(sent[f])
        /\ closing' = (sent[f].op = "close") /\ msg' = Reset /\ sent' = sent
        /\ handled' = IF sent[f].op \in DataOps THEN Append(handled, Message(f)) ELSE handled
        /\ closing' => buffer' \o inbound' = <<>> /\ sent # <<>> /\ sent[Len(sent)].op = "close"
    BY <1>1, <1>12, Takes
  <2>2. SentInv'
    BY <1>2, <2>1 DEF SentInv
  <2>3. Fresh'
    BY <2>1 DEF Fresh, Reset
  <2>4. PICK n \in Nat : n = f - 1 /\ n + 1 = f /\ n + 1 <= Len(sent)
    BY <1>2, <2>1
  <2>5. Cut = [i \in 1 .. n |-> Message(i)] /\ Cut' = [i \in 1 .. n + 1 |-> Message(i)]
    BY <2>1, <2>4 DEF Cut, Message, Plain
  <2>6. Cut \in Seq(M) /\ Message(f) \in M /\ Cut' = Append(Cut, Message(f))
    BY <1>2, <2>4, <2>5, CutGrows
  <2>7. Message(f) \in DataMessage <=> sent[f].op \in DataOps
    BY <1>2, <2>1, MessageType
  <2>8. Only(Cut', DataMessage) = IF Message(f) \in DataMessage THEN Append(Only(Cut, DataMessage), Message(f))
                                  ELSE Only(Cut, DataMessage)
    <3> HIDE DEF M
    <3>1. QED BY <2>6, OnlyAppend
  <2>9. handled' = Only(Cut', DataMessage)
    BY <1>2, <2>1, <2>7, <2>8 DEF HandledInv
  <2>10. ASSUME NEW i \in 1 .. Done' PROVE Sane(sent'[i])
    <3>1. i \in 1 .. Done \/ i = f
      BY <2>1
    <3>2. QED BY <1>2, <2>1, <3>1 DEF HandledInv
  <2>11. HandledInv'
    BY <2>9, <2>10 DEF HandledInv, DataMessage, Byte, Number
  <2>12. QED BY <2>2, <2>3, <2>11
<1>13. QED
  BY <1>1, <1>5, <1>6, <1>8, <1>9, <1>10, <1>11, <1>12 DEF Next

\* Every round that takes a message leaves none of it behind, and what the
\* handler was given is what the frames cut out say.
THEOREM InvarianceOfMessages ==
    ASSUME Unfragmented, Answered PROVE Spec => []MessageInv
<1>1. Init => MessageInv
  BY InitMessageInv
<1>2. MessageInv /\ [Next]_vars => MessageInv'
  BY NextMessageInv
<1>3. QED BY <1>1, <1>2, PTL DEF Spec
-----------------------------------------------------------------------------
(***************************************************************************)
(* The messages of the client, by RFC 6455, begin with those of the frames *)
(* that are cut out.                                                       *)
(***************************************************************************)
\* What is known behind n frames that each are a message.
Known(n) == [type |-> NoType, data |-> <<>>, messages |-> [i \in 1 .. n |-> Message(i)], failed |-> FALSE]

Accumulated == [type : Ops, data : Seq(Byte), messages : Seq([type : Ops, data : Seq(Byte)]), failed : BOOLEAN]

\* A frame adds a message, or none.
LEMMA FrameAdds ==
    ASSUME FrameInv, NEW acc \in Accumulated, NEW f \in 1 .. Len(sent)
    PROVE  /\ AfterFrame(acc, f) \in Accumulated
           /\ \E u \in Seq([type : Ops, data : Seq(Byte)]) : AfterFrame(acc, f).messages = acc.messages \o u
<1> DEFINE M == [type : Ops, data : Seq(Byte)]
           k == sent[f]
           open == acc.type # NoType
           data == acc.data \o Plain(f)
           type == IF open THEN acc.type ELSE k.op
           r == AfterFrame(acc, f)
           bad == BadHead(k) \/ k.op = "unknown" \/ (k.op \in DataOps /\ open)
                    \/ (k.op = "continuation" /\ ~open)
                    \/ (k.op \in ControlOps /\ (k.size > MaxControl \/ ~k.final))
<1>1. k.op \in Ops /\ Plain(f) \in Seq(Byte) /\ NoType \in Ops /\ <<>> \in Seq(Byte)
  BY MessageType, EmptySeq DEF Ops
<1>2. acc.type \in Ops /\ acc.data \in Seq(Byte) /\ acc.messages \in Seq(M) /\ acc.failed \in BOOLEAN
  BY DEF Accumulated
<1>3. type \in Ops /\ data \in Seq(Byte)
  BY <1>1, <1>2, ConcatProperties
<1>4. acc.messages = acc.messages \o <<>> /\ <<>> \in Seq(M)
  BY <1>2, EmptySeq
<1>5. ASSUME NEW x \in M
      PROVE  Append(acc.messages, x) = acc.messages \o <<x>> /\ <<x>> \in Seq(M) /\ Append(acc.messages, x) \in Seq(M)
  <2>1. PICK s \in Seq(M) : s = acc.messages
    BY <1>2
  <2> HIDE DEF M
  <2>2. Append(s, x) = s \o <<x>> /\ <<x>> \in Seq(M) /\ Append(s, x) \in Seq(M)
    OBVIOUS
  <2>3. QED BY <2>1, <2>2
<1>6. [type |-> k.op, data |-> Plain(f)] \in M /\ [type |-> type, data |-> data] \in M
  BY <1>1, <1>3
<1>7. CASE acc.failed
  <2>1. r = acc
    BY <1>7 DEF AfterFrame
  <2>2. QED BY <1>4, <2>1
<1>8. CASE ~acc.failed /\ bad
  <2>1. r = [acc EXCEPT !.failed = TRUE]
    BY <1>8 DEF AfterFrame
  <2>2. r \in Accumulated /\ r.messages = acc.messages
    BY <2>1 DEF Accumulated
  <2>3. QED BY <1>4, <2>2
<1>9. CASE ~acc.failed /\ ~bad /\ k.op \in ControlOps
  <2>1. PICK x \in M : x = [type |-> k.op, data |-> Plain(f)]
    BY <1>6
  <2>2. r = [acc EXCEPT !.messages = Append(@, x)]
    BY <1>9, <2>1 DEF AfterFrame
  <2>3. r \in Accumulated /\ r.messages = Append(acc.messages, x)
    BY <1>2, <1>5, <2>2 DEF Accumulated
  <2>4. QED BY <1>5, <2>3
<1>10. CASE ~acc.failed /\ ~bad /\ k.op \notin ControlOps /\ ~k.final
  <2>1. r = [acc EXCEPT !.type = type, !.data = data]
    BY <1>10 DEF AfterFrame
  <2> HIDE DEF type, data
  <2>2. r \in Accumulated /\ r.messages = acc.messages
    BY <1>3, <2>1 DEF Accumulated
  <2>3. QED BY <1>4, <2>2
<1>11. CASE ~acc.failed /\ ~bad /\ k.op \notin ControlOps /\ k.final
  <2>1. PICK x \in M : x = [type |-> type, data |-> data]
    BY <1>6
  <2>2. r = [acc EXCEPT !.messages = Append(@, x), !.type = NoType, !.data = <<>>]
    BY <1>11, <2>1 DEF AfterFrame
  <2>3. r \in Accumulated /\ r.messages = Append(acc.messages, x)
    BY <1>1, <1>2, <1>5, <2>2 DEF Accumulated
  <2>4. QED BY <1>5, <2>3
<1>12. QED BY <1>7, <1>8, <1>9, <1>10, <1>11

\* A frame that is a message adds it.
LEMMA FrameIsMessage ==
    ASSUME FrameInv, NothingOpen, NEW n \in Nat, n + 1 <= Len(sent), Sane(sent[n + 1])
    PROVE  AfterFrame(Known(n), n + 1) = Known(n + 1)
<1> DEFINE f == n + 1
           k == sent[f]
           acc == Known(n)
           c == [i \in 1 .. n |-> Message(i)]
<1>1. f \in 1 .. Len(sent)
  BY DoneBefore
<1>2. Plain(f) \in Seq(Byte) /\ k \in FrameKind /\ k.size \in Nat /\ sent \in Seq(FrameKind)
  BY <1>1, MessageType DEF FrameInv, TypeOK
<1>3. /\ acc.type = NoType /\ acc.data = <<>> /\ acc.messages = c /\ acc.failed = FALSE
  BY DEF Known
<1>4. Append(c, Message(f)) = [i \in 1 .. n + 1 |-> Message(i)]
  BY CutGrows
<1>5. <<>> \o Plain(f) = Plain(f)
  BY <1>2, ConcatEmptySeq
<1>6. /\ ~BadHead(k) /\ k.op \in DataOps \cup ControlOps
      /\ k.op \in ControlOps => k.size <= MaxControl /\ k.final
  BY DEF Sane
<1>7. k.op # "unknown" /\ k.op # "continuation" /\ (k.op \in DataOps <=> k.op \notin ControlOps)
  BY <1>6 DEF DataOps, ControlOps
<1>8. ~(k.size > MaxControl) \/ ~(k.size <= MaxControl)
  BY <1>2, WebSocketAssumption
<1>9. CASE k.op \in ControlOps
  <2>1. AfterFrame(acc, f) = [acc EXCEPT !.messages = Append(@, [type |-> k.op, data |-> Plain(f)])]
    BY <1>3, <1>6, <1>7, <1>8, <1>9 DEF AfterFrame
  <2>2. AfterFrame(acc, f) = [acc EXCEPT !.messages = Append(c, Message(f))]
    BY <1>3, <2>1 DEF Message
  <2>3. QED BY <1>4, <2>2 DEF Known
<1>10. CASE k.op \notin ControlOps
  <2>1. k.final
    <3>1. f \in DOMAIN sent /\ k.op \in DataOps
      BY <1>1, <1>2, <1>7, <1>10
    <3>2. QED BY <3>1 DEF NothingOpen
  <2>2. AfterFrame(acc, f)
          = [acc EXCEPT !.messages = Append(@, [type |-> k.op, data |-> acc.data \o Plain(f)]),
                        !.type = NoType, !.data = <<>>]
    BY <1>3, <1>6, <1>7, <1>10, <2>1 DEF AfterFrame
  <2>3. AfterFrame(acc, f) = [acc EXCEPT !.messages = Append(c, Message(f)), !.type = NoType, !.data = <<>>]
    BY <1>3, <1>5, <2>2 DEF Message
  <2>4. QED BY <1>4, <2>3 DEF Known
<1>11. QED BY <1>9, <1>10

\* A frame that is refused is an error, and nothing is open before it.
LEMMA RefusedIsFailure ==
    ASSUME FrameInv, NEW n \in Nat, n + 1 <= Len(sent), ~Sane(sent[n + 1])
    PROVE  AfterFrame(Known(n), n + 1) = [Known(n) EXCEPT !.failed = TRUE]
<1> DEFINE k == sent[n + 1]
           acc == Known(n)
<1>1. k \in FrameKind /\ k.size \in Nat /\ k.op \in Ops
  <2>1. n + 1 \in 1 .. Len(sent)
    BY DoneBefore
  <2>2. QED BY <2>1, MessageType
<1>2. acc.type = NoType /\ acc.failed = FALSE
  BY DEF Known
<1>3. k.size > MaxControl \/ k.size <= MaxControl
  BY <1>1, WebSocketAssumption
<1>4. \/ BadHead(k) \/ k.op = "unknown" \/ k.op = "continuation"
      \/ k.op \in ControlOps /\ (k.size > MaxControl \/ ~k.final)
  BY <1>1, <1>3 DEF Sane, Ops, NoType
<1>5. QED BY <1>2, <1>4 DEF AfterFrame

\* What the definition of Messages adds up, frame by frame.
LEMMA MessagesSteps ==
    ASSUME FrameInv
    PROVE  \E g : /\ g[0] = NothingSent /\ Messages = g[Len(sent)].messages
                  /\ \A i \in 1 .. Len(sent) : g[i] = AfterFrame(g[i - 1], i)
                  /\ \A i \in 0 .. Len(sent) : g[i] \in Accumulated
<1> DEFINE m == Len(sent)
           Is(g) == g = [f \in 0 .. m |-> IF f = 0 THEN NothingSent ELSE AfterFrame(g[f - 1], f)]
           D == Accumulated
           step == [p \in D \X (1 .. m) |-> AfterFrame(p[1], p[2])]
           numbers == [i \in 1 .. m |-> i]
<1>1. m \in Nat
  BY DoneBefore
<1>2. NothingSent \in D
  <2>1. \A S : <<>> \in Seq(S)
    BY EmptySeq
  <2>2. QED BY <2>1 DEF NothingSent, Accumulated, NoType, Ops
<1>3. \A a \in D, i \in 1 .. m : AfterFrame(a, i) \in D
  BY FrameAdds
<1> HIDE DEF D, m
<1>4. step \in [D \X (1 .. m) -> D] /\ \A a \in D, i \in 1 .. m : step[<<a, i>>] = AfterFrame(a, i)
  BY <1>3
<1>5. numbers \in [1 .. m -> 1 .. m] /\ \A i \in 1 .. m : numbers[i] = i
  OBVIOUS
<1> HIDE DEF step, numbers
<1>6. PICK g : Steps(g, D, step, NothingSent, numbers, m)
  BY <1>1, <1>2, <1>4, <1>5, StepsExist
<1>7. g \in [0 .. m -> D] /\ g[0] = NothingSent /\ \A i \in 1 .. m : g[i] = step[<<g[i - 1], numbers[i]>>]
  BY <1>6 DEF Steps
<1>8. Is(g)
  <2> DEFINE h == [f \in 0 .. m |-> IF f = 0 THEN NothingSent ELSE AfterFrame(g[f - 1], f)]
  <2>1. \A i \in 0 .. m : g[i] = h[i]
    <3> TAKE i \in 0 .. m
    <3>1. CASE i = 0
      BY <1>7, <3>1
    <3>2. CASE i # 0
      <4>1. i \in 1 .. m /\ i - 1 \in 0 .. m
        BY <1>1, <3>2
      <4>2. g[i - 1] \in D
        BY <1>7, <4>1
      <4>3. g[i] = AfterFrame(g[i - 1], i)
        BY <1>4, <1>5, <1>7, <4>1, <4>2
      <4>4. h[i] = AfterFrame(g[i - 1], i)
        BY <3>2
      <4>5. QED BY <4>3, <4>4
    <3>3. QED BY <3>1, <3>2
  <2>2. g = [i \in 0 .. m |-> g[i]] /\ h = [i \in 0 .. m |-> h[i]]
    BY <1>7
  <2> HIDE DEF h
  <2>3. g = h
    BY <2>1, <2>2, SameFunction
  <2>4. QED BY <2>3 DEF h
<1>9. PICK w : Is(w) /\ Messages = w[m].messages
  <2> DEFINE c == CHOOSE c : Is(c)
  <2>1. Is(c)
    BY <1>8
  <2>2. Messages = c[m].messages
    BY DEF Messages, m
  <2> HIDE DEF c
  <2>3. QED BY <2>1, <2>2
<1>10. w[0] = NothingSent /\ \A i \in 1 .. m : w[i] = AfterFrame(w[i - 1], i)
  <2> DEFINE h == [f \in 0 .. m |-> IF f = 0 THEN NothingSent ELSE AfterFrame(w[f - 1], f)]
  <2>1. h[0] = NothingSent
    <3>1. 0 \in 0 .. m
      BY <1>1
    <3>2. QED BY <3>1
  <2>2. ASSUME NEW i \in 1 .. m PROVE h[i] = AfterFrame(w[i - 1], i)
    <3>1. i \in 0 .. m /\ i # 0
      BY <1>1
    <3>2. QED BY <3>1
  <2>3. w = h
    BY <1>9
  <2> HIDE DEF h
  <2>4. QED BY <2>1, <2>2, <2>3
<1>11. \A i \in 0 .. m : w[i] \in D
  <2> DEFINE Q == {i \in Nat : i <= m => w[i] \in D}
  <2>1. 0 \in Q
    BY <1>2, <1>10
  <2>2. ASSUME NEW i \in Nat, i \in Q PROVE i + 1 \in Q
    <3>1. SUFFICES ASSUME i + 1 <= m PROVE w[i + 1] \in D
      OBVIOUS
    <3>2. w[i] \in D /\ i + 1 \in 1 .. m /\ (i + 1) - 1 = i
      BY <1>1, <2>2, <3>1
    <3>3. w[i + 1] = AfterFrame(w[i], i + 1)
      BY <1>10, <3>2
    <3>4. QED BY <1>3, <3>2, <3>3
  <2>3. Nat \subseteq Q
    <3> HIDE DEF Q
    <3>1. QED BY <2>1, <2>2, SetInduction
  <2>4. QED BY <1>1, <2>3
<1>12. QED BY <1>9, <1>10, <1>11 DEF D, m

\* The messages of the client begin with those of the frames cut out, and end
\* there when the next frame is refused.
LEMMA CutComesFirst ==
    ASSUME MessageInv
    PROVE  /\ Cut \in Seq([type : Ops, data : Seq(Byte)])
           /\ \E u \in Seq([type : Ops, data : Seq(Byte)]) : Messages = Cut \o u
           /\ Done < Len(sent) /\ ~Sane(sent[Done + 1]) => Messages = Cut
<1> DEFINE M == [type : Ops, data : Seq(Byte)]
           m == Len(sent)
           d == Done
<1>1. FrameInv /\ NothingOpen /\ \A i \in 1 .. d : Sane(sent[i])
  BY DEF MessageInv, WaitInv, HandledInv
<1>2. d \in 0 .. m /\ m \in Nat
  BY <1>1, DoneBefore
<1>3. PICK g : /\ g[0] = NothingSent /\ Messages = g[m].messages
               /\ \A i \in 1 .. m : g[i] = AfterFrame(g[i - 1], i)
               /\ \A i \in 0 .. m : g[i] \in Accumulated
  BY <1>1, MessagesSteps
<1> DEFINE P == {i \in Nat : i <= d => g[i] = Known(i)}
           Q == {i \in Nat : i >= d /\ i <= m => \E u \in Seq(M) : g[i].messages = Cut \o u}
<1>4. g[d] = Known(d)
  <2>1. 0 \in P
    <3>1. [i \in 1 .. 0 |-> Message(i)] = <<>>
      OBVIOUS
    <3>2. Known(0) = NothingSent
      BY <3>1 DEF Known, NothingSent
    <3>3. QED BY <1>3, <3>2
  <2>2. ASSUME NEW i \in Nat, i \in P PROVE i + 1 \in P
    <3>1. SUFFICES ASSUME i + 1 <= d PROVE g[i + 1] = Known(i + 1)
      OBVIOUS
    <3>2. i + 1 \in 1 .. m /\ i + 1 \in 1 .. d /\ (i + 1) - 1 = i /\ i <= d /\ i + 1 <= Len(sent)
      BY <1>2, <3>1
    <3>3. g[i] = Known(i)
      BY <2>2, <3>2
    <3>4. g[i + 1] = AfterFrame(Known(i), i + 1)
      BY <1>3, <3>2, <3>3
    <3>5. Sane(sent[i + 1])
      BY <1>1, <3>2
    <3>6. QED BY <1>1, <3>2, <3>4, <3>5, FrameIsMessage
  <2>3. Nat \subseteq P
    <3> HIDE DEF P
    <3>1. QED BY <2>1, <2>2, SetInduction
  <2>4. QED BY <1>2, <2>3
<1>5. g[d].messages = Cut
  BY <1>4 DEF Known, Cut
<1>6. Cut \in Seq(M)
  <2>1. \A i \in 1 .. d : i \in 1 .. Len(sent)
    BY <1>2
  <2>2. \A i \in 1 .. d : Message(i) \in M
    BY <1>1, <2>1, MessageType
  <2> HIDE DEF M
  <2>3. [i \in 1 .. d |-> Message(i)] \in Seq(M)
    BY <1>2, <2>2, IsASeq
  <2>4. QED BY <2>3 DEF Cut
<1>7. ASSUME NEW i \in Nat, i \in Q PROVE i + 1 \in Q
  <2>1. SUFFICES ASSUME i + 1 >= d, i + 1 <= m PROVE \E u \in Seq(M) : g[i + 1].messages = Cut \o u
    <3> HIDE DEF m, d, M
    <3>1. QED OBVIOUS
  <2>2. CASE i + 1 = d
    <3>1. Cut = Cut \o <<>> /\ <<>> \in Seq(M)
      BY <1>6, EmptySeq, ConcatEmptySeq
    <3>2. QED BY <1>5, <2>2, <3>1
  <2>3. CASE i + 1 # d
    <3>1. i >= d /\ i <= m /\ i + 1 \in 1 .. m /\ i \in 0 .. m /\ (i + 1) - 1 = i
      BY <1>2, <2>1, <2>3
    <3>2. PICK u \in Seq(M) : g[i].messages = Cut \o u
      BY <1>7, <3>1
    <3>3. g[i] \in Accumulated /\ g[i + 1] = AfterFrame(g[i], i + 1)
      BY <1>3, <3>1
    <3>4. PICK v \in Seq(M) : g[i + 1].messages = g[i].messages \o v
      BY ZenonT(60), <1>1, <3>1, <3>3, FrameAdds
    <3> HIDE DEF M
    <3>5. (Cut \o u) \o v = Cut \o (u \o v) /\ u \o v \in Seq(M)
      BY SMTT(30), <1>6, ConcatRegroup, ConcatProperties
    <3>6. QED BY <3>2, <3>4, <3>5
  <2>4. QED BY <2>2, <2>3
<1>8. 0 \in Q
  <2>1. SUFFICES ASSUME 0 >= d PROVE \E u \in Seq(M) : g[0].messages = Cut \o u
    OBVIOUS
  <2>2. d = 0
    BY <1>2, <2>1
  <2>3. Cut = Cut \o <<>> /\ <<>> \in Seq(M)
    BY <1>6, EmptySeq, ConcatEmptySeq
  <2>4. QED BY <1>5, <2>2, <2>3
<1>9. Nat \subseteq Q
  <2> HIDE DEF Q
  <2>1. QED BY <1>7, <1>8, SetInduction
<1>10. \E u \in Seq(M) : g[m].messages = Cut \o u
  <2>1. m \in Q
    BY <1>2, <1>9
  <2>2. m >= d /\ m <= m
    BY <1>2
  <2> HIDE DEF m, d, M
  <2>3. QED BY <2>1, <2>2
<1>11. ASSUME d < m, ~Sane(sent[d + 1]) PROVE Messages = Cut
  <2> DEFINE R == {i \in Nat : i > d /\ i <= m => g[i].failed /\ g[i].messages = Cut}
  <2>1. 0 \in R
    BY <1>2
  <2>2. ASSUME NEW i \in Nat, i \in R PROVE i + 1 \in R
    <3>1. SUFFICES ASSUME i + 1 > d, i + 1 <= m PROVE g[i + 1].failed /\ g[i + 1].messages = Cut
      OBVIOUS
    <3>2. i + 1 \in 1 .. m /\ (i + 1) - 1 = i /\ i \in 0 .. m
      BY <1>2, <3>1
    <3>3. g[i + 1] = AfterFrame(g[i], i + 1) /\ g[i] \in Accumulated
      BY <1>3, <3>2
    <3>4. CASE i = d
      <4>1. g[i + 1] = AfterFrame(Known(d), d + 1)
        BY <1>4, <3>3, <3>4
      <4>2. AfterFrame(Known(d), d + 1) = [Known(d) EXCEPT !.failed = TRUE]
        BY <1>1, <1>2, <1>11, RefusedIsFailure
      <4>3. QED BY <1>5, <4>1, <4>2, <1>4 DEF Known
    <3>5. CASE i # d
      <4>1. g[i].failed /\ g[i].messages = Cut
        BY <1>2, <2>2, <3>1, <3>5
      <4>2. g[i + 1] = g[i]
        BY <3>3, <4>1 DEF AfterFrame
      <4>3. QED BY <4>1, <4>2
    <3>6. QED BY <3>4, <3>5
  <2>3. Nat \subseteq R
    <3> HIDE DEF R
    <3>1. QED BY <2>1, <2>2, SetInduction
  <2>4. QED BY <1>2, <1>3, <1>11, <2>3
<1>12. QED BY <1>3, <1>6, <1>10, <1>11

LEMMA PrefixOfConcat ==
    ASSUME NEW S, NEW s \in Seq(S), NEW u \in Seq(S)
    PROVE  IsPrefix(s, s \o u)
<1>1. s \o u \in Seq(S) /\ Len(s \o u) = Len(s) + Len(u) /\ \A i \in 1 .. Len(s) : (s \o u)[i] = s[i]
  OBVIOUS
<1>2. Len(s) \in Nat /\ Len(u) \in Nat
  OBVIOUS
<1>3. PICK v \in Seq(S) : v = s \o u
  BY <1>1
<1>4. Len(s) <= Len(v) /\ \A i \in 1 .. Len(s) : v[i] = s[i]
  BY <1>1, <1>2, <1>3
<1>5. SubSeq(v, 1, Len(s)) = SubSeq(s, 1, Len(s))
  BY <1>2, <1>4
<1>6. QED BY <1>3, <1>4, <1>5 DEF IsPrefix

\* The handler is given the messages of the client, unmasked, whole and in
\* order, none missing and none twice, however the reads cut the frames. It is
\* so of a client that sends every message in one frame and gets an answer to
\* each: a message that is not answered leaves its data and its type behind.
THEOREM HandlerIsGivenTheMessages ==
    ASSUME Unfragmented, Answered PROVE Spec => []HandlerSeesMessages
<1>1. MessageInv => HandlerSeesMessages
  <2>1. SUFFICES ASSUME MessageInv PROVE HandlerSeesMessages
    OBVIOUS
  <2> DEFINE M == [type : Ops, data : Seq(Byte)]
  <2>2. Cut \in Seq(M)
    BY <2>1, CutComesFirst
  <2>3. PICK u \in Seq(M) : Messages = Cut \o u
    BY <2>1, CutComesFirst
  <2>4. handled = Only(Cut, DataMessage)
    BY <2>1 DEF MessageInv, HandledInv
  <2> HIDE DEF M
  <2>5. Only(Messages, DataMessage) = handled \o Only(u, DataMessage)
    <3>1. \A s, t \in Seq(M) : Only(s \o t, DataMessage) = Only(s, DataMessage) \o Only(t, DataMessage)
      BY OnlyConcat
    <3>2. QED BY <2>2, <2>3, <2>4, <3>1
  <2>6. handled \in Seq(M) /\ Only(u, DataMessage) \in Seq(M)
    BY <2>2, <2>4, OnlyType
  <2>7. IsPrefix(handled, handled \o Only(u, DataMessage))
    BY <2>6, PrefixOfConcat
  <2>8. QED BY <2>5, <2>7 DEF HandlerSeesMessages, DataMessage
<1>2. QED BY <1>1, InvarianceOfMessages, PTL
-----------------------------------------------------------------------------
(***************************************************************************)
(* What the client receives.                                               *)
(***************************************************************************)
WriteRecord == [frame : ServerFrame, shared : BOOLEAN]

\* A frame to write is put behind the others.
LEMMA WritesGrow ==
    ASSUME FrameInv, NEW frame \in ServerFrame, Write(frame)
    PROVE  /\ Len(writes') = Len(writes) + 1 /\ header' = frame
           /\ \A i \in 1 .. Len(writes) : writes'[i] = writes[i]
           /\ writes'[Len(writes) + 1].frame = frame
           /\ writes'[Len(writes) + 1].shared = (Len(frame.of) <= Inline)
<1>1. PICK x \in WriteRecord : x = [frame |-> frame, shared |-> Len(frame.of) <= Inline]
  <2>1. [frame |-> frame, shared |-> Len(frame.of) <= Inline] \in [frame : ServerFrame, shared : BOOLEAN]
    OBVIOUS
  <2>2. QED BY <2>1 DEF WriteRecord
<1>2. writes' = Append(writes, x) /\ header' = frame /\ writes \in Seq(WriteRecord)
  BY <1>1 DEF Write, FrameInv, TypeOK, WriteRecord
<1>3. /\ Len(writes') = Len(writes) + 1 /\ writes'[Len(writes) + 1] = x
      /\ \A i \in 1 .. Len(writes) : writes'[i] = writes[i]
  BY <1>2
<1>4. x.frame = frame /\ x.shared = (Len(frame.of) <= Inline)
  BY <1>1
<1>5. QED BY <1>2, <1>3, <1>4

\* The first write leaves.
LEMMA WritesShrink ==
    ASSUME FrameInv, WriteDone
    PROVE  /\ Len(writes) \in Nat /\ Len(writes) >= 1 /\ Len(received) \in Nat
           /\ Len(writes') = Len(writes) - 1 /\ Len(received') = Len(received) + 1
           /\ \A i \in 1 .. Len(writes') : writes'[i] = writes[i + 1]
           /\ \A i \in 1 .. Len(received) : received'[i] = received[i]
           /\ received'[Len(received) + 1] = IF writes[1].shared THEN header ELSE writes[1].frame
<1>1. /\ writes \in Seq(WriteRecord) /\ received \in Seq(ServerFrame) /\ header \in ServerFrame
      /\ writes # <<>> /\ writes' = Tail(writes)
      /\ received' = Append(received, IF Head(writes).shared THEN header ELSE Head(writes).frame)
  BY DEF FrameInv, TypeOK, WriteRecord, WriteDone
<1>2. Head(writes) = writes[1] /\ Len(writes) \in Nat /\ Len(writes) >= 1 /\ writes[1] \in WriteRecord
  BY <1>1, EmptySeq
<1>3. PICK x \in ServerFrame : x = IF writes[1].shared THEN header ELSE writes[1].frame
  BY <1>1, <1>2 DEF WriteRecord
<1>4. received' = Append(received, x)
  BY <1>1, <1>2, <1>3
<1>5. /\ Len(received') = Len(received) + 1 /\ Len(received) \in Nat
      /\ received'[Len(received) + 1] = x
      /\ \A i \in 1 .. Len(received) : received'[i] = received[i]
  BY <1>1, <1>4
<1>6. Len(writes') = Len(writes) - 1 /\ \A i \in 1 .. Len(writes') : writes'[i] = writes[i + 1]
  BY <1>1, <1>2
<1>7. QED BY <1>2, <1>3, <1>5, <1>6

\* An answer has its type.
LEMMA GivenType ==
    ASSUME FrameInv, NEW f \in 1 .. Len(sent), HasAnswer(sent[f]),
           sent[f].op \in DataOps \cup {"ping", "close"}
    PROVE  Given(f) \in ServerFrame
<1>1. PICK p \in Seq(Byte) : p = Plain(f)
  BY MessageType
<1>2. Len(p) = sent[f].size /\ sent[f].size \in Nat
  BY <1>1, MessageType
<1>3. Message(f).type = sent[f].op /\ Message(f).data = p
  BY <1>1 DEF Message
<1>4. \A type \in Ops, of \in Seq(Byte) : Reply(type, of) \in ServerFrame
  BY DEF Reply, ServerFrame
<1>5. CASE sent[f].op = "ping"
  BY <1>3, <1>4, <1>5 DEF Given, AnswerTo, Ops, ControlOps
<1>6. CASE sent[f].op = "close"
  <2>1. SubSeq(p, 1, 2) \in Seq(Byte)
    BY <1>2, <1>6 DEF HasAnswer
  <2>2. QED BY <1>3, <1>4, <1>6, <2>1 DEF Given, AnswerTo, Ops, ControlOps
<1>7. CASE sent[f].op \in DataOps
  <2>1. Given(f) = Reply(sent[f].op, p)
    BY <1>3, <1>7 DEF Given, AnswerTo, DataOps
  <2>2. QED BY <1>4, <1>7, <2>1 DEF Ops
<1>8. QED BY <1>5, <1>6, <1>7

LEMMA InitAnswerInv == Init => AnswerInv
<1>1. SUFFICES ASSUME Init PROVE AnswerInv
  OBVIOUS
<1>2. sent = <<>> /\ writes = <<>> /\ received = <<>> /\ buffer \o inbound = <<>>
  BY <1>1 DEF Init
<1>3. Done = 0 /\ Len(received) = 0 /\ Len(writes) = 0
  BY <1>2 DEF Done
<1>4. QED BY <1>2, <1>3 DEF AnswerInv, CountInv, WritesInv, ReceivedInv

LEMMA NextAnswerInv ==
    ASSUME Unfragmented, Answered, MessageInv, AnswerInv, [Next]_vars
    PROVE  AnswerInv'
<1> DEFINE f == FrontFrame
           d == Done
           r == Len(received)
           n == Len(writes)
<1>1. /\ WaitInv /\ FrameInv /\ Fresh /\ HandledInv /\ NothingOpen
      /\ msg \in WSMessage /\ sent \in Seq(FrameKind) /\ Len(sent) \in Nat
      /\ r \in Nat /\ n \in Nat /\ d \in 0 .. Len(sent) /\ closing \in BOOLEAN
      /\ buffer # <<>> => d = f - 1
  <2>1. WaitInv /\ FrameInv /\ NothingOpen /\ Fresh /\ HandledInv
    BY DEF MessageInv, WaitInv
  <2>2. Done \in 0 .. Len(sent) /\ Len(sent) \in Nat /\ (buffer # <<>> => Done = FrontFrame - 1)
    BY <2>1, DoneBefore
  <2>3. QED BY <2>1, <2>2 DEF FrameInv, TypeOK, WSMessage
<1>2. CountInv /\ WritesInv /\ ReceivedInv
  BY DEF AnswerInv
<1>3. ASSUME \A i \in 1 .. d : sent'[i] = sent[i]
      PROVE  \A i \in 1 .. d : Given(i)' = Given(i)
  BY <1>3 DEF Given, AnswerTo, Message, Plain
<1>4. ASSUME UNCHANGED <<received, writes, header>>, Done' = d, \A i \in 1 .. d : sent'[i] = sent[i],
             Stuck => Stuck'
      PROVE  AnswerInv'
  <2>1. CountInv'
    BY <1>2, <1>4 DEF CountInv
  <2>2. WritesInv'
    BY <1>1, <1>2, <1>3, <1>4 DEF WritesInv, InPlace
  <2>3. ReceivedInv'
    BY <1>1, <1>2, <1>3, <1>4 DEF ReceivedInv, InPlace, Spoilt
  <2>4. QED BY <2>1, <2>2, <2>3 DEF AnswerInv
<1>5. ASSUME NEW burst \in Bursts, Send(burst) PROVE AnswerInv'
  <2>1. UNCHANGED <<received, writes, header, closing, buffer>>
    BY <1>5 DEF Send
  <2>2. /\ Done' = d /\ \A i \in 1 .. Len(sent) : sent'[i] = sent[i]
        /\ buffer # <<>> => FrontFrame' = FrontFrame /\ sent'[FrontFrame'] = sent[FrontFrame]
    BY <1>5, SendKeeps
  <2>3. Stuck => Stuck'
    BY <2>1, <2>2 DEF Stuck
  <2>4. QED BY <1>1, <1>4, <2>1, <2>2, <2>3
<1>6. CASE ReadData
  <2>1. UNCHANGED <<received, writes, header, closing, sent>>
    BY <1>6 DEF ReadData
  <2>2. Done' = d /\ (buffer # <<>> => buffer' # <<>> /\ FrontFrame' = FrontFrame)
    BY <1>1, <1>6, ReadKeeps
  <2>3. Stuck => Stuck'
    BY <2>1, <2>2 DEF Stuck
  <2>4. QED BY <1>4, <2>1, <2>2, <2>3
<1>7. CASE Incomplete \/ UNCHANGED vars
  <2>1. UNCHANGED <<sent, inbound, buffer, header, writes, received, closing>>
    BY <1>7 DEF Incomplete, vars
  <2>2. Done' = d /\ (Stuck => Stuck')
    BY <2>1 DEF Done, Stuck, FrontFrame
  <2>3. QED BY <1>4, <2>1, <2>2
<1>8. CASE WriteDone
  <2>1. UNCHANGED <<sent, inbound, buffer, closing, header>>
    BY <1>8 DEF WriteDone
  <2>2. Done' = d /\ (Stuck => Stuck') /\ \A i \in 1 .. d : Given(i)' = Given(i)
    BY <1>3, <2>1 DEF Done, Stuck, FrontFrame
  <2>3. /\ n >= 1 /\ Len(writes') = n - 1 /\ Len(received') = r + 1
        /\ \A i \in 1 .. Len(writes') : writes'[i] = writes[i + 1]
        /\ \A i \in 1 .. r : received'[i] = received[i]
        /\ received'[r + 1] = IF writes[1].shared THEN header ELSE writes[1].frame
    BY <1>1, <1>8, WritesShrink
  <2>4. CountInv'
    BY <1>1, <1>2, <2>2, <2>3 DEF CountInv
  <2>5. WritesInv'
    <3>1. ASSUME NEW i \in 1 .. Len(writes')
          PROVE  /\ InPlace(r + (i + 1), writes[i + 1].frame)
                 /\ writes[i + 1].shared => Len(writes[i + 1].frame.of) <= Inline
                 /\ writes'[i] = writes[i + 1] /\ Len(received') + i = r + (i + 1)
      <4>1. i + 1 \in 1 .. n /\ Len(received') + i = r + (i + 1)
        BY <1>1, <2>3
      <4>2. QED BY <1>2, <2>3, <4>1 DEF WritesInv
    <3>2. ASSUME NEW i \in 1 .. Len(writes')
          PROVE  IF Len(received') + i <= Done' THEN writes'[i].frame = Given(Len(received) + i)'
                 ELSE writes'[i].frame.bad
      <4>1. PICK p \in Nat : p = r + (i + 1) /\ p = Len(received') + i /\ p >= 1
        BY <1>1, <2>3
      <4>2. InPlace(p, writes'[i].frame)
        BY <3>1, <4>1
      <4>3. IF p <= Done' THEN writes'[i].frame = Given(p)' ELSE writes'[i].frame.bad
        BY <1>1, <2>2, <4>1, <4>2 DEF InPlace
      <4>4. Given(Len(received) + i)' = Given(p)'
        BY <4>1 DEF Given, AnswerTo, Message, Plain
      <4>5. QED BY <4>1, <4>3, <4>4
    <3>3. writes' # <<>> => header' = writes'[Len(writes')].frame
      <4>1. SUFFICES ASSUME writes' # <<>> PROVE header' = writes'[Len(writes')].frame
        OBVIOUS
      <4>2. Len(writes') \in 1 .. Len(writes') /\ writes # <<>>
        <5>1. writes \in Seq(WriteRecord) /\ writes # <<>> /\ writes' = Tail(writes)
          BY <1>1, <1>8 DEF WriteDone, FrameInv, TypeOK, WriteRecord
        <5>2. PICK t \in Seq(WriteRecord) : t = writes'
          BY <5>1
        <5>3. Len(t) \in Nat /\ (Len(t) = 0 => t = <<>>)
          OBVIOUS
        <5>4. QED BY <4>1, <5>1, <5>2, <5>3
      <4>3. writes'[Len(writes')] = writes[n]
        BY <1>1, <2>3, <4>2
      <4>4. QED BY <1>2, <2>1, <4>2, <4>3 DEF WritesInv
    <3>4. QED BY <3>1, <3>2, <3>3 DEF WritesInv, InPlace
  <2>6. ReceivedInv'
    <3>1. ASSUME NEW i \in 1 .. r PROVE (InPlace(i, received[i]) \/ Spoilt(i, received[i]))'
      <4>1. InPlace(i, received[i]) \/ Spoilt(i, received[i])
        BY <1>2 DEF ReceivedInv
      <4>2. QED BY <1>1, <2>2, <2>3, <4>1 DEF InPlace, Spoilt
    <3>2. InPlace(r + 1, received'[r + 1]) \/ Spoilt(r + 1, received'[r + 1])
      <4>1. /\ InPlace(r + 1, writes[1].frame)
            /\ writes[1].shared => Len(writes[1].frame.of) <= Inline
            /\ InPlace(r + n, header) /\ r + n >= r + 1
        <5>1. 1 \in 1 .. n /\ n \in 1 .. n /\ r + n >= r + 1
          BY <1>1, <2>3
        <5>2. header = writes[n].frame
          BY <1>2, <1>8 DEF WritesInv, WriteDone
        <5>3. QED BY <1>2, <5>1, <5>2 DEF WritesInv
      <4>2. CASE ~writes[1].shared
        BY <2>3, <4>1, <4>2
      <4>3. CASE writes[1].shared /\ n = 1
        BY <2>3, <4>1, <4>3
      <4>4. CASE writes[1].shared /\ n # 1 /\ r + 1 <= d
        <5>1. Len(Given(r + 1).of) <= Inline
          BY <4>1, <4>4 DEF InPlace
        <5>2. header.bad \/ (r + n \in (r + 1) + 1 .. d /\ header = Given(r + n))
          BY <1>1, <2>3, <4>1, <4>4 DEF InPlace
        <5>3. QED BY <2>3, <4>4, <5>1, <5>2 DEF Spoilt
      <4>5. CASE writes[1].shared /\ ~(r + 1 <= d)
        BY <1>1, <2>3, <4>1, <4>5 DEF InPlace
      <4>6. QED BY <4>2, <4>3, <4>4, <4>5
    <3>3. PICK p \in Nat : p = r + 1 /\ Len(received') = p /\ p >= 1
      BY <1>1, <2>3
    <3>4. (InPlace(p, received[p]) \/ Spoilt(p, received[p]))'
      BY <1>1, <2>2, <3>2, <3>3 DEF InPlace, Spoilt
    <3>5. ASSUME NEW i \in 1 .. Len(received') PROVE (InPlace(i, received[i]) \/ Spoilt(i, received[i]))'
      <4>1. i \in 1 .. r \/ i = p
        BY <1>1, <3>3
      <4>2. QED BY <3>1, <3>4, <4>1
    <3>6. QED BY <3>5 DEF ReceivedInv
  <2>7. QED BY <2>4, <2>5, <2>6 DEF AnswerInv
<1>9. CASE Refuse
  <2>1. /\ pc = "ws"
        /\ BadHead(sent[f]) \/ BadFrame(msg, sent[f])
        /\ UNCHANGED <<sent, inbound, buffer, received, closing>>
    BY <1>9 DEF Refuse
  <2>2. buffer # <<>> /\ FrontFrame' = FrontFrame /\ Done' = d
    <3>1. buffer # <<>>
      BY <1>1, <2>1 DEF FrameInv, AtWork
    <3>2. FrontFrame' = FrontFrame /\ Done' = Done
      BY <2>1 DEF FrontFrame, Done
    <3>3. QED BY <3>1, <3>2
  <2>3. f \in Number /\ sent[f] \in FrameKind /\ sent[f].size \in Nat /\ buffer \o inbound # <<>>
    BY <1>1, <2>2, AtFront
  <2>4. ~closing
    BY <1>1, <2>3 DEF Fresh
  <2>5. ~Sane(sent[f])
    <3>1. SUFFICES ASSUME Sane(sent[f]), BadFrame(msg, sent[f]) PROVE FALSE
      BY <2>1 DEF Sane
    <3>2. ~msg.msContinue
      BY <1>1 DEF NothingOpen
    <3>3. ~(sent[f].size > MaxControl) \/ ~(sent[f].size <= MaxControl)
      BY <2>3, WebSocketAssumption
    <3>4. QED BY <3>1, <3>2, <3>3 DEF Sane, BadFrame, DataOps, ControlOps
  <2>6. PICK type \in Ops : type = Typed(msg, sent[f]).messageType
    BY <1>1, <2>3, ParsedType DEF WSMessage
  <2>7. PICK frame \in ServerFrame : frame = BadRequest(type) /\ frame.bad /\ frame.of = <<>>
    <3>1. BadRequest(type) \in ServerFrame /\ BadRequest(type).bad /\ BadRequest(type).of = <<>>
      BY EmptySeq DEF BadRequest, ServerFrame
    <3>2. QED BY <3>1
  <2>8. Write(frame)
    BY <1>9, <2>6, <2>7 DEF Refuse
  <2>9. /\ Len(writes') = n + 1 /\ header' = frame
        /\ \A i \in 1 .. n : writes'[i] = writes[i]
        /\ writes'[n + 1].frame = frame
        /\ writes'[n + 1].shared = (Len(frame.of) <= Inline)
    BY <1>1, <2>8, WritesGrow
  <2>10. \A i \in 1 .. d : Given(i)' = Given(i)
    BY <1>3, <2>1
  <2>11. CountInv'
    <3>1. Stuck'
      BY <2>1, <2>2, <2>4, <2>5 DEF Stuck
    <3>2. Done' <= Len(received') + Len(writes')
      BY <1>1, <1>2, <2>1, <2>2, <2>9 DEF CountInv
    <3>3. QED BY <3>1, <3>2 DEF CountInv
  <2>12. WritesInv'
    <3>1. ASSUME NEW i \in 1 .. n
          PROVE  (InPlace(Len(received) + i, writes[i].frame)
                  /\ (writes[i].shared => Len(writes[i].frame.of) <= Inline))'
      <4>1. PICK p \in Nat : p = r + i /\ p >= 1
        BY <1>1
      <4>2. InPlace(p, writes[i].frame) /\ (writes[i].shared => Len(writes[i].frame.of) <= Inline)
        BY <1>2, <4>1 DEF WritesInv
      <4>3. (InPlace(p, writes[i].frame) /\ (writes[i].shared => Len(writes[i].frame.of) <= Inline))'
        BY <1>1, <2>2, <2>9, <2>10, <4>1, <4>2 DEF InPlace
      <4>4. p = Len(received') + i
        BY <2>1, <4>1
      <4>5. QED BY <4>3, <4>4 DEF InPlace, Given, AnswerTo, Message, Plain
    <3>2. ~(Len(received') + (n + 1) <= Done')
      BY <1>1, <1>2, <2>1, <2>2 DEF CountInv
    <3>3. PICK m \in Nat : m = n + 1
      BY <1>1
    <3>4. (InPlace(Len(received) + m, writes[m].frame)
           /\ (writes[m].shared => Len(writes[m].frame.of) <= Inline))'
      BY <2>7, <2>9, <3>2, <3>3 DEF InPlace
    <3>5. header' = writes'[Len(writes')].frame
      BY <2>9
    <3>6. ASSUME NEW i \in 1 .. Len(writes') PROVE i \in 1 .. n \/ i = m
      BY <1>1, <2>9, <3>3
    <3>7. QED BY <3>1, <3>4, <3>5, <3>6 DEF WritesInv
  <2>13. ReceivedInv'
    BY <1>1, <1>2, <2>1, <2>2, <2>10 DEF ReceivedInv, InPlace, Spoilt
  <2>14. QED BY <2>11, <2>12, <2>13 DEF AnswerInv
<1>10. ~Fragment
  <2>1. Fragment => Accepts(FrontFrame) /\ Parsed(msg, FrontFrame).msContinue
    BY DEF Fragment
  <2>2. QED BY <1>1, <2>1, OpensNothing
<1>11. CASE Handle \/ Control
  <2>1. /\ f \in 1 .. Len(sent) /\ d = f - 1 /\ Done' = f /\ Sane(sent[f]) /\ ~closing
        /\ sent[f].op \in DataOps \cup {"ping", "close"}
        /\ Write(Given(f)) /\ sent' = sent /\ received' = received
    BY <1>11, Takes DEF Given
  <2>2. r + n = d
    BY <1>1, <1>2, <2>1 DEF CountInv, Stuck
  <2>3. Given(f) \in ServerFrame
    BY <1>1, <2>1, GivenType DEF MessageInv, SentInv
  <2>4. /\ Len(writes') = n + 1 /\ header' = Given(f)
        /\ \A i \in 1 .. n : writes'[i] = writes[i]
        /\ writes'[n + 1].frame = Given(f)
        /\ writes'[n + 1].shared = (Len(Given(f).of) <= Inline)
    BY <1>1, <2>1, <2>3, WritesGrow
  <2>5. \A i : Given(i)' = Given(i)
    BY <2>1 DEF Given, AnswerTo, Message, Plain
  <2>6. Done' = d + 1
    BY <2>1
  <2>7. CountInv'
    BY <1>1, <2>1, <2>2, <2>4 DEF CountInv
  <2>8. WritesInv'
    <3>1. ASSUME NEW i \in 1 .. n
          PROVE  /\ Len(received') + i <= Done' /\ writes'[i].frame = Given(Len(received') + i)
                 /\ writes'[i].shared => Len(writes'[i].frame.of) <= Inline
      <4>1. r + i <= d /\ Len(received') + i = r + i
        BY <1>1, <2>1, <2>2
      <4>2. InPlace(r + i, writes[i].frame) /\ (writes[i].shared => Len(writes[i].frame.of) <= Inline)
        BY <1>2 DEF WritesInv
      <4>3. QED BY <1>1, <2>4, <2>6, <4>1, <4>2 DEF InPlace
    <3>2. /\ Len(received') + (n + 1) = f /\ f <= Done'
          /\ writes'[n + 1].frame = Given(Len(received') + (n + 1))
          /\ writes'[n + 1].shared => Len(writes'[n + 1].frame.of) <= Inline
      <4>1. Len(received') + (n + 1) = f /\ f <= Done'
        BY <1>1, <2>1, <2>2
      <4>2. QED BY <2>4, <4>1
    <3>3. ASSUME NEW i \in 1 .. Len(writes')
          PROVE  /\ Len(received') + i <= Done' /\ writes'[i].frame = Given(Len(received') + i)
                 /\ writes'[i].shared => Len(writes'[i].frame.of) <= Inline
      <4>1. i \in 1 .. n \/ i = n + 1
        BY <1>1, <2>4
      <4>2. QED BY <3>1, <3>2, <4>1
    <3>4. header' = writes'[Len(writes')].frame
      BY <2>4
    <3>5. \A i : (Given(Len(received) + i))' = Given(Len(received') + i)
      BY <2>1 DEF Given, AnswerTo, Message, Plain
    <3>6. QED BY <3>3, <3>4, <3>5 DEF WritesInv, InPlace
  <2>9. ReceivedInv'
    <3>1. ASSUME NEW i \in 1 .. r PROVE (InPlace(i, received[i]) \/ Spoilt(i, received[i]))'
      <4>1. InPlace(i, received[i]) \/ Spoilt(i, received[i])
        BY <1>2 DEF ReceivedInv
      <4>2. i <= d /\ i <= Done'
        BY <1>1, <2>2, <2>6
      <4>3. CASE received[i] = Given(i)
        BY <2>1, <2>5, <4>2, <4>3 DEF InPlace
      <4>4. CASE Spoilt(i, received[i])
        <5>1. \A j \in i + 1 .. d : j \in i + 1 .. d + 1
          BY <1>1
        <5>2. QED BY <2>1, <2>5, <2>6, <4>2, <4>4, <5>1 DEF Spoilt
      <4>5. QED BY <4>1, <4>2, <4>3, <4>4 DEF InPlace
    <3>2. QED BY <2>1, <3>1 DEF ReceivedInv
  <2>10. QED BY <2>7, <2>8, <2>9 DEF AnswerInv
<1>12. QED
  BY <1>5, <1>6, <1>7, <1>8, <1>9, <1>10, <1>11 DEF Next

\* Every write is the answer in its place, or what was built in the array since.
THEOREM InvarianceOfAnswers ==
    ASSUME Unfragmented, Answered PROVE Spec => [](MessageInv /\ AnswerInv)
<1>1. Init => MessageInv /\ AnswerInv
  BY InitMessageInv, InitAnswerInv
<1>2. MessageInv /\ AnswerInv /\ [Next]_vars => (MessageInv /\ AnswerInv)'
  BY NextMessageInv, NextAnswerInv
<1>3. QED BY <1>1, <1>2, PTL DEF Spec

\* The echo, the pong or the close frame of each message is the write in its
\* place, whatever its size: with its data when it does not fit into the array
\* that the heads are built in, and otherwise unless a later frame was built
\* there before the library took it.  A client that waits for each answer before
\* it sends the next message gets them all.
THEOREM ClientIsAnswered ==
    ASSUME Unfragmented, Answered PROVE Spec => []AnswersInOrder
<1>1. MessageInv /\ AnswerInv => AnswersInOrder
  <2>1. SUFFICES ASSUME MessageInv, AnswerInv, NEW i \in DOMAIN received
                 PROVE  IF i \in DOMAIN Answers
                        THEN \/ received[i] = Answers[i]
                             \/ /\ Len(Answers[i].of) <= Inline
                                /\ received[i].bad \/ \E j \in i + 1 .. Len(Answers) : received[i] = Answers[j]
                        ELSE received[i].bad
    BY DEF AnswersInOrder
  <2> DEFINE M == [type : Ops, data : Seq(Byte)]
  <2>2. FrameInv /\ CountInv /\ ReceivedInv
    BY <2>1 DEF MessageInv, WaitInv, AnswerInv
  <2>3. i \in 1 .. Len(received) /\ Len(received) \in Nat /\ Len(writes) \in Nat
    BY <2>1, <2>2 DEF FrameInv, TypeOK
  <2>4. Cut \in Seq(M)
    BY <2>1, CutComesFirst
  <2>5. PICK u \in Seq(M) : Messages = Cut \o u
    BY <2>1, CutComesFirst
  <2>6. Done \in 0 .. Len(sent) /\ Len(sent) \in Nat /\ Len(u) \in Nat
    BY <2>2, <2>5, DoneBefore
  <2>7. Len(Cut) = Done /\ \A j \in 1 .. Done : Cut[j] = Message(j)
    <3>1. DOMAIN Cut = 1 .. Done /\ \A j \in 1 .. Done : Cut[j] = Message(j)
      BY DEF Cut
    <3>2. DOMAIN Cut = 1 .. Len(Cut) /\ Len(Cut) \in Nat
      BY <2>4
    <3>3. QED BY <2>6, <3>1, <3>2
  <2>8. /\ DOMAIN Messages = 1 .. Done + Len(u) /\ \A j \in 1 .. Done : Messages[j] = Message(j)
        /\ Messages = Cut => DOMAIN Messages = 1 .. Done
    <3>1. PICK c \in Seq(M) : c = Cut
      BY <2>4
    <3> HIDE DEF M
    <3>2. DOMAIN (c \o u) = 1 .. Len(c) + Len(u) /\ \A j \in 1 .. Len(c) : (c \o u)[j] = c[j]
      OBVIOUS
    <3>3. DOMAIN c = 1 .. Len(c)
      OBVIOUS
    <3>4. QED BY <2>5, <2>7, <3>1, <3>2, <3>3
  <2>9. /\ DOMAIN Answers = DOMAIN Messages
        /\ \A j \in 1 .. Done : Answers[j] = Given(j)
    <3>1. \A j \in 1 .. Done : j \in DOMAIN Messages
      BY <2>6, <2>8
    <3>2. QED BY <2>8, <3>1 DEF Answers, Given
  <2>10. Len(Answers) = Done + Len(u)
    <3>1. Answers = [j \in 1 .. Done + Len(u) |-> AnswerTo(Messages[j])] /\ Done + Len(u) \in Nat
      BY <2>6, <2>8 DEF Answers
    <3>2. QED BY <3>1
  <2>11. InPlace(i, received[i]) \/ Spoilt(i, received[i])
    BY <2>2, <2>3 DEF ReceivedInv
  <2>12. CASE i <= Done
    <3>1. i \in DOMAIN Answers /\ Answers[i] = Given(i)
      BY <2>3, <2>6, <2>8, <2>9, <2>12
    <3>2. CASE InPlace(i, received[i])
      BY <2>12, <3>1, <3>2 DEF InPlace
    <3>3. CASE Spoilt(i, received[i])
      <4>1. ASSUME NEW j \in i + 1 .. Done PROVE j \in i + 1 .. Len(Answers) /\ Answers[j] = Given(j)
        BY <2>3, <2>6, <2>9, <2>10
      <4>2. QED BY <3>1, <3>3, <4>1 DEF Spoilt
    <3>4. QED BY <2>11, <3>2, <3>3
  <2>13. CASE ~(i <= Done)
    <3>1. received[i].bad
      BY <2>11, <2>13 DEF InPlace, Spoilt
    <3>2. Stuck
      BY <2>2, <2>3, <2>6, <2>13 DEF CountInv
    <3>3. Done < Len(sent) /\ ~Sane(sent[Done + 1])
      <4>1. Done = FrontFrame - 1 /\ FrontFrame \in 1 .. Len(sent) /\ ~Sane(sent[FrontFrame])
        BY <2>2, <3>2, AtFront, DoneBefore DEF Stuck
      <4>2. Done + 1 = FrontFrame
        BY <2>6, <4>1
      <4>3. QED BY <2>6, <4>1, <4>2
    <3>4. i \notin DOMAIN Answers
      <4>1. DOMAIN Answers = 1 .. Done
        BY <2>1, <2>8, <2>9, <3>3, CutComesFirst
      <4>2. QED BY <2>13, <4>1
    <3>5. QED BY <3>1, <3>4
  <2>14. QED BY <2>12, <2>13
<1>2. QED BY <1>1, InvarianceOfAnswers, PTL
=============================================================================
