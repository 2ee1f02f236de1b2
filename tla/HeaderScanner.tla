---------------------------- MODULE HeaderScanner ----------------------------
(***************************************************************************)
(* How the header of a message is found and cut into keys and values: the  *)
(* matcher of the end of a header or of chunks in procHeader (src/proc.go, *)
(* src/proxy.go) and procBody (src/proxy.go), the first line and the       *)
(* scanner of src/header.go.  Positions are counted from 0, as there; -1   *)
(* is for none.                                                            *)
(***************************************************************************)
EXTENDS Bytes

HeaderEndFlag    == CRLF \o CRLF
ChunkDataEndFlag == <<"0">> \o CRLF \o CRLF

Position(b, c) == IndexByte(b, c) - 1
-----------------------------------------------------------------------------
(***************************************************************************)
(* The end of a header, or of chunks.                                      *)
(***************************************************************************)
\* Mutant: after a mismatch the matcher is where it was.
CompareOn(m, c, flag) ==
    IF m.found THEN m
    ELSE IF c = flag[m.expectedChar + 1]
         THEN [expectedChar |-> m.expectedChar + 1, found |-> m.expectedChar + 1 = Len(flag)]
         ELSE m

\* One byte: the byte that does not match is not tried as the flag's first.
Compare(m, c, flag) ==
    IF m.found THEN m
    ELSE IF c = flag[m.expectedChar + 1]
         THEN [expectedChar |-> m.expectedChar + 1, found |-> m.expectedChar + 1 = Len(flag)]
         ELSE [expectedChar |-> 0, found |-> FALSE]

Unmatched == [expectedChar |-> 0, found |-> FALSE]

\* The scan goes on with the bytes of a read where the last one stopped.
Match(m, b, flag) ==
    LET after[i \in 0 .. Len(b)] == IF i = 0 THEN m ELSE Compare(after[i - 1], b[i], flag)
    IN  after[Len(b)]
-----------------------------------------------------------------------------
(***************************************************************************)
(* The first line.                                                         *)
(***************************************************************************)
\* A line without the CR at its end.
WithoutCR(b) == IF b # <<>> /\ Last(b) = CR THEN Front(b) ELSE b

\* nextLine, and the loop that skips empty lines: the first line that is not empty, if
\* it has an end, and the size of all up to there.
FirstLine(b) ==
    LET lf(k)  == IndexByte(From(b, k), LF)
        starts == {k \in 0 .. Len(b) : k = 0 \/ b[k] = LF}
        found  == [k \in starts |-> [ok |-> TRUE, size |-> k + lf(k),
                                     line |-> WithoutCR(Before(From(b, k), lf(k)))]]
        lines  == {k \in starts : lf(k) # 0 /\ found[k].line # <<>>}
    IN  IF lines = {} THEN [ok |-> FALSE] ELSE found[Min(lines)]

HTTP11 == B("HTTP/1.1")
HTTP10 == B("HTTP/1.0")

\* RequestHeader.parseFirstLine: what follows the method, and all of it.  The path
\* keeps the "?" of the query.
RequestTarget(rest, n) ==
    LET uri   == IF n < 0 THEN rest ELSE SubSeq(rest, 1, n)
        q     == LastIndexByte(uri, "?")
        proto == IF n < 0 THEN HTTP10 ELSE From(rest, n + 1)
    IN  [ok |-> n # 0, requestURI |-> uri, path |-> IF q > 0 THEN SubSeq(uri, 1, q) ELSE uri,
         proto |-> proto, noHTTP11 |-> proto # HTTP11]

RequestFields(line) ==
    LET m    == Position(line, " ")
        rest == From(line, m + 1)
    IN  IF m <= 0 THEN [ok |-> FALSE]
        ELSE RequestTarget(rest, LastIndexByte(rest, " ") - 1) @@ [method |-> SubSeq(line, 1, m)]

\* ResponseHeader.parseFirstLine.
StatusFields(line) ==
    LET m    == Position(line, " ")
        rest == From(line, m + 1)
        code == ParseUintBuf(rest, IntSize)
    IN  IF m < 0 \/ ~code.ok \/ (Len(rest) > code.n /\ rest[code.n + 1] # " ")
        THEN [ok |-> FALSE]
        ELSE [ok |-> TRUE, statusCode |-> code.v, noHTTP11 |-> SubSeq(line, 1, m) # HTTP11]
-----------------------------------------------------------------------------
(***************************************************************************)
(* headerScanner: `b' is what is not scanned, `hLen' the bytes that were.  *)
(* A value of several lines is made one in place, which moves what follows *)
(* and leaves at the end of the buffer a second copy of its last bytes,    *)
(* `junk'.  nextColon and nextNewLine are known from the search for a      *)
(* value's last line.                                                      *)
(***************************************************************************)
StartScan(b) == [b |-> b, junk |-> <<>>, hLen |-> 0, key |-> <<>>, value |-> <<>>,
                 nextColon |-> -1, nextNewLine |-> -1, more |-> TRUE, err |-> FALSE]

Fail(s) == [s EXCEPT !.more = FALSE, !.err = TRUE]

\* normalizeHeaderKey: a dash but the first byte raises the byte after it, which is
\* then not looked at, so that of a row of dashes every second one counts.
NormalizeKey(key) ==
    LET dashes(i) == LET b == SubSeq(key, 2, i - 1)
                     IN  Len(b) - SelectLastInSeq(b, LAMBDA c : c # "-")
    IN  [i \in DOMAIN key |->
            IF i = 1 \/ (key[i - 1] = "-" /\ dashes(i) % 2 = 1) THEN ToUpper[key[i]]
            ELSE ToLower[key[i]]]

\* The last byte of a value that begins in b and whose first line ends at n: the
\* lines that begin with a space and have no colon go on with it.
FoldedLines(b, n) ==
    LET size(k)   == Position(From(b, k + 1), LF)
        line(k)   == SubSeq(b, k + 2, k + 1 + size(k))
        goesOn(k) == k + 1 < Len(b) /\ b[k + 2] \in {" ", "\t"} /\ size(k) > 0
        ends   == {k \in n .. Len(b) - 1 : k = n \/ b[k + 1] = LF}
        found  == [k \in ends |->
                      IF ~goesOn(k) THEN [n |-> k, nextColon |-> -1, nextNewLine |-> -1]
                      ELSE [n |-> k, nextColon |-> Position(line(k), ":"),
                            nextNewLine |-> size(k) - Position(line(k), ":") - 1]]
    IN  found[Min({k \in ends : goesOn(k) => ":" \in Range(line(k))})]

\* normalizeHeaderValue's text: ends of lines are left out, a tab that begins a line
\* is a space.
JoinLines(v) ==
    FoldLeft(LAMBDA s, c : IF c \in {CR, LF} THEN [s EXCEPT !.start = @ \/ c = LF]
                           ELSE IF s.start /\ c = "\t" THEN [s EXCEPT !.v = Append(@, " ")]
                           ELSE [v |-> Append(s.v, c), start |-> FALSE],
             [v |-> <<>>, start |-> FALSE], v).v

\* ... and what it does to the rest of the buffer, b being what the value began.
Normalized(s, b) ==
    LET v      == JoinLines(s.value)
        shrunk == Len(s.value) - Len(v)
        rest   == From(b, Len(s.value))
        skip   == IF IsPrefix(CRLF, rest) THEN 2 ELSE IF Head(rest) \in {CR, LF} THEN 1 ELSE 0
    IN  [s EXCEPT !.value = v, !.b = From(rest, skip), !.hLen = @ - shrunk,
                  !.junk = SubSeq(b, Len(b) - shrunk + 1, Len(b)) \o @]

\* Mutant: the end that is known is not moved by the spaces that are skipped.
StaleNewLine(s, b, spaces) == IF s.nextNewLine >= 0 THEN s.nextNewLine ELSE Position(b, LF)

\* The end of the value's first line; it may be known from the value before.
NewLine(s, b, spaces) ==
    IF s.nextNewLine >= spaces THEN s.nextNewLine - spaces ELSE Position(b, LF)

\* b begins with a value whose first line ends at `first' and whose last at end.n.
TakeValue(s, b, first, end) ==
    LET line == WithoutCR(SubSeq(b, 1, end.n))
        next == [s EXCEPT !.value = TrimRight(line, " "), !.b = From(b, end.n + 1),
                          !.hLen = @ + end.n,
                          !.nextColon = end.nextColon, !.nextNewLine = end.nextNewLine]
    IN  IF end.n > first THEN Normalized(next, b) ELSE next

\* The key is what precedes the colon; the value follows it and its spaces.
ScanValue(s, colon) ==
    LET after  == From(s.b, colon + 1)
        b      == TrimLeft(after, " ")
        spaces == Len(after) - Len(b)
        first  == NewLine(s, b, spaces)
    IN  IF first < 0 THEN Fail(s)
        ELSE TakeValue([s EXCEPT !.key = SubSeq(s.b, 1, colon), !.hLen = @ + colon + 2 + spaces],
                       b, first, FoldedLines(b, first))

\* Mutant: an end of line of one byte is taken for one of two.
TwoBytes(b) == IF IsPrefix(CRLF, b) \/ IsPrefix(<<LF>>, b) THEN 2 ELSE 0

\* The bytes of the empty line that b begins with, if there is one.
EmptyLine(b) == IF IsPrefix(CRLF, b) THEN 2 ELSE IF IsPrefix(<<LF>>, b) THEN 1 ELSE 0

\* headerScanner.next: an empty line is the end; a line without a colon is an error.
NextField(s) ==
    LET size  == EmptyLine(s.b)
        colon == IF s.nextColon >= 0 THEN s.nextColon ELSE Position(s.b, ":")
        lf    == Position(s.b, LF)
    IN  IF size > 0 THEN [s EXCEPT !.b = From(@, size), !.hLen = @ + size, !.more = FALSE]
        ELSE IF colon < 0 \/ (s.nextColon < 0 /\ lf < colon) THEN Fail(s)
        ELSE ScanValue(s, colon)

AddField(fields, s) ==
    [end |-> s,
     fields |-> IF s.more THEN Append(fields, [key |-> NormalizeKey(s.key), value |-> s.value])
                ELSE fields]

\* A round of the loop over the fields of a header.
ScanRound(r) == IF r.end.more THEN AddField(r.fields, NextField(r.end)) ELSE r

\* All keys and values of the header that b begins with, in order; every one ends with
\* a line.
Scan(b) ==
    LET rounds == Cardinality({i \in DOMAIN b : b[i] = LF}) + 1
        scan[k \in 0 .. rounds] == IF k = 0 THEN [end |-> StartScan(b), fields |-> <<>>]
                                   ELSE ScanRound(scan[k - 1])
    IN  scan[rounds]

\* What is left in the buffer when the header has been removed from it: a request
\* returns hLen, a response what is no longer before s.b.
RestOfRequest(b, end) ==
    LET buffer == end.b \o end.junk
    IN  From(buffer, end.hLen + Len(buffer) - Len(b))

RestOfResponse(b, end) == From(end.b \o end.junk, Len(end.junk))
-----------------------------------------------------------------------------
(***************************************************************************)
(* Values that are lists.                                                  *)
(***************************************************************************)
\* hasHeaderValue.
HasValue(b, value) ==
    \E i \in DOMAIN Split(b, ",") : SameButCase(Trim(Split(b, ",")[i], " "), value)
=============================================================================
