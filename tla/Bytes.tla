-------------------------------- MODULE Bytes --------------------------------
(***************************************************************************)
(* Bytes and the conversions of src/bytesconv.go.  A byte is the string of *)
(* its character; a backquote, which TLA+ does not allow in a string, and  *)
(* what is not printable are the string of "x" and their number.           *)
(***************************************************************************)
EXTENDS Integers, Sequences, SequencesExt, TLC

\* The bytes of a string of TLA+.
B(s) == [i \in 1 .. Len(s) |-> SubSeq(s, i, i)]

Printable == B(" !\"#$%&'()*+,-./0123456789:;<=>?@ABCDEFGHIJKLMNOPQRSTUVWXYZ[\\]^_")
               \o <<"x96">> \o B("abcdefghijklmnopqrstuvwxyz{|}~")

Char == 9 :> "\t" @@ 10 :> "\n" @@ 13 :> "\r" @@ [n \in 32 .. 126 |-> Printable[n - 31]]
          @@ [n \in 0 .. 255 |-> "x" \o ToString(n)]
Byte == Range(Char)
Code == "\n" :> 10 @@ [c \in Byte |-> CHOOSE n \in 0 .. 255 : Char[n] = c]

CR   == "\r"
LF   == "\n"
CRLF == <<CR, LF>>

Lowers == {Char[n] : n \in 97 .. 122}
Uppers == {Char[n] : n \in 65 .. 90}
Digits == {Char[n] : n \in 48 .. 57}

\* toLowerTable and toUpperTable.
ToLower == [c \in Uppers |-> Char[Code[c] + 32]] @@ [c \in Byte |-> c]
ToUpper == [c \in Lowers |-> Char[Code[c] - 32]] @@ [c \in Byte |-> c]

Lowercase(b) == [i \in DOMAIN b |-> ToLower[b[i]]]

\* c|0x20, and comparison without case.
Or0x20 == [c \in {Char[n] : n \in {m \in 0 .. 255 : (m \div 32) % 2 = 0}} |-> Char[Code[c] + 32]]
            @@ [c \in Byte |-> c]
SameButCase(a, b) == Len(a) = Len(b) /\ \A i \in DOMAIN a : Or0x20[a[i]] = Or0x20[b[i]]

\* caseInsensitiveContain.
ContainsButCase(a, b) ==
    \E i \in 0 .. Len(a) - Len(b) : SameButCase(SubSeq(a, i + 1, i + Len(b)), b)

\* Where b occurs in a first, or last, counted from 1; 0 when it does not.
Occurrences(a, b) == {i \in 1 .. Len(a) - Len(b) + 1 : SubSeq(a, i, i + Len(b) - 1) = b}
Index(a, b)     == IF Occurrences(a, b) = {} THEN 0 ELSE Min(Occurrences(a, b))
LastIndex(a, b) == IF Occurrences(a, b) = {} THEN 0 ELSE Max(Occurrences(a, b))

\* Where c occurs in b first, or last; 0 when it does not.
IndexByte(b, c) == SelectInSeq(b, LAMBDA x : x = c)
LastIndexByte(b, c) == SelectLastInSeq(b, LAMBDA x : x = c)

\* What follows the first n bytes; what precedes the bytes from n.
From(b, n) == SubSeq(b, n + 1, Len(b))
Before(b, n) == SubSeq(b, 1, n - 1)

Trim(b, c) ==
    LET i == SelectInSeq(b, LAMBDA x : x # c)
    IN  IF i = 0 THEN <<>> ELSE SubSeq(b, i, SelectLastInSeq(b, LAMBDA x : x # c))

TrimLeft(b, c) == LET i == SelectInSeq(b, LAMBDA x : x # c)
                  IN  IF i = 0 THEN <<>> ELSE From(b, i - 1)
TrimRight(b, c) == SubSeq(b, 1, SelectLastInSeq(b, LAMBDA x : x # c))

\* The pieces of b between the occurrences of c.
Split(b, c) ==
    LET ends == <<0>> \o SelectSeq([i \in DOMAIN b |-> i], LAMBDA i : b[i] = c) \o <<Len(b) + 1>>
    IN  [k \in 1 .. Len(ends) - 1 |-> SubSeq(b, ends[k] + 1, ends[k + 1] - 1)]
-----------------------------------------------------------------------------
(***************************************************************************)
(* Numbers.                                                                *)
(***************************************************************************)
\* The width of int where it does not matter: enough for the numbers of a message.
IntSize == 28

\* A signed integer of w bits.
Wrap(n, w) == LET m == n % (2^w) IN IF m >= 2^(w - 1) THEN m - 2^w ELSE m

\* AppendUint, for what it is called with: n >= 0.
AppendUint(n) ==
    LET digits[k \in Nat] == IF k < 10 THEN <<Char[48 + k]>>
                             ELSE digits[k \div 10] \o <<Char[48 + (k % 10)]>>
    IN  digits[n]

\* parseUintBuf with integers of w bits: the number, the bytes read and whether
\* there is no error.
ParseUintBuf(b, w) ==
    LET digit(i) == IF b[i] \in Digits THEN Code[b[i]] - 48 ELSE 10
        read[i \in 0 .. Len(b)] ==
            IF i = 0 THEN [v |-> 0, n |-> 0, ok |-> TRUE]
            ELSE LET r    == read[i - 1]
                     vNew == Wrap(10 * r.v + digit(i), w)
                 IN  IF r.n < i - 1 THEN r
                     ELSE IF digit(i) > 9 THEN [r EXCEPT !.v = IF i = 1 THEN -1 ELSE @, !.ok = i > 1]
                     ELSE IF vNew < r.v THEN [r EXCEPT !.v = -1, !.ok = FALSE]
                     ELSE [v |-> vNew, n |-> i, ok |-> TRUE]
    IN  IF b = <<>> THEN [v |-> -1, n |-> 0, ok |-> FALSE] ELSE read[Len(b)]

\* ParseUint: all of b is the number.
ParseUint(b, w) ==
    LET r == ParseUintBuf(b, w)
    IN  IF r.n # Len(b) THEN [v |-> -1, ok |-> FALSE] ELSE [v |-> r.v, ok |-> r.ok]

Upperhex == [k \in 0 .. 9 |-> Char[48 + k]] @@ [k \in 10 .. 15 |-> Char[55 + k]]

\* hex2intTable: 16 for what is no hexadecimal digit.
Hex2int == [c \in {c \in Byte : ToUpper[c] \in Range(Upperhex)} |->
                CHOOSE k \in 0 .. 15 : Upperhex[k] = ToUpper[c]]
           @@ [c \in Byte |-> 16]
-----------------------------------------------------------------------------
(***************************************************************************)
(* Escaping.                                                               *)
(***************************************************************************)
Alphanumeric == Lowers \cup Uppers \cup Digits

Escaped(c) == <<"%", Upperhex[Code[c] \div 16], Upperhex[Code[c] % 16]>>

\* appendQuotedPath and AppendQuotedArg with their tables.
QuotedPath(b) ==
    IF b = <<"*">> THEN b
    ELSE FlattenSeq([i \in DOMAIN b |->
        IF b[i] \in Alphanumeric \cup {"-", "_", ".", "~", "$", "&", "+", ",", "/", ":", ";", "=", "@"}
        THEN <<b[i]>> ELSE Escaped(b[i])])

QuotedArg(b) ==
    FlattenSeq([i \in DOMAIN b |->
        IF b[i] = " " THEN <<"+">>
        ELSE IF b[i] \in Alphanumeric \cup {"-", "_", ".", "~"} THEN <<b[i]>>
        ELSE Escaped(b[i])])

\* decodeArgAppend, and with plus = FALSE decodeArgAppendNoPlus: an escape that is
\* cut short ends the decoding, one that is no escape stays as it is.
Unquoted(b, plus) ==
    LET decode[i \in 1 .. Len(b) + 1] ==
            IF i > Len(b) THEN <<>>
            ELSE IF b[i] = "%"
            THEN IF i + 2 > Len(b) THEN From(b, i - 1)
                 ELSE IF 16 \in {Hex2int[b[i + 1]], Hex2int[b[i + 2]]} THEN <<"%">> \o decode[i + 1]
                 ELSE <<Char[16 * Hex2int[b[i + 1]] + Hex2int[b[i + 2]]]>> \o decode[i + 3]
            ELSE <<IF plus /\ b[i] = "+" THEN " " ELSE b[i]>> \o decode[i + 1]
    IN  decode[1]
=============================================================================
