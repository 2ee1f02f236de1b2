--------------------------------- MODULE Query ---------------------------------
(***************************************************************************)
(* Query arguments of src/args.go as bytes: the scanner, the decoder and   *)
(* the encoder.                                                            *)
(***************************************************************************)
EXTENDS Bytes, ArgsList

QueryArg(key, value, noValue) == [key |-> key, value |-> value, noValue |-> noValue]

\* argsScanner.next on b # <<>>: up to the first "&", a key and after the first
\* "=" a value.
ScanArg(part) ==
    LET eq == IndexByte(part, "=")
    IN  IF eq = 0 THEN QueryArg(Unquoted(part, TRUE), <<>>, TRUE)
        ELSE QueryArg(Unquoted(Before(part, eq), TRUE), Unquoted(From(part, eq), TRUE), FALSE)

NextArg(b) ==
    LET end == IF IndexByte(b, "&") = 0 THEN Len(b) + 1 ELSE IndexByte(b, "&")
    IN  [arg |-> ScanArg(Before(b, end)), rest |-> From(b, end)]

\* ParseBytes: what has neither key nor value leaves its place to the next.
Kept(arg) == IF arg.key # <<>> \/ arg.value # <<>> THEN <<arg>> ELSE <<>>

ParseArgs(b) ==
    LET parse[n \in 0 .. Len(b)] ==             \* the last n bytes
            LET s == NextArg(From(b, Len(b) - n))
            IN  IF n = 0 THEN <<>> ELSE Kept(s.arg) \o parse[Len(s.rest)]
    IN  parse[Len(b)]

\* AppendBytes.
AppendArgs(args) ==
    FlattenSeq([i \in DOMAIN args |->
        (IF i = 1 THEN <<>> ELSE <<"&">>) \o QuotedArg(args[i].key)
          \o (IF args[i].noValue THEN <<>> ELSE <<"=">> \o QuotedArg(args[i].value))])

\* SetUint and GetUint with integers of w bits.
UintArg(key, n) == QueryArg(key, AppendUint(n), FALSE)
GetUint(args, key, w) ==
    LET value == PeekArg(args, key, <<>>)
    IN  IF value = <<>> THEN [v |-> -1, ok |-> FALSE] ELSE ParseUint(value, w)
=============================================================================
