------------------------------ MODULE ConfigFile ------------------------------
(***************************************************************************)
(* The two configuration files of the library, read line by line: the      *)
(* rules of a limiter (ParseRegexLimiter of src/limiter.go) and the        *)
(* services of a proxy (ParseProxyConfig of src/proxy_config.go).  Both    *)
(* alternate between a line that is a regular expression and a line that   *)
(* is its value.                                                           *)
(***************************************************************************)
EXTENDS Integers, Sequences, SequencesExt, Subsequence

\* A line after TrimSpace, by what the parsers ask of it: `compiles' for
\* regexp.Compile, `numeric' when ParseInt finds a number of 32 bits.
Line == [text : STRING, compiles : BOOLEAN, numeric : BOOLEAN, number : Int]

\* A file; `ended' when its last line has a newline.
File == [lines : Seq(Line), ended : BOOLEAN]

\* ReadString('\n') returns io.EOF with what an unfinished line holds: the loop
\* ends without looking at it.
CompleteLines(file) ==
    IF file.ended \/ file.lines = <<>> THEN file.lines ELSE Front(file.lines)

\* The text of a blank line.
NoText == ""

Start == [readRegex |-> TRUE, rexp |-> "nil", rules |-> <<>>, error |-> FALSE]

\* A limit is a number; any text is an address.
IsValue(line, limits) == limits => line.numeric

\* Mutant: a blank line is a line.
EveryLine(s, line, limits) ==
    IF s.error THEN s
    ELSE IF s.readRegex
         THEN [s EXCEPT !.rexp = line.text, !.readRegex = ~line.compiles, !.error = ~line.compiles]
         ELSE [s EXCEPT !.rules = IF IsValue(line, limits) THEN Append(@, <<s.rexp, line>>) ELSE @,
                        !.readRegex = IsValue(line, limits), !.error = ~IsValue(line, limits)]

\* One round of the loop.  The first error ends it.
ReadLine(s, line, limits) ==
    IF s.error \/ line.text = NoText THEN s
    ELSE IF s.readRegex
         THEN [s EXCEPT !.rexp = line.text, !.readRegex = ~line.compiles, !.error = ~line.compiles]
         ELSE [s EXCEPT !.rules = IF IsValue(line, limits) THEN Append(@, <<s.rexp, line>>) ELSE @,
                        !.readRegex = IsValue(line, limits), !.error = ~IsValue(line, limits)]

ReadRules(file, limits) ==
    LET lines == CompleteLines(file)
        read[n \in 0 .. Len(lines)] ==
          IF n = 0 THEN Start ELSE ReadLine(read[n - 1], lines[n], limits)
    IN  read[Len(lines)]

\* The rules of a limiter: regexp and limit; or that the file has an error.
ParseRegexLimiter(file) ==
    LET s == ReadRules(file, TRUE)
    IN  [error |-> s.error,
         rules |-> IF s.error THEN <<>>
                   ELSE [k \in DOMAIN s.rules |->
                           [regexp |-> s.rules[k][1], limits |-> s.rules[k][2].number]]]

\* The services of a proxy.
ParseProxyConfig(file) ==
    LET s == ReadRules(file, FALSE)
    IN  [error |-> s.error,
         services |-> IF s.error THEN <<>>
                      ELSE [k \in DOMAIN s.rules |->
                              [regexp |-> s.rules[k][1], address |-> s.rules[k][2].text]]]

\* The first rule whose regexp is one of those that match a path, or 0.
FirstMatch(rules, regexps) == SelectInSeq(rules, LAMBDA r : r.regexp \in regexps)
=============================================================================
