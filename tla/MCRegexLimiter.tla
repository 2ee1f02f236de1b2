---------------------------- MODULE MCRegexLimiter ----------------------------
(***************************************************************************)
(* Constants of the RegexLimiter runs: the files of a few lines, of which  *)
(* some overlap, some admit nothing and some are mistakes.                 *)
(***************************************************************************)
EXTENDS RegexLimiter

Regexp(text) == [text |-> text, compiles |-> TRUE, numeric |-> FALSE, number |-> 0]
Number(text, n) == [text |-> text, compiles |-> TRUE, numeric |-> TRUE, number |-> n]
Blank   == Regexp("")
Mistake == [Regexp("(") EXCEPT !.compiles = FALSE]

Lines == {Blank, Mistake, Regexp("/log"), Regexp("/l"), Number("0", 0), Number("2", 2)}

AllMatches == [path \in Paths |-> CASE path = "/login" -> {"/log", "/l", ""}
                                    [] path = "/list"  -> {"/l", ""}
                                    [] path = "/free"  -> {""}]

FilesUpTo(n) == [lines : UNION {[1 .. m -> Lines] : m \in 0 .. n}, ended : BOOLEAN]

\* Every file of four lines, and three rules that overlap.
SmallFiles == FilesUpTo(4)
ThreeRules == [lines |-> <<Regexp("/log"), Number("1", 1), Blank, Number("2", 2),
                           Number("0", 0), Regexp("/l"), Number("2", 2)>>, ended |-> TRUE]
TestedFiles == SmallFiles \cup {ThreeRules}

OneRule == {[lines |-> <<Regexp("/log"), Number("1", 1)>>, ended |-> TRUE]}
=============================================================================
