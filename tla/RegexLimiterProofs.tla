-------------------------- MODULE RegexLimiterProofs --------------------------
(***************************************************************************)
(* Theorems about RegexLimiter, for any rules, any paths and any length of *)
(* a second: the types, for any number of agents; and for a limiter with   *)
(* one agent, the file format's promise.  Without a lock the promise holds *)
(* for no other limiter: the run LimiterShared breaks it with two agents.  *)
(***************************************************************************)
EXTENDS RegexLimiter, SequenceLemmas

(***************************************************************************)
(* The parser.  What it makes of the lines it has read, whatever they are. *)
(***************************************************************************)
Rule == [regexp : STRING, limits : Int]
Text == STRING \cup {"nil"}
Reading == [readRegex : BOOLEAN, rexp : Text, rules : Seq(Text \X Line), error : BOOLEAN]
NotBlank == {l \in Line : l.text # NoText}

\* A line that is not what its place asks for.
Misplaced(t, k, limits) ==
    IF k % 2 = 1 THEN ~t[k].compiles ELSE limits /\ ~t[k].numeric

\* The parser's state s after the lines t, which are not blank.
Read(s, t, limits) ==
    /\ s \in Reading
    /\ s.error <=> \E k \in 1 .. Len(t) : Misplaced(t, k, limits)
    /\ ~s.error =>
         /\ s.readRegex <=> Len(t) % 2 = 0
         /\ ~s.readRegex => s.rexp = t[Len(t)].text
         /\ Len(s.rules) = Len(t) \div 2
         /\ \A k \in 1 .. Len(t) \div 2 : s.rules[k] = <<t[2 * k - 1].text, t[2 * k]>>

LEMMA ReadStep ==
    ASSUME NEW limits \in BOOLEAN, NEW s, NEW t \in Seq(Line), Read(s, t, limits), NEW l \in Line
    PROVE  Read(ReadLine(s, l, limits), IF l \in NotBlank THEN Append(t, l) ELSE t, limits)
<1> DEFINE u == Append(t, l)
           n == Len(t)
           r == ReadLine(s, l, limits)
<1>1. /\ n \in Nat /\ Len(u) = n + 1 /\ u[n + 1] = l /\ u \in Seq(Line)
      /\ \A k \in 1 .. n : u[k] = t[k]
  OBVIOUS
<1>2. s \in Reading /\ s.rules \in Seq(Text \X Line) /\ l.text \in Text
      /\ l.compiles \in BOOLEAN /\ l.numeric \in BOOLEAN
  BY DEF Read, Reading, Line, Text
<1>3. CASE l.text = NoText
  <2>1. r = s /\ l \notin NotBlank
    BY <1>3 DEF ReadLine, NotBlank
  <2>2. QED BY <2>1
<1>4. CASE l.text # NoText /\ s.error
  <2>1. r = s /\ l \in NotBlank
    BY <1>4 DEF ReadLine, NotBlank
  <2>2. PICK k \in 1 .. n : Misplaced(t, k, limits)
    BY <1>4 DEF Read
  <2>3. k \in 1 .. n + 1 /\ Misplaced(u, k, limits)
    BY <1>1, <2>2 DEF Misplaced
  <2> HIDE DEF u, n, r
  <2>4. Read(s, u, limits)
    BY <1>1, <1>2, <1>4, <2>3 DEF Read
  <2>5. QED BY <2>1, <2>4 DEF u, r
<1>5. CASE l.text # NoText /\ ~s.error /\ s.readRegex
  <2>1. l \in NotBlank /\ n % 2 = 0 /\ Len(s.rules) = n \div 2
        /\ \A k \in 1 .. n : ~Misplaced(t, k, limits)
    BY <1>5 DEF NotBlank, Read
  <2>2. r = [s EXCEPT !.rexp = l.text, !.readRegex = ~l.compiles, !.error = ~l.compiles]
    BY <1>5 DEF ReadLine
  <2>3. r \in Reading /\ r.rules = s.rules /\ r.rexp = l.text
        /\ r.readRegex = ~l.compiles /\ r.error = ~l.compiles
    BY <1>2, <2>2 DEF Reading
  <2>4. (n + 1) % 2 = 1 /\ (n + 1) \div 2 = n \div 2
    BY <1>1, <2>1
  <2> HIDE DEF u, n, r
  <2>5. \A k \in 1 .. n : Misplaced(u, k, limits) <=> Misplaced(t, k, limits)
    BY <1>1 DEF Misplaced
  <2>6. Misplaced(u, n + 1, limits) <=> ~l.compiles
    BY <1>1, <2>4 DEF Misplaced
  <2>7. r.error <=> \E k \in 1 .. n + 1 : Misplaced(u, k, limits)
    <3>1. n + 1 \in 1 .. n + 1 /\ \A k \in 1 .. n + 1 : k \in 1 .. n \/ k = n + 1
      BY <1>1
    <3>2. (\E k \in 1 .. n + 1 : Misplaced(u, k, limits)) <=> ~l.compiles
      BY <2>1, <2>5, <2>6, <3>1, Zenon
    <3>3. QED BY <2>3, <3>2, Zenon
  <2>8. \A k \in 1 .. n \div 2 : r.rules[k] = <<u[2 * k - 1].text, u[2 * k]>>
    <3> TAKE k \in 1 .. n \div 2
    <3>1. 2 * k - 1 \in 1 .. n /\ 2 * k \in 1 .. n
      BY <1>1
    <3>2. QED BY <1>1, <1>5, <2>3, <3>1 DEF Read, n
  <2>9. ~r.error => ~r.readRegex /\ Len(u) % 2 # 0 /\ r.rexp = u[Len(u)].text
                    /\ Len(r.rules) = Len(u) \div 2 /\ Len(u) \div 2 = n \div 2
    <3>1. Len(u) = n + 1 /\ u[n + 1] = l
      BY <1>1
    <3>2. QED BY <1>2, <2>1, <2>3, <2>4, <3>1
  <2>10. r.error <=> \E k \in 1 .. Len(u) : Misplaced(u, k, limits)
    BY <1>1, <2>7
  <2>11. Read(r, u, limits)
    BY <2>3, <2>8, <2>9, <2>10 DEF Read
  <2>12. QED BY <2>1, <2>11 DEF u, r
<1>6. CASE l.text # NoText /\ ~s.error /\ ~s.readRegex
  <2> DEFINE ok == IsValue(l, limits)
  <2>1. l \in NotBlank /\ n % 2 = 1 /\ Len(s.rules) = n \div 2 /\ s.rexp = t[n].text
        /\ \A k \in 1 .. n : ~Misplaced(t, k, limits)
    BY <1>1, <1>6 DEF NotBlank, Read
  <2>2. ok \in BOOLEAN /\ (ok <=> (limits => l.numeric))
    BY DEF IsValue
  <2>3. r = [s EXCEPT !.rules = IF ok THEN Append(@, <<s.rexp, l>>) ELSE @,
                      !.readRegex = ok, !.error = ~ok]
    BY <1>6 DEF ReadLine
  <2> HIDE DEF u, n, r, ok
  <2>4. s.rexp \in Text /\ <<s.rexp, l>> \in Text \X Line
    BY <1>2 DEF Reading
  <2>5. r.rules = (IF ok THEN Append(s.rules, <<s.rexp, l>>) ELSE s.rules)
        /\ r.readRegex = ok /\ r.error = ~ok /\ r.rexp = s.rexp
    BY <1>2, <2>3 DEF Reading
  <2>6. r \in Reading
    <3>1. Append(s.rules, <<s.rexp, l>>) \in Seq(Text \X Line)
      BY <1>2, <2>4
    <3>2. QED BY <1>2, <2>2, <2>3, <3>1 DEF Reading
  <2>7. (n + 1) % 2 = 0 /\ (n + 1) \div 2 = n \div 2 + 1 /\ 2 * (n \div 2) + 1 = n
    BY <1>1, <2>1
  <2>8. \A k \in 1 .. n : Misplaced(u, k, limits) <=> Misplaced(t, k, limits)
    BY <1>1 DEF Misplaced
  <2>9. Misplaced(u, n + 1, limits) <=> ~ok
    BY SMTT(30), <1>1, <1>2, <2>2, <2>7 DEF Misplaced
  <2>10. r.error <=> \E k \in 1 .. n + 1 : Misplaced(u, k, limits)
    <3>1. n + 1 \in 1 .. n + 1 /\ \A k \in 1 .. n + 1 : k \in 1 .. n \/ k = n + 1
      BY <1>1
    <3>2. (\E k \in 1 .. n + 1 : Misplaced(u, k, limits)) <=> ~ok
      BY <2>1, <2>8, <2>9, <3>1, Zenon
    <3>3. QED BY <2>5, <3>2, Zenon
  <2>11. ASSUME ok PROVE /\ Len(r.rules) = n \div 2 + 1
                        /\ \A k \in 1 .. n \div 2 + 1 : r.rules[k] = <<u[2 * k - 1].text, u[2 * k]>>
    <3> DEFINE h == n \div 2
    <3>1. h \in Nat /\ 2 * h + 1 = n /\ Len(s.rules) = h
      BY <1>1, <2>1, <2>7
    <3>2. \A k \in 1 .. h : s.rules[k] = <<t[2 * k - 1].text, t[2 * k]>>
      BY <1>6 DEF Read, n
    <3> HIDE DEF h
    <3>3. r.rules = Append(s.rules, <<s.rexp, l>>)
      BY <2>5, <2>11
    <3>4. Len(r.rules) = h + 1 /\ r.rules[h + 1] = <<s.rexp, l>>
          /\ \A k \in 1 .. h : r.rules[k] = s.rules[k]
      BY <1>2, <2>4, <3>1, <3>3
    <3>5. ASSUME NEW k \in 1 .. h PROVE r.rules[k] = <<u[2 * k - 1].text, u[2 * k]>>
      <4>1. 2 * k - 1 \in 1 .. n /\ 2 * k \in 1 .. n
        BY <1>1, <3>1
      <4>2. QED BY <1>1, <3>2, <3>4, <4>1
    <3>6. u[2 * (h + 1) - 1] = t[n] /\ u[2 * (h + 1)] = l
      <4>1. 2 * (h + 1) - 1 = n /\ 2 * (h + 1) = n + 1 /\ n \in 1 .. n
        BY <1>1, <3>1
      <4>2. QED BY <1>1, <4>1
    <3>7. \A k \in 1 .. h + 1 : k \in 1 .. h \/ k = h + 1
      BY <3>1
    <3>8. QED BY <2>1, <3>4, <3>5, <3>6, <3>7 DEF h
  <2>12. ~r.error => /\ r.readRegex /\ Len(u) % 2 = 0 /\ Len(r.rules) = Len(u) \div 2
                     /\ \A k \in 1 .. Len(u) \div 2 : r.rules[k] = <<u[2 * k - 1].text, u[2 * k]>>
    <3>1. Len(u) = n + 1
      BY <1>1
    <3>2. QED BY <2>2, <2>5, <2>7, <2>11, <3>1
  <2>13. r.error <=> \E k \in 1 .. Len(u) : Misplaced(u, k, limits)
    BY <1>1, <2>10
  <2>14. Read(r, u, limits)
    BY <2>6, <2>12, <2>13 DEF Read
  <2>15. QED BY <2>1, <2>14 DEF u, r
<1>7. QED BY <1>2, <1>3, <1>4, <1>5, <1>6 DEF Read, Reading

\* The parser has read every line of the file but an unfinished last one.
LEMMA FileRead ==
    ASSUME NEW f \in File, NEW limits \in BOOLEAN
    PROVE  /\ CompleteLines(f) \in Seq(Line)
           /\ Read(ReadRules(f, limits), Only(CompleteLines(f), NotBlank), limits)
<1> DEFINE lines == CompleteLines(f)
           m == Len(lines)
           After(g) == g = [n \in 0 .. m |->
                              IF n = 0 THEN Start ELSE ReadLine(g[n - 1], lines[n], limits)]
           step == [p \in Reading \X Line |-> ReadLine(p[1], p[2], limits)]
<1>1. lines \in Seq(Line) /\ m \in Nat
  <2>1. f.lines \in Seq(Line)
    BY DEF File
  <2>2. f.lines # <<>> => Front(f.lines) \in Seq(Line)
    BY <2>1 DEF Front
  <2>3. QED BY <2>1, <2>2 DEF CompleteLines
<1>2. Start \in Reading /\ step \in [Reading \X Line -> Reading]
  <2>1. Start \in Reading
    <3>1. <<>> \in Seq(Text \X Line)
      BY EmptySeq
    <3>2. QED BY <3>1 DEF Start, Reading, Text
  <2>2. ASSUME NEW s \in Reading, NEW l \in Line PROVE ReadLine(s, l, limits) \in Reading
    <3>1. Append(s.rules, <<s.rexp, l>>) \in Seq(Text \X Line)
      BY DEF Reading
    <3>2. l.compiles \in BOOLEAN /\ l.text \in Text /\ IsValue(l, limits) \in BOOLEAN
      BY DEF Line, IsValue, Text
    <3>3. QED BY <3>1, <3>2 DEF ReadLine, Reading
  <2>3. QED BY <2>1, <2>2
<1>3. \A s \in Reading, l \in Line : step[<<s, l>>] = ReadLine(s, l, limits)
  OBVIOUS
<1>4. \A n \in 1 .. m : lines[n] \in Line
  BY <1>1, ElementOfSeq
<1> HIDE DEF lines, step
<1>5. PICK g : Steps(g, Reading, step, Start, lines, m)
  <2>1. lines \in [1 .. m -> Line]
    BY <1>1
  <2>2. QED BY <1>1, <1>2, <2>1, StepsExist
<1>6. After(g)
  <2> DEFINE h == [n \in 0 .. m |-> IF n = 0 THEN Start ELSE ReadLine(g[n - 1], lines[n], limits)]
  <2>1. \A n \in 0 .. m : g[n] = h[n]
    <3> TAKE n \in 0 .. m
    <3>1. CASE n = 0
      BY <1>5, <3>1 DEF Steps
    <3>2. CASE n # 0
      <4>1. n \in 1 .. m /\ n - 1 \in 0 .. m
        BY <1>1, <3>2
      <4>2. g[n - 1] \in Reading /\ lines[n] \in Line
        BY <1>4, <1>5, <4>1 DEF Steps
      <4>3. QED BY <1>3, <1>5, <3>2, <4>1, <4>2 DEF Steps
    <3>3. QED BY <3>1, <3>2
  <2>2. g = [n \in 0 .. m |-> g[n]] /\ h = [n \in 0 .. m |-> h[n]]
    BY <1>5 DEF Steps
  <2> HIDE DEF h
  <2>3. g = h
    BY <2>1, <2>2, SameFunction
  <2>4. QED BY <2>3 DEF h
<1>7. PICK read : After(read) /\ ReadRules(f, limits) = read[m]
  <2> DEFINE c == CHOOSE c : After(c)
  <2>1. After(c)
    BY <1>6
  <2>2. ReadRules(f, limits) = c[m]
    BY DEF ReadRules, lines
  <2> HIDE DEF c
  <2>3. QED BY <2>1, <2>2
<1>8. /\ read[0] = Start
      /\ \A n \in Nat : n + 1 <= m => read[n + 1] = ReadLine(read[n], lines[n + 1], limits)
  <2> DEFINE h == [n \in 0 .. m |-> IF n = 0 THEN Start ELSE ReadLine(read[n - 1], lines[n], limits)]
  <2>1. h[0] = Start
    BY <1>1
  <2>2. ASSUME NEW n \in Nat, n + 1 <= m PROVE h[n + 1] = ReadLine(read[n], lines[n + 1], limits)
    <3>1. n + 1 \in 0 .. m /\ n + 1 # 0 /\ (n + 1) - 1 = n
      BY <1>1, <2>2
    <3>2. QED BY <3>1
  <2>3. read = h
    BY <1>7
  <2> HIDE DEF h
  <2>4. QED BY <2>1, <2>2, <2>3
<1> DEFINE Part(n) == Only(SubSeq(lines, 1, n), NotBlank)
           Q == {n \in Nat : n <= m => Part(n) \in Seq(Line) /\ Read(read[n], Part(n), limits)}
<1>9. 0 \in Q
  <2>1. SubSeq(lines, 1, 0) = <<>>
    BY <1>1
  <2>2. Part(0) = <<>>
    BY <2>1, OnlyEmpty
  <2>3. Read(Start, <<>>, limits)
    BY <1>2 DEF Read, Start
  <2>4. <<>> \in Seq(Line)
    OBVIOUS
  <2> HIDE DEF Part
  <2>5. QED BY <1>8, <2>2, <2>3, <2>4
<1>10. ASSUME NEW n \in Nat, n \in Q PROVE n + 1 \in Q
  <2>1. SUFFICES ASSUME n + 1 <= m
                 PROVE  Part(n + 1) \in Seq(Line) /\ Read(read[n + 1], Part(n + 1), limits)
    OBVIOUS
  <2> DEFINE p == SubSeq(lines, 1, n)
             l == lines[n + 1]
  <2>2. p \in Seq(Line) /\ l \in Line /\ SubSeq(lines, 1, n + 1) = Append(p, l)
    <3>1. n + 1 \in 1 .. m
      BY <1>1, <2>1
    <3>2. QED BY <1>1, <1>4, <3>1
  <2>3. Part(n) \in Seq(Line) /\ Read(read[n], Part(n), limits)
    BY <1>10, <2>1
  <2>4. Part(n) = Only(p, NotBlank)
    OBVIOUS
  <2> HIDE DEF p, l
  <2>5. Only(Append(p, l), NotBlank)
          = IF l \in NotBlank THEN Append(Only(p, NotBlank), l) ELSE Only(p, NotBlank)
    BY <2>2, OnlyAppend
  <2>6. Part(n + 1) = IF l \in NotBlank THEN Append(Part(n), l) ELSE Part(n)
    BY <2>2, <2>4, <2>5
  <2> HIDE DEF Part
  <2>7. Append(Part(n), l) \in Seq(Line)
    BY <2>2, <2>3
  <2>8. read[n + 1] = ReadLine(read[n], l, limits)
    BY <1>8, <2>1 DEF l
  <2>9. PICK t \in Seq(Line) : t = Part(n) /\ Read(read[n], t, limits)
    BY <2>3
  <2>10. Read(ReadLine(read[n], l, limits), IF l \in NotBlank THEN Append(t, l) ELSE t, limits)
    BY <2>2, <2>9, ReadStep
  <2>11. QED BY <2>2, <2>6, <2>7, <2>8, <2>9, <2>10
<1>11. m \in Q
  <2> HIDE DEF Q
  <2>1. Nat \subseteq Q
    BY <1>9, <1>10, SetInduction
  <2>2. QED BY <1>1, <2>1
<1>12. Part(m) = Only(lines, NotBlank)
  <2>1. SubSeq(lines, 1, m) = lines
    BY <1>1
  <2>2. QED BY <2>1
<1>13. Read(ReadRules(f, limits), Only(lines, NotBlank), limits)
  <2>1. m \in Nat /\ m <= m
    BY <1>1
  <2> HIDE DEF Part
  <2>2. Read(read[m], Part(m), limits)
    BY <1>11, <2>1
  <2>3. QED BY <1>7, <1>12, <2>2
<1>14. QED BY <1>1, <1>13 DEF lines

\* The rules of a limiter, when no line is out of place: the lines two by two.
LEMMA RulesRead ==
    ASSUME NEW f \in File
    PROVE  LET t == Only(CompleteLines(f), NotBlank)
               parsed == ParseRegexLimiter(f) IN
           /\ t \in Seq(Line)
           /\ parsed.error <=> \E k \in 1 .. Len(t) : Misplaced(t, k, TRUE)
           /\ parsed.rules \in Seq(Rule)
           /\ ~parsed.error =>
                parsed.rules = [k \in 1 .. Len(t) \div 2 |->
                                  [regexp |-> t[2 * k - 1].text, limits |-> t[2 * k].number]]
<1> DEFINE t == Only(CompleteLines(f), NotBlank)
           s == ReadRules(f, TRUE)
           h == Len(t) \div 2
           parsed == ParseRegexLimiter(f)
           pairs == [k \in 1 .. h |-> [regexp |-> t[2 * k - 1].text, limits |-> t[2 * k].number]]
           fields == [k \in DOMAIN s.rules |->
                        [regexp |-> s.rules[k][1], limits |-> s.rules[k][2].number]]
<1>1. t \in Seq(Line) /\ Read(s, t, TRUE)
  <2>1. CompleteLines(f) \in Seq(Line) /\ Read(s, t, TRUE)
    BY FileRead
  <2>2. QED BY <2>1, OnlyType
<1>2. parsed.error = s.error /\ parsed.rules = IF s.error THEN <<>> ELSE fields
  BY DEF ParseRegexLimiter
<1> HIDE DEF t, s, parsed
<1>3. Len(t) \in Nat /\ h \in Nat /\ s.error \in BOOLEAN
  BY <1>1 DEF Read, Reading
<1>4. \A k \in 1 .. h : 2 * k - 1 \in 1 .. Len(t) /\ 2 * k \in 1 .. Len(t)
  BY <1>3
<1>5. \A k \in 1 .. Len(t) : t[k].text \in STRING /\ t[k].number \in Int
  <2>1. \A k \in 1 .. Len(t) : t[k] \in Line
    BY <1>1, <1>3, ElementOfSeq
  <2>2. QED BY <2>1 DEF Line
<1> HIDE DEF h
<1>6. ASSUME ~s.error PROVE fields = pairs
  <2>1. s.rules \in Seq(Text \X Line) /\ Len(s.rules) = h
        /\ \A k \in 1 .. h : s.rules[k] = <<t[2 * k - 1].text, t[2 * k]>>
    BY <1>1, <1>6 DEF Read, Reading, h
  <2>2. DOMAIN s.rules = 1 .. h
    BY <2>1, LenProperties
  <2>3. \A k \in 1 .. h : s.rules[k][1] = t[2 * k - 1].text /\ s.rules[k][2] = t[2 * k]
    BY <2>1
  <2>4. \A k \in 1 .. h : fields[k] = pairs[k]
    BY <2>2, <2>3
  <2>5. fields = [k \in 1 .. h |-> fields[k]] /\ pairs = [k \in 1 .. h |-> pairs[k]]
    BY <2>2
  <2> HIDE DEF fields, pairs
  <2>6. QED BY <2>4, <2>5, SameFunction
<1>7. pairs \in Seq(Rule)
  <2>1. \A k \in 1 .. h : [regexp |-> t[2 * k - 1].text, limits |-> t[2 * k].number] \in Rule
    BY <1>4, <1>5 DEF Rule
  <2>2. QED BY <1>3, <2>1, IsASeq
<1>8. parsed.rules \in Seq(Rule)
  BY <1>2, <1>6, <1>7, EmptySeq
<1>9. parsed.error <=> \E k \in 1 .. Len(t) : Misplaced(t, k, TRUE)
  BY <1>1, <1>2, Zenon DEF Read
<1>10. ~parsed.error => parsed.rules = pairs
  BY <1>2, <1>6
<1>11. QED BY <1>1, <1>8, <1>9, <1>10 DEF t, parsed, h

\* The services of a proxy, from a file of the same lines.
LEMMA ServicesRead ==
    ASSUME NEW f \in File, ~ParseRegexLimiter(f).error
    PROVE  LET t == Only(CompleteLines(f), NotBlank) IN
           ParseProxyConfig(f).services =
             [k \in 1 .. Len(t) \div 2 |-> [regexp |-> t[2 * k - 1].text, address |-> t[2 * k].text]]
<1> DEFINE t == Only(CompleteLines(f), NotBlank)
           s == ReadRules(f, FALSE)
           h == Len(t) \div 2
           pairs == [k \in 1 .. h |-> [regexp |-> t[2 * k - 1].text, address |-> t[2 * k].text]]
           fields == [k \in DOMAIN s.rules |->
                        [regexp |-> s.rules[k][1], address |-> s.rules[k][2].text]]
<1>1. t \in Seq(Line) /\ Read(s, t, FALSE) /\ ~\E k \in 1 .. Len(t) : Misplaced(t, k, TRUE)
  <2>1. Read(s, t, FALSE)
    BY FileRead
  <2>2. QED BY <2>1, RulesRead
<1>2. ParseProxyConfig(f).services = IF s.error THEN <<>> ELSE fields
  BY DEF ParseProxyConfig
<1> HIDE DEF t, s
<1>3. ~s.error
  <2>1. \A k \in 1 .. Len(t) : Misplaced(t, k, FALSE) => Misplaced(t, k, TRUE)
    BY DEF Misplaced
  <2>2. s.error <=> \E k \in 1 .. Len(t) : Misplaced(t, k, FALSE)
    BY <1>1, Zenon DEF Read
  <2>3. QED BY <1>1, <2>1, <2>2, Zenon
<1> HIDE DEF h
<1>4. s.rules \in Seq(Text \X Line) /\ Len(s.rules) = h
      /\ \A k \in 1 .. h : s.rules[k] = <<t[2 * k - 1].text, t[2 * k]>>
  BY <1>1, <1>3 DEF Read, Reading, h
<1>5. DOMAIN s.rules = 1 .. h
  BY <1>4, LenProperties
<1>6. \A k \in 1 .. h : s.rules[k][1] = t[2 * k - 1].text /\ s.rules[k][2] = t[2 * k]
  BY <1>4
<1>7. \A k \in 1 .. h : fields[k] = pairs[k]
  BY <1>5, <1>6
<1>8. fields = [k \in 1 .. h |-> fields[k]] /\ pairs = [k \in 1 .. h |-> pairs[k]]
  BY <1>5
<1>9. fields = pairs
  <2> HIDE DEF fields, pairs
  <2>1. QED BY <1>7, <1>8, SameFunction
<1>10. QED BY <1>2, <1>3, <1>9 DEF t, h

\* The rules of a limiter are those of its file.
LEMMA LoadedRules == TypeOK \/ Init => file \in File /\ rules \in Seq(Rule)
<1>1. ASSUME file \in Files, rules = ParseRegexLimiter(file).rules
      PROVE  file \in File /\ rules \in Seq(Rule)
  <2>1. file \in File
    BY <1>1, LimiterAssumption DEF LimiterAssumption
  <2>2. ParseRegexLimiter(file).rules \in Seq(Rule)
    BY <2>1, RulesRead
  <2>3. QED BY <1>1, <2>1, <2>2
<1>2. QED BY <1>1 DEF TypeOK, Init

(***************************************************************************)
(* The types.                                                              *)
(***************************************************************************)
\* An agent inside Test has a rule.
AtRule == \A a \in Agents : agent[a].pc # "idle" => agent[a].rule \in Rules

Places == {"idle", "since", "refill", "stamp", "check", "load", "store"}
AgentState == [pc : Places, rule : Rules \cup {NoRule}, read : Int]
Window == [start : 0 .. now, admitted : Nat]

\* The rules of a limiter are numbered, and each has a limit.
LEMMA RulesType ==
    ASSUME TypeOK
    PROVE  /\ Rules \subseteq Nat \ {NoRule}
           /\ \A k \in Rules : Limit(k) \in Int
<1>1. rules \in Seq([regexp : STRING, limits : Int])
  BY LoadedRules DEF Rule
<1>2. Rules = 1 .. Len(rules) /\ Len(rules) \in Nat
  BY <1>1, LenProperties DEF Rules
<1>3. \A k \in Rules : rules[k] \in [regexp : STRING, limits : Int]
  BY <1>1, <1>2, ElementOfSeq
<1>4. QED BY <1>2, <1>3 DEF NoRule, Limit

\* The rule of a path is one of them, or none.
LEMMA RuleOfType ==
    ASSUME TypeOK, NEW path
    PROVE  RuleOf(path) \in Rules \cup {NoRule}
<1> DEFINE I == {i \in 1 .. Len(rules) : rules[i].regexp \in Matches[path]}
<1>1. rules \in Seq([regexp : STRING, limits : Int])
  BY LoadedRules DEF Rule
<1>2. Rules = 1 .. Len(rules) /\ Len(rules) \in Nat
  BY <1>1, LenProperties DEF Rules
<1>3. RuleOf(path) = IF I # {} THEN CHOOSE x \in I : \A y \in I : x =< y ELSE 0
  BY DEF RuleOf, FirstMatch, SelectInSeq, Min
<1>4. I \subseteq Nat /\ I \subseteq Rules
  BY <1>2
<1> HIDE DEF I
<1>5. CASE I = {}
  BY <1>3, <1>5 DEF NoRule
<1>6. CASE I # {}
  <2>1. (CHOOSE x \in I : \A y \in I : x =< y) \in I
    BY <1>4, <1>6, HasLeast
  <2>2. QED BY <1>3, <1>4, <1>6, <2>1
<1>7. QED BY <1>5, <1>6

LEMMA InitType == Init => TypeOK /\ AtRule
<1> SUFFICES ASSUME Init PROVE TypeOK /\ AtRule
  OBVIOUS
<1>1. \A k \in Rules : Limit(k) \in Int
  <2>1. rules \in Seq([regexp : STRING, limits : Int])
    BY LoadedRules DEF Rule
  <2>2. \A k \in Rules : rules[k] \in [regexp : STRING, limits : Int]
    BY <2>1, LenProperties, ElementOfSeq DEF Rules
  <2>3. QED BY <2>2 DEF Limit
<1>2. QED BY <1>1, LimiterAssumption DEF Init, TypeOK, AtRule, Idle, LimiterAssumption

\* A step of agent a moves a alone, to a place in Test where it has a rule.
Moves(a) == \E next \in AgentState : /\ agent' = [agent EXCEPT ![a] = next]
                                     /\ next.pc # "idle" => next.rule \in Rules

LEMMA MovesType ==
    ASSUME TypeOK, AtRule, NEW a \in Agents, Moves(a)
    PROVE  /\ agent' \in [Agents -> AgentState]
           /\ \A b \in Agents : agent'[b].pc # "idle" => agent'[b].rule \in Rules
<1>1. agent \in [Agents -> AgentState]
  BY DEF TypeOK, AgentState, Places
<1> HIDE DEF AgentState
<1>2. QED BY <1>1 DEF AtRule, Moves

Step(a) ==
    \/ \E path \in Paths : Test(a, path)
    \/ Since(a) \/ Refill(a) \/ Stamp(a) \/ Check(a) \/ Load(a) \/ Store(a)

\* Every step of an agent does.
LEMMA StepMoves ==
    ASSUME TypeOK, AtRule, NEW a \in Agents, Step(a)
    PROVE  Moves(a)
<1>1. agent[a] \in AgentState /\ (agent[a].pc # "idle" => agent[a].rule \in Rules)
      /\ agent \in [Agents -> AgentState]
  BY DEF TypeOK, AtRule, AgentState, Places
<1>2. ASSUME NEW p \in Places, NEW r \in Int, agent[a].pc # "idle",
             agent' = [agent EXCEPT ![a] = [agent[a] EXCEPT !.pc = p, !.read = r]]
      PROVE  Moves(a)
  <2>1. [agent[a] EXCEPT !.pc = p, !.read = r] \in AgentState
    BY <1>1 DEF AgentState
  <2>2. [agent[a] EXCEPT !.pc = p, !.read = r].rule \in Rules
    BY <1>1, <1>2 DEF AgentState
  <2>3. QED BY <1>2, <2>1, <2>2 DEF Moves
<1>3. ASSUME agent' = [agent EXCEPT ![a] = Idle] PROVE Moves(a)
  <2>1. Idle \in AgentState /\ Idle.pc = "idle"
    BY DEF Idle, AgentState, Places
  <2>2. QED BY <1>3, <2>1 DEF Moves
<1>4. ASSUME NEW path \in Paths, Test(a, path) PROVE Moves(a)
  <2> DEFINE next == [pc |-> "since", rule |-> RuleOf(path), read |-> 0]
  <2>1. RuleOf(path) \in Rules
    BY <1>4, RuleOfType DEF Test
  <2>2. next \in AgentState /\ next.rule \in Rules
    BY <2>1 DEF AgentState, Places
  <2>3. agent' = [agent EXCEPT ![a] = next]
    BY <1>4 DEF Test
  <2> HIDE DEF next
  <2>4. QED BY <2>2, <2>3 DEF Moves
<1>5. ASSUME NEW p \in Places, agent[a].pc # "idle", agent' = [agent EXCEPT ![a].pc = p]
      PROVE  Moves(a)
  <2>1. [agent[a] EXCEPT !.pc = p] \in AgentState /\ [agent[a] EXCEPT !.pc = p].rule \in Rules
    BY <1>1, <1>5 DEF AgentState
  <2>2. agent' = [agent EXCEPT ![a] = [agent[a] EXCEPT !.pc = p]]
    BY <1>5
  <2>3. QED BY <2>1, <2>2 DEF Moves
<1>6. CASE Since(a)
  BY <1>5, <1>6 DEF Since, Places
<1>7. CASE Refill(a) \/ Stamp(a)
  BY <1>5, <1>7 DEF Refill, Stamp, Places
<1>8. CASE Check(a)
  BY <1>3, <1>5, <1>8 DEF Check, Places
<1>9. CASE Load(a)
  <2>1. tokens[agent[a].rule] \in Int
    BY <1>1, <1>9 DEF Load, TypeOK
  <2>2. agent' = [agent EXCEPT ![a] = [agent[a] EXCEPT !.pc = "store", !.read = tokens[agent[a].rule]]]
    BY <1>1, <1>9 DEF Load
  <2>3. QED BY <1>2, <1>9, <2>1, <2>2 DEF Load, Places
<1>10. CASE Store(a)
  BY <1>3, <1>10 DEF Store
<1>11. QED BY <1>4, <1>6, <1>7, <1>8, <1>9, <1>10 DEF Step

LEMMA NextType == TypeOK /\ AtRule /\ [Next]_vars => TypeOK' /\ AtRule'
<1> SUFFICES ASSUME TypeOK, AtRule, [Next]_vars PROVE TypeOK' /\ AtRule'
  OBVIOUS
<1>1. CASE UNCHANGED vars
  BY <1>1 DEF vars, TypeOK, AtRule, Rules
<1>2. CASE Tick
  BY <1>2, LimiterAssumption DEF Tick, TypeOK, AtRule, Rules, LimiterAssumption
<1>3. ASSUME NEW a \in Agents, Moves(a), UNCHANGED <<now, file, rules>>,
             tokens' \in [Rules -> Int], lastTest' \in [Rules -> 0 .. now], window' \in [Rules -> Window]
      PROVE  TypeOK' /\ AtRule'
  <2>1. Rules' = Rules
    BY <1>3 DEF Rules
  <2>2. /\ agent' \in [Agents -> AgentState]
        /\ \A b \in Agents : agent'[b].pc # "idle" => agent'[b].rule \in Rules
    BY <1>3, MovesType
  <2>3. QED BY <1>3, <2>1, <2>2 DEF TypeOK, AtRule, Window, AgentState, Places
<1>4. ASSUME NEW a \in Agents, Step(a) PROVE TypeOK' /\ AtRule'
  <2>1. Moves(a)
    BY <1>4, StepMoves DEF Step
  <2> DEFINE k == agent[a].rule
  <2>2. /\ tokens \in [Rules -> Int] /\ lastTest \in [Rules -> 0 .. now] /\ window \in [Rules -> Window]
        /\ agent[a].pc # "idle" => k \in Rules /\ agent[a].read \in Int
        /\ now \in Nat /\ \A r \in Rules : Limit(r) \in Int
    BY RulesType, LimiterAssumption DEF TypeOK, AtRule, Window, LimiterAssumption
  <2>3. /\ tokens' \in [Rules -> Int] /\ lastTest' \in [Rules -> 0 .. now] /\ window' \in [Rules -> Window]
        /\ UNCHANGED <<now, file, rules>>
    <3>1. CASE (\E path \in Paths : Test(a, path)) \/ Since(a) \/ Check(a) \/ Load(a)
      BY <2>2, <3>1 DEF Test, Since, Check, Load
    <3>2. CASE Refill(a)
      <4>1. tokens' = [tokens EXCEPT ![k] = Limit(k)] /\ UNCHANGED <<lastTest, now, file, rules>> /\ k \in Rules
        BY <2>2, <3>2 DEF Refill
      <4>2. window' = window \/ window' = [window EXCEPT ![k] = [start |-> now, admitted |-> 0]]
        BY <3>2 DEF Refill
      <4>3. [start |-> now, admitted |-> 0] \in Window
        BY <2>2 DEF Window
      <4> HIDE DEF k, Window
      <4>4. QED BY <2>2, <4>1, <4>2, <4>3
    <3>3. CASE Stamp(a)
      BY <2>2, <3>3 DEF Stamp
    <3>4. CASE Store(a)
      <4>1. /\ tokens' = [tokens EXCEPT ![k] = agent[a].read - 1] /\ k \in Rules /\ agent[a].read - 1 \in Int
            /\ window' = [window EXCEPT ![k] = [window[k] EXCEPT !.admitted = @ + 1]]
            /\ UNCHANGED <<lastTest, now, file, rules>>
        BY <2>2, <3>4 DEF Store
      <4>2. [window[k] EXCEPT !.admitted = @ + 1] \in Window
        BY <2>2, <4>1 DEF Window
      <4> HIDE DEF k, Window
      <4>3. QED BY <2>2, <4>1, <4>2
    <3>5. QED BY <1>4, <3>1, <3>2, <3>3, <3>4 DEF Step
  <2>4. QED BY <1>3, <2>1, <2>3
<1>5. QED BY <1>1, <1>2, <1>4 DEF Next, Step

\* The variables of a limiter keep their types, whatever its agents interleave: in
\* particular no recorded time is in the future, so that no refill is put off.
THEOREM TypeCorrectness == Spec => []TypeOK
<1>1. QED BY InitType, NextType, PTL DEF Spec

\* The rules are the lines of the file two by two, whatever the blank lines and
\* wherever it ends, and no line is read out of its place.
THEOREM RulesAreTheLines == Spec => []RulesOfFile
<1>1. TypeOK => RulesOfFile
  <2> SUFFICES ASSUME TypeOK PROVE RulesOfFile
    OBVIOUS
  <2> DEFINE t == Only(CompleteLines(file), NotBlank)
             h == Len(t) \div 2
             even == {k \in DOMAIN t : k % 2 = 0}
             error == \/ \E k \in DOMAIN t \ even : ~t[k].compiles
                      \/ \E k \in even : ~t[k].numeric
  <2>1. file \in File /\ rules = ParseRegexLimiter(file).rules
    BY LoadedRules DEF TypeOK
  <2>2. /\ t \in Seq(Line)
        /\ ParseRegexLimiter(file).error <=> \E k \in 1 .. Len(t) : Misplaced(t, k, TRUE)
        /\ ~ParseRegexLimiter(file).error =>
             /\ rules = [k \in 1 .. h |-> [regexp |-> t[2 * k - 1].text, limits |-> t[2 * k].number]]
             /\ ParseProxyConfig(file).services
                  = [k \in 1 .. h |-> [regexp |-> t[2 * k - 1].text, address |-> t[2 * k].text]]
    BY <2>1, RulesRead, ServicesRead
  <2>3. ParseRegexLimiter(file).error \in BOOLEAN
    <3>1. ReadRules(file, TRUE).error \in BOOLEAN
      BY <2>1, FileRead DEF Read, Reading
    <3>2. QED BY <3>1 DEF ParseRegexLimiter
  <2> HIDE DEF t, h
  <2>4. ParseRegexLimiter(file).error = error
    <3>1. DOMAIN t = 1 .. Len(t) /\ \A k \in 1 .. Len(t) : k % 2 = 1 \/ k % 2 = 0
      BY <2>2
    <3>2. (\E k \in 1 .. Len(t) : Misplaced(t, k, TRUE)) <=> error
      BY <3>1 DEF Misplaced
    <3>3. QED BY <2>2, <2>3, <3>2
  <2>5. ASSUME ~error
        PROVE  ParseProxyConfig(file).services
                 = [k \in DOMAIN rules |-> [regexp |-> rules[k].regexp, address |-> t[2 * k].text]]
    <3>1. DOMAIN rules = 1 .. h /\ \A k \in 1 .. h : rules[k].regexp = t[2 * k - 1].text
      BY <2>2, <2>4, <2>5
    <3>2. QED BY <2>2, <2>4, <2>5, <3>1
  <2>6. QED BY <2>2, <2>4, <2>5 DEF RulesOfFile, t, h, NotBlank
<1>2. QED BY <1>1, TypeCorrectness, PTL

(***************************************************************************)
(* One agent.  What is admitted and what is left are what the rule allows. *)
(***************************************************************************)
\* The history and the fields of a rule: the tokens are what is left of the limit,
\* the second began no later than the last refill, but for the agent that sets
\* the tokens back and has not yet recorded the time.
Ledger(a, k) ==
    /\ tokens[k] + window[k].admitted = Limit(k)
    /\ Limit(k) >= 0 => tokens[k] >= 0
    /\ window[k].start <= lastTest[k] \/ (agent[a].pc = "stamp" /\ agent[a].rule = k)

\* What the agent found and relies on.
Found(a) ==
    LET k == agent[a].rule IN
    /\ agent[a].pc = "refill" => Elapsed(k)
    /\ agent[a].pc \in {"load", "store"} => tokens[k] > 0
    /\ agent[a].pc = "store" => agent[a].read = tokens[k]

Balanced(a) == TypeOK /\ AtRule /\ Found(a) /\ \A k \in Rules : Ledger(a, k)

LEMMA InitBalanced ==
    ASSUME NEW a \in Agents
    PROVE  Init => Balanced(a)
<1> SUFFICES ASSUME Init PROVE Balanced(a)
  OBVIOUS
<1>1. TypeOK /\ AtRule
  BY InitType
<1>2. agent[a].pc = "idle" /\ \A k \in Rules : Limit(k) \in Int
  BY <1>1, RulesType DEF Init, Idle
<1>3. Found(a)
  BY <1>2 DEF Found
<1>4. QED BY <1>1, <1>2, <1>3 DEF Balanced, Ledger, Init

\* A step of the one agent, by what it does to the ledgers.
LEMMA StepBalanced ==
    ASSUME NEW a \in Agents, Balanced(a), TypeOK', AtRule', Step(a)
    PROVE  Balanced(a)'
<1> DEFINE k == agent[a].rule
<1>1. /\ tokens \in [Rules -> Int] /\ lastTest \in [Rules -> 0 .. now]
      /\ window \in [Rules -> [start : 0 .. now, admitted : Nat]]
      /\ agent \in [Agents -> AgentState] /\ agent[a].read \in Int
      /\ agent[a].pc # "idle" => k \in Rules
      /\ now \in Nat /\ \A r \in Rules : Limit(r) \in Int
  BY RulesType, LimiterAssumption DEF Balanced, TypeOK, AtRule, AgentState, Places, LimiterAssumption
<1>2. UNCHANGED <<now, file, rules>> /\ Rules' = Rules /\ \A r : Limit(r)' = Limit(r)
  BY DEF Step, Test, Since, Refill, Stamp, Check, Load, Store, Rules, Limit
<1>3. CASE (\E path \in Paths : Test(a, path)) \/ Since(a) \/ Check(a) \/ Load(a)
  <2>1. /\ UNCHANGED <<tokens, lastTest, window>> /\ agent[a].pc # "stamp"
    BY <1>3 DEF Test, Since, Check, Load
  <2>2. \A r \in Rules : Ledger(a, r)'
    BY <1>2, <2>1 DEF Balanced, Ledger
  <2>3. Found(a)'
    <3>1. CASE \E path \in Paths : Test(a, path)
      <4>1. agent'[a].pc = "since"
        BY <1>1, <3>1 DEF Test, Idle
      <4>2. QED BY <4>1 DEF Found
    <3>2. CASE Since(a)
      BY <1>1, <1>2, <2>1, <3>2 DEF Since, Found, Elapsed, AgentState
    <3>3. CASE Check(a)
      BY <1>1, <1>2, <2>1, <3>3 DEF Check, Found, Idle, AgentState
    <3>4. CASE Load(a)
      BY <1>1, <1>2, <2>1, <3>4 DEF Balanced, Load, Found, AgentState
    <3>5. QED BY <1>3, <3>1, <3>2, <3>3, <3>4
  <2>4. QED BY <1>2, <2>2, <2>3 DEF Balanced
<1>4. CASE Refill(a)
  <2>1. /\ tokens' = [tokens EXCEPT ![k] = Limit(k)] /\ UNCHANGED lastTest
        /\ agent[a].pc = "refill" /\ k \in Rules
        /\ agent'[a].pc = "stamp" /\ agent'[a].rule = k
    BY <1>1, <1>4 DEF Refill, AgentState
  <2>2. Elapsed(k) /\ Ledger(a, k)
    BY <2>1 DEF Balanced, Found
  <2>3. now - window[k].start > Second
    BY <1>1, <2>1, <2>2, LimiterAssumption DEF Elapsed, Ledger, LimiterAssumption
  <2>4. window' = [window EXCEPT ![k] = [start |-> now, admitted |-> 0]]
    BY <1>4, <2>3 DEF Refill
  <2>5. ASSUME NEW r \in Rules PROVE Ledger(a, r)'
    <3>1. Ledger(a, r)
      BY DEF Balanced
    <3>2. QED BY <1>1, <1>2, <2>1, <2>4, <3>1 DEF Ledger
  <2>6. Found(a)'
    BY <2>1 DEF Found
  <2>7. QED BY <1>2, <2>5, <2>6 DEF Balanced
<1>5. CASE Stamp(a)
  <2>1. /\ lastTest' = [lastTest EXCEPT ![k] = now] /\ UNCHANGED <<tokens, window>>
        /\ agent[a].pc = "stamp" /\ k \in Rules /\ agent'[a].pc = "check"
    BY <1>1, <1>5 DEF Stamp, AgentState
  <2>2. ASSUME NEW r \in Rules PROVE Ledger(a, r)'
    <3>1. Ledger(a, r)
      BY DEF Balanced
    <3>2. QED BY <1>1, <1>2, <2>1, <3>1 DEF Ledger
  <2>3. Found(a)'
    BY <2>1 DEF Found
  <2>4. QED BY <1>2, <2>2, <2>3 DEF Balanced
<1>6. CASE Store(a)
  <2>1. /\ agent[a].pc = "store" /\ k \in Rules /\ UNCHANGED lastTest /\ agent'[a].pc = "idle"
    BY <1>1, <1>6 DEF Store, AgentState, Idle
  <2>2. agent[a].read = tokens[k] /\ tokens[k] > 0
    BY <2>1 DEF Balanced, Found
  <2>3. /\ tokens' = [tokens EXCEPT ![k] = tokens[k] - 1]
        /\ window' = [window EXCEPT ![k].admitted = @ + 1]
    BY <1>6, <2>2 DEF Store
  <2>4. ASSUME NEW r \in Rules PROVE Ledger(a, r)'
    <3>1. Ledger(a, r)
      BY DEF Balanced
    <3>2. QED BY <1>1, <1>2, <2>1, <2>2, <2>3, <3>1 DEF Ledger
  <2>5. Found(a)'
    BY <2>1 DEF Found
  <2>6. QED BY <1>2, <2>4, <2>5 DEF Balanced
<1>7. QED BY <1>3, <1>4, <1>5, <1>6 DEF Step

LEMMA NextBalanced ==
    ASSUME NEW a, Agents = {a}
    PROVE  Balanced(a) /\ [Next]_vars => Balanced(a)'
<1> SUFFICES ASSUME Balanced(a), [Next]_vars PROVE Balanced(a)'
  OBVIOUS
<1>1. TypeOK' /\ AtRule'
  BY NextType DEF Balanced
<1>2. CASE UNCHANGED vars
  BY <1>1, <1>2 DEF vars, Balanced, Found, Ledger, Elapsed, Limit, Rules
<1>3. CASE Tick
  <2>1. Elapsed(agent[a].rule) /\ agent[a].rule \in Rules => Elapsed(agent[a].rule)'
    BY <1>3, LimiterAssumption DEF Tick, Elapsed, Balanced, TypeOK, LimiterAssumption
  <2>2. agent[a].pc # "idle" => agent[a].rule \in Rules
    BY DEF Balanced, AtRule
  <2>3. Found(a)'
    BY <1>3, <2>1, <2>2 DEF Tick, Balanced, Found
  <2>4. \A k \in Rules' : Ledger(a, k)'
    BY <1>3 DEF Tick, Balanced, Ledger, Limit, Rules
  <2>5. QED BY <1>1, <2>3, <2>4 DEF Balanced
<1>4. CASE Step(a)
  BY <1>1, <1>4, StepBalanced
<1>5. QED BY <1>2, <1>3, <1>4 DEF Next, Step

LEMMA BalancedInvariance ==
    ASSUME NEW one, Agents = {one}
    PROVE  Spec => []Balanced(one)
<1>1. Init => Balanced(one)
  BY InitBalanced
<1>2. Balanced(one) /\ [Next]_vars => Balanced(one)'
  BY NextBalanced
<1>3. QED BY <1>1, <1>2, PTL DEF Spec

\* With one agent a rule passes in no second more requests than its line of the
\* file says.
THEOREM LimitIsKept ==
    ASSUME NEW one, Agents = {one}
    PROVE  Spec => []RequestsPerSecond
<1>1. Balanced(one) => RequestsPerSecond
  BY RulesType DEF Balanced, Ledger, TypeOK, RequestsPerSecond
<1>2. QED BY <1>1, BalancedInvariance, PTL

\* With one agent no request is refused before its rule has passed as many.
THEOREM NoneRefusedEarly ==
    ASSUME NEW one, Agents = {one}
    PROVE  Spec => RefusedWhenSpent
<1>1. Balanced(one) /\ [Next]_vars => [RefusesSpent]_vars
  <2> SUFFICES ASSUME Balanced(one), Next,
                      NEW a \in Agents, agent[a].pc = "check", agent'[a].pc = "idle"
               PROVE  window[agent[a].rule].admitted >= Limit(agent[a].rule)
    BY DEF RefusesSpent
  <2>1. a = one /\ agent[one].rule \in Rules
    BY DEF Balanced, AtRule
  <2>2. Check(one)
    BY <2>1 DEF Next, Tick, Test, Since, Refill, Stamp, Load, Store
  <2>3. ~ (tokens[agent[one].rule] > 0)
    BY <2>1, <2>2 DEF Check, Balanced, TypeOK
  <2>4. QED BY <2>1, <2>3, RulesType DEF Balanced, Ledger, TypeOK
<1>2. QED BY <1>1, BalancedInvariance, PTL DEF Spec, RefusedWhenSpent
==============================================================================
