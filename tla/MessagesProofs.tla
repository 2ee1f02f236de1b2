--------------------------- MODULE MessagesProofs ---------------------------
(***************************************************************************)
(* Theorems about Messages, for any messages cut into any reads: the       *)
(* matcher finds the end of a header, and the parser leaves what follows   *)
(* it; and about the Args objects beside them.                             *)
(***************************************************************************)
EXTENDS MCMessages, SequenceLemmas, FiniteSetTheorems

(***************************************************************************)
(* The matcher of the end of a header, or of chunks.                       *)
(***************************************************************************)

\* A prefix is what agrees with the beginning.
LEMMA PrefixIs ==
    ASSUME NEW S, NEW s \in Seq(S), NEW t \in Seq(S)
    PROVE  IsPrefix(s, t) <=> Len(s) <= Len(t) /\ \A i \in 1 .. Len(s) : s[i] = t[i]
<1>1. CASE Len(s) <= Len(t)
  <2>1. PICK a \in Seq(S) : a = SubSeq(s, 1, Len(s))
    OBVIOUS
  <2>2. PICK b \in Seq(S) : b = SubSeq(t, 1, Len(s))
    <3>1. SubSeq(t, 1, Len(s)) \in Seq(S)
      BY <1>1
    <3>2. QED BY <3>1, Zenon
  <2>3. /\ Len(a) = Len(s) /\ Len(b) = Len(s)
        /\ \A i \in 1 .. Len(s) : a[i] = s[i] /\ b[i] = t[i]
    BY <1>1, <2>1, <2>2
  <2>4. a = b <=> \A i \in 1 .. Len(s) : a[i] = b[i]
    <3>1. (\A i \in 1 .. Len(s) : a[i] = b[i]) => a = b
      BY <2>3, SeqEqual
    <3>2. QED BY <3>1
  <2>5. QED BY <1>1, <2>1, <2>2, <2>3, <2>4 DEF IsPrefix
<1>2. CASE ~ (Len(s) <= Len(t))
  BY <1>2 DEF IsPrefix
<1>3. QED BY <1>1, <1>2

\* The elements of a sequence in reverse.
LEMMA ReverseIs ==
    ASSUME NEW S, NEW s \in Seq(S)
    PROVE  /\ Reverse(s) \in Seq(S) /\ Len(Reverse(s)) = Len(s)
           /\ \A i \in 1 .. Len(s) : Reverse(s)[i] = s[Len(s) - i + 1]
<1>1. \A i \in 1 .. Len(s) : Len(s) - i + 1 \in 1 .. Len(s) /\ (Len(s) - i) + 1 = Len(s) - i + 1
  OBVIOUS
<1>2. Reverse(s) \in [1 .. Len(s) -> S]
  BY <1>1 DEF Reverse
<1>3. Len(s) \in Nat
  OBVIOUS
<1>4. \A n \in Nat : \A f \in [1 .. n -> S] : f \in Seq(S) /\ Len(f) = n
  OBVIOUS
<1>5. Reverse(s) \in Seq(S) /\ Len(Reverse(s)) = Len(s)
  BY <1>2, <1>3, <1>4
<1>6. QED BY <1>1, <1>5 DEF Reverse

\* A suffix is what agrees with the end.
LEMMA SuffixIs ==
    ASSUME NEW S, NEW s \in Seq(S), NEW t \in Seq(S)
    PROVE  IsSuffix(s, t) <=> /\ Len(s) <= Len(t)
                              /\ \A k \in 1 .. Len(s) : s[k] = t[Len(t) - Len(s) + k]
<1>1. PICK a \in Seq(S) : a = Reverse(s)
  BY ReverseIs
<1>2. PICK b \in Seq(S) : b = Reverse(t)
  BY ReverseIs
<1>3. Len(a) = Len(s) /\ Len(b) = Len(t) /\ Len(s) \in Nat /\ Len(t) \in Nat
  BY <1>1, <1>2, ReverseIs
<1>4. \A i \in 1 .. Len(s) : a[i] = s[Len(s) - i + 1]
  BY <1>1, ReverseIs
<1>5. \A i \in 1 .. Len(t) : b[i] = t[Len(t) - i + 1]
  BY <1>2, ReverseIs
<1>6. IsSuffix(s, t) <=> Len(s) <= Len(t) /\ \A i \in 1 .. Len(s) : a[i] = b[i]
  BY <1>1, <1>2, <1>3, PrefixIs DEF IsSuffix
<1>7. ASSUME Len(s) <= Len(t)
      PROVE  (\A i \in 1 .. Len(s) : a[i] = b[i])
               <=> \A k \in 1 .. Len(s) : s[k] = t[Len(t) - Len(s) + k]
  <2>1. ASSUME \A i \in 1 .. Len(s) : a[i] = b[i], NEW k \in 1 .. Len(s)
        PROVE  s[k] = t[Len(t) - Len(s) + k]
    <3>1. PICK i \in 1 .. Len(s) : i = Len(s) - k + 1
      <4>1. Len(s) - k + 1 \in 1 .. Len(s)
        BY <1>3
      <4>2. QED BY <4>1, Zenon
    <3>2. i \in 1 .. Len(t) /\ Len(s) - i + 1 = k /\ Len(t) - i + 1 = Len(t) - Len(s) + k
      BY <1>3, <1>7, <3>1
    <3>3. a[i] = s[k]
      BY <1>4, <3>2
    <3>4. b[i] = t[Len(t) - Len(s) + k]
      BY <1>5, <3>2
    <3>5. QED BY <2>1, <3>3, <3>4
  <2>2. ASSUME \A k \in 1 .. Len(s) : s[k] = t[Len(t) - Len(s) + k], NEW i \in 1 .. Len(s)
        PROVE  a[i] = b[i]
    <3>1. PICK k \in 1 .. Len(s) : k = Len(s) - i + 1
      <4>1. Len(s) - i + 1 \in 1 .. Len(s)
        BY <1>3
      <4>2. QED BY <4>1, Zenon
    <3>2. i \in 1 .. Len(t) /\ Len(t) - i + 1 = Len(t) - Len(s) + k
      BY <1>3, <1>7, <3>1
    <3>3. a[i] = s[k]
      BY <1>4, <3>1
    <3>4. b[i] = t[Len(t) - Len(s) + k]
      BY <1>5, <3>2
    <3>5. QED BY <2>2, <3>3, <3>4
  <2>3. QED BY <2>1, <2>2
<1>8. QED BY <1>6, <1>7
-----------------------------------------------------------------------------
\* What the matcher is when it goes on with a text, byte by byte.
Matchers == [expectedChar : Int, found : BOOLEAN]

\* The matcher after every byte.
LEMMA MatchSteps ==
    ASSUME NEW S, NEW m \in Matchers, NEW b \in Seq(S), NEW flag
    PROVE  \E f : /\ f[0] = m /\ f[Len(b)] = Match(m, b, flag)
                  /\ \A i \in 1 .. Len(b) : f[i] = Compare(f[i - 1], b[i], flag)
<1> DEFINE n == Len(b)
           Is(g) == g = [i \in 0 .. n |-> IF i = 0 THEN m ELSE Compare(g[i - 1], b[i], flag)]
           D == Matchers
           step == [p \in D \X S |-> Compare(p[1], p[2], flag)]
<1>1. n \in Nat /\ b \in [1 .. n -> S]
  OBVIOUS
<1>2. \A a \in D, c \in S : Compare(a, c, flag) \in D
  BY DEF Compare, Matchers
<1> HIDE DEF D, n
<1>3. step \in [D \X S -> D] /\ \A a \in D, c \in S : step[<<a, c>>] = Compare(a, c, flag)
  BY <1>2
<1>4. m \in D
  BY DEF D
<1> HIDE DEF step
<1>5. PICK g : Steps(g, D, step, m, b, n)
  BY <1>1, <1>3, <1>4, StepsExist
<1>6. g \in [0 .. n -> D] /\ g[0] = m /\ \A i \in 1 .. n : g[i] = step[<<g[i - 1], b[i]>>]
  BY <1>5 DEF Steps
<1>7. Is(g)
  <2> DEFINE h == [i \in 0 .. n |-> IF i = 0 THEN m ELSE Compare(g[i - 1], b[i], flag)]
  <2>1. \A i \in 0 .. n : g[i] = h[i]
    <3> TAKE i \in 0 .. n
    <3>1. CASE i = 0
      BY <1>6, <3>1
    <3>2. CASE i # 0
      <4>1. i \in 1 .. n /\ i - 1 \in 0 .. n
        BY <1>1, <3>2
      <4>2. g[i - 1] \in D /\ b[i] \in S
        BY <1>1, <1>6, <4>1
      <4>3. g[i] = Compare(g[i - 1], b[i], flag)
        BY <1>3, <1>6, <4>1, <4>2
      <4>4. h[i] = Compare(g[i - 1], b[i], flag)
        BY <3>2
      <4>5. QED BY <4>3, <4>4
    <3>3. QED BY <3>1, <3>2
  <2>2. g = [i \in 0 .. n |-> g[i]] /\ h = [i \in 0 .. n |-> h[i]]
    BY <1>6
  <2> HIDE DEF h
  <2>3. g = h
    BY <2>1, <2>2, SameFunction
  <2>4. QED BY <2>3 DEF h
<1>8. PICK w : Is(w) /\ Match(m, b, flag) = w[n]
  <2> DEFINE c == CHOOSE c : Is(c)
  <2>1. Is(c)
    BY Zenon, <1>7
  <2>2. Match(m, b, flag) = c[n]
    BY DEF Match, n
  <2> HIDE DEF c
  <2>3. QED BY Zenon, <2>1, <2>2
<1>9. w[0] = m /\ \A i \in 1 .. n : w[i] = Compare(w[i - 1], b[i], flag)
  <2> DEFINE h == [i \in 0 .. n |-> IF i = 0 THEN m ELSE Compare(w[i - 1], b[i], flag)]
  <2>1. 0 \in 0 .. n /\ \A i \in 1 .. n : i \in 0 .. n /\ i # 0
    BY <1>1
  <2>2. h[0] = m /\ \A i \in 1 .. n : h[i] = Compare(w[i - 1], b[i], flag)
    BY <2>1
  <2>3. w = h
    BY <1>8
  <2> HIDE DEF h
  <2>4. QED BY <2>2, <2>3
<1>10. QED BY <1>8, <1>9 DEF n
-----------------------------------------------------------------------------
\* The flag is in t from i on.
At(t, i, flag) ==
    i \in 1 .. Len(t) - Len(flag) + 1 /\ \A j \in 1 .. Len(flag) : t[i + j - 1] = flag[j]

\* No beginning of the flag, but the whole, is right before i.
Clean(t, i, flag) ==
    \A k \in 1 .. Len(flag) - 1 : k <= i - 1 => \E j \in 1 .. k : flag[j] # t[i - 1 - k + j]

\* n bytes of the flag begin at i, and end with t.
Begun(t, i, n, flag) ==
    /\ i \in 1 .. Len(t) + 1 /\ n \in 0 .. Len(flag) /\ i + n - 1 = Len(t)
    /\ \A j \in 1 .. n : t[i + j - 1] = flag[j]

\* What the matcher knows of the text it has seen: the flag is in it, or it ends with
\* as much of the flag as the matcher has; a clean beginning has not been missed.
Good(m, t, flag) ==
    /\ m \in [expectedChar : 0 .. Len(flag), found : BOOLEAN]
    /\ m.found <=> m.expectedChar = Len(flag)
    /\ m.found => \E i \in Nat : At(t, i, flag)
    /\ ~m.found => /\ m.expectedChar <= Len(t)
                   /\ \A j \in 1 .. m.expectedChar : flag[j] = t[Len(t) - m.expectedChar + j]
    /\ \A i, n \in Nat : Begun(t, i, n, flag) /\ Clean(t, i, flag) => m.found \/ m.expectedChar = n
    /\ \A i \in Nat : At(t, i, flag) /\ Clean(t, i, flag) => m.found

\* Before the first byte.
LEMMA GoodInit ==
    ASSUME NEW S, NEW flag \in Seq(S), flag # <<>>
    PROVE  Good(Unmatched, <<>>, flag)
<1>1. Len(flag) \in Nat /\ Len(flag) # 0
  OBVIOUS
<1>2. \A i \in Nat : ~ At(<<>>, i, flag)
  BY <1>1 DEF At
<1>3. \A i, n \in Nat : Begun(<<>>, i, n, flag) => n = 0
  BY <1>1 DEF Begun
<1>4. Unmatched.expectedChar = 0 /\ Unmatched.found = FALSE
  BY DEF Unmatched
<1>5. Unmatched \in [expectedChar : 0 .. Len(flag), found : BOOLEAN]
  BY <1>1 DEF Unmatched
<1>6. QED BY <1>1, <1>2, <1>3, <1>4, <1>5 DEF Good

\* What a byte more leaves as it was, in a text t that it makes u.
Longer(t, c, u) == /\ Len(u) = Len(t) + 1 /\ u[Len(u)] = c
                   /\ \A i \in 1 .. Len(t) : u[i] = t[i]

\* ... of the flag and of its beginnings.
LEMMA LongerKeeps ==
    ASSUME NEW S, NEW t \in Seq(S), NEW u \in Seq(S), NEW c, Longer(t, c, u),
           NEW flag \in Seq(S), flag # <<>>
    PROVE  /\ \A i \in Nat : At(t, i, flag) => At(u, i, flag)
           /\ \A i \in Nat : At(u, i, flag) => At(t, i, flag) \/ Begun(u, i, Len(flag), flag)
           /\ \A i \in Nat : Begun(u, i, 0, flag) => i = Len(u) + 1
           /\ \A i, n \in Nat : Begun(u, i, n + 1, flag) => Begun(t, i, n, flag) /\ c = flag[n + 1]
           /\ \A i \in 1 .. Len(t) + 1 : Clean(u, i, flag) => Clean(t, i, flag)
<1>1. Len(flag) \in Nat /\ Len(flag) # 0 /\ Len(t) \in Nat /\ Len(u) = Len(t) + 1
  BY DEF Longer
<1>2. \A i \in 1 .. Len(t) : u[i] = t[i]
  BY DEF Longer
<1>3. ASSUME NEW i \in Nat, At(t, i, flag) PROVE At(u, i, flag)
  <2>1. \A j \in 1 .. Len(flag) : i + j - 1 \in 1 .. Len(t)
    BY <1>1, <1>3 DEF At
  <2>2. \A j \in 1 .. Len(flag) : u[i + j - 1] = flag[j]
    BY <1>2, <1>3, <2>1 DEF At
  <2>3. i \in 1 .. Len(u) - Len(flag) + 1
    BY <1>1, <1>3 DEF At
  <2>4. QED BY <2>2, <2>3 DEF At
<1>4. ASSUME NEW i \in Nat, At(u, i, flag), ~ At(t, i, flag)
      PROVE  Begun(u, i, Len(flag), flag)
  <2>1. i + Len(flag) - 1 = Len(u)
    <3>1. i \in 1 .. Len(u) - Len(flag) + 1 /\ \A j \in 1 .. Len(flag) : u[i + j - 1] = flag[j]
      BY <1>4 DEF At
    <3>2. SUFFICES ASSUME i + Len(flag) - 1 <= Len(t) PROVE FALSE
      BY <1>1, <3>1
    <3>3. \A j \in 1 .. Len(flag) : i + j - 1 \in 1 .. Len(t)
      BY <1>1, <3>1, <3>2
    <3>4. i \in 1 .. Len(t) - Len(flag) + 1
      BY <1>1, <3>1, <3>2
    <3>5. QED BY <1>2, <1>4, <3>1, <3>3, <3>4 DEF At
  <2>2. QED BY <1>1, <1>4, <2>1 DEF At, Begun
<1>5. \A i \in Nat : Begun(u, i, 0, flag) => i = Len(u) + 1
  BY <1>1 DEF Begun
<1>6. ASSUME NEW i \in Nat, NEW n \in Nat, Begun(u, i, n + 1, flag)
      PROVE  Begun(t, i, n, flag) /\ c = flag[n + 1]
  <2>1. i + n = Len(u) /\ n + 1 \in 1 .. Len(flag) /\ i \in 1 .. Len(u)
    BY <1>1, <1>6 DEF Begun
  <2>2. u[i + (n + 1) - 1] = flag[n + 1]
    BY <1>6, <2>1 DEF Begun
  <2>3. c = flag[n + 1]
    BY <2>1, <2>2 DEF Longer
  <2>4. ASSUME NEW j \in 1 .. n PROVE t[i + j - 1] = flag[j]
    <3>1. i + j - 1 \in 1 .. Len(t) /\ j \in 1 .. n + 1
      BY <1>1, <2>1
    <3>2. QED BY <1>2, <1>6, <3>1 DEF Begun
  <2>5. QED BY <1>1, <2>1, <2>3, <2>4 DEF Begun
<1>7. ASSUME NEW i \in 1 .. Len(t) + 1, Clean(u, i, flag) PROVE Clean(t, i, flag)
  <2>1. SUFFICES ASSUME NEW k \in 1 .. Len(flag) - 1, k <= i - 1
                 PROVE  \E j \in 1 .. k : flag[j] # t[i - 1 - k + j]
    BY DEF Clean
  <2>2. PICK j \in 1 .. k : flag[j] # u[i - 1 - k + j]
    BY <1>7, <2>1 DEF Clean
  <2>3. i - 1 - k + j \in 1 .. Len(t)
    BY <1>1, <2>1
  <2>4. QED BY <1>2, <2>2, <2>3
<1>8. QED BY <1>3, <1>4, <1>5, <1>6, <1>7

\* A byte more.
LEMMA GoodNext ==
    ASSUME NEW S, NEW t \in Seq(S), NEW u \in Seq(S), NEW c \in S, Longer(t, c, u),
           NEW flag \in Seq(S), flag # <<>>, NEW m, Good(m, t, flag)
    PROVE  Good(Compare(m, c, flag), u, flag)
<1>1. /\ Len(flag) \in Nat /\ Len(flag) # 0 /\ Len(t) \in Nat /\ Len(u) = Len(t) + 1
      /\ u[Len(u)] = c /\ \A i \in 1 .. Len(t) : u[i] = t[i]
  BY DEF Longer
<1>2. PICK next : next = Compare(m, c, flag)
  OBVIOUS
<1>3. PICK e \in 0 .. Len(flag) : e = m.expectedChar
  BY DEF Good
<1>4. /\ m \in [expectedChar : 0 .. Len(flag), found : BOOLEAN]
      /\ m.found <=> e = Len(flag)
  BY <1>3 DEF Good
<1>5. ~ m.found => e <= Len(t) /\ \A j \in 1 .. e : flag[j] = t[Len(t) - e + j]
  BY <1>3 DEF Good
<1>6. ASSUME /\ next \in [expectedChar : 0 .. Len(flag), found : BOOLEAN]
             /\ next.found <=> next.expectedChar = Len(flag)
             /\ next.found => \E i \in Nat : At(u, i, flag)
             /\ ~next.found => /\ next.expectedChar <= Len(u)
                               /\ \A j \in 1 .. next.expectedChar :
                                    flag[j] = u[Len(u) - next.expectedChar + j]
             /\ m.found => next.found
             /\ \A i \in Nat : Clean(u, i, flag) /\ i = Len(u) + 1
                                 => next.found \/ next.expectedChar = 0
             /\ \A n \in Nat : e = n /\ c = flag[n + 1] => next.found \/ next.expectedChar = n + 1
      PROVE  Good(next, u, flag)
  <2>1. ASSUME NEW i \in Nat, NEW n \in Nat, Begun(u, i, n, flag), Clean(u, i, flag)
        PROVE  next.found \/ next.expectedChar = n
    <3>1. CASE n = 0
      <4>1. i = Len(u) + 1
        BY <2>1, <3>1, LongerKeeps
      <4>2. QED BY <1>6, <2>1, <3>1, <4>1
    <3>2. CASE n # 0
      <4>1. PICK k \in Nat : n = k + 1
        <5>1. n - 1 \in Nat /\ n = (n - 1) + 1
          BY <3>2
        <5>2. QED BY <5>1
      <4>2. Begun(t, i, k, flag) /\ c = flag[k + 1]
        BY <2>1, <4>1, LongerKeeps
      <4>3. i \in 1 .. Len(t) + 1
        BY <4>2 DEF Begun
      <4>4. Clean(t, i, flag)
        BY <2>1, <4>3, LongerKeeps
      <4>5. m.found \/ e = k
        BY <1>3, <4>2, <4>4 DEF Good
      <4>6. QED BY <1>6, <4>1, <4>2, <4>5
    <3>3. QED BY <3>1, <3>2
  <2>2. ASSUME NEW i \in Nat, At(u, i, flag), Clean(u, i, flag) PROVE next.found
    <3>1. CASE At(t, i, flag)
      <4>1. i \in 1 .. Len(t) + 1
        BY <1>1, <3>1 DEF At
      <4>2. Clean(t, i, flag)
        BY <2>2, <4>1, LongerKeeps
      <4>3. m.found
        BY <3>1, <4>2 DEF Good
      <4>4. QED BY <1>6, <4>3
    <3>2. CASE Begun(u, i, Len(flag), flag)
      <4>1. next.found \/ next.expectedChar = Len(flag)
        BY <1>1, <2>1, <2>2, <3>2
      <4>2. QED BY <1>6, <4>1
    <3>3. QED BY <2>2, <3>1, <3>2, LongerKeeps
  <2>3. QED BY <1>6, <2>1, <2>2 DEF Good
<1>7. CASE m.found
  <2>1. next = m
    BY <1>2, <1>7 DEF Compare
  <2>2. \E i \in Nat : At(u, i, flag)
    BY <1>7, LongerKeeps DEF Good
  <2>3. QED BY <1>2, <1>3, <1>4, <1>6, <1>7, <2>1, <2>2
<1>8. CASE ~ m.found /\ c = flag[e + 1]
  <2>1. next = [expectedChar |-> e + 1, found |-> e + 1 = Len(flag)]
    BY <1>2, <1>3, <1>8 DEF Compare
  <2>2. e + 1 \in 1 .. Len(flag) /\ e <= Len(t)
    BY <1>1, <1>4, <1>5, <1>8
  <2>3. next.expectedChar = e + 1 /\ (next.found <=> e + 1 = Len(flag))
    BY <2>1
  <2>4. next \in [expectedChar : 0 .. Len(flag), found : BOOLEAN]
    BY <2>1, <2>2
  <2>5. ASSUME NEW j \in 1 .. e + 1 PROVE flag[j] = u[Len(u) - (e + 1) + j]
    <3>1. CASE j = e + 1
      <4>1. Len(u) - (e + 1) + j = Len(u)
        BY <1>1, <3>1
      <4>2. QED BY <1>1, <1>8, <3>1, <4>1
    <3>2. CASE j # e + 1
      <4>1. j \in 1 .. e /\ Len(u) - (e + 1) + j = Len(t) - e + j /\ Len(t) - e + j \in 1 .. Len(t)
        BY <1>1, <2>2, <3>2
      <4>2. QED BY <1>1, <1>5, <1>8, <4>1
    <3>3. QED BY <3>1, <3>2
  <2>6. ASSUME e + 1 = Len(flag) PROVE \E i \in Nat : At(u, i, flag)
    <3>1. PICK i \in Nat : i = Len(u) - (e + 1) + 1
      <4>1. Len(u) - (e + 1) + 1 \in Nat
        BY <1>1, <2>2
      <4>2. QED BY <4>1, Zenon
    <3>2. i \in 1 .. Len(u) - Len(flag) + 1
      BY <1>1, <2>2, <2>6, <3>1
    <3>3. \A j \in 1 .. Len(flag) : i + j - 1 = Len(u) - (e + 1) + j
      BY <1>1, <3>1
    <3>4. At(u, i, flag)
      BY <2>5, <2>6, <3>2, <3>3 DEF At
    <3>5. QED BY <3>4
  <2>7. ASSUME NEW i \in Nat, Clean(u, i, flag), i = Len(u) + 1 PROVE next.found
    <3>1. SUFFICES ASSUME e + 1 # Len(flag) PROVE FALSE
      BY <2>3
    <3>2. e + 1 \in 1 .. Len(flag) - 1 /\ e + 1 <= i - 1
      BY <1>1, <2>2, <2>7, <3>1
    <3>3. PICK j \in 1 .. e + 1 : flag[j] # u[i - 1 - (e + 1) + j]
      BY <2>7, <3>2 DEF Clean
    <3>4. i - 1 - (e + 1) + j = Len(u) - (e + 1) + j
      BY <1>1, <2>7
    <3>5. QED BY <2>5, <3>3, <3>4
  <2>8. Len(u) >= e + 1
    BY <1>1, <2>2
  <2>9. Good(next, u, flag)
    BY <1>6, <1>8, <2>3, <2>4, <2>5, <2>6, <2>7, <2>8
  <2>10. QED BY <1>2, <2>9
<1>9. CASE ~ m.found /\ c # flag[e + 1]
  <2>1. next = [expectedChar |-> 0, found |-> FALSE]
    BY <1>2, <1>3, <1>9 DEF Compare
  <2>2. next.expectedChar = 0 /\ next.found = FALSE
    BY <2>1
  <2>3. next \in [expectedChar : 0 .. Len(flag), found : BOOLEAN]
    BY <1>1, <2>1
  <2>4. Good(next, u, flag)
    BY <1>1, <1>6, <1>9, <2>2, <2>3
  <2>5. QED BY <1>2, <2>4
<1>10. QED BY <1>7, <1>8, <1>9

\* The bytes of a read.
LEMMA GoodMatch ==
    ASSUME NEW S, NEW t \in Seq(S), NEW b \in Seq(S), NEW flag \in Seq(S), flag # <<>>,
           NEW m, Good(m, t, flag)
    PROVE  Good(Match(m, b, flag), t \o b, flag)
<1>1. m \in Matchers
  <2>1. Len(flag) \in Nat
    OBVIOUS
  <2>2. QED BY <2>1 DEF Good, Matchers
<1>2. PICK f : /\ f[0] = m /\ f[Len(b)] = Match(m, b, flag)
               /\ \A i \in 1 .. Len(b) : f[i] = Compare(f[i - 1], b[i], flag)
  BY <1>1, MatchSteps
<1> DEFINE seen(i) == t \o SubSeq(b, 1, i)
           R == {i \in Nat : i <= Len(b) => Good(f[i], seen(i), flag)}
<1>3. 0 \in R
  <2>1. seen(0) = t
    OBVIOUS
  <2>2. QED BY <1>2, <2>1
<1>4. ASSUME NEW i \in Nat, i \in R PROVE i + 1 \in R
  <2>1. SUFFICES ASSUME i + 1 <= Len(b) PROVE Good(f[i + 1], seen(i + 1), flag)
    OBVIOUS
  <2>2. PICK p \in Seq(S), q \in Seq(S) : p = SubSeq(b, 1, i) /\ q = SubSeq(b, 1, i + 1)
    <3>1. SubSeq(b, 1, i) \in Seq(S) /\ SubSeq(b, 1, i + 1) \in Seq(S)
      BY <2>1
    <3>2. QED BY <3>1, Zenon
  <2>3. PICK s \in Seq(S), u \in Seq(S) : s = t \o p /\ u = t \o q
    <3>1. t \o p \in Seq(S) /\ t \o q \in Seq(S)
      OBVIOUS
    <3>2. QED BY <3>1, Zenon
  <2>4. PICK c \in S : c = b[i + 1]
    BY <2>1
  <2>5. Longer(s, c, u)
    <3>1. Len(p) = i /\ Len(q) = i + 1 /\ q[i + 1] = c /\ \A j \in 1 .. i : q[j] = p[j]
      BY <2>1, <2>2, <2>4
    <3>2. Len(u) = Len(t) + i + 1 /\ Len(s) = Len(t) + i
      BY <2>3, <3>1
    <3>3. u[Len(u)] = c
      BY <2>3, <3>1, <3>2
    <3>4. ASSUME NEW j \in 1 .. Len(s) PROVE u[j] = s[j]
      <4>1. CASE j <= Len(t)
        BY <2>3, <4>1
      <4>2. CASE ~ (j <= Len(t))
        <5>1. j - Len(t) \in 1 .. i
          BY <3>2, <4>2
        <5>2. u[j] = q[j - Len(t)] /\ s[j] = p[j - Len(t)]
          BY <2>3, <3>1, <3>2, <4>2, <5>1
        <5>3. QED BY <3>1, <5>1, <5>2
      <4>3. QED BY <4>1, <4>2
    <3>5. QED BY <3>2, <3>3, <3>4 DEF Longer
  <2>6. Good(f[i], s, flag)
    BY <1>4, <2>1, <2>2, <2>3
  <2>7. Good(Compare(f[i], c, flag), u, flag)
    BY <2>5, <2>6, GoodNext
  <2>8. f[i + 1] = Compare(f[i], c, flag)
    <3>1. i + 1 \in 1 .. Len(b) /\ (i + 1) - 1 = i
      BY <2>1
    <3>2. f[i + 1] = Compare(f[(i + 1) - 1], b[i + 1], flag)
      BY <1>2, <3>1
    <3>3. QED BY <2>4, <3>1, <3>2
  <2>9. QED BY <2>2, <2>3, <2>7, <2>8
<1>5. Nat \subseteq R
  <2> HIDE DEF R
  <2>1. QED BY <1>3, <1>4, SetInduction
<1>6. Len(b) \in Nat /\ seen(Len(b)) = t \o b
  OBVIOUS
<1>7. Good(f[Len(b)], seen(Len(b)), flag)
  BY <1>5, <1>6
<1>8. QED BY <1>2, <1>6, <1>7
-----------------------------------------------------------------------------
\* Where the flag is, in the words of the property.
LEMMA OccurrencesAre ==
    ASSUME NEW S, NEW t \in Seq(S), NEW flag \in Seq(S), NEW i
    PROVE  i \in Occurrences(t, flag) <=> At(t, i, flag)
<1>1. CASE i \in 1 .. Len(t) - Len(flag) + 1
  <2>1. Len(t) \in Nat /\ Len(flag) \in Nat /\ i \in Int
    BY <1>1
  <2>2. i + Len(flag) - 1 <= Len(t) /\ i >= 1
    BY <1>1, <2>1
  <2>3. SubSeq(t, i, i + Len(flag) - 1) \in Seq(S)
    BY <2>1, <2>2
  <2>4. PICK p \in Seq(S) : p = SubSeq(t, i, i + Len(flag) - 1)
    BY <2>3, Zenon
  <2>5. Len(p) = Len(flag) /\ \A j \in 1 .. Len(flag) : p[j] = t[i + j - 1]
    BY <2>1, <2>2, <2>4
  <2>6. (\A j \in 1 .. Len(flag) : p[j] = flag[j]) => p = flag
    BY <2>5, SeqEqual
  <2>7. p = flag <=> At(t, i, flag)
    BY <1>1, <2>5, <2>6 DEF At
  <2>8. i \in Occurrences(t, flag) <=> p = flag
    BY <1>1, <2>4 DEF Occurrences
  <2>9. QED BY <2>7, <2>8
<1>2. CASE ~ (i \in 1 .. Len(t) - Len(flag) + 1)
  BY <1>2 DEF Occurrences, At
<1>3. QED BY <1>1, <1>2

\* A clean position, in the words of the property.
LEMMA CleanIs ==
    ASSUME NEW S, NEW t \in Seq(S), NEW flag \in Seq(S), NEW i \in 1 .. Len(t) + 1,
           \A k \in 1 .. Len(flag) - 1 : ~ IsSuffix(SubSeq(flag, 1, k), Before(t, i))
    PROVE  Clean(t, i, flag)
<1>1. SUFFICES ASSUME NEW k \in 1 .. Len(flag) - 1, k <= i - 1
               PROVE  \E j \in 1 .. k : flag[j] # t[i - 1 - k + j]
  BY DEF Clean
<1>2. Len(flag) \in Nat /\ Len(t) \in Nat
  OBVIOUS
<1>3. SubSeq(flag, 1, k) \in Seq(S) /\ SubSeq(t, 1, i - 1) \in Seq(S)
  BY <1>2
<1>4. PICK p \in Seq(S) : p = SubSeq(flag, 1, k)
  BY <1>3, Zenon
<1>5. PICK q \in Seq(S) : q = SubSeq(t, 1, i - 1)
  BY <1>3, Zenon
<1>6. /\ Len(p) = k /\ \A j \in 1 .. k : p[j] = flag[j]
      /\ Len(q) = i - 1 /\ \A j \in 1 .. i - 1 : q[j] = t[j]
  BY <1>2, <1>4, <1>5
<1>7. ~ IsSuffix(p, q)
  BY <1>4, <1>5 DEF Before
<1>8. PICK j \in 1 .. k : p[j] # q[(i - 1) - k + j]
  BY <1>1, <1>6, <1>7, SuffixIs
<1>9. i - 1 - k + j \in 1 .. i - 1
  BY <1>1, <1>2
<1>10. QED BY <1>6, <1>8, <1>9
-----------------------------------------------------------------------------
\* The bytes of texts and of the flags.
Symbols == Byte \cup {CR, LF, "0"}

\* The flags are not empty.
LEMMA FlagType == Flag \in Seq(Symbols) /\ Flag # <<>>
<1>1. CR \in Symbols /\ LF \in Symbols /\ "0" \in Symbols
  BY DEF Symbols
<1> HIDE DEF Symbols
<1>2. CRLF \in Seq(Symbols) /\ Len(CRLF) = 2 /\ <<"0">> \in Seq(Symbols) /\ Len(<<"0">>) = 1
  BY <1>1 DEF CRLF
<1>3. PICK crlf \in Seq(Symbols), zero \in Seq(Symbols) :
        crlf = CRLF /\ Len(crlf) = 2 /\ zero = <<"0">> /\ Len(zero) = 1
  BY <1>2, Zenon
<1>4. \A a, b \in Seq(Symbols) : a \o b \in Seq(Symbols) /\ Len(a \o b) = Len(a) + Len(b)
  OBVIOUS
<1>5. /\ crlf \o crlf \in Seq(Symbols) /\ Len(crlf \o crlf) = 2 + 2
      /\ zero \o crlf \in Seq(Symbols) /\ Len(zero \o crlf) = 1 + 2
  BY <1>3, <1>4, Zenon
<1>6. PICK line \in Seq(Symbols) : line = zero \o crlf /\ Len(line) = 1 + 2
  BY <1>5, Zenon
<1>7. line \o crlf \in Seq(Symbols) /\ Len(line \o crlf) = Len(line) + Len(crlf)
  BY <1>4
<1>8. \A s \in Seq(Symbols) : Len(s) > 0 => s # <<>>
  OBVIOUS
<1>9. HeaderEndFlag = crlf \o crlf /\ ChunkDataEndFlag = line \o crlf
  BY <1>3, <1>6 DEF HeaderEndFlag, ChunkDataEndFlag
<1>10. /\ HeaderEndFlag \in Seq(Symbols) /\ HeaderEndFlag # <<>>
       /\ ChunkDataEndFlag \in Seq(Symbols) /\ ChunkDataEndFlag # <<>>
  BY <1>3, <1>5, <1>6, <1>7, <1>8, <1>9
<1>11. QED BY <1>10 DEF Flag

\* The texts that arrive are made of them.
LEMMA TextsType ==
    ASSUME stream \in Streams
    PROVE  /\ Stream[stream].start \in Seq(Symbols)
           /\ Stream[stream].pieces \subseteq Seq(Symbols)
           /\ Stream[stream].ends \subseteq Seq(Symbols)
<1>1. Byte \subseteq Symbols
  BY DEF Symbols
<1>2. Seq(Byte) \subseteq Seq(Symbols)
  <2> HIDE DEF Symbols
  <2>1. QED BY <1>1
<1>3. QED BY <1>2, MessagesAssumption

\* The stream is one of them, and the matcher knows what has been received.
MatcherInv == /\ stream \in Streams /\ received \in Seq(Symbols)
              /\ Good(matcher, received, Flag)

\* What the matcher knows of the bytes that a message begins with.
LEMMA MatcherInit == Init => MatcherInv
<1>1. SUFFICES ASSUME Init PROVE MatcherInv
  OBVIOUS
<1>2. stream \in Streams /\ received \in Seq(Symbols)
  BY <1>1, TextsType DEF Init
<1>3. PICK flag \in Seq(Symbols) : flag = Flag /\ flag # <<>>
  BY FlagType
<1>4. Good(Unmatched, <<>>, flag)
  BY <1>3, GoodInit
<1>5. Good(Match(Unmatched, received, flag), <<>> \o received, flag)
  <2>1. <<>> \in Seq(Symbols)
    BY EmptySeq
  <2>2. QED BY <1>2, <1>3, <1>4, <2>1, GoodMatch
<1>6. <<>> \o received = received
  BY <1>2
<1>7. QED BY <1>1, <1>2, <1>3, <1>5, <1>6 DEF Init, MatcherInv

\* A read brings a text; nothing else changes what has been received.
Received == \E piece \in Seq(Symbols) : Receive(piece)

\* Only a read moves the matcher, by the bytes that it brings.
LEMMA ReceivedOrNot ==
    ASSUME Next, stream \in Streams
    PROVE  \/ Received
           \/ UNCHANGED <<stream, received, matcher>>
<1>1. CASE ReceivePiece
  BY <1>1, TextsType DEF ReceivePiece, Received
<1>2. CASE ReceiveEnd
  BY <1>2, TextsType DEF ReceiveEnd, Received
<1>3. CASE ParseMessage
  BY <1>3 DEF ParseMessage
<1>4. \A h, tampers : Operate(h, tampers) => UNCHANGED <<stream, received, matcher>>
  BY DEF Operate
<1>5. CASE ChangeHeader
  <2>1. \E h, tampers : Operate(h, tampers)
    BY <1>5, Zenon DEF ChangeHeader
  <2>2. QED BY <1>4, <2>1
<1>6. CASE ChangeFraming
  <2>1. \E h, tampers : Operate(h, tampers)
    BY <1>6, Zenon DEF ChangeFraming
  <2>2. QED BY <1>4, <2>1
<1>7. CASE ChangeCookies
  <2>1. \E h, tampers : Operate(h, tampers)
    BY <1>7, Zenon DEF ChangeCookies
  <2>2. QED BY <1>4, <2>1
<1>8. QED BY <1>1, <1>2, <1>3, <1>5, <1>6, <1>7 DEF Next

\* The matcher knows of every read what it has to know.
LEMMA MatcherNext == MatcherInv /\ [Next]_vars => MatcherInv'
<1>1. SUFFICES ASSUME MatcherInv, [Next]_vars PROVE MatcherInv'
  OBVIOUS
<1>2. PICK flag \in Seq(Symbols) : flag = Flag /\ flag # <<>>
  BY FlagType
<1>3. CASE Received
  <2>1. PICK piece \in Seq(Symbols) :
            /\ received' = received \o piece
            /\ matcher' = Match(matcher, piece, Flag)
            /\ stream' = stream
    BY <1>3 DEF Received, Receive
  <2>2. Flag' = Flag
    BY <2>1 DEF Flag, Kind
  <2>3. Good(matcher, received, flag) /\ received \in Seq(Symbols)
    BY <1>1, <1>2 DEF MatcherInv
  <2>4. Good(Match(matcher, piece, flag), received \o piece, flag)
    BY <1>2, <2>3, GoodMatch
  <2>5. received \o piece \in Seq(Symbols)
    BY <2>3
  <2>6. QED BY <1>1, <1>2, <2>1, <2>2, <2>4, <2>5 DEF MatcherInv
<1>4. CASE UNCHANGED <<stream, received, matcher>>
  <2>1. Flag' = Flag
    BY <1>4 DEF Flag, Kind
  <2>2. QED BY <1>1, <1>4, <2>1 DEF MatcherInv
<1>5. CASE UNCHANGED vars
  BY <1>4, <1>5 DEF vars
<1>6. QED BY <1>1, <1>3, <1>4, <1>5, ReceivedOrNot DEF MatcherInv

\* What the matcher knows is the property.
LEMMA MatcherFinds == MatcherInv => FlagFound
<1>1. SUFFICES ASSUME MatcherInv PROVE FlagFound
  OBVIOUS
<1>2. PICK flag \in Seq(Symbols) : flag = Flag /\ flag # <<>>
  BY FlagType
<1>3. Good(matcher, received, flag) /\ received \in Seq(Symbols)
  BY <1>1, <1>2 DEF MatcherInv
<1>4. Len(received) \in Nat /\ Len(flag) \in Nat /\ Len(flag) # 0
  BY <1>2, <1>3
<1>5. ASSUME NEW i \in Occurrences(received, flag),
             \A k \in 1 .. Len(flag) - 1 : ~ IsSuffix(SubSeq(flag, 1, k), Before(received, i))
      PROVE  matcher.found
  <2>1. At(received, i, flag)
    BY <1>3, OccurrencesAre
  <2>2. i \in Nat /\ i \in 1 .. Len(received) + 1
    BY <1>4, <2>1 DEF At
  <2>3. Clean(received, i, flag)
    BY <1>3, <1>5, <2>2, CleanIs
  <2>4. QED BY <1>3, <2>1, <2>2, <2>3 DEF Good
<1>6. ASSUME matcher.found PROVE Occurrences(received, flag) # {}
  <2>1. PICK i \in Nat : At(received, i, flag)
    BY <1>3, <1>6 DEF Good
  <2>2. i \in Occurrences(received, flag)
    BY <1>3, <2>1, OccurrencesAre
  <2>3. QED BY <2>2
<1>7. QED BY <1>2, <1>5, <1>6, Zenon DEF FlagFound

\* However the bytes of a message are cut into reads, procHeader and procBody find the
\* end of its header or of its chunks, unless a beginning of the flag comes right
\* before it, and what they find is the end.
THEOREM FlagIsFound == Spec => []FlagFound
<1>1. Spec => []MatcherInv
  BY MatcherInit, MatcherNext, PTL DEF Spec
<1>2. QED BY <1>1, MatcherFinds, PTL

(***************************************************************************)
(* Texts, and what the scanner needs to know of them.                      *)
(***************************************************************************)

\* Where a byte comes first.
LEMMA IndexByteIs ==
    ASSUME NEW S, NEW b \in Seq(S), NEW c
    PROVE  \/ IndexByte(b, c) = 0 /\ \A i \in 1 .. Len(b) : b[i] # c
           \/ /\ IndexByte(b, c) \in 1 .. Len(b) /\ b[IndexByte(b, c)] = c
              /\ \A i \in 1 .. IndexByte(b, c) - 1 : b[i] # c
<1> DEFINE I == {i \in 1 .. Len(b) : b[i] = c}
<1>1. IndexByte(b, c) = IF I # {} THEN CHOOSE x \in I : \A y \in I : x =< y ELSE 0
  BY DEF IndexByte, SelectInSeq, Min
<1>2. Len(b) \in Nat /\ I \subseteq Nat
  OBVIOUS
<1>3. CASE I = {}
  BY <1>1, <1>3
<1>4. CASE I # {}
  <2>1. PICK x \in I : x = IndexByte(b, c) /\ \A y \in I : x <= y
    <3> HIDE DEF I
    <3>1. \E x \in I : \A y \in I : x =< y
      BY <1>2, <1>4, HasLeast
    <3>2. QED BY <1>1, <1>4, <3>1
  <2>2. ASSUME NEW i \in 1 .. x - 1 PROVE b[i] # c
    <3>1. i \in 1 .. Len(b) /\ ~ (x <= i)
      BY <1>2, <2>1
    <3>2. QED BY <2>1, <3>1
  <2>3. QED BY <2>1, <2>2
<1>5. QED BY <1>3, <1>4

\* It is the only such place.
LEMMA IndexByteAt ==
    ASSUME NEW S, NEW b \in Seq(S), NEW c, NEW k \in 1 .. Len(b), b[k] = c,
           \A i \in 1 .. k - 1 : b[i] # c
    PROVE  IndexByte(b, c) = k
<1>1. PICK x : x = IndexByte(b, c)
  OBVIOUS
<1>2. x \in 1 .. Len(b) /\ b[x] = c /\ \A i \in 1 .. x - 1 : b[i] # c
  <2>1. ~ \A i \in 1 .. Len(b) : b[i] # c
    OBVIOUS
  <2>2. QED BY <1>1, <2>1, IndexByteIs
<1>3. ~ (x < k) /\ ~ (k < x)
  <2>1. Len(b) \in Nat
    OBVIOUS
  <2>2. x < k => x \in 1 .. k - 1
    BY <1>2, <2>1
  <2>3. k < x => k \in 1 .. x - 1
    BY <1>2, <2>1
  <2>4. QED BY <1>2, <2>2, <2>3
<1>4. QED BY <1>1, <1>2, <1>3

\* What follows the first n bytes.
LEMMA FromIs ==
    ASSUME NEW S, NEW b \in Seq(S), NEW n \in 0 .. Len(b)
    PROVE  /\ From(b, n) \in Seq(S) /\ Len(From(b, n)) = Len(b) - n
           /\ \A i \in 1 .. Len(b) - n : From(b, n)[i] = b[n + i]
<1>1. Len(b) \in Nat
  OBVIOUS
<1>2. SubSeq(b, n + 1, Len(b)) \in Seq(S)
  BY <1>1
<1>3. PICK r \in Seq(S) : r = SubSeq(b, n + 1, Len(b))
  BY <1>2, Zenon
<1>4. Len(r) = Len(b) - n /\ \A i \in 1 .. Len(b) - n : r[i] = b[n + i]
  BY <1>1, <1>3
<1>5. QED BY <1>3, <1>4 DEF From

\* What follows the first bytes of what follows the first bytes.
LEMMA FromFrom ==
    ASSUME NEW S, NEW b \in Seq(S), NEW n \in 0 .. Len(b), NEW m \in 0 .. Len(b) - n
    PROVE  From(From(b, n), m) = From(b, n + m)
<1>1. Len(b) \in Nat /\ n + m \in 0 .. Len(b)
  OBVIOUS
<1>2. PICK r \in Seq(S) : r = From(b, n)
  BY FromIs
<1>3. Len(r) = Len(b) - n /\ \A i \in 1 .. Len(b) - n : r[i] = b[n + i]
  BY <1>2, FromIs
<1>4. m \in 0 .. Len(r)
  BY <1>3
<1>5. PICK u \in Seq(S) :
        u = From(r, m) /\ Len(u) = Len(r) - m /\ \A i \in 1 .. Len(r) - m : u[i] = r[m + i]
  BY <1>4, FromIs
<1>6. PICK v \in Seq(S) : v = From(b, n + m)
  BY <1>1, FromIs
<1>7. Len(v) = Len(b) - (n + m) /\ \A i \in 1 .. Len(b) - (n + m) : v[i] = b[n + m + i]
  BY <1>1, <1>6, FromIs
<1>8. Len(u) = Len(v)
  BY <1>1, <1>3, <1>5, <1>7
<1>9. ASSUME NEW i \in 1 .. Len(v) PROVE u[i] = v[i]
  <2>1. m + i \in 1 .. Len(b) - n /\ n + (m + i) = n + m + i /\ i \in 1 .. Len(b) - n - m
    BY <1>1, <1>7
  <2>2. i \in 1 .. Len(r) - m
    BY <1>3, <2>1
  <2>3. u[i] = r[m + i] /\ r[m + i] = b[n + (m + i)] /\ v[i] = b[n + m + i]
    BY <1>3, <1>5, <1>7, <2>1, <2>2
  <2>4. QED BY <2>1, <2>3
<1>10. u = v
  BY <1>8, <1>9, SeqEqual
<1>11. QED BY <1>2, <1>5, <1>6, <1>10

\* r is what follows the first n bytes of b.
IsRest(r, b, n) ==
    /\ r = From(b, n) /\ n \in 0 .. Len(b) /\ Len(b) \in Nat /\ Len(r) \in Nat
    /\ Len(r) = Len(b) - n /\ \A i \in 1 .. Len(r) : r[i] = b[n + i]

\* There is such a rest, of bytes as those of the text.
LEMMA RestIs ==
    ASSUME NEW S, NEW b \in Seq(S), NEW n, n \in 0 .. Len(b)
    PROVE  \E r \in Seq(S) : IsRest(r, b, n)
<1>1. PICK r \in Seq(S) : r = From(b, n)
  BY FromIs
<1>2. Len(b) \in Nat /\ Len(r) \in Nat
  OBVIOUS
<1>3. QED BY <1>1, <1>2, FromIs DEF IsRest

\* Without the spaces at the beginning: all of it when there are only spaces.
LEMMA TrimLeftIs ==
    ASSUME NEW S, NEW b \in Seq(S), NEW c, \E i \in 1 .. Len(b) : b[i] # c
    PROVE  \E n \in 0 .. Len(b) - 1 : TrimLeft(b, c) = From(b, n) /\ \A i \in 1 .. n : b[i] = c
<1> DEFINE I == {i \in 1 .. Len(b) : b[i] # c}
           j == SelectInSeq(b, LAMBDA x : x # c)
<1>1. j = IF I # {} THEN CHOOSE x \in I : \A y \in I : x =< y ELSE 0
  BY DEF SelectInSeq, Min
<1>2. Len(b) \in Nat /\ I \subseteq Nat /\ I # {}
  OBVIOUS
<1>3. PICK x \in I : x = j /\ \A y \in I : x <= y
  <2> HIDE DEF I
  <2>1. \E x \in I : \A y \in I : x =< y
    BY <1>2, HasLeast
  <2> HIDE DEF j
  <2>2. QED BY <1>1, <1>2, <2>1
<1>4. ASSUME NEW i \in 1 .. x - 1 PROVE b[i] = c
  <2>1. i \in 1 .. Len(b) /\ ~ (x <= i)
    BY <1>2, <1>3
  <2>2. QED BY <1>3, <2>1
<1>5. TrimLeft(b, c) = IF j = 0 THEN <<>> ELSE From(b, j - 1)
  BY DEF TrimLeft
<1>6. x \in 1 .. Len(b)
  BY <1>3
<1> HIDE DEF I, j
<1>7. TrimLeft(b, c) = From(b, x - 1) /\ x - 1 \in 0 .. Len(b) - 1
  BY <1>2, <1>3, <1>5, <1>6
<1>8. QED BY <1>4, <1>7

\* The least number of a set.
LEMMA MinIs ==
    ASSUME NEW T, T \subseteq Int, NEW n \in T, \A k \in T : n <= k
    PROVE  Min(T) = n
<1>1. \E x \in T : \A y \in T : x =< y
  OBVIOUS
<1>2. PICK x \in T : x = Min(T) /\ \A y \in T : x =< y
  BY <1>1 DEF Min
<1>3. x <= n /\ n <= x
  BY <1>2
<1>4. QED BY <1>2, <1>3

\* What the scanner remembers of the next line, r being what is not scanned.
NextKnown(r, nextColon, nextNewLine) ==
    \/ nextColon = -1 /\ nextNewLine = -1
    \/ /\ nextColon = Position(r, ":") /\ nextColon >= 0
       /\ nextColon < Position(r, LF) /\ nextNewLine = Position(r, LF) - nextColon - 1

\* A value whose next line does not go on with it ends with its first line.
LEMMA NotFolded ==
    ASSUME NEW S, NEW b \in Seq(S), NEW n \in 0 .. Len(b) - 1, ~ IsContinued(b, n + 1), b[n + 1] = LF
    PROVE  \E nextColon, nextNewLine :
               /\ FoldedLines(b, n) = [n |-> n, nextColon |-> nextColon, nextNewLine |-> nextNewLine]
               /\ NextKnown(From(b, n + 1), nextColon, nextNewLine)
<1> DEFINE size(k)   == Position(From(b, k + 1), LF)
           line(k)   == SubSeq(b, k + 2, k + 1 + size(k))
           goesOn(k) == k + 1 < Len(b) /\ b[k + 2] \in {" ", "\t"} /\ size(k) > 0
           ends   == {k \in n .. Len(b) - 1 : k = n \/ b[k + 1] = LF}
           found  == [k \in ends |->
                         IF ~goesOn(k) THEN [n |-> k, nextColon |-> -1, nextNewLine |-> -1]
                         ELSE [n |-> k, nextColon |-> Position(line(k), ":"),
                               nextNewLine |-> size(k) - Position(line(k), ":") - 1]]
           T      == {k \in ends : goesOn(k) => ":" \in Range(line(k))}
<1>1. FoldedLines(b, n) = found[Min(T)]
  BY DEF FoldedLines
<1>2. Len(b) \in Nat /\ n + 1 \in 0 .. Len(b)
  OBVIOUS
<1>3. PICK r \in Seq(S) : /\ r = From(b, n + 1) /\ Len(r) = Len(b) - (n + 1)
                          /\ \A i \in 1 .. Len(b) - (n + 1) : r[i] = b[n + 1 + i]
  BY <1>2, FromIs
<1>4. PICK j \in Int : j = IndexByte(r, LF)
  BY IndexByteIs
<1>5. size(n) = j - 1
  BY <1>3, <1>4 DEF Position
<1>6. ASSUME goesOn(n)
      PROVE  \E l \in Seq(S) : /\ l = line(n) /\ Len(l) = j - 1 /\ j \in 2 .. Len(r)
                               /\ \A i \in 1 .. j - 1 : l[i] = r[i]
                               /\ ":" \in Range(l)
  <2>1. j \in 2 .. Len(r)
    <3>1. size(n) > 0
      BY <1>6
    <3>2. j > 1
      <4> HIDE DEF size
      <4>1. QED BY <1>4, <1>5, <3>1
    <3>3. QED BY <1>4, <3>2, IndexByteIs
  <2>2. SubSeq(b, n + 2, n + j) \in Seq(S) /\ SubSeq(r, 1, j - 1) \in Seq(S)
    BY <1>2, <1>3, <2>1
  <2>3. PICK l \in Seq(S), u \in Seq(S) : l = SubSeq(b, n + 2, n + j) /\ u = SubSeq(r, 1, j - 1)
    BY <2>2, Zenon
  <2>4. Len(l) = j - 1 /\ \A i \in 1 .. j - 1 : l[i] = b[n + 1 + i]
    BY <1>2, <1>3, <2>1, <2>3
  <2>5. Len(u) = j - 1 /\ \A i \in 1 .. j - 1 : u[i] = r[i]
    BY <1>2, <1>3, <2>1, <2>3
  <2>6. \A i \in 1 .. j - 1 : l[i] = r[i]
    BY <1>2, <1>3, <2>1, <2>4
  <2>7. l = u
    BY <2>4, <2>5, <2>6, SeqEqual
  <2>8. UpTo(From(b, n + 1), LF) = u
    BY <1>3, <1>4, <2>1, <2>3 DEF UpTo, Before
  <2>9. n + 1 < Len(b) /\ b[(n + 1) + 1] \in {" ", "\t"}
    <3>1. n + 2 = (n + 1) + 1
      OBVIOUS
    <3>2. QED BY <1>6, <3>1
  <2>10. ":" \in Range(l)
    BY <2>7, <2>8, <2>9 DEF IsContinued
  <2>11. line(n) = l
    <3>1. n + 1 + size(n) = n + j
      BY <1>4, <1>5
    <3>2. QED BY <2>3, <3>1
  <2>12. QED BY <2>1, <2>4, <2>6, <2>10, <2>11
<1>7. Min(T) = n
  <2>1. n \in T
    <3>1. n \in ends
      BY <1>2
    <3>2. goesOn(n) => ":" \in Range(line(n))
      <4> HIDE DEF goesOn, line
      <4>1. QED BY <1>6
    <3> HIDE DEF goesOn, line, ends
    <3>3. QED BY <3>1, <3>2
  <2>2. T \subseteq Int /\ \A k \in T : n <= k
    <3>1. T \subseteq n .. Len(b) - 1
      <4> HIDE DEF goesOn, line
      <4>1. QED OBVIOUS
    <3> HIDE DEF T
    <3>2. QED BY <1>2, <3>1
  <2> HIDE DEF T
  <2>3. QED BY <2>1, <2>2, MinIs
<1>8. found[n] = IF ~goesOn(n) THEN [n |-> n, nextColon |-> -1, nextNewLine |-> -1]
                 ELSE [n |-> n, nextColon |-> Position(line(n), ":"),
                       nextNewLine |-> size(n) - Position(line(n), ":") - 1]
  <2>1. n \in ends
    BY <1>2
  <2> HIDE DEF ends, goesOn, line, size
  <2>2. QED BY <2>1
<1> HIDE DEF T, found
<1>9. CASE ~ goesOn(n)
  <2>1. FoldedLines(b, n) = [n |-> n, nextColon |-> -1, nextNewLine |-> -1]
    BY <1>1, <1>7, <1>8, <1>9
  <2>2. NextKnown(From(b, n + 1), -1, -1)
    BY DEF NextKnown
  <2>3. QED BY <2>1, <2>2
<1>10. CASE goesOn(n)
  <2>1. PICK l \in Seq(S) : /\ l = line(n) /\ Len(l) = j - 1 /\ j \in 2 .. Len(r)
                            /\ \A i \in 1 .. j - 1 : l[i] = r[i]
                            /\ ":" \in Range(l)
    BY <1>6, <1>10
  <2>2. PICK c : c = IndexByte(l, ":")
    OBVIOUS
  <2>3. c \in 1 .. Len(l) /\ l[c] = ":" /\ \A i \in 1 .. c - 1 : l[i] # ":"
    <3>1. \E i \in 1 .. Len(l) : l[i] = ":"
      BY <2>1 DEF Range
    <3>2. QED BY <2>2, <3>1, IndexByteIs
  <2>4. c \in 1 .. Len(r) /\ c \in 1 .. j - 1 /\ \A i \in 1 .. c - 1 : i \in 1 .. j - 1
    BY <2>1, <2>3
  <2>5. r[c] = ":" /\ \A i \in 1 .. c - 1 : r[i] # ":"
    BY <2>1, <2>3, <2>4
  <2>6. IndexByte(r, ":") = c
    BY <2>4, <2>5, IndexByteAt
  <2>7. FoldedLines(b, n) = [n |-> n, nextColon |-> c - 1, nextNewLine |-> (j - 1) - (c - 1) - 1]
    <3>1. Position(line(n), ":") = c - 1
      BY <2>1, <2>2 DEF Position
    <3> HIDE DEF goesOn, line, size
    <3>2. QED BY <1>1, <1>5, <1>7, <1>8, <1>10, <3>1
  <2>8. NextKnown(r, c - 1, (j - 1) - (c - 1) - 1)
    BY <1>4, <2>1, <2>3, <2>4, <2>6 DEF NextKnown, Position
  <2>9. QED BY <1>3, <2>7, <2>8
<1>11. QED BY <1>9, <1>10

\* A continued line in a text is one in what follows its first bytes.
LEMMA ContinuedFrom ==
    ASSUME NEW S, NEW b \in Seq(S), NEW n \in 0 .. Len(b), NEW i \in 1 .. Len(b) - n,
           IsContinued(From(b, n), i)
    PROVE  IsContinued(b, n + i)
<1>1. PICK r \in Seq(S) : IsRest(r, b, n)
  BY RestIs
<1>2. From(r, i) = From(b, n + i)
  <2>1. i \in 0 .. Len(b) - n
    OBVIOUS
  <2>2. QED BY <1>1, <2>1, FromFrom DEF IsRest
<1>3. /\ r[i] = LF /\ i < Len(r) /\ r[i + 1] \in {" ", "\t"}
      /\ ":" \notin Range(UpTo(From(r, i), LF))
  BY <1>1 DEF IsContinued, IsRest
<1>4. /\ i \in 1 .. Len(r) /\ i + 1 \in 1 .. Len(r) /\ n + i < Len(b)
      /\ n + (i + 1) = (n + i) + 1
  <2>1. Len(b) \in Nat /\ Len(r) \in Nat /\ Len(r) = Len(b) - n /\ n \in Nat
    BY <1>1 DEF IsRest
  <2>2. i < Len(r)
    BY <1>3
  <2>3. QED BY <2>1, <2>2
<1>5. r[i] = b[n + i] /\ r[i + 1] = b[n + (i + 1)]
  BY <1>1, <1>4 DEF IsRest
<1>6. b[(n + i) + 1] \in {" ", "\t"}
  BY <1>3, <1>4, <1>5
<1>7. QED BY <1>2, <1>3, <1>4, <1>5, <1>6 DEF IsContinued
-----------------------------------------------------------------------------
\* The fields of a scanner.
IsScanner(s) ==
    s = [b |-> s.b, junk |-> s.junk, hLen |-> s.hLen, key |-> s.key, value |-> s.value,
         nextColon |-> s.nextColon, nextNewLine |-> s.nextNewLine, more |-> s.more, err |-> s.err]

\* A scanner that has taken a key, and then a value.
WithKey(s, key, hLen) == [s EXCEPT !.key = key, !.hLen = hLen]
WithValue(s, value, b, hLen, nextColon, nextNewLine) ==
    [s EXCEPT !.value = value, !.b = b, !.hLen = hLen,
              !.nextColon = nextColon, !.nextNewLine = nextNewLine]

\* The fields of a scanner that has taken a key.
LEMMA KeyTaken ==
    ASSUME NEW s, IsScanner(s), NEW key, NEW hLen
    PROVE  LET t == WithKey(s, key, hLen)
           IN  /\ IsScanner(t) /\ t.b = s.b /\ t.junk = s.junk /\ t.hLen = hLen
               /\ t.more = s.more /\ t.err = s.err
<1>1. PICK t : t = WithKey(s, key, hLen)
  OBVIOUS
<1>2. t = [b |-> s.b, junk |-> s.junk, hLen |-> hLen, key |-> key, value |-> s.value,
           nextColon |-> s.nextColon, nextNewLine |-> s.nextNewLine, more |-> s.more, err |-> s.err]
  BY <1>1 DEF IsScanner, WithKey
<1>3. /\ t.b = s.b /\ t.junk = s.junk /\ t.hLen = hLen /\ t.key = key /\ t.value = s.value
      /\ t.nextColon = s.nextColon /\ t.nextNewLine = s.nextNewLine
      /\ t.more = s.more /\ t.err = s.err
  BY <1>2
<1>4. IsScanner(t)
  BY <1>2, <1>3 DEF IsScanner
<1>5. QED BY <1>1, <1>3, <1>4

\* The fields of a scanner that has taken a value.
LEMMA ValueTaken ==
    ASSUME NEW s, IsScanner(s), NEW value, NEW b, NEW hLen, NEW nextColon, NEW nextNewLine
    PROVE  LET t == WithValue(s, value, b, hLen, nextColon, nextNewLine)
           IN  /\ IsScanner(t) /\ t.b = b /\ t.junk = s.junk /\ t.hLen = hLen
               /\ t.nextColon = nextColon /\ t.nextNewLine = nextNewLine
               /\ t.more = s.more /\ t.err = s.err
<1>1. PICK t : t = WithValue(s, value, b, hLen, nextColon, nextNewLine)
  OBVIOUS
<1>2. t = [b |-> b, junk |-> s.junk, hLen |-> hLen, key |-> s.key, value |-> value,
           nextColon |-> nextColon, nextNewLine |-> nextNewLine, more |-> s.more, err |-> s.err]
  BY <1>1 DEF IsScanner, WithValue
<1>3. /\ t.b = b /\ t.junk = s.junk /\ t.hLen = hLen /\ t.key = s.key /\ t.value = value
      /\ t.nextColon = nextColon /\ t.nextNewLine = nextNewLine
      /\ t.more = s.more /\ t.err = s.err
  BY <1>2
<1>4. IsScanner(t)
  BY <1>2, <1>3 DEF IsScanner
<1>5. QED BY <1>1, <1>3, <1>4

\* A scanner that has moved nothing is h bytes into the text.
Scanning(body, s, h) ==
    /\ IsScanner(s) /\ h \in 0 .. Len(body)
    /\ s.hLen = h /\ s.b = From(body, h) /\ s.junk = <<>>

\* The first colon of r, and the end of its line.
ColonAt(r, colon, lf) ==
    /\ colon \in Nat /\ colon = Position(r, ":") /\ lf \in Nat /\ lf = Position(r, LF)
    /\ colon < lf

\* A line with a colon is taken, up to its end and not further.
LEMMA ScanValueIs ==
    ASSUME NEW S, NEW body \in Seq(S), NEW s, NEW h, Scanning(body, s, h),
           NextKnown(s.b, s.nextColon, s.nextNewLine),
           NEW colon, NEW lf, ColonAt(s.b, colon, lf),
           ~ IsContinued(body, h + lf + 1)
    PROVE  \E t : /\ t = ScanValue(s, colon) /\ Scanning(body, t, h + lf + 1)
                  /\ NextKnown(t.b, t.nextColon, t.nextNewLine)
                  /\ t.more = s.more /\ t.err = s.err
<1>1. /\ Len(body) \in Nat /\ h \in 0 .. Len(body) /\ s.hLen = h
      /\ colon \in Nat /\ lf \in Nat /\ colon < lf
  BY DEF Scanning, ColonAt
<1>2. PICK r \in Seq(S) : IsRest(r, body, h)
  BY <1>1, RestIs
<1>3. s.b = r
  BY <1>2 DEF Scanning, IsRest
<1>4. Len(r) \in Nat /\ lf + 1 \in 1 .. Len(r) /\ r[lf + 1] = LF /\ \A i \in 1 .. lf : r[i] # LF
  <2>1. PICK k \in Int : k = IndexByte(r, LF)
    BY IndexByteIs
  <2>2. lf = k - 1
    BY <1>3, <2>1 DEF Position, ColonAt
  <2>3. k # 0 /\ k = lf + 1 /\ k - 1 = lf
    BY <1>1, <2>1, <2>2
  <2>4. k \in 1 .. Len(r) /\ r[k] = LF /\ \A i \in 1 .. k - 1 : r[i] # LF
    BY <2>1, <2>3, IndexByteIs
  <2>5. QED BY <1>2, <2>3, <2>4 DEF IsRest
<1>5. PICK c \in 1 .. lf : c = colon + 1
  <2>1. colon + 1 \in 1 .. lf
    BY <1>1
  <2>2. QED BY <2>1, Zenon
<1>6. PICK after \in Seq(S) : IsRest(after, r, c)
  <2>1. c \in 0 .. Len(r)
    BY <1>1, <1>4
  <2>2. QED BY <2>1, RestIs
<1>7. PICK e \in 1 .. Len(after) : e = lf + 1 - c /\ after[e] = LF
  <2>1. lf + 1 - c \in 1 .. Len(after) /\ c + (lf + 1 - c) = lf + 1
    <3>1. Len(r) \in Nat /\ Len(after) = Len(r) - c
      BY <1>6 DEF IsRest
    <3>2. QED BY <1>1, <1>4, <3>1
  <2>2. after[lf + 1 - c] = LF
    BY <1>4, <1>6, <2>1 DEF IsRest
  <2>3. QED BY <2>1, <2>2
<1>8. LF # " "
  BY DEF LF
<1>9. PICK m \in 0 .. Len(after) - 1 :
        TrimLeft(after, " ") = From(after, m) /\ \A i \in 1 .. m : after[i] = " "
  BY <1>7, <1>8, TrimLeftIs
<1>10. m \in Nat /\ m < e /\ m \in 0 .. Len(after)
  <2>1. Len(after) \in Nat
    BY <1>6 DEF IsRest
  <2>2. ~ (e \in 1 .. m)
    BY <1>7, <1>8, <1>9
  <2>3. QED BY <2>1, <2>2
<1>11. PICK b \in Seq(S) : IsRest(b, after, m)
  BY <1>10, RestIs
<1>12. Len(after) - Len(b) = m
  BY <1>11 DEF IsRest
<1>13. PICK first \in Nat : first = e - 1 - m
  <2>1. e - 1 - m \in Nat
    BY <1>10
  <2>2. QED BY <2>1, Zenon
<1>14. first + 1 \in 1 .. Len(b) /\ b[first + 1] = LF
  <2>1. first + 1 \in 1 .. Len(b) /\ m + (first + 1) = e
    BY <1>10, <1>11, <1>13 DEF IsRest
  <2>2. QED BY <1>7, <1>11, <2>1 DEF IsRest
<1>15. ASSUME NEW i \in 1 .. first PROVE b[i] # LF
  <2>1. i \in 1 .. Len(b) /\ m + i \in 1 .. Len(after) /\ c + (m + i) \in 1 .. lf
    <3>1. /\ Len(after) \in Nat /\ Len(b) \in Nat /\ Len(b) = Len(after) - m
          /\ first = e - 1 - m /\ e = lf + 1 - c /\ m \in Nat
      BY <1>6, <1>7, <1>10, <1>11, <1>13 DEF IsRest
    <3>2. i \in Nat /\ i >= 1 /\ i <= first /\ first + 1 <= Len(b) /\ lf \in Nat /\ c \in 1 .. lf
      BY <1>1, <1>14
    <3>3. QED BY <3>1, <3>2
  <2>2. b[i] = after[m + i]
    BY <1>11, <2>1 DEF IsRest
  <2>3. after[m + i] = r[c + (m + i)]
    BY <1>6, <2>1 DEF IsRest
  <2>4. QED BY <1>4, <2>1, <2>2, <2>3
<1>16. first = lf - colon - 1 - m
  BY <1>1, <1>5, <1>7, <1>10, <1>13
<1>17. Position(b, LF) = first
  <2>1. \A i \in 1 .. (first + 1) - 1 : b[i] # LF
    BY <1>15
  <2>2. IndexByte(b, LF) = first + 1
    BY <1>14, <2>1, IndexByteAt
  <2>3. QED BY <2>2 DEF Position
<1>18. NewLine(s, b, m) = first
  <2>1. CASE s.nextNewLine >= m
    <3>1. s.nextNewLine = lf - colon - 1
      BY <1>10, <2>1 DEF NextKnown, ColonAt
    <3>2. QED BY <1>16, <2>1, <3>1 DEF NewLine
  <2>2. CASE ~ (s.nextNewLine >= m)
    BY <1>17, <2>2 DEF NewLine
  <2>3. QED BY <2>1, <2>2
<1>19. PICK v \in 0 .. Len(body) : /\ IsRest(b, body, v)
                                   /\ v + (first + 1) = h + lf + 1
  <2>1. PICK w \in Nat : w = h + c /\ w \in 0 .. Len(body) /\ c \in 0 .. Len(body) - h
    <3>1. h + c \in 0 .. Len(body) /\ c \in 0 .. Len(body) - h
      <4>1. Len(r) = Len(body) - h /\ Len(body) \in Nat /\ h \in Nat
        BY <1>2 DEF IsRest
      <4>2. QED BY <1>1, <1>4, <4>1
    <3>2. QED BY <3>1
  <2>2. after = From(body, w)
    BY <1>2, <1>6, <2>1, FromFrom DEF IsRest
  <2>3. Len(after) = Len(body) - w
    BY <1>2, <1>6, <2>1 DEF IsRest
  <2>4. PICK v \in Nat : v = w + m /\ v \in 0 .. Len(body) /\ m \in 0 .. Len(body) - w
    <3>1. w + m \in 0 .. Len(body) /\ m \in 0 .. Len(body) - w
      BY <1>1, <1>10, <2>1, <2>3
    <3>2. QED BY <3>1
  <2>5. b = From(body, v)
    BY <1>11, <2>1, <2>2, <2>4, FromFrom DEF IsRest
  <2>6. IsRest(b, body, v)
    <3>1. PICK u \in Seq(S) : IsRest(u, body, v)
      BY <2>4, RestIs
    <3>2. u = b
      BY <2>5, <3>1 DEF IsRest
    <3>3. QED BY <3>1, <3>2
  <2>7. v + (first + 1) = h + lf + 1
    BY <1>1, <1>7, <1>10, <1>13, <2>1, <2>4
  <2>8. QED BY <2>4, <2>6, <2>7
<1>20. ~ IsContinued(b, first + 1)
  <2>1. first + 1 \in 1 .. Len(body) - v
    BY <1>14, <1>19 DEF IsRest
  <2>2. ~ IsContinued(From(body, v), first + 1)
    BY <1>19, <2>1, ContinuedFrom
  <2>3. QED BY <1>19, <2>2 DEF IsRest
<1>21. first \in 0 .. Len(b) - 1
  BY <1>14, <1>11 DEF IsRest
<1>22. PICK nextColon, nextNewLine :
         /\ FoldedLines(b, first) = [n |-> first, nextColon |-> nextColon, nextNewLine |-> nextNewLine]
         /\ NextKnown(From(b, first + 1), nextColon, nextNewLine)
  BY <1>14, <1>20, <1>21, NotFolded
<1>23. From(b, first + 1) = From(body, h + lf + 1)
  <2>1. first + 1 \in 0 .. Len(body) - v
    BY <1>14, <1>19 DEF IsRest
  <2>2. From(From(body, v), first + 1) = From(body, v + (first + 1))
    BY <2>1, FromFrom
  <2>3. QED BY <1>19, <2>2 DEF IsRest
<1>24. PICK s2 :
         /\ s2 = WithKey(s, SubSeq(s.b, 1, colon), s.hLen + colon + 2 + m)
         /\ IsScanner(s2) /\ s2.junk = s.junk /\ s2.hLen = s.hLen + colon + 2 + m
         /\ s2.more = s.more /\ s2.err = s.err
  <2>1. IsScanner(s)
    BY DEF Scanning
  <2>2. QED BY <2>1, KeyTaken
<1>25. ScanValue(s, colon) = TakeValue(s2, b, first, FoldedLines(b, first))
  <2>1. From(s.b, colon + 1) = after /\ TrimLeft(after, " ") = b
    BY <1>3, <1>5, <1>6, <1>9, <1>11 DEF IsRest
  <2>2. ~ (first < 0)
    BY <1>13
  <2>3. QED BY <1>12, <1>18, <1>24, <2>1, <2>2 DEF ScanValue, WithKey
<1>26. PICK value :
         ScanValue(s, colon) =
           WithValue(s2, value, From(b, first + 1), s2.hLen + first, nextColon, nextNewLine)
  <2>1. ~ (first > first)
    BY <1>13
  <2>2. PICK end : end = FoldedLines(b, first)
    OBVIOUS
  <2>3. end.n = first /\ end.nextColon = nextColon /\ end.nextNewLine = nextNewLine
    BY <1>22, <2>2
  <2>4. QED BY <1>25, <2>1, <2>2, <2>3 DEF TakeValue, WithValue
<1>27. PICK t :
         /\ t = ScanValue(s, colon) /\ IsScanner(t) /\ t.b = From(body, h + lf + 1)
         /\ t.hLen = (h + colon + 2 + m) + first
         /\ t.junk = <<>> /\ t.nextColon = nextColon /\ t.nextNewLine = nextNewLine
         /\ t.more = s.more /\ t.err = s.err
  <2>1. s.junk = <<>> /\ s.hLen = h
    BY DEF Scanning
  <2>2. PICK t : t = WithValue(s2, value, From(b, first + 1), s2.hLen + first, nextColon, nextNewLine)
    OBVIOUS
  <2>3. /\ IsScanner(t) /\ t.b = From(b, first + 1) /\ t.junk = s2.junk
        /\ t.hLen = s2.hLen + first
        /\ t.nextColon = nextColon /\ t.nextNewLine = nextNewLine
        /\ t.more = s2.more /\ t.err = s2.err
    BY <1>24, <2>2, ValueTaken
  <2>4. QED BY <1>23, <1>24, <1>26, <2>1, <2>2, <2>3
<1>28. (h + colon + 2 + m) + first = h + lf + 1
  BY <1>1, <1>10, <1>16
<1>29. h + lf + 1 \in 0 .. Len(body)
  BY <1>1, <1>2, <1>4 DEF IsRest
<1>30. Scanning(body, t, h + lf + 1)
  BY <1>27, <1>28, <1>29 DEF Scanning
<1>31. QED BY <1>22, <1>23, <1>27, <1>30

(***************************************************************************)
(* A round of the scanner.                                                 *)
(***************************************************************************)

\* An empty line ends at i: the end of a header, as ReadRawHeaders looks for it.
EndsAt(b, i) == \/ b[i] = LF /\ (i = 1 \/ b[i - 1] = LF)
                \/ b[i] = LF /\ b[i - 1] = CR /\ (i = 2 \/ b[i - 2] = LF)

\* The header that b begins with is its first i bytes at least.
Within(b, i) == \A j \in 1 .. i : ~ EndsAt(b, j)

\* No line of the header that b begins with is continued.
Plain(b) == \A i \in 1 .. Len(b) : Within(b, i) => ~ IsContinued(b, i)

\* The scanner is at the beginning of a line; it has found the end; it has given up.
AtLine(body, s, h) ==
    /\ Scanning(body, s, h) /\ s.more = TRUE /\ s.err = FALSE
    /\ h = 0 \/ body[h] = LF
    /\ NextKnown(s.b, s.nextColon, s.nextNewLine)
    /\ Within(body, h)
AtEnd(body, s, h) ==
    /\ Scanning(body, s, h) /\ s.more = FALSE /\ s.err = FALSE
    /\ h \in 1 .. Len(body) /\ EndsAt(body, h) /\ Within(body, h - 1)
HasFailed(s) == s.more = FALSE /\ s.err = TRUE

\* A line with a colon is no end of the header.
LEMMA LineIsWithin ==
    ASSUME NEW S, NEW body \in Seq(S), NEW h, NEW s, Scanning(body, s, h), Within(body, h),
           NEW colon, NEW lf, ColonAt(s.b, colon, lf)
    PROVE  h + lf + 1 \in 1 .. Len(body) /\ body[h + lf + 1] = LF /\ Within(body, h + lf + 1)
<1>1. h \in 0 .. Len(body) /\ colon \in Nat /\ lf \in Nat /\ colon < lf
  BY DEF Scanning, ColonAt
<1>2. PICK r \in Seq(S) : IsRest(r, body, h)
  BY <1>1, RestIs
<1>3. s.b = r
  BY <1>2 DEF Scanning, IsRest
<1>4. lf + 1 \in 1 .. Len(r) /\ r[lf + 1] = LF /\ \A i \in 1 .. lf : r[i] # LF
  <2>1. PICK k \in Int : k = IndexByte(r, LF)
    BY IndexByteIs
  <2>2. lf = k - 1
    BY <1>3, <2>1 DEF Position, ColonAt
  <2>3. k # 0 /\ k = lf + 1 /\ k - 1 = lf
    BY <1>1, <2>1, <2>2
  <2>4. k \in 1 .. Len(r) /\ r[k] = LF /\ \A i \in 1 .. k - 1 : r[i] # LF
    BY <2>1, <2>3, IndexByteIs
  <2>5. QED BY <1>2, <2>3, <2>4 DEF IsRest
<1>5. colon + 1 \in 1 .. Len(r) /\ r[colon + 1] = ":"
  <2>1. PICK k \in Int : k = IndexByte(r, ":")
    BY IndexByteIs
  <2>2. colon = k - 1
    BY <1>3, <2>1 DEF Position, ColonAt
  <2>3. k # 0 /\ k = colon + 1
    BY <1>1, <2>1, <2>2
  <2>4. k \in 1 .. Len(r) /\ r[k] = ":"
    BY <2>1, <2>3, IndexByteIs
  <2>5. QED BY <1>2, <2>3, <2>4 DEF IsRest
<1>6. Len(r) \in Nat /\ Len(body) \in Nat /\ Len(r) = Len(body) - h
  BY <1>2 DEF IsRest
<1>7. PICK q \in Nat, p \in Nat : q = h + lf + 1 /\ p = h + colon + 1
  BY <1>1
<1>8. /\ q \in 1 .. Len(body) /\ p \in 1 .. Len(body) /\ p < q /\ h < p
      /\ q = h + (lf + 1) /\ p = h + (colon + 1)
  BY <1>1, <1>4, <1>5, <1>6, <1>7
<1>9. body[q] = LF /\ body[p] = ":"
  BY <1>2, <1>4, <1>5, <1>8 DEF IsRest
<1>10. ASSUME NEW i \in h + 1 .. q - 1 PROVE body[i] # LF
  <2>1. i - h \in 1 .. lf /\ i - h \in 1 .. Len(r) /\ i = h + (i - h)
    BY <1>1, <1>4, <1>6, <1>7
  <2>2. r[i - h] = body[h + (i - h)]
    BY <1>2, <2>1 DEF IsRest
  <2>3. QED BY <1>4, <2>1, <2>2
<1>11. CR # ":" /\ LF # ":" /\ CR # LF
  BY DEF CR, LF
<1>12. ~ EndsAt(body, q)
  <2>1. body[q - 1] # LF
    <3>1. q - 1 \in h + 1 .. q - 1
      BY <1>1, <1>8
    <3>2. QED BY <1>10, <3>1
  <2>2. q # 1
    BY <1>8
  <2>3. ASSUME body[q - 1] = CR PROVE q # 2 /\ body[q - 2] # LF
    <3>1. p # q - 1
      BY <1>9, <1>11, <2>3
    <3>2. q - 2 \in h + 1 .. q - 1 /\ q # 2
      BY <1>1, <1>8, <3>1
    <3>3. QED BY <1>10, <3>2
  <2>4. QED BY <2>1, <2>2, <2>3 DEF EndsAt
<1>13. ASSUME NEW j \in 1 .. q PROVE ~ EndsAt(body, j)
  <2>1. CASE j <= h
    BY <1>1, <2>1 DEF Within
  <2>2. CASE j > h /\ j < q
    <3>1. j \in h + 1 .. q - 1
      BY <1>1, <2>2
    <3>2. QED BY <1>10, <3>1 DEF EndsAt
  <2>3. CASE j = q
    BY <1>12, <2>3
  <2>4. QED BY <1>1, <2>1, <2>2, <2>3
<1>14. QED BY <1>7, <1>8, <1>9, <1>13 DEF Within

\* The bytes of an empty line.
LEMMA EmptyLineIs ==
    ASSUME NEW S, NEW r \in Seq(S)
    PROVE  \/ EmptyLine(r) = 2 /\ Len(r) >= 2 /\ r[1] = CR /\ r[2] = LF
           \/ EmptyLine(r) = 1 /\ Len(r) >= 1 /\ r[1] = LF
           \/ EmptyLine(r) = 0
<1> DEFINE T == S \cup {CR, LF}
<1>1. /\ CRLF \in Seq(T) /\ Len(CRLF) = 2 /\ CRLF[1] = CR /\ CRLF[2] = LF
      /\ <<LF>> \in Seq(T) /\ Len(<<LF>>) = 1 /\ <<LF>>[1] = LF
  BY DEF CRLF
<1>2. r \in Seq(T)
  <2>1. S \subseteq T
    OBVIOUS
  <2> HIDE DEF T
  <2>2. QED BY <2>1
<1> HIDE DEF T
<1>3. IsPrefix(CRLF, r) => Len(r) >= 2 /\ r[1] = CR /\ r[2] = LF
  <2>1. PICK p \in Seq(T) : p = CRLF /\ Len(p) = 2 /\ p[1] = CR /\ p[2] = LF
    BY <1>1, Zenon
  <2>2. IsPrefix(p, r) => Len(p) <= Len(r) /\ \A i \in 1 .. Len(p) : p[i] = r[i]
    BY <1>2, PrefixIs
  <2>3. QED BY <1>2, <2>1, <2>2
<1>4. IsPrefix(<<LF>>, r) => Len(r) >= 1 /\ r[1] = LF
  <2>1. PICK p \in Seq(T) : p = <<LF>> /\ Len(p) = 1 /\ p[1] = LF
    BY <1>1, Zenon
  <2>2. IsPrefix(p, r) => Len(p) <= Len(r) /\ \A i \in 1 .. Len(p) : p[i] = r[i]
    BY <1>2, PrefixIs
  <2>3. QED BY <1>2, <2>1, <2>2
<1>5. QED BY <1>3, <1>4 DEF EmptyLine

\* A round takes a line, or finds the end, or gives up.
LEMMA NextFieldIs ==
    ASSUME NEW S, NEW body \in Seq(S), Plain(body), NEW s, NEW h, AtLine(body, s, h)
    PROVE  \/ \E q \in h + 1 .. Len(body) : AtLine(body, NextField(s), q)
           \/ \E q \in Nat : AtEnd(body, NextField(s), q)
           \/ HasFailed(NextField(s))
<1>1. h \in 0 .. Len(body) /\ IsScanner(s) /\ Scanning(body, s, h) /\ Len(body) \in Nat
  BY DEF AtLine, Scanning
<1>2. PICK r \in Seq(S) : IsRest(r, body, h)
  BY <1>1, RestIs
<1>3. s.b = r
  BY <1>1, <1>2 DEF Scanning, IsRest
<1>4. PICK size : size = EmptyLine(r)
  OBVIOUS
<1>5. PICK colon : colon = IF s.nextColon >= 0 THEN s.nextColon ELSE Position(s.b, ":")
  OBVIOUS
<1>6. PICK lf \in Int : lf = Position(r, LF) /\ lf >= -1
  <2>1. PICK k \in Nat : k = IndexByte(r, LF)
    <3>1. Len(r) \in Nat
      OBVIOUS
    <3>2. IndexByte(r, LF) \in Nat
      BY <3>1, IndexByteIs
    <3>3. QED BY <3>2, Zenon
  <2>2. k - 1 \in Int /\ k - 1 >= -1
    OBVIOUS
  <2>3. QED BY <2>1, <2>2 DEF Position
<1>7. PICK first \in Int : first = Position(r, ":") /\ first >= -1
  <2>1. PICK k \in Nat : k = IndexByte(r, ":")
    <3>1. Len(r) \in Nat
      OBVIOUS
    <3>2. IndexByte(r, ":") \in Nat
      BY <3>1, IndexByteIs
    <3>3. QED BY <3>2, Zenon
  <2>2. k - 1 \in Int /\ k - 1 >= -1
    OBVIOUS
  <2>3. QED BY <2>1, <2>2 DEF Position
<1>8. PICK t : t = NextField(s)
  OBVIOUS
<1>9. t = IF size > 0 THEN [s EXCEPT !.b = From(@, size), !.hLen = @ + size, !.more = FALSE]
          ELSE IF colon < 0 \/ (s.nextColon < 0 /\ lf < colon) THEN Fail(s)
          ELSE ScanValue(s, colon)
  BY <1>3, <1>4, <1>5, <1>6, <1>8 DEF NextField
<1>10. CASE size > 0
  <2>1. size \in {1, 2} /\ size <= Len(r)
    BY <1>4, <1>10, EmptyLineIs
  <2>2. PICK q \in Nat : q = h + size /\ q \in 1 .. Len(body) /\ size \in 0 .. Len(body) - h
    <3>1. Len(r) = Len(body) - h /\ h \in Nat
      BY <1>1, <1>2 DEF IsRest
    <3>2. h + size \in Nat /\ h + size \in 1 .. Len(body) /\ size \in 0 .. Len(body) - h
      BY <1>1, <2>1, <3>1
    <3>3. QED BY <3>2, Zenon
  <2>3. PICK rest, hLen : rest = From(s.b, size) /\ hLen = s.hLen + size
    OBVIOUS
  <2>4. t = [b |-> rest, junk |-> s.junk, hLen |-> hLen, key |-> s.key, value |-> s.value,
             nextColon |-> s.nextColon, nextNewLine |-> s.nextNewLine, more |-> FALSE, err |-> s.err]
    <3>1. t = [s EXCEPT !.b = rest, !.hLen = hLen, !.more = FALSE]
      BY <1>9, <1>10, <2>3
    <3>2. QED BY <1>1, <3>1 DEF IsScanner
  <2>5. /\ t.b = rest /\ t.junk = s.junk /\ t.hLen = hLen /\ t.key = s.key /\ t.value = s.value
        /\ t.nextColon = s.nextColon /\ t.nextNewLine = s.nextNewLine
        /\ t.more = FALSE /\ t.err = s.err
    BY <2>4
  <2>6. IsScanner(t)
    BY <2>4, <2>5 DEF IsScanner
  <2>7. rest = From(body, q) /\ hLen = q
    BY <1>1, <1>2, <1>3, <2>2, <2>3, FromFrom DEF Scanning, IsRest
  <2>8. Scanning(body, t, q) /\ t.more = FALSE /\ t.err = FALSE
    BY <1>1, <2>2, <2>5, <2>6, <2>7 DEF Scanning, AtLine
  <2>9. EndsAt(body, q) /\ Within(body, q - 1)
    <3>1. \A i \in 1 .. size : r[i] = body[h + i]
      BY <1>2, <2>1 DEF IsRest
    <3>2. h = 0 \/ body[h] = LF
      BY DEF AtLine
    <3>3. CASE size = 1
      <4>1. body[q] = LF /\ q - 1 = h
        <5>1. EmptyLine(r) = 1
          BY <1>4, <3>3
        <5>2. EmptyLine(r) # 2 /\ EmptyLine(r) # 0
          BY <5>1
        <5>3. r[1] = LF
          BY <5>2, EmptyLineIs, Zenon
        <5>4. QED BY <1>1, <2>2, <3>1, <3>3, <5>3
      <4>2. EndsAt(body, q)
        BY <2>2, <3>2, <3>3, <4>1 DEF EndsAt
      <4>3. QED BY <4>1, <4>2 DEF AtLine
    <3>4. CASE size = 2
      <4>1. r[1] = CR /\ r[2] = LF
        <5>1. EmptyLine(r) = 2
          BY <1>4, <3>4
        <5>2. EmptyLine(r) # 1 /\ EmptyLine(r) # 0
          BY <5>1
        <5>3. QED BY <5>2, EmptyLineIs, Zenon
      <4>2. body[q] = LF /\ body[q - 1] = CR /\ q - 2 = h /\ q - 1 = h + 1
        BY <1>1, <2>2, <3>1, <3>4, <4>1
      <4>3. EndsAt(body, q)
        BY <2>2, <3>2, <4>2 DEF EndsAt
      <4>4. CR # LF
        BY DEF CR, LF
      <4>5. ~ EndsAt(body, q - 1)
        BY <4>2, <4>4 DEF EndsAt
      <4>6. \A j \in 1 .. q - 1 : j \in 1 .. h \/ j = q - 1
        BY <1>1, <2>2, <4>2
      <4>7. Within(body, q - 1)
        BY <4>5, <4>6 DEF AtLine, Within
      <4>8. QED BY <4>3, <4>7
    <3>5. QED BY <2>1, <3>3, <3>4
  <2>10. QED BY <1>8, <2>2, <2>8, <2>9 DEF AtEnd
<1>11. CASE ~ (size > 0) /\ (colon < 0 \/ (s.nextColon < 0 /\ lf < colon))
  <2>1. t = [s EXCEPT !.more = FALSE, !.err = TRUE]
    BY <1>9, <1>11 DEF Fail
  <2>2. t.more = FALSE /\ t.err = TRUE
    BY <1>1, <2>1 DEF IsScanner
  <2>3. QED BY <1>8, <2>2 DEF HasFailed
<1>12. CASE ~ (size > 0) /\ ~ (colon < 0 \/ (s.nextColon < 0 /\ lf < colon))
  <2>1. NextKnown(r, s.nextColon, s.nextNewLine)
    BY <1>3 DEF AtLine
  <2>2. colon = first /\ colon >= 0 /\ lf # colon => ColonAt(r, colon, lf)
    <3>1. SUFFICES ASSUME colon = first, colon >= 0, lf # colon PROVE colon < lf
      BY <1>6, <1>7 DEF ColonAt
    <3>2. CASE s.nextColon = -1
      BY <1>6, <1>7, <1>12, <3>1, <3>2
    <3>3. CASE s.nextColon >= 0 /\ s.nextColon < lf
      BY <1>5, <3>3
    <3>4. QED BY <1>6, <2>1, <3>2, <3>3 DEF NextKnown
  <2>3. colon = first /\ colon >= 0
    <3>1. CASE s.nextColon = -1
      BY <1>3, <1>5, <1>7, <1>12, <3>1
    <3>2. CASE s.nextColon = first /\ s.nextColon >= 0
      BY <1>5, <3>2
    <3>3. QED BY <1>7, <2>1, <3>1, <3>2 DEF NextKnown
  <2>4. lf # colon
    <3>1. SUFFICES ASSUME lf = colon PROVE FALSE
      OBVIOUS
    <3>2. IndexByte(r, LF) = IndexByte(r, ":") /\ IndexByte(r, ":") # 0
      <4>1. IndexByte(r, LF) \in Int /\ IndexByte(r, ":") \in Int
        <5>1. Len(r) \in Nat
          OBVIOUS
        <5>2. QED BY <5>1, IndexByteIs
      <4>2. QED BY <1>6, <1>7, <2>3, <3>1, <4>1 DEF Position
    <3>3. r[IndexByte(r, LF)] = LF /\ r[IndexByte(r, ":")] = ":"
      BY <3>2, IndexByteIs
    <3>4. QED BY <3>2, <3>3 DEF LF
  <2>5. ColonAt(r, colon, lf) /\ ColonAt(s.b, colon, lf)
    BY <1>3, <2>2, <2>3, <2>4
  <2>6. Within(body, h)
    BY DEF AtLine
  <2>7. /\ h + lf + 1 \in 1 .. Len(body) /\ body[h + lf + 1] = LF
        /\ Within(body, h + lf + 1)
    BY <1>1, <2>5, <2>6, LineIsWithin
  <2>8. PICK q \in h + 1 .. Len(body) : q = h + lf + 1
    <3>1. lf \in Nat
      BY <2>5 DEF ColonAt
    <3>2. h + lf + 1 \in h + 1 .. Len(body)
      BY <1>1, <2>7, <3>1
    <3>3. QED BY <3>2, Zenon
  <2>9. ~ IsContinued(body, q)
    BY <2>7, <2>8 DEF Plain
  <2>10. t = ScanValue(s, colon)
    BY <1>9, <1>12
  <2>11. /\ Scanning(body, t, q) /\ NextKnown(t.b, t.nextColon, t.nextNewLine)
         /\ t.more = s.more /\ t.err = s.err
    <3>1. NextKnown(s.b, s.nextColon, s.nextNewLine)
      BY <1>3, <2>1
    <3>2. ~ IsContinued(body, h + lf + 1)
      BY <2>8, <2>9
    <3>3. PICK u : /\ u = ScanValue(s, colon) /\ Scanning(body, u, h + lf + 1)
                   /\ NextKnown(u.b, u.nextColon, u.nextNewLine)
                   /\ u.more = s.more /\ u.err = s.err
      BY <1>1, <2>5, <3>1, <3>2, ScanValueIs
    <3>4. QED BY <2>8, <2>10, <3>3
  <2>12. AtLine(body, t, q)
    BY <2>7, <2>8, <2>11 DEF AtLine
  <2>13. QED BY <1>8, <2>12
<1>13. QED BY <1>10, <1>11, <1>12

(***************************************************************************)
(* The rounds of the scanner.                                              *)
(***************************************************************************)

\* f is what the loop over the fields of b is after each of its first n rounds.
Rounds(f, b, n) ==
    f = [k \in 0 .. n |-> IF k = 0 THEN [end |-> StartScan(b), fields |-> <<>>]
                          ELSE ScanRound(f[k - 1])]

\* Its values, one by one.
LEMMA RoundsStep ==
    ASSUME NEW f, NEW b, NEW n \in Nat, Rounds(f, b, n)
    PROVE  /\ f[0] = [end |-> StartScan(b), fields |-> <<>>]
           /\ \A i \in 0 .. n : f[i] = IF i = 0 THEN [end |-> StartScan(b), fields |-> <<>>]
                                       ELSE ScanRound(f[i - 1])
<1> DEFINE g == [k \in 0 .. n |-> IF k = 0 THEN [end |-> StartScan(b), fields |-> <<>>]
                                  ELSE ScanRound(f[k - 1])]
<1>1. f = g
  BY DEF Rounds
<1>2. ASSUME NEW i \in 0 .. n
      PROVE  g[i] = IF i = 0 THEN [end |-> StartScan(b), fields |-> <<>>] ELSE ScanRound(f[i - 1])
  OBVIOUS
<1>3. 0 \in 0 .. n
  OBVIOUS
<1> HIDE DEF g
<1>4. QED BY <1>1, <1>2, <1>3

\* There is one.
LEMMA RoundsExist ==
    ASSUME NEW b, NEW m \in Nat
    PROVE  \E f : Rounds(f, b, m)
<1> DEFINE Q == {n \in Nat : \E f : Rounds(f, b, n)}
<1>1. 0 \in Q
  <2> DEFINE f == [k \in 0 .. 0 |-> [end |-> StartScan(b), fields |-> <<>>]]
             g == [k \in 0 .. 0 |-> IF k = 0 THEN [end |-> StartScan(b), fields |-> <<>>]
                                    ELSE ScanRound(f[k - 1])]
  <2>1. \A k \in 0 .. 0 : f[k] = g[k]
    OBVIOUS
  <2>2. f = [k \in 0 .. 0 |-> f[k]] /\ g = [k \in 0 .. 0 |-> g[k]]
    OBVIOUS
  <2>3. f = g
    <3> HIDE DEF f, g
    <3>1. QED BY <2>1, <2>2, SameFunction
  <2>4. Rounds(f, b, 0)
    <3> HIDE DEF f
    <3>1. QED BY <2>3 DEF Rounds
  <2>5. QED BY <2>4
<1>2. ASSUME NEW n \in Nat, n \in Q PROVE n + 1 \in Q
  <2>1. PICK f : Rounds(f, b, n)
    BY <1>2
  <2> DEFINE g == [i \in 0 .. n + 1 |-> IF i <= n THEN f[i] ELSE ScanRound(f[n])]
             h == [i \in 0 .. n + 1 |-> IF i = 0 THEN [end |-> StartScan(b), fields |-> <<>>]
                                        ELSE ScanRound(g[i - 1])]
  <2>2. ASSUME NEW i \in 0 .. n + 1 PROVE g[i] = h[i]
    <3>1. CASE i = 0
      <4>1. g[0] = f[0] /\ h[0] = [end |-> StartScan(b), fields |-> <<>>]
        OBVIOUS
      <4>2. f[0] = [end |-> StartScan(b), fields |-> <<>>]
        BY <2>1, RoundsStep
      <4> HIDE DEF g, h
      <4>3. QED BY <3>1, <4>1, <4>2
    <3>2. CASE i \in 1 .. n
      <4>1. i \in 0 .. n /\ i - 1 \in 0 .. n /\ i # 0
        BY <3>2
      <4>2. g[i] = f[i] /\ g[i - 1] = f[i - 1]
        BY <4>1
      <4>3. f[i] = ScanRound(f[i - 1])
        BY <2>1, <4>1, RoundsStep
      <4>4. h[i] = ScanRound(g[i - 1])
        BY <4>1
      <4> HIDE DEF g, h
      <4>5. QED BY <4>2, <4>3, <4>4
    <3>3. CASE i = n + 1
      BY <3>3
    <3>4. QED BY <3>1, <3>2, <3>3
  <2>3. g = h
    <3>1. g = [i \in 0 .. n + 1 |-> g[i]] /\ h = [i \in 0 .. n + 1 |-> h[i]]
      OBVIOUS
    <3>2. \A i \in 0 .. n + 1 : g[i] = h[i]
      BY <2>2
    <3> HIDE DEF g, h
    <3>3. QED BY <3>1, <3>2, SameFunction
  <2>4. Rounds(g, b, n + 1)
    <3> HIDE DEF g
    <3>1. QED BY <2>3 DEF Rounds
  <2>5. QED BY <2>4
<1>3. Nat \subseteq Q
  <2> HIDE DEF Q
  <2>1. QED BY <1>1, <1>2, SetInduction
<1>4. QED BY <1>3

\* How many lines end in the first h bytes.
Ends(b, h) == Cardinality({i \in 1 .. h : b[i] = LF})

\* It is a number.
LEMMA EndsType ==
    ASSUME NEW b, NEW h \in Nat
    PROVE  Ends(b, h) \in Nat /\ IsFiniteSet({i \in 1 .. h : b[i] = LF})
<1>1. IsFiniteSet(1 .. h)
  BY FS_Interval
<1>2. {i \in 1 .. h : b[i] = LF} \in SUBSET (1 .. h)
  OBVIOUS
<1>3. IsFiniteSet({i \in 1 .. h : b[i] = LF})
  BY <1>1, <1>2, FS_Subset
<1>4. QED BY <1>3, FS_CardinalityType DEF Ends

\* At the end of a line it is one more than before.
LEMMA EndsMore ==
    ASSUME NEW b, NEW h \in Nat, NEW q \in Nat, h < q, b[q] = LF
    PROVE  Ends(b, q) >= Ends(b, h) + 1
<1> DEFINE A == {i \in 1 .. h : b[i] = LF}
           B1 == {i \in 1 .. q : b[i] = LF}
<1>1. IsFiniteSet(A) /\ Cardinality(A) \in Nat /\ IsFiniteSet(B1) /\ Cardinality(B1) \in Nat
  BY EndsType DEF Ends
<1>2. q \notin A /\ A \cup {q} \in SUBSET B1
  OBVIOUS
<1> HIDE DEF A, B1
<1>3. Cardinality(A \cup {q}) = Cardinality(A) + 1
  BY <1>1, <1>2, FS_AddElement
<1>4. Cardinality(A \cup {q}) <= Cardinality(B1)
  BY <1>1, <1>2, FS_Subset
<1>5. Ends(b, h) = Cardinality(A) /\ Ends(b, q) = Cardinality(B1)
  BY DEF Ends, A, B1
<1>6. QED BY <1>1, <1>3, <1>4, <1>5

\* The whole has the most.
LEMMA EndsMost ==
    ASSUME NEW b, NEW n \in Nat, NEW h \in 0 .. n
    PROVE  Ends(b, h) <= Ends(b, n)
<1> DEFINE A == {i \in 1 .. h : b[i] = LF}
           B1 == {i \in 1 .. n : b[i] = LF}
<1>1. IsFiniteSet(B1)
  BY EndsType
<1>2. A \in SUBSET B1
  OBVIOUS
<1> HIDE DEF A, B1
<1>3. Cardinality(A) <= Cardinality(B1)
  BY <1>1, <1>2, FS_Subset
<1>4. QED BY <1>3 DEF Ends, A, B1

\* Scan is the last value of one.
LEMMA ScanIs ==
    ASSUME NEW S, NEW b \in Seq(S), NEW m \in Nat, m = Ends(b, Len(b)) + 1
    PROVE  \E f : Rounds(f, b, m) /\ Scan(b) = f[m]
<1> DEFINE F == CHOOSE f : f = [k \in 0 .. m |->
                                  IF k = 0 THEN [end |-> StartScan(b), fields |-> <<>>]
                                  ELSE ScanRound(f[k - 1])]
<1>1. \E f : Rounds(f, b, m)
  BY RoundsExist
<1>2. Rounds(F, b, m)
  BY Zenon, <1>1 DEF Rounds
<1>3. m = Cardinality({i \in DOMAIN b : b[i] = LF}) + 1
  <2>1. DOMAIN b = 1 .. Len(b)
    OBVIOUS
  <2>2. QED BY <2>1 DEF Ends
<1>4. Scan(b) = F[m]
  BY Zenon, <1>3 DEF Scan
<1>5. QED BY <1>2, <1>4

\* What the scanner is after n rounds.
InRound(body, end, n) ==
    \/ \E h \in 0 .. Len(body) : n <= Ends(body, h) /\ AtLine(body, end, h)
    \/ \E h \in Nat : AtEnd(body, end, h)
    \/ HasFailed(end)

\* The scanner begins at the beginning of a line.
LEMMA StartIs ==
    ASSUME NEW S, NEW body \in Seq(S)
    PROVE  AtLine(body, StartScan(body), 0)
<1>1. PICK s : s = StartScan(body)
  OBVIOUS
<1>2. /\ s.b = body /\ s.junk = <<>> /\ s.hLen = 0 /\ s.key = <<>> /\ s.value = <<>>
      /\ s.nextColon = -1 /\ s.nextNewLine = -1 /\ s.more = TRUE /\ s.err = FALSE
  BY <1>1 DEF StartScan
<1>3. IsScanner(s)
  BY <1>1, <1>2 DEF StartScan, IsScanner
<1>4. body = From(body, 0) /\ Len(body) \in Nat
  BY DEF From
<1>5. Scanning(body, s, 0)
  BY <1>2, <1>3, <1>4 DEF Scanning
<1>6. Within(body, 0)
  BY DEF Within
<1>7. QED BY <1>1, <1>2, <1>5, <1>6 DEF AtLine, NextKnown

\* Every round goes on by a line at least.
LEMMA RoundIs ==
    ASSUME NEW S, NEW body \in Seq(S), Plain(body), NEW r, NEW n \in Nat, InRound(body, r.end, n)
    PROVE  InRound(body, ScanRound(r).end, n + 1)
<1>1. CASE r.end.more = TRUE
  <2>1. ScanRound(r).end = NextField(r.end)
    BY <1>1 DEF ScanRound, AddField
  <2>2. PICK h \in 0 .. Len(body) : n <= Ends(body, h) /\ AtLine(body, r.end, h)
    BY <1>1 DEF InRound, AtEnd, HasFailed
  <2>3. \/ \E q \in h + 1 .. Len(body) : AtLine(body, NextField(r.end), q)
        \/ \E q \in Nat : AtEnd(body, NextField(r.end), q)
        \/ HasFailed(NextField(r.end))
    BY <2>2, NextFieldIs
  <2>4. ASSUME NEW q \in h + 1 .. Len(body), AtLine(body, NextField(r.end), q)
        PROVE  n + 1 <= Ends(body, q) /\ q \in 0 .. Len(body)
    <3>1. h \in Nat /\ q \in Nat /\ h < q /\ q # 0 /\ q \in 0 .. Len(body)
      OBVIOUS
    <3>2. body[q] = LF
      BY <2>4, <3>1 DEF AtLine
    <3>3. Ends(body, q) >= Ends(body, h) + 1 /\ Ends(body, q) \in Nat /\ Ends(body, h) \in Nat
      BY <3>1, <3>2, EndsMore, EndsType
    <3>4. QED BY <2>2, <3>1, <3>3
  <2>5. QED BY <2>1, <2>3, <2>4 DEF InRound
<1>2. CASE r.end.more = FALSE
  <2>1. ScanRound(r) = r
    BY <1>2 DEF ScanRound
  <2>2. ~ \E h \in 0 .. Len(body) : AtLine(body, r.end, h)
    BY <1>2 DEF AtLine
  <2>3. QED BY <2>1, <2>2 DEF InRound
<1>3. r.end.more = TRUE \/ r.end.more = FALSE
  BY DEF InRound, AtLine, AtEnd, HasFailed
<1>4. QED BY <1>1, <1>2, <1>3

\* The scan of a header without continued lines ends at its end, or gives up.
LEMMA ScanEnds ==
    ASSUME NEW S, NEW body \in Seq(S), Plain(body)
    PROVE  \/ \E q \in Nat : AtEnd(body, Scan(body).end, q)
           \/ HasFailed(Scan(body).end)
<1>1. Len(body) \in Nat /\ Ends(body, Len(body)) \in Nat
  <2>1. Len(body) \in Nat
    OBVIOUS
  <2>2. QED BY <2>1, EndsType
<1>2. PICK m \in Nat : m = Ends(body, Len(body)) + 1
  BY <1>1
<1>3. PICK f : Rounds(f, body, m) /\ Scan(body) = f[m]
  BY <1>2, ScanIs
<1> DEFINE Q == {n \in Nat : n <= m => InRound(body, f[n].end, n)}
<1>4. 0 \in Q
  <2>1. f[0] = [end |-> StartScan(body), fields |-> <<>>]
    BY <1>3, RoundsStep
  <2>2. f[0].end = StartScan(body)
    BY <2>1
  <2>3. AtLine(body, f[0].end, 0) /\ 0 \in 0 .. Len(body)
    BY <1>1, <2>2, StartIs
  <2>4. InRound(body, f[0].end, 0)
    <3>1. 0 <= Ends(body, 0)
      BY EndsType
    <3>2. QED BY <2>3, <3>1 DEF InRound
  <2>5. QED BY <2>4
<1>5. ASSUME NEW n \in Nat, n \in Q PROVE n + 1 \in Q
  <2>1. SUFFICES ASSUME n + 1 <= m PROVE InRound(body, f[n + 1].end, n + 1)
    OBVIOUS
  <2>2. InRound(body, f[n].end, n)
    BY <1>5, <2>1
  <2>3. f[n + 1] = ScanRound(f[n])
    <3>1. n + 1 \in 0 .. m /\ n + 1 # 0 /\ (n + 1) - 1 = n
      BY <2>1
    <3>2. \A i \in 0 .. m : f[i] = IF i = 0 THEN [end |-> StartScan(body), fields |-> <<>>]
                                   ELSE ScanRound(f[i - 1])
      BY <1>3, RoundsStep
    <3>3. QED BY <3>1, <3>2
  <2>4. QED BY <2>2, <2>3, RoundIs
<1>6. Nat \subseteq Q
  <2> HIDE DEF Q
  <2>1. QED BY <1>4, <1>5, SetInduction
<1>7. InRound(body, Scan(body).end, m)
  BY <1>3, <1>6
<1>8. ASSUME NEW h \in 0 .. Len(body) PROVE ~ (m <= Ends(body, h))
  <2>1. h \in Nat
    BY <1>1
  <2>2. Ends(body, h) \in Nat
    BY <2>1, EndsType
  <2>3. Ends(body, h) <= Ends(body, Len(body))
    BY <1>1, EndsMost
  <2>4. QED BY <1>1, <1>2, <2>2, <2>3
<1>9. QED BY <1>7, <1>8 DEF InRound
-----------------------------------------------------------------------------
\* Where the raw copy of a header ends.
LEMMA RawIs ==
    ASSUME NEW S, NEW body \in Seq(S)
    PROVE  \E end \in 0 .. Len(body) :
               /\ \/ end = 0 /\ Within(body, Len(body))
                  \/ end # 0 /\ EndsAt(body, end) /\ Within(body, end - 1)
               /\ ReadRawHeaders(body)
                    = [ok |-> end # 0, raw |-> IF end \in {1, 2} THEN <<>> ELSE SubSeq(body, 1, end)]
<1> DEFINE places == [i \in DOMAIN body |-> i]
           ends(i) == \/ body[i] = LF /\ (i = 1 \/ body[i - 1] = LF)
                      \/ body[i] = LF /\ body[i - 1] = CR /\ (i = 2 \/ body[i - 2] = LF)
           end == SelectInSeq(places, ends)
           I == {i \in 1 .. Len(body) : EndsAt(body, i)}
<1>1. ReadRawHeaders(body)
        = [ok |-> end # 0, raw |-> IF end \in {1, 2} THEN <<>> ELSE SubSeq(body, 1, end)]
  BY DEF ReadRawHeaders
<1>2. Len(body) \in Nat /\ I \subseteq Nat
  OBVIOUS
<1>3. Len(places) = Len(body) /\ \A i \in 1 .. Len(body) : places[i] = i
  <2>1. DOMAIN body = 1 .. Len(body)
    OBVIOUS
  <2>2. places \in Seq(Nat) /\ DOMAIN places = 1 .. Len(body)
    BY <1>2, <2>1
  <2>3. Len(places) = Len(body)
    BY <1>2, <2>2
  <2>4. QED BY <2>1, <2>3
<1>4. {i \in 1 .. Len(places) : ends(places[i])} = I
  <2> HIDE DEF places
  <2>1. QED BY <1>3 DEF EndsAt
<1>5. end = IF I # {} THEN CHOOSE x \in I : \A y \in I : x =< y ELSE 0
  <2>1. end = LET J == {i \in 1 .. Len(places) : ends(places[i])}
              IN  IF J # {} THEN Min(J) ELSE 0
    BY DEF SelectInSeq
  <2>2. end = IF I # {} THEN Min(I) ELSE 0
    <3> HIDE DEF end, I
    <3>1. QED BY <1>4, <2>1, Zenon
  <2> HIDE DEF end, I
  <2>3. QED BY <2>2 DEF Min
<1> HIDE DEF end
<1>6. CASE I = {}
  <2>1. end = 0 /\ Within(body, Len(body))
    BY <1>5, <1>6 DEF Within
  <2>2. 0 \in 0 .. Len(body)
    BY <1>2
  <2>3. QED BY <1>1, <2>1, <2>2
<1>7. CASE I # {}
  <2>1. PICK x \in I : x = end /\ \A y \in I : x <= y
    <3> HIDE DEF I
    <3>1. \E x \in I : \A y \in I : x =< y
      BY <1>2, <1>7, HasLeast
    <3>2. QED BY <1>5, <1>7, <3>1
  <2>2. ASSUME NEW i \in 1 .. x - 1 PROVE ~ EndsAt(body, i)
    <3>1. i \in 1 .. Len(body) /\ ~ (x <= i)
      BY <1>2, <2>1
    <3>2. QED BY <2>1, <3>1
  <2>3. x \in 1 .. Len(body) /\ EndsAt(body, x) /\ x \in 0 .. Len(body) /\ x # 0
    BY <2>1
  <2>4. Within(body, x - 1)
    BY <2>2 DEF Within
  <2>5. QED BY <1>1, <2>1, <2>3, <2>4
<1>8. QED BY <1>6, <1>7

\* Of two places that are the first end of a header one is the other.
LEMMA OneEnd ==
    ASSUME NEW b, NEW i \in Nat \ {0}, NEW j \in Nat \ {0},
           EndsAt(b, i), Within(b, i - 1), EndsAt(b, j), Within(b, j - 1)
    PROVE  i = j
<1>1. ~ (i < j)
  <2>1. SUFFICES ASSUME i < j PROVE i \in 1 .. j - 1
    BY DEF Within
  <2>2. QED BY <2>1
<1>2. ~ (j < i)
  <2>1. SUFFICES ASSUME j < i PROVE j \in 1 .. i - 1
    BY DEF Within
  <2>2. QED BY <2>1
<1>3. QED BY <1>1, <1>2
-----------------------------------------------------------------------------
\* What the property asks of a text, and what it says of the rest.
NotContinued(body) ==
    LET raw  == ReadRawHeaders(body)
        last == IF raw.ok THEN Len(raw.raw) - 1 ELSE Len(body)
    IN  \A i \in 1 .. last : ~ IsContinued(body, i)
Behind(body) ==
    LET size == Len(ReadRawHeaders(body).raw)
    IN  From(body, IF size = 0 THEN IndexByte(body, LF) ELSE size)

\* Up to the end of the raw copy are all lines of the header.
LEMMA NoneContinued ==
    ASSUME NEW S, NEW body \in Seq(S), NotContinued(body)
    PROVE  Plain(body)
<1>1. PICK end \in 0 .. Len(body) :
        /\ \/ end = 0 /\ Within(body, Len(body))
           \/ end # 0 /\ EndsAt(body, end) /\ Within(body, end - 1)
        /\ ReadRawHeaders(body)
             = [ok |-> end # 0, raw |-> IF end \in {1, 2} THEN <<>> ELSE SubSeq(body, 1, end)]
  BY RawIs
<1>2. PICK raw : raw = ReadRawHeaders(body)
  OBVIOUS
<1>3. /\ (end # 0 => raw.ok) /\ (end = 0 => ~ raw.ok)
      /\ raw.raw = IF end \in {1, 2} THEN <<>> ELSE SubSeq(body, 1, end)
  <2>1. raw.ok = (end # 0) /\ raw.raw = IF end \in {1, 2} THEN <<>> ELSE SubSeq(body, 1, end)
    BY <1>1, <1>2
  <2>2. (end # 0 => raw.ok) /\ (end = 0 => ~ raw.ok)
    BY <2>1, Zenon
  <2>3. QED BY <2>1, <2>2
<1>4. \A i \in 1 .. (IF raw.ok THEN Len(raw.raw) - 1 ELSE Len(body)) : ~ IsContinued(body, i)
  BY <1>2 DEF NotContinued
<1>5. SUFFICES ASSUME NEW i \in 1 .. Len(body), Within(body, i) PROVE ~ IsContinued(body, i)
  BY DEF Plain
<1>6. Len(body) \in Nat
  OBVIOUS
<1>7. end # 0 => i < end
  <2>1. SUFFICES ASSUME end # 0, end <= i PROVE FALSE
    OBVIOUS
  <2>2. end \in 1 .. i
    BY <2>1
  <2>3. QED BY <1>1, <1>5, <2>1, <2>2 DEF Within
<1>8. CASE end = 0
  BY <1>3, <1>4, <1>8
<1>9. CASE end \in {1, 2}
  <2>1. i = 1 /\ end = 2
    BY <1>7, <1>9
  <2>2. ~ EndsAt(body, 1)
    BY <1>5, <2>1 DEF Within
  <2>3. QED BY <2>1, <2>2 DEF EndsAt, IsContinued
<1>10. CASE end > 2
  <2>1. Len(raw.raw) = end
    <3>1. raw.raw = SubSeq(body, 1, end)
      BY <1>3, <1>10
    <3>2. QED BY <1>6, <1>10, <3>1
  <2>2. raw.ok
    BY <1>3, <1>10
  <2>3. i \in 1 .. Len(raw.raw) - 1
    BY <1>6, <1>7, <1>10, <2>1
  <2>4. QED BY <1>4, <2>2, <2>3
<1>11. QED BY <1>6, <1>8, <1>9, <1>10

\* The scanner ends where the raw copy does.
LEMMA EndIsBehind ==
    ASSUME NEW S, NEW body \in Seq(S), NEW s, NEW q \in Nat, AtEnd(body, s, q)
    PROVE  Behind(body) = From(body, q)
<1>1. PICK end \in 0 .. Len(body) :
        /\ \/ end = 0 /\ Within(body, Len(body))
           \/ end # 0 /\ EndsAt(body, end) /\ Within(body, end - 1)
        /\ ReadRawHeaders(body)
             = [ok |-> end # 0, raw |-> IF end \in {1, 2} THEN <<>> ELSE SubSeq(body, 1, end)]
  BY RawIs
<1>2. q \in 1 .. Len(body) /\ EndsAt(body, q) /\ Within(body, q - 1) /\ Len(body) \in Nat
  BY DEF AtEnd
<1>3. end # 0
  BY <1>1, <1>2 DEF Within
<1>4. end \in Nat \ {0} /\ q \in Nat \ {0}
  BY <1>2, <1>3
<1>5. end = q
  BY <1>1, <1>2, <1>3, <1>4, OneEnd
<1>6. PICK raw : raw = ReadRawHeaders(body).raw
  OBVIOUS
<1>7. raw = IF q \in {1, 2} THEN <<>> ELSE SubSeq(body, 1, q)
  BY <1>1, <1>5, <1>6
<1>8. CASE q \in {1, 2}
  <2>1. Len(raw) = 0
    BY <1>7, <1>8
  <2>2. body[q] = LF
    BY <1>2 DEF EndsAt
  <2>3. ASSUME NEW i \in 1 .. q - 1 PROVE body[i] # LF
    <3>1. i = 1 /\ q = 2
      BY <1>8
    <3>2. ~ EndsAt(body, 1)
      BY <1>2, <3>1 DEF Within
    <3>3. QED BY <3>1, <3>2 DEF EndsAt
  <2>4. IndexByte(body, LF) = q
    BY <1>2, <2>2, <2>3, IndexByteAt
  <2>5. QED BY <1>6, <2>1, <2>4 DEF Behind
<1>9. CASE ~ (q \in {1, 2})
  <2>1. Len(raw) = q
    <3>1. raw = SubSeq(body, 1, q)
      BY <1>7, <1>9
    <3>2. QED BY <1>2, <3>1
  <2>2. Len(raw) # 0
    BY <1>2, <2>1
  <2>3. QED BY <1>6, <2>1, <2>2 DEF Behind
<1>10. QED BY <1>8, <1>9

\* What a request, or a response, leaves is what the scanner has not scanned.
LEMMA RestIsLeft ==
    ASSUME NEW S, NEW body \in Seq(S), NEW s, NEW q \in Nat, AtEnd(body, s, q)
    PROVE  RestOfRequest(body, s) = From(body, q) /\ RestOfResponse(body, s) = From(body, q)
<1>1. q \in 0 .. Len(body) /\ s.hLen = q /\ s.b = From(body, q) /\ s.junk = <<>> /\ Len(body) \in Nat
  BY DEF AtEnd, Scanning
<1>2. PICK r \in Seq(S) : IsRest(r, body, q)
  BY <1>1, RestIs
<1>3. s.b = r /\ Len(r) = Len(body) - q /\ Len(r) \in Nat
  BY <1>1, <1>2 DEF IsRest
<1>4. r \o <<>> = r
  OBVIOUS
<1>5. q + Len(r) - Len(body) = 0
  BY <1>1, <1>3
<1>6. From(r, 0) = r
  BY <1>3 DEF From
<1>7. RestOfRequest(body, s) = From(r, q + Len(r) - Len(body))
  BY <1>1, <1>3, <1>4 DEF RestOfRequest
<1>8. RestOfResponse(body, s) = From(r, 0)
  <2>1. Len(<<>>) = 0
    OBVIOUS
  <2>2. QED BY <1>1, <1>3, <1>4, <2>1 DEF RestOfResponse
<1>9. QED BY <1>2, <1>5, <1>6, <1>7, <1>8 DEF IsRest

(***************************************************************************)
(* The rounds of parseHeaders.                                             *)
(***************************************************************************)

\* A sequence, of whatever it may be.
IsSequence(s) == \E S : s \in Seq(S)

\* A sequence that is appended to is one, a byte longer.
LEMMA SequenceAppend ==
    ASSUME NEW s, IsSequence(s), NEW x
    PROVE  IsSequence(Append(s, x))
<1>1. PICK S : s \in Seq(S)
  BY DEF IsSequence
<1>2. PICK T : T = S \cup {x}
  OBVIOUS
<1>3. s \in Seq(T) /\ x \in T
  BY <1>1, <1>2
<1>4. Append(s, x) \in Seq(T)
  BY <1>3
<1>5. QED BY <1>4 DEF IsSequence

\* The fields that were scanned are a sequence.
LEMMA FieldsAreSequence ==
    ASSUME NEW S, NEW b \in Seq(S)
    PROVE  IsSequence(Scan(b).fields)
<1>1. PICK m \in Nat : m = Ends(b, Len(b)) + 1
  <2>1. Len(b) \in Nat
    OBVIOUS
  <2>2. Ends(b, Len(b)) \in Nat
    BY <2>1, EndsType
  <2>3. QED BY <2>2
<1>2. PICK f : Rounds(f, b, m) /\ Scan(b) = f[m]
  BY <1>1, ScanIs
<1> DEFINE Q == {n \in Nat : n <= m => IsSequence(f[n].fields)}
<1>3. 0 \in Q
  <2>1. f[0] = [end |-> StartScan(b), fields |-> <<>>]
    BY <1>2, RoundsStep
  <2>2. f[0].fields = <<>>
    BY <2>1
  <2>3. <<>> \in Seq({})
    OBVIOUS
  <2>4. QED BY <2>2, <2>3 DEF IsSequence
<1>4. ASSUME NEW n \in Nat, n \in Q PROVE n + 1 \in Q
  <2>1. SUFFICES ASSUME n + 1 <= m PROVE IsSequence(f[n + 1].fields)
    OBVIOUS
  <2>2. IsSequence(f[n].fields)
    BY <1>4, <2>1
  <2>3. f[n + 1] = ScanRound(f[n])
    <3>1. n + 1 \in 0 .. m /\ n + 1 # 0 /\ (n + 1) - 1 = n
      BY <2>1
    <3>2. \A i \in 0 .. m : f[i] = IF i = 0 THEN [end |-> StartScan(b), fields |-> <<>>]
                                   ELSE ScanRound(f[i - 1])
      BY <1>2, RoundsStep
    <3>3. QED BY <3>1, <3>2
  <2>4. PICK r : r = f[n]
    OBVIOUS
  <2>5. \/ ScanRound(r).fields = r.fields
        \/ \E x : ScanRound(r).fields = Append(r.fields, x)
    BY DEF ScanRound, AddField
  <2>6. QED BY <2>2, <2>3, <2>4, <2>5, SequenceAppend
<1>5. Nat \subseteq Q
  <2> HIDE DEF Q
  <2>1. QED BY <1>3, <1>4, SetInduction
<1>6. QED BY <1>2, <1>5
-----------------------------------------------------------------------------
\* What parseHeaders begins with.
Unread(h, scan) == [h |-> [h EXCEPT !.contentLength = -2], err |-> scan.end.err]

\* g is what the loop of parseHeaders makes of h with each of the first n fields.
Reads(g, h, scan, n) ==
    g = [k \in 0 .. n |-> IF k = 0 THEN Unread(h, scan)
                          ELSE Field(g[k - 1], scan.fields[k])]

\* Its values, one by one.
LEMMA ReadsStep ==
    ASSUME NEW g, NEW h, NEW scan, NEW n \in Nat, Reads(g, h, scan, n)
    PROVE  /\ g[0] = Unread(h, scan)
           /\ \A i \in 0 .. n :
                g[i] = IF i = 0 THEN Unread(h, scan)
                       ELSE Field(g[i - 1], scan.fields[i])
<1>1. PICK first : first = Unread(h, scan)
  OBVIOUS
<1> DEFINE f == [k \in 0 .. n |-> IF k = 0 THEN first ELSE Field(g[k - 1], scan.fields[k])]
<1>2. g = f
  BY <1>1 DEF Reads
<1>3. ASSUME NEW i \in 0 .. n
      PROVE  f[i] = IF i = 0 THEN first ELSE Field(g[i - 1], scan.fields[i])
  OBVIOUS
<1>4. 0 \in 0 .. n
  OBVIOUS
<1> HIDE DEF f
<1>5. g[0] = first
  BY <1>2, <1>3, <1>4
<1>6. \A i \in 0 .. n : g[i] = IF i = 0 THEN first ELSE Field(g[i - 1], scan.fields[i])
  BY <1>2, <1>3
<1>7. QED BY <1>1, <1>5, <1>6

\* There is one.
LEMMA ReadsExist ==
    ASSUME NEW h, NEW scan, NEW m \in Nat
    PROVE  \E g : Reads(g, h, scan, m)
<1>1. PICK first : first = Unread(h, scan)
  OBVIOUS
<1> DEFINE Q == {n \in Nat : \E g : Reads(g, h, scan, n)}
<1>2. 0 \in Q
  <2> DEFINE f == [k \in 0 .. 0 |-> first]
             g == [k \in 0 .. 0 |-> IF k = 0 THEN first ELSE Field(f[k - 1], scan.fields[k])]
  <2>1. \A k \in 0 .. 0 : f[k] = g[k]
    OBVIOUS
  <2>2. f = [k \in 0 .. 0 |-> f[k]] /\ g = [k \in 0 .. 0 |-> g[k]]
    OBVIOUS
  <2>3. f = g
    <3> HIDE DEF f, g
    <3>1. QED BY <2>1, <2>2, SameFunction
  <2>4. Reads(f, h, scan, 0)
    <3> HIDE DEF f
    <3>1. QED BY <1>1, <2>3 DEF Reads
  <2>5. QED BY <2>4
<1>3. ASSUME NEW n \in Nat, n \in Q PROVE n + 1 \in Q
  <2>1. PICK f : Reads(f, h, scan, n)
    BY <1>3
  <2> DEFINE g == [i \in 0 .. n + 1 |-> IF i <= n THEN f[i] ELSE Field(f[n], scan.fields[n + 1])]
             e == [i \in 0 .. n + 1 |-> IF i = 0 THEN first ELSE Field(g[i - 1], scan.fields[i])]
  <2>2. ASSUME NEW i \in 0 .. n + 1 PROVE g[i] = e[i]
    <3>1. CASE i = 0
      <4>1. g[0] = f[0] /\ e[0] = first
        OBVIOUS
      <4>2. f[0] = first
        BY <1>1, <2>1, ReadsStep
      <4> HIDE DEF g, e
      <4>3. QED BY <3>1, <4>1, <4>2
    <3>2. CASE i \in 1 .. n
      <4>1. i \in 0 .. n /\ i - 1 \in 0 .. n /\ i # 0
        BY <3>2
      <4>2. g[i] = f[i] /\ g[i - 1] = f[i - 1]
        BY <4>1
      <4>3. f[i] = Field(f[i - 1], scan.fields[i])
        BY <2>1, <4>1, ReadsStep
      <4>4. e[i] = Field(g[i - 1], scan.fields[i])
        BY <4>1
      <4> HIDE DEF g, e
      <4>5. QED BY <4>2, <4>3, <4>4
    <3>3. CASE i = n + 1
      BY <3>3
    <3>4. QED BY <3>1, <3>2, <3>3
  <2>3. g = e
    <3>1. g = [i \in 0 .. n + 1 |-> g[i]] /\ e = [i \in 0 .. n + 1 |-> e[i]]
      OBVIOUS
    <3>2. \A i \in 0 .. n + 1 : g[i] = e[i]
      BY <2>2
    <3> HIDE DEF g, e
    <3>3. QED BY <3>1, <3>2, SameFunction
  <2>4. Reads(g, h, scan, n + 1)
    <3> HIDE DEF g
    <3>1. QED BY <1>1, <2>3 DEF Reads
  <2>5. QED BY <2>4
<1>4. Nat \subseteq Q
  <2> HIDE DEF Q
  <2>1. QED BY <1>2, <1>3, SetInduction
<1>5. QED BY <1>4

\* ParseHeaders is the last value of one.
LEMMA ParseHeadersIs ==
    ASSUME NEW h, NEW scan, Len(scan.fields) \in Nat
    PROVE  \E g : Reads(g, h, scan, Len(scan.fields)) /\ ParseHeaders(h, scan) = g[Len(scan.fields)]
<1> DEFINE G == CHOOSE g : g = [k \in 0 .. Len(scan.fields) |->
                  IF k = 0 THEN Unread(h, scan)
                  ELSE Field(g[k - 1], scan.fields[k])]
<1>1. \E g : Reads(g, h, scan, Len(scan.fields))
  BY ReadsExist
<1>2. Reads(G, h, scan, Len(scan.fields))
  BY Zenon, <1>1 DEF Reads
<1>3. ParseHeaders(h, scan) = G[Len(scan.fields)]
  BY DEF ParseHeaders, Unread
<1>4. QED BY <1>2, <1>3

\* The result of a header with an error.
WithError(r) == \E h, e : r = [h |-> h, err |-> e] /\ e = TRUE

\* An error stays, whatever the next field is.
LEMMA ErrorStays ==
    ASSUME NEW r, WithError(r), NEW kv
    PROVE  WithError(Field(r, kv))
<1>1. PICK h, e : r = [h |-> h, err |-> e] /\ e = TRUE
  BY DEF WithError
<1>2. r = [h |-> h, err |-> e]
  BY <1>1
<1>3. e = TRUE /\ r.err = TRUE
  BY <1>1
<1>4. ASSUME NEW x PROVE WithError([r EXCEPT !.h = x])
  <2>1. [r EXCEPT !.h = x] = [h |-> x, err |-> e]
    BY <1>2
  <2>2. QED BY <1>3, <2>1, Zenon DEF WithError
<1>5. WithError([r EXCEPT !.err = TRUE])
  <2>1. PICK x : x = TRUE
    OBVIOUS
  <2>2. [r EXCEPT !.err = x] = [h |-> h, err |-> x]
    BY <1>2
  <2>3. QED BY <2>1, <2>2, Zenon DEF WithError
<1>6. WithError(LengthField(r, kv))
  <2>2. WithError([h |-> [r.h EXCEPT !.contentLength = -2], err |-> r.err \/ r.h.kind = "request"])
    <3>1. (r.err \/ r.h.kind = "request") = TRUE
      BY <1>3
    <3>2. QED BY <3>1, Zenon DEF WithError
  <2>3. QED BY <1>4, <2>2 DEF LengthField
<1>7. WithError(EncodingField(r, kv.value))
  BY <1>4, Zenon DEF EncodingField
<1>8. ASSUME NEW x, NEW y PROVE WithError([r EXCEPT !.h[x] = y])
  <2>1. [r EXCEPT !.h[x] = y] = [h |-> [h EXCEPT ![x] = y], err |-> e]
    BY <1>2
  <2>2. QED BY <1>3, <2>1, Zenon DEF WithError
<1>9. QED BY <1>4, <1>5, <1>6, <1>7, <1>8 DEF Field

\* A header whose scan has failed cannot be parsed.
LEMMA ScanFailed ==
    ASSUME NEW h, NEW scan, IsSequence(scan.fields), HasFailed(scan.end)
    PROVE  WithError(ParseHeaders(h, scan))
<1>1. PICK m \in Nat : m = Len(scan.fields)
  <2>1. Len(scan.fields) \in Nat
    BY DEF IsSequence
  <2>2. QED BY <2>1
<1>2. PICK g : Reads(g, h, scan, m) /\ ParseHeaders(h, scan) = g[m]
  BY <1>1, ParseHeadersIs
<1> DEFINE Q == {n \in Nat : n <= m => WithError(g[n])}
<1>3. 0 \in Q
  <2>1. g[0] = Unread(h, scan)
    BY <1>2, ReadsStep
  <2>2. scan.end.err = TRUE
    BY DEF HasFailed
  <2>3. QED BY <2>1, <2>2 DEF WithError, Unread
<1>4. ASSUME NEW n \in Nat, n \in Q PROVE n + 1 \in Q
  <2>1. SUFFICES ASSUME n + 1 <= m PROVE WithError(g[n + 1])
    OBVIOUS
  <2>2. WithError(g[n])
    BY <1>4, <2>1
  <2>3. g[n + 1] = Field(g[n], scan.fields[n + 1])
    <3>1. n + 1 \in 0 .. m /\ n + 1 # 0 /\ (n + 1) - 1 = n
      BY <2>1
    <3>2. \A i \in 0 .. m :
            g[i] = IF i = 0 THEN Unread(h, scan)
                   ELSE Field(g[i - 1], scan.fields[i])
      BY <1>2, ReadsStep
    <3>3. QED BY <3>1, <3>2
  <2>4. QED BY <2>2, <2>3, ErrorStays
<1>5. Nat \subseteq Q
  <2> HIDE DEF Q
  <2>1. QED BY <1>3, <1>4, SetInduction
<1>6. QED BY <1>2, <1>5

(***************************************************************************)
(* What a message leaves in the buffer.                                    *)
(***************************************************************************)

\* The first line ends in the text.
LEMMA FirstLineIs ==
    ASSUME NEW S, NEW b \in Seq(S), FirstLine(b).ok
    PROVE  FirstLine(b).size \in 0 .. Len(b)
<1> DEFINE lf(k)  == IndexByte(From(b, k), LF)
           starts == {k \in 0 .. Len(b) : k = 0 \/ b[k] = LF}
           found  == [k \in starts |-> [ok |-> TRUE, size |-> k + lf(k),
                                        line |-> WithoutCR(Before(From(b, k), lf(k)))]]
           lines  == {k \in starts : lf(k) # 0 /\ found[k].line # <<>>}
<1>1. FirstLine(b) = IF lines = {} THEN [ok |-> FALSE] ELSE found[Min(lines)]
  BY DEF FirstLine
<1>2. Len(b) \in Nat /\ lines \subseteq Nat
  <2> HIDE DEF lf, found
  <2>1. QED OBVIOUS
<1> HIDE DEF found
<1>3. lines # {}
  <2> HIDE DEF lines
  <2>1. SUFFICES ASSUME lines = {} PROVE FALSE
    OBVIOUS
  <2>2. FirstLine(b) = [ok |-> FALSE]
    BY <1>1, <2>1, Zenon
  <2>3. FirstLine(b).ok = FALSE
    BY <2>2
  <2>4. QED BY <2>3
<1>4. PICK k \in lines : k = Min(lines)
  <2> HIDE DEF lines
  <2>1. \E x \in lines : \A y \in lines : x =< y
    BY <1>2, <1>3, HasLeast
  <2>2. Min(lines) \in lines
    BY <2>1 DEF Min
  <2>3. QED BY <2>2, Zenon
<1>5. FirstLine(b).size = k + lf(k)
  <2> HIDE DEF lines, lf
  <2>1. FirstLine(b) = found[k]
    BY <1>1, <1>3, <1>4, Zenon
  <2>2. k \in starts
    BY DEF lines
  <2>3. found[k].size = k + lf(k)
    BY <2>2 DEF found
  <2>4. QED BY <2>1, <2>3
<1>6. k \in 0 .. Len(b)
  BY <1>4
<1>7. PICK r \in Seq(S) : IsRest(r, b, k)
  BY <1>6, RestIs
<1>8. lf(k) \in 0 .. Len(r)
  <2>1. lf(k) = IndexByte(r, LF)
    BY <1>7 DEF IsRest
  <2>2. Len(r) \in Nat
    OBVIOUS
  <2>3. IndexByte(r, LF) \in 0 .. Len(r)
    BY <2>2, IndexByteIs
  <2>4. QED BY <2>1, <2>3
<1>9. Len(r) = Len(b) - k
  BY <1>7 DEF IsRest
<1> HIDE DEF lf
<1>10. QED BY <1>2, <1>5, <1>6, <1>8, <1>9

\* A header without continued lines that is parsed is taken up to the empty line.
LEMMA ParsedLines ==
    ASSUME NEW S, NEW body \in Seq(S), NotContinued(body), NEW h,
           ParseLines(h, body, Scan(body)).ok
    PROVE  ParseLines(h, body, Scan(body)).rest = Behind(body)
<1>1. PICK scan : scan = Scan(body)
  OBVIOUS
<1>2. PICK r : r = ParseHeaders(h, scan)
  OBVIOUS
<1>3. ParseLines(h, body, Scan(body)) = Parsed(r, body, scan.end)
  BY <1>1, <1>2 DEF ParseLines
<1>4. ~ r.err
  <2>1. SUFFICES ASSUME r.err PROVE FALSE
    OBVIOUS
  <2>2. Parsed(r, body, scan.end) = [ok |-> FALSE]
    BY <2>1 DEF Parsed
  <2>3. QED BY <1>3, <2>2
<1>5. ~ HasFailed(scan.end)
  <2>1. SUFFICES ASSUME HasFailed(scan.end) PROVE FALSE
    OBVIOUS
  <2>2. IsSequence(scan.fields)
    BY <1>1, FieldsAreSequence
  <2>3. WithError(r)
    BY <1>2, <2>1, <2>2, ScanFailed
  <2>4. QED BY <1>4, <2>3 DEF WithError
<1>6. PICK q \in Nat : AtEnd(body, scan.end, q)
  <2>1. Plain(body)
    BY NoneContinued
  <2>2. QED BY <1>1, <1>5, <2>1, ScanEnds
<1>7. Parsed(r, body, scan.end).rest = From(body, q)
  <2>1. /\ RestOfRequest(body, scan.end) = From(body, q)
        /\ RestOfResponse(body, scan.end) = From(body, q)
    BY <1>6, RestIsLeft
  <2>2. PICK rest : rest = IF r.h.kind = "request" THEN RestOfRequest(body, scan.end)
                           ELSE RestOfResponse(body, scan.end)
    OBVIOUS
  <2>3. rest = From(body, q)
    BY <2>1, <2>2
  <2>4. Parsed(r, body, scan.end) = [ok |-> TRUE, h |-> Completed(r.h), rest |-> rest]
    BY <1>4, <2>2 DEF Parsed
  <2>5. QED BY <2>3, <2>4
<1>8. Behind(body) = From(body, q)
  BY <1>6, EndIsBehind
<1>9. QED BY <1>3, <1>7, <1>8

\* ... whatever its first line is.
LEMMA ParseLeaves ==
    ASSUME NEW S, NEW b \in Seq(S), NEW h, Parse(h, b).ok,
           NotContinued(From(b, FirstLine(b).size))
    PROVE  Parse(h, b).rest = Behind(From(b, FirstLine(b).size))
<1>1. PICK first : first = FirstLine(b)
  OBVIOUS
<1>2. PICK line : line = IF h.kind = "request" THEN RequestFields(first.line) ELSE StatusFields(first.line)
  OBVIOUS
<1>3. Parse(h, b) = IF ~ first.ok THEN [ok |-> FALSE] ELSE ParseRest(h, line, From(b, first.size))
  BY <1>1, <1>2 DEF Parse
<1>4. first.ok
  <2>1. SUFFICES ASSUME ~ first.ok PROVE FALSE
    OBVIOUS
  <2>2. Parse(h, b) = [ok |-> FALSE]
    BY <1>3, <2>1
  <2>3. QED BY <2>2
<1>5. PICK body \in Seq(S) : body = From(b, first.size)
  <2>1. first.size \in 0 .. Len(b)
    BY <1>1, <1>4, FirstLineIs
  <2>2. From(b, first.size) \in Seq(S)
    BY <2>1, FromIs
  <2>3. QED BY <2>2, Zenon
<1>6. Parse(h, b) = ParseRest(h, line, body)
  BY <1>3, <1>4, <1>5
<1>7. PICK g : Parse(h, b) = [ok |-> FALSE] \/ Parse(h, b) = ParseLines(g, body, Scan(body))
  BY <1>6 DEF ParseRest
<1>8. Parse(h, b) = ParseLines(g, body, Scan(body))
  <2>1. SUFFICES ASSUME Parse(h, b) = [ok |-> FALSE] PROVE FALSE
    BY <1>7
  <2>2. QED BY <2>1
<1>9. NotContinued(body)
  BY <1>1, <1>5
<1>10. QED BY <1>1, <1>5, <1>8, <1>9, ParsedLines
-----------------------------------------------------------------------------
\* What has been parsed is what was received; nothing else is left.
LeftInv == phase = "parsed" /\ received # <<>> =>
               \E h : Parse(h, received).ok /\ left = Parse(h, received).rest

\* A message that is not received has nothing behind it.
LEMMA LeftInit == Init => LeftInv
<1>1. SUFFICES ASSUME Init PROVE phase = "parsed" => received = <<>>
  BY DEF LeftInv
<1>2. stream \in Streams /\ received = Stream[stream].start
  BY <1>1 DEF Init
<1>3. phase = "parsed" => Stream[stream].kind \in {"fresh request", "fresh response"}
  BY <1>1 DEF Init, Kind, Fresh
<1>4. Stream[stream].kind \in {"fresh request", "fresh response"} => Stream[stream].start = <<>>
  BY <1>2, MessagesAssumption
<1>5. QED BY <1>2, <1>3, <1>4

\* Reads and the operations of a handler leave what is behind the message.
LEMMA LeftNext == LeftInv /\ [Next]_vars => LeftInv'
<1>1. SUFFICES ASSUME LeftInv, [Next]_vars PROVE LeftInv'
  OBVIOUS
<1>2. \/ phase' # "parsed"
      \/ ParseMessage
      \/ UNCHANGED <<phase, received, left>>
  <2>1. ASSUME ReceivePiece \/ ReceiveEnd PROVE phase' # "parsed"
    BY <2>1 DEF ReceivePiece, ReceiveEnd, Receive
  <2>2. ASSUME NEW h, NEW tampers, Operate(h, tampers) PROVE UNCHANGED <<phase, received, left>>
    BY <2>2 DEF Operate
  <2>3. ASSUME ChangeHeader \/ ChangeFraming \/ ChangeCookies
        PROVE  UNCHANGED <<phase, received, left>>
    BY <2>2, <2>3, Zenon DEF ChangeHeader, ChangeFraming, ChangeCookies
  <2>4. ASSUME UNCHANGED vars PROVE UNCHANGED <<phase, received, left>>
    BY <2>4 DEF vars
  <2>5. QED BY <1>1, <2>1, <2>3, <2>4 DEF Next
<1>3. ASSUME ParseMessage PROVE LeftInv'
  <2>1. PICK r : r = Parse(header, received)
    OBVIOUS
  <2>2. Take(r) /\ received' = received
    BY <1>3, <2>1 DEF ParseMessage
  <2>3. SUFFICES ASSUME phase' = "parsed"
                 PROVE  \E h : Parse(h, received').ok /\ left' = Parse(h, received').rest
    BY DEF LeftInv
  <2>4. r.ok /\ left' = r.rest
    BY <2>2, <2>3 DEF Take
  <2>5. QED BY <2>1, <2>2, <2>4
<1>4. ASSUME UNCHANGED <<phase, received, left>> PROVE LeftInv'
  BY <1>1, <1>4 DEF LeftInv
<1>5. QED BY <1>2, <1>3, <1>4 DEF LeftInv

\* Of a header without continued lines the parser takes exactly what its raw copy
\* holds.
LEMMA LeftIsBody == MatcherInv /\ LeftInv => RestIsBody
<1>1. SUFFICES ASSUME received \in Seq(Symbols), LeftInv, phase = "parsed", received # <<>>,
                      NotContinued(From(received, FirstLine(received).size))
               PROVE  left = Behind(From(received, FirstLine(received).size))
  BY DEF RestIsBody, NotContinued, Behind, MatcherInv
<1>2. PICK h : Parse(h, received).ok /\ left = Parse(h, received).rest
  BY <1>1 DEF LeftInv
<1>3. QED BY <1>1, <1>2, ParseLeaves

\* The parser leaves the body and what is pipelined behind it (RestIsBody).
THEOREM ParserLeavesBody == Spec => []RestIsBody
<1>1. Init => MatcherInv /\ LeftInv
  BY MatcherInit, LeftInit
<1>2. MatcherInv /\ LeftInv /\ [Next]_vars => (MatcherInv /\ LeftInv)'
  BY MatcherNext, LeftNext
<1>3. MatcherInv /\ LeftInv => RestIsBody
  BY LeftIsBody
<1>4. QED BY <1>1, <1>2, <1>3, PTL DEF Spec

(***************************************************************************)
(* Args objects beside the messages.                                       *)
(***************************************************************************)

TableProofs == INSTANCE ArgsTableProofs

\* The Args objects beside the messages only take steps of their own.
LEMMA TableSteps == MCSpec => TableProofs!Spec
<1>1. MCInit => TableProofs!Init
  BY DEF MCInit, Table!Init, TableProofs!Init, Table!Done, TableProofs!Done
<1>2. Table!Next => TableProofs!Next
  <2>1. ASSUME NEW o, NEW arg PROVE Table!AppendArg(o, arg) => TableProofs!AppendArg(o, arg)
    BY DEF Table!AppendArg, TableProofs!AppendArg
  <2>2. Table!Done = TableProofs!Done
    BY DEF Table!Done, TableProofs!Done
  <2>3. ASSUME NEW o, NEW key, NEW value PROVE Table!Add(o, key, value) => TableProofs!Add(o, key, value)
    BY <2>1, <2>2 DEF Table!Add, TableProofs!Add, Table!Pair, TableProofs!Pair
  <2>4. ASSUME NEW o PROVE Table!Args(o) = TableProofs!Args(o)
    BY DEF Table!Args, TableProofs!Args
  <2>5. ASSUME NEW o, NEW key, NEW value PROVE Table!Set(o, key, value) => TableProofs!Set(o, key, value)
    <3>1. Table!IndexArg(Table!Args(o), key) = TableProofs!IndexArg(TableProofs!Args(o), key)
      BY DEF Table!IndexArg, TableProofs!IndexArg, Table!SelectInSeq, TableProofs!SelectInSeq,
             Table!Min, TableProofs!Min, Table!Args, TableProofs!Args
    <3>2. QED BY <2>1, <2>2, <3>1 DEF Table!Set, TableProofs!Set, Table!Pair, TableProofs!Pair
  <2>6. ASSUME NEW o PROVE Table!Reset(o) => TableProofs!Reset(o)
    BY <2>2 DEF Table!Reset, TableProofs!Reset
  <2>7. ASSUME NEW o, NEW dst PROVE Table!CopyTo(o, dst) => TableProofs!CopyTo(o, dst)
    BY DEF Table!CopyTo, TableProofs!CopyTo, Table!Args, TableProofs!Args, Table!Done, TableProofs!Done,
           Table!SelectInSeq, TableProofs!SelectInSeq, Table!Min, TableProofs!Min
  <2>8. ASSUME NEW o, NEW key PROVE Table!Del(o, key) => TableProofs!Del(o, key)
    BY <2>2 DEF Table!Del, TableProofs!Del
  <2>9. /\ Table!Keep => TableProofs!Keep
        /\ Table!Deleted => TableProofs!Deleted
    BY <2>2 DEF Table!Keep, TableProofs!Keep, Table!Deleted, TableProofs!Deleted
  <2>10. Table!Remove1 => TableProofs!Remove1
    BY <2>2 DEF Table!Remove1, TableProofs!Remove1, Table!Shift, TableProofs!Shift
  <2>11. QED
    BY <2>3, <2>5, <2>6, <2>7, <2>8, <2>9, <2>10 DEF Table!Next, TableProofs!Next
<1>3. [MCNext]_<<vars, tableVars>> => [TableProofs!Next]_(TableProofs!vars)
  BY <1>2 DEF MCNext, tableVars, TableProofs!vars
<1>4. QED BY <1>1, <1>3, PTL DEF MCSpec, TableProofs!Spec

\* Args objects never share the buffers of an argument (NoAliasing), beside the messages
\* as on their own.
THEOREM ArgumentsAreNotShared == MCSpec => []NoAliasing
<1>1. TableProofs!NoAliasing => NoAliasing
  BY DEF NoAliasing, Table!NoAliasing, TableProofs!NoAliasing
<1>2. TableProofs!Spec => []TableProofs!NoAliasing
  BY TableProofs!ArgumentsNeverAlias
<1>3. QED BY <1>1, <1>2, TableSteps, PTL

\* Both instances speak of the same lists.
LEMMA SameLists == TableProofs!Lists = Table!Lists
<1>1. ASSUME NEW h, NEW A PROVE TableProofs!Only(h, A) = Table!Only(h, A)
  BY Zenon DEF TableProofs!Only, Table!Only
<1>2. ASSUME NEW h, NEW key PROVE TableProofs!DelAllArgs(h, key) = Table!DelAllArgs(h, key)
  <2>1. TableProofs!ToSet(h) = Table!ToSet(h)
    BY DEF TableProofs!ToSet, Table!ToSet
  <2>2. QED BY <1>1, <2>1 DEF TableProofs!DelAllArgs, Table!DelAllArgs
<1>3. TableProofs!Done = Table!Done /\ \A o : TableProofs!Args(o) = Table!Args(o)
  BY DEF TableProofs!Done, Table!Done, TableProofs!Args, Table!Args
<1>4. QED BY <1>2, <1>3 DEF TableProofs!Lists, Table!Lists

\* ... and of the same list of pairs.
LEMMA SamePairs ==
    /\ TableProofs!Abstract!Init => Table!Abstract!Init
    /\ TableProofs!Abstract!Next => Table!Abstract!Next
    /\ (UNCHANGED TableProofs!Lists) => UNCHANGED Table!Lists
<1>1. TableProofs!Abstract!Init => Table!Abstract!Init
  BY SameLists DEF TableProofs!Abstract!Init, Table!Abstract!Init
<1>2. TableProofs!Lists = Table!Lists /\ TableProofs!Lists' = Table!Lists'
  <2>1. (TableProofs!Lists = Table!Lists)'
    BY SameLists, PTL
  <2>2. QED BY SameLists, <2>1
<1>3. ASSUME NEW h, NEW arg PROVE TableProofs!Abstract!SetArg(h, arg) = Table!Abstract!SetArg(h, arg)
  <2>1. ASSUME NEW k PROVE TableProofs!Abstract!IndexArg(h, k) = Table!Abstract!IndexArg(h, k)
    BY DEF TableProofs!Abstract!IndexArg, Table!Abstract!IndexArg, TableProofs!Abstract!SelectInSeq, Table!Abstract!SelectInSeq, TableProofs!Abstract!Min, Table!Abstract!Min
  <2>2. QED BY <2>1 DEF TableProofs!Abstract!SetArg, Table!Abstract!SetArg, TableProofs!Abstract!HasArg, Table!Abstract!HasArg
<1>4. ASSUME NEW h, NEW k PROVE TableProofs!Abstract!DelAllArgs(h, k) = Table!Abstract!DelAllArgs(h, k)
  <2>1. ASSUME NEW A PROVE TableProofs!Abstract!Only(h, A) = Table!Abstract!Only(h, A)
    BY Zenon DEF TableProofs!Abstract!Only, Table!Abstract!Only
  <2>2. TableProofs!Abstract!ToSet(h) = Table!Abstract!ToSet(h)
    BY DEF TableProofs!Abstract!ToSet, Table!Abstract!ToSet
  <2>3. QED BY <2>1, <2>2 DEF TableProofs!Abstract!DelAllArgs, Table!Abstract!DelAllArgs
<1>5. ASSUME NEW o, NEW key, NEW value PROVE TableProofs!Abstract!Set(o, key, value) => Table!Abstract!Set(o, key, value)
  BY <1>2, <1>3 DEF TableProofs!Abstract!Set, Table!Abstract!Set, TableProofs!Abstract!Pair, Table!Abstract!Pair
<1>6. ASSUME NEW o, NEW key, NEW value PROVE TableProofs!Abstract!Add(o, key, value) => Table!Abstract!Add(o, key, value)
  BY <1>2 DEF TableProofs!Abstract!Add, Table!Abstract!Add, TableProofs!Abstract!Pair, Table!Abstract!Pair
<1>7. ASSUME NEW o, NEW key PROVE TableProofs!Abstract!Del(o, key) => Table!Abstract!Del(o, key)
  BY <1>2, <1>4 DEF TableProofs!Abstract!Del, Table!Abstract!Del
<1>8. ASSUME NEW o PROVE TableProofs!Abstract!Reset(o) => Table!Abstract!Reset(o)
  BY <1>2 DEF TableProofs!Abstract!Reset, Table!Abstract!Reset
<1>9. ASSUME NEW o, NEW dst PROVE TableProofs!Abstract!CopyTo(o, dst) => Table!Abstract!CopyTo(o, dst)
  BY <1>2 DEF TableProofs!Abstract!CopyTo, Table!Abstract!CopyTo
<1>10. TableProofs!Abstract!Next => Table!Abstract!Next
  BY <1>5, <1>6, <1>7, <1>8, <1>9, Zenon DEF TableProofs!Abstract!Next, Table!Abstract!Next
<1>11. QED BY <1>1, <1>2, <1>10

\* An Args object is the list of pairs it promises to be (ImplementsPairList).
THEOREM ArgumentsAreAList == MCSpec => ImplementsPairList
<1>1. TableProofs!Spec => TableProofs!ImplementsPairList
  BY TableProofs!Refinement
<1>2. TableProofs!ImplementsPairList => ImplementsPairList
  BY SamePairs, PTL DEF ImplementsPairList, TableProofs!ImplementsPairList, Table!ImplementsPairList, TableProofs!Abstract!Spec, Table!Abstract!Spec
<1>3. QED BY <1>1, <1>2, TableSteps, PTL
=============================================================================
