---------------------------- MODULE SequenceLemmas ----------------------------
(***************************************************************************)
(* What several proof modules need of numbers, of sequences, and of Only.  *)
(* Induction is stated over a set: what holds of the elements of a set is  *)
(* first-order, and the provers can instantiate it.                        *)
(***************************************************************************)
EXTENDS Subsequence, SequenceTheorems, WellFoundedInduction, TLAPS

\* A set of numbers has a least one.
LEMMA HasLeast ==
    ASSUME NEW T, T \subseteq Nat, T # {}
    PROVE  \E x \in T : \A y \in T : x <= y
<1>1. PICK R : /\ IsWellFoundedOn(R, Nat)
               /\ \A i, j \in Nat : i < j => <<i, j>> \in R
  <2>1. \A i, j \in Nat : i < j => <<i, j>> \in OpToRel(<, Nat)
    BY Zenon DEF OpToRel
  <2>2. QED BY <2>1, NatLessThanWellFounded, Zenon
<1>2. PICK x \in T : \A y \in T : ~ (<<y, x>> \in R)
  <2>1. IsWellFoundedOn(R, Nat)
    BY <1>1
  <2>2. QED BY <2>1, WFMin
<1>3. ASSUME NEW y \in T PROVE x <= y
  <2>1. ~ (y < x)
    BY <1>1, <1>2
  <2>2. QED BY <2>1
<1>4. QED BY <1>3

\* Induction on numbers: a set with 0 and the successor of each of its members.
LEMMA SetInduction ==
    ASSUME NEW Q, 0 \in Q, \A n \in Nat : n \in Q => n + 1 \in Q
    PROVE  Nat \subseteq Q
<1>1. SUFFICES ASSUME Nat \ Q # {} PROVE FALSE
  OBVIOUS
<1>2. PICK m \in Nat \ Q : \A n \in Nat \ Q : m <= n
  <2> DEFINE T == Nat \ Q
  <2>1. T \subseteq Nat /\ T # {}
    BY <1>1
  <2>2. \E x \in T : \A y \in T : x <= y
    <3> HIDE DEF T
    <3>1. QED BY <2>1, HasLeast
  <2>3. QED BY <2>2
<1>3. m # 0 /\ m - 1 \in Nat
  BY <1>2
<1>4. m - 1 \in Q
  BY <1>2, <1>3
<1>5. m \in Q
  BY <1>3, <1>4
<1>6. QED BY <1>2, <1>5

\* Induction on sequences: a set with the empty one that is closed under Append.
LEMMA SeqInduction ==
    ASSUME NEW S, NEW Q, <<>> \in Q,
           \A s \in Seq(S), x \in S : s \in Q => Append(s, x) \in Q
    PROVE  Seq(S) \subseteq Q
<1> DEFINE R == {n \in Nat : \A s \in Seq(S) : Len(s) = n => s \in Q}
<1>1. 0 \in R
  <2>1. \A s \in Seq(S) : Len(s) = 0 => s = <<>>
    OBVIOUS
  <2>2. QED BY <2>1
<1>2. ASSUME NEW n \in Nat, n \in R PROVE n + 1 \in R
  <2>1. SUFFICES ASSUME NEW s \in Seq(S), Len(s) = n + 1 PROVE s \in Q
    OBVIOUS
  <2>2. /\ SubSeq(s, 1, n) \in Seq(S) /\ Len(SubSeq(s, 1, n)) = n
        /\ s[n + 1] \in S /\ s = Append(SubSeq(s, 1, n), s[n + 1])
    BY <2>1
  <2>3. SubSeq(s, 1, n) \in Q
    BY <1>2, <2>2
  <2>4. QED BY <2>2, <2>3
<1>3. Nat \subseteq R
  <2> HIDE DEF R
  <2>1. QED BY <1>1, <1>2, SetInduction
<1>4. \A s \in Seq(S) : Len(s) \in R
  BY <1>3
<1>5. QED BY <1>4
-----------------------------------------------------------------------------
\* What makes f the function that Only is the last value of.
Picks(f, s, A, n) ==
    f = [i \in 0 .. n |-> IF i = 0 THEN <<>>
                          ELSE IF s[i] \in A THEN Append(f[i - 1], s[i])
                          ELSE f[i - 1]]

\* Functions with a domain and equal values are equal.
LEMMA SameFunction ==
    ASSUME NEW D, NEW f, NEW g, f = [x \in D |-> f[x]], g = [x \in D |-> g[x]],
           \A x \in D : f[x] = g[x]
    PROVE  f = g
  OBVIOUS

\* What every round of Only has picked, in terms of the round before.
LEMMA PicksStep ==
    ASSUME NEW f, NEW s, NEW A, NEW n \in Nat, Picks(f, s, A, n)
    PROVE  /\ f[0] = <<>>
           /\ \A i \in 1 .. n : f[i] = IF s[i] \in A THEN Append(f[i - 1], s[i]) ELSE f[i - 1]
<1>1. \A i \in 0 .. n : f[i] = IF i = 0 THEN <<>>
                              ELSE IF s[i] \in A THEN Append(f[i - 1], s[i])
                              ELSE f[i - 1]
  <2> DEFINE h == [i \in 0 .. n |-> IF i = 0 THEN <<>>
                              ELSE IF s[i] \in A THEN Append(f[i - 1], s[i])
                              ELSE f[i - 1]]
  <2>1. f = h
    BY DEF Picks
  <2>2. \A i \in 0 .. n : h[i] = IF i = 0 THEN <<>>
                              ELSE IF s[i] \in A THEN Append(f[i - 1], s[i])
                              ELSE f[i - 1]
    OBVIOUS
  <2> HIDE DEF h
  <2>3. \A i \in 0 .. n : f[i] = h[i]
    BY <2>1
  <2>4. QED BY <2>2, <2>3
<1>2. 0 \in 0 .. n /\ \A i \in 1 .. n : i \in 0 .. n /\ i # 0
  OBVIOUS
<1>3. QED BY <1>1, <1>2

\* There is such a function.
LEMMA PicksExists ==
    ASSUME NEW s, NEW A, NEW m \in Nat
    PROVE  \E f : Picks(f, s, A, m)
<1> DEFINE Q == {n \in Nat : \E f : Picks(f, s, A, n)}
<1>1. 0 \in Q
  <2>1. Picks([i \in 0 .. 0 |-> <<>>], s, A, 0)
    BY DEF Picks
  <2>2. QED BY <2>1
<1>2. ASSUME NEW n \in Nat, n \in Q PROVE n + 1 \in Q
  <2>1. PICK f : Picks(f, s, A, n)
    BY <1>2
  <2> DEFINE g == [i \in 0 .. n + 1 |->
                     IF i <= n THEN f[i]
                     ELSE IF s[n + 1] \in A THEN Append(f[n], s[n + 1]) ELSE f[n]]
             h == [i \in 0 .. n + 1 |-> IF i = 0 THEN <<>>
                          ELSE IF s[i] \in A THEN Append(g[i - 1], s[i])
                          ELSE g[i - 1]]
  <2>2. ASSUME NEW i \in 0 .. n + 1 PROVE g[i] = h[i]
    <3>1. CASE i = 0
      BY <2>1, <3>1 DEF Picks
    <3>2. CASE i \in 1 .. n
      <4>1. i \in 0 .. n /\ i - 1 \in 0 .. n
        BY <3>2
      <4>2. g[i] = f[i] /\ g[i - 1] = f[i - 1]
        BY <4>1
      <4>3. f[i] = IF s[i] \in A THEN Append(f[i - 1], s[i]) ELSE f[i - 1]
        BY <2>1, <3>2, PicksStep
      <4>4. QED BY <3>2, <4>2, <4>3
    <3>3. CASE i = n + 1
      BY <3>3
    <3>4. QED BY <3>1, <3>2, <3>3
  <2>3. g = h
    <3>1. g = [i \in 0 .. n + 1 |-> g[i]] /\ h = [i \in 0 .. n + 1 |-> h[i]]
      OBVIOUS
    <3>2. \A i \in 0 .. n + 1 : g[i] = h[i]
      BY <2>2
    <3> HIDE DEF g, h
    <3>3. QED BY <3>1, <3>2, SameFunction
  <2>4. Picks(g, s, A, n + 1)
    <3> HIDE DEF g
    <3>1. QED BY <2>3 DEF Picks
  <2>5. QED BY <2>4
<1>3. Nat \subseteq Q
  <2> HIDE DEF Q
  <2>1. QED BY <1>1, <1>2, SetInduction
<1>4. QED BY <1>3

\* Only is the last value of one.
LEMMA OnlyPicks ==
    ASSUME NEW s, NEW A, Len(s) \in Nat
    PROVE  \E f : Picks(f, s, A, Len(s)) /\ Only(s, A) = f[Len(s)]
<1> DEFINE F == CHOOSE f : f = [n \in 0 .. Len(s) |->
                                  IF n = 0 THEN <<>>
                                  ELSE IF s[n] \in A THEN Append(f[n - 1], s[n])
                                  ELSE f[n - 1]]
<1>1. \E f : Picks(f, s, A, Len(s))
  BY PicksExists
<1>2. Picks(F, s, A, Len(s))
  BY Zenon, <1>1 DEF Picks
<1>3. Only(s, A) = F[Len(s)]
  BY DEF Only
<1>4. QED BY <1>2, <1>3

\* As far as m, A picks from s what B picks from t.
Agree(s, A, t, B, m) == \A i \in 1 .. m : s[i] = t[i] /\ (s[i] \in A <=> s[i] \in B)

\* Two such functions are equal where both are defined, for sequences that are.
LEMMA PicksAgree ==
    ASSUME NEW s, NEW t, NEW A, NEW B, NEW m \in Nat, NEW k \in Nat, m <= k,
           NEW f, NEW g, Picks(f, s, A, m), Picks(g, t, B, k), Agree(s, A, t, B, m)
    PROVE  \A i \in 0 .. m : f[i] = g[i]
<1> DEFINE Q == {n \in Nat : n <= m => f[n] = g[n]}
<1>1. 0 \in Q
  BY DEF Picks
<1>2. ASSUME NEW n \in Nat, n \in Q PROVE n + 1 \in Q
  <2>1. SUFFICES ASSUME n + 1 <= m PROVE f[n + 1] = g[n + 1]
    OBVIOUS
  <2>2. f[n] = g[n]
    BY <1>2, <2>1
  <2>3. f[n + 1] = IF s[n + 1] \in A THEN Append(f[n], s[n + 1]) ELSE f[n]
    <3>1. n + 1 \in 0 .. m /\ n + 1 # 0 /\ (n + 1) - 1 = n
      BY <2>1
    <3>2. QED BY <3>1 DEF Picks
  <2>4. g[n + 1] = IF t[n + 1] \in B THEN Append(g[n], t[n + 1]) ELSE g[n]
    <3>1. n + 1 \in 0 .. k /\ n + 1 # 0 /\ (n + 1) - 1 = n
      BY <2>1
    <3>2. QED BY <3>1 DEF Picks
  <2>5. s[n + 1] = t[n + 1] /\ (s[n + 1] \in A <=> s[n + 1] \in B)
    BY <2>1 DEF Agree
  <2>6. QED BY <2>2, <2>3, <2>4, <2>5
<1>3. Nat \subseteq Q
  <2> HIDE DEF Q
  <2>1. QED BY <1>1, <1>2, SetInduction
<1>4. QED BY <1>3
-----------------------------------------------------------------------------
\* Nothing is taken of the empty sequence.
LEMMA OnlyEmpty == ASSUME NEW A PROVE Only(<<>>, A) = <<>>
<1>1. Len(<<>>) = 0
  OBVIOUS
<1>2. PICK f : Picks(f, <<>>, A, 0) /\ Only(<<>>, A) = f[0]
  BY <1>1, OnlyPicks
<1>3. QED BY <1>2 DEF Picks

\* The last element is taken or not.
LEMMA OnlyAppend ==
    ASSUME NEW S, NEW s \in Seq(S), NEW x \in S, NEW A
    PROVE  Only(Append(s, x), A) = IF x \in A THEN Append(Only(s, A), x) ELSE Only(s, A)
<1> DEFINE t == Append(s, x)
           m == Len(s)
<1>1. /\ m \in Nat /\ Len(t) = m + 1 /\ t[m + 1] = x
      /\ \A i \in 1 .. m : s[i] = t[i]
  OBVIOUS
<1> HIDE DEF t, m
<1>2. PICK f : Picks(f, s, A, m) /\ Only(s, A) = f[m]
  BY <1>1, OnlyPicks DEF m
<1>3. PICK g : Picks(g, t, A, m + 1) /\ Only(t, A) = g[m + 1]
  BY <1>1, OnlyPicks
<1>4. f[m] = g[m]
  <2>1. m + 1 \in Nat /\ m <= m + 1 /\ m \in 0 .. m
        /\ Agree(s, A, t, A, m)
    BY <1>1 DEF Agree
  <2>2. Picks(f, s, A, m) /\ Picks(g, t, A, m + 1)
    BY <1>2, <1>3
  <2>3. \A i \in 0 .. m : f[i] = g[i]
    BY <1>1, <2>1, <2>2, PicksAgree
  <2>4. QED BY <2>1, <2>3
<1>5. g[m + 1] = IF t[m + 1] \in A THEN Append(g[m], t[m + 1]) ELSE g[m]
  <2>1. m + 1 \in 0 .. m + 1 /\ m + 1 # 0 /\ (m + 1) - 1 = m
    BY <1>1
  <2>2. QED BY <1>3, <2>1 DEF Picks
<1>6. QED BY <1>1, <1>2, <1>3, <1>4, <1>5 DEF t

\* What is picked by a set, and by one that agrees with it on the sequence.
LEMMA OnlySame ==
    ASSUME NEW S, NEW s \in Seq(S), NEW A, NEW B,
           \A i \in 1 .. Len(s) : s[i] \in A <=> s[i] \in B
    PROVE  Only(s, A) = Only(s, B)
<1>1. Len(s) \in Nat
  OBVIOUS
<1>2. PICK f : Picks(f, s, A, Len(s)) /\ Only(s, A) = f[Len(s)]
  BY <1>1, OnlyPicks
<1>3. PICK g : Picks(g, s, B, Len(s)) /\ Only(s, B) = g[Len(s)]
  BY <1>1, OnlyPicks
<1>4. \A i \in 0 .. Len(s) : f[i] = g[i]
  <2>1. Len(s) <= Len(s) /\ Agree(s, A, s, B, Len(s))
    BY <1>1 DEF Agree
  <2>2. Picks(f, s, A, Len(s)) /\ Picks(g, s, B, Len(s))
    BY <1>2, <1>3
  <2>3. QED BY <1>1, <2>1, <2>2, PicksAgree
<1>5. QED BY <1>1, <1>2, <1>3, <1>4

\* What is taken is a sequence over the same set.
LEMMA OnlyType ==
    ASSUME NEW S, NEW s \in Seq(S), NEW A
    PROVE  Only(s, A) \in Seq(S)
<1> DEFINE Q == {t \in Seq(S) : Only(t, A) \in Seq(S)}
<1>1. <<>> \in Q
  <2>1. <<>> \in Seq(S) /\ Only(<<>>, A) = <<>>
    BY OnlyEmpty
  <2>2. QED BY <2>1
<1>2. ASSUME NEW t \in Seq(S), NEW x \in S, t \in Q PROVE Append(t, x) \in Q
  <2>1. Only(Append(t, x), A) = IF x \in A THEN Append(Only(t, A), x) ELSE Only(t, A)
    BY OnlyAppend
  <2>2. Only(t, A) \in Seq(S) /\ Append(t, x) \in Seq(S)
    BY <1>2
  <2>3. Only(Append(t, x), A) \in Seq(S)
    BY <2>1, <2>2
  <2>4. QED BY <2>2, <2>3
<1>3. Seq(S) \subseteq Q
  <2> HIDE DEF Q
  <2>1. QED BY <1>1, <1>2, SeqInduction
<1>4. QED BY <1>3

\* The front of w may move to the end of r.
LEMMA ConcatMove ==
    ASSUME NEW S, NEW r \in Seq(S), NEW w \in Seq(S), w # <<>>
    PROVE  Append(r, Head(w)) \o Tail(w) = r \o w
<1>1. Append(r, Head(w)) = r \o <<Head(w)>> /\ Head(w) \in S
  BY AppendIsConcat
<1>2. <<Head(w)>> \in Seq(S) /\ w = <<Head(w)>> \o Tail(w) /\ Tail(w) \in Seq(S)
  BY <1>1
<1>3. QED BY <1>1, <1>2, ConcatAssociative

\* Append to w is Append to what ends with w.
LEMMA ConcatAppend ==
    ASSUME NEW S, NEW r \in Seq(S), NEW w \in Seq(S), NEW x \in S
    PROVE  r \o Append(w, x) = (r \o w) \o <<x>>
<1>1. Append(w, x) = w \o <<x>>
  BY AppendIsConcat
<1>2. <<x>> \in Seq(S)
  OBVIOUS
<1>3. QED BY <1>1, <1>2, ConcatAssociative

\* The front of a concatenation is that of its first part.
LEMMA ConcatFront ==
    ASSUME NEW S, NEW s \in Seq(S), NEW t \in Seq(S), s # <<>>
    PROVE  s \o t # <<>> /\ Head(s \o t) = Head(s) /\ Tail(s \o t) = Tail(s) \o t
<1>1. PICK x \in S, u \in Seq(S) : x = Head(s) /\ u = Tail(s)
  <2>1. Head(s) \in S /\ Tail(s) \in Seq(S)
    OBVIOUS
  <2>2. QED BY Zenon, <2>1
<1>2. s = <<x>> \o u
  BY <1>1
<1>3. s \o t = <<x>> \o (u \o t)
  BY <1>2
<1>4. PICK v \in Seq(S) : v = u \o t
  <2>1. u \o t \in Seq(S)
    OBVIOUS
  <2>2. QED BY Zenon, <2>1
<1>5. <<x>> \o v # <<>> /\ Head(<<x>> \o v) = x /\ Tail(<<x>> \o v) = v
  OBVIOUS
<1>6. s \o t = <<x>> \o v
  BY Zenon, <1>3, <1>4
<1>7. s \o t # <<>> /\ Head(s \o t) = x /\ Tail(s \o t) = v
  BY Zenon, <1>5, <1>6
<1>8. QED BY Zenon, <1>1, <1>4, <1>7

\* Concatenation of three, either way.
LEMMA ConcatRegroup ==
    ASSUME NEW S, NEW r \in Seq(S), NEW w \in Seq(S), NEW f \in Seq(S)
    PROVE  r \o (w \o f) = (r \o w) \o f
BY ConcatAssociative

\* A function of 1 .. n whose values are in S is a sequence over S.
LEMMA ListedIsSequence ==
    ASSUME NEW S, NEW n \in Nat, NEW u, u = [i \in 1 .. n |-> u[i]], \A i \in 1 .. n : u[i] \in S
    PROVE  u \in Seq(S) /\ Len(u) = n
OBVIOUS

\* What is taken of two parts is taken of each.
LEMMA OnlyConcat ==
    ASSUME NEW S, NEW s \in Seq(S), NEW t \in Seq(S), NEW A
    PROVE  Only(s \o t, A) = Only(s, A) \o Only(t, A)
<1> DEFINE Q == {u \in Seq(S) : Only(s \o u, A) = Only(s, A) \o Only(u, A)}
<1>1. <<>> \in Q
  <2>1. s \o <<>> = s /\ <<>> \in Seq(S)
    OBVIOUS
  <2>2. Only(s, A) \in Seq(S)
    BY OnlyType
  <2>3. Only(s, A) \o <<>> = Only(s, A)
    BY <2>2
  <2>4. Only(<<>>, A) = <<>>
    BY OnlyEmpty
  <2>5. QED BY <2>1, <2>3, <2>4
<1>2. ASSUME NEW u \in Seq(S), NEW x \in S, u \in Q PROVE Append(u, x) \in Q
  <2>1. s \o Append(u, x) = Append(s \o u, x) /\ s \o u \in Seq(S) /\ Append(u, x) \in Seq(S)
    OBVIOUS
  <2>2. Only(s, A) \in Seq(S) /\ Only(u, A) \in Seq(S)
    BY OnlyType
  <2>3. Only(Append(s \o u, x), A)
          = IF x \in A THEN Append(Only(s \o u, A), x) ELSE Only(s \o u, A)
    BY <2>1, OnlyAppend
  <2>4. Only(Append(u, x), A) = IF x \in A THEN Append(Only(u, A), x) ELSE Only(u, A)
    BY OnlyAppend
  <2>5. Append(Only(s, A) \o Only(u, A), x) = Only(s, A) \o Append(Only(u, A), x)
    <3>1. ASSUME NEW a \in Seq(S), NEW b \in Seq(S) PROVE Append(a \o b, x) = a \o Append(b, x)
      <4>1. Append(b, x) \in Seq(S) /\ a \o b \in Seq(S) /\ a \o Append(b, x) \in Seq(S)
            /\ Append(a \o b, x) \in Seq(S)
        OBVIOUS
      <4>2. Len(Append(a \o b, x)) = Len(a \o Append(b, x))
        BY <4>1
      <4>3. \A i \in 1 .. Len(Append(a \o b, x)) : Append(a \o b, x)[i] = (a \o Append(b, x))[i]
        BY <4>1
      <4>4. QED BY <4>1, <4>2, <4>3, SeqEqual
    <3>2. QED BY <2>2, <3>1
  <2>6. Only(s \o u, A) = Only(s, A) \o Only(u, A)
    BY <1>2
  <2>7. Only(s \o Append(u, x), A) = Only(s, A) \o Only(Append(u, x), A)
    <3>1. CASE x \in A
      BY <2>1, <2>3, <2>4, <2>5, <2>6, <3>1
    <3>2. CASE x \notin A
      BY <2>1, <2>3, <2>4, <2>6, <3>2
    <3>3. QED BY <3>1, <3>2
  <2>8. QED BY <2>1, <2>7
<1>3. Seq(S) \subseteq Q
  <2> HIDE DEF Q
  <2>1. QED BY <1>1, <1>2, SeqInduction
<1>4. QED BY <1>3

\* Only takes all of a sequence over the set.
LEMMA OnlyAll == ASSUME NEW S, NEW s \in Seq(S), NEW A, \A i \in 1 .. Len(s) : s[i] \in A
                 PROVE  Only(s, A) = s
<1> DEFINE Q == {t \in Seq(S) : Only(t, S) = t}
<1>1. <<>> \in Q
  BY OnlyEmpty
<1>2. ASSUME NEW t \in Seq(S), NEW x \in S, t \in Q PROVE Append(t, x) \in Q
  <2>1. Only(Append(t, x), S) = Append(Only(t, S), x)
    BY OnlyAppend
  <2>2. QED BY <1>2, <2>1
<1>3. Seq(S) \subseteq Q
  <2> HIDE DEF Q
  <2>1. QED BY <1>1, <1>2, SeqInduction
<1>4. Only(s, A) = Only(s, S)
  <2>1. \A i \in 1 .. Len(s) : s[i] \in A <=> s[i] \in S
    BY ElementOfSeq
  <2>2. QED BY <2>1, OnlySame
<1>5. QED BY <1>3, <1>4

\* What is taken of a single element.
LEMMA OnlyOne == ASSUME NEW A, NEW x PROVE Only(<<x>>, A) = IF x \in A THEN <<x>> ELSE <<>>
<1>1. <<>> \in Seq({x}) /\ x \in {x} /\ Append(<<>>, x) = <<x>>
  OBVIOUS
<1>2. Only(Append(<<>>, x), A) = IF x \in A THEN Append(Only(<<>>, A), x) ELSE Only(<<>>, A)
  BY <1>1, OnlyAppend
<1>3. QED BY <1>1, <1>2, OnlyEmpty

\* Only of a sequence that grows at its end.
LEMMA OnlyGrows ==
    ASSUME NEW S, NEW s \in Seq(S), NEW x \in S, NEW A
    PROVE  /\ x \in A => Only(s \o <<x>>, A) = Only(s, A) \o <<x>>
           /\ x \notin A => Only(s \o <<x>>, A) = Only(s, A)
<1>1. <<x>> \in Seq(S)
  OBVIOUS
<1>2. Only(s \o <<x>>, A) = Only(s, A) \o Only(<<x>>, A)
  <2>1. PICK t \in Seq(S) : t = <<x>>
    BY <1>1
  <2>2. Only(s \o t, A) = Only(s, A) \o Only(t, A)
    BY OnlyConcat
  <2>3. QED BY <2>1, <2>2
<1>3. Only(s, A) \in Seq(S)
  BY OnlyType
<1>4. Only(s, A) \o <<>> = Only(s, A)
  BY <1>3
<1>5. CASE x \in A
  <2>1. Only(<<x>>, A) = <<x>>
    BY <1>5, OnlyOne
  <2>2. QED BY <1>2, <1>5, <2>1
<1>6. CASE x \notin A
  <2>1. Only(<<x>>, A) = <<>>
    BY <1>6, OnlyOne
  <2>2. QED BY <1>2, <1>4, <1>6, <2>1
<1>7. QED BY <1>5, <1>6

\* An element that Only leaves out may be taken away before.
LEMMA OnlyWithout ==
    ASSUME NEW s, NEW t, NEW A, NEW m \in Nat, Len(s) = m + 1, Len(t) = m,
           NEW i \in 1 .. m + 1, s[i] \notin A,
           \A j \in 1 .. m : t[j] = IF j < i THEN s[j] ELSE s[j + 1]
    PROVE  Only(t, A) = Only(s, A)
<1>1. PICK f : Picks(f, s, A, m + 1) /\ Only(s, A) = f[m + 1]
  BY OnlyPicks
<1>2. PICK g : Picks(g, t, A, m) /\ Only(t, A) = g[m]
  BY OnlyPicks
<1>3. \A n \in 0 .. m : f[n + 1] = IF s[n + 1] \in A THEN Append(f[n], s[n + 1]) ELSE f[n]
  <2>1. ASSUME NEW n \in 0 .. m PROVE n + 1 \in 0 .. m + 1 /\ n + 1 # 0 /\ (n + 1) - 1 = n
    OBVIOUS
  <2>2. QED BY <1>1, <2>1 DEF Picks
<1>4. \A n \in 0 .. m - 1 : g[n + 1] = IF t[n + 1] \in A THEN Append(g[n], t[n + 1]) ELSE g[n]
  <2>1. ASSUME NEW n \in 0 .. m - 1 PROVE n + 1 \in 0 .. m /\ n + 1 # 0 /\ (n + 1) - 1 = n
    OBVIOUS
  <2>2. QED BY <1>2, <2>1 DEF Picks
<1>5. f[0] = <<>> /\ g[0] = <<>>
  BY <1>1, <1>2 DEF Picks
<1>6. f[i] = f[i - 1]
  <2>1. i - 1 \in 0 .. m /\ (i - 1) + 1 = i
    OBVIOUS
  <2>2. QED BY <1>3, <2>1
<1> DEFINE Q == {n \in Nat : n <= m => g[n] = IF n < i THEN f[n] ELSE f[n + 1]}
<1>7. 0 \in Q
  BY <1>5
<1>8. ASSUME NEW n \in Nat, n \in Q PROVE n + 1 \in Q
  <2>1. SUFFICES ASSUME n + 1 <= m
                 PROVE  g[n + 1] = IF n + 1 < i THEN f[n + 1] ELSE f[(n + 1) + 1]
    OBVIOUS
  <2>2. g[n] = IF n < i THEN f[n] ELSE f[n + 1]
    BY <1>8, <2>1
  <2>3. n \in 0 .. m - 1 /\ n \in 0 .. m /\ n + 1 \in 0 .. m /\ n + 1 \in 1 .. m
    BY <2>1
  <2>4. g[n + 1] = IF t[n + 1] \in A THEN Append(g[n], t[n + 1]) ELSE g[n]
    BY <1>4, <2>3
  <2>5. CASE n + 1 < i
    <3>1. t[n + 1] = s[n + 1] /\ g[n] = f[n]
      BY <2>2, <2>3, <2>5
    <3>2. f[n + 1] = IF s[n + 1] \in A THEN Append(f[n], s[n + 1]) ELSE f[n]
      BY <1>3, <2>3
    <3>3. QED BY <2>4, <2>5, <3>1, <3>2
  <2>6. CASE ~ (n + 1 < i)
    <3>1. t[n + 1] = s[(n + 1) + 1] /\ g[n] = f[n + 1]
      <4>1. t[n + 1] = s[(n + 1) + 1]
        BY <2>3, <2>6
      <4>2. CASE n + 1 = i
        <5>1. n = i - 1 /\ n < i
          BY <4>2
        <5>2. QED BY <1>6, <2>2, <4>1, <4>2, <5>1
      <4>3. CASE n + 1 # i
        BY <2>2, <2>6, <4>1, <4>3
      <4>4. QED BY <4>2, <4>3
    <3>2. f[(n + 1) + 1] = IF s[(n + 1) + 1] \in A THEN Append(f[n + 1], s[(n + 1) + 1]) ELSE f[n + 1]
      BY <1>3, <2>3
    <3>3. QED BY <2>4, <2>6, <3>1, <3>2
  <2>7. QED BY <2>5, <2>6
<1>9. m \in Q
  <2> HIDE DEF Q
  <2>1. Nat \subseteq Q
    BY <1>7, <1>8, SetInduction
  <2>2. QED BY <2>1
<1>10. g[m] = IF m < i THEN f[m] ELSE f[m + 1]
  BY <1>9
<1>11. CASE m < i
  <2>1. i = m + 1 /\ i - 1 = m
    BY <1>11
  <2>2. QED BY <1>1, <1>2, <1>6, <1>10, <1>11, <2>1
<1>12. CASE ~ (m < i)
  BY <1>1, <1>2, <1>10, <1>12
<1>13. QED BY <1>11, <1>12

\* A front that is taken, and one that is not.
LEMMA OnlyFront ==
    ASSUME NEW S, NEW s \in Seq(S), s # <<>>, NEW A
    PROVE  /\ Head(s) \in A => Only(s, A) = <<Head(s)>> \o Only(Tail(s), A)
           /\ Head(s) \notin A => Only(s, A) = Only(Tail(s), A)
<1>1. PICK x \in S, t \in Seq(S) : x = Head(s) /\ t = Tail(s)
  <2>1. Head(s) \in S /\ Tail(s) \in Seq(S)
    OBVIOUS
  <2>2. QED BY Zenon, <2>1
<1>2. s = <<x>> \o t
  BY <1>1
<1>3. Only(s, A) = Only(<<x>>, A) \o Only(t, A)
  <2>1. <<x>> \in Seq(S)
    OBVIOUS
  <2>2. PICK u \in Seq(S) : u = <<x>>
    BY Zenon, <2>1
  <2>3. Only(u \o t, A) = Only(u, A) \o Only(t, A)
    BY OnlyConcat
  <2>4. QED BY <1>2, <2>2, <2>3
<1>4. Only(t, A) \in Seq(S)
  BY OnlyType
<1>5. CASE x \in A
  BY <1>1, <1>3, <1>5, OnlyOne
<1>6. CASE x \notin A
  <2>1. Only(s, A) = <<>> \o Only(t, A)
    BY <1>3, <1>6, OnlyOne
  <2>2. QED BY <1>1, <1>4, <1>6, <2>1
<1>7. QED BY <1>5, <1>6

\* The head of the middle part may be taken away before, when Only leaves it out.
LEMMA OnlySkips ==
    ASSUME NEW S, NEW A
    PROVE  \A s, t, u \in Seq(S) :
               t # <<>> /\ Head(t) \notin A => Only(s \o Tail(t) \o u, A) = Only(s \o t \o u, A)
<1>1. \A x, y \in Seq(S) : Only(x \o y, A) = Only(x, A) \o Only(y, A)
  BY OnlyConcat
<1>2. \A t \in Seq(S) : t # <<>> /\ Head(t) \notin A => Only(t, A) = Only(Tail(t), A)
  BY OnlyFront
<1>3. SUFFICES ASSUME NEW s \in Seq(S), NEW t \in Seq(S), NEW u \in Seq(S),
                      t # <<>>, Head(t) \notin A
               PROVE  Only(s \o Tail(t) \o u, A) = Only(s \o t \o u, A)
  OBVIOUS
<1>4. Tail(t) \in Seq(S) /\ \A z \in Seq(S) : s \o z \in Seq(S)
  BY <1>3
<1>5. PICK v \in Seq(S) : v = Tail(t)
  BY Zenon, <1>4
<1>6. Only(s \o v, A) = Only(s \o t, A)
  <2>1. Only(s \o v, A) = Only(s, A) \o Only(v, A)
    BY Zenon, <1>1
  <2>2. Only(s \o t, A) = Only(s, A) \o Only(t, A)
    BY Zenon, <1>1
  <2>3. Only(t, A) = Only(Tail(t), A)
    BY Zenon, <1>2, <1>3
  <2>4. QED BY Zenon, <1>5, <2>1, <2>2, <2>3
<1>7. Only((s \o v) \o u, A) = Only(s \o v, A) \o Only(u, A)
  BY Zenon, <1>1, <1>4
<1>8. Only((s \o t) \o u, A) = Only(s \o t, A) \o Only(u, A)
  BY Zenon, <1>1, <1>4
<1>9. QED BY Zenon, <1>5, <1>6, <1>7, <1>8

\* A front that occurs once is taken, and what is left is taken without it.
LEMMA OnlyTakes ==
    ASSUME NEW S, NEW s \in Seq(S), s # <<>>, NEW A, Head(s) \in A,
           \A i \in 1 .. Len(s) : s[i] = Head(s) => i = 1
    PROVE  /\ Only(s, A) = <<Head(s)>> \o Only(Tail(s), A \ {Head(s)})
           /\ Only(Tail(s), A \ {Head(s)}) = Only(s, A \ {Head(s)})
           /\ Only(s, A) # <<>> /\ Head(Only(s, A)) = Head(s)
           /\ Tail(Only(s, A)) = Only(s, A \ {Head(s)})
<1>1. PICK x \in S, t \in Seq(S) : x = Head(s) /\ t = Tail(s)
  <2>1. Head(s) \in S /\ Tail(s) \in Seq(S)
    OBVIOUS
  <2>2. QED BY Zenon, <2>1
<1>2. \A i \in 1 .. Len(t) : t[i] # x
  BY <1>1
<1>3. Only(t, A) = Only(t, A \ {x})
  <2>1. \A i \in 1 .. Len(t) : t[i] \in A <=> t[i] \in A \ {x}
    BY <1>2
  <2>2. QED BY <2>1, OnlySame
<1>4. Only(s, A) = <<x>> \o Only(t, A)
  BY <1>1, OnlyFront
<1>5. Only(s, A \ {x}) = Only(t, A \ {x})
  BY <1>1, OnlyFront
<1>6. PICK y \in Seq(S) : y = Only(t, A \ {x})
  BY OnlyType
<1>7. Only(s, A) = <<x>> \o y
  BY <1>3, <1>4, <1>6
<1>8. <<x>> \o y # <<>> /\ Head(<<x>> \o y) = x /\ Tail(<<x>> \o y) = y
  OBVIOUS
<1>9. QED BY <1>1, <1>5, <1>6, <1>7, <1>8

\* Only takes nothing that is not there.
LEMMA OnlyAmong ==
    ASSUME NEW S, NEW s \in Seq(S), NEW A, NEW x, \A i \in 1 .. Len(s) : s[i] # x
    PROVE  \A i \in 1 .. Len(Only(s, A)) : Only(s, A)[i] # x
<1>1. s \in Seq(S \ {x})
  <2>1. \A i \in 1 .. Len(s) : s[i] \in S \ {x}
    BY ElementOfSeq
  <2>2. Len(s) \in Nat /\ s = [i \in 1 .. Len(s) |-> s[i]]
    OBVIOUS
  <2>3. QED BY <2>1, <2>2
<1>2. PICK t \in Seq(S \ {x}) : t = Only(s, A)
  BY <1>1, OnlyType
<1>3. \A i \in 1 .. Len(t) : t[i] \in S \ {x}
  BY ElementOfSeq
<1>4. QED BY <1>2, <1>3

\* The empty set takes nothing.
LEMMA OnlyNothing == ASSUME NEW S, NEW s \in Seq(S) PROVE Only(s, {}) = <<>>
<1> DEFINE Q == {t \in Seq(S) : Only(t, {}) = <<>>}
<1>1. <<>> \in Q
  BY OnlyEmpty
<1>2. ASSUME NEW t \in Seq(S), NEW x \in S, t \in Q PROVE Append(t, x) \in Q
  <2>1. Only(Append(t, x), {}) = IF x \in {} THEN Append(Only(t, {}), x) ELSE Only(t, {})
    BY OnlyAppend
  <2>2. QED BY <1>2, <2>1
<1>3. Seq(S) \subseteq Q
  <2> HIDE DEF Q
  <2>1. QED BY <1>1, <1>2, SeqInduction
<1>4. QED BY <1>3

\* A sequence with one element more, which is x.
LEMMA AppendIs ==
    ASSUME NEW S, NEW s \in Seq(S), NEW t \in Seq(S), NEW x \in S,
           Len(t) = Len(s) + 1, t[Len(s) + 1] = x, \A i \in 1 .. Len(s) : t[i] = s[i]
    PROVE  t = Append(s, x)
<1>1. PICK r \in Seq(S) : r = Append(s, x)
  OBVIOUS
<1>2. Len(r) = Len(s) + 1 /\ r[Len(s) + 1] = x /\ \A i \in 1 .. Len(s) : r[i] = s[i]
  BY <1>1
<1>3. \A i \in 1 .. Len(s) + 1 : t[i] = r[i]
  BY <1>2
<1>4. t = r
  BY <1>2, <1>3, SeqEqual
<1>5. QED BY <1>1, <1>4

\* The same last element taken off.
LEMMA CancelLast ==
    ASSUME NEW S, NEW s \in Seq(S), NEW t \in Seq(S), NEW x \in S, s \o <<x>> = t \o <<x>>
    PROVE  s = t
<1>1. Append(s, x) = s \o <<x>> /\ Append(t, x) = t \o <<x>>
  BY AppendIsConcat
<1>2. Append(s, x) = Append(t, x)
  BY <1>1
<1>3. QED BY <1>2, AppendInjective
-----------------------------------------------------------------------------
\* What the prefixes of a sequence are folded to, up to m of its elements.
Steps(f, D, step, base, s, m) ==
    /\ f \in [0 .. m -> D] /\ f[0] = base
    /\ \A i \in 1 .. m : f[i] = step[<<f[i - 1], s[i]>>]

\* Every sequence can be folded.
LEMMA StepsExist ==
    ASSUME NEW D, NEW E, NEW step \in [D \X E -> D], NEW base \in D,
           NEW m \in Nat, NEW s \in [1 .. m -> E]
    PROVE  \E f : Steps(f, D, step, base, s, m)
<1> DEFINE Q == {n \in Nat : n <= m => \E f : Steps(f, D, step, base, s, n)}
<1>1. 0 \in Q
  <2>1. Steps([i \in 0 .. 0 |-> base], D, step, base, s, 0)
    BY DEF Steps
  <2>2. QED BY <2>1
<1>2. ASSUME NEW n \in Nat, n \in Q PROVE n + 1 \in Q
  <2>1. SUFFICES ASSUME n + 1 <= m PROVE \E f : Steps(f, D, step, base, s, n + 1)
    OBVIOUS
  <2>2. PICK f : Steps(f, D, step, base, s, n)
    BY <1>2, <2>1
  <2>3. n \in 0 .. n /\ f[n] \in D /\ s[n + 1] \in E
    BY <2>1, <2>2 DEF Steps
  <2>4. step[<<f[n], s[n + 1]>>] \in D
    BY <2>3
  <2> DEFINE g == [i \in 0 .. n + 1 |-> IF i = n + 1 THEN step[<<f[n], s[n + 1]>>] ELSE f[i]]
  <2>5. ASSUME NEW i \in 0 .. n + 1 PROVE g[i] \in D
    <3>1. CASE i = n + 1
      BY <2>4, <3>1
    <3>2. CASE i # n + 1
      <4>1. i \in 0 .. n
        BY <3>2
      <4>2. QED BY <2>2, <3>2, <4>1 DEF Steps
    <3>3. QED BY <3>1, <3>2
  <2>6. g \in [0 .. n + 1 -> D] /\ g[0] = base
    <3>1. 0 \in 0 .. n + 1 /\ 0 # n + 1 /\ f[0] = base
      BY <2>2 DEF Steps
    <3>2. g[0] = base
      BY <3>1
    <3>3. g = [i \in 0 .. n + 1 |-> g[i]]
      OBVIOUS
    <3> HIDE DEF g
    <3>4. g \in [0 .. n + 1 -> D]
      BY <2>5, <3>3
    <3>5. QED BY <3>2, <3>4
  <2>7. ASSUME NEW i \in 1 .. n + 1 PROVE g[i] = step[<<g[i - 1], s[i]>>]
    <3>1. CASE i = n + 1
      <4>1. i - 1 = n /\ n \in 0 .. n + 1 /\ n # n + 1
        BY <3>1
      <4>2. g[i - 1] = f[n] /\ g[i] = step[<<f[n], s[n + 1]>>]
        BY <3>1, <4>1
      <4>3. QED BY <3>1, <4>2
    <3>2. CASE i # n + 1
      <4>1. i \in 1 .. n /\ i - 1 \in 0 .. n /\ i - 1 # n + 1
        BY <3>2
      <4>2. g[i - 1] = f[i - 1] /\ g[i] = f[i]
        BY <3>2, <4>1
      <4>3. QED BY <2>2, <4>1, <4>2 DEF Steps
    <3>3. QED BY <3>1, <3>2
  <2>8. Steps(g, D, step, base, s, n + 1)
    BY <2>6, <2>7 DEF Steps
  <2>9. QED BY <2>8
<1>3. Nat \subseteq Q
  <2> HIDE DEF Q
  <2>1. QED BY <1>1, <1>2, SetInduction
<1>4. PICK f : Steps(f, D, step, base, s, m)
  BY <1>3
<1>5. QED BY <1>4
===============================================================================
