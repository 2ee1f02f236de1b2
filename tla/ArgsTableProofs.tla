--------------------------- MODULE ArgsTableProofs ---------------------------
(***************************************************************************)
(* Theorems about ArgsTable, for any number of Args objects of any length: *)
(* the buffers of an argument are never shared, and an object behaves as   *)
(* the list of pairs that PairList specifies.                              *)
(***************************************************************************)
EXTENDS ArgsTable, SequenceLemmas

Buffers == 1 .. Len(heap)
Pairs == [key : Keys, value : Values]

IInv == TypeOK /\ NoAliasing

\* What is known of the slots of an object.
LEMMA SlotFacts ==
    ASSUME TypeOK, NEW o \in Objects
    PROVE  /\ slots[o] \in Seq(Buffers) /\ Len(slots[o]) \in Nat /\ DOMAIN slots[o] = 1 .. Len(slots[o])
           /\ \A i \in 1 .. Len(slots[o]) : slots[o][i] \in Buffers
           /\ len[o] \in Nat /\ len[o] <= Len(slots[o])
           /\ heap \in Seq(Pairs) /\ Len(heap) \in Nat
           /\ \A b \in Buffers : heap[b] \in Pairs
<1>1. slots[o] \in Seq(Buffers) /\ len[o] \in Nat /\ len[o] <= Len(slots[o]) /\ heap \in Seq(Pairs)
  BY DEF TypeOK, Buffers, Pairs
<1>2. QED BY <1>1, LenProperties, ElementOfSeq DEF Buffers

\* Arguments are pairs.
LEMMA ArgsType ==
    ASSUME TypeOK, NEW o \in Objects, NEW i \in 1 .. len[o]
    PROVE  Args(o)[i] \in Pairs
<1>1. slots[o][i] \in Buffers
  BY SlotFacts
<1>2. heap[slots[o][i]] \in Pairs
  BY <1>1, SlotFacts
<1>3. QED BY <1>2 DEF Args

\* At the start there is no slot.
LEMMA InitInv == Init => IInv
<1> SUFFICES ASSUME Init PROVE IInv
  OBVIOUS
<1>1. <<>> \in Seq(Buffers) /\ <<>> \in Seq(Pairs) /\ Len(<<>>) = 0
  BY EmptySeq
<1>2. QED BY <1>1 DEF Init, IInv, TypeOK, NoAliasing, Buffers, Pairs

\* Steps that leave the slots and the lengths alone, and write into buffers there are.
LEMMA WriteStep ==
    ASSUME IInv, UNCHANGED <<slots, len, del>>, heap' \in Seq(Pairs), Len(heap') = Len(heap)
    PROVE  IInv'
  BY DEF IInv, TypeOK, NoAliasing, Pairs

\* Writing an argument into a buffer.
LEMMA WriteType ==
    ASSUME TypeOK, NEW b, NEW arg \in Pairs
    PROVE  [heap EXCEPT ![b] = arg] \in Seq(Pairs) /\ Len([heap EXCEPT ![b] = arg]) = Len(heap)
<1>1. heap \in Seq(Pairs) /\ Len(heap) \in Nat /\ DOMAIN heap = 1 .. Len(heap)
  BY LenProperties DEF TypeOK, Pairs
<1>2. CASE b \in 1 .. Len(heap)
  BY <1>1, <1>2, ExceptSeq
<1>3. CASE b \notin 1 .. Len(heap)
  <2>1. [heap EXCEPT ![b] = arg] = heap
    BY <1>1, <1>3
  <2>2. QED BY <1>1, <2>1
<1>4. QED BY <1>2, <1>3

\* A slot that is taken again keeps its buffers; a new one has fresh ones.
LEMMA AppendArgStep ==
    ASSUME IInv, del = Done, NEW o \in Objects, NEW arg \in Pairs, AppendArg(o, arg), UNCHANGED del
    PROVE  IInv'
<1>1. /\ len' = [len EXCEPT ![o] = @ + 1] /\ len \in [Objects -> Nat] /\ slots \in [Objects -> Seq(Buffers)]
      /\ len' \in [Objects -> Nat] /\ Len(heap) \in Nat
  BY SlotFacts DEF IInv, TypeOK, AppendArg, Buffers
<1>2. CASE /\ len[o] < Len(slots[o]) /\ UNCHANGED slots
           /\ heap' = [heap EXCEPT ![slots[o][len[o] + 1]] = arg]
  <2>1. heap' \in Seq(Pairs) /\ Len(heap') = Len(heap)
    BY <1>2, WriteType DEF IInv
  <2>2. \A p \in Objects : len'[p] <= Len(slots'[p])
    BY <1>1, <1>2, SlotFacts DEF IInv
  <2>3. QED BY <1>1, <1>2, <2>1, <2>2 DEF IInv, TypeOK, NoAliasing, Buffers, Pairs
<1>3. CASE /\ len[o] = Len(slots[o])
           /\ heap' = Append(heap, arg)
           /\ slots' = [slots EXCEPT ![o] = Append(@, Len(heap) + 1)]
  <2>1. heap' \in Seq(Pairs) /\ Len(heap') = Len(heap) + 1
    BY <1>3, SlotFacts, AppendProperties DEF IInv
  <2>2. Buffers \subseteq Buffers' /\ Len(heap) + 1 \in Buffers'
    BY <1>1, <2>1 DEF Buffers
  <2>3. \A p \in Objects : slots[p] \in Seq(Buffers')
    BY <1>1, <2>2, SeqMonotonic
  <2>4. /\ Append(slots[o], Len(heap) + 1) \in Seq(Buffers')
        /\ Len(Append(slots[o], Len(heap) + 1)) = Len(slots[o]) + 1
        /\ \A i \in 1 .. Len(slots[o]) : Append(slots[o], Len(heap) + 1)[i] = slots[o][i]
        /\ Append(slots[o], Len(heap) + 1)[Len(slots[o]) + 1] = Len(heap) + 1
    BY <2>2, <2>3, AppendProperties
  <2>5. slots' \in [Objects -> Seq(Buffers')]
    BY <1>1, <1>3, <2>3, <2>4
  <2>6. \A p \in Objects : len'[p] <= Len(slots'[p])
    BY <1>1, <1>3, <2>4, SlotFacts DEF IInv
  <2>7. TypeOK'
    BY <1>1, <2>1, <2>5, <2>6 DEF IInv, TypeOK, Buffers, Pairs
  <2>8. ASSUME NEW p \in Objects, NEW i \in DOMAIN slots'[p]
        PROVE  \/ i \in DOMAIN slots[p] /\ slots'[p][i] = slots[p][i] /\ slots[p][i] <= Len(heap)
               \/ p = o /\ i = Len(slots[o]) + 1 /\ slots'[p][i] = Len(heap) + 1
    <3>1. /\ DOMAIN slots[p] = 1 .. Len(slots[p]) /\ Len(slots[p]) \in Nat
          /\ \A j \in 1 .. Len(slots[p]) : slots[p][j] \in Buffers
      BY SlotFacts DEF IInv
    <3>2. CASE p # o
      BY <1>1, <1>3, <2>8, <3>1, <3>2 DEF Buffers
    <3>3. CASE p = o
      <4>1. slots'[p] = Append(slots[o], Len(heap) + 1)
        BY <1>1, <1>3, <3>3
      <4>2. i \in 1 .. Len(slots[o]) + 1
        BY <2>4, <2>8, <4>1, LenProperties
      <4>3. QED BY <2>4, <3>1, <3>3, <4>1, <4>2 DEF Buffers
    <3>4. QED BY <3>2, <3>3
  <2>9. NoAliasing'
    <3> SUFFICES ASSUME NEW p \in Objects, NEW q \in Objects,
                        NEW i \in DOMAIN slots'[p], NEW j \in DOMAIN slots'[q],
                        slots'[p][i] = slots'[q][j]
                 PROVE  p = q /\ i = j
      BY DEF NoAliasing
    <3>1. \/ i \in DOMAIN slots[p] /\ slots'[p][i] = slots[p][i] /\ slots[p][i] <= Len(heap)
          \/ p = o /\ i = Len(slots[o]) + 1 /\ slots'[p][i] = Len(heap) + 1
      BY <2>8
    <3>2. \/ j \in DOMAIN slots[q] /\ slots'[q][j] = slots[q][j] /\ slots[q][j] <= Len(heap)
          \/ q = o /\ j = Len(slots[o]) + 1 /\ slots'[q][j] = Len(heap) + 1
      BY <2>8
    <3>3. QED BY <1>1, <3>1, <3>2 DEF IInv, NoAliasing
  <2>10. QED BY <2>7, <2>9 DEF IInv
<1>4. QED BY <1>2, <1>3 DEF AppendArg

\* Add writes an argument behind the others.
LEMMA AddStep ==
    ASSUME IInv, NEW o \in Objects, NEW key \in Keys, NEW value \in Values, Add(o, key, value)
    PROVE  IInv'
<1>1. Pair(key, value) \in Pairs
  BY DEF Pair, Pairs
<1>2. QED BY <1>1, AppendArgStep DEF Add

\* A key that is there is overwritten, another is added.
LEMMA SetStep ==
    ASSUME IInv, NEW o \in Objects, NEW key \in Keys, NEW value \in Values, Set(o, key, value)
    PROVE  IInv'
<1>1. Pair(key, value) \in Pairs
  BY DEF Pair, Pairs
<1>2. CASE \E b : heap' = [heap EXCEPT ![b] = Pair(key, value)] /\ UNCHANGED <<slots, len, del>>
  BY <1>1, <1>2, WriteType, WriteStep DEF IInv
<1>3. CASE del = Done /\ AppendArg(o, Pair(key, value)) /\ UNCHANGED del
  BY <1>1, <1>3, AppendArgStep
<1>4. QED BY <1>2, <1>3 DEF Set

\* A reset keeps the slots.
LEMMA ResetStep ==
    ASSUME IInv, NEW o \in Objects, Reset(o)
    PROVE  IInv'
<1>1. \A p \in Objects : len'[p] \in Nat /\ len'[p] <= Len(slots[p])
  BY SlotFacts DEF IInv, TypeOK, Reset
<1>2. QED BY <1>1 DEF IInv, TypeOK, NoAliasing, Reset

\* The slots of the copy: its own, and as many fresh ones as it lacks.
AllSlots(dst, new) == slots[dst] \o [j \in 1 .. new |-> Len(heap) + j]

\* The slots of an object with new ones behind them.
LEMMA AllSlotsType ==
    ASSUME IInv, NEW dst \in Objects, NEW new \in Nat
    PROVE  LET all == AllSlots(dst, new) IN
           /\ all \in Seq(1 .. Len(heap) + new) /\ Len(all) = Len(slots[dst]) + new
           /\ \A i \in 1 .. Len(slots[dst]) : all[i] = slots[dst][i]
           /\ \A j \in 1 .. new : all[Len(slots[dst]) + j] = Len(heap) + j
<1> DEFINE fresh == [j \in 1 .. new |-> Len(heap) + j]
           S == 1 .. Len(heap) + new
<1>1. /\ slots[dst] \in Seq(Buffers) /\ Len(heap) \in Nat /\ Len(slots[dst]) \in Nat
      /\ Buffers \subseteq S
  BY SlotFacts DEF IInv, Buffers
<1>2. slots[dst] \in Seq(S)
  BY <1>1, SeqMonotonic
<1>3. fresh \in Seq(S) /\ Len(fresh) = new /\ \A j \in 1 .. new : fresh[j] = Len(heap) + j
  BY <1>1
<1>4. AllSlots(dst, new) = slots[dst] \o fresh
  BY DEF AllSlots
<1> HIDE DEF fresh, S
<1>5. /\ slots[dst] \o fresh \in Seq(S) /\ Len(slots[dst] \o fresh) = Len(slots[dst]) + new
      /\ \A i \in 1 .. Len(slots[dst]) + new : (slots[dst] \o fresh)[i] =
            IF i <= Len(slots[dst]) THEN slots[dst][i] ELSE fresh[i - Len(slots[dst])]
  BY <1>2, <1>3, ConcatProperties
<1>6. \A i \in 1 .. Len(slots[dst]) : (slots[dst] \o fresh)[i] = slots[dst][i]
  BY <1>1, <1>5
<1>7. ASSUME NEW j \in 1 .. new
      PROVE  (slots[dst] \o fresh)[Len(slots[dst]) + j] = Len(heap) + j
  <2>1. /\ Len(slots[dst]) + j \in 1 .. Len(slots[dst]) + new
        /\ ~ (Len(slots[dst]) + j <= Len(slots[dst])) /\ (Len(slots[dst]) + j) - Len(slots[dst]) = j
    BY <1>1
  <2>2. QED BY <1>3, <1>5, <2>1
<1>8. QED BY <1>4, <1>5, <1>6, <1>7 DEF S

\* The copy reaches every fresh buffer: none is left without an argument.
LEMMA FreshWritten ==
    ASSUME IInv, NEW o \in Objects, NEW dst \in Objects, NEW new \in Nat,
           new # 0 => Len(slots[dst]) + new = len[o],
           NEW b \in Len(heap) + 1 .. Len(heap) + new
    PROVE  SelectInSeq(AllSlots(dst, new), LAMBDA s : s = b) \in 1 .. len[o]
<1> DEFINE all == AllSlots(dst, new)
           I == {i \in 1 .. Len(all) : all[i] = b}
           j == b - Len(heap)
<1>1. /\ Len(heap) \in Nat /\ Len(slots[dst]) \in Nat /\ j \in 1 .. new /\ b = Len(heap) + j
      /\ Len(slots[dst]) + new = len[o]
  BY SlotFacts DEF IInv
<1>2. Len(all) = Len(slots[dst]) + new /\ all[Len(slots[dst]) + j] = b
  BY <1>1, AllSlotsType
<1> HIDE DEF all, j
<1>3. Len(slots[dst]) + j \in I /\ I \subseteq Nat /\ I \subseteq 1 .. len[o]
  BY <1>1, <1>2
<1>4. SelectInSeq(all, LAMBDA s : s = b) = IF I # {} THEN CHOOSE x \in I : \A y \in I : x =< y ELSE 0
  BY DEF SelectInSeq, Min
<1> HIDE DEF I
<1>5. (CHOOSE x \in I : \A y \in I : x =< y) \in I
  BY <1>3, HasLeast
<1>6. QED BY <1>3, <1>4, <1>5 DEF all

\* A copy writes over the slots of its own.
LEMMA CopyToStep ==
    ASSUME IInv, NEW o \in Objects, NEW dst \in Objects, CopyTo(o, dst)
    PROVE  IInv'
<1> DEFINE old == Len(slots[dst])
           new == IF old < len[o] THEN len[o] - old ELSE 0
           all == AllSlots(dst, new)
           At(b) == SelectInSeq(all, LAMBDA s : s = b)
<1>1. /\ slots' = [slots EXCEPT ![dst] = all] /\ len' = [len EXCEPT ![dst] = len[o]]
      /\ heap' = [b \in 1 .. Len(heap) + new |-> IF At(b) \in 1 .. len[o] THEN Args(o)[At(b)] ELSE heap[b]]
      /\ del = Done /\ UNCHANGED del
  BY DEF CopyTo, AllSlots
<1>2. /\ Len(heap) \in Nat /\ old \in Nat /\ len[o] \in Nat /\ new \in Nat
      /\ (new # 0 => old + new = len[o]) /\ len[o] <= old + new
      /\ slots \in [Objects -> Seq(Buffers)] /\ len \in [Objects -> Nat]
  BY SlotFacts DEF IInv, TypeOK, Buffers
<1> HIDE DEF old, new
<1>3. /\ all \in Seq(1 .. Len(heap) + new) /\ Len(all) = old + new
      /\ \A i \in 1 .. old : all[i] = slots[dst][i]
      /\ \A j \in 1 .. new : all[old + j] = Len(heap) + j
  BY <1>2, AllSlotsType DEF old
<1>4. heap' \in Seq(Pairs) /\ Len(heap') = Len(heap) + new
  <2>1. ASSUME NEW b \in 1 .. Len(heap) + new
        PROVE  (IF At(b) \in 1 .. len[o] THEN Args(o)[At(b)] ELSE heap[b]) \in Pairs
    <3>1. CASE At(b) \in 1 .. len[o]
      <4> DEFINE i == At(b)
      <4>1. i \in 1 .. len[o]
        BY <3>1
      <4> HIDE DEF i
      <4>2. Args(o)[i] \in Pairs
        BY <4>1, ArgsType DEF IInv
      <4>3. QED BY <3>1, <4>2 DEF i
    <3>2. CASE At(b) \notin 1 .. len[o]
      <4>1. b \notin Len(heap) + 1 .. Len(heap) + new
        BY <1>2, <3>2, FreshWritten DEF old
      <4>2. b \in Buffers
        BY <1>2, <4>1 DEF Buffers
      <4>3. QED BY <3>2, <4>2, SlotFacts DEF IInv
    <3>3. QED BY <3>1, <3>2
  <2> DEFINE e(b) == IF At(b) \in 1 .. len[o] THEN Args(o)[At(b)] ELSE heap[b]
  <2>2. \A b \in 1 .. Len(heap) + new : e(b) \in Pairs
    BY <2>1
  <2>3. heap' = [b \in 1 .. Len(heap) + new |-> e(b)]
    BY <1>1
  <2> HIDE DEF e
  <2>4. QED BY <1>2, <2>2, <2>3
<1> HIDE DEF all
<1>5. Buffers' = 1 .. Len(heap) + new /\ Buffers \subseteq Buffers'
  BY <1>2, <1>4 DEF Buffers
<1>6. \A p \in Objects : slots[p] \in Seq(Buffers')
  BY ZenonT(60), <1>2, <1>5, SeqMonotonic
<1>7. slots' \in [Objects -> Seq(Buffers')] /\ len' \in [Objects -> Nat]
  BY <1>1, <1>2, <1>3, <1>5, <1>6
<1>8. \A p \in Objects : len'[p] <= Len(slots'[p])
  BY <1>1, <1>2, <1>3, SlotFacts DEF IInv
<1>9. TypeOK'
  BY <1>1, <1>4, <1>7, <1>8 DEF IInv, TypeOK, Buffers, Pairs
<1>10. ASSUME NEW p \in Objects, NEW i \in DOMAIN slots'[p]
       PROVE  \/ i \in DOMAIN slots[p] /\ slots'[p][i] = slots[p][i] /\ slots[p][i] <= Len(heap)
              \/ p = dst /\ i > old /\ i \in Nat /\ slots'[p][i] = Len(heap) + (i - old)
  <2>1. /\ DOMAIN slots[p] = 1 .. Len(slots[p]) /\ Len(slots[p]) \in Nat
        /\ \A j \in 1 .. Len(slots[p]) : slots[p][j] \in Buffers
    BY SlotFacts DEF IInv
  <2>2. CASE p # dst
    BY <1>1, <1>2, <1>10, <2>1, <2>2 DEF Buffers
  <2>3. CASE p = dst
    <3>1. slots'[p] = all /\ i \in 1 .. old + new
      BY <1>1, <1>2, <1>3, <1>10, <2>3, LenProperties
    <3>2. CASE i <= old
      BY <1>2, <1>3, <2>1, <2>3, <3>1, <3>2 DEF Buffers, old
    <3>3. CASE ~ (i <= old)
      <4> DEFINE j == i - old
      <4>1. j \in 1 .. new /\ i = old + j
        BY <1>2, <3>1, <3>3
      <4> HIDE DEF j
      <4>2. all[i] = Len(heap) + j
        BY <1>3, <4>1
      <4>3. QED BY <1>2, <2>3, <3>1, <3>3, <4>2 DEF j
    <3>4. QED BY <3>2, <3>3
  <2>4. QED BY <2>2, <2>3
<1>11. NoAliasing'
  <2> SUFFICES ASSUME NEW p \in Objects, NEW q \in Objects,
                      NEW i \in DOMAIN slots'[p], NEW j \in DOMAIN slots'[q],
                      slots'[p][i] = slots'[q][j]
               PROVE  p = q /\ i = j
    BY DEF NoAliasing
  <2>1. \/ i \in DOMAIN slots[p] /\ slots'[p][i] = slots[p][i] /\ slots[p][i] <= Len(heap)
        \/ p = dst /\ i > old /\ i \in Nat /\ slots'[p][i] = Len(heap) + (i - old)
    BY <1>10
  <2>2. \/ j \in DOMAIN slots[q] /\ slots'[q][j] = slots[q][j] /\ slots[q][j] <= Len(heap)
        \/ q = dst /\ j > old /\ j \in Nat /\ slots'[q][j] = Len(heap) + (j - old)
    BY <1>10
  <2>3. CASE i \in DOMAIN slots[p] /\ j \in DOMAIN slots[q] /\ slots[p][i] = slots[q][j]
    BY <2>3 DEF IInv, NoAliasing
  <2>4. CASE /\ p = dst /\ i > old /\ i \in Nat /\ q = dst /\ j > old /\ j \in Nat
             /\ Len(heap) + (i - old) = Len(heap) + (j - old)
    BY <1>2, <2>4
  <2>5. ASSUME NEW b, NEW k \in Nat, b <= Len(heap), k > old, b = Len(heap) + (k - old) PROVE FALSE
    BY <1>2, <2>5
  <2>6. QED BY <2>1, <2>2, <2>3, <2>4, <2>5
<1>12. QED BY <1>9, <1>11 DEF IInv

\* The rounds of a deletion that move nothing.
LEMMA DeletionLoopStep ==
    ASSUME IInv, (\E o \in Objects, key \in Keys : Del(o, key)) \/ Keep \/ Deleted
    PROVE  IInv'
<1>1. UNCHANGED <<slots, len, heap>>
  BY DEF Del, Keep, Deleted
<1>2. CASE \E o \in Objects, key \in Keys : Del(o, key)
  <2>1. PICK o \in Objects, key \in Keys : del' = [o |-> o, key |-> key, i |-> 1, n |-> len[o]]
    BY <1>2 DEF Del
  <2>2. len[o] \in Nat
    BY SlotFacts DEF IInv
  <2>3. QED BY <1>1, <2>1, <2>2 DEF IInv, TypeOK, NoAliasing
<1>3. CASE Keep
  <2>1. del \in [o : Objects, key : Keys, i : Nat, n : Nat] /\ del.i \in 1 .. del.n + 1 /\ del.n = len[del.o]
    BY <1>3 DEF IInv, TypeOK, Keep
  <2>2. del' = [del EXCEPT !.i = @ + 1] /\ del.i <= del.n
    BY <1>3 DEF Keep
  <2>3. /\ del' \in [o : Objects, key : Keys, i : Nat, n : Nat]
        /\ del'.i \in 1 .. del'.n + 1 /\ del'.n = len[del'.o]
    BY <2>1, <2>2
  <2>4. QED BY <1>1, <2>3 DEF IInv, TypeOK, NoAliasing
<1>4. CASE Deleted
  BY <1>1, <1>4 DEF Deleted, IInv, TypeOK, NoAliasing
<1>5. QED BY <1>2, <1>3, <1>4

\* A deletion moves the slot it releases behind the others: it permutes the slots.
Source(l, i, n) == [j \in 1 .. l |-> IF j \in i .. n - 1 THEN j + 1 ELSE IF j = n THEN i ELSE j]

\* t has the elements of s, the one in place j from place from[j].
Permutes(S, t, s, from) ==
    /\ t \in Seq(S) /\ Len(t) = Len(s) /\ DOMAIN t = 1 .. Len(s)
    /\ \A j \in 1 .. Len(s) : from[j] \in 1 .. Len(s) /\ t[j] = s[from[j]]
    /\ \A j, k \in 1 .. Len(s) : from[j] = from[k] => j = k

\* A shift loses no slot and doubles none.
LEMMA ShiftPermutes ==
    ASSUME NEW S, NEW s \in Seq(S), NEW n \in 1 .. Len(s), NEW i \in 1 .. n
    PROVE  Permutes(S, Shift(s, i, n), s, Source(Len(s), i, n))
<1>1. Len(s) \in Nat /\ DOMAIN s = 1 .. Len(s) /\ \A j \in 1 .. Len(s) : s[j] \in S
  BY LenProperties, ElementOfSeq
<1> DEFINE from == Source(Len(s), i, n)
<1>2. \A j \in 1 .. Len(s) : from[j] \in 1 .. Len(s)
  BY <1>1 DEF Source
<1>3. \A j, k \in 1 .. Len(s) : from[j] = from[k] => j = k
  BY <1>1 DEF Source
<1>4. Shift(s, i, n) = [j \in 1 .. Len(s) |-> s[from[j]]]
  BY <1>1 DEF Shift, Source
<1> HIDE DEF from
<1>5. /\ [j \in 1 .. Len(s) |-> s[from[j]]] \in Seq(S)
      /\ Len([j \in 1 .. Len(s) |-> s[from[j]]]) = Len(s)
  BY <1>1, <1>2
<1>6. QED BY <1>1, <1>2, <1>3, <1>4, <1>5 DEF from, Permutes

\* The round that moves a slot behind the others.
LEMMA RemoveStep == ASSUME IInv, Remove1 PROVE IInv'
<1>1. /\ del \in [o : Objects, key : Keys, i : Nat, n : Nat] /\ del.i \in 1 .. del.n + 1
      /\ del.n = len[del.o] /\ del.i <= del.n
  BY DEF IInv, TypeOK, Remove1
<1> DEFINE o == del.o
           t == Shift(slots[o], del.i, del.n)
           from == Source(Len(slots[o]), del.i, del.n)
<1>2. /\ slots' = [slots EXCEPT ![o] = t] /\ len' = [len EXCEPT ![o] = del.n - 1]
      /\ del' = [del EXCEPT !.n = @ - 1] /\ UNCHANGED heap
  BY DEF Remove1
<1>3. /\ o \in Objects /\ slots \in [Objects -> Seq(Buffers)] /\ len \in [Objects -> Nat]
      /\ del.n \in 1 .. Len(slots[o]) /\ del.i \in 1 .. del.n
  BY <1>1, SlotFacts DEF IInv, TypeOK, Buffers
<1>4. /\ t \in Seq(Buffers) /\ Len(t) = Len(slots[o]) /\ DOMAIN t = 1 .. Len(slots[o])
      /\ \A j \in 1 .. Len(slots[o]) : from[j] \in 1 .. Len(slots[o]) /\ t[j] = slots[o][from[j]]
      /\ \A j, k \in 1 .. Len(slots[o]) : from[j] = from[k] => j = k
  <2>1. slots[o] \in Seq(Buffers)
    BY <1>3
  <2>2. Permutes(Buffers, t, slots[o], from)
    BY <1>3, <2>1, ShiftPermutes
  <2>3. QED BY <2>2 DEF Permutes
<1>5. /\ del' \in [o : Objects, key : Keys, i : Nat, n : Nat]
      /\ del'.i \in 1 .. del'.n + 1 /\ del'.n = del.n - 1 /\ del'.o = o
  <2>1. del' = [del EXCEPT !.n = del.n - 1]
    BY <1>2
  <2>2. del.n - 1 \in Nat /\ del.i \in 1 .. (del.n - 1) + 1
    BY <1>1
  <2>3. QED BY <1>1, <2>1, <2>2
<1> HIDE DEF t, from, o
<1>6. TypeOK'
  <2>1. slots' \in [Objects -> Seq(Buffers)] /\ len' \in [Objects -> Nat] /\ len'[o] = del.n - 1
    BY <1>2, <1>3, <1>4
  <2>2. \A p \in Objects : len'[p] <= Len(slots'[p])
    BY <1>2, <1>3, <1>4, SlotFacts DEF IInv
  <2>3. QED BY <1>2, <1>5, <2>1, <2>2 DEF IInv, TypeOK, Buffers
<1>7. ASSUME NEW p \in Objects, NEW j \in DOMAIN slots'[p]
      PROVE  \E k \in DOMAIN slots[p] :
                 slots'[p][j] = slots[p][k] /\ k = IF p = o THEN from[j] ELSE j
  <2>1. CASE p = o
    <3>1. j \in 1 .. Len(slots[o]) /\ slots'[p] = t /\ DOMAIN slots[o] = 1 .. Len(slots[o])
      BY <1>2, <1>3, <1>4, <1>7, <2>1, SlotFacts DEF IInv
    <3>2. QED BY <1>4, <2>1, <3>1
  <2>2. CASE p # o
    BY <1>2, <1>3, <1>7, <2>2
  <2>3. QED BY <2>1, <2>2
<1>8. NoAliasing'
  <2> SUFFICES ASSUME NEW p \in Objects, NEW q \in Objects,
                      NEW i \in DOMAIN slots'[p], NEW j \in DOMAIN slots'[q],
                      slots'[p][i] = slots'[q][j]
               PROVE  p = q /\ i = j
    BY DEF NoAliasing
  <2>1. PICK k \in DOMAIN slots[p] : slots'[p][i] = slots[p][k] /\ k = IF p = o THEN from[i] ELSE i
    BY <1>7
  <2>2. PICK m \in DOMAIN slots[q] : slots'[q][j] = slots[q][m] /\ m = IF q = o THEN from[j] ELSE j
    BY <1>7
  <2>3. p = q /\ k = m
    <3>1. slots[p][k] = slots[q][m]
      BY <2>1, <2>2
    <3>2. QED BY <3>1 DEF IInv, NoAliasing
  <2>4. CASE p = o
    <3>1. i \in 1 .. Len(slots[o]) /\ j \in 1 .. Len(slots[o]) /\ from[i] = from[j]
      BY <1>2, <1>3, <1>4, <2>1, <2>2, <2>3, <2>4
    <3>2. QED BY <1>4, <2>3, <3>1
  <2>5. CASE p # o
    BY <2>1, <2>2, <2>3, <2>5
  <2>6. QED BY <2>4, <2>5
<1>9. QED BY <1>6, <1>8 DEF IInv

\* Every action, together.
LEMMA NextInv == IInv /\ [Next]_vars => IInv'
<1> SUFFICES ASSUME IInv, [Next]_vars PROVE IInv'
  OBVIOUS
<1>1. CASE UNCHANGED vars
  BY <1>1 DEF vars, IInv, TypeOK, NoAliasing
<1>2. ASSUME NEW o \in Objects,
             \/ \E key \in Keys, value \in Values : Set(o, key, value) \/ Add(o, key, value)
             \/ Reset(o)
             \/ \E dst \in Objects : CopyTo(o, dst)
      PROVE  IInv'
  BY <1>2, SetStep, AddStep, ResetStep, CopyToStep
<1>3. QED BY <1>1, <1>2, DeletionLoopStep, RemoveStep DEF Next

\* The slots of an object are buffers that were allocated, and at least as many as
\* its arguments; a deletion stays inside them.
THEOREM TypeCorrectness == Spec => []TypeOK
<1>1. IInv => TypeOK
  BY DEF IInv
<1>2. QED BY <1>1, InitInv, NextInv, PTL DEF Spec

\* No two slots, of one object or of two, ever share the buffers of an argument:
\* what is added, set, deleted, copied and reset on one is seen by no other.
THEOREM ArgumentsNeverAlias == Spec => []NoAliasing
<1>1. IInv => NoAliasing
  BY DEF IInv
<1>2. QED BY <1>1, InitInv, NextInv, PTL DEF Spec
-----------------------------------------------------------------------------
\* The pairs that a deletion of key leaves.
Kept(key) == {kv \in Pairs : kv.key # key}

\* What a deletion went past has another key.
Scanned == del # Done => \A j \in 1 .. del.i - 1 : Args(del.o)[j].key # del.key

RefInv == IInv /\ Scanned

\* The arguments of an object as a sequence of pairs.
LEMMA ArgsSeq ==
    ASSUME IInv, NEW o \in Objects
    PROVE  /\ Args(o) \in Seq(Pairs) /\ Len(Args(o)) = len[o] /\ DOMAIN Args(o) = 1 .. len[o]
           /\ \A i \in 1 .. len[o] : Args(o)[i] = heap[slots[o][i]]
<1>1. heap \in Seq(Pairs) /\ slots[o] \in Seq(1 .. Len(heap)) /\ len[o] \in Nat
      /\ len[o] <= Len(slots[o])
  BY DEF IInv, TypeOK, Pairs
<1>2. \A i \in 1 .. len[o] : slots[o][i] \in 1 .. Len(heap)
  BY <1>1
<1>3. \A i \in 1 .. len[o] : heap[slots[o][i]] \in Pairs
  BY <1>1, <1>2
<1>4. Args(o) = [i \in 1 .. len[o] |-> heap[slots[o][i]]]
  BY DEF Args
<1> DEFINE e(i) == heap[slots[o][i]]
           n == len[o]
<1>5. n \in Nat /\ Args(o) = [i \in 1 .. n |-> e(i)] /\ \A i \in 1 .. n : e(i) \in Pairs
  BY <1>1, <1>3, <1>4
<1> HIDE DEF e, n
<1>6. Args(o) \in Seq(Pairs) /\ Len(Args(o)) = n
  BY <1>5
<1>7. QED BY <1>4, <1>6 DEF n

\* The same of the next state.
LEMMA ArgsNext ==
    ASSUME IInv', NEW o \in Objects
    PROVE  /\ Args(o)' \in Seq(Pairs) /\ Len(Args(o)') = len'[o] /\ DOMAIN Args(o)' = 1 .. len'[o]
           /\ \A i \in 1 .. len'[o] : Args(o)'[i] = heap'[slots'[o][i]]
<1>1. heap' \in Seq(Pairs) /\ slots'[o] \in Seq(1 .. Len(heap')) /\ len'[o] \in Nat
      /\ len'[o] <= Len(slots'[o])
  BY DEF IInv, TypeOK, Pairs
<1>2. \A i \in 1 .. len'[o] : slots'[o][i] \in 1 .. Len(heap')
  BY <1>1
<1>3. \A i \in 1 .. len'[o] : heap'[slots'[o][i]] \in Pairs
  BY <1>1, <1>2
<1>4. Args(o)' = [i \in 1 .. len'[o] |-> heap'[slots'[o][i]]]
  BY DEF Args
<1> DEFINE e(i) == heap'[slots'[o][i]]
           n == len'[o]
<1>5. n \in Nat /\ Args(o)' = [i \in 1 .. n |-> e(i)] /\ \A i \in 1 .. n : e(i) \in Pairs
  BY <1>1, <1>3, <1>4
<1> HIDE DEF e, n
<1>6. Args(o)' \in Seq(Pairs) /\ Len(Args(o)') = n
  BY <1>5
<1>7. QED BY <1>4, <1>6 DEF n

\* The arguments of an object are the same when its slots have the same pairs.
LEMMA ArgsSame ==
    ASSUME NEW o \in Objects, len'[o] = len[o],
           \A i \in 1 .. len[o] : heap'[slots'[o][i]] = heap[slots[o][i]]
    PROVE  Args(o)' = Args(o)
BY DEF Args

\* An operation that is not a deletion changes the list of one object.
LEMMA ListsChange ==
    ASSUME del = Done, del' = Done, NEW o \in Objects,
           \A p \in Objects : p # o => Args(p)' = Args(p)
    PROVE  Lists[o] = Args(o) /\ Lists' = [Lists EXCEPT ![o] = Args(o)']
<1>1. Lists = [p \in Objects |-> Args(p)]
  BY DEF Lists
<1>2. Lists' = [p \in Objects |-> Args(p)']
  BY DEF Lists
<1>3. QED BY <1>1, <1>2

\* A slot taken and written is an argument at the end of the list.
LEMMA AppendArgLists ==
    ASSUME IInv, IInv', del = Done, del' = Done, NEW o \in Objects, NEW arg \in Pairs, AppendArg(o, arg)
    PROVE  Args(o)' = Append(Args(o), arg) /\ \A p \in Objects : p # o => Args(p)' = Args(p)
<1>1. /\ len' = [len EXCEPT ![o] = @ + 1] /\ len \in [Objects -> Nat] /\ slots \in [Objects -> Seq(Buffers)]
      /\ Len(heap) \in Nat /\ len[o] \in Nat /\ len'[o] = len[o] + 1
  BY SlotFacts DEF IInv, TypeOK, AppendArg, Buffers
<1>2. PICK b : /\ slots'[o][len[o] + 1] = b /\ heap'[b] = arg
               /\ \A p \in Objects : \A i \in 1 .. len[p] :
                      slots'[p][i] = slots[p][i] /\ heap'[slots[p][i]] = heap[slots[p][i]]
  <2>1. CASE /\ len[o] < Len(slots[o]) /\ UNCHANGED slots
             /\ heap' = [heap EXCEPT ![slots[o][len[o] + 1]] = arg]
    <3>1. PICK b \in Buffers : b = slots[o][len[o] + 1]
      BY <1>1, <2>1, SlotFacts DEF IInv
    <3>2. heap' = [heap EXCEPT ![b] = arg] /\ DOMAIN heap = Buffers
      BY <2>1, <3>1, SlotFacts DEF IInv, Buffers
    <3>3. ASSUME NEW p \in Objects, NEW i \in 1 .. len[p]
          PROVE  slots[p][i] # b /\ slots[p][i] \in Buffers
      <4>1. /\ i \in DOMAIN slots[p] /\ slots[p][i] \in Buffers
            /\ len[o] + 1 \in DOMAIN slots[o]
        BY <1>1, <2>1, SlotFacts DEF IInv
      <4>2. CASE p = o
        BY <1>1, <3>1, <4>1, <4>2 DEF IInv, NoAliasing
      <4>3. CASE p # o
        BY <3>1, <4>1, <4>3 DEF IInv, NoAliasing
      <4>4. QED BY <4>2, <4>3
    <3>4. heap'[b] = arg /\ \A c \in Buffers : c # b => heap'[c] = heap[c]
      BY <3>2
    <3>5. QED BY <2>1, <3>1, <3>3, <3>4
  <2>2. CASE /\ len[o] = Len(slots[o])
             /\ heap' = Append(heap, arg)
             /\ slots' = [slots EXCEPT ![o] = Append(@, Len(heap) + 1)]
    <3>1. heap'[Len(heap) + 1] = arg /\ \A c \in Buffers : heap'[c] = heap[c]
      BY <2>2, SlotFacts, AppendProperties DEF IInv, Buffers
    <3>2. slots[o] \in Seq(Nat) /\ Len(heap) + 1 \in Nat
      BY <1>1, SeqMonotonic DEF Buffers
    <3>3. /\ Append(slots[o], Len(heap) + 1)[Len(slots[o]) + 1] = Len(heap) + 1
          /\ \A i \in 1 .. Len(slots[o]) : Append(slots[o], Len(heap) + 1)[i] = slots[o][i]
      BY <3>2, AppendProperties
    <3>4. slots'[o] = Append(slots[o], Len(heap) + 1) /\ \A p \in Objects : p # o => slots'[p] = slots[p]
      BY <1>1, <2>2
    <3>5. ASSUME NEW p \in Objects, NEW i \in 1 .. len[p]
          PROVE  slots'[p][i] = slots[p][i] /\ heap'[slots[p][i]] = heap[slots[p][i]]
      <4>1. i \in 1 .. Len(slots[p]) /\ slots[p][i] \in Buffers
        BY <1>1, SlotFacts DEF IInv
      <4>2. slots'[p][i] = slots[p][i]
        BY <3>3, <3>4, <4>1
      <4>3. QED BY <3>1, <4>1, <4>2
    <3>6. QED BY <2>2, <3>1, <3>3, <3>4, <3>5
  <2>3. QED BY <2>1, <2>2 DEF AppendArg
<1>3. ASSUME NEW p \in Objects, p # o PROVE Args(p)' = Args(p)
  <2>1. len'[p] = len[p]
    BY <1>1, <1>3
  <2>2. QED BY <1>2, <2>1, ArgsSame
<1>4. Args(o)' = Append(Args(o), arg)
  <2>1. /\ Args(o) \in Seq(Pairs) /\ Len(Args(o)) = len[o]
        /\ \A i \in 1 .. len[o] : Args(o)[i] = heap[slots[o][i]]
    BY ArgsSeq
  <2>2. /\ Args(o)' \in Seq(Pairs) /\ Len(Args(o)') = len[o] + 1
        /\ \A i \in 1 .. len[o] + 1 : Args(o)'[i] = heap'[slots'[o][i]]
    BY <1>1, ArgsNext
  <2>3. PICK s \in Seq(Pairs), t \in Seq(Pairs) : s = Args(o) /\ t = Args(o)'
    BY <2>1, <2>2
  <2>4. ASSUME NEW i \in 1 .. len[o] PROVE t[i] = s[i]
    <3>1. i \in 1 .. len[o] + 1
      BY <1>1
    <3>2. t[i] = heap'[slots'[o][i]] /\ s[i] = heap[slots[o][i]]
      BY <2>1, <2>2, <2>3, <3>1
    <3>3. QED BY <1>2, <3>2
  <2>5. t[len[o] + 1] = arg
    BY <1>1, <1>2, <2>2, <2>3
  <2>6. Len(s) = len[o] /\ Len(t) = len[o] + 1
    BY <2>1, <2>2, <2>3
  <2>7. t = Append(s, arg)
    BY <2>4, <2>5, <2>6, AppendIs
  <2>8. QED BY <2>3, <2>7
<1>5. QED BY <1>3, <1>4


\* The definitions of PairList are those of ArgsList.
LEMMA SameOperators ==
    ASSUME NEW h, NEW arg, NEW key, NEW value
    PROVE  /\ Abstract!SetArg(h, arg) = SetArg(h, arg)
           /\ Abstract!DelAllArgs(h, key) = DelAllArgs(h, key)
           /\ Abstract!Pair(key, value) = Pair(key, value)
<1>1. \A k : Abstract!IndexArg(h, k) = IndexArg(h, k)
  BY DEF IndexArg, SelectInSeq, Min, Abstract!IndexArg, Abstract!SelectInSeq, Abstract!Min
<1>2. Abstract!SetArg(h, arg) = SetArg(h, arg)
  BY <1>1 DEF SetArg, HasArg, Abstract!SetArg, Abstract!HasArg
<1>3. Abstract!DelAllArgs(h, key) = DelAllArgs(h, key)
  BY DEF DelAllArgs, Only, ToSet, Abstract!DelAllArgs, Abstract!Only, Abstract!ToSet
<1>4. QED BY <1>2, <1>3 DEF Pair, Abstract!Pair

\* Where an argument is looked up: in the list, or nowhere.
LEMMA IndexArgIn ==
    ASSUME NEW S, NEW h \in Seq(S), NEW key
    PROVE  IndexArg(h, key) \in 0 .. Len(h)
<1> DEFINE I == {i \in 1 .. Len(h) : h[i].key = key}
<1>1. IndexArg(h, key) = IF I # {} THEN CHOOSE x \in I : \A y \in I : x =< y ELSE 0
  BY DEF IndexArg, SelectInSeq, Min
<1>2. Len(h) \in Nat /\ I \subseteq Nat /\ I \subseteq 1 .. Len(h)
  OBVIOUS
<1> HIDE DEF I
<1>3. I # {} => (CHOOSE x \in I : \A y \in I : x =< y) \in I
  BY <1>2, HasLeast
<1>4. PICK least : least = CHOOSE x \in I : \A y \in I : x =< y
  OBVIOUS
<1>5. IndexArg(h, key) = IF I # {} THEN least ELSE 0
  BY <1>1, <1>4
<1>6. I # {} => least \in I
  BY <1>3, <1>4
<1>7. CASE I = {}
  <2>1. IndexArg(h, key) = 0
    BY <1>5, <1>7
  <2>2. QED BY <1>2, <2>1
<1>8. CASE I # {}
  <2>1. IndexArg(h, key) = least /\ least \in 1 .. Len(h)
    BY <1>2, <1>5, <1>6, <1>8
  <2>2. QED BY <1>2, <2>1
<1>9. QED BY <1>7, <1>8

\* Writing over an argument is seen in its place and nowhere else.
LEMMA WriteLists ==
    ASSUME IInv, IInv', NEW o \in Objects, NEW i \in 1 .. len[o], NEW arg \in Pairs,
           heap' = [heap EXCEPT ![slots[o][i]] = arg], UNCHANGED <<slots, len>>
    PROVE  /\ Args(o)' = [Args(o) EXCEPT ![i] = arg]
           /\ \A p \in Objects : p # o => Args(p)' = Args(p)
<1>1. PICK b \in Buffers : b = slots[o][i]
  BY SlotFacts DEF IInv
<1>2. heap'[b] = arg /\ \A c \in Buffers : c # b => heap'[c] = heap[c]
  <2>1. heap' = [heap EXCEPT ![b] = arg] /\ DOMAIN heap = Buffers
    BY <1>1, SlotFacts DEF IInv, Buffers
  <2>2. QED BY <2>1
<1>3. ASSUME NEW p \in Objects, NEW j \in 1 .. len[p]
      PROVE  slots[p][j] \in Buffers /\ (slots[p][j] = b => p = o /\ j = i)
  <2>1. j \in DOMAIN slots[p] /\ i \in DOMAIN slots[o] /\ slots[p][j] \in Buffers
    BY SlotFacts DEF IInv
  <2>2. QED BY <1>1, <2>1 DEF IInv, NoAliasing
<1>4. ASSUME NEW p \in Objects, p # o PROVE Args(p)' = Args(p)
  <2>1. \A j \in 1 .. len[p] : heap'[slots'[p][j]] = heap[slots[p][j]]
    BY <1>2, <1>3, <1>4
  <2>2. QED BY <2>1, ArgsSame
<1>5. Args(o)' = [Args(o) EXCEPT ![i] = arg]
  <2>1. DOMAIN Args(o) = 1 .. len[o] /\ \A j \in 1 .. len[o] : Args(o)[j] = heap[slots[o][j]]
    BY ArgsSeq
  <2>2. Args(o)' = [j \in 1 .. len[o] |-> heap'[slots[o][j]]]
    BY DEF Args
  <2>3. \A j \in 1 .. len[o] : heap'[slots[o][j]] = IF j = i THEN arg ELSE Args(o)[j]
    BY <1>1, <1>2, <1>3, <2>1
  <2>4. [Args(o) EXCEPT ![i] = arg] = [j \in 1 .. len[o] |-> IF j = i THEN arg ELSE Args(o)[j]]
    BY <2>1
  <2>5. QED BY <2>2, <2>3, <2>4
<1>6. QED BY <1>4, <1>5

\* Add is Add on the list.
LEMMA AddRefines ==
    ASSUME IInv, IInv', NEW o \in Objects, NEW key \in Keys, NEW value \in Values, Add(o, key, value)
    PROVE  Abstract!Add(o, key, value)
<1>1. Pair(key, value) \in Pairs /\ del = Done /\ del' = Done /\ AppendArg(o, Pair(key, value))
  BY DEF Pair, Pairs, Add
<1>2. /\ Args(o)' = Append(Args(o), Pair(key, value))
      /\ \A p \in Objects : p # o => Args(p)' = Args(p)
  BY <1>1, AppendArgLists
<1>3. Lists[o] = Args(o) /\ Lists' = [Lists EXCEPT ![o] = Args(o)']
  BY <1>1, <1>2, ListsChange
<1>4. QED BY <1>2, <1>3, SameOperators DEF Abstract!Add

\* Set is Set on the list.
LEMMA SetRefines ==
    ASSUME IInv, IInv', NEW o \in Objects, NEW key \in Keys, NEW value \in Values, Set(o, key, value)
    PROVE  Abstract!Set(o, key, value)
<1> DEFINE i == IndexArg(Args(o), key)
           arg == Pair(key, value)
<1>1. arg \in Pairs /\ arg.key = key /\ del = Done /\ del' = Done
  BY DEF Pair, Pairs, Set
<1>2. i \in 0 .. len[o]
  BY ArgsSeq, IndexArgIn
<1>3. /\ Args(o)' = SetArg(Args(o), arg)
      /\ \A p \in Objects : p # o => Args(p)' = Args(p)
  <2>1. CASE /\ i # 0
             /\ heap' = [heap EXCEPT ![slots[o][i]] = arg]
             /\ UNCHANGED <<slots, len>>
    <3>1. i \in 1 .. len[o]
      BY <1>2, <2>1
    <3> HIDE DEF i, arg
    <3>2. /\ Args(o)' = [Args(o) EXCEPT ![i] = arg]
          /\ \A p \in Objects : p # o => Args(p)' = Args(p)
      BY <1>1, <2>1, <3>1, WriteLists
    <3>3. SetArg(Args(o), arg) = [Args(o) EXCEPT ![i] = arg]
      BY <1>1, <2>1 DEF SetArg, HasArg, i
    <3>4. QED BY <3>2, <3>3
  <2>2. CASE i = 0 /\ AppendArg(o, arg)
    <3>1. SetArg(Args(o), arg) = Append(Args(o), arg)
      BY <1>1, <2>2 DEF SetArg, HasArg
    <3> HIDE DEF i, arg
    <3>2. /\ Args(o)' = Append(Args(o), arg)
          /\ \A p \in Objects : p # o => Args(p)' = Args(p)
      BY <1>1, <2>2, AppendArgLists
    <3>3. QED BY <3>1, <3>2
  <2>3. QED BY <2>1, <2>2 DEF Set
<1>4. Lists[o] = Args(o) /\ Lists' = [Lists EXCEPT ![o] = Args(o)']
  BY <1>1, <1>3, ListsChange
<1>5. QED BY <1>3, <1>4, SameOperators DEF Abstract!Set

\* Reset is Reset on the list.
LEMMA ResetRefines ==
    ASSUME IInv, NEW o \in Objects, Reset(o)
    PROVE  Abstract!Reset(o)
<1>1. /\ len' = [len EXCEPT ![o] = 0] /\ len \in [Objects -> Nat] /\ del = Done /\ del' = Done
      /\ UNCHANGED <<slots, heap>>
  BY DEF Reset, IInv, TypeOK
<1>2. \A p \in Objects : p # o => Args(p)' = Args(p)
  BY <1>1, ArgsSame
<1>3. Args(o)' = <<>>
  <2>1. Args(o)' = [i \in 1 .. 0 |-> heap'[slots'[o][i]]]
    BY <1>1 DEF Args
  <2>2. QED BY <2>1
<1>4. Lists' = [Lists EXCEPT ![o] = Args(o)']
  BY <1>1, <1>2, ListsChange
<1>5. QED BY <1>3, <1>4 DEF Abstract!Reset


\* The copy: each of its arguments is in a slot that only it has.
LEMMA CopyToRefines ==
    ASSUME IInv, IInv', NEW o \in Objects, NEW dst \in Objects, CopyTo(o, dst)
    PROVE  Abstract!CopyTo(o, dst)
<1> DEFINE old == Len(slots[dst])
           new == IF old < len[o] THEN len[o] - old ELSE 0
           all == AllSlots(dst, new)
           At(b) == SelectInSeq(all, LAMBDA s : s = b)
<1>1. /\ slots' = [slots EXCEPT ![dst] = all] /\ len' = [len EXCEPT ![dst] = len[o]]
      /\ heap' = [b \in 1 .. Len(heap) + new |-> IF At(b) \in 1 .. len[o] THEN Args(o)[At(b)] ELSE heap[b]]
      /\ del = Done /\ del' = Done /\ o # dst
  BY DEF CopyTo, AllSlots
<1>2. /\ Len(heap) \in Nat /\ old \in Nat /\ len[o] \in Nat /\ new \in Nat /\ len[o] <= old + new
      /\ slots \in [Objects -> Seq(Buffers)] /\ len \in [Objects -> Nat]
  BY SlotFacts DEF IInv, TypeOK, Buffers
<1> HIDE DEF old, new
<1>3. /\ all \in Seq(1 .. Len(heap) + new) /\ Len(all) = old + new
      /\ DOMAIN all = 1 .. old + new
  <2>1. all \in Seq(1 .. Len(heap) + new) /\ Len(all) = old + new
    BY <1>2, AllSlotsType DEF old
  <2> HIDE DEF all
  <2>2. QED BY <2>1, LenProperties
<1> HIDE DEF all
<1>4. slots'[dst] = all /\ len'[dst] = len[o] /\ \A p \in Objects : p # dst => slots'[p] = slots[p] /\ len'[p] = len[p]
  BY <1>1, <1>2
<1>5. ASSUME NEW b, At(b) # 0
      PROVE  At(b) \in 1 .. old + new /\ all[At(b)] = b
  <2> DEFINE I == {i \in 1 .. Len(all) : all[i] = b}
  <2>1. At(b) = IF I # {} THEN CHOOSE x \in I : \A y \in I : x =< y ELSE 0
    BY DEF SelectInSeq, Min
  <2>2. I \subseteq Nat
    OBVIOUS
  <2>3. At(b) \in I
    <3> HIDE DEF I
    <3>1. I # {}
      BY <1>5, <2>1
    <3>2. (CHOOSE x \in I : \A y \in I : x =< y) \in I
      BY <2>2, <3>1, HasLeast
    <3>3. QED BY <2>1, <3>1, <3>2
  <2>4. QED BY <1>3, <2>3
<1>6. ASSUME NEW i \in 1 .. len[o] PROVE At(all[i]) = i
  <2> DEFINE b == all[i]
             I == {k \in 1 .. Len(all) : all[k] = b}
  <2>1. At(b) = IF I # {} THEN CHOOSE x \in I : \A y \in I : x =< y ELSE 0
    BY DEF SelectInSeq, Min
  <2>2. i \in I /\ I \subseteq Nat
    BY <1>2, <1>3
  <2>3. ASSUME NEW k \in I PROVE k = i
    <3>1. /\ k \in DOMAIN slots'[dst] /\ i \in DOMAIN slots'[dst]
          /\ slots'[dst][k] = slots'[dst][i]
      BY <1>2, <1>3, <1>4
    <3>2. QED BY <3>1 DEF IInv, NoAliasing
  <2> HIDE DEF I
  <2>4. (CHOOSE x \in I : \A y \in I : x =< y) \in I
    BY <2>2, HasLeast
  <2>5. QED BY <2>1, <2>2, <2>3, <2>4
<1> HIDE DEF At
<1>7. Args(dst)' = Args(o)
  <2>1. DOMAIN Args(o) = 1 .. len[o] /\ Args(o) = [i \in 1 .. len[o] |-> Args(o)[i]]
    BY DEF Args
  <2>2. ASSUME NEW i \in 1 .. len[o] PROVE heap'[all[i]] = Args(o)[i]
    <3>1. PICK b : b = all[i]
      OBVIOUS
    <3>2. b \in 1 .. Len(heap) + new /\ At(b) = i
      <4>1. i \in 1 .. old + new
        BY <1>2
      <4>2. b \in 1 .. Len(heap) + new
        BY <1>3, <3>1, <4>1, ElementOfSeq
      <4>3. QED BY <1>6, <3>1, <4>2
    <3>3. QED BY <1>1, <3>1, <3>2
  <2>3. Args(dst)' = [i \in 1 .. len[o] |-> heap'[all[i]]]
    BY <1>4 DEF Args
  <2>4. QED BY <2>1, <2>2, <2>3
<1>8. ASSUME NEW p \in Objects, p # dst PROVE Args(p)' = Args(p)
  <2>1. ASSUME NEW i \in 1 .. len[p] PROVE heap'[slots'[p][i]] = heap[slots[p][i]]
    <3>1. PICK b \in Buffers : b = slots[p][i] /\ slots'[p][i] = b /\ i \in DOMAIN slots'[p]
      BY <1>4, <1>8, SlotFacts DEF IInv
    <3>2. At(b) = 0
      <4>1. SUFFICES ASSUME At(b) # 0 PROVE FALSE
        OBVIOUS
      <4>2. PICK k \in DOMAIN slots'[dst] : slots'[dst][k] = b
        BY <1>3, <1>4, <1>5, <4>1
      <4>3. QED BY <1>8, <3>1, <4>2 DEF IInv, NoAliasing
    <3>3. b \in 1 .. Len(heap) + new
      BY <1>2 DEF Buffers
    <3>4. heap'[b] = heap[b]
      BY <1>1, <3>2, <3>3
    <3>5. QED BY <3>1, <3>4
  <2>2. QED BY <1>4, <1>8, <2>1, ArgsSame
<1>9. Lists[dst] = Args(dst) /\ Lists' = [Lists EXCEPT ![dst] = Args(dst)']
  BY <1>1, <1>8, ListsChange
<1>10. Lists[o] = Args(o)
  BY <1>1 DEF Lists
<1>11. QED BY <1>7, <1>9, <1>10 DEF Abstract!CopyTo


\* A deletion keeps the pairs with another key, however it is written.
LEMMA DelAllArgsIs ==
    ASSUME NEW h \in Seq(Pairs), NEW key
    PROVE  DelAllArgs(h, key) = Only(h, Kept(key))
<1>1. \A i \in 1 .. Len(h) : h[i] \in {kv \in ToSet(h) : kv.key # key} <=> h[i] \in Kept(key)
  <2>1. ASSUME NEW i \in 1 .. Len(h) PROVE h[i] \in ToSet(h) /\ h[i] \in Pairs
    <3>1. DOMAIN h = 1 .. Len(h)
      BY LenProperties
    <3>2. QED BY <3>1, ElementOfSeq DEF ToSet
  <2>2. QED BY <2>1 DEF Kept
<1>2. QED BY <1>1, OnlySame DEF DelAllArgs

\* The list of an object from which arguments are being deleted.
LEMMA DelRefines ==
    ASSUME IInv, NEW o \in Objects, NEW key \in Keys, Del(o, key)
    PROVE  Abstract!Del(o, key)
<1>1. /\ del = Done /\ del' # Done /\ del'.o = o /\ del'.key = key /\ UNCHANGED <<slots, len, heap>>
  BY DEF Del, Done
<1>2. Lists = [p \in Objects |-> Args(p)]
  BY <1>1 DEF Lists
<1>3. \A p \in Objects : Args(p)' = Args(p)
  BY <1>1 DEF Args
<1>4. Lists' = [p \in Objects |-> IF p = o THEN DelAllArgs(Args(p), key) ELSE Args(p)]
  BY <1>1, <1>3 DEF Lists
<1>5. QED BY <1>2, <1>4, SameOperators DEF Abstract!Del

\* The loop has come to an argument of the object.
LEMMA AtArgument ==
    ASSUME IInv, del # Done
    PROVE  /\ del.o \in Objects /\ del.key \in Keys /\ del.i \in 1 .. del.n + 1 /\ del.n \in Nat
           /\ del.n = len[del.o] /\ del \in [o : Objects, key : Keys, i : Nat, n : Nat]
BY DEF IInv, TypeOK

\* A round that keeps an argument is not seen.
LEMMA KeepRefines ==
    ASSUME IInv, Keep
    PROVE  Lists' = Lists
<1>1. /\ del # Done /\ del' = [del EXCEPT !.i = @ + 1] /\ UNCHANGED <<slots, len, heap>>
  BY DEF Keep
<1>2. del'.o = del.o /\ del'.key = del.key /\ del'.i # 0
  BY <1>1, AtArgument
<1>3. del' # Done
  BY <1>2 DEF Done
<1>4. \A p \in Objects : Args(p)' = Args(p)
  BY <1>1 DEF Args
<1>5. QED BY <1>1, <1>2, <1>3, <1>4 DEF Lists

\* The argument that is deleted goes behind the arguments that are left.
LEMMA RemovedArgs ==
    ASSUME IInv, IInv', Remove1, NEW o, o = del.o
    PROVE  /\ del' # Done /\ del'.o = o /\ del'.key = del.key /\ del'.i = del.i
           /\ \A p \in Objects : p # o => Args(p)' = Args(p)
           /\ Len(Args(o)) = del.n /\ Len(Args(o)') = del.n - 1
           /\ del.i \in 1 .. del.n /\ Args(o)[del.i].key = del.key
           /\ \A j \in 1 .. del.n - 1 : Args(o)'[j] = IF j < del.i THEN Args(o)[j] ELSE Args(o)[j + 1]
<1> DEFINE i == del.i
           n == del.n
<1>1. /\ del # Done /\ i <= n /\ heap[slots[o][i]].key = del.key
      /\ slots' = [slots EXCEPT ![o] = Shift(@, i, n)] /\ len' = [len EXCEPT ![o] = n - 1]
      /\ del' = [del EXCEPT !.n = @ - 1] /\ UNCHANGED heap
  BY DEF Remove1
<1>2. /\ o \in Objects /\ del.key \in Keys /\ i \in 1 .. n + 1 /\ n \in Nat /\ n = len[o]
      /\ del \in [o : Objects, key : Keys, i : Nat, n : Nat]
  BY <1>1, AtArgument
<1>3. del'.o = o /\ del'.key = del.key /\ del'.i = del.i /\ del' # Done
  <2>1. del'.o = o /\ del'.key = del.key /\ del'.i = del.i
    BY <1>1, <1>2
  <2>2. QED BY <1>2, <2>1 DEF Done
<1> HIDE DEF i, n
<1>4. /\ slots'[o] = Shift(slots[o], i, n) /\ len'[o] = n - 1
      /\ \A p \in Objects : p # o => slots'[p] = slots[p] /\ len'[p] = len[p]
  BY <1>1, <1>2 DEF IInv, TypeOK
<1>5. ASSUME NEW p \in Objects, p # o PROVE Args(p)' = Args(p)
  BY <1>1, <1>4, <1>5, ArgsSame
<1>6. /\ Len(Args(o)) = n /\ \A j \in 1 .. n : Args(o)[j] = heap[slots[o][j]]
  BY <1>2, ArgsSeq
<1>7. /\ Len(Args(o)') = n - 1 /\ \A j \in 1 .. n - 1 : Args(o)'[j] = heap[slots'[o][j]]
  BY <1>1, <1>2, <1>4, ArgsNext
<1>8. ASSUME NEW j \in 1 .. n - 1
      PROVE  Args(o)'[j] = IF j < i THEN Args(o)[j] ELSE Args(o)[j + 1]
  <2>1. j \in DOMAIN slots[o] /\ j \in 1 .. n /\ j + 1 \in 1 .. n /\ j # n
    BY <1>2, SlotFacts DEF IInv
  <2>2. slots'[o][j] = IF j \in i .. n - 1 THEN slots[o][j + 1] ELSE slots[o][j]
    BY <1>4, <2>1 DEF Shift
  <2>3. j \in i .. n - 1 <=> ~ (j < i)
    BY <1>2
  <2>4. QED BY <1>6, <1>7, <2>1, <2>2, <2>3
<1>9. i \in 1 .. n /\ Args(o)[i].key = del.key
  BY <1>1, <1>2, <1>6
<1>10. QED BY <1>3, <1>5, <1>6, <1>7, <1>8, <1>9 DEF i, n

\* A round that removes one is not seen: it was gone.
LEMMA RemoveRefines ==
    ASSUME IInv, IInv', Remove1
    PROVE  Lists' = Lists
<1>1. PICK o \in Objects, key \in Keys : o = del.o /\ key = del.key /\ del # Done
  BY AtArgument DEF Remove1
<1>2. PICK s \in Seq(Pairs), t \in Seq(Pairs) : s = Args(o) /\ t = Args(o)'
  <2>1. Args(o) \in Seq(Pairs) /\ Args(o)' \in Seq(Pairs)
    BY ArgsSeq, ArgsNext
  <2>2. QED BY Zenon, <2>1
<1>3. PICK i \in 1 .. Len(s) : /\ s[i].key = key /\ Len(t) = Len(s) - 1
                               /\ \A j \in 1 .. Len(s) - 1 : t[j] = IF j < i THEN s[j] ELSE s[j + 1]
  <2>1. /\ Len(Args(o)) = del.n /\ Len(Args(o)') = del.n - 1
        /\ del.i \in 1 .. del.n /\ Args(o)[del.i].key = del.key
        /\ \A j \in 1 .. del.n - 1 : Args(o)'[j] = IF j < del.i THEN Args(o)[j] ELSE Args(o)[j + 1]
    BY <1>1, RemovedArgs
  <2>2. PICK i, n : i = del.i /\ n = del.n
    OBVIOUS
  <2>3. /\ Len(s) = n /\ Len(t) = n - 1 /\ i \in 1 .. n /\ s[i].key = key
        /\ \A j \in 1 .. n - 1 : t[j] = IF j < i THEN s[j] ELSE s[j + 1]
    BY Zenon, <1>1, <1>2, <2>1, <2>2
  <2>4. QED BY <2>3
<1>4. Only(t, Kept(key)) = Only(s, Kept(key))
  <2>1. PICK m \in Nat : Len(s) = m + 1 /\ Len(t) = m
    BY <1>3
  <2>2. s[i] \notin Kept(key)
    BY <1>3 DEF Kept
  <2>3. i \in 1 .. m + 1 /\ \A j \in 1 .. m : t[j] = IF j < i THEN s[j] ELSE s[j + 1]
    BY <1>3, <2>1
  <2>4. QED BY <2>1, <2>2, <2>3, OnlyWithout
<1>5. DelAllArgs(Args(o)', key) = DelAllArgs(Args(o), key)
  BY <1>2, <1>4, DelAllArgsIs
<1>6. /\ del' # Done /\ del'.o = o /\ del'.key = key
      /\ \A p \in Objects : p # o => Args(p)' = Args(p)
  BY <1>1, RemovedArgs
<1>7. QED BY <1>1, <1>5, <1>6 DEF Lists

\* Nor is the end of a deletion: all that is left has another key.
LEMMA DeletedRefines ==
    ASSUME RefInv, Deleted
    PROVE  Lists' = Lists
<1>1. /\ del # Done /\ del' = Done /\ del.i > del.n /\ UNCHANGED <<slots, len, heap>>
  BY DEF Deleted
<1>2. PICK o \in Objects, key \in Keys : /\ o = del.o /\ key = del.key /\ del.n = len[o]
                                        /\ del.n \in Nat /\ del.i - 1 = del.n
  BY <1>1, AtArgument DEF RefInv
<1>3. PICK s \in Seq(Pairs) : s = Args(o) /\ Len(s) = del.n
  BY <1>2, ArgsSeq DEF RefInv
<1>4. \A j \in 1 .. Len(s) : s[j] \in Kept(key)
  <2>1. ASSUME NEW j \in 1 .. Len(s) PROVE s[j] \in Pairs /\ s[j].key # key
    BY <1>1, <1>2, <1>3, ElementOfSeq DEF RefInv, Scanned
  <2>2. QED BY <2>1 DEF Kept
<1>5. DelAllArgs(Args(o), key) = Args(o)
  BY <1>3, <1>4, DelAllArgsIs, OnlyAll
<1>6. \A p \in Objects : Args(p)' = Args(p)
  BY <1>1 DEF Args
<1>7. QED BY <1>1, <1>2, <1>5, <1>6 DEF Lists

\* No action disturbs what a deletion went past.
LEMMA ScannedStep ==
    ASSUME IInv, IInv', Scanned, Next
    PROVE  Scanned'
<1>1. CASE del' = Done
  BY <1>1 DEF Scanned
<1>2. CASE \E o \in Objects, key \in Keys : Del(o, key)
  <2>1. del'.i - 1 = 0
    BY <1>2 DEF Del
  <2>2. QED BY <2>1 DEF Scanned
<1>3. CASE Keep
  <2>1. /\ del # Done /\ del.i <= del.n /\ heap[slots[del.o][del.i]].key # del.key
        /\ del' = [del EXCEPT !.i = @ + 1] /\ UNCHANGED <<slots, len, heap>>
    BY <1>3 DEF Keep
  <2>2. PICK o \in Objects : o = del.o
    BY <2>1, AtArgument
  <2>3. /\ del.i \in 1 .. del.n /\ del.n \in Nat /\ del.n = len[o]
        /\ del'.o = o /\ del'.key = del.key /\ del'.i - 1 = del.i
    BY <2>1, <2>2, AtArgument
  <2>4. Args(o)' = Args(o) /\ Args(o)[del.i] = heap[slots[o][del.i]]
    BY <2>1, <2>3 DEF Args
  <2>5. \A j \in 1 .. del.i - 1 : Args(o)[j].key # del.key
    BY <2>1, <2>2 DEF Scanned
  <2>6. ASSUME NEW j \in 1 .. del.i PROVE Args(o)[j].key # del.key
    BY <2>1, <2>2, <2>3, <2>4, <2>5
  <2>7. QED BY <2>3, <2>4, <2>6 DEF Scanned
<1>4. CASE Remove1
  <2>1. PICK o \in Objects : o = del.o /\ del # Done /\ del.n \in Nat
    BY <1>4, AtArgument DEF Remove1
  <2>2. \A j \in 1 .. del.i - 1 : Args(o)[j].key # del.key
    BY <2>1 DEF Scanned
  <2>3. /\ del'.o = o /\ del'.key = del.key /\ del'.i = del.i /\ del.i \in 1 .. del.n
        /\ \A j \in 1 .. del.n - 1 : Args(o)'[j] = IF j < del.i THEN Args(o)[j] ELSE Args(o)[j + 1]
    BY <1>4, <2>1, RemovedArgs
  <2>4. \A j \in 1 .. del.i - 1 : j \in 1 .. del.n - 1 /\ j < del.i
    BY <2>1, <2>3
  <2>5. \A j \in 1 .. del.i - 1 : Args(o)'[j].key # del.key
    BY <2>2, <2>3, <2>4
  <2>6. QED BY <2>3, <2>5 DEF Scanned
<1>5. QED BY <1>1, <1>2, <1>3, <1>4 DEF Next, Set, Add, Reset, CopyTo, Deleted

\* The invariant of the refinement is inductive.
LEMMA RefNext == RefInv /\ [Next]_vars => RefInv'
<1> SUFFICES ASSUME RefInv, [Next]_vars PROVE RefInv'
  OBVIOUS
<1>1. IInv /\ IInv' /\ Scanned
  BY NextInv DEF RefInv
<1>2. CASE UNCHANGED vars
  BY <1>1, <1>2 DEF vars, RefInv, Scanned, Args
<1>3. CASE Next
  BY <1>1, <1>3, ScannedStep DEF RefInv
<1>4. QED BY <1>2, <1>3

\* Every list is empty at the start.
LEMMA InitRefines == Init => RefInv /\ Abstract!Init
<1> SUFFICES ASSUME Init PROVE RefInv /\ Abstract!Init
  OBVIOUS
<1>1. RefInv
  BY InitInv DEF RefInv, Scanned, Init
<1>2. \A o \in Objects : Lists[o] = <<>>
  <2>1. ASSUME NEW o \in Objects PROVE Args(o) = <<>>
    <3>1. Args(o) = [i \in 1 .. 0 |-> heap[slots[o][i]]]
      BY DEF Init, Args
    <3>2. QED BY <3>1
  <2>2. QED BY <2>1 DEF Init, Lists
<1>3. Lists = [o \in Objects |-> <<>>]
  BY <1>2 DEF Lists
<1>4. QED BY <1>1, <1>3 DEF Abstract!Init

\* Every step is a step on the lists, or is not seen there.
LEMMA StepRefines == RefInv /\ RefInv' /\ [Next]_vars => [Abstract!Next]_Lists
<1> SUFFICES ASSUME RefInv, RefInv', [Next]_vars PROVE [Abstract!Next]_Lists
  OBVIOUS
<1>1. IInv /\ IInv'
  BY DEF RefInv
<1>2. CASE UNCHANGED vars
  <2>1. Lists' = Lists
    BY <1>2 DEF vars, Lists, Args
  <2>2. QED BY <2>1
<1>3. ASSUME NEW o \in Objects, NEW key \in Keys, Del(o, key) PROVE Abstract!Next
  BY <1>1, <1>3, DelRefines DEF Abstract!Next
<1>4. ASSUME NEW o \in Objects, NEW key \in Keys, NEW value \in Values,
             Set(o, key, value) \/ Add(o, key, value)
      PROVE  Abstract!Next
  BY <1>1, <1>4, SetRefines, AddRefines DEF Abstract!Next
<1>5. ASSUME NEW o \in Objects, Reset(o) PROVE Abstract!Next
  BY <1>1, <1>5, ResetRefines DEF Abstract!Next
<1>6. ASSUME NEW o \in Objects, NEW dst \in Objects, CopyTo(o, dst) PROVE Abstract!Next
  BY <1>1, <1>6, CopyToRefines DEF Abstract!Next
<1>7. CASE Keep \/ Remove1 \/ Deleted
  BY <1>1, <1>7, KeepRefines, RemoveRefines, DeletedRefines
<1>8. QED BY <1>2, <1>3, <1>4, <1>5, <1>6, <1>7 DEF Next

\* An Args object is a list of pairs of its own, for any number of objects of any
\* length: the reuse of slots and the rounds of a deletion are not seen.
THEOREM Refinement == Spec => ImplementsPairList
<1>1. Init => RefInv /\ Abstract!Init
  BY InitRefines
<1>2. RefInv /\ [Next]_vars => RefInv'
  BY RefNext
<1>3. RefInv /\ RefInv' /\ [Next]_vars => [Abstract!Next]_Lists
  BY StepRefines
<1>4. QED BY <1>1, <1>2, <1>3, PTL DEF Spec, ImplementsPairList, Abstract!Spec

==============================================================================
