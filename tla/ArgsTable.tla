------------------------------ MODULE ArgsTable ------------------------------
(***************************************************************************)
(* Args of src/args.go with its buffers: the arguments of an object are    *)
(* the first slots of an array, and a slot that is released keeps its      *)
(* buffers for the argument that takes it next.  A slot is the name of its *)
(* buffers (of key and value, which always go together); writing an        *)
(* argument writes into them, whoever else may look at them.               *)
(***************************************************************************)
EXTENDS ArgsList

CONSTANTS
    Objects,    \* Args objects
    Keys, Values,
    MaxLen      \* MaxLen[o]: bound on the arguments of o

VARIABLES
    slots,      \* slots[o]: the slots of o's array
    len,        \* len[o]: how many of them are arguments
    heap,       \* what is in the buffers that were ever allocated
    del         \* the loop of a deletion: object, key, i and n; or Done

vars == <<slots, len, heap, del>>

Pair(key, value) == [key |-> key, value |-> value]
Done == [o |-> "none", key |-> "none", i |-> 0, n |-> 0]

Init ==
    /\ slots = [o \in Objects |-> <<>>]
    /\ len = [o \in Objects |-> 0]
    /\ heap = <<>>
    /\ del = Done

\* The arguments of an object.
Args(o) == [i \in 1 .. len[o] |-> heap[slots[o][i]]]
-----------------------------------------------------------------------------
\* appendArg: the next slot of the array (allocArg), a new one when it has none.
AppendArg(o, arg) ==
    /\ len' = [len EXCEPT ![o] = @ + 1]
    /\ \/ /\ len[o] < Len(slots[o])
          /\ heap' = [heap EXCEPT ![slots[o][len[o] + 1]] = arg]
          /\ UNCHANGED slots
       \/ /\ len[o] = Len(slots[o])
          /\ heap' = Append(heap, arg)
          /\ slots' = [slots EXCEPT ![o] = Append(@, Len(heap) + 1)]

Add(o, key, value) ==
    /\ del = Done /\ len[o] < MaxLen[o]
    /\ AppendArg(o, Pair(key, value))
    /\ UNCHANGED del

Set(o, key, value) ==
    LET i == IndexArg(Args(o), key) IN
    /\ del = Done
    /\ \/ /\ i # 0
          /\ heap' = [heap EXCEPT ![slots[o][i]] = Pair(key, value)]
          /\ UNCHANGED <<slots, len>>
       \/ /\ i = 0 /\ len[o] < MaxLen[o]
          /\ AppendArg(o, Pair(key, value))
    /\ UNCHANGED del

Reset(o) ==
    /\ del = Done
    /\ len' = [len EXCEPT ![o] = 0]
    /\ UNCHANGED <<slots, heap, del>>

\* copyArgs: dst's own slots are written over, new ones made for the rest.
CopyTo(o, dst) ==
    LET old == Len(slots[dst])
        new == IF old < len[o] THEN len[o] - old ELSE 0
        all == slots[dst] \o [j \in 1 .. new |-> Len(heap) + j] IN
    /\ del = Done /\ o # dst /\ len[o] <= MaxLen[dst]
    /\ slots' = [slots EXCEPT ![dst] = all]
    /\ len' = [len EXCEPT ![dst] = len[o]]
    /\ heap' = [b \in 1 .. Len(heap) + new |->
                  LET i == SelectInSeq(all, LAMBDA s : s = b)
                  IN  IF i \in 1 .. len[o] THEN Args(o)[i] ELSE heap[b]]
    /\ UNCHANGED del
-----------------------------------------------------------------------------
(***************************************************************************)
(* delAllArgs, a round of its loop at a time.                              *)
(***************************************************************************)
Del(o, key) ==
    /\ del = Done
    /\ del' = [o |-> o, key |-> key, i |-> 1, n |-> len[o]]
    /\ UNCHANGED <<slots, len, heap>>

\* Mutant: the slot is not kept behind the others.
ShiftOnly(s, i, n) == [j \in DOMAIN s |-> IF j \in i .. Len(s) - 1 /\ j < n THEN s[j + 1] ELSE s[j]]

\* copy(args[i:], args[i+1:]) and args[n] = tmp: slot i goes behind the others.
Shift(s, i, n) == [j \in DOMAIN s |-> IF j \in i .. n - 1 THEN s[j + 1]
                                      ELSE IF j = n THEN s[i] ELSE s[j]]

Keep ==
    /\ del # Done /\ del.i <= del.n
    /\ heap[slots[del.o][del.i]].key # del.key
    /\ del' = [del EXCEPT !.i = @ + 1]
    /\ UNCHANGED <<slots, len, heap>>

Remove1 ==
    /\ del # Done /\ del.i <= del.n
    /\ heap[slots[del.o][del.i]].key = del.key
    /\ slots' = [slots EXCEPT ![del.o] = Shift(@, del.i, del.n)]
    /\ len' = [len EXCEPT ![del.o] = del.n - 1]
    /\ del' = [del EXCEPT !.n = @ - 1]
    /\ UNCHANGED heap

Deleted ==
    /\ del # Done /\ del.i > del.n
    /\ del' = Done
    /\ UNCHANGED <<slots, len, heap>>
-----------------------------------------------------------------------------
Next ==
    \/ \E o \in Objects :
         \/ \E key \in Keys :
              Del(o, key) \/ \E value \in Values : Set(o, key, value) \/ Add(o, key, value)
         \/ Reset(o)
         \/ \E dst \in Objects : CopyTo(o, dst)
    \/ Keep \/ Remove1 \/ Deleted

Spec == Init /\ [][Next]_vars
-----------------------------------------------------------------------------
\* Every variable has its type; the slots are buffers that were allocated.
TypeOK ==
    /\ slots \in [Objects -> Seq(1 .. Len(heap))]
    /\ len \in [Objects -> Nat]
    /\ \A o \in Objects : len[o] <= Len(slots[o])
    /\ heap \in Seq([key : Keys, value : Values])
    /\ del = Done \/ /\ del \in [o : Objects, key : Keys, i : Nat, n : Nat]
                     /\ del.i \in 1 .. del.n + 1
                     /\ del.n = len[del.o]

\* Whatever is set, added, deleted, copied and reset: two slots, of one object or
\* of two, never share buffers, so an argument written never changes another.
NoAliasing ==
    \A o, p \in Objects : \A i \in DOMAIN slots[o], j \in DOMAIN slots[p] :
        slots[o][i] = slots[p][j] => o = p /\ i = j

\* The arguments of every object; those that a deletion is still to take away are
\* gone.
Lists == [o \in Objects |-> IF del # Done /\ o = del.o THEN DelAllArgs(Args(o), del.key)
                           ELSE Args(o)]

Abstract == INSTANCE PairList WITH pairs <- Lists

\* An Args object is the list of pairs it promises to be: reuse of slots and the
\* deletion that moves them are not seen.
ImplementsPairList == Abstract!Spec
=============================================================================
