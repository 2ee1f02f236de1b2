------------------------------- MODULE PairList -------------------------------
(***************************************************************************)
(* What Args of src/args.go promises: each object is a list of key-value   *)
(* pairs of its own.                                                       *)
(***************************************************************************)
EXTENDS ArgsList

CONSTANTS Objects, Keys, Values

VARIABLE pairs      \* the list of each object

Pair(key, value) == [key |-> key, value |-> value]

Init == pairs = [o \in Objects |-> <<>>]

Set(o, key, value) == pairs' = [pairs EXCEPT ![o] = SetArg(@, Pair(key, value))]

Add(o, key, value) == pairs' = [pairs EXCEPT ![o] = Append(@, Pair(key, value))]

Del(o, key) == pairs' = [pairs EXCEPT ![o] = DelAllArgs(@, key)]

Reset(o) == pairs' = [pairs EXCEPT ![o] = <<>>]

CopyTo(o, dst) == pairs' = [pairs EXCEPT ![dst] = pairs[o]]

Next == \E o \in Objects :
    \/ \E key \in Keys :
         Del(o, key) \/ \E value \in Values : Set(o, key, value) \/ Add(o, key, value)
    \/ Reset(o)
    \/ \E dst \in Objects : CopyTo(o, dst)

Spec == Init /\ [][Next]_pairs
=============================================================================
