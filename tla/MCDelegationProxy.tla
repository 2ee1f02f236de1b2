------------------------- MODULE MCDelegationProxy -------------------------
(***************************************************************************)
(* Constants of the DelegationProxy runs.                                  *)
(***************************************************************************)
EXTENDS DelegationProxyInv, TLC

CONSTANTS r1, r2, r3

OneService == [r \in Requests |-> "a"]

\* A logarithm of a base small enough (the square root of 2) that two requests
\* are the load eight are with base e: the pool grows and shrinks.
SteepLog == <<0, 2, 3, 4, 4>> @@ (0 :> -1)
MCLog == [n \in 0 .. Cardinality(Requests) + 1 |-> SteepLog[n]]

OnlyLength == {"length"}
Framed == {"length", "chunked", "late", "close", "bad"}
Sized == {"chunked", "late", "zero", "empty"}
Unsized == {"early", "until", "void", "badchunked"}
Leftover == {"length", "badchunked"}

NoFault == {}
Timeouts == {"timeout"}
LossyNoDial == {"timeout", "reset", "dial"}
EveryFault == AllFaults

Symmetry == Permutations(Requests)
=============================================================================
