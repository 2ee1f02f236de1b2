------------------------ MODULE SequentialDelegation ------------------------
(***************************************************************************)
(* What a DelegationProxy with one connection per remote service promises  *)
(* ("Delegate queues a request for sequential remote accessing"): the      *)
(* requests for a service are answered once each, in the order they were   *)
(* delegated, and every one is answered.                                   *)
(***************************************************************************)
EXTENDS Naturals, Sequences

CONSTANTS Requests, RemoteAddr

Addrs == {RemoteAddr[r] : r \in Requests}

VARIABLES
    queue,      \* queue[a]: delegated to service a and not answered
    answered    \* requests that are answered

vars == <<queue, answered>>

Init ==
    /\ queue = [a \in Addrs |-> <<>>]
    /\ answered = {}

Delegate(r) ==
    LET a == RemoteAddr[r] IN
    /\ r \notin answered
    /\ \A i \in DOMAIN queue[a] : queue[a][i] # r
    /\ queue' = [queue EXCEPT ![a] = Append(@, r)]
    /\ UNCHANGED answered

Answer(a) ==
    /\ queue[a] # <<>>
    /\ queue' = [queue EXCEPT ![a] = Tail(@)]
    /\ answered' = answered \cup {Head(queue[a])}

Next == \/ \E r \in Requests : Delegate(r)
        \/ \E a \in Addrs : Answer(a)

\* Order and once each, without the promise that every one is answered.
SafetySpec == Init /\ [][Next]_vars

Spec == SafetySpec /\ \A a \in Addrs : WF_vars(Answer(a))
=============================================================================
