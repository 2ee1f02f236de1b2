----------------------------- MODULE Subsequence -----------------------------
(***************************************************************************)
(* The part of a sequence that a set picks out, as a recursive function of *)
(* the prefix it looks at.                                                 *)
(***************************************************************************)
EXTENDS Integers, Sequences

\* The elements of s that are in A, in the order of s.
Only(s, A) ==
    LET only[n \in 0 .. Len(s)] ==
          IF n = 0 THEN <<>>
          ELSE IF s[n] \in A THEN Append(only[n - 1], s[n])
          ELSE only[n - 1]
    IN  only[Len(s)]
==============================================================================
