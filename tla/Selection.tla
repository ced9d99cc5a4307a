----------------------------- MODULE Selection ------------------------------
(***************************************************************************)
(* SelectSeq with the test as a set, for refinement mappings that are      *)
(* proved about: the provers do not see inside SelectSeq.                  *)
(***************************************************************************)
EXTENDS Integers, Sequences

\* The elements of q that are in P, in their order.
Select(q, P) ==
  LET S[n \in 0 .. Len(q)] ==
        IF n = 0 THEN <<>>
        ELSE IF q[n] \in P THEN Append(S[n - 1], q[n]) ELSE S[n - 1]
  IN  S[Len(q)]
=============================================================================
