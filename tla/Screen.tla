------------------------------- MODULE Screen -------------------------------
(* What the screens of the frontend that are modelled one by one have in     *)
(* common: undefined, null and "nothing of the kind" are None.               *)
EXTENDS SequencesExt

CONSTANT None

\* The elements of s that are in S, in their order (Array.filter).
Only(s, S) == FoldLeft(LAMBDA kept, x : IF x \in S THEN Append(kept, x) ELSE kept, <<>>, s)
=============================================================================
