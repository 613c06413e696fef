------------------------------- MODULE Selections -------------------------------
(***************************************************************************)
(* The elements of a sequence that are in a set, in their order: SelectSeq *)
(* with a set in the place of a test, as a recursive function, of which    *)
(* Selections_proofs shows what the proofs about sequences need.           *)
(***************************************************************************)
EXTENDS Naturals, Sequences, SequencesExt

\* i -> the selected elements among the first i.
SelectedUpTo(s, S) ==
  LET only[i \in 0 .. Len(s)] ==
        IF i = 0 THEN <<>>
        ELSE IF s[i] \in S THEN Append(only[i - 1], s[i]) ELSE only[i - 1]
  IN only

Only(s, S) == SelectedUpTo(s, S)[Len(s)]
===============================================================================
