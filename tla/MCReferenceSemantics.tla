------------------------ MODULE MCReferenceSemantics -----------------------
(* Model-checking instance of ReferenceSemantics.                          *)
EXTENDS ReferenceSemantics, TLC

NoOperands == [t \in Tag |-> 0]
OneArg == {[params |-> 1, results |-> 0]}

Symm == Permutations(Strand) \cup Permutations(Ref) \cup Permutations(Tag)
=============================================================================
