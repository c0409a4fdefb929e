------------------------------ MODULE MCFibre ------------------------------
(* Model-checking instance of Fibre: three fibers, two yield values.       *)
EXTENDS Fibre, TLC

Symm == Permutations(Fiber) \cup Permutations(Yields)
=============================================================================
