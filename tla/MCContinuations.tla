-------------------------- MODULE MCContinuations --------------------------
(* Model-checking instances of Continuations.                              *)
EXTENDS ContinuationsRefinement, TLC

(* Tags without operands: the control structure alone.                     *)
NoOperands == [t \in Tag |-> 0]

(* Function types: without operands, with one parameter and one result, or *)
(* with two parameters so that cont.bind can supply them in two portions.  *)
Thunk == {[params |-> 0, results |-> 0]}
OneToOne == {[params |-> 1, results |-> 1]}
TwoToOne == {[params |-> 2, results |-> 1]}

(* Tags with one parameter and two results, so that cont.bind can supply   *)
(* the results of a suspended continuation in two portions.                *)
OneParam == [t \in Tag |-> 1]
TwoResults == [t \in Tag |-> 2]

Symm == Permutations(Fiber) \cup Permutations(Ref) \cup Permutations(Val)
=============================================================================
