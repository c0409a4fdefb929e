---------------------- MODULE ContinuationsRefinement ----------------------
(***************************************************************************)
(* The wasmtime runtime implements the reference semantics: the refinement *)
(* mapping from the state of Continuations to that of ReferenceSemantics.  *)
(*                                                                         *)
(* The runtime reaches a state in several steps where the interpreter      *)
(* takes one, so the mapping looks through them: operands still in a       *)
(* buffer count as delivered once the fiber is entered, a fiber stays in   *)
(* the context until its resumer has boxed it or dropped it.  A process    *)
(* that has gone wrong takes no further step, which the reference          *)
(* semantics allows; what may go wrong is the subject of other properties. *)
(***************************************************************************)
EXTENDS Continuations

(* The Handle frames above stack s: one per resume in progress.            *)
FramesAbove[s \in Stack] ==
  LET o == contobj[s] IN
  IF o = Null THEN <<>>
  ELSE <<[strand |-> o, hs |-> handlers[s], barrier |-> FALSE, results |-> results[o]]>>
       \o FramesAbove[o]

absFrames ==
  <<[strand |-> Main, hs |-> {}, barrier |-> FALSE, results |-> 0]>> \o FramesAbove[Main]

(* The last stack of that chain.                                           *)
innermost ==
  CHOOSE s \in Stack : contobj[s] = Null /\ (s = Main \/ \E p \in Stack : contobj[p] = s)

(* The operands stored so far for the continuation of object o.            *)
Stored(o) ==
  IF state[o] = "Allocated" THEN args[o].data
  ELSE IF trv[o] = Null THEN <<>> ELSE trv[o].data

absConts ==
  [r \in Ref |->
     IF ref[r] \notin Obj THEN ref[r]
     ELSE [n |-> arity[r],
           ctxt |-> <<[strand |-> ref[r], hs |-> {}, barrier |-> FALSE, results |-> results[ref[r]]]>>,
           args |-> Stored(ref[r])]]

(* A fiber that has switched out but not been collected by its resumer.    *)
absCtl ==
  LET o == innermost
      ctl(k, t, vs) == [kind |-> k, tag |-> t, vals |-> vs] IN
  CASE o \in Obj /\ o # cpu /\ at[o] = "suspend" ->
         ctl("suspending", tag[o], IF TagParams[tag[o]] = 0 THEN <<>> ELSE payloads)
    [] o \in Obj /\ at[o] = "finished" ->
         ctl("value", Null, IF results[o] = 0 THEN <<>> ELSE args[o].data)
    [] OTHER -> ctl("run", Null, <<>>)

(* Operands in a buffer of the fiber just entered count as delivered.      *)
absGot ==
  CASE at[cpu] = "fresh" -> args[cpu].data
    [] at[cpu] = "suspend" -> Stored(cpu)
    [] OTHER -> got

RS == INSTANCE ReferenceSemantics
        WITH Strand <- Obj, MaxFrames <- 0,
             frames <- absFrames, conts <- absConts, ctl <- absCtl, got <- absGot

(***************************************************************************)
(* The runtime does what the reference interpreter does: the same          *)
(* computation runs, with the same operands, in the same handler context,  *)
(* and every reference holds the same continuation.  The one step that the *)
(* interpreter does not take is the trap the compiled code emits in place  *)
(* of the forwarding of a suspension.  No step is one of the exceptions,   *)
(* which wasmtime does not have.  (UNCHANGED is there for speed: TLC would *)
(* try it last.)                                                           *)
(***************************************************************************)
ImplementsReference ==
  RS!RefInit /\ [][\/ UNCHANGED RS!rvars
                   \/ RS!Instructions
                   \/ RS!Handling
                   \/ \E r \in Ref : RS!Forget(r)
                   \/ \E s \in Stack : ForwardTrap(s)]_(RS!rvars)
=============================================================================
