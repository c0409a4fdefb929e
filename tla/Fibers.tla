------------------------------- MODULE Fibers -------------------------------
(***************************************************************************)
(* What fiber.h promises: fibers with call stacks of their own.  A resume  *)
(* continues a fiber where it yielded, in the frames it yielded from, and  *)
(* a yield or the return of the entry function continues the resumer.      *)
(*                                                                         *)
(* A frame has the call it is at (pc, "run" when it is executing) and a    *)
(* local variable.  A yield and the resume of a suspended fiber take two   *)
(* steps, since the payload lies in the fiber's box in between.            *)
(***************************************************************************)
EXTENDS Integers, Sequences

CONSTANTS Fib, Main, Val, Site   \* Site: the call sites of a function

VARIABLES
  stage,    \* of each fiber
  chain,    \* the fibers that have been resumed and not come back
  frames,   \* the call stack of each fiber, and of Main
  box,      \* the payload of each fiber
  aborted

Front(s) == SubSeq(s, 1, Len(s) - 1)

Last(s) == s[Len(s)]

fibersVars == <<stage, chain, frames, box, aborted>>

Current == IF chain = << >> THEN Main ELSE Last(chain)

Executing == ~aborted /\ (chain = << >> \/ stage[Last(chain)] = "running")

(* The innermost frame of the stack s receives the value v.                *)
Receive(s, v) == [s EXCEPT ![Len(s)] = [pc |-> "run", loc |-> v]]

Resumer == IF Len(chain) = 1 THEN Main ELSE chain[Len(chain) - 1]

FibersInit ==
  /\ stage = [f \in Fib |-> "none"]
  /\ chain = << >>
  /\ \E v \in Val : frames = [f \in Fib \cup {Main} |->
                       IF f = Main THEN <<[pc |-> "run", loc |-> v]>> ELSE << >>]
  /\ box = [f \in Fib |-> 0]
  /\ aborted = FALSE

Create(f) ==
  /\ Executing
  /\ stage[f] = "none"
  /\ stage' = [stage EXCEPT ![f] = "fresh"]
  /\ box' = [box EXCEPT ![f] = 0]
  /\ UNCHANGED <<chain, frames, aborted>>

Destroy(f) ==
  /\ Executing
  /\ stage[f] \in {"fresh", "suspended", "done"}
  /\ stage' = [stage EXCEPT ![f] = "none"]
  /\ frames' = [frames EXCEPT ![f] = << >>]
  /\ UNCHANGED <<chain, box, aborted>>

CallFunction(site, v) ==
  /\ Executing
  /\ frames' = [frames EXCEPT ![Current] =
       Append([@ EXCEPT ![Len(@)].pc = site], [pc |-> "run", loc |-> v])]
  /\ UNCHANGED <<stage, chain, box, aborted>>

ReturnFromFunction(v) ==
  /\ Executing
  /\ Len(frames[Current]) > 1
  /\ frames' = [frames EXCEPT ![Current] = Receive(Front(@), v)]
  /\ UNCHANGED <<stage, chain, box, aborted>>

EnterFresh(f, v) ==
  /\ Executing
  /\ stage[f] = "fresh"
  /\ stage' = [stage EXCEPT ![f] = "running"]
  /\ chain' = Append(chain, f)
  /\ frames' = [frames EXCEPT ![f] = <<[pc |-> "run", loc |-> v]>>]
  /\ UNCHANGED <<box, aborted>>

EnterSuspended(f, v) ==
  /\ Executing
  /\ stage[f] = "suspended"
  /\ stage' = [stage EXCEPT ![f] = "landing"]
  /\ chain' = Append(chain, f)
  /\ box' = [box EXCEPT ![f] = v]
  /\ UNCHANGED <<frames, aborted>>

Land(f) ==
  /\ ~aborted /\ stage[f] = "landing"
  /\ stage' = [stage EXCEPT ![f] = "running"]
  /\ frames' = [frames EXCEPT ![f] = Receive(@, box[f])]
  /\ UNCHANGED <<chain, box, aborted>>

EnterDone(f) ==
  /\ Executing
  /\ stage[f] = "done"
  /\ frames' = [frames EXCEPT ![Current] = Receive(@, 0)]
  /\ UNCHANGED <<stage, chain, box, aborted>>

StartLeaving(f, v) ==
  /\ Executing /\ f = Current
  /\ stage' = [stage EXCEPT ![f] = "leaving"]
  /\ frames' = [frames EXCEPT ![f] = [@ EXCEPT ![Len(@)].pc = "yield"]]
  /\ box' = [box EXCEPT ![f] = v]
  /\ UNCHANGED <<chain, aborted>>

Leave(f) ==
  /\ ~aborted /\ stage[f] = "leaving"
  /\ stage' = [stage EXCEPT ![f] = "suspended"]
  /\ chain' = Front(chain)
  /\ frames' = [frames EXCEPT ![Resumer] = Receive(@, box[f])]
  /\ UNCHANGED <<box, aborted>>

Finish(f, v) ==
  /\ Executing /\ f = Current /\ Len(frames[f]) = 1
  /\ stage' = [stage EXCEPT ![f] = "done"]
  /\ chain' = Front(chain)
  /\ frames' = [frames EXCEPT ![f] = << >>, ![Resumer] = Receive(@, v)]
  /\ UNCHANGED <<box, aborted>>

(* The stack that a fiber is given is finite.                              *)
Abort ==
  /\ ~aborted
  /\ aborted' = TRUE
  /\ UNCHANGED <<stage, chain, box, frames>>

FibersNext ==
  \/ \E v \in Val : \/ ReturnFromFunction(v)
                    \/ \E s \in Site : CallFunction(s, v)
  \/ \E f \in Fib : \/ Create(f) \/ Destroy(f)
                    \/ Land(f) \/ Leave(f) \/ EnterDone(f)
                    \/ \E v \in Val : \/ EnterFresh(f, v)
                                      \/ EnterSuspended(f, v)
                                      \/ StartLeaving(f, v)
                                      \/ Finish(f, v)
  \/ Abort

FibersSpec == FibersInit /\ [][FibersNext]_fibersVars
=============================================================================
