------------------------------ MODULE WaitGroup -----------------------------
(***************************************************************************)
(* sync.WaitGroup.                                                         *)
(***************************************************************************)
EXTENDS TaskScheduler

CONSTANTS
  MaxCounter,   \* ^uint(0)
  Deltas        \* what Add is called with, negative for Done

ASSUME WaitGroupAssumption ==
  MaxCounter \in Nat /\ Deltas \subseteq Int

VARIABLES
  counter,
  waiters    \* top first

groupVars == <<counter, waiters>>

GroupInit == counter = 0 /\ waiters = << >>

AddOverflows(t, delta) ==
  /\ Calls(t) /\ delta > 0
  /\ delta > MaxCounter - counter
  /\ Panics("WaitGroup counter overflowed")
  /\ UNCHANGED groupVars

(* Mutant: the counter wraps around.                                       *)
AddUnchecked(t, delta) ==
  /\ Calls(t) /\ delta > 0
  /\ counter' = (counter + delta) % (MaxCounter + 1)
  /\ GoesOn(<< >>)
  /\ UNCHANGED waiters

Add(t, delta) ==
  /\ Calls(t) /\ delta > 0
  /\ delta <= MaxCounter - counter
  /\ counter' = counter + delta
  /\ GoesOn(<< >>)
  /\ UNCHANGED waiters

SubtractUnderflows(t, delta) ==
  /\ Calls(t) /\ delta <= 0
  /\ -delta > counter
  /\ Panics("negative WaitGroup counter")
  /\ UNCHANGED groupVars

(* Add of a delta that is not positive: at zero every waiter is scheduled. *)
Subtract(t, delta) ==
  /\ Calls(t) /\ delta <= 0
  /\ -delta <= counter
  /\ counter' = counter + delta
  /\ IF counter' = 0
     THEN waiters' = << >> /\ GoesOn(waiters)
     ELSE UNCHANGED waiters /\ GoesOn(<< >>)

Wait(t) ==
  /\ Calls(t)
  /\ \/ /\ counter = 0
        /\ GoesOn(<< >>)
        /\ UNCHANGED waiters
     \/ /\ counter # 0
        /\ waiters' = <<t>> \o waiters
        /\ PausesTask
  /\ UNCHANGED counter

GroupCalls(t) ==
  \/ Wait(t)
  \/ \E delta \in Deltas :
       \/ AddOverflows(t, delta) \/ Add(t, delta)
       \/ SubtractUnderflows(t, delta) \/ Subtract(t, delta)

-----------------------------------------------------------------------------
(* Nobody waits for a counter that is zero already: the loop in Add wakes  *)
(* every waiter, and Wait checks the counter before it pauses.             *)
NobodyWaitsAtZero == waiters # << >> => counter # 0

(* A waiter is released only by the step that brings the counter to zero;  *)
(* no sequence of Adds makes the counter wrap around to get there.         *)
ReleasedOnlyAtZero ==
  [][/\ \A t \in Task : Times(t, waiters) > Times(t, waiters')
          => counter' = 0 /\ waiters' = << >> /\ OnRunQueue(t)' = 1
     /\ counter' < counter => \E t \in Task, d \in Deltas : Subtract(t, d)
    ]_<<groupVars, runqueue>>
=============================================================================
