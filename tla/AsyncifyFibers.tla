--------------------------- MODULE AsyncifyFibers ---------------------------
(***************************************************************************)
(* fiber_asyncify.c together with the code that Asyncify.cpp adds to the   *)
(* functions a fiber runs.  There is one call stack; to leave a fiber the  *)
(* functions return one after the other, each pushing its call index and   *)
(* its locals on the asyncify stack of the fiber, and to continue it they  *)
(* are called again from the entry, each popping its locals and its index. *)
(*                                                                         *)
(* acts is the call stack, cut at the calls of fiber_resume: acts[1] holds *)
(* the frames of main, acts[n + 1] those above the n-th fiber_resume, with *)
(* the fiber it runs and its local variable prev.  The call sites a frame  *)
(* can be at are ordinary calls (Site) and the call of fiber_yield.        *)
(*                                                                         *)
(* The client resumes and frees only fibers that are not being run; fiber  *)
(* functions yield only in a fiber (fiber.h).                              *)
(***************************************************************************)
EXTENDS Integers, Sequences

CONSTANTS
  Fib, Main, Val, Site,
  Cap,        \* words between the start and the end of an asyncify stack
  MaxDepth    \* bound: frames in an activation

ASSUME AsyncifyAssumption ==
  /\ Cap \in Nat /\ MaxDepth \in Nat \ {0}
  /\ Main \notin Fib /\ 0 \notin Val
  /\ Site \cap {"run", "yield"} = {}

VARIABLES
  state,          \* the state field of each fiber, "FREED" without one
  arg,            \* the arg field of each fiber
  saved,          \* the words on the asyncify stack of each fiber
  acts,
  active_fiber,
  asyncify_state, \* 0 normal, 1 unwinding, 2 rewinding
  asyncify_data,  \* the fiber whose stack it points to; None for 0
  status          \* "ok", or "trap" after an unreachable

None == Main      \* the null fiber, which runs main

asyncifyVars ==
  <<state, arg, saved, acts, active_fiber, asyncify_state, asyncify_data, status>>

Front(s) == SubSeq(s, 1, Len(s) - 1)

Last(s) == s[Len(s)]

Act == Last(acts)

AsyncifyInit ==
  /\ state = [f \in Fib |-> "FREED"]
  /\ arg = [f \in Fib |-> 0]
  /\ saved = [f \in Fib |-> << >>]
  /\ \E v \in Val :
       acts = <<[fiber |-> None, prev |-> None,
                 frames |-> <<[pc |-> "run", loc |-> v]>>]>>
  /\ active_fiber = None
  /\ asyncify_state = 0
  /\ asyncify_data = None
  /\ status = "ok"

Normal == status = "ok" /\ asyncify_state = 0

InUse(f) == \E n \in 1 .. Len(acts) : acts[n].fiber = f

OnTop(frames) == [acts EXCEPT ![Len(acts)].frames = frames]

Receive(s, v) == [s EXCEPT ![Len(s)] = [pc |-> "run", loc |-> v]]

(* The value v answers the innermost call of the activation below.         *)
Below(v) ==
  [Front(acts) EXCEPT ![Len(acts) - 1].frames = Receive(@, v)]

-----------------------------------------------------------------------------
(* Mutant: no check.                                                       *)
InBoundsUnchecked(f) == TRUE

(* The interface functions of asyncify check the stack they were given     *)
(* last, and nothing else does.  What lies at the address of a freed stack *)
(* is unknown, so that its check may go either way.                        *)
InBounds(f) ==
  f \in Fib => state[f] = "FREED" \/ Len(saved[f]) <= Cap

OutOfBounds(f) ==
  f \in Fib /\ (state[f] = "FREED" \/ Len(saved[f]) > Cap)

asyncify_start(s, f) ==
  /\ asyncify_state' = s
  /\ asyncify_data' = f
  /\ InBounds(f)

asyncify_stop ==
  /\ asyncify_state' = 0
  /\ UNCHANGED asyncify_data
  /\ InBounds(asyncify_data)

-----------------------------------------------------------------------------
(* Ordinary execution of a function, instrumented but in the normal state. *)

(* The frames of main are never unwound, so one stands for them.           *)
Call(site, v) ==
  /\ Normal /\ Act.fiber # None
  /\ Len(Act.frames) < MaxDepth
  /\ acts' = OnTop(Append([Act.frames EXCEPT ![Len(Act.frames)].pc = site],
                          [pc |-> "run", loc |-> v]))
  /\ UNCHANGED <<state, arg, saved, active_fiber, asyncify_state,
                 asyncify_data, status>>

Return(v) ==
  /\ Normal
  /\ Len(Act.frames) > 1
  /\ acts' = OnTop(Receive(Front(Act.frames), v))
  /\ UNCHANGED <<state, arg, saved, active_fiber, asyncify_state,
                 asyncify_data, status>>

(* Mutant: the local is not saved.                                         *)
UnwindMissesLocal ==
  /\ status = "ok" /\ asyncify_state = 1
  /\ Act.frames # << >>
  /\ LET f == Last(Act.frames) IN
       saved' = [saved EXCEPT ![asyncify_data] = @ \o <<f.pc, 0>>]
  /\ acts' = OnTop(Front(Act.frames))
  /\ UNCHANGED <<state, arg, active_fiber, asyncify_state, asyncify_data, status>>

(* On the way out a frame pushes its call index, then its locals; no       *)
(* bound is checked.                                                       *)
Unwind ==
  /\ status = "ok" /\ asyncify_state = 1
  /\ Act.frames # << >>
  /\ LET f == Last(Act.frames) IN
       saved' = [saved EXCEPT ![asyncify_data] = @ \o <<f.pc, f.loc>>]
  /\ acts' = OnTop(Front(Act.frames))
  /\ UNCHANGED <<state, arg, active_fiber, asyncify_state, asyncify_data, status>>

(* Mutant: only the entry function is instrumented.                        *)
RewindEntryOnly ==
  /\ status = "ok" /\ asyncify_state = 2
  /\ Act.frames = << >>
  /\ LET w == saved[asyncify_data]
         n == Len(w) IN
       /\ acts' = OnTop(Append(Act.frames, [pc |-> w[n - 1], loc |-> w[n]]))
       /\ saved' = [saved EXCEPT ![asyncify_data] = SubSeq(w, 1, n - 2)]
  /\ UNCHANGED <<state, arg, active_fiber, asyncify_state, asyncify_data, status>>

(* On the way in a function first pops its locals, then its call index, and*)
(* skips to that call.                                                     *)
Rewind ==
  /\ status = "ok" /\ asyncify_state = 2
  /\ Act.frames # << >> => Last(Act.frames).pc \in Site
  /\ LET w == saved[asyncify_data]
         n == Len(w) IN
       /\ acts' = OnTop(Append(Act.frames, [pc |-> w[n - 1], loc |-> w[n]]))
       /\ saved' = [saved EXCEPT ![asyncify_data] = SubSeq(w, 1, n - 2)]
  /\ UNCHANGED <<state, arg, active_fiber, asyncify_state, asyncify_data, status>>

-----------------------------------------------------------------------------
(* fiber_asyncify.c.                                                       *)

FiberAlloc(f) ==
  /\ Normal
  /\ state[f] = "FREED"
  /\ state' = [state EXCEPT ![f] = "ACTIVE"]
  /\ arg' = [arg EXCEPT ![f] = 0]
  /\ saved' = [saved EXCEPT ![f] = << >>]
  /\ UNCHANGED <<acts, active_fiber, asyncify_state, asyncify_data, status>>

FiberFree(f) ==
  /\ Normal
  /\ state[f] # "FREED" /\ ~InUse(f)
  /\ state' = [state EXCEPT ![f] = "FREED"]
  /\ saved' = [saved EXCEPT ![f] = << >>]
  /\ UNCHANGED <<arg, acts, active_fiber, asyncify_state, asyncify_data, status>>

(* fiber_yield called in the normal state.                                 *)
FiberYield(v) ==
  /\ Normal /\ active_fiber # None
  /\ state[active_fiber] # "YIELDING"
  /\ arg' = [arg EXCEPT ![active_fiber] = v]
  /\ state' = [state EXCEPT ![active_fiber] = "YIELDING"]
  /\ acts' = OnTop([Act.frames EXCEPT ![Len(Act.frames)].pc = "yield"])
  /\ asyncify_start(1, active_fiber)
  /\ UNCHANGED <<saved, active_fiber, status>>

(* fiber_yield called again at the end of a rewind.                        *)
FiberYieldRewound ==
  /\ status = "ok" /\ asyncify_state = 2
  /\ Act.frames # << >> /\ Last(Act.frames).pc = "yield"
  /\ state[active_fiber] = "YIELDING"
  /\ asyncify_stop
  /\ state' = [state EXCEPT ![active_fiber] = "ACTIVE"]
  /\ acts' = OnTop(Receive(Act.frames, arg[active_fiber]))
  /\ UNCHANGED <<arg, saved, active_fiber, status>>

(* fiber_resume up to the call of the entry function.                      *)
FiberResumeDone(f) ==
  /\ Normal
  /\ state[f] = "DONE"
  /\ acts' = OnTop(Receive(Act.frames, 0))
  /\ UNCHANGED <<state, arg, saved, active_fiber, asyncify_state,
                 asyncify_data, status>>

FiberResumeFresh(f, v) ==
  /\ Normal
  /\ state[f] = "ACTIVE" /\ ~InUse(f)
  /\ acts' = Append(acts, [fiber |-> f, prev |-> active_fiber,
                           frames |-> <<[pc |-> "run", loc |-> v]>>])
  /\ active_fiber' = f
  /\ UNCHANGED <<state, arg, saved, asyncify_state, asyncify_data, status>>

FiberResumeYielding(f, v) ==
  /\ Normal
  /\ state[f] = "YIELDING" /\ ~InUse(f)
  /\ arg' = [arg EXCEPT ![f] = v]
  /\ acts' = Append(acts, [fiber |-> f, prev |-> active_fiber, frames |-> << >>])
  /\ active_fiber' = f
  /\ asyncify_start(2, f)
  /\ UNCHANGED <<state, saved, status>>

(* Mutant: active_fiber is cleared.                                        *)
PrevLost == active_fiber' = None

Prev == active_fiber' = Act.prev

(* fiber_resume after the entry function has returned because its frames   *)
(* have been unwound.                                                      *)
FiberResumeYielded ==
  /\ status = "ok" /\ asyncify_state = 1
  /\ Act.frames = << >>
  /\ asyncify_stop
  /\ Prev
  /\ acts' = Below(arg[Act.fiber])
  /\ UNCHANGED <<state, arg, saved, status>>

(* fiber_resume after the entry function has returned v.                   *)
FiberResumeFinished(v) ==
  /\ Normal /\ Act.fiber # None
  /\ Len(Act.frames) = 1
  /\ asyncify_stop
  /\ state' = [state EXCEPT ![Act.fiber] = "DONE"]
  /\ Prev
  /\ acts' = Below(v)
  /\ UNCHANGED <<arg, saved, status>>

(* The check of asyncify_stop_unwind in fiber_resume fails.                *)
StopUnwindTraps ==
  /\ status = "ok" /\ Act.fiber # None
  /\ \/ asyncify_state = 1 /\ Act.frames = << >>
     \/ asyncify_state = 0 /\ Len(Act.frames) = 1
  /\ OutOfBounds(asyncify_data)
  /\ status' = "trap"
  /\ UNCHANGED <<state, arg, saved, acts, active_fiber, asyncify_state,
                 asyncify_data>>

Switching == Unwind \/ Rewind \/ FiberYieldRewound \/ FiberResumeYielded
               \/ (asyncify_state = 1 /\ StopUnwindTraps)

AsyncifyNext ==
  \/ Switching
  \/ asyncify_state = 0 /\ StopUnwindTraps
  \/ \E v \in Val : \/ Return(v) \/ FiberYield(v) \/ FiberResumeFinished(v)
                    \/ \E s \in Site : Call(s, v)
  \/ \E f \in Fib : \/ FiberAlloc(f) \/ FiberFree(f) \/ FiberResumeDone(f)
                    \/ \E v \in Val : \/ FiberResumeFresh(f, v)
                                      \/ FiberResumeYielding(f, v)

AsyncifySpec ==
  AsyncifyInit /\ [][AsyncifyNext]_asyncifyVars /\ WF_asyncifyVars(Switching)

-----------------------------------------------------------------------------
(* active_fiber is the fiber whose functions execute, at any depth of      *)
(* nested resumes: fiber_yield writes its payload into the right fiber and *)
(* unwinds onto the right stack.                                           *)
ActiveIsInnermost == status = "ok" => active_fiber = Act.fiber

(* Nothing checks the bound while frames are pushed, yet an overflow never *)
(* goes unnoticed: once ordinary code runs again every asyncify stack is   *)
(* within its bounds.  And nothing else traps but the check of             *)
(* asyncify_stop_unwind on a stack that had been freed: fiber_resume calls *)
(* it also for a fiber that never yielded, when asyncify_data is whatever  *)
(* it was before.                                                          *)
OverflowIsCaught ==
  /\ Normal => \A f \in Fib : Len(saved[f]) <= Cap
  /\ status = "trap" => \/ state[asyncify_data] = "FREED"
                        \/ Len(saved[asyncify_data]) > Cap

(* Unwinding and rewinding come to an end: they never get stuck between    *)
(* the functions that asyncify instruments.                                *)
SwitchingEnds == asyncify_state # 0 ~> (asyncify_state = 0 \/ status = "trap")

-----------------------------------------------------------------------------
(* The frames on an asyncify stack, outermost first.                       *)
Decode(w) ==
  LET n == Len(w) \div 2
  IN  [k \in 1 .. n |-> [pc |-> w[2 * (n - k) + 1], loc |-> w[2 * (n - k) + 2]]]

OnStack(f) ==
  IF InUse(f) THEN acts[CHOOSE n \in 1 .. Len(acts) : acts[n].fiber = f].frames
              ELSE << >>

StageOf(f) ==
  IF state[f] = "FREED" THEN "none"
  ELSE IF ~InUse(f)
    THEN [ACTIVE |-> "fresh", YIELDING |-> "suspended", DONE |-> "done"][state[f]]
  ELSE IF f # Act.fiber \/ asyncify_state = 0 THEN "running"
  ELSE IF asyncify_state = 1 THEN "leaving" ELSE "landing"

Stages == [f \in Fib |-> StageOf(f)]

ResumedFibers == [n \in 1 .. Len(acts) - 1 |-> acts[n + 1].fiber]

Stacks ==
  [f \in Fib \cup {Main} |->
     OnStack(f) \o (IF f = Main THEN << >> ELSE Decode(saved[f]))]

Stackful == INSTANCE Fibers WITH
  stage <- Stages, chain <- ResumedFibers, frames <- Stacks, box <- arg,
  aborted <- (status = "trap")

(* Unwinding and rewinding implement fibers with stacks of their own: a    *)
(* resumed fiber is in the frames, at the calls and with the locals it     *)
(* yielded with, whatever other fibers did in the meantime.                *)
ImplementsStackful == Stackful!FibersSpec
=============================================================================
