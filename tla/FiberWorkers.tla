---------------------------- MODULE FiberWorkers ----------------------------
(***************************************************************************)
(* c10m.c over asyncify.c and fiber_asyncify.c: a worker is a fiber, and   *)
(* store keeps its address, also after it is freed.  The driver is at the  *)
(* bottom of the call stack; async_worker, in a fiber, calls               *)
(* async_worker_yield of asyncify.c, which calls fiber_yield.              *)
(***************************************************************************)
EXTENDS AsyncDriver, AsyncifyFibers

VARIABLES
  store,   \* the address for each key; None before the first alloc
  out      \* what the last resume_async_worker returned

libraryVars == <<driverVars, store, out>>

FiberInit ==
  /\ DriverInit
  /\ AsyncifyInit
  /\ store = [k \in Key |-> None]
  /\ out = 0

AtMain == Normal /\ Len(acts) = 1

(* malloc may return any address that is free.                             *)
WorkerAlloc ==
  /\ CallAlloc /\ AtMain
  /\ \E f \in Fib : FiberAlloc(f) /\ store' = [store EXCEPT ![j] = f]
  /\ UNCHANGED out

(* resume_async_worker up to the entry of the fiber.  (No fiber is resumed *)
(* that is DONE; the driver would stop here.)                              *)
WorkerResume ==
  /\ ~DriverEnd /\ call \in {"start", "work"} /\ AtMain
  /\ FiberResumeFresh(store[j], Kb) \/ FiberResumeYielding(store[j], Kb)
  /\ UNCHANGED libraryVars

(* Mutant: async_worker_yield returns at once, and is called again.        *)
WorkerRunsOn ==
  /\ ~DriverEnd /\ Len(acts) = 2
  /\ LET v == Last(Act.frames).loc IN
       \/ Len(Act.frames) = 1 /\ call = "start" /\ \E s \in Site : Call(s, v)
       \/ Len(Act.frames) = 2 /\ Return(v)
  /\ UNCHANGED libraryVars

(* async_worker passes its argument to async_worker_yield, that to         *)
(* fiber_yield; the answer comes back the same way.                        *)
WorkerRuns ==
  /\ ~DriverEnd /\ Len(acts) = 2
  /\ LET v == Last(Act.frames).loc IN
       \/ call = "start" /\ Len(Act.frames) = 1 /\ \E s \in Site : Call(s, v)
       \/ call = "start" /\ Len(Act.frames) = 2 /\ FiberYield(v)
       \/ call = "work" /\ Len(Act.frames) = 2 /\ Return(v)
  /\ UNCHANGED libraryVars

WorkerSwitches ==
  /\ ~DriverEnd
  /\ Unwind \/ Rewind \/ FiberYieldRewound
  /\ UNCHANGED libraryVars

(* Mutant: the answer is read before the fiber runs.                       *)
AnswersTooSoon == out' = acts[1].frames[1].loc /\ UNCHANGED store

(* resume_async_worker answers what fiber_resume gave to the driver.       *)
Answers == out' = acts'[1].frames[1].loc /\ UNCHANGED store

WorkerStart == CallStart /\ FiberResumeYielded /\ Answers

(* async_worker returns 1.                                                 *)
WorkerWork ==
  /\ call = "work" /\ Len(acts) = 2
  /\ FiberResumeFinished(1)
  /\ Answers
  /\ CallWork(out')

(* Mutant: the fiber is not freed.                                         *)
WorkerFreeNothing ==
  /\ CallFree /\ AtMain
  /\ UNCHANGED <<asyncifyVars, store, out>>

WorkerFree ==
  /\ CallFree /\ AtMain
  /\ FiberFree(store[j])
  /\ UNCHANGED <<store, out>>

-----------------------------------------------------------------------------
(* The keys whose fiber has been freed and not yet replaced, or not yet    *)
(* allocated.                                                              *)
Vacant ==
  CASE phase = "fill" -> i .. active - 1
    [] phase = "serve" -> IF call = "alloc" THEN {j} ELSE {}
    [] phase = "drain" -> 0 .. i - 1
    [] OTHER -> Key

(* Although store keeps dangling pointers and malloc reuses addresses, the *)
(* keys in use own distinct live fibers and these are all the fibers: none *)
(* leaks, none is used or freed after its address went to another key, and *)
(* the last call frees the last one.                                       *)
HeapOwned ==
  /\ \A k, l \in Key \ Vacant : k # l => store[k] # store[l]
  /\ {f \in Fib : state[f] # "FREED"} = {store[k] : k \in Key \ Vacant}

(* A resume in progress has not happened yet.                              *)
FiberWorkload == INSTANCE AsyncWorkload
  WITH midway <- {k \in Key \ Vacant :
                    IF InUse(store[k]) THEN call = "work"
                                       ELSE state[store[k]] = "YIELDING"},
       answer <- out

(* Fibers over unwinding and rewinding implement the workload.             *)
FiberImplements == FiberWorkload!WorkloadSafety
=============================================================================
