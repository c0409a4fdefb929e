-------------------------------- MODULE C10m --------------------------------
(***************************************************************************)
(* The versions of the c10m benchmark side by side: the abstract workload, *)
(* the hand-written state machines, the continuations of WasmFX and the    *)
(* fibers over asyncify, each called by the driver with the same calls.    *)
(* They go on together only while their answers agree.                     *)
(*                                                                         *)
(* When the benchmark is over the program may go on to use the fiber       *)
(* library in any other way.                                               *)
(***************************************************************************)
EXTENDS AsyncWorkload, BespokeWorkers, WasmfxWorkers, FiberWorkers

othersVars == <<midway, answer, workers, active_worker, result, conts, point, reply>>

c10mVars == <<libraryVars, asyncifyVars, othersVars>>

C10mInit == WorkloadInit /\ BespokeInit /\ FxInit /\ FiberInit

AllAlloc == Alloc /\ BespokeAlloc /\ FxAlloc /\ WorkerAlloc

AllStart == Start /\ BespokeStart /\ FxStart /\ WorkerStart

AllWork == Work /\ BespokeWork /\ FxWork /\ WorkerWork

AllFree == Free /\ BespokeFree /\ FxFree /\ WorkerFree

FiberSteps == (WorkerResume \/ WorkerRuns \/ WorkerSwitches) /\ UNCHANGED othersVars

Benchmark == AllAlloc \/ AllStart \/ AllWork \/ AllFree \/ FiberSteps

(* After the benchmark; one size and, since addresses are alike, one       *)
(* address for its worker are enough.                                      *)
GoesOnAfterwards ==
  DriverEnd /\ total + active = 1 /\ store[0] = CHOOSE f \in Fib : TRUE

Afterwards ==
  /\ GoesOnAfterwards
  /\ AsyncifyNext
  /\ UNCHANGED <<libraryVars, othersVars>>

C10mNext == Benchmark \/ Afterwards

(* The benchmark is one thread, which never stops short.  Afterwards only  *)
(* the switches are sure to go on.                                         *)
C10mSpec ==
  /\ C10mInit /\ [][C10mNext]_c10mVars
  /\ WF_c10mVars(Benchmark)
  /\ WF_c10mVars(DriverEnd /\ Switching /\ UNCHANGED <<libraryVars, othersVars>>)

-----------------------------------------------------------------------------
(* No version loses a worker or uses one that is gone: the table of the    *)
(* WasmFX version and the store of the fiber version own, for the keys in  *)
(* use, exactly the continuations and the fibers there are.  When the      *)
(* benchmark is over none are left, unless the program goes on.            *)
WorkersOwned == TableOwnsContinuations /\ (~GoesOnAfterwards => HeapOwned)
=============================================================================
