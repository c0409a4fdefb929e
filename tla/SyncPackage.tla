----------------------------- MODULE SyncPackage ----------------------------
(***************************************************************************)
(* TinyGo's sync package over the scheduler: one mutex with a condition    *)
(* variable, one RWMutex and one WaitGroup, as far as the program uses     *)
(* them.  The steps say nothing of the rest of the runtime.                *)
(***************************************************************************)
EXTENDS MutexCond, RWLock, WaitGroup

syncVars == <<mutexVars, rwVars, groupVars>>

SyncInit == TaskSchedInit /\ MutexInit /\ RWInit /\ GroupInit

(* The scheduler resumes a task, which goes on behind its pause.           *)
Schedule ==
  /\ RunNext
  /\ MutexResumes /\ RWResumes
  /\ UNCHANGED groupVars

(* A busy program may yield without end.                                   *)
Gosched(t) ==
  /\ Runs(t) /\ ~InWait(t)
  /\ IF "busy" \in uses THEN UNCHANGED calls ELSE Calls(t)
  /\ YieldsTask(t, << >>)
  /\ UNCHANGED syncVars

Exit(t) ==
  /\ Runs(t) /\ ~InWait(t)
  /\ EndsTask(t)
  /\ UNCHANGED <<calls, syncVars>>

UsesMutex(t) ==
  /\ "mutex" \in uses
  /\ MutexCalls(t)
  /\ UNCHANGED <<rwVars, groupVars>>

UsesRWMutex(t) ==
  /\ "rwmutex" \in uses
  /\ RWCalls(t)
  /\ UNCHANGED <<mutexVars, groupVars>>

UsesGroup(t) ==
  /\ "group" \in uses
  /\ GroupCalls(t)
  /\ UNCHANGED <<mutexVars, rwVars>>

SyncStep ==
  \/ Schedule
  \/ \E t \in Task :
       \/ Gosched(t) \/ Exit(t)
       \/ UsesMutex(t)
       \/ ~InWait(t) /\ (UsesRWMutex(t) \/ UsesGroup(t))

-----------------------------------------------------------------------------
(* Mutex and RWMutex exclude: their words say who has them, also while a   *)
(* lock is handed to a task that has not been resumed.                     *)
LocksExclude == LockHasOneOwner /\ StateCountsOwners
=============================================================================
