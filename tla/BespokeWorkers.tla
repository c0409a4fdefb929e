--------------------------- MODULE BespokeWorkers ---------------------------
(***************************************************************************)
(* c10m_bespoke.c: a worker is a hand-written state machine, and           *)
(* async_worker is called again from its start on every resume.            *)
(***************************************************************************)
EXTENDS AsyncDriver

VARIABLES
  workers,         \* the array of struct sm
  active_worker,   \* the index it points at
  result           \* what the last resume_async_worker returned

bespokeVars == <<driverVars, workers, active_worker, result>>

Sm == [state : {"NORMAL", "YIELDING"}, arg : 0 .. Word - 1, value : 0 .. Word - 1]

Cleared == [state |-> "NORMAL", arg |-> 0, value |-> 0]

BespokeInit ==
  /\ DriverInit
  /\ workers = [k \in Key |-> Cleared]   \* static storage
  /\ active_worker = -1
  /\ result = 0

(* Mutant: the argument is not saved.                                      *)
YieldForgetsValue(w, arg) ==
  IF w.state = "NORMAL"
    THEN [sm |-> [w EXCEPT !.state = "YIELDING"], kb |-> 0]
    ELSE [sm |-> [w EXCEPT !.state = "NORMAL"], kb |-> w.value]

(* async_worker_yield: the first call saves its argument and sets          *)
(* YIELDING, the call that follows a resume answers with the value.        *)
Yield(w, arg) ==
  IF w.state = "NORMAL"
    THEN [sm |-> [w EXCEPT !.value = arg, !.state = "YIELDING"], kb |-> 0]
    ELSE [sm |-> [w EXCEPT !.state = "NORMAL"], kb |-> w.value]

(* The call of async_worker_yield at label case 1.                         *)
WorkerRewound(w, arg) ==
  LET y == Yield(w, arg)
  IN  [sm |-> y.sm, answer |-> IF y.sm.state = "NORMAL" THEN 1 ELSE 0]

(* async_worker: case 0 yields and returns NULL, or falls through.         *)
Worker(w, arg) ==
  IF w.state = "YIELDING" THEN WorkerRewound(w, arg)
  ELSE LET y == Yield(w, arg)
       IN  IF y.sm.state = "YIELDING" THEN [sm |-> y.sm, answer |-> 0]
           ELSE WorkerRewound(y.sm, arg)

(* resume_async_worker: the worker's new state and what it answers.        *)
Resumed(w, v) ==
  LET given == IF w.state = "YIELDING" THEN [w EXCEPT !.value = v]
               ELSE [w EXCEPT !.arg = v]
      ran == Worker(given, given.arg)
  IN  [sm |-> ran.sm,
       answer |-> IF ran.sm.state = "NORMAL" THEN ran.answer ELSE ran.sm.value]

BespokeResume ==
  /\ active_worker' = j
  /\ workers' = [workers EXCEPT ![j] = Resumed(@, Kb).sm]
  /\ result' = Resumed(workers[j], Kb).answer

BespokeAlloc ==
  /\ CallAlloc
  /\ workers' = [workers EXCEPT ![j] = Cleared]
  /\ UNCHANGED <<active_worker, result>>

BespokeStart == CallStart /\ BespokeResume

BespokeWork == call = "work" /\ BespokeResume /\ CallWork(result')

(* free_async_worker does nothing.                                         *)
BespokeFree == CallFree /\ UNCHANGED <<workers, active_worker, result>>

BespokeNext == BespokeAlloc \/ BespokeStart \/ BespokeWork \/ BespokeFree

BespokeSpec ==
  BespokeInit /\ [][BespokeNext]_bespokeVars /\ WF_bespokeVars(BespokeNext)

-----------------------------------------------------------------------------
BespokeTypeOK ==
  /\ DriverTypeOK
  /\ workers \in [Key -> Sm]
  /\ active_worker \in Key \cup {-1}
  /\ result \in 0 .. Word - 1

BespokeWorkload == INSTANCE AsyncWorkload
  WITH midway <- {k \in Key : workers[k].state = "YIELDING"},
       answer <- result

(* The hand-written state machine answers every resume as the coroutine it *)
(* replaces does: its argument at the first, 1 at the second.              *)
BespokeImplements == BespokeWorkload!WorkloadSafety
=============================================================================
