--------------------------- MODULE WasmfxScheduler --------------------------
(***************************************************************************)
(* TinyGo after effects.pl: goroutines are continuations in the table of   *)
(* EffectsQueue, Pause is a suspend, and $runtime.scheduler resumes what   *)
(* it dequeues and enqueues again whatever suspends.                       *)
(*                                                                         *)
(* A goroutine and its continuation share one name.  The scheduler can be  *)
(* active several times at once: a goroutine calls the host, the host      *)
(* calls the exports resume or go_scheduler, and since wasmNested is set   *)
(* these run minSched, which effects.pl makes another call of the          *)
(* scheduler.  active[i] is the goroutine that activation i has resumed,   *)
(* None while the activation is at the head of its loop; only the last     *)
(* activation moves.                                                       *)
(***************************************************************************)
EXTENDS EffectsQueue, Sequences

CONSTANTS
  Main,     \* the goroutine of runtime.run
  MaxNest   \* bound: scheduler activations at a time

ASSUME SchedulerAssumption ==
  /\ Main \in Cont
  /\ MaxNest \in Nat \ {0}

VARIABLES
  active,          \* see above
  goroutine,       \* where each goroutine is
  schedulerDone    \* set when main returns

schedVars == <<queueVars, active, goroutine, schedulerDone>>

Top == Len(active)

Running(g) == status = "ok" /\ Top # 0 /\ active[Top] = g /\ g # None

AtLoopHead == status = "ok" /\ Top # 0 /\ active[Top] = None

SchedInit ==
  /\ QueueInit
  /\ active = << >>
  /\ goroutine = [g \in Cont |-> "new"]
  /\ schedulerDone = FALSE

(* run starts the goroutine of main and calls the scheduler.               *)
Run ==
  /\ goroutine[Main] = "new"
  /\ Enqueue(Main)
  /\ goroutine' = [goroutine EXCEPT ![Main] = "queued"]
  /\ active' = <<None>>
  /\ UNCHANGED schedulerDone

-----------------------------------------------------------------------------
(* The scheduler.                                                          *)

(* The goroutine at the front is resumed.  One that paused in deadlock()   *)
(* goes on to the panic that follows the pause.                            *)
Schedule ==
  /\ AtLoopHead
  /\ ~schedulerDone
  /\ Dequeue
  /\ active' = [active EXCEPT ![Top] = got']
  /\ goroutine' = [goroutine EXCEPT ![got'] =
                     IF @ = "deadlocked" THEN "unreachable" ELSE "running"]
  /\ UNCHANGED schedulerDone

(* Mutant: the scheduler returns with goroutines queued.                   *)
ScheduleEndTooSoon ==
  /\ AtLoopHead
  /\ active' = SubSeq(active, 1, Top - 1)
  /\ UNCHANGED <<queueVars, goroutine, schedulerDone>>

(* Main has returned, or nothing is queued: the activation returns.        *)
ScheduleEnd ==
  /\ AtLoopHead
  /\ \/ schedulerDone /\ UNCHANGED queueVars
     \/ ~schedulerDone /\ DequeueEmpty
  /\ active' = SubSeq(active, 1, Top - 1)
  /\ UNCHANGED <<goroutine, schedulerDone>>

-----------------------------------------------------------------------------
(* What the goroutine that runs may do.                                    *)

(* A go statement.  The name of a goroutine that has returned is free.     *)
Start(g) ==
  /\ g # Main
  /\ goroutine[g] \in {"new", "returned"}
  /\ Enqueue(g)
  /\ goroutine' = [goroutine EXCEPT ![g] = "queued"]

Go(h, g) ==
  /\ Running(h) /\ goroutine[h] = "running"
  /\ Start(g)
  /\ UNCHANGED <<active, schedulerDone>>

(* Mutant: the continuation is not enqueued.                               *)
SuspendNoEnqueue(g, where) ==
  /\ Running(g) /\ goroutine[g] = "running"
  /\ goroutine' = [goroutine EXCEPT ![g] = where]
  /\ active' = [active EXCEPT ![Top] = None]
  /\ UNCHANGED <<queueVars, schedulerDone>>

(* Pause suspends; the handler in the scheduler enqueues the continuation. *)
Suspend(g, where) ==
  /\ Running(g) /\ goroutine[g] = "running"
  /\ Enqueue(g)
  /\ goroutine' = [goroutine EXCEPT ![g] = where]
  /\ active' = [active EXCEPT ![Top] = None]
  /\ UNCHANGED schedulerDone

(* The Queue.Push in Gosched is a no-op after the rewriting.               *)
Gosched(g) == Suspend(g, "queued")

(* deadlock(), which Goexit, select{} and operations on nil channels call. *)
Deadlock(g) == Suspend(g, "deadlocked")

(* Mutant: any goroutine sets schedulerDone.                               *)
ReturnEndsProgram(g) ==
  /\ Running(g) /\ goroutine[g] = "running"
  /\ goroutine' = [goroutine EXCEPT ![g] = "returned"]
  /\ active' = [active EXCEPT ![Top] = None]
  /\ schedulerDone' = TRUE
  /\ UNCHANGED queueVars

(* The function of the goroutine returns, and with it the resume.  The     *)
(* goroutine of main sets schedulerDone last.                              *)
Return(g) ==
  /\ Running(g) /\ goroutine[g] = "running"
  /\ goroutine' = [goroutine EXCEPT ![g] = "returned"]
  /\ active' = [active EXCEPT ![Top] = None]
  /\ schedulerDone' = (schedulerDone \/ g = Main)
  /\ UNCHANGED queueVars

(* The goroutine calls the host, which calls go_scheduler.                 *)
HostCallsScheduler(h) ==
  /\ Running(h) /\ goroutine[h] = "running"
  /\ Top < MaxNest
  /\ active' = Append(active, None)
  /\ UNCHANGED <<queueVars, goroutine, schedulerDone>>

(* The goroutine calls the host, which calls resume: the event handler is  *)
(* started before the nested scheduler runs.                               *)
HostCallsResume(h, g) ==
  /\ Running(h) /\ goroutine[h] = "running"
  /\ Top < MaxNest
  /\ Start(g)
  /\ active' = Append(active, None)
  /\ UNCHANGED schedulerDone

(* The program is over: exited, trapped, or panicked.                      *)
SchedStopped ==
  /\ \/ status = "trap"
     \/ Top = 0 /\ goroutine[Main] # "new"
     \/ \E g \in Cont : goroutine[g] = "unreachable"
  /\ UNCHANGED schedVars

SchedNext ==
  \/ Run
  \/ Schedule
  \/ ScheduleEnd
  \/ \E g \in Cont :
       \/ Gosched(g)
       \/ Deadlock(g)
       \/ Return(g)
       \/ HostCallsScheduler(g)
       \/ \E h \in Cont : Go(g, h) \/ HostCallsResume(g, h)
  \/ SchedStopped

(* The program is one thread; a goroutine that runs is taken to reach its  *)
(* next runtime call, so the one thread never stops short.                 *)
SchedSpec == SchedInit /\ [][SchedNext]_schedVars /\ WF_schedVars(SchedNext)

-----------------------------------------------------------------------------
(* A goroutine is in one place: it is queued exactly when it has paused or *)
(* not yet begun, once; it is on the chain of activations exactly when it  *)
(* has been resumed and has not come back, once.  A second entry would     *)
(* resume a continuation that has been consumed.                           *)
OnePlace ==
  status = "ok" =>
    /\ \A i, j \in qfront .. qback - 1 : i # j => table[i] # table[j]
    /\ \A i, j \in 1 .. Top : i # j => active[i] # active[j]
    /\ \A g \in Cont :
         /\ g \in Queued <=> goroutine[g] \in {"queued", "deadlocked"}
         /\ (\E i \in 1 .. Top : active[i] = g)
              <=> goroutine[g] \in {"running", "unreachable"}

(* The outermost scheduler returns to run only after main has returned:    *)
(* "Run the scheduler until all tasks have finished."  It also returns on  *)
(* an empty queue, as every nested activation may while main waits for the *)
(* host call it is in; but outside these main is in the queue, whichever   *)
(* activation resumed it last.                                             *)
RunsMainToItsEnd ==
  status = "ok" /\ Top = 0 => goroutine[Main] \in {"new", "returned"}

(* A goroutine that has been started or has yielded gets its turn, unless  *)
(* the program ends first.  The order of the queue gives it, since no      *)
(* goroutine can be resumed twice while another waits.                     *)
EveryoneGetsATurn ==
  \A g \in Cont :
    goroutine[g] = "queued" ~> \/ goroutine[g] = "running"
                               \/ schedulerDone
                               \/ status = "trap"
                               \/ \E h \in Cont : goroutine[h] = "unreachable"
=============================================================================
