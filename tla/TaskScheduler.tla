--------------------------- MODULE TaskScheduler ----------------------------
(***************************************************************************)
(* The tasks of a TinyGo program and the run queue of its scheduler.  One  *)
(* task runs until it pauses or yields.  Lists of tasks are sequences; in  *)
(* the code they are linked through the one Next field of a task, so a     *)
(* task may never be in two of them (TaskInOneList of GoRuntime).          *)
(*                                                                         *)
(* pc is where the loop of scheduler() is when no task runs: at its top,   *)
(* at the timers, at the pop of the run queue, or in sleepTicks.  In a     *)
(* program that never uses time both queues of the loop stay empty, and    *)
(* only the pop matters.                                                   *)
(*                                                                         *)
(* A program is taken from where main has started the other tasks and      *)
(* yielded to them.  Stack overflow, which Pause and Resume look for, is   *)
(* left out: the stacks of the tasks are not in the model.                 *)
(***************************************************************************)
EXTENDS Integers, Sequences, FiniteSets, Functions

CONSTANTS
  Task, NoTask,
  Main,      \* the goroutine of run, which calls main
  Programs   \* records: the facilities a program uses, its tasks in the
             \* order in which they are started, and a bound on the calls
             \* of all its tasks together

ASSUME ProgramAssumption ==
  /\ IsFiniteSet(Task) /\ NoTask \notin Task
  /\ \A p \in Programs :
       /\ p.uses \subseteq
            {"mutex", "rwmutex", "group", "chan", "sleep", "timer", "busy"}
       /\ p.tasks \in Seq(Task) /\ IsInjective(p.tasks) /\ p.calls \in Nat
       /\ p.tasks # << >> /\ p.tasks[Len(p.tasks)] = Main

VARIABLES
  runqueue,
  current,   \* the task that runs, or NoTask in the scheduler
  pc,        \* see above
  done,      \* the tasks that have returned, or were never started
  panic,     \* "", or the message of the runtime panic that ended the program
  uses,      \* of the program
  calls      \* calls left

taskVars == <<runqueue, current, pc, done, panic, uses, calls>>

LoopHead == IF {"sleep", "timer"} \cap uses = {} THEN "pop" ELSE "top"

(* The goroutine of main sets it last.  Then run returns, and the program  *)
(* is over.                                                                *)
schedulerDone == Main \in done

(* The loop of scheduler() goes on.                                        *)
InLoop == panic = "" /\ current = NoTask /\ ~schedulerDone

TaskSchedInit ==
  /\ current = NoTask
  /\ panic = ""
  /\ \E p \in Programs :
       /\ uses = p.uses /\ calls = p.calls
       /\ runqueue = p.tasks
  /\ done = Task \ Range(runqueue)
  /\ pc = LoopHead

(* Mutant: the run queue is a stack.                                       *)
RunNewest ==
  /\ InLoop /\ pc = "pop"
  /\ runqueue # << >>
  /\ current' = runqueue[Len(runqueue)]
  /\ runqueue' = SubSeq(runqueue, 1, Len(runqueue) - 1)
  /\ UNCHANGED <<pc, done, panic, uses, calls>>

(* scheduler takes the next task from the run queue and resumes it.        *)
RunNext ==
  /\ InLoop /\ pc = "pop"
  /\ runqueue # << >>
  /\ current' = Head(runqueue)
  /\ runqueue' = Tail(runqueue)
  /\ UNCHANGED <<pc, done, panic, uses, calls>>

-----------------------------------------------------------------------------
(* What a step of the running task does to the scheduler.                  *)

Runs(t) == panic = "" /\ current = t

Calls(t) == Runs(t) /\ calls > 0 /\ calls' = calls - 1

(* The current task goes on, after scheduleTask of the tasks in woken.     *)
GoesOn(woken) ==
  /\ runqueue' = runqueue \o woken
  /\ UNCHANGED <<current, pc, done, panic, uses>>

(* The current task pauses; somebody else has to schedule it.              *)
PausesTask ==
  /\ current' = NoTask
  /\ pc' = LoopHead
  /\ UNCHANGED <<runqueue, done, panic, uses>>

(* Gosched, after the tasks in woken: the current task is the last.        *)
YieldsTask(t, woken) ==
  /\ runqueue' = runqueue \o woken \o <<t>>
  /\ current' = NoTask
  /\ pc' = LoopHead
  /\ UNCHANGED <<done, panic, uses>>

(* The function of the task returns.                                       *)
EndsTask(t) ==
  /\ done' = done \cup {t}
  /\ current' = NoTask
  /\ pc' = LoopHead
  /\ UNCHANGED <<runqueue, panic, uses>>

Panics(message) ==
  /\ panic' = message
  /\ UNCHANGED <<runqueue, current, pc, done, uses>>

-----------------------------------------------------------------------------
(* How often t is in the list s.                                           *)
Times(t, s) == Cardinality({i \in 1 .. Len(s) : s[i] = t})

OnRunQueue(t) == Times(t, runqueue)
=============================================================================
