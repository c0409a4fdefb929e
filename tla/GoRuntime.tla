------------------------------ MODULE GoRuntime -----------------------------
(***************************************************************************)
(* A TinyGo program: its tasks call one mutex with a condition variable,   *)
(* one RWMutex, one WaitGroup, channels, sleep and timers, as far as the   *)
(* program uses them, over the one scheduler.                              *)
(***************************************************************************)
EXTENDS SyncPackage, SleepTimers

runtimeVars == <<taskVars, syncVars, w, sleepVars>>

RuntimeInit == SyncInit /\ ChanInit /\ SleepInit

(* The channels that programs make, send on and close.                     *)
UserChan == Chan \ {TimerChan[m] : m \in Timer}

(* The channel of a timer exists once the timer has been made.             *)
Made(c) == c \in UserChan \/ \E m \in Timer : TimerChan[m] = c /\ when[m] # 0

UsesChan(t) ==
  /\ "chan" \in uses
  /\ \/ \E c \in UserChan : ChanCalls(t, c)
     \/ \E cases \in Selects :
          (\A i \in DOMAIN cases : Made(cases[i].c)) /\ SelectCalls(t, cases)
  /\ UNCHANGED sleepVars

RuntimeNext ==
  \/ SyncStep /\ UNCHANGED <<w, sleepVars>>
  \/ LoopSteps /\ UNCHANGED syncVars
  \/ \E t \in Task : ~InWait(t) /\ (UsesChan(t) \/ TimeCalls(t)) /\ UNCHANGED syncVars

(* One thread that never stops short: a task that runs gets to its next    *)
(* call, the scheduler to the next task, and time passes.                  *)
RuntimeSpec ==
  RuntimeInit /\ [][RuntimeNext]_runtimeVars /\ WF_runtimeVars(RuntimeNext)

-----------------------------------------------------------------------------
Holds(condition) == IF condition THEN 1 ELSE 0

(* A task is in one place: it runs, has returned, or is on exactly one of  *)
(* the lists that share its Next field: the run queue, the sleep queue,    *)
(* the blocked tasks of a lock, condition or group, or those of channels.  *)
(* Twice on the run queue it would be resumed where it does not wait; on   *)
(* none it would be lost.                                                  *)
TaskInOneList ==
  \A t \in Task :
    OnRunQueue(t) + Times(t, mblocked) + Times(t, cblocked)
      + Times(t, waitingReaders) + Times(t, waitingWriters) + Times(t, waiters)
      + Cardinality({i \in DOMAIN sleepQueue : sleepQueue[i].task = t})
      + Holds(Waiting(t)) + Holds(current = t) + Holds(t \in done) = 1

(* Nobody waits for what is there: a partner on a channel, a lock that is  *)
(* free, a counter that is zero.  The calls that make it so, by one task   *)
(* or several, also wake those who wait for it.                            *)
NobodyWaitsInVain == NoMissedMeeting /\ WaitersHaveReason /\ NobodyWaitsAtZero

(* The task runs, or the program is over.                                  *)
RunsOrEnds(t) == current = t \/ panic # "" \/ schedulerDone

(* A task that has been scheduled runs, unless the program ends: a task    *)
(* that was handed a lock, a value or a signal gets to use it.  So does a  *)
(* task whose sleep is over, unless the scheduler has been asked to sleep  *)
(* for a negative time (the case of SleepersRun).                          *)
ReadyTasksRun ==
  \A t \in Task :
    /\ OnRunQueue(t) > 0 ~> RunsOrEnds(t)
    /\ DoneSleeping(t) ~> (RunsOrEnds(t) \/ until = Forever)

(* "Add tasks that are done sleeping to the end of the runqueue so they    *)
(* will be executed soon." (scheduler.go).  But only one expired timer is  *)
(* taken per turn of the loop; when nothing is to run and the next one has *)
(* expired too, the time left is negative, and sleepTicks of WASI turns it *)
(* into hundreds of years, for the sleepers as well.                       *)
SleepersRun == \A t \in Task : DoneSleeping(t) ~> RunsOrEnds(t)

(* For the sync package channels, sleeps and timers are only other places  *)
(* where tasks pause: what holds of its clients in general holds here.     *)
Sync == INSTANCE SyncClients WITH
  parked <- {t \in Task : Waiting(t) \/ \E s \in Range(sleepQueue) : s.task = t}

UsesSyncAsClient == Sync!ClientsSpec
=============================================================================
