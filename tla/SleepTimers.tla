----------------------------- MODULE SleepTimers ----------------------------
(***************************************************************************)
(* Time in TinyGo's scheduler: the sleep queue, in which each task stores  *)
(* the delay after the one before it, the timer queue with absolute times, *)
(* and the loop of scheduler() that serves both, as it is on WASI, where   *)
(* asyncScheduler is false.  Time passes between any two steps, so the now *)
(* of the loop may be old when it is used.                                 *)
(*                                                                         *)
(* The channel of a timer is a channel of Channels.                        *)
(***************************************************************************)
EXTENDS Channels, FiniteSetsExt

CONSTANTS
  Timer,
  TimerChan,    \* the channel C of each timer
  Period,       \* the period of each timer, 0 unless it is a ticker
  Durations,    \* what Sleep is called with
  Timeouts,     \* what the timers are made with
  MaxClock,     \* bound: nothing begins to wait after this time
  Forever       \* model value: a time in some hundred years

ASSUME SleepAssumption ==
  /\ TimerChan \in [Timer -> Chan]
  /\ Period \in [Timer -> Nat]
  /\ Durations \subseteq Nat \ {0} /\ Timeouts \subseteq Nat \ {0}
  /\ MaxClock \in Nat

VARIABLES
  clock,
  now,          \* the scheduler's variable
  until,        \* when sleepTicks returns, 0 outside it
  sleepQueue,   \* records of a task, its Data and, as history, the time at
                \* which it asked to go on
  base,         \* sleepQueueBaseTime
  timerQueue,
  when          \* timer.when, 0 before the timer is made

sleepVars == <<clock, now, until, sleepQueue, base, timerQueue, when>>

timerVars == <<timerQueue, when>>

SleepInit ==
  /\ clock = 0 /\ now = 0 /\ until = 0 /\ base = 0
  /\ sleepQueue = << >>
  /\ timerQueue = << >>
  /\ when = [m \in Timer |-> 0]

(* How many of the first entries of a queue of n satisfy Passed: where a   *)
(* loop that stops at the first other entry inserts.                       *)
Prefix(n, Passed(_)) == Cardinality({i \in 1 .. n : \A j \in 1 .. i : Passed(j)})

(* The delay of the i-th sleeper after the base time.                      *)
Delay(q, i) == SumFunctionOnSet([j \in 1 .. Len(q) |-> q[j].data], 1 .. i)

Insert(q, k, x) == SubSeq(q, 1, k) \o <<x>> \o SubSeq(q, k + 1, Len(q))

-----------------------------------------------------------------------------
(* Time.  The bound is lifted while somebody's sleep is under way.         *)
Tick ==
  /\ panic = "" /\ ~schedulerDone /\ LoopHead = "top"
  /\ \/ clock < MaxClock
     \/ pc = "ticks" /\ until # Forever /\ sleepQueue # << >> /\ clock < until
  /\ clock' = clock + 1
  /\ UNCHANGED <<taskVars, w, now, until, sleepQueue, base, timerVars>>

BeginsToWait(t) == Calls(t) /\ clock < MaxClock

(* The entry of a task that sleeps from now on.                            *)
Sleeper(t, data, duration) ==
  [task |-> t, data |-> data, wake |-> clock + duration]

(* Mutant: the delay of those before is not subtracted.                    *)
AddSleepWhole(t, duration) ==
  LET k == Prefix(Len(sleepQueue), LAMBDA i : Delay(sleepQueue, i) <= duration)
  IN  sleepQueue' = Insert(sleepQueue, k,
                           Sleeper(t, duration - Delay(sleepQueue, k), duration))

(* The insertion of addSleepTask: who follows has its delay cut.           *)
AddSleep(t, duration) ==
  LET k == Prefix(Len(sleepQueue), LAMBDA i : Delay(sleepQueue, i) <= duration)
      d == duration - Delay(sleepQueue, k)
      cut == [i \in 1 .. Len(sleepQueue) |->
                IF i = k + 1 THEN [sleepQueue[i] EXCEPT !.data = @ - d]
                ELSE sleepQueue[i]]
  IN  sleepQueue' = Insert(cut, k, Sleeper(t, d, duration))

Sleep(t, duration) ==
  /\ BeginsToWait(t)
  /\ base' = IF sleepQueue = << >> THEN clock ELSE base
  /\ AddSleep(t, duration)
  /\ PausesTask
  /\ UNCHANGED <<w, clock, now, until, timerVars>>

-----------------------------------------------------------------------------
(* Timers.                                                                 *)

(* addTimer, for a queue q and new times.                                  *)
AddTimer(q, m, times) ==
  Insert(q, Prefix(Len(q), LAMBDA i : times[q[i]] <= times[m]), m)

RemoveTimer(m) ==
  LET k == Prefix(Len(timerQueue), LAMBDA i : timerQueue[i] # m)
  IN  SubSeq(timerQueue, 1, k) \o SubSeq(timerQueue, k + 2, Len(timerQueue))

(* NewTimer, NewTicker.                                                    *)
StartTimer(t, m, duration) ==
  /\ BeginsToWait(t) /\ when[m] = 0
  /\ when' = [when EXCEPT ![m] = clock + duration]
  /\ timerQueue' = AddTimer(timerQueue, m, when')
  /\ GoesOn(<< >>)
  /\ UNCHANGED <<w, clock, now, until, sleepQueue, base>>

StopTimer(t, m) ==
  /\ Calls(t) /\ when[m] # 0
  /\ timerQueue' = RemoveTimer(m)
  /\ GoesOn(<< >>)
  /\ UNCHANGED <<w, clock, now, until, sleepQueue, base, when>>

(* resetTimer sets when while the timer may be queued under its old time.  *)
ResetTimer(t, m, duration) ==
  /\ BeginsToWait(t) /\ when[m] # 0
  /\ when' = [when EXCEPT ![m] = clock + duration]
  /\ timerQueue' = AddTimer(RemoveTimer(m), m, when')
  /\ GoesOn(<< >>)
  /\ UNCHANGED <<w, clock, now, until, sleepQueue, base>>

(* A receive from the channel of a timer.                                  *)
ReceiveTime(t, m) ==
  /\ when[m] # 0
  /\ chanRecv(t, TimerChan[m])
  /\ UNCHANGED sleepVars

TimeCalls(t) ==
  \/ "sleep" \in uses /\ \E d \in Durations : Sleep(t, d)
  \/ /\ "timer" \in uses
     /\ \E m \in Timer :
          \/ \E d \in Timeouts : StartTimer(t, m, d) \/ ResetTimer(t, m, d)
          \/ StopTimer(t, m)
          \/ ReceiveTime(t, m)

-----------------------------------------------------------------------------
(* The loop of scheduler().                                                *)

Loop(here, next) ==
  /\ InLoop
  /\ pc = here /\ pc' = next
  /\ UNCHANGED <<current, done, panic, uses, calls>>

WakesSleeper(time) == sleepQueue # << >> /\ time - base >= Head(sleepQueue).data

(* One sleeper whose time has come goes to the run queue.                  *)
Awake ==
  /\ Loop("top", "timers")
  /\ now' = clock
  /\ WakesSleeper(clock)
  /\ base' = base + Head(sleepQueue).data
  /\ sleepQueue' = Tail(sleepQueue)
  /\ runqueue' = Append(runqueue, Head(sleepQueue).task)
  /\ UNCHANGED <<w, clock, until, timerVars>>

NoneAwake ==
  /\ Loop("top", "timers")
  /\ now' = IF sleepQueue # << >> \/ timerQueue # << >> THEN clock ELSE now
  /\ ~WakesSleeper(now')
  /\ UNCHANGED <<runqueue, w, clock, until, sleepQueue, base, timerVars>>

(* sendTime of the time package: a select with a default that sends the    *)
(* time, whose value is left out.                                          *)
SendTime(m) ==
  LET x == TrySend(w, TimerChan[m], Zero).w
  IN  /\ w' = [x EXCEPT !.woken = << >>]
      /\ runqueue' = runqueue \o x.woken

(* The first timer, when it has expired; a ticker is queued again, for a   *)
(* time that may have passed as well.                                      *)
TimerFires ==
  /\ Loop("timers", "pop")
  /\ timerQueue # << >> /\ now >= when[Head(timerQueue)]
  /\ LET m == Head(timerQueue)
     IN  /\ SendTime(m)
         /\ IF Period[m] = 0
            THEN timerQueue' = Tail(timerQueue) /\ UNCHANGED when
            ELSE /\ when' = [when EXCEPT ![m] = @ + Period[m]]
                 /\ timerQueue' = AddTimer(Tail(timerQueue), m, when')
  /\ UNCHANGED <<clock, now, until, sleepQueue, base>>

NoTimerFires ==
  /\ Loop("timers", "pop")
  /\ timerQueue # << >> => now < when[Head(timerQueue)]
  /\ UNCHANGED <<runqueue, w, sleepVars>>

(* How long to sleep: until the first sleeper or the first timer is due.   *)
TimeLeft ==
  Min((IF sleepQueue = << >> THEN {} ELSE {Head(sleepQueue).data - (now - base)})
      \cup (IF timerQueue = << >> THEN {} ELSE {when[Head(timerQueue)] - now}))

(* sleepTicks converts the time left to uint64, and so a negative time to  *)
(* some hundred years.                                                     *)
SleepTicks(left) == IF left >= 0 THEN clock + left ELSE Forever

(* Nothing to run, nobody sleeps and no timer is set.                      *)
WaitForEvents ==
  /\ InLoop /\ pc = "pop"
  /\ runqueue = << >> /\ sleepQueue = << >> /\ timerQueue = << >>
  /\ Panics("deadlocked: no event source")
  /\ UNCHANGED <<calls, w, sleepVars>>

(* Nothing to run, but somebody sleeps or a timer is set.                  *)
Idle ==
  /\ Loop("pop", "ticks")
  /\ runqueue = << >>
  /\ sleepQueue # << >> \/ timerQueue # << >>
  /\ until' = SleepTicks(TimeLeft)
  /\ UNCHANGED <<runqueue, w, clock, now, sleepQueue, base, timerVars>>

(* poll_oneoff returns, and the loop goes on.                              *)
TicksEnd ==
  /\ Loop("ticks", "top")
  /\ until # Forever /\ clock >= until
  /\ until' = 0
  /\ UNCHANGED <<runqueue, w, clock, now, sleepQueue, base, timerVars>>

LoopSteps ==
  \/ Tick
  \/ Awake \/ NoneAwake \/ TimerFires \/ NoTimerFires
  \/ WaitForEvents \/ Idle \/ TicksEnd

-----------------------------------------------------------------------------
(* The delays in the sleep queue stay consistent under every insertion:    *)
(* none underflows its uint64, and each sleeper comes due, by the delays   *)
(* of those before it, no later than it asked for.                         *)
DueWhenAsked ==
  \A i \in 1 .. Len(sleepQueue) :
    /\ sleepQueue[i].data >= 0
    /\ base + Delay(sleepQueue, i) <= sleepQueue[i].wake

(* The timer queue is ordered by time and has no timer twice, although     *)
(* tickers and resetTimer change the time of a timer in place.             *)
TimersInOrder ==
  \A i, j \in 1 .. Len(timerQueue) :
    i < j => /\ timerQueue[i] # timerQueue[j]
             /\ when[timerQueue[i]] <= when[timerQueue[j]]

(* Both queues of the scheduler are in the order of time.                  *)
TimeQueuesInOrder == DueWhenAsked /\ TimersInOrder

(* "a sleep queue with sleeping goroutines in order of when they should be *)
(* re-activated" (scheduler.go).  It is not: a sleeper that joins others   *)
(* is placed as if it had called Sleep at the base time of the queue.      *)
SleepersInOrder ==
  \A i, j \in 1 .. Len(sleepQueue) :
    i < j => sleepQueue[i].wake <= sleepQueue[j].wake

DoneSleeping(t) == \E s \in Range(sleepQueue) : s.task = t /\ clock >= s.wake
=============================================================================
