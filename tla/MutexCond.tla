----------------------------- MODULE MutexCond ------------------------------
(***************************************************************************)
(* sync.Mutex and a sync.Cond over it.  mstage is where a task is:         *)
(*   work       outside the lock                                           *)
(*   critical   it holds the lock                                          *)
(*   locking    in Lock, paused or about to be resumed with the lock       *)
(*   released   in Wait, between Unlock of the Locker and the test of      *)
(*              early.signaled                                             *)
(*   waiting    in Wait, paused or resumed by a signal                     *)
(*   relock     in Wait, about to run the deferred Lock                    *)
(* Cond takes any Locker; one whose Unlock pauses is allowed for, since    *)
(* the early signals exist for it.                                         *)
(***************************************************************************)
EXTENDS TaskScheduler

VARIABLES
  locked,       \* Mutex.locked
  mblocked,     \* Mutex.blocked, top first
  unlocking,    \* Cond.unlocking: the tasks whose frames are on it
  signaled,     \* the tasks whose early.signaled is set
  cblocked,     \* Cond.blocked, top first
  mstage

mutexVars == <<locked, mblocked, unlocking, signaled, cblocked, mstage>>

MutexInit ==
  /\ locked = FALSE
  /\ mblocked = << >>
  /\ unlocking = << >>
  /\ signaled = {}
  /\ cblocked = << >>
  /\ mstage = [t \in Task |-> "work"]

At(t, s) == Runs(t) /\ mstage[t] = s

To(t, s) == mstage' = [mstage EXCEPT ![t] = s]

(* Inside Wait, where the task can make no other call.                     *)
InWait(t) == mstage[t] \in {"released", "relock"}

(* A task resumed in Lock has been given the lock by Unlock.               *)
MutexResumes ==
  /\ mstage' = [mstage EXCEPT ![current'] = IF @ = "locking" THEN "critical"
                                            ELSE IF @ = "waiting" THEN "relock"
                                            ELSE @]
  /\ UNCHANGED <<locked, mblocked, unlocking, signaled, cblocked>>

(* Mutex.Lock.                                                             *)
LockBlocks(t) ==
  /\ locked
  /\ mblocked' = <<t>> \o mblocked
  /\ PausesTask
  /\ To(t, "locking")
  /\ UNCHANGED locked

LockSucceeds(t) ==
  /\ ~locked
  /\ locked' = TRUE
  /\ GoesOn(<< >>)
  /\ To(t, "critical")
  /\ UNCHANGED mblocked

Lock(t) ==
  /\ At(t, "work") /\ Calls(t)
  /\ LockBlocks(t) \/ LockSucceeds(t)
  /\ UNCHANGED <<unlocking, signaled, cblocked>>

(* Mutant: locked is cleared although the lock is handed on.               *)
ReleasedFrees ==
  [locked |-> FALSE,
   woken |-> IF mblocked = << >> THEN << >> ELSE <<Head(mblocked)>>]

(* Mutex.Unlock hands the lock to the task it wakes.                       *)
Released ==
  [locked |-> mblocked # << >>,
   woken |-> IF mblocked = << >> THEN << >> ELSE <<Head(mblocked)>>]

Unlocks ==
  /\ locked' = Released.locked
  /\ mblocked' = IF mblocked = << >> THEN << >> ELSE Tail(mblocked)

Unlock(t) ==
  /\ At(t, "critical")
  /\ Unlocks
  /\ GoesOn(Released.woken)
  /\ To(t, "work")
  /\ UNCHANGED <<unlocking, signaled, cblocked, calls>>

UnlockPanics(t) ==
  /\ At(t, "work") /\ Calls(t)
  /\ ~locked
  /\ Panics("unlock of unlocked Mutex")
  /\ UNCHANGED mutexVars

-----------------------------------------------------------------------------
(* The list s with the frame of t unlinked.                                *)
Without(s, t) ==
  LET k == CHOOSE n \in 1 .. Len(s) : s[n] = t
  IN  SubSeq(s, 1, k - 1) \o SubSeq(s, k + 1, Len(s))

(* Cond.Wait up to the end of the Locker's Unlock, which may pause.        *)
WaitReleases(t) ==
  /\ At(t, "critical") /\ Calls(t)
  /\ unlocking' = <<t>> \o unlocking
  /\ Unlocks
  /\ \/ GoesOn(Released.woken)
     \/ YieldsTask(t, Released.woken)
  /\ To(t, "released")
  /\ UNCHANGED <<signaled, cblocked>>

(* The rest of Wait: an early signal ends it, otherwise it blocks.         *)
WaitSignaled(t) ==
  /\ At(t, "released") /\ t \in signaled
  /\ signaled' = signaled \ {t}
  /\ To(t, "relock")
  /\ GoesOn(<< >>)
  /\ UNCHANGED <<locked, mblocked, unlocking, cblocked, calls>>

WaitBlocks(t) ==
  /\ At(t, "released") /\ t \notin signaled
  /\ unlocking' = Without(unlocking, t)
  /\ cblocked' = <<t>> \o cblocked
  /\ PausesTask
  /\ To(t, "waiting")
  /\ UNCHANGED <<locked, mblocked, signaled, calls>>

(* The deferred Lock.                                                      *)
WaitRelocks(t) ==
  /\ At(t, "relock")
  /\ LockBlocks(t) \/ LockSucceeds(t)
  /\ UNCHANGED <<unlocking, signaled, cblocked, calls>>

(* trySignal: a blocked task first, then one that is unlocking.            *)
Signal(t) ==
  /\ mstage[t] \in {"work", "critical"} /\ Calls(t)
  /\ \/ /\ cblocked # << >>
        /\ cblocked' = Tail(cblocked)
        /\ GoesOn(<<Head(cblocked)>>)
        /\ UNCHANGED <<unlocking, signaled>>
     \/ /\ cblocked = << >> /\ unlocking # << >>
        /\ signaled' = signaled \cup {Head(unlocking)}
        /\ unlocking' = Tail(unlocking)
        /\ GoesOn(<< >>)
        /\ UNCHANGED cblocked
     \/ /\ cblocked = << >> /\ unlocking = << >>
        /\ GoesOn(<< >>)
        /\ UNCHANGED <<unlocking, signaled, cblocked>>
  /\ UNCHANGED <<locked, mblocked, mstage>>

(* Mutant: only tasks that have paused are woken.                          *)
BroadcastForgetsUnlocking(t) ==
  /\ mstage[t] \in {"work", "critical"} /\ Calls(t)
  /\ GoesOn(cblocked)
  /\ cblocked' = << >>
  /\ UNCHANGED <<locked, mblocked, unlocking, signaled, mstage>>

(* Broadcast signals until there is nothing to signal.                     *)
Broadcast(t) ==
  /\ mstage[t] \in {"work", "critical"} /\ Calls(t)
  /\ GoesOn(cblocked)
  /\ cblocked' = << >>
  /\ signaled' = signaled \cup Range(unlocking)
  /\ unlocking' = << >>
  /\ UNCHANGED <<locked, mblocked, mstage>>

-----------------------------------------------------------------------------
MutexCalls(t) ==
  \/ Lock(t) \/ Unlock(t) \/ UnlockPanics(t)
  \/ WaitReleases(t) \/ WaitSignaled(t) \/ WaitBlocks(t) \/ WaitRelocks(t)
  \/ Signal(t) \/ Broadcast(t)

-----------------------------------------------------------------------------
(* The task that has the lock: it is in its critical section, or Unlock    *)
(* has handed it the lock and it has not been resumed yet.                 *)
Owners == {t \in Task : \/ mstage[t] = "critical"
                        \/ mstage[t] = "locking" /\ Times(t, mblocked) = 0}

(* Mutual exclusion: locked says whether a task has the lock, and never    *)
(* two have it, through the hand-over in Unlock and the unlock and lock    *)
(* inside Wait.  Nobody waits for a lock that nobody has.                  *)
LockHasOneOwner ==
  /\ Cardinality(Owners) <= 1
  /\ locked <=> Owners # {}
  /\ mblocked # << >> => locked

(* A Broadcast reaches every task that has begun to Wait, also one that is *)
(* still unlocking: none is left to block for a later signal.              *)
BroadcastReachesAll ==
  [][(\E t \in Task : Broadcast(t)) =>
       \A t \in Task : /\ mstage[t] = "waiting" => OnRunQueue(t)' = 1
                       /\ mstage[t] = "released" => t \in signaled']_<<mutexVars, runqueue>>
=============================================================================
