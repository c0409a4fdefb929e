------------------------------- MODULE RWLock -------------------------------
(***************************************************************************)
(* sync.RWMutex.  rwstage is where a task is: work, reading and writing    *)
(* with the lock held, rlocking and wlocking inside RLock and Lock.        *)
(***************************************************************************)
EXTENDS TaskScheduler

CONSTANT MaxReaders   \* rwMutexMaxReaders, 2^32 - 2

(* There are never as many as 2^32 tasks: with the writer, at most         *)
(* MaxReaders + 1, so that those which Unlock lets in can be counted.      *)
ASSUME RWAssumption ==
  /\ MaxReaders \in Nat \ {0}
  /\ Cardinality(Task) <= MaxReaders + 1

VARIABLES
  state,            \* RWMutex.state
  waitingWriters,   \* top first
  waitingReaders,   \* top first
  rwstage

rwVars == <<state, waitingWriters, waitingReaders, rwstage>>

Unlocked == 0

WLocked == MaxReaders + 1

RWInit ==
  /\ state = Unlocked
  /\ waitingWriters = << >>
  /\ waitingReaders = << >>
  /\ rwstage = [t \in Task |-> "work"]

RWAt(t, s) == Runs(t) /\ rwstage[t] = s

RWTo(t, s) == rwstage' = [rwstage EXCEPT ![t] = s]

(* A task resumed in Lock or RLock has been given the lock.                *)
RWResumes ==
  /\ rwstage' = [rwstage EXCEPT ![current'] = IF @ = "rlocking" THEN "reading"
                                              ELSE IF @ = "wlocking" THEN "writing"
                                              ELSE @]
  /\ UNCHANGED <<state, waitingWriters, waitingReaders>>

RLockTooMany(t) ==
  /\ RWAt(t, "work") /\ Calls(t)
  /\ state = MaxReaders
  /\ Panics("too many readers")
  /\ UNCHANGED rwVars

RLockBlocks(t) ==
  /\ RWAt(t, "work") /\ Calls(t)
  /\ state = WLocked
  /\ waitingReaders' = <<t>> \o waitingReaders
  /\ PausesTask
  /\ RWTo(t, "rlocking")
  /\ UNCHANGED <<state, waitingWriters>>

RLockSucceeds(t) ==
  /\ RWAt(t, "work") /\ Calls(t)
  /\ state # WLocked /\ state # MaxReaders
  /\ state' = state + 1
  /\ GoesOn(<< >>)
  /\ RWTo(t, "reading")
  /\ UNCHANGED <<waitingWriters, waitingReaders>>

WLock(t) ==
  /\ RWAt(t, "work") /\ Calls(t)
  /\ \/ /\ state = Unlocked
        /\ state' = WLocked
        /\ GoesOn(<< >>)
        /\ RWTo(t, "writing")
        /\ UNCHANGED waitingWriters
     \/ /\ state # Unlocked
        /\ waitingWriters' = <<t>> \o waitingWriters
        /\ PausesTask
        /\ RWTo(t, "wlocking")
        /\ UNCHANGED state
  /\ UNCHANGED waitingReaders

(* maybeUnblockWriter, when a writer waits.                                *)
UnblockWriter ==
  /\ waitingWriters # << >>
  /\ state' = WLocked
  /\ waitingWriters' = Tail(waitingWriters)
  /\ GoesOn(<<Head(waitingWriters)>>)
  /\ UNCHANGED waitingReaders

NoWriter ==
  /\ waitingWriters = << >>
  /\ state' = Unlocked
  /\ GoesOn(<< >>)
  /\ UNCHANGED <<waitingWriters, waitingReaders>>

(* maybeUnblockReaders, when a reader waits: all of them get the lock.     *)
UnblockReaders ==
  /\ waitingReaders # << >>
  /\ state' = Len(waitingReaders)
  /\ waitingReaders' = << >>
  /\ GoesOn(waitingReaders)
  /\ UNCHANGED waitingWriters

(* Mutant: a writer that leaves wakes readers only.                        *)
WUnlockDropsWriters(t) ==
  /\ RWAt(t, "writing")
  /\ \/ UnblockReaders
     \/ waitingReaders = << >> /\ state' = Unlocked /\ GoesOn(<< >>)
        /\ UNCHANGED <<waitingWriters, waitingReaders>>
  /\ RWTo(t, "work")
  /\ UNCHANGED calls

WUnlock(t) ==
  /\ RWAt(t, "writing")
  /\ \/ UnblockReaders
     \/ waitingReaders = << >> /\ (UnblockWriter \/ NoWriter)
  /\ RWTo(t, "work")
  /\ UNCHANGED calls

(* RUnlock: the last reader lets a writer in.                              *)
RUnlock(t) ==
  /\ RWAt(t, "reading")
  /\ \/ state = 1 /\ (UnblockWriter \/ NoWriter)
     \/ /\ state # 1
        /\ state' = state - 1
        /\ GoesOn(<< >>)
        /\ UNCHANGED <<waitingWriters, waitingReaders>>
  /\ RWTo(t, "work")
  /\ UNCHANGED calls

(* Unlock and RUnlock of a lock that is not held in that way.              *)
UnlockMisused(t) ==
  /\ RWAt(t, "work") /\ Calls(t)
  /\ \/ state # WLocked /\ Panics("Unlock without the write lock")
     \/ state \in {Unlocked, WLocked} /\ Panics("RUnlock without a read lock")
  /\ UNCHANGED rwVars

RWCalls(t) ==
  \/ RLockTooMany(t) \/ RLockBlocks(t) \/ RLockSucceeds(t) \/ RUnlock(t)
  \/ WLock(t) \/ WUnlock(t) \/ UnlockMisused(t)

-----------------------------------------------------------------------------
(* The tasks that have the lock, also when they have yet to be resumed.    *)
Readers == {t \in Task : \/ rwstage[t] = "reading"
                         \/ rwstage[t] = "rlocking" /\ Times(t, waitingReaders) = 0}

Writers == {t \in Task : \/ rwstage[t] = "writing"
                         \/ rwstage[t] = "wlocking" /\ Times(t, waitingWriters) = 0}

(* "Iff the mutex is completely unlocked, it contains                      *)
(* rwMutexStateUnlocked"; iff write-locked rwMutexStateWLocked; else the   *)
(* number of readers.  So readers and writers exclude one another, and the *)
(* number of readers is never taken for the write lock.                    *)
StateCountsOwners ==
  /\ Cardinality(Writers) <= 1
  /\ Writers # {} => Readers = {}
  /\ Cardinality(Readers) # WLocked
  /\ state = IF Writers # {} THEN WLocked ELSE Cardinality(Readers)

(* Nobody waits for a lock that nobody has, and readers wait only for a    *)
(* writer.                                                                 *)
WaitersHaveReason ==
  /\ waitingReaders # << >> => Writers # {}
  /\ waitingWriters # << >> => Writers \cup Readers # {}
=============================================================================
