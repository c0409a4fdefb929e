---------------------------- MODULE EffectsQueue ----------------------------
(***************************************************************************)
(* The queue that effects.pl splices into a TinyGo module: a WebAssembly   *)
(* table of continuations with two indices.  It grows by QDelta when it is *)
(* full and little has been consumed, and is compacted otherwise.          *)
(*                                                                         *)
(* table.grow may fail; effects.pl drops its result, so the table.set that *)
(* follows is then out of bounds and traps.  "limit" is the size that the  *)
(* engine does not go beyond, one of TableLimits.                          *)
(***************************************************************************)
EXTENDS Integers, FiniteSets

CONSTANTS
  Cont,        \* continuations of type $asyncify_resume_cont
  None,        \* ref.null
  QDelta,      \* the global $qdelta
  TableLimits  \* the sizes up to which table.grow may succeed

ASSUME QueueAssumption ==
  /\ None \notin Cont
  /\ IsFiniteSet(Cont)
  /\ QDelta \in Nat \ {0}
  /\ TableLimits \subseteq Nat

VARIABLES
  table,    \* the table $queue, a function of 0 .. size-1
  size,     \* table.size
  qfront,   \* index of the oldest entry
  qback,    \* index after the newest entry
  got,      \* what the last $dequeue returned
  limit,    \* the engine's limit on the size
  status    \* "ok", or "trap" once a table access was out of bounds

queueVars == <<table, size, qfront, qback, got, limit, status>>

QueueInit ==
  /\ table = [i \in 0 .. -1 |-> None]
  /\ size = 0
  /\ qfront = 0
  /\ qback = 0
  /\ got = None
  /\ limit \in TableLimits
  /\ status = "ok"

QueueEmpty == qfront = qback

(* The continuations that are queued.                                      *)
Queued == {table[i] : i \in qfront .. qback - 1}

-----------------------------------------------------------------------------
(* Mutant: the back is taken.                                              *)
DequeueNewest ==
  /\ status = "ok"
  /\ ~QueueEmpty
  /\ got' = table[qback - 1]
  /\ table' = [table EXCEPT ![qback - 1] = None]
  /\ qback' = qback - 1
  /\ UNCHANGED <<size, qfront, limit, status>>

Dequeue ==
  /\ status = "ok"
  /\ ~QueueEmpty
  /\ got' = table[qfront]
  /\ qfront' = qfront + 1
  /\ UNCHANGED <<table, size, qback, limit, status>>

DequeueEmpty ==
  /\ status = "ok"
  /\ QueueEmpty
  /\ got' = None
  /\ UNCHANGED <<table, size, qfront, qback, limit, status>>

-----------------------------------------------------------------------------
(* The three ways through $enqueue.  Each stores the continuation at the   *)
(* back it has computed and advances the back.                             *)

EnqueueFits(k) ==
  /\ qback # size
  /\ table' = [table EXCEPT ![qback] = k]
  /\ qback' = qback + 1
  /\ UNCHANGED <<size, qfront, got, limit, status>>

(* Mutant: a full table always grows.                                      *)
GrowAlways == TRUE

GrowThreshold == qfront < QDelta

EnqueueGrow(k) ==
  /\ qback = size
  /\ GrowThreshold
  /\ size + QDelta <= limit
  /\ size' = size + QDelta
  /\ table' = [i \in 0 .. size + QDelta - 1 |->
                 IF i < size THEN table[i] ELSE IF i = qback THEN k ELSE None]
  /\ qback' = qback + 1
  /\ UNCHANGED <<qfront, got, limit, status>>

(* table.grow returned -1: the table.set of $enqueue is out of bounds.     *)
EnqueueTrap ==
  /\ qback = size
  /\ GrowThreshold
  /\ size + QDelta > limit
  /\ status' = "trap"
  /\ UNCHANGED <<table, size, qfront, qback, got, limit>>

(* Mutant: no table.fill after the table.copy.                             *)
EnqueueCompactLeaky(k) ==
  /\ qback = size
  /\ ~GrowThreshold
  /\ LET back == qback - qfront IN
       /\ table' = [i \in 0 .. size - 1 |->
                      IF i < back THEN table[qfront + i]
                      ELSE IF i = back THEN k ELSE table[i]]
       /\ qback' = back + 1
  /\ qfront' = 0
  /\ UNCHANGED <<size, got, limit, status>>

EnqueueCompact(k) ==
  /\ qback = size
  /\ ~GrowThreshold
  /\ LET back == qback - qfront IN
       /\ table' = [i \in 0 .. size - 1 |->
                      IF i < back THEN table[qfront + i]
                      ELSE IF i = back THEN k ELSE None]
       /\ qback' = back + 1
  /\ qfront' = 0
  /\ UNCHANGED <<size, got, limit, status>>

Enqueue(k) ==
  /\ status = "ok"
  /\ \/ EnqueueFits(k)
     \/ EnqueueGrow(k)
     \/ EnqueueCompact(k)
     \/ EnqueueTrap

-----------------------------------------------------------------------------
(* A client: it enqueues only continuations it holds, and a continuation   *)
(* that is queued is not also held.                                        *)
QueueNext ==
  \/ \E k \in Cont \ Queued : Enqueue(k)
  \/ Dequeue
  \/ DequeueEmpty
  \/ status = "trap" /\ UNCHANGED queueVars

QueueSpec == QueueInit /\ [][QueueNext]_queueVars

-----------------------------------------------------------------------------
QueueTypeOK ==
  /\ size \in Nat
  /\ table \in [0 .. size - 1 -> Cont \cup {None}]
  /\ qfront \in 0 .. qback
  /\ qback \in 0 .. size
  /\ got \in Cont \cup {None}
  /\ limit \in TableLimits
  /\ status \in {"ok", "trap"}

(* The table is a queue with no holes: the slots between the indices hold  *)
(* continuations, the slots from the back on are null.  The table.fill of  *)
(* $enqueue, "null out old entries to avoid leaks", is what keeps the      *)
(* second part after a compaction.                                         *)
NoHoles ==
  /\ \A i \in qfront .. qback - 1 : table[i] \in Cont
  /\ \A i \in qback .. size - 1 : table[i] = None

(* The queue as a sequence, oldest first.                                  *)
Contents == [i \in 1 .. qback - qfront |-> table[qfront + i - 1]]

Abstract == INSTANCE Fifo WITH Elem <- Cont, queue <- Contents

(* $enqueue and $dequeue implement a first-in first-out queue, whatever    *)
(* growth and compaction do to the indices.                                *)
ImplementsFifo == Abstract!FifoSpec

(* The table never outgrows its use: it is at most two deltas larger than  *)
(* what the continuations in existence need, because it grows only when    *)
(* fewer than QDelta slots at its front are free.  An engine that grants   *)
(* this much never makes $enqueue trap.                                    *)
TableBounded ==
  LET Bound == Cardinality(Cont) + 2 * QDelta - 2 IN
    /\ size # 0 => size <= Bound
    /\ status = "trap" => limit < Bound
=============================================================================
