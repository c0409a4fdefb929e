------------------------- MODULE EffectsQueueProofs -------------------------
(***************************************************************************)
(* The table of effects.pl implements a first-in first-out queue, for      *)
(* every finite set of continuations, every growth step and every limit of *)
(* the engine, and the scheduler around it keeps every goroutine in one    *)
(* place.                                                                  *)
(***************************************************************************)
EXTENDS WasmfxScheduler, FiniteSetTheorems, TLAPS

(* The invariant of the queue alone.                                       *)
QueueInv == QueueTypeOK /\ NoHoles

(* Sequences with equal elements are equal.                                *)
LEMMA SeqEqual ==
  ASSUME NEW S, NEW s \in Seq(S), NEW t \in Seq(S), Len(s) = Len(t),
         \A i \in 1 .. Len(s) : s[i] = t[i]
  PROVE  s = t
  OBVIOUS

(* A sequence with one more element.                                       *)
LEMMA AppendProperties ==
  ASSUME NEW S, NEW s \in Seq(S), NEW x \in S
  PROVE  /\ Append(s, x) \in Seq(S)
         /\ Len(Append(s, x)) = Len(s) + 1 /\ Append(s, x)[Len(s) + 1] = x
         /\ \A i \in 1 .. Len(s) : Append(s, x)[i] = s[i]
  OBVIOUS

(* The first element of a sequence and the others.                         *)
LEMMA HeadTailProperties ==
  ASSUME NEW S, NEW s \in Seq(S), s # << >>
  PROVE  /\ Head(s) \in S /\ Head(s) = s[1]
         /\ Tail(s) \in Seq(S) /\ Len(Tail(s)) = Len(s) - 1
         /\ \A i \in 1 .. Len(s) - 1 : Tail(s)[i] = s[i + 1]
  OBVIOUS

(* A part of a sequence by its elements.                                   *)
LEMMA SubSeqProperties ==
  ASSUME NEW S, NEW s \in Seq(S), NEW m \in 1 .. Len(s) + 1, NEW n \in m - 1 .. Len(s)
  PROVE  /\ SubSeq(s, m, n) \in Seq(S)
         /\ Len(SubSeq(s, m, n)) = n - m + 1
         /\ \A i \in 1 .. n - m + 1 : SubSeq(s, m, n)[i] = s[m + i - 1]
  OBVIOUS

(* Initially the queue is empty and well formed.                           *)
LEMMA QueueInitially == QueueInit => QueueInv
  BY QueueAssumption DEF QueueInit, QueueInv, QueueTypeOK, NoHoles

(* Each operation of the queue keeps it well formed.                       *)
LEMMA QueueStep == QueueInv /\ [QueueNext]_queueVars => QueueInv'
<1> SUFFICES ASSUME QueueInv, [QueueNext]_queueVars PROVE QueueInv'
  OBVIOUS
<1> USE QueueAssumption DEF QueueInv, QueueTypeOK, NoHoles
<1>1. ASSUME NEW k \in Cont, EnqueueFits(k) PROVE QueueInv'
  BY <1>1 DEF EnqueueFits
<1>2. ASSUME NEW k \in Cont, EnqueueGrow(k) PROVE QueueInv'
  BY <1>2 DEF EnqueueGrow, GrowThreshold
<1>3. ASSUME NEW k \in Cont, EnqueueCompact(k) PROVE QueueInv'
  BY <1>3 DEF EnqueueCompact, GrowThreshold
<1>4. CASE EnqueueTrap
  BY <1>4 DEF EnqueueTrap
<1>5. CASE Dequeue
  BY <1>5 DEF Dequeue, QueueEmpty
<1>6. CASE DequeueEmpty
  BY <1>6 DEF DequeueEmpty
<1>7. CASE UNCHANGED queueVars
  BY <1>7 DEF queueVars
<1>8. QED
  BY <1>1, <1>2, <1>3, <1>4, <1>5, <1>6, <1>7 DEF QueueNext, Enqueue

(* The indices stay in range, the entries between them are continuations   *)
(* and the slots behind them are null, after any sequence of $enqueue and  *)
(* $dequeue.                                                               *)
THEOREM QueueWellFormed == QueueSpec => [](QueueTypeOK /\ NoHoles)
<1>1. QueueInv => QueueTypeOK /\ NoHoles
  BY DEF QueueInv
<1>2. QED
  BY QueueInitially, QueueStep, <1>1, PTL DEF QueueSpec

-----------------------------------------------------------------------------
(* The slots of t from f up to b hold continuations.                       *)
Filled(t, f, b) ==
  /\ f \in Nat
  /\ b \in Nat
  /\ f <= b
  /\ \A i \in f .. b - 1 : t[i] \in Cont

(* What they hold, as a sequence.                                          *)
Slice(t, f, b) == [i \in 1 .. b - f |-> t[f + i - 1]]

(* u from g up to c holds what t does from f up to b, and has room for k.  *)
Extends(t, f, b, u, g, c, k) ==
  /\ g \in Nat
  /\ c \in Nat
  /\ c - g = b - f + 1
  /\ \A i \in 1 .. b - f : u[g + i - 1] = t[f + i - 1]
  /\ k \in Cont
  /\ u[c - 1] = k

(* A range of table slots that hold continuations is a sequence of them.   *)
LEMMA SliceType ==
  \A t, f, b : Filled(t, f, b) =>
    /\ Slice(t, f, b) \in Seq(Cont)
    /\ Len(Slice(t, f, b)) = b - f
    /\ \A i \in 1 .. b - f : Slice(t, f, b)[i] = t[f + i - 1]
<1> SUFFICES ASSUME NEW t, NEW f, NEW b, Filled(t, f, b)
    PROVE  /\ Slice(t, f, b) \in Seq(Cont)
           /\ Len(Slice(t, f, b)) = b - f
           /\ \A i \in 1 .. b - f : Slice(t, f, b)[i] = t[f + i - 1]
  OBVIOUS
<1> USE DEF Filled
<1>1. b - f \in Nat
  OBVIOUS
<1>2. \A i \in 1 .. b - f : t[f + i - 1] \in Cont
  OBVIOUS
<1>3. Slice(t, f, b) \in [1 .. b - f -> Cont]
  BY <1>2 DEF Slice
<1>4. QED
  BY <1>1, <1>3 DEF Slice

(* Storing a continuation behind the contents appends it, wherever         *)
(* $enqueue has moved them to.                                             *)
LEMMA SliceAppend ==
  \A t, f, b, u, g, c, k :
    Filled(t, f, b) /\ Extends(t, f, b, u, g, c, k)
      => Slice(u, g, c) = Append(Slice(t, f, b), k)
<1> SUFFICES ASSUME NEW t, NEW f, NEW b, NEW u, NEW g, NEW c, NEW k,
                    Filled(t, f, b), Extends(t, f, b, u, g, c, k)
             PROVE  Slice(u, g, c) = Append(Slice(t, f, b), k)
  OBVIOUS
<1> USE DEF Extends
<1> DEFINE s == Slice(t, f, b)
           a == Append(s, k)
           r == Slice(u, g, c)
<1>0. f \in Nat /\ b \in Nat /\ b - f \in Nat
  BY DEF Filled
<1>1. s \in Seq(Cont) /\ Len(s) = b - f /\ \A i \in 1 .. b - f : s[i] = t[f + i - 1]
  BY SliceType
<1>2. a \in Seq(Cont) /\ Len(a) = b - f + 1
      /\ (\A i \in 1 .. b - f : a[i] = s[i]) /\ a[b - f + 1] = k
  <2> HIDE DEF s
  <2>1. /\ a \in Seq(Cont) /\ Len(a) = Len(s) + 1
        /\ \A i \in 1 .. Len(s) : a[i] = s[i]
        /\ a[Len(s) + 1] = k
    BY <1>1, AppendProperties
  <2> HIDE DEF a
  <2>2. QED
    BY <1>0, <1>1, <2>1
<1>3. Filled(u, g, c)
  <2> USE DEF Filled
  <2> SUFFICES ASSUME NEW j \in g .. c - 1 PROVE u[j] \in Cont
    OBVIOUS
  <2>1. CASE j = c - 1
    BY <2>1
  <2>2. CASE j # c - 1
    <3>1. j - g + 1 \in 1 .. b - f /\ g + (j - g + 1) - 1 = j
      BY <2>2
    <3>2. u[j] = t[f + (j - g + 1) - 1]
      BY <3>1, Zenon
    <3>3. f + (j - g + 1) - 1 \in f .. b - 1
      BY <3>1
    <3>4. QED
      BY <3>2, <3>3
  <2>3. QED
    BY <2>1, <2>2
<1>4. r \in Seq(Cont) /\ Len(r) = c - g /\ \A i \in 1 .. c - g : r[i] = u[g + i - 1]
  <2>1. Slice(u, g, c) \in Seq(Cont) /\ Len(Slice(u, g, c)) = c - g
    <3> HIDE DEF Extends, s, a, r
    <3> QED BY <1>3, SliceType, ZenonT(60)
  <2>3. \A i \in 1 .. c - g : Slice(u, g, c)[i] = u[g + i - 1]
    BY DEF Slice
  <2>4. QED
    BY <2>1, <2>3
<1>5. \A i \in 1 .. c - g : r[i] = a[i]
  <2> HIDE DEF r, a, s
  <2> SUFFICES ASSUME NEW i \in 1 .. c - g PROVE r[i] = a[i]
    OBVIOUS
  <2>0. r[i] = u[g + i - 1]
    BY <1>4
  <2>1. CASE i = b - f + 1
    <3>1. g + i - 1 = c - 1
      BY <1>0, <2>1
    <3>2. r[i] = k
      BY <2>0, <3>1
    <3>3. a[i] = k
      BY <1>2, <2>1
    <3> QED BY <3>2, <3>3
  <2>2. CASE i # b - f + 1
    <3>1. i \in 1 .. b - f
      BY <1>0, <2>2
    <3>2. u[g + i - 1] = t[f + i - 1]
      BY <3>1
    <3>3. a[i] = t[f + i - 1]
      BY <1>1, <1>2, <3>1
    <3> QED BY <2>0, <3>2, <3>3
  <2>3. QED
    BY <2>1, <2>2
<1>6. QED
  <2> HIDE DEF r, a, s
  <2>1. r = a
    BY <1>0, <1>2, <1>4, <1>5, SeqEqual
  <2>2. QED
    BY <2>1 DEF r, a, s

(* Advancing the front takes the head of the contents.                     *)
LEMMA SliceTake ==
  ASSUME NEW t, NEW f, NEW b, Filled(t, f, b), f # b
  PROVE  /\ Slice(t, f, b) # << >>
         /\ Head(Slice(t, f, b)) = t[f]
         /\ Slice(t, f + 1, b) = Tail(Slice(t, f, b))
<1> DEFINE s == Slice(t, f, b)
           r == Slice(t, f + 1, b)
<1>0. Filled(t, f + 1, b) /\ f \in Nat /\ b \in Nat /\ f < b
  BY DEF Filled
<1>1. s \in Seq(Cont) /\ Len(s) = b - f /\ \A i \in 1 .. b - f : s[i] = t[f + i - 1]
  BY SliceType
<1>2. r \in Seq(Cont) /\ Len(r) = b - (f + 1)
      /\ \A i \in 1 .. b - (f + 1) : r[i] = t[(f + 1) + i - 1]
  <2>1. r \in Seq(Cont)
    BY <1>0, SliceType
  <2>2. Len(r) = b - (f + 1)
    BY <1>0, SliceType, Zenon
  <2>3. \A i \in 1 .. b - (f + 1) : r[i] = t[(f + 1) + i - 1]
    BY DEF Slice
  <2>4. QED
    BY <2>1, <2>2, <2>3
<1> HIDE DEF s, r
<1>3. s # << >> /\ Head(s) = s[1]
  BY <1>0, <1>1
<1>4. Tail(s) \in Seq(Cont) /\ Len(Tail(s)) = Len(s) - 1
      /\ \A i \in 1 .. Len(Tail(s)) : Tail(s)[i] = s[i + 1]
  BY <1>1, <1>3, HeadTailProperties
<1>5. Len(r) = Len(Tail(s)) /\ \A i \in 1 .. Len(r) : r[i] = Tail(s)[i]
  <2>1. Len(r) = Len(Tail(s))
    BY <1>0, <1>1, <1>2, <1>4
  <2>2. ASSUME NEW i \in 1 .. Len(r) PROVE r[i] = Tail(s)[i]
    <3>1. i \in 1 .. b - (f + 1) /\ i + 1 \in 1 .. b - f /\ i \in Nat
      BY <1>0, <1>2
    <3>2. r[i] = t[(f + 1) + i - 1] /\ s[i + 1] = t[f + (i + 1) - 1]
      BY <1>1, <1>2, <3>1
    <3>3. (f + 1) + i - 1 = f + (i + 1) - 1
      BY <1>0, <3>1
    <3>4. Tail(s)[i] = s[i + 1]
      BY <1>4, <2>1
    <3>5. QED
      BY <3>2, <3>3, <3>4, Zenon
  <2>3. QED
    BY <2>1, <2>2
<1>6. r = Tail(s)
  BY <1>2, <1>4, <1>5, SeqEqual, Zenon
<1>7. Head(s) = t[f]
  BY <1>0, <1>1, <1>3
<1>8. QED
  BY <1>3, <1>6, <1>7 DEF s, r

(* Each way through $enqueue stores the continuation behind the contents.  *)
LEMMA EnqueueExtends ==
  ASSUME QueueInv, NEW k \in Cont, Enqueue(k), ~EnqueueTrap
  PROVE  Extends(table, qfront, qback, table', qfront', qback', k)
<1> USE QueueAssumption DEF Extends, QueueInv, QueueTypeOK
<1>1. CASE EnqueueFits(k)
  BY <1>1 DEF EnqueueFits
<1>2. CASE EnqueueGrow(k)
  BY <1>2 DEF EnqueueGrow, GrowThreshold
<1>3. CASE EnqueueCompact(k)
  BY <1>3 DEF EnqueueCompact, GrowThreshold
<1>4. QED
  BY <1>1, <1>2, <1>3 DEF Enqueue

(* Every step of the table is a step of the queue it stands for, or leaves *)
(* it unchanged.                                                           *)
LEMMA QueueStepRefines ==
  QueueInv /\ QueueInv' /\ [QueueNext]_queueVars => [Abstract!FifoNext]_(Abstract!fifoVars)
<1> SUFFICES ASSUME QueueInv, QueueInv', [QueueNext]_queueVars
             PROVE  [Abstract!FifoNext]_(Abstract!fifoVars)
  OBVIOUS
<1> USE QueueAssumption
<1>0. /\ Filled(table, qfront, qback)
      /\ Contents = Slice(table, qfront, qback)
      /\ Contents' = Slice(table', qfront', qback')
  BY DEF QueueInv, QueueTypeOK, NoHoles, Contents, Slice, Filled
<1>1. ASSUME NEW k \in Cont, Enqueue(k), ~EnqueueTrap PROVE Abstract!Put(k)
  <2>1. Slice(table', qfront', qback') = Append(Slice(table, qfront, qback), k)
    BY <1>0, <1>1, SliceAppend, EnqueueExtends
  <2>2. got' = got
    BY <1>1 DEF Enqueue, EnqueueFits, EnqueueGrow, EnqueueCompact
  <2>3. QED
    BY <1>0, <2>1, <2>2 DEF Abstract!Put
<1>4. CASE EnqueueTrap
  BY <1>4 DEF EnqueueTrap, Contents, Abstract!fifoVars
<1>5. CASE Dequeue
  BY <1>0, <1>5, SliceTake
     DEF Dequeue, QueueEmpty, Abstract!Take, Abstract!FifoNext
<1>6. CASE DequeueEmpty
  <2>1. Contents = << >>
    BY <1>6 DEF DequeueEmpty, QueueEmpty, Contents, QueueInv, QueueTypeOK
  <2>2. Contents' = Contents
    BY <1>6 DEF DequeueEmpty, Contents
  <2>3. QED
    BY <1>6, <2>1, <2>2 DEF DequeueEmpty, Abstract!TakeNone, Abstract!FifoNext
<1>7. CASE UNCHANGED queueVars
  BY <1>7 DEF queueVars, Contents, Abstract!fifoVars
<1>8. QED
  BY <1>1, <1>4, <1>5, <1>6, <1>7 DEF QueueNext, Abstract!FifoNext

(* $enqueue and $dequeue implement a first-in first-out queue.             *)
THEOREM TableIsFifo == QueueSpec => ImplementsFifo
<1>1. QueueInit => Abstract!FifoInit
  BY DEF QueueInit, Contents, Abstract!FifoInit
<1>2. QED
  BY <1>1, QueueInitially, QueueStep, QueueStepRefines, PTL
     DEF QueueSpec, ImplementsFifo, Abstract!FifoSpec

-----------------------------------------------------------------------------
(* How large the table gets.                                               *)

(* No continuation is queued twice.                                        *)
QueueDistinct ==
  \A i, j \in qfront .. qback - 1 : i # j => table[i] # table[j]

(* The slots from f up to b hold, and hold once each.                      *)
Slots(t, f, b) == {t[i] : i \in f .. b - 1}

(* No two of the slots hold the same.                                      *)
SlotsDistinct(t, f, b) == \A i, j \in f .. b - 1 : i # j => t[i] # t[j]

(* A value stored behind the contents is added to them.                    *)
LEMMA ExtendsAdds ==
  ASSUME NEW t, NEW f \in Nat, NEW b \in Nat, f <= b, NEW u, NEW g, NEW c, NEW k,
         Extends(t, f, b, u, g, c, k), SlotsDistinct(t, f, b), k \notin Slots(t, f, b)
  PROVE  /\ Slots(u, g, c) = Slots(t, f, b) \cup {k}
         /\ SlotsDistinct(u, g, c)
<1>0. g \in Nat /\ c \in Nat
  BY DEF Extends
<1>1. PICK n \in Nat : n = b - f
  OBVIOUS
<1>2. c = g + n + 1 /\ b = f + n
  BY <1>0, <1>1 DEF Extends
<1>3. \A i \in 0 .. n - 1 : u[g + i] = t[f + i]
  <2> SUFFICES ASSUME NEW i \in 0 .. n - 1 PROVE u[g + i] = t[f + i]
    OBVIOUS
  <2>1. i + 1 \in 1 .. b - f /\ f + (i + 1) - 1 = f + i /\ g + (i + 1) - 1 = g + i
    BY <1>0, <1>1
  <2> QED BY <2>1, Zenon DEF Extends
<1>4. u[g + n] = k
  BY <1>0, <1>2 DEF Extends
<1>5. \A i \in g .. c - 1 : i - g \in 0 .. n /\ g + (i - g) = i
  BY <1>0, <1>2
<1>6. \A i \in 0 .. n : g + i \in g .. c - 1 /\ (i \in 0 .. n - 1 \/ i = n)
  BY <1>0, <1>2
<1>7. \A i \in 0 .. n - 1 : f + i \in f .. b - 1 /\ i \in 0 .. n
  BY <1>2
<1>8. \A i \in f .. b - 1 : i - f \in 0 .. n - 1 /\ f + (i - f) = i
  BY <1>2
<1>9. Slots(u, g, c) = Slots(t, f, b) \cup {k}
  <2>1. ASSUME NEW i \in g .. c - 1 PROVE u[i] \in Slots(t, f, b) \cup {k}
    BY <1>3, <1>4, <1>5, <1>6, <1>7 DEF Slots
  <2>2. ASSUME NEW i \in f .. b - 1 PROVE t[i] \in Slots(u, g, c)
    BY <1>3, <1>6, <1>7, <1>8 DEF Slots
  <2>3. k \in Slots(u, g, c)
    BY <1>4, <1>6 DEF Slots
  <2> QED BY <2>1, <2>2, <2>3 DEF Slots
<1>10. ASSUME NEW i \in g .. c - 1, NEW j \in g .. c - 1, i # j PROVE u[i] # u[j]
  <2> DEFINE x == i - g
             y == j - g
  <2>1. x \in 0 .. n /\ y \in 0 .. n /\ g + x = i /\ g + y = j /\ x # y
    BY <1>0, <1>5, <1>10
  <2> HIDE DEF x, y
  <2>2. \A z \in 0 .. n - 1 : t[f + z] # k
    BY <1>7 DEF Slots
  <2>3. CASE x = n \/ y = n
    BY <2>1, <2>2, <2>3, <1>3, <1>4, <1>6
  <2>4. CASE x \in 0 .. n - 1 /\ y \in 0 .. n - 1
    <3>1. f + x # f + y
      BY <2>1
    <3> QED BY <2>1, <2>4, <3>1, <1>3, <1>7 DEF SlotsDistinct
  <2> QED BY <2>1, <2>3, <2>4, <1>6
<1>11. QED
  BY <1>9, <1>10 DEF SlotsDistinct

(* $enqueue adds one continuation to those that are queued, which stay     *)
(* distinct.                                                               *)
LEMMA EnqueueAdds ==
  ASSUME QueueInv, QueueDistinct, NEW k \in Cont \ Queued, Enqueue(k), ~EnqueueTrap
  PROVE  Queued' = Queued \cup {k} /\ QueueDistinct'
<1>1. qfront \in Nat /\ qback \in Nat /\ qfront <= qback
  BY DEF QueueInv, QueueTypeOK
<1>2. Queued = Slots(table, qfront, qback) /\ (QueueDistinct <=> SlotsDistinct(table, qfront, qback))
  BY DEF Queued, Slots, QueueDistinct, SlotsDistinct
<1>3. Queued' = Slots(table', qfront', qback')
      /\ (QueueDistinct' <=> SlotsDistinct(table', qfront', qback'))
  BY DEF Queued, Slots, QueueDistinct, SlotsDistinct
<1>4. QED
  BY <1>1, <1>2, <1>3, EnqueueExtends, ExtendsAdds

(* When a continuation is about to be enqueued, fewer are queued than      *)
(* there are.                                                              *)
LEMMA FewerQueued ==
  ASSUME QueueInv, QueueDistinct, NEW k \in Cont \ Queued
  PROVE  qback - qfront <= Cardinality(Cont) - 1
<1> DEFINE I == qfront .. qback - 1
           f == [i \in I |-> table[i]]
<1>1. qfront \in Nat /\ qback \in Nat /\ qfront <= qback
  BY DEF QueueInv, QueueTypeOK
<1>2. f \in Injection(I, Cont \ {k})
  <2>1. \A i \in I : table[i] \in Cont \ {k}
    BY DEF QueueInv, NoHoles, Queued
  <2>2. f \in [I -> Cont \ {k}]
    BY <2>1
  <2>3. \A a, b \in I : f[a] = f[b] => a = b
    BY DEF QueueDistinct
  <2> HIDE DEF f, I
  <2>4. QED
    BY <2>2, <2>3, Zenon DEF Injection, IsInjective
<1>3. IsFiniteSet(Cont \ {k}) /\ Cardinality(Cont \ {k}) = Cardinality(Cont) - 1
  BY QueueAssumption, FS_RemoveElement
<1>4. Cardinality(I) <= Cardinality(Cont) - 1
  BY <1>2, <1>3, FS_Injection
<1>5. Cardinality(I) = IF qfront > qback - 1 THEN 0 ELSE qback - 1 - qfront + 1
  BY <1>1, FS_Interval
<1>6. QED
  BY <1>1, <1>4, <1>5

(* The invariant of the size of the table.                                 *)
BoundInv == QueueInv /\ QueueDistinct /\ TableBounded

(* Each operation keeps the entries distinct and the table small.          *)
LEMMA BoundStep == BoundInv /\ [QueueNext]_queueVars => BoundInv'
<1> SUFFICES ASSUME BoundInv, [QueueNext]_queueVars PROVE BoundInv'
  OBVIOUS
<1>0. QueueInv /\ QueueDistinct /\ TableBounded /\ QueueInv'
  BY QueueStep DEF BoundInv
<1>1. Cardinality(Cont) \in Nat
  BY QueueAssumption, FS_CardinalityType
<1> DEFINE n == Cardinality(Cont)
<1> HIDE DEF n
<1>2. n \in Nat
  BY <1>1 DEF n
<1>3. TableBounded <=> (/\ size # 0 => size <= n + 2 * QDelta - 2
                        /\ status = "trap" => limit < n + 2 * QDelta - 2)
  BY DEF TableBounded, n
<1>4. TableBounded' <=> (/\ size' # 0 => size' <= n + 2 * QDelta - 2
                         /\ status' = "trap" => limit' < n + 2 * QDelta - 2)
  BY DEF TableBounded, n
<1>5. \A k \in Cont \ Queued : qback - qfront <= n - 1
  BY <1>0, FewerQueued DEF n
<1> USE QueueAssumption DEF QueueInv, QueueTypeOK
<1>6. ASSUME NEW k \in Cont \ Queued, Enqueue(k) PROVE QueueDistinct' /\ TableBounded'
  <2>1. QueueDistinct'
    <3>1. CASE EnqueueTrap
      BY <3>1, <1>0 DEF EnqueueTrap, QueueDistinct
    <3> QED BY <3>1, <1>0, <1>6, EnqueueAdds
  <2>2. CASE EnqueueFits(k)
    BY <2>1, <2>2, <1>0, <1>3, <1>4 DEF EnqueueFits
  <2>3. CASE EnqueueGrow(k)
    <3>1. /\ qback = size /\ qfront < QDelta /\ size' = size + QDelta
          /\ UNCHANGED <<limit, status>>
      BY <2>3 DEF EnqueueGrow, GrowThreshold
    <3>2. qback - qfront <= n - 1
      BY <1>5
    <3>3. size \in Nat /\ qback \in Nat /\ qfront \in Nat /\ QDelta \in Nat
      BY <1>0
    <3>4. size' <= n + 2 * QDelta - 2
      BY <3>1, <3>2, <3>3, <1>2
    <3> QED BY <3>1, <3>4, <1>0, <1>3, <1>4, <2>1
  <2>4. CASE EnqueueCompact(k)
    BY <2>1, <2>4, <1>0, <1>3, <1>4 DEF EnqueueCompact
  <2>5. CASE EnqueueTrap
    BY <2>1, <2>5, <1>0, <1>2, <1>3, <1>4, <1>5 DEF EnqueueTrap, GrowThreshold
  <2> QED BY <1>6, <2>1, <2>2, <2>3, <2>4, <2>5 DEF Enqueue
<1>7. CASE Dequeue
  <2>1. QueueDistinct'
    BY <1>7, <1>0, SMTT(30) DEF Dequeue, QueueDistinct
  <2>2. TableBounded'
    BY <1>7, <1>0, <1>3, <1>4 DEF Dequeue
  <2> QED BY <2>1, <2>2, <1>0, Zenon DEF BoundInv
<1>8. CASE DequeueEmpty
  BY <1>8, <1>0, <1>3, <1>4 DEF DequeueEmpty, QueueDistinct, BoundInv
<1>9. CASE UNCHANGED queueVars
  BY <1>9, <1>0, <1>3, <1>4 DEF queueVars, QueueDistinct, BoundInv
<1>10. QED
  BY <1>0, <1>6, <1>7, <1>8, <1>9, Zenon DEF QueueNext, BoundInv

(* The table is never more than two growth steps larger than the number of *)
(* continuations demands, and an engine that grants this much never makes  *)
(* $enqueue trap, for any threshold and any number of continuations.       *)
THEOREM TableStaysSmall == QueueSpec => []TableBounded
<1>1. QueueInit => BoundInv
  BY QueueInitially DEF QueueInit, BoundInv, QueueDistinct, TableBounded
<1>2. BoundInv => TableBounded
  BY DEF BoundInv
<1>3. QED
  BY <1>1, <1>2, BoundStep, PTL DEF QueueSpec

-----------------------------------------------------------------------------
(* The scheduler that effects.pl generates.                                *)

(* Where a goroutine can be.                                               *)
Places == {"new", "queued", "running", "deadlocked", "unreachable", "returned"}

(* The types of the state of the scheduler.                                *)
SchedTypeOK ==
  /\ active \in Seq(Cont \cup {None})
  /\ goroutine \in [Cont -> Places]
  /\ schedulerDone \in BOOLEAN

(* The goroutines that a chain of activations has resumed.                 *)
OnChain(a) == {a[i] : i \in 1 .. Len(a)} \ {None}

(* A goroutine is on the chain once, and only the last activation is at    *)
(* the head of its loop.                                                   *)
ChainOK(a) ==
  /\ a \in Seq(Cont \cup {None})
  /\ \A i, j \in 1 .. Len(a) : i # j => a[i] # a[j]
  /\ \A i \in 1 .. Len(a) - 1 : a[i] # None

(* OnePlace, and what it takes to preserve it.                             *)
Placed ==
  /\ QueueDistinct
  /\ ChainOK(active)
  /\ \A g \in Cont : g \in Queued <=> goroutine[g] \in {"queued", "deadlocked"}
  /\ \A g \in Cont : g \in OnChain(active) <=> goroutine[g] \in {"running", "unreachable"}

(* Until run has started main there is no activation.                      *)
NotBegun == goroutine[Main] = "new" => active = << >>

(* The invariant of the scheduler.  After a trap only the queue is left.   *)
SchedInv ==
  /\ QueueInv
  /\ SchedTypeOK
  /\ NotBegun
  /\ status = "ok" => Placed

(* The invariant says that a goroutine is in one place.                    *)
LEMMA PlacedIsOnePlace == SchedInv => OnePlace
  BY QueueAssumption DEF SchedInv, OnePlace, Placed, QueueDistinct, ChainOK, OnChain, Top

(* The activation at the head of its loop resumes a goroutine.             *)
LEMMA ChainResume ==
  ASSUME NEW a, ChainOK(a), Len(a) # 0, a[Len(a)] = None, NEW x \in Cont, x \notin OnChain(a)
  PROVE  /\ ChainOK([a EXCEPT ![Len(a)] = x])
         /\ OnChain([a EXCEPT ![Len(a)] = x]) = OnChain(a) \cup {x}
<1> DEFINE b == [a EXCEPT ![Len(a)] = x]
<1>1. /\ Len(a) \in Nat \ {0} /\ b \in Seq(Cont \cup {None}) /\ Len(b) = Len(a)
      /\ b[Len(a)] = x /\ \A i \in 1 .. Len(a) : i # Len(a) => b[i] = a[i]
  BY DEF ChainOK
<1>2. \A i \in 1 .. Len(a) : a[i] # x
  BY QueueAssumption DEF OnChain
<1> HIDE DEF b
<1>3. x # None
  BY QueueAssumption
<1>4. ChainOK(b)
  BY <1>1, <1>2, <1>3 DEF ChainOK
<1>5. \A y : y \in OnChain(b) <=> y \in OnChain(a) \/ y = x
  BY <1>1, <1>3 DEF OnChain
<1>6. QED
  BY <1>4, <1>5, Zenon DEF b

(* The goroutine that the last activation has resumed comes back.          *)
LEMMA ChainBack ==
  ASSUME NEW a, ChainOK(a), Len(a) # 0, NEW x \in Cont, a[Len(a)] = x
  PROVE  /\ ChainOK([a EXCEPT ![Len(a)] = None])
         /\ OnChain([a EXCEPT ![Len(a)] = None]) = OnChain(a) \ {x}
<1> DEFINE b == [a EXCEPT ![Len(a)] = None]
<1>1. /\ Len(a) \in Nat \ {0} /\ b \in Seq(Cont \cup {None}) /\ Len(b) = Len(a)
      /\ b[Len(a)] = None /\ \A i \in 1 .. Len(a) : i # Len(a) => b[i] = a[i]
  BY DEF ChainOK
<1>2. \A i \in 1 .. Len(a) : i # Len(a) => a[i] # x /\ a[i] # None
  <2>1. \A i \in 1 .. Len(a) : i # Len(a) => i \in 1 .. Len(a) - 1
    BY <1>1
  <2>2. Len(a) \in 1 .. Len(a)
    BY <1>1
  <2> QED BY <2>1, <2>2 DEF ChainOK
<1> HIDE DEF b
<1>3. x # None
  BY QueueAssumption
<1>4. ChainOK(b)
  BY <1>1, <1>2, <1>3 DEF ChainOK
<1>5. \A y : y \in OnChain(b) <=> y \in OnChain(a) /\ y # x
  BY <1>1, <1>2, <1>3 DEF OnChain
<1>6. QED
  BY <1>4, <1>5, Zenon DEF b

(* A nested activation begins under a goroutine that runs.                 *)
LEMMA ChainNest ==
  ASSUME NEW a, ChainOK(a), Len(a) # 0, a[Len(a)] # None
  PROVE  ChainOK(Append(a, None)) /\ OnChain(Append(a, None)) = OnChain(a)
<1> DEFINE b == Append(a, None)
<1>1. /\ Len(a) \in Nat \ {0} /\ b \in Seq(Cont \cup {None}) /\ Len(b) = Len(a) + 1
      /\ b[Len(a) + 1] = None /\ \A i \in 1 .. Len(a) : b[i] = a[i]
  BY DEF ChainOK
<1> HIDE DEF b
<1>2. \A i \in 1 .. Len(a) : a[i] # None
  BY <1>1 DEF ChainOK
<1>3. ChainOK(b)
  BY <1>1, <1>2 DEF ChainOK
<1>4. \A y : y \in OnChain(b) <=> y \in OnChain(a)
  BY <1>1 DEF OnChain
<1>5. QED
  BY <1>3, <1>4 DEF b

(* The activation at the head of its loop returns.                         *)
LEMMA ChainEnd ==
  ASSUME NEW a, ChainOK(a), Len(a) # 0, a[Len(a)] = None
  PROVE  /\ ChainOK(SubSeq(a, 1, Len(a) - 1))
         /\ OnChain(SubSeq(a, 1, Len(a) - 1)) = OnChain(a)
<1> DEFINE b == SubSeq(a, 1, Len(a) - 1)
<1>1. /\ Len(a) \in Nat \ {0} /\ b \in Seq(Cont \cup {None}) /\ Len(b) = Len(a) - 1
      /\ \A i \in 1 .. Len(a) - 1 : b[i] = a[i]
  <2>1. PICK n \in Nat : n + 1 = Len(a)
    <3>1. Len(a) \in Nat \ {0}
      BY DEF ChainOK
    <3>2. Len(a) - 1 \in Nat /\ (Len(a) - 1) + 1 = Len(a)
      BY <3>1
    <3> QED BY <3>2, Zenon
  <2>2. Len(a) - 1 = n /\ n \in Int /\ n - 1 + 1 = n
    BY <2>1
  <2>3. \A i \in 1 .. n : a[i] \in Cont \cup {None}
    BY <2>1 DEF ChainOK
  <2>4. /\ SubSeq(a, 1, n) \in Seq(Cont \cup {None})
        /\ Len(SubSeq(a, 1, n)) = IF 1 <= n THEN n - 1 + 1 ELSE 0
        /\ \A i \in 1 .. n - 1 + 1 : SubSeq(a, 1, n)[i] = a[1 + i - 1]
    BY <2>2, <2>3, SubSeqProperties
  <2>5. Len(SubSeq(a, 1, n)) = n
    BY <2>2, <2>4
  <2>6. ASSUME NEW i \in 1 .. n PROVE SubSeq(a, 1, n)[i] = a[i]
    <3>1. i \in 1 .. n - 1 + 1 /\ 1 + i - 1 = i
      BY <2>2
    <3> QED BY <2>4, <3>1
  <2>7. Len(a) \in Nat \ {0}
    BY <2>1
  <2>8. b = SubSeq(a, 1, n)
    BY <2>2
  <2> HIDE DEF b
  <2> QED BY <2>2, <2>4, <2>5, <2>6, <2>7, <2>8
<1> HIDE DEF b
<1>2. ChainOK(b)
  BY <1>1 DEF ChainOK
<1>3. \A y : y \in OnChain(b) <=> y \in OnChain(a)
  BY <1>1 DEF OnChain
<1>4. QED
  BY <1>2, <1>3, Zenon DEF b

(* $dequeue takes one of those that are queued.                            *)
LEMMA DequeueTakes ==
  ASSUME QueueInv, Dequeue, QueueDistinct
  PROVE  got' \in Queued /\ got' \in Cont /\ Queued' = Queued \ {got'} /\ QueueDistinct'
  BY DEF QueueInv, QueueTypeOK, NoHoles, Dequeue, QueueEmpty, Queued, QueueDistinct

(* What is on the queue depends on the table and its indices only.         *)
LEMMA SameQueue ==
  UNCHANGED <<table, qfront, qback>> => Queued' = Queued /\ (QueueDistinct' <=> QueueDistinct)
  BY DEF Queued, QueueDistinct

(* The scheduler is a client the queue expects: what it enqueues is not    *)
(* queued, so its steps are steps of the queue.                            *)
LEMMA SchedulerUsesQueue == SchedInv /\ [SchedNext]_schedVars => [QueueNext]_queueVars
<1> SUFFICES ASSUME SchedInv, [SchedNext]_schedVars PROVE [QueueNext]_queueVars
  OBVIOUS
<1>1. ASSUME NEW g \in Cont, Enqueue(g), goroutine[g] \in {"new", "running", "returned"}
      PROVE  QueueNext
  <2>1. status = "ok"
    BY <1>1 DEF Enqueue
  <2>2. g \notin Queued
    BY <1>1, <2>1 DEF SchedInv, Placed
  <2> QED BY <1>1, <2>2 DEF QueueNext
<1>2. CASE Run
  BY <1>1, <1>2, SchedulerAssumption DEF Run
<1>3. CASE Schedule
  BY <1>3 DEF Schedule, QueueNext
<1>4. CASE ScheduleEnd
  BY <1>4 DEF ScheduleEnd, QueueNext
<1>5. ASSUME NEW g \in Cont, NEW where, Suspend(g, where) PROVE QueueNext
  BY <1>1, <1>5 DEF Suspend
<1>6. ASSUME NEW g \in Cont, Start(g) PROVE QueueNext
  BY <1>1, <1>6 DEF Start
<1>7. QED
  BY <1>2, <1>3, <1>4, <1>5, <1>6
     DEF SchedNext, Gosched, Deadlock, Return, HostCallsScheduler, Go, HostCallsResume,
         SchedStopped, schedVars

(* Each step of the scheduler and of the goroutines keeps every goroutine  *)
(* in one place.                                                           *)
LEMMA SchedStep == SchedInv /\ [SchedNext]_schedVars => SchedInv'
<1> SUFFICES ASSUME SchedInv, [SchedNext]_schedVars PROVE SchedInv'
  OBVIOUS
<1> USE QueueAssumption, SchedulerAssumption
<1>0. /\ QueueInv /\ QueueInv' /\ SchedTypeOK /\ NotBegun
      /\ status = "ok" => Placed
  BY SchedulerUsesQueue, QueueStep DEF SchedInv
<1>1. ASSUME NEW g \in Cont, Enqueue(g), g \notin Queued, QueueDistinct, status' = "ok"
      PROVE  Queued' = Queued \cup {g} /\ QueueDistinct'
  <2>1. ~EnqueueTrap
    BY <1>1 DEF EnqueueTrap
  <2> QED BY <1>0, <1>1, <2>1, EnqueueAdds
<1>2. CASE Run
  <2>1. /\ goroutine[Main] = "new" /\ Enqueue(Main) /\ active' = <<None>>
        /\ goroutine' = [goroutine EXCEPT ![Main] = "queued"] /\ schedulerDone' = schedulerDone
    BY <1>2 DEF Run
  <2>2. status = "ok" /\ Placed /\ active = << >>
    BY <1>0, <2>1 DEF Enqueue, NotBegun
  <2>3. ChainOK(active') /\ OnChain(active') = {} /\ OnChain(active) = {}
    BY <2>1, <2>2 DEF ChainOK, OnChain
  <2>4. Main \notin Queued
    BY <2>1, <2>2 DEF Placed
  <2>5. ASSUME status' = "ok" PROVE Placed'
    <3>1. Queued' = Queued \cup {Main} /\ QueueDistinct'
      BY <1>1, <2>1, <2>2, <2>4, <2>5, SMTT(30) DEF Placed
    <3> QED BY <1>0, <2>1, <2>2, <2>3, <3>1 DEF Placed, SchedTypeOK
  <2> QED BY <1>0, <2>1, <2>3, <2>5 DEF SchedInv, SchedTypeOK, NotBegun, Places, ChainOK
<1>3. CASE Schedule
  <2>1. /\ AtLoopHead /\ Dequeue /\ active' = [active EXCEPT ![Top] = got']
        /\ goroutine' = [goroutine EXCEPT ![got'] =
                            IF @ = "deadlocked" THEN "unreachable" ELSE "running"]
        /\ schedulerDone' = schedulerDone
    BY <1>3 DEF Schedule
  <2>2. status = "ok" /\ Placed /\ Len(active) # 0 /\ active[Len(active)] = None
    BY <1>0, <2>1 DEF AtLoopHead, Top
  <2>3. /\ got' \in Queued /\ got' \in Cont /\ Queued' = Queued \ {got'} /\ QueueDistinct'
    BY <1>0, <2>1, <2>2, DequeueTakes, SMTT(30) DEF Placed
  <2>4. got' \notin OnChain(active) /\ goroutine[got'] \in {"queued", "deadlocked"}
    BY <1>0, <2>2, <2>3 DEF Placed
  <2>5. ChainOK(active') /\ OnChain(active') = OnChain(active) \cup {got'}
    BY <2>1, <2>2, <2>3, <2>4, ChainResume, Zenon DEF Placed, Top
  <2>6. /\ goroutine' \in [Cont -> Places]
        /\ \A g \in Cont : g # got' => goroutine'[g] = goroutine[g]
        /\ goroutine'[got'] \in {"running", "unreachable"}
    BY <1>0, <2>1, <2>3, SMTT(30) DEF SchedTypeOK, Places
  <2>7. Placed'
    BY <1>0, <2>2, <2>3, <2>5, <2>6, SMTT(30) DEF Placed
  <2>8. NotBegun'
    BY <1>0, <2>2, <2>6 DEF NotBegun
  <2> QED BY <1>0, <2>1, <2>5, <2>6, <2>7, <2>8 DEF SchedInv, SchedTypeOK, ChainOK
<1>4. CASE ScheduleEnd
  <2>1. /\ AtLoopHead /\ active' = SubSeq(active, 1, Top - 1)
        /\ goroutine' = goroutine /\ schedulerDone' = schedulerDone
        /\ UNCHANGED <<table, qfront, qback, status>>
    BY <1>4 DEF ScheduleEnd, DequeueEmpty, queueVars
  <2>2. status = "ok" /\ Placed /\ Len(active) # 0 /\ active[Len(active)] = None
    BY <1>0, <2>1 DEF AtLoopHead, Top
  <2>3. ChainOK(active') /\ OnChain(active') = OnChain(active)
    BY <2>1, <2>2, ChainEnd DEF Placed, Top
  <2>4. Placed'
    BY <2>1, <2>2, <2>3, SameQueue DEF Placed
  <2>5. NotBegun'
    BY <1>0, <2>1, <2>2 DEF NotBegun
  <2> QED BY <1>0, <2>1, <2>3, <2>4, <2>5 DEF SchedInv, SchedTypeOK, ChainOK
<1>5. ASSUME NEW g \in Cont, NEW where \in {"queued", "deadlocked"}, Suspend(g, where)
      PROVE  SchedInv'
  <2>1. /\ Running(g) /\ goroutine[g] = "running" /\ Enqueue(g)
        /\ goroutine' = [goroutine EXCEPT ![g] = where]
        /\ active' = [active EXCEPT ![Top] = None] /\ schedulerDone' = schedulerDone
    BY <1>5 DEF Suspend
  <2>2. /\ status = "ok" /\ Placed /\ Len(active) # 0 /\ active[Len(active)] = g
        /\ g # None /\ goroutine[Main] # "new"
    BY <1>0, <2>1 DEF Running, Top, NotBegun
  <2>3. ChainOK(active') /\ OnChain(active') = OnChain(active) \ {g}
    BY <2>1, <2>2, ChainBack, Zenon DEF Placed, Top
  <2>4. g \notin Queued
    BY <2>1, <2>2 DEF Placed
  <2>5. /\ goroutine' \in [Cont -> Places] /\ goroutine'[g] = where
        /\ \A h \in Cont : h # g => goroutine'[h] = goroutine[h]
    BY <1>0, <2>1 DEF SchedTypeOK, Places
  <2>6. ASSUME status' = "ok" PROVE Placed'
    <3>1. Queued' = Queued \cup {g} /\ QueueDistinct'
      BY <1>1, <2>1, <2>2, <2>4, <2>6 DEF Placed
    <3> QED BY <2>2, <2>3, <2>5, <3>1 DEF Placed
  <2>7. NotBegun'
    BY <2>2, <2>5, SMTT(30) DEF NotBegun
  <2> QED BY <1>0, <2>1, <2>3, <2>5, <2>6, <2>7 DEF SchedInv, SchedTypeOK, ChainOK
<1>6. ASSUME NEW g \in Cont, Return(g) PROVE SchedInv'
  <2>1. /\ Running(g) /\ goroutine[g] = "running"
        /\ goroutine' = [goroutine EXCEPT ![g] = "returned"]
        /\ active' = [active EXCEPT ![Top] = None]
        /\ schedulerDone' = (schedulerDone \/ g = Main)
        /\ UNCHANGED <<table, qfront, qback, status>>
    BY <1>6 DEF Return, queueVars
  <2>2. /\ status = "ok" /\ Placed /\ Len(active) # 0 /\ active[Len(active)] = g
        /\ g # None /\ goroutine[Main] # "new"
    BY <1>0, <2>1 DEF Running, Top, NotBegun
  <2>3. ChainOK(active') /\ OnChain(active') = OnChain(active) \ {g}
    BY <2>1, <2>2, ChainBack, Zenon DEF Placed, Top
  <2>4. /\ goroutine' \in [Cont -> Places] /\ goroutine'[g] = "returned"
        /\ \A h \in Cont : h # g => goroutine'[h] = goroutine[h]
    BY <1>0, <2>1 DEF SchedTypeOK, Places
  <2>5. Queued' = Queued /\ QueueDistinct'
    BY <2>1, <2>2, SameQueue DEF Placed
  <2>6. g \notin Queued
    BY <2>1, <2>2 DEF Placed
  <2>7. Placed'
    BY <2>2, <2>3, <2>4, <2>5, <2>6 DEF Placed
  <2>8. NotBegun'
    BY <2>2, <2>4 DEF NotBegun
  <2>9. schedulerDone' \in BOOLEAN
    BY <1>0, <2>1 DEF SchedTypeOK
  <2> QED BY <1>0, <2>3, <2>4, <2>7, <2>8, <2>9, SMTT(30) DEF SchedInv, SchedTypeOK, ChainOK
<1>7. ASSUME NEW g \in Cont, HostCallsScheduler(g) PROVE SchedInv'
  <2>1. /\ Running(g) /\ active' = Append(active, None)
        /\ goroutine' = goroutine /\ schedulerDone' = schedulerDone
        /\ UNCHANGED <<table, qfront, qback, status>>
    BY <1>7 DEF HostCallsScheduler, queueVars
  <2>2. /\ status = "ok" /\ Placed /\ Len(active) # 0 /\ active[Len(active)] = g
        /\ g # None /\ goroutine[Main] # "new"
    BY <1>0, <2>1, SMTT(30) DEF Running, Top, NotBegun
  <2>3. ChainOK(active') /\ OnChain(active') = OnChain(active)
    BY <2>1, <2>2, ChainNest, SMTT(30) DEF Placed
  <2>4. Placed'
    BY <2>1, <2>2, <2>3, SameQueue, SMTT(30) DEF Placed
  <2>5. NotBegun'
    BY <2>1, <2>2 DEF NotBegun
  <2> QED BY <1>0, <2>1, <2>3, <2>4, <2>5 DEF SchedInv, SchedTypeOK, ChainOK
<1>8. ASSUME NEW h \in Cont, NEW g \in Cont, Go(h, g) PROVE SchedInv'
  <2>1. Running(h) /\ Start(g) /\ active' = active /\ schedulerDone' = schedulerDone
    BY <1>8 DEF Go
  <2>2. /\ status = "ok" /\ Placed /\ Len(active) # 0 /\ active[Len(active)] = h
        /\ h # None /\ goroutine[Main] # "new"
    BY <1>0, <2>1 DEF Running, Top, NotBegun
  <2>3. /\ g # Main /\ goroutine[g] \in {"new", "returned"} /\ Enqueue(g)
        /\ goroutine' = [goroutine EXCEPT ![g] = "queued"]
    BY <2>1 DEF Start
  <2>4. g \notin Queued /\ g \notin OnChain(active)
    BY <2>2, <2>3 DEF Placed
  <2>5. /\ goroutine' \in [Cont -> Places] /\ goroutine'[g] = "queued"
        /\ \A x \in Cont : x # g => goroutine'[x] = goroutine[x]
    BY <1>0, <2>3 DEF SchedTypeOK, Places
  <2>6. ChainOK(active') /\ OnChain(active') = OnChain(active)
    BY <2>1, <2>2, SMTT(30) DEF Placed
  <2>7. ASSUME status' = "ok" PROVE Placed'
    <3>1. Queued' = Queued \cup {g} /\ QueueDistinct'
      BY <1>1, <2>2, <2>3, <2>4, <2>7, SMTT(30) DEF Placed
    <3> QED BY <2>2, <2>4, <2>5, <2>6, <3>1, SMTT(30) DEF Placed
  <2>8. NotBegun'
    BY <2>2, <2>3, <2>5, SMTT(30) DEF NotBegun
  <2> QED BY <1>0, <2>1, <2>5, <2>6, <2>7, <2>8 DEF SchedInv, SchedTypeOK, ChainOK
<1>9. ASSUME NEW h \in Cont, NEW g \in Cont, HostCallsResume(h, g) PROVE SchedInv'
  <2>1. Running(h) /\ Start(g) /\ active' = Append(active, None) /\ schedulerDone' = schedulerDone
    BY <1>9 DEF HostCallsResume
  <2>2. /\ status = "ok" /\ Placed /\ Len(active) # 0 /\ active[Len(active)] = h
        /\ h # None /\ goroutine[Main] # "new"
    BY <1>0, <2>1 DEF Running, Top, NotBegun
  <2>3. /\ g # Main /\ goroutine[g] \in {"new", "returned"} /\ Enqueue(g)
        /\ goroutine' = [goroutine EXCEPT ![g] = "queued"]
    BY <2>1 DEF Start
  <2>4. g \notin Queued /\ g \notin OnChain(active)
    BY <2>2, <2>3 DEF Placed
  <2>5. /\ goroutine' \in [Cont -> Places] /\ goroutine'[g] = "queued"
        /\ \A x \in Cont : x # g => goroutine'[x] = goroutine[x]
    BY <1>0, <2>3 DEF SchedTypeOK, Places
  <2>6. ChainOK(active') /\ OnChain(active') = OnChain(active)
    BY <2>1, <2>2, ChainNest, SMTT(30) DEF Placed
  <2>7. ASSUME status' = "ok" PROVE Placed'
    <3>1. Queued' = Queued \cup {g} /\ QueueDistinct'
      BY <1>1, <2>2, <2>3, <2>4, <2>7 DEF Placed
    <3> QED BY <2>2, <2>4, <2>5, <2>6, <3>1 DEF Placed
  <2>8. NotBegun'
    BY <2>2, <2>3, <2>5 DEF NotBegun
  <2> QED BY <1>0, <2>1, <2>5, <2>6, <2>7, <2>8 DEF SchedInv, SchedTypeOK, ChainOK
<1>10. CASE UNCHANGED schedVars
  <2>1. UNCHANGED <<table, qfront, qback, status, active, goroutine, schedulerDone>>
    BY <1>10 DEF schedVars, queueVars
  <2> QED BY <1>0, <2>1, SameQueue DEF SchedInv, SchedTypeOK, NotBegun, Placed
<1>11. QED
  BY <1>2, <1>3, <1>4, <1>5, <1>6, <1>7, <1>8, <1>9, <1>10
     DEF SchedNext, Gosched, Deadlock, SchedStopped

(* Initially nothing runs and nothing is queued.                           *)
LEMMA SchedInitially == SchedInit => SchedInv
<1> SUFFICES ASSUME SchedInit PROVE SchedInv
  OBVIOUS
<1>1. QueueInv
  BY QueueInitially DEF SchedInit
<1>2. active = << >> /\ goroutine = [g \in Cont |-> "new"] /\ schedulerDone = FALSE
  BY DEF SchedInit
<1>3. Queued = {} /\ QueueDistinct
  BY DEF SchedInit, QueueInit, Queued, QueueDistinct
<1>4. ChainOK(active) /\ OnChain(active) = {}
  BY <1>2 DEF ChainOK, OnChain
<1>5. QED
  BY <1>1, <1>2, <1>3, <1>4, Zenon
     DEF SchedInv, SchedTypeOK, Places, NotBegun, Placed, ChainOK

(* Every goroutine is in one place, for any number of goroutines, table    *)
(* limits and nested activations: $runtime.scheduler never resumes a       *)
(* continuation that has been consumed, and loses none.                    *)
THEOREM GoroutinesInOnePlace == SchedSpec => []OnePlace
  BY SchedInitially, SchedStep, PlacedIsOnePlace, PTL DEF SchedSpec

(* schedulerDone says that main has returned, and run never gets control   *)
(* back before.                                                            *)
MainInv == (schedulerDone => goroutine[Main] = "returned") /\ RunsMainToItsEnd

(* A step of the scheduler or of a goroutine keeps this: without an        *)
(* activation main is on no chain, and on an empty queue it is not queued. *)
LEMMA MainStep == SchedInv /\ SchedInv' /\ MainInv /\ [SchedNext]_schedVars => MainInv'
<1> SUFFICES ASSUME SchedInv, SchedInv', MainInv, [SchedNext]_schedVars PROVE MainInv'
  OBVIOUS
<1> USE SchedulerAssumption
<1>1. /\ goroutine \in [Cont -> Places] /\ goroutine' \in [Cont -> Places]
      /\ active \in Seq(Cont \cup {None}) /\ active' \in Seq(Cont \cup {None})
  BY DEF SchedInv, SchedTypeOK
<1>2. ASSUME NEW g \in Cont, NEW where \in Places, goroutine[g] # "returned" \/ g # Main,
             goroutine' = [goroutine EXCEPT ![g] = where], schedulerDone' = schedulerDone
      PROVE  schedulerDone' => goroutine'[Main] = "returned"
  BY <1>1, <1>2 DEF MainInv
<1>3. ASSUME Len(active') # 0, schedulerDone' => goroutine'[Main] = "returned"
      PROVE  MainInv'
  BY <1>3 DEF MainInv, RunsMainToItsEnd, Top
<1>4. CASE Run
  <2>1. /\ goroutine[Main] = "new" /\ goroutine' = [goroutine EXCEPT ![Main] = "queued"]
        /\ active' = <<None>> /\ schedulerDone' = schedulerDone /\ "queued" \in Places
    BY <1>4 DEF Run, Places
  <2>2. Len(active') # 0
    BY <2>1
  <2>3. schedulerDone' => goroutine'[Main] = "returned"
    BY <1>2, <2>1
  <2> QED BY <1>3, <2>2, <2>3
<1>5. CASE Schedule
  <2>1. /\ Len(active) # 0 /\ active' = [active EXCEPT ![Len(active)] = got']
        /\ ~schedulerDone /\ schedulerDone' = schedulerDone
    BY <1>5 DEF Schedule, AtLoopHead, Top
  <2> QED BY <1>1, <1>3, <2>1
<1>6. CASE ScheduleEnd
  <2>1. /\ status = "ok" /\ goroutine' = goroutine /\ schedulerDone' = schedulerDone
        /\ schedulerDone \/ QueueEmpty
    BY <1>6 DEF ScheduleEnd, AtLoopHead, DequeueEmpty
  <2>2. ASSUME status' = "ok", Top' = 0 PROVE goroutine[Main] \in {"new", "returned"}
    <3>1. Placed /\ Placed'
      BY <2>1, <2>2 DEF SchedInv
    <3>2. goroutine[Main] \notin {"running", "unreachable"}
      BY <2>1, <2>2, <3>1 DEF Placed, OnChain, Top
    <3>3. CASE schedulerDone
      BY <3>3 DEF MainInv
    <3>4. CASE QueueEmpty
      <4>1. Queued = {}
        BY <3>4 DEF QueueEmpty, Queued, SchedInv, QueueInv, QueueTypeOK
      <4>2. goroutine[Main] \notin {"queued", "deadlocked"}
        BY <3>1, <4>1 DEF Placed
      <4> QED BY <1>1, <3>2, <4>2 DEF Places
    <3> QED BY <2>1, <3>3, <3>4
  <2> QED BY <2>1, <2>2 DEF MainInv, RunsMainToItsEnd
<1>7. ASSUME NEW g \in Cont, NEW where \in {"queued", "deadlocked"}, Suspend(g, where)
      PROVE  MainInv'
  <2>1. /\ goroutine[g] = "running" /\ goroutine' = [goroutine EXCEPT ![g] = where]
        /\ Len(active) # 0 /\ active' = [active EXCEPT ![Len(active)] = None]
        /\ schedulerDone' = schedulerDone /\ where \in Places
    BY <1>7 DEF Suspend, Running, Top, Places
  <2>2. Len(active') # 0
    BY <1>1, <2>1
  <2>3. schedulerDone' => goroutine'[Main] = "returned"
    BY <1>2, <2>1
  <2> QED BY <1>3, <2>2, <2>3
<1>8. ASSUME NEW g \in Cont, Return(g) PROVE MainInv'
  <2>1. /\ goroutine' = [goroutine EXCEPT ![g] = "returned"]
        /\ Len(active) # 0 /\ active' = [active EXCEPT ![Len(active)] = None]
        /\ schedulerDone' = (schedulerDone \/ g = Main)
    BY <1>8 DEF Return, Running, Top
  <2>2. schedulerDone' => goroutine'[Main] = "returned"
    BY <1>1, <2>1 DEF MainInv
  <2> QED BY <1>1, <1>3, <2>1, <2>2
<1>9. ASSUME NEW h \in Cont, NEW g \in Cont, Go(h, g) \/ HostCallsResume(h, g)
      PROVE  MainInv'
  <2>1. /\ g # Main /\ goroutine' = [goroutine EXCEPT ![g] = "queued"]
        /\ schedulerDone' = schedulerDone /\ "queued" \in Places
        /\ Len(active) # 0 /\ active' \in {active, Append(active, None)}
    BY <1>9 DEF Go, HostCallsResume, Start, Running, Top, Places
  <2>2. Len(active') # 0
    BY <1>1, <2>1
  <2> QED BY <1>2, <1>3, <2>1, <2>2
<1>10. ASSUME NEW g \in Cont, HostCallsScheduler(g) PROVE MainInv'
  <2>1. /\ active' = Append(active, None) /\ UNCHANGED <<goroutine, schedulerDone>>
    BY <1>10 DEF HostCallsScheduler
  <2>2. Len(active') # 0
    BY <1>1, <2>1
  <2> QED BY <1>3, <2>1, <2>2 DEF MainInv
<1>11. CASE UNCHANGED schedVars
  BY <1>11 DEF schedVars, queueVars, MainInv, RunsMainToItsEnd, Top
<1>12. QED
  BY <1>4, <1>5, <1>6, <1>7, <1>8, <1>9, <1>10, <1>11
     DEF SchedNext, Gosched, Deadlock, SchedStopped

(* run gets control back from $runtime.scheduler only when main has        *)
(* returned, for any goroutines, limits of the table and nesting of host   *)
(* calls.                                                                  *)
THEOREM MainRunsToItsEnd == SchedSpec => []RunsMainToItsEnd
<1>1. SchedInit => MainInv
  BY SchedulerAssumption DEF SchedInit, MainInv, RunsMainToItsEnd
<1>2. MainInv => RunsMainToItsEnd
  BY DEF MainInv
<1>3. QED
  BY <1>1, <1>2, MainStep, SchedInitially, SchedStep, PTL DEF SchedSpec

(* The scheduler uses the table as a client of the queue: what is proved   *)
(* of QueueSpec holds of the program that effects.pl generates.            *)
THEOREM SchedulerIsQueueClient == SchedSpec => QueueSpec
<1>1. SchedInit => QueueInit
  BY DEF SchedInit
<1>2. QED
  BY <1>1, SchedInitially, SchedStep, SchedulerUsesQueue, PTL DEF SchedSpec, QueueSpec

(* In that program the table has no holes, stays small, and is a first-in  *)
(* first-out queue.                                                        *)
THEOREM SchedulerQueue == SchedSpec => []NoHoles /\ []TableBounded /\ ImplementsFifo
<1>1. SchedSpec => QueueSpec
  BY SchedulerIsQueueClient
<1>2. QueueSpec => []NoHoles
  <2>1. QueueTypeOK /\ NoHoles => NoHoles
    OBVIOUS
  <2> QED BY QueueWellFormed, <2>1, PTL
<1>3. QED
  BY <1>1, <1>2, TableStaysSmall, TableIsFifo, PTL

=============================================================================
