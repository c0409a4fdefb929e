-------------------------------- MODULE Fifo --------------------------------
(***************************************************************************)
(* What a run queue promises: elements are taken in the order in which     *)
(* they were put, each exactly once.  "got" is the value the last take     *)
(* returned, None when the queue was empty.  The table of effects.pl       *)
(* (EffectsQueue) implements it.                                           *)
(***************************************************************************)
EXTENDS Sequences, Naturals

CONSTANTS Elem, None

VARIABLES queue, got

fifoVars == <<queue, got>>

FifoInit ==
  /\ queue = << >>
  /\ got = None

Put(e) ==
  /\ queue' = Append(queue, e)
  /\ UNCHANGED got

Take ==
  /\ queue # << >>
  /\ got' = Head(queue)
  /\ queue' = Tail(queue)

TakeNone ==
  /\ queue = << >>
  /\ got' = None
  /\ UNCHANGED queue

FifoNext ==
  \/ \E e \in Elem : Put(e)
  \/ Take
  \/ TakeNone

FifoSpec == FifoInit /\ [][FifoNext]_fifoVars
=============================================================================
