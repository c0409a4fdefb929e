------------------------------ MODULE Channels ------------------------------
(***************************************************************************)
(* TinyGo's channels (runtime/chan.go).  Tasks are switched only where     *)
(* they pause, so an operation up to its pause is one step of the task.    *)
(*                                                                         *)
(* The functions of chan.go change several channels, their lists of        *)
(* blocked operations and the run queue at once, and call one another; so  *)
(* they are operators from a world w to a world, where w has               *)
(*   ch        the fields of each channel                                  *)
(*   blocked   of each channel, its list of blocked operations, top first  *)
(*   woken     the tasks that the operation schedules                      *)
(* and, to state the properties, for each channel                          *)
(*   sent      the values whose send has succeeded and that have not been  *)
(*             received, in order.                                         *)
(* A blocked operation is a record: its task t, whether it is part of a    *)
(* select, whether it sends or receives, and the value it sends.           *)
(***************************************************************************)
EXTENDS TaskScheduler

CONSTANTS
  Chan,
  BufSize,   \* of each channel, 0 when it is unbuffered
  Selects    \* the select statements: sequences of [c, dir]

ASSUME ChannelAssumption == BufSize \in [Chan -> Nat]

VARIABLE w   \* the world, see above; nobody is woken between operations

Zero == <<0>>   \* the zero value

(* The value that a call sends: each call sends another.                   *)
Value == <<calls>>

ChanInit ==
  /\ w = [ch |-> [c \in Chan |->
                   [state |-> "Empty", bufHead |-> 0, bufTail |-> 0, bufUsed |-> 0,
                    buf |-> [i \in 0 .. BufSize[c] - 1 |-> Zero]]],
          blocked |-> [c \in Chan |-> << >>],
          woken |-> << >>,
          sent |-> [c \in Chan |-> << >>]]

-----------------------------------------------------------------------------
(* Parts of a world.                                                       *)

SetState(x, c, s) == [x EXCEPT !.ch[c].state = s]

Accept(x, c, v) == [x EXCEPT !.sent[c] = Append(@, v)]

(* A value received out of order, or never sent, stays in the history.     *)
Receive(x, c, v) ==
  [x EXCEPT !.sent[c] = IF @ # << >> /\ Head(@) = v THEN Tail(@) ELSE Append(@, v)]

Wrap(i, c) == IF i = BufSize[c] THEN 0 ELSE i

(* push, when there is room, and pop, when there is a value.               *)
HasRoom(x, c) == x.ch[c].bufUsed # BufSize[c]

PushValue(x, c, v) ==
  [x EXCEPT !.ch[c].buf[x.ch[c].bufHead] = v,
            !.ch[c].bufUsed = @ + 1,
            !.ch[c].bufHead = Wrap(@ + 1, c)]

(* Mutant: the newest end of the ring is read.                             *)
OldestAtHead(x, c) == x.ch[c].buf[x.ch[c].bufHead]

Oldest(x, c) == x.ch[c].buf[x.ch[c].bufTail]

PopValue(x, c) ==
  [x EXCEPT !.ch[c].buf[x.ch[c].bufTail] = Zero,
            !.ch[c].bufUsed = @ - 1,
            !.ch[c].bufTail = Wrap(@ + 1, c)]

(* The state that detach gives to a channel whose list it has emptied.     *)
StateAfterDetach(chan, dir) ==
  IF dir = "recv" THEN IF chan.state # "Closed" THEN "Empty" ELSE chan.state
  ELSE IF chan.bufUsed = 0 THEN "Empty" ELSE "Buf"

(* Mutant: a select stays on its other channels.                           *)
DetachNothing(x, t) == x

(* The other operations of the select that t is blocked in are removed.    *)
Detach(x, t) ==
  LET mine(c) == SelectSeq(x.blocked[c], LAMBDA b : b.t = t)
      rest(c) == SelectSeq(x.blocked[c], LAMBDA b : b.t # t)
  IN  [x EXCEPT
        !.blocked = [c \in Chan |-> rest(c)],
        !.ch = [c \in Chan |->
                 IF mine(c) # << >> /\ rest(c) = << >>
                   THEN [x.ch[c] EXCEPT
                          !.state = StateAfterDetach(x.ch[c], mine(c)[1].dir)]
                   ELSE x.ch[c]]]

(* The common part of resumeRX and resumeTX.                               *)
ResumeTop(x, c) ==
  LET b == Head(x.blocked[c])
      y == [x EXCEPT !.blocked[c] = Tail(@)]
      z == IF b.select THEN Detach(y, b.t) ELSE y
  IN  [z EXCEPT !.woken = Append(@, b.t)]

-----------------------------------------------------------------------------
(* trySend: whether the value was sent, and the world after it.            *)
TrySend(x, c, v) ==
  CASE x.ch[c].state \in {"Empty", "Buf"} /\ HasRoom(x, c) ->
         [sent |-> TRUE,
          w |-> Accept(SetState(PushValue(x, c, v), c, "Buf"), c, v)]
    [] x.ch[c].state = "Recv" ->
         LET y == Receive(Accept(ResumeTop(x, c), c, v), c, v)
         IN  [sent |-> TRUE,
              w |-> IF y.blocked[c] = << >> THEN SetState(y, c, "Empty") ELSE y]
    [] OTHER -> [sent |-> FALSE, w |-> x]

(* tryRecv from a buffer: a blocked sender fills the place.                *)
RecvBuffered(x, c) ==
  LET x1 == Receive(PopValue(x, c), c, Oldest(x, c))
      v == Head(x.blocked[c]).val
      x2 == Accept(PushValue(ResumeTop(x1, c), c, v), c, v)
      x3 == IF x1.blocked[c] = << >> THEN x1
            ELSE IF x2.blocked[c] = << >> THEN SetState(x2, c, "Buf") ELSE x2
  IN  IF x3.ch[c].bufUsed = 0 THEN SetState(x3, c, "Empty") ELSE x3

(* tryRecv from a sender.                                                  *)
RecvFromSender(x, c) ==
  LET v == Head(x.blocked[c]).val
      y == Receive(Accept(ResumeTop(x, c), c, v), c, v)
  IN  IF y.blocked[c] = << >> THEN SetState(y, c, "Empty") ELSE y

(* tryRecv: whether the receive is over, and the world after it.           *)
TryRecv(x, c) ==
  CASE x.ch[c].state \in {"Buf", "Send"} /\ x.ch[c].bufUsed > 0 ->
         [rx |-> TRUE, w |-> RecvBuffered(x, c)]
    [] x.ch[c].state \in {"Buf", "Send"} /\ x.ch[c].bufUsed = 0
         /\ x.blocked[c] # << >> ->
         [rx |-> TRUE, w |-> RecvFromSender(x, c)]
    [] x.ch[c].state = "Closed" ->
         [rx |-> TRUE,
          w |-> IF x.ch[c].bufUsed > 0
                  THEN Receive(PopValue(x, c), c, Oldest(x, c)) ELSE x]
    [] OTHER -> [rx |-> FALSE, w |-> x]

Block(x, c, t, dir, v, select) ==
  [x EXCEPT !.blocked[c] =
     <<[t |-> t, dir |-> dir, val |-> v, select |-> select]>> \o @]

-----------------------------------------------------------------------------
(* The operations of the goroutine t that runs.                            *)

Continues(x) == w' = [x EXCEPT !.woken = << >>] /\ GoesOn(x.woken)

Pauses(x) == w' = x /\ PausesTask

chanSend(t, c) ==
  /\ Calls(t)
  /\ LET try == TrySend(w, c, Value) IN
       IF w.ch[c].state = "Closed" THEN Panics("send on closed channel") /\ UNCHANGED w
       ELSE IF try.sent THEN Continues(try.w)
       ELSE Pauses(Block(SetState(w, c, "Send"), c, t, "send", Value, FALSE))

chanRecv(t, c) ==
  /\ Calls(t)
  /\ LET try == TryRecv(w, c) IN
       IF try.rx THEN Continues(try.w)
       ELSE Pauses(Block(SetState(w, c, "Recv"), c, t, "recv", Zero, FALSE))

RECURSIVE ResumeAll(_, _)
(* The loop of chanClose.                                                  *)
ResumeAll(x, c) ==
  IF x.blocked[c] = << >> THEN x ELSE ResumeAll(ResumeTop(x, c), c)

chanClose(t, c) ==
  /\ Calls(t)
  /\ CASE w.ch[c].state = "Closed" -> Panics("close of closed channel") /\ UNCHANGED w
       [] w.ch[c].state = "Send" -> Panics("close channel during send") /\ UNCHANGED w
       [] w.ch[c].state = "Recv" ->
            Continues(SetState(ResumeAll(SetState(w, c, "Closed"), c), c, "Closed"))
       [] OTHER -> Continues(SetState(w, c, "Closed"))

-----------------------------------------------------------------------------
(* chanSelect and tryChanSelect.  The first case that can proceed does.    *)

CaseReady(s) ==
  IF s.dir = "recv" THEN TryRecv(w, s.c).rx
  ELSE w.ch[s.c].state = "Closed" \/ TrySend(w, s.c, Zero).sent

CaseWorld(s, v) ==
  IF s.dir = "recv" THEN TryRecv(w, s.c).w ELSE TrySend(w, s.c, v).w

ReadyCases(cases) == {i \in 1 .. Len(cases) : CaseReady(cases[i])}

FirstOf(S) == CHOOSE i \in S : \A k \in S : i <= k

Proceeds(cases) ==
  LET s == cases[FirstOf(ReadyCases(cases))] IN
    IF s.dir = "send" /\ w.ch[s.c].state = "Closed"
      THEN Panics("send on closed channel") /\ UNCHANGED w
      ELSE Continues(CaseWorld(s, Value))

(* The state of a channel on which a select blocks, "invalid" for a panic. *)
StateWhenSelecting(state, dir) ==
  CASE dir = "recv" /\ state \in {"Empty", "Recv"} -> "Recv"
    [] dir = "send" /\ state \in {"Empty", "Send"} -> "Send"
    [] dir = "send" /\ state = "Buf" -> "Buf"
    [] OTHER -> "invalid"

RECURSIVE BlockAll(_, _, _, _)
(* The loop that blocks on the cases from the i-th on.                     *)
BlockAll(x, t, cases, i) ==
  IF i > Len(cases) THEN x
  ELSE LET s == cases[i]
           v == IF s.dir = "send" THEN Value ELSE Zero
           y == SetState(Block(x, s.c, t, s.dir, v, TRUE), s.c,
                         StateWhenSelecting(x.ch[s.c].state, s.dir))
       IN  IF y.ch[s.c].state = "invalid" THEN y ELSE BlockAll(y, t, cases, i + 1)

chanSelect(t, cases) ==
  /\ Calls(t)
  /\ LET x == BlockAll(w, t, cases, 1) IN
       IF ReadyCases(cases) # {} THEN Proceeds(cases)
       ELSE IF \E c \in Chan : x.ch[c].state = "invalid"
         THEN Panics("invalid channel state") /\ UNCHANGED w
       ELSE Pauses(x)

(* A select with a default case.                                           *)
tryChanSelect(t, cases) ==
  /\ Calls(t)
  /\ IF ReadyCases(cases) # {} THEN Proceeds(cases) ELSE Continues(w)

ChanCalls(t, c) == chanSend(t, c) \/ chanRecv(t, c) \/ chanClose(t, c)

SelectCalls(t, cases) == chanSelect(t, cases) \/ tryChanSelect(t, cases)

-----------------------------------------------------------------------------
Blocked(c) == {w.blocked[c][i] : i \in 1 .. Len(w.blocked[c])}

Waiting(t) == \E c \in Chan : \E b \in Blocked(c) : b.t = t

(* Nobody waits for what is there: no open channel has a receiver blocked  *)
(* while it holds a value or a blocked sender, nor a sender blocked while  *)
(* its buffer has room, and a closed channel has no receiver blocked.      *)
NoMissedMeeting ==
  \A c \in Chan :
    /\ (\E b \in Blocked(c) : b.dir = "recv") =>
         /\ w.ch[c].state = "Recv" /\ w.ch[c].bufUsed = 0
         /\ \A b \in Blocked(c) : b.dir = "recv"
    /\ (\E b \in Blocked(c) : b.dir = "send") /\ w.ch[c].state # "Closed" =>
         w.ch[c].bufUsed = BufSize[c]

(* The values in the ring buffer, oldest first.                            *)
Buffered(c) ==
  LET k == w.ch[c]
  IN  [i \in 1 .. k.bufUsed |-> k.buf[(k.bufTail + i - 1) % BufSize[c]]]

(* A channel is first-in first-out: values are received in the order in    *)
(* which their sends succeeded, and those not yet received are the ones in *)
(* the buffer.  No value is lost, duplicated or made up, through buffers,  *)
(* direct hand-over, selects whose other cases are cancelled, and close.   *)
ChannelIsFifo == \A c \in Chan : w.sent[c] = Buffered(c)
=============================================================================
