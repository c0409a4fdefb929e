----------------------------- MODULE MCGoRuntime ----------------------------
EXTENDS GoRuntime, TLC

CONSTANTS main, t1, t2, t3, unbuf, ring, timer, ticker, timerC, tickerC

MCBufSize == (unbuf :> 0) @@ (ring :> 2) @@ (timerC :> 1) @@ (tickerC :> 1)

MCTimerChan == (timer :> timerC) @@ (ticker :> tickerC)

MCPeriod == (timer :> 0) @@ (ticker :> 1)

MCDeltas == {-1, 0, 1, 2}

Case(c, dir) == [c |-> c, dir |-> dir]

(* The last one waits for unbuf with a timeout.                                *)
MCSelects ==
  {<<Case(unbuf, "recv"), Case(ring, "recv")>>,
   <<Case(ring, "send"), Case(unbuf, "recv")>>,
   <<Case(unbuf, "send"), Case(ring, "recv")>>,
   <<Case(unbuf, "send"), Case(unbuf, "recv")>>,
   <<Case(unbuf, "recv"), Case(timerC, "recv")>>}

Program(facilities, tasks, n) ==
  [uses |-> facilities, tasks |-> SubSeq(<<t1, t2, t3>>, 1, tasks - 1) \o <<main>>,
   calls |-> n]

MCPrograms ==
  {Program({"mutex"}, 4, 5), Program({"rwmutex"}, 4, 5), Program({"group"}, 3, 6),
   Program({"chan"}, 3, 4), Program({"chan"}, 2, 5),
   Program({"mutex", "chan"}, 3, 3), Program({"rwmutex", "group"}, 3, 5),
   Program({"chan", "timer"}, 2, 3), Program({"sleep", "timer"}, 2, 3),
   Program({"sleep"}, 3, 3),
   Program({"mutex", "busy"}, 3, 4), Program({"chan", "sleep", "timer", "busy"}, 3, 1)}

(* Sleepers and timers alone.                                                  *)
TimePrograms == {Program({"sleep", "timer"}, 2, 3)}
SleepPrograms == {Program({"sleep"}, 3, 2)}
=============================================================================
