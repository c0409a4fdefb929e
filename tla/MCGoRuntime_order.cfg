SPECIFICATION RuntimeSpec
CONSTANTS
  main = main
  t1 = t1
  t2 = t2
  t3 = t3
  Task = {main, t1, t2, t3}
  NoTask = NoTask
  Main = main
  Programs <- SleepPrograms
  MaxReaders = 3
  MaxCounter = 3
  Deltas <- MCDeltas
  unbuf = unbuf
  ring = ring
  timer = timer
  ticker = ticker
  timerC = timerC
  tickerC = tickerC
  Chan = {unbuf, ring, timerC, tickerC}
  BufSize <- MCBufSize
  Selects <- MCSelects
  Timer = {timer, ticker}
  TimerChan <- MCTimerChan
  Period <- MCPeriod
  Durations = {1, 2, 3}
  Timeouts = {1, 2}
  MaxClock = 3
  Forever = Forever
CHECK_DEADLOCK FALSE
INVARIANT SleepersInOrder
