SPECIFICATION SchedSpec
CONSTANTS
  Cont = {main, g1, g2, g3}
  Main = main
  None = None
  QDelta = 2
  TableLimits = {1, 5, 20}
  MaxNest = 2
INVARIANTS NoHoles TableBounded OnePlace RunsMainToItsEnd
PROPERTIES EveryoneGetsATurn ImplementsFifo
