SPECIFICATION C10mSpec
CONSTANTS
  Sizes <- MCSizes
  Word = 11
  Kb = 3
  Fib = {11, 12}
  Main = 10
  Val = {1, 3}
  Site = {"c1"}
  Cap = 4
  MaxDepth = 3
INVARIANTS
  VerifyPasses WorkersOwned ActiveIsInnermost OverflowIsCaught
PROPERTIES
  BespokeImplements FxImplements FiberImplements ImplementsStackful
  WorkloadEnds SwitchingEnds
CHECK_DEADLOCK FALSE
