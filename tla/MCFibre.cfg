SPECIFICATION FibreSpec
CONSTANTS
  Fiber = {f1, f2, f3}
  Main = Main
  Yields = {y1, y2}
  Null = Null
  Junk = Junk
SYMMETRY Symm
INVARIANTS
  ContextsConserved
  CellProtocol
  DoneGuards
  FibreInv
PROPERTY ReturnsToResumer
