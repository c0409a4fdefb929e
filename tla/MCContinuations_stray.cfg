SPECIFICATION Spec
CONSTANTS
  Fiber = {o1, o2, o3}
  Main = Main
  Yields = {t1}
  Null = Null
  Junk = Junk
  Ref = {r1, r2}
  Val = {v1}
  TagParams <- NoOperands
  TagResults <- NoOperands
  FuncTypes <- Thunk
  Unused = Unused
SYMMETRY Symm
INVARIANT SuspendReachesResumer
