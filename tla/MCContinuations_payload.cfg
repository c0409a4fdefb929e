SPECIFICATION Spec
CONSTANTS
  Fiber = {o1, o2}
  Main = Main
  Yields = {t1}
  Null = Null
  Junk = Junk
  Ref = {r1, r2}
  Val = {v1, v2}
  TagParams <- OneParam
  TagResults <- TwoResults
  FuncTypes <- TwoToOne
  Unused = Unused
SYMMETRY Symm
INVARIANT PayloadsCleanedUp
