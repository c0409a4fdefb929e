SPECIFICATION RefSpec
CONSTANTS
  Strand = {s1, s2, s3}
  Main = Main
  Ref = {r1, r2, r3}
  Val = {v1}
  Tag = {t1, t2}
  TagParams <- NoOperands
  TagResults <- NoOperands
  FuncTypes <- OneArg
  MaxFrames = 4
  Unused = Unused
  Null = Null
SYMMETRY Symm
INVARIANTS
  OneShot
  BarrierNeverCaptured
