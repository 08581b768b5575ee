CONSTANTS
  p1 = p1
  o1 = o1
  k1 = k1
  b1 = b1
  Origin <- OneAndOther
  Proc <- OneProc
  Reporter <- Other
  Key <- OneKey
  Call <- OneCall
  Page = 1
  MaxHoles = 1
  MaxSeq = 3
SPECIFICATION Spec
CONSTRAINT Room
INVARIANTS
  TypeOK
  NothingSkipped
  WatermarkTrue
  BarrierKept
  TrimSafe
