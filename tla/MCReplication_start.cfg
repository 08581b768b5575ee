CONSTANTS
  p1 = p1
  o1 = o1
  k1 = k1
  b1 = b1
  Origin <- OneAndOther
  Proc <- OneProc
  Reporter <- Nobody
  Key <- OneKey
  Call <- NoCall
  Page = 2
  MaxHoles = 3
  MaxSeq = 2
SPECIFICATION Spec
INVARIANTS
  WatermarkExact
