SPECIFICATION USafety
CONSTANTS
  local1 = local1
  browser1 = browser1
  Jobs <- MCLocal
  Kinds <- MCKinds
  KindOf <- MCLocalKindOf
  MaxLimit = 1
  FailInQueue <- MCLocal
  Browser <- MCNone
  Overwrite <- MCLocal
  Blocks = 4
  MaxResumes = 2
INVARIANTS DoneIsIntact
