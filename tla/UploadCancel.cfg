SPECIFICATION USafety
CONSTANTS
  local1 = local1
  browser1 = browser1
  Jobs <- MCBoth
  Kinds <- MCKinds
  KindOf <- MCBothKindOf
  MaxLimit = 1
  FailInQueue <- MCBoth
  Browser <- MCBrowser
  Overwrite <- MCLocal
  Blocks = 1
  MaxResumes = 1
INVARIANTS CancelCleansStaging
