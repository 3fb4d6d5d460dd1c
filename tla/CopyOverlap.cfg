SPECIFICATION XSafety
CONSTANTS
  x1 = x1
  x2 = x2
  Jobs <- MCOne
  Kinds <- MCKinds
  KindOf <- MCOneKindOf
  MaxLimit = 1
  FailInQueue <- MCOne
  Files = 1
  Blocks = 2
  Overwrite <- MCNone
  MaxResumes = 1
  QuickResume = TRUE
INVARIANTS ResumedRunWritesAlone
