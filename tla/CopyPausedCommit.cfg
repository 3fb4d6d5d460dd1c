SPECIFICATION XSafety
CONSTANTS
  x1 = x1
  x2 = x2
  Jobs <- MCOne
  Kinds <- MCKinds
  KindOf <- MCOneKindOf
  MaxLimit = 1
  FailInQueue <- MCNone
  Files = 1
  Blocks = 1
  Overwrite <- MCNone
  MaxResumes = 1
  QuickResume = FALSE
INVARIANTS PausedNeverCommits
