SPECIFICATION XSpec
CONSTANTS
  x1 = x1
  x2 = x2
  Jobs <- MCOne
  Kinds <- MCKinds
  KindOf <- MCOneKindOf
  MaxLimit = 1
  FailInQueue <- MCNone
  Files = 2
  Blocks = 2
  Overwrite <- MCOne
  MaxResumes = 1
  QuickResume = FALSE
INVARIANTS TargetWholeOrOriginal RunningHasRun
PROPERTIES CopiesSettle
