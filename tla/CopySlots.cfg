SPECIFICATION XSafety
CONSTANTS
  x1 = x1
  x2 = x2
  Jobs <- MCTwo
  Kinds <- MCKinds
  KindOf <- MCTwoKindOf
  MaxLimit = 1
  FailInQueue <- MCNone
  Files = 1
  Blocks = 1
  Overwrite <- MCOne
  MaxResumes = 1
  QuickResume = FALSE
INVARIANTS TargetWholeOrOriginal RunningHasRun
PROPERTIES ImplementsScheduler
