SPECIFICATION DSafety
CONSTANTS
  web = web
  desk = desk
  Jobs <- MCBoth
  Kinds <- MCKinds
  KindOf <- MCBothKindOf
  MaxLimit = 1
  FailInQueue <- MCNone
  Desktop <- MCDesk
  Sizes <- MCNoneOrTwo
  MaxChanges = 0
  MaxResumes = 1
INVARIANTS DoneIsWhole
PROPERTIES ImplementsScheduler
