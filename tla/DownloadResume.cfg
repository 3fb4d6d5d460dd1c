SPECIFICATION DSafety
CONSTANTS
  web = web
  desk = desk
  Jobs <- MCWeb
  Kinds <- MCKinds
  KindOf <- MCWebKindOf
  MaxLimit = 1
  FailInQueue <- MCNone
  Desktop <- MCNone
  Sizes <- MCOneToThree
  MaxChanges = 1
  MaxResumes = 1
PROPERTIES ResumeRechecksSource
