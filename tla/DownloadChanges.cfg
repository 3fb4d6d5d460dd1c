SPECIFICATION DSpec
CONSTANTS
  web = web
  desk = desk
  Jobs <- MCDesk
  Kinds <- MCKinds
  KindOf <- MCDeskKindOf
  MaxLimit = 1
  FailInQueue <- MCNone
  Desktop <- MCDesk
  Sizes <- MCOneToThree
  MaxChanges = 1
  MaxResumes = 1
PROPERTIES DownloadsSettle
