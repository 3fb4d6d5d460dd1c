SPECIFICATION USpec
CONSTANTS
  local1 = local1
  browser1 = browser1
  Jobs <- MCBrowser
  Kinds <- MCKinds
  KindOf <- MCBrowserKindOf
  MaxLimit = 1
  FailInQueue <- MCBrowser
  Browser <- MCBrowser
  Overwrite <- MCNone
  Blocks = 2
  MaxResumes = 2
INVARIANTS WholeOrUntouched StagedFileKept
PROPERTIES UploadsSettle
