SPECIFICATION HSafety
CONSTANTS
  LastJob = 3
  TypeOf <- MCThree
  MaxHistory = 3
PROPERTIES DoneCanBeFetched ArtifactKept WorkIsRemembered
