SPECIFICATION HSafety
CONSTANTS
  LastJob = 3
  TypeOf <- MCMixed
  MaxHistory = 2
INVARIANTS RecordIsCurrent NoOrphan
PROPERTIES OverflowTakesOldest FinishedStaysFinished
