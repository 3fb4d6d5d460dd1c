SPECIFICATION SSafety
CONSTANTS
  Contents = {1, 2}
  Deletes = FALSE
  MaxEdits = 3
INVARIANT UnchangedIsSame
CHECK_DEADLOCK FALSE
