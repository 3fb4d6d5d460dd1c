\* Each of these is violated; check one at a time.
SPECIFICATION ASafety
CONSTANTS
  Rules = {1, 2}
  Limit = 2
  Attempts = 2
  MaxStreak = 2
  MaxSaves = 2
  Missed = "run_once"
  CreateFails = FALSE
INVARIANT BaselineIsOfItsRules
\* PROPERTY EditStays
\* PROPERTY StoppedTriesNothing
CHECK_DEADLOCK FALSE
