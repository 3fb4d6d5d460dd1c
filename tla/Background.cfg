SPECIFICATION BSpec
CONSTANTS
  LastForward = 2
  Builtin <- MCOne
  Listening <- MCTwo
  Autostart = FALSE
  MaxRequests = 2
  MaxTunnels = 2
  MaxExits = 0
  Rules = {1}
  Limit = 2
  Attempts = 2
  MaxStreak = 2
  MaxSaves = 1
  Missed = "run_once"
  CreateFails = FALSE
  Contents = {1, 2}
  Deletes = TRUE
  MaxEdits = 3
INVARIANTS OpenIsRunning HistoryAddsUp UnchangedIsSame NothingLostBetweenRuns
PROPERTIES RetriesGoOn RunsGoOn Converges
CHECK_DEADLOCK FALSE
