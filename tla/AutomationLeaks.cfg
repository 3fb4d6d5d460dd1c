SPECIFICATION ASpec
CONSTANTS
  Rules = {1}
  Limit = 2
  Attempts = 2
  MaxStreak = 2
  MaxSaves = 2
  Missed = "run_once"
  CreateFails = TRUE
PROPERTIES RunsGoOn
CHECK_DEADLOCK FALSE
