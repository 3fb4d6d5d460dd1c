SPECIFICATION RSpec
CONSTANTS
  r1 = r1
  r2 = r2
  Readers <- MCOneReader
  Size = 3
  Retries = 1
  MaxReads = 1
  MaxFiles = 2
  MaxRestarts = 0
  MaxFailures = 1
INVARIANTS DeliversUntilUndercut
CHECK_DEADLOCK FALSE
