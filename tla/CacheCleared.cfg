SPECIFICATION RSpec
CONSTANTS
  r1 = r1
  r2 = r2
  Readers <- MCOneReader
  Size = 3
  Retries = 1
  MaxReads = 3
  MaxFiles = 2
  MaxRestarts = 0
  MaxFailures = 0
INVARIANTS DeliversSource
CHECK_DEADLOCK FALSE
