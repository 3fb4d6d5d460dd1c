SPECIFICATION CSpec
CONSTANTS
  Secrets = {1, 2}
  MaxKeys = 3
  MaxSnaps = 1
  Failing = {"enable", "upgrade", "begin", "rewrite", "complete", "end", "clear", "restore", "rollback"}
  LastForward = 2
  Builtin <- MCOne
  Listening <- MCTwo
  Autostart = TRUE
  MaxRequests = 2
  MaxTunnels = 2
  MaxExits = 1
  q1 = q1
  q2 = q2
  Requests <- MCRequests
  MaxAsked = 2
  MaxSessions = 2
  MaxChannels = 3
  MaxIdle = 1
  r1 = r1
  r2 = r2
  Readers <- MCReaders
  Size = 2
  Retries = 1
  MaxReads = 2
  MaxFiles = 2
  MaxRestarts = 1
  MaxFailures = 0
INVARIANTS SecretsReadableUnlessMixed ReadyReads
INVARIANTS TunnelsKnown TunnelRunsItsRow RunningIsRestored
INVARIANTS OneClient NoLostChannel MetadataIsSynced DeliversUntilUndercut
SYMMETRY Symmetry
CHECK_DEADLOCK FALSE
