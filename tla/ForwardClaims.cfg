\* Each of these is violated; check one at a time.
SPECIFICATION FSafety
CONSTANTS
  LastForward = 2
  Builtin <- MCOne
  Listening <- MCTwo
  Autostart = FALSE
  MaxRequests = 3
  MaxTunnels = 3
  MaxExits = 1
PROPERTY StopIsFinal
\* INVARIANT EditsKnowPrevious
\* INVARIANT NoTunnelWithoutRow
\* PROPERTY ShutdownStopsAll
CHECK_DEADLOCK FALSE
