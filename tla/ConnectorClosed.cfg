SPECIFICATION Spec
CONSTANTS
  Tasks <- MCTasks
  Conns <- MCConns
  Chans <- MCChans
  Timers <- MCTimers
  None = None
  Configs <- MCUnlimited
CHECK_DEADLOCK FALSE
INVARIANT ClosedStaysClosed
