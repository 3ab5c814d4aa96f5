SPECIFICATION LiveSpec
CONSTANTS
  Tasks <- MCTasks
  Conns <- MCConns
  Chans <- MCChans
  Timers <- MCTimers
  None = None
  Configs <- MCConfigs
CHECK_DEADLOCK FALSE
INVARIANTS NeverAbandoned ReleasedAfterClose GivesUpLast
  
