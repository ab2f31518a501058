\* One Job on one slot is enough to leave a terminal status.
CONSTANTS
  ConcurrencyLimit = 1
  MaxJobs = 1
  MaxBuildAttempts = 1
SPECIFICATION AgentSpec
PROPERTY TerminalIsFinal
CHECK_DEADLOCK FALSE
