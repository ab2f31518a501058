\* One Job on one slot is enough to push what was cancelled.
CONSTANTS
  ConcurrencyLimit = 1
  MaxJobs = 1
  MaxBuildAttempts = 1
SPECIFICATION AgentSpec
PROPERTY NothingPushedAfterCancel
CHECK_DEADLOCK FALSE
