\* Two slots and two Jobs with two attempts each: both run at once, or the
\* second revises the first.
CONSTANTS
  ConcurrencyLimit = 2
  MaxJobs = 2
  MaxBuildAttempts = 2
SPECIFICATION AgentFairSpec
INVARIANTS
  AgentTypeOK
  BranchIsOnRemote
  RetriesUsedUp
  EventsTellTheOutcome
PROPERTIES
  NoWorkAfterCancel
  ImplementsJobManager
  ImplementsJobTable
  SignalledSlotIsFreed
CHECK_DEADLOCK FALSE
