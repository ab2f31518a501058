\* Two slots, four Jobs: a full house with Jobs behind it in the queue.
CONSTANTS
  ConcurrencyLimit = 2
  MaxJobs = 4
SPECIFICATION FairSpec
INVARIANTS
  TypeOK
  SlotAccounting
  QueuedIsPending
  NoMissedWakeup
PROPERTIES
  FifoPromotion
  CancelledWhileQueuedNeverRuns
  QueuedJobIsServed
CHECK_DEADLOCK FALSE
