\* Two Jobs of one target at once, two files, a default branch that moves once
\* and a crash in the middle of anything; a third Job, so that two revisions of
\* one Job know different tips of its branch.
CONSTANTS
  Job = {1, 2, 3}
  File = {f1, f2}
  ConcurrencyLimit = 2
  MaxVersion = 2
  MaxLife = 2
SPECIFICATION GitSpec
SYMMETRY FileSymmetry
CONSTRAINT SecondRevision
INVARIANTS
  GitTypeOK
  UndisturbedCopyIsCurrent
  LandsOnlyAsReported
  BranchIsOneLineage
  PushedIsOnRemote
PROPERTY PushesAddOneCommit
CHECK_DEADLOCK FALSE
