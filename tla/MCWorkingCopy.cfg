\* Two Jobs of one target that sync at the same time.
CONSTANTS
  Job = {1, 2}
  File = {f1, f2}
  ConcurrencyLimit = 2
  MaxVersion = 2
  MaxLife = 1
SPECIFICATION GitSpec
INVARIANT WorkingCopyIsWhole
CHECK_DEADLOCK FALSE
