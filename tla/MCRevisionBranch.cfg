\* One /build and its revision, one after the other.
CONSTANTS
  Job = {1, 2}
  File = {f1}
  ConcurrencyLimit = 1
  MaxVersion = 1
  MaxLife = 1
SPECIFICATION GitSpec
INVARIANT RevisionFindsBranch
CHECK_DEADLOCK FALSE
