\* Failures whose reason Discord does not take, in a channel that is never at fault.
CONSTANTS
  ConfiguredTag = "none"
  MaxFileCount = 1
  MaxTotalBytes = 1
  Path = {p1}
  Artefact = {p1}
  Copies <- OneCopy
  MaxBuildAttempts = 1
  MaxDeliveryRetries = 3
SPECIFICATION AttemptSpec
INVARIANT FailedBuildIsAnnounced
CHECK_DEADLOCK FALSE
