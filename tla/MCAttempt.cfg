\* Working copies of up to three files for a budget of two files and two units;
\* two attempts at two files; a model known by its bare name.
CONSTANTS
  ConfiguredTag = "none"
  MaxFileCount = 2
  MaxTotalBytes = 2
  Path = {p1, p2}
  Artefact = {p2}
  Copies <- SmallCopies
  MaxBuildAttempts = 2
  MaxDeliveryRetries = 1
SPECIFICATION AttemptFairSpec
INVARIANTS
  AttemptTypeOK
  ContextIsMaximal
  AvailableWasConfirmed
  RetryCarriesLastError
  DeliveredUnlessAllTriesFail
  
PROPERTIES
  PushedIsWhatWasBuilt
  DegradedModeEnds
CHECK_DEADLOCK FALSE
