\* Two names, one the other with a blank; files of up to three entries: room for a
\* name used twice; two Jobs: one and its revision, or one on each target.
CONSTANTS
  n1 = n1
  n2 = n2
  Name = {n1, n2}
  MaxEntries = 3
  Strip <- BlankBeforeSecond
  DefaultTarget = n2
  MaxJobs = 2
SPECIFICATION BotSpec
INVARIANTS
  BotTypeOK
  GateComesFirst
  JobKeepsItsTarget
  MemoryMatchesFile
  ConfirmedTargetSurvives
PROPERTIES
  ImplementsStore
  CommandsSeeJobTable
CHECK_DEADLOCK FALSE
