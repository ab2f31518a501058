\* A shell with one background process, output that passes the cap and fills
\* the pipe.
CONSTANTS
  Child = {c1}
  OutputCap = 2
  PipeSize = 2
  MaxOutput = 5
SPECIFICATION SandboxSpec
INVARIANTS
  SandboxTypeOK
  OutputIsCapped
  ResultIsFinal
PROPERTY ReturnsUnlessOutlived
CHECK_DEADLOCK FALSE
