\* A shell that leaves one process behind.
CONSTANTS
  Child = {c1}
  OutputCap = 2
  PipeSize = 2
  MaxOutput = 1
SPECIFICATION SandboxSpec
PROPERTY CommandReturns
CHECK_DEADLOCK FALSE
