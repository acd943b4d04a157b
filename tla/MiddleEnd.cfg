SPECIFICATION Spec
CONSTANTS
  N = 4
  Inputs <- MCInputs
INVARIANTS
  TypeOK
  DestinationsKept
  NoDanglingTarget
PROPERTIES
  ReturnsUnlessJumpCycle
  ThreadsJumps
