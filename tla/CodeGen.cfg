SPECIFICATION Spec
CONSTANTS
  N = 4
  Inputs <- MCInputs
INVARIANTS
  TypeOK
  EachBlockOnce
  LabelsAreDefined
  OnlyReachableBlocks
  FallsThroughToNewBlocks
PROPERTY
  Terminates
