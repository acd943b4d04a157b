SPECIFICATION Spec
CONSTANTS
  Inputs <- MCInputs
  Longest = 4
INVARIANT OptimizationKeepsTheMeaning
PROPERTY EndsWithCleanCode
