SPECIFICATION Spec
CONSTANTS
  NumRegs = 3
  Inputs <- MCInputs
PROPERTY ArithmeticKeepsVariables
