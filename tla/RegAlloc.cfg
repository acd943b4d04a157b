SPECIFICATION Spec
CONSTANTS
  NumRegs = 3
  Inputs <- MCInputs
INVARIANTS
  TypeOK
  OperandsAreWhereExpected
  AllocationKeepsTheMeaning
  NoRegisterLeaks
  FreeRegistersHoldNothing
  EnoughRegisters
