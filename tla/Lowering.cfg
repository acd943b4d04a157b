SPECIFICATION Spec
CONSTANTS
  Statements <- AllStatements
  MaxNodes = 6
  MaxFunctions = 1
INVARIANTS
  TypeOK
  NeverPastATerminator
  FinishedProgramIsWellFormed
  FlowIsPreserved
  AbortsOnlyForStrayJumps
  AcceptedFunctionsReturn
