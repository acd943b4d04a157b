SPECIFICATION CompilerSpec
CONSTANTS
  Statements <- MCStatements
  MaxNodes = 5
  MaxFunctions = 2
INVARIANTS
  PassesGetWhatTheyAssume
  CompiledFlowIsSourceFlow
PROPERTY
  CleanProgramsAreOptimized
