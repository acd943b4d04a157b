SPECIFICATION Spec
CONSTANTS
  main = "main"
  Fun = {"main", "g", "h"}
  numArgs <- NumArgs
  calledBy <- CalledBy
  declares <- Declares
  needs <- Needs
  NumRegs = 2
  heapStart = 40
  MaxSteps = 7
INVARIANTS
  VariablesAgree
  RegistersAgree
  CallersResume
CHECK_DEADLOCK FALSE
