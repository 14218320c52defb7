\* A function that goes on after a call, its variable captured.
CONSTANTS
  Locals = 1
  Formals = 0
  MaxArgs = 0
  MaxCalls = 1
  MaxUpValues = 1
SPECIFICATION Spec
INVARIANT ClosuresSeeVariables
CHECK_DEADLOCK FALSE
