\* Calls with up to one argument too few or too many; variables of up to three
\* functions around the one that captures them; any function called by any other.
CONSTANTS
  Locals = 2
  Formals = 1
  MaxArgs = 2
  MaxCalls = 3
  MaxUpValues = 3
SPECIFICATION Spec
INVARIANTS ClosureTypeOK UpValuesKeepVariables
CHECK_DEADLOCK FALSE
