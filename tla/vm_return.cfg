\* An event function calls a script function.
CONSTANTS
  Function <- Shapes
  MainLocals = 2
  MaxArgs = 2
  MaxDepth = 2
  MaxQueue = 2
  MaxListeners = 1
  HandlersCall = TRUE
SPECIFICATION Spec
INVARIANT ResultOnTop
