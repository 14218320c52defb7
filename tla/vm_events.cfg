\* Event functions call native functions only; programs are run again while somebody is open.
CONSTANTS
  Function <- Shapes
  MainLocals = 2
  MaxArgs = 2
  MaxDepth = 2
  MaxQueue = 2
  MaxListeners = 2
  HandlersCall = FALSE
SPECIFICATION FairSpec
INVARIANTS TypeOK StackIsAccounted ResultOnTop QueueHoldsEvents
PROPERTY WaitsForSomebody
