\* Expressions of up to four operands over one local and five registers.
CONSTANTS
  x = x
  Local = {x}
  MaxRegister = 5
  Wrap = 16
  MaxStack = 4
  Programs = {}
SPECIFICATION Spec
INVARIANTS TypeOK OperandsIntact RegistersReturned
