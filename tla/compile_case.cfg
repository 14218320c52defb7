\* Cases may be expressions, of any switch.
CONSTANTS
  x = x
  Local = {x}
  MaxRegister = 5
  Wrap = 16
  MaxStack = 4
  Programs = {"cases"}
SPECIFICATION Spec
PROPERTY SwitchValueStays
