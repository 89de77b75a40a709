SPECIFICATION Spec
CONSTANTS
  Devices = {a, b}
  Workers = {w1}
  MaxCalls = 4
  MaxVersion = 3
  MaxFaults = 0
  None = None
PROPERTY
  TakeoverNoticed
CHECK_DEADLOCK FALSE
