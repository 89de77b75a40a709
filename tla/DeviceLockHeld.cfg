SPECIFICATION FairSpec
CONSTANTS
  Devices = {a, b}
  Workers = {w1, w2}
  MaxCalls = 3
  MaxVersion = 3
  MaxFaults = 1
  None = None
INVARIANTS
  OneNode
  HeldUnlessTaken
  NothingLeftHeld
PROPERTY OldDeviceStops
CHECK_DEADLOCK FALSE
