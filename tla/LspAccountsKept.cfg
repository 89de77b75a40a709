SPECIFICATION Spec
CONSTANTS
  Nodes = {"a", "b"}
  Bills <- AllBills
  Scenarios <- AllScenarios
  CustodyMax = 7
  AccountMax = 2
  MinFee = 1
  Dust = 1
  Safety = 1
  Deadline = 3
  MaxAhead = 1
  MaxSends = 2
  MaxCrashes = 1
INVARIANTS
  ServedOnce
  ChargedExactly
  HeldOnce
PROPERTIES
  AccountKept
CHECK_DEADLOCK FALSE
