SPECIFICATION Spec
CONSTANTS
  Node = {n1, n2}
  Color = {red}
  NoColor = NoColor
  Chatty = FALSE
  Warm = TRUE
  MaxChanges = 2
  MaxQueue = 2
  MaxCrashes = 0
  MaxLost = 0
  MaxTwice = 0
SYMMETRY NodeSymmetry
INVARIANTS
  RestIsDesired
  RestIsSettled
CHECK_DEADLOCK FALSE
