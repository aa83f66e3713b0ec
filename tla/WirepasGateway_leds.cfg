SPECIFICATION FairSpec
CONSTANTS
  Node = {n1}
  Color = {red}
  NoColor = NoColor
  Chatty = TRUE
  Warm = FALSE
  MaxChanges = 2
  MaxQueue = 2
  MaxCrashes = 1
  MaxLost = 1
  MaxTwice = 1
INVARIANTS
  TypeOK
  RestIsDesired
  RestIsReported
  RestIsSettled
PROPERTY LedsFollowDesired
