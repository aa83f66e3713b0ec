SPECIFICATION Spec
CONSTANTS
  Conn = {c1, c2}
  Container = {k1}
  Event = {summary}
  UnknownEvent = {}
  CacheFor = 2
  RowTTL = 2
  Timeout = 1
  MaxRetries = 0
  MaxPings = 1
  MaxFaults = 1
  NoTTL = NoTTL
  NoConn = NoConn
  NoEvent = NoEvent
SYMMETRY ConnSymmetry
INVARIANTS
  TypeOK
  NoPostToDeparted
PROPERTIES
  NoRegisteredClientSkipped
  OpenClientKept
