SPECIFICATION Spec
CONSTANTS
  Conn = {c1}
  Container = {k1}
  Event = {summary, shadow}
  UnknownEvent = {shadow}
  CacheFor = 2
  RowTTL = 3
  Timeout = 1
  MaxRetries = 1
  MaxPings = 1
  MaxFaults = 0
  NoTTL = NoTTL
  NoConn = NoConn
  NoEvent = NoEvent
PROPERTY DisconnectedStayDeregistered
