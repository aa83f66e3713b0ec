SPECIFICATION FairSpec
CONSTANTS
  Conn = {c1}
  Container = {k1, k2}
  Event = {summary}
  UnknownEvent = {}
  CacheFor = 1
  RowTTL = 2
  Timeout = 1
  MaxRetries = 1
  MaxPings = 1
  MaxFaults = 2
  NoTTL = NoTTL
  NoConn = NoConn
  NoEvent = NoEvent
PROPERTIES
  GoneClientsAreForgotten
  OpenClientsAreRegistered
  EventsAreSettled
