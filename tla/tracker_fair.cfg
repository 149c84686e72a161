\* Liveness under every fault; one server at one address, so that the fair
\* graph stays small.
SPECIFICATION MCFairSpec
CONSTANTS
  Ids = {i1}
  Hosts = {h1}
  NoHost = NoHost
  NoId = NoId
  MaxPlayers = 0
  Requests = {r1, r2}
  MaxInFlight = 2
  Disconnects = TRUE
  Crashes = TRUE
  DbFaults = TRUE
PROPERTIES CyclesEnd RequestsEnd
CHECK_DEADLOCK FALSE
