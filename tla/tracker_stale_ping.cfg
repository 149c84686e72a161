\* An address changed while the old one is being pinged.
SPECIFICATION MCFullSpec
CONSTANTS
  Ids = {i1}
  Hosts = {h1, h2}
  NoHost = NoHost
  NoId = NoId
  MaxPlayers = 1
  Requests = {r1, r2}
  MaxInFlight = 1
  Disconnects = FALSE
  Crashes = FALSE
  DbFaults = FALSE
INVARIANT MeasuredAtOwnAddress
CHECK_DEADLOCK FALSE
