\* Two admins at once: the PATCH that writes last may refresh the list first.
SPECIFICATION MCFullSpec
CONSTANTS
  Ids = {i1}
  Hosts = {h1, h2}
  NoHost = NoHost
  NoId = NoId
  MaxPlayers = 1
  Requests = {r1, r2}
  MaxInFlight = 2
  Disconnects = FALSE
  Crashes = FALSE
  DbFaults = FALSE
INVARIANT EntriesMatchRows
CHECK_DEADLOCK FALSE
