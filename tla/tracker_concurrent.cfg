\* Admins whose requests overlap, clients that disconnect, a process that
\* crashes at any point; the statements themselves succeed.
SPECIFICATION MCSpec
CONSTANTS
  Ids = {i1, i2}
  Hosts = {h1, h2}
  NoHost = NoHost
  NoId = NoId
  MaxPlayers = 1
  Requests = {r1, r2}
  MaxInFlight = 2
  Disconnects = TRUE
  Crashes = TRUE
  DbFaults = FALSE
SYMMETRY Perms
INVARIANTS PeakDurable RemovalLogged
PROPERTY CatalogSpec
CHECK_DEADLOCK FALSE
