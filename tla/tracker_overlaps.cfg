\* Handlers that overlap, clients that disconnect, statements that fail and a
\* process that restarts: table, list, log and samples of every server whose
\* own handlers neither met nor were cut short.
SPECIFICATION MCSpec
CONSTANTS
  Ids = {i1, i2}
  Hosts = {h1, h2}
  NoHost = NoHost
  NoId = NoId
  MaxPlayers = 0
  Requests = {r1, r2}
  MaxInFlight = 2
  Disconnects = TRUE
  Crashes = TRUE
  DbFaults = TRUE
SYMMETRY Perms
INVARIANTS ListMatchesTable EventsTellTheStory
PROPERTY SamplesOfTrackedRows
CHECK_DEADLOCK FALSE
