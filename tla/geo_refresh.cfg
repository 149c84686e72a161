\* Two lookups racing refreshes that may fail or hang at each step, with a
\* crash between any two of them.  A process whose first download hangs does
\* nothing any more: no deadlock is looked for.
SPECIFICATION FairSpec
CONSTANTS
  Ips = {a, b}
  Tasks = {t1, t2}
  MaxRelease = 2
  MaxCrashes = 1
  Hangs = TRUE
  BadArchives = TRUE
  IoFaults = TRUE
INVARIANTS CacheCurrent
PROPERTIES MemoryFollowsFile ReleasesArriveOrBreak
CHECK_DEADLOCK FALSE
