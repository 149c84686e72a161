\* One archive that cannot be unpacked.
SPECIFICATION FairSpec
CONSTANTS
  Ips = {a}
  Tasks = {t1}
  MaxRelease = 2
  MaxCrashes = 0
  Hangs = FALSE
  BadArchives = TRUE
  IoFaults = FALSE
PROPERTY ReleasesArrive
