CONSTANTS
  t1 = t1
  x1 = x1
  a1 = a1
  Absent = Absent
  Tables <- OneTable
  Cidrs <- OneCidr
  Contents <- MCContents
  Callers <- OneCaller
  Overlap = TRUE
  MaxVersions = 1
  Faults <- NoFault
SPECIFICATION SyncSpec
INVARIANT QuietMeansLoaded
