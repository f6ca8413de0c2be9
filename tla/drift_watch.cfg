CONSTANTS
  t1 = t1
  x1 = x1
  a1 = a1
  Absent = Absent
  Tables <- OneTable
  Cidrs <- OneCidr
  Contents <- MCContents
  Callers <- NoCaller
  Overlap = FALSE
  MaxVersions = 2
  Faults <- NoFault
  MaxForeign = 1
SPECIFICATION DriftFairSpec
PROPERTY AlarmHasCause
PROPERTY FlagConverges
