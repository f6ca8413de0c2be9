CONSTANTS
  t1 = t1
  s1 = s1
  guard = guard
  Absent = Absent
  Tables <- OneTable
  Contents <- MCContents
  Sources <- OneSource
  Guards <- MCContents
  BanTime = 3
  MaxBans = 1
  MaxVersions = 1
  Faults <- NoFault
SPECIFICATION BanSpec
INVARIANT NoEndlessBan
