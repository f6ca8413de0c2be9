CONSTANTS
  t1 = t1
  s1 = s1
  guard = guard
  Absent = Absent
  Tables <- OneTable
  Contents <- MCContents
  Sources <- OneSource
  Guards <- MCContents
  BanTime = 3
  MaxBans = 1
  MaxVersions = 2
  Faults <- CrashNft
SPECIFICATION BanFairSpec
INVARIANT BanTypeOK
INVARIANT LiftedStays
INVARIANT PendingHasTimer
PROPERTY BansSurvive
PROPERTY ResolvedWhileWorking
