CONSTANTS
  t1 = t1
  x1 = x1
  a1 = a1
  Absent = Absent
  Tables <- OneTable
  Cidrs <- OneCidr
  Contents <- MCContents
  Callers <- OneCaller
  Overlap = FALSE
  MaxVersions = 1
  Faults <- AnyFault
  MaxForeign = 0
SPECIFICATION DriftSpec
INVARIANT DriftTypeOK
INVARIANT AppliedIsLoaded
PROPERTY WindowUndisturbed
PROPERTY AlarmHasCause
