CONSTANTS
  t1 = t1
  t2 = t2
  c1 = c1
  Absent = Absent
  Tables <- MCTables
  Contents <- MCContents
  MaxVersions = 2
  Faults <- AnyFault
SPECIFICATION Spec
INVARIANT TypeOK
INVARIANT RevertOnlyAfterWindow
PROPERTY ImplementsSafeApply
PROPERTY ConfirmedStays
SYMMETRY Symm
INVARIANT StatusSettled
INVARIANT LatestAppliedLoaded
INVARIANT LedgerIsConfirmed
PROPERTY NeverTouchesForeign
