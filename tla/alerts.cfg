CONSTANTS
  s1 = s1
  s2 = s2
  v1 = v1
  d1 = d1
  Nobody = Nobody
  Sources <- MCSources
  Services <- MCServices
  Dests <- MCDests
  FormTypes <- MCTypes
  Filters <- MCFilters
  MaxPerBatch = 1
  MaxQueue = 2
  ExposureEvery = 2
  Cooldown = 2
  AlertFaults <- MCFaults
SPECIFICATION AlertsFairSpec
INVARIANT AlertsTypeOK
INVARIANT LastWordIsCurrent
PROPERTY BanAlertsAreNews
PROPERTY WorkerMovesOn
