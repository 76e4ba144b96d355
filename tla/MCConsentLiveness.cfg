CONSTANTS
  a1 = a1
  a2 = a2
  hk = hk
  d1 = d1
  Consents = {1, 2}
  Handlers = {a1}
  Housekeeper = hk
  DataHolders = {d1}
  DhOf <- MCDhOf
  Durations = {2}
  AccessTTL = 1
  RefreshTTL = 2
  DefaultRefreshTTL = 4
  UseArrangementEndpoint = TRUE
  PropagationWindow = 2
  SyncTTL = 1
  MaxHealing = 1
  LastTime <- MCFirstLonger
  MaxFaults = 2

SPECIFICATION FairSpec
PROPERTIES
  RevocationsPropagate
  DenialIsRecorded

\* every request ends and the clock stops at LastTime
CHECK_DEADLOCK FALSE
