CONSTANTS
  a1 = a1
  a2 = a2
  hk = hk
  d1 = d1
  Consents = {1}
  Handlers <- MCHandlers
  Housekeeper = hk
  DataHolders = {d1}
  DhOf <- MCDhOf
  Durations = {0, 2, 3}
  AccessTTL = 1
  RefreshTTL = 2
  DefaultRefreshTTL = 4
  UseArrangementEndpoint = TRUE
  PropagationWindow = 2
  SyncTTL = 1
  MaxHealing = 1
  LastTime <- MCThreeTicks
  MaxFaults = 1

SPECIFICATION Spec
SYMMETRY Symmetry

PROPERTY SyncRevokesEndedConsents

\* every request ends and the clock stops at LastTime
CHECK_DEADLOCK FALSE
