CONSTANTS
  a1 = a1
  hk = hk
  gateway = gateway
  keeper = keeper
  Handlers = {a1}
  Housekeeper = hk
  Processes = {gateway, keeper}
  ProcessOf <- MCProcessOf
  MaxHealing = 1
  MaxClients = 2
  MaxVersion = 2
  MaxFaults = 1

SPECIFICATION FairSpec

INVARIANT TypeOK
PROPERTIES
  RegistrationSettles
  EventuallyUpToDate
