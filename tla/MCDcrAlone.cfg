CONSTANTS
  a1 = a1
  hk = hk
  gateway = gateway
  keeper = keeper
  Handlers = {}
  Housekeeper = hk
  Processes = {gateway, keeper}
  ProcessOf <- MCProcessOf
  MaxHealing = 1
  MaxClients = 4
  MaxVersion = 2
  MaxFaults = 3

SPECIFICATION Spec

INVARIANT CurrentIsActive
