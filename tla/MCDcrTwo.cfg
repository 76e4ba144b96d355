CONSTANTS
  a1 = a1
  hk = hk
  gateway = gateway
  keeper = keeper
  Handlers = {a1}
  Housekeeper = hk
  Processes = {gateway, keeper}
  ProcessOf <- MCProcessOf
  MaxHealing = 1
  MaxClients = 3
  MaxVersion = 2
  MaxFaults = 0

SPECIFICATION Spec

INVARIANT AtMostOneCurrent
