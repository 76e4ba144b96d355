CONSTANTS
  request = request
  housekeeper = housekeeper
  Name <- MCName
  Node <- MCNode
  Preassertions <- MCPreassertions
  Dependencies <- MCDependencies
  Trail <- MCTrail
  Cached <- MCCached
  MinAge <- MCMinAge
  MaxAge <- MCMaxAge
  Client = {request, housekeeper}
  Target <- MCTarget
  IgnoreCache <- MCIgnoreCache
  MaxHealing = 3
  Status <- MCStatus
  Address <- MCAddress
  Reads <- MCReads
  Carries <- MCCarries
  Judges <- MCJudges
  Calls <- MCCalls
  Forwards <- MCForwards
  Delay <- MCDelay
  Unnoticed <- MCUnnoticed
  LastVersion <- MCLastVersion
  MaxChanges = 1
  MaxFailures = 0
  AgeCap = 3

SPECIFICATION Spec

INVARIANTS
  TypeOK
  NoticedWithinMaxAges
