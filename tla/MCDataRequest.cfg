SPECIFICATION FairSpec
CONSTANTS
  DefaultPageSize = 2
  Lengths <- MCLengths
  Since <- MCSince
  ScopeChoices <- MCScopeChoices
  Openings <- MCOpenings
  LastIteration = 2
  MaxFaults = 3
INVARIANTS
  TypeOK
  WalksReadEverything
  ReadOnce
  ReachesItsResource
  HealsTransientFaults
PROPERTIES
  EveryRequestIsAnswered
  ReadsTheList
CHECK_DEADLOCK FALSE
