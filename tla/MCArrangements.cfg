CONSTANTS
  s1 = s1
  s2 = s2
  a1 = a1
  a2 = a2
  Requests = {1, 2}
  States <- MCStates
  StatesFor <- MCStatesFor
  DhConsents = {1, 2}
  Handlers <- MCHandlers
  MaxHealing = 1
  HasPar = TRUE
  UsePar = FALSE
  MaxFaults = 1

SPECIFICATION FairSpec
INVARIANTS
  TypeOK
  OwnVerifier
  ConsumedCodeIsSaved
  ArrangementsAgree
  ReportRevokesAll
PROPERTIES
  GrantedIsConfirmed

\* every request is answered in the end
CHECK_DEADLOCK FALSE
