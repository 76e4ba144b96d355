CONSTANTS
  r1 = r1
  r2 = r2
  r3 = r3
  r4 = r4
  c1 = c1
  c2 = c2
  Requests <- MCRequests
  Claims <- MCClaims

SPECIFICATION Spec

INVARIANTS
  TypeOK
  NoReplay

PROPERTIES
  FreshIsAccepted

\* every request ends
CHECK_DEADLOCK FALSE
