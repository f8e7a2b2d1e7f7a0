SPECIFICATION FairSpec
CONSTANTS
  Clients = {c1, c2}
  MaxTries = 2
  MaxExits = 1
CHECK_DEADLOCK FALSE
INVARIANTS
  TypeOK
  OkMeansHandled
  HandledInOrder
PROPERTIES
  NobodyIsWedged
