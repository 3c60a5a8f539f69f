CONSTANTS
  Addresses = {a1, a2, a3}
  NULL = NULL
  Main = Main
  maxchild = 2
  MaxFailures = 1
SPECIFICATION FairSpec
CHECK_DEADLOCK FALSE
INVARIANTS
  TypeOK
  ListIsLinked
  CountIsRegistered
  AtMostMaxchild
  ThreadidIsWrittenToAWorker
PROPERTIES
  WorkersGoAway
  
