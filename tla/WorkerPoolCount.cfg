CONSTANTS
  Addresses = {a1, a2}
  NULL = NULL
  Main = Main
  maxchild = 2
  MaxFailures = 1
SPECIFICATION Spec
CHECK_DEADLOCK FALSE
INVARIANTS
  ConnectedIsCount
