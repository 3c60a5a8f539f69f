CONSTANTS
  Capacity = 2
  MaxRecv = 2
  Totals <- AllTotals
  Kinds <- AllKinds
SPECIFICATION FairSpec
CHECK_DEADLOCK FALSE
INVARIANTS
  EveryByteIsSomewhere
  OnlyAFullPeerStopsIt
PROPERTIES
  FittingPeersAreServed
