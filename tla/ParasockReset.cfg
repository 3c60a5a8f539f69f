CONSTANTS
  Alphabet <- AllSymbols
  MaxRecv = 2
  Faults = {"reset"}
  Cases <- Tunnel
  Inputs <- InputsOf
  FilterPairs <- PairsOf
  MaxCalls <- TunnelCalls
  Peers <- AllClosed
  Contents <- ShortContents
  Bodies <- NoBodies
SPECIFICATION Spec
CHECK_DEADLOCK FALSE
INVARIANTS
  NoAssertFailure
