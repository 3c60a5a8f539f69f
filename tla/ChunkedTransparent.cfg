CONSTANTS
  Alphabet <- AllSymbols
  MaxRecv = 3
  Faults = {}
  Cases <- Two
  Inputs <- InputsOf
  FilterPairs <- PairsOf
  MaxCalls <- TwoCalls
  Peers <- OneCloses
  Contents <- NoContents
  Bodies <- TwoChunks
SPECIFICATION Spec
CHECK_DEADLOCK FALSE
INVARIANTS
  ChunkingIsTransparent
