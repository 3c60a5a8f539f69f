CONSTANTS
  Alphabet <- AllSymbols
  MaxRecv = 3
  Faults = {"timeout", "interrupt", "reset", "partialSend", "blockingSend"}
  Cases <- Mixed
  Inputs <- InputsOf
  FilterPairs <- PairsOf
  MaxCalls <- MixedCalls
  Peers <- OneCloses
  Contents <- ShortContents
  Bodies <- SomeBodies
SPECIFICATION FairSpec
CHECK_DEADLOCK FALSE
INVARIANTS
  TypeOK
  NoByteLost
  FiltersTakeTheirParts
  FailedAssertsHaveACause
  FramingIsValid
  OneChunkIsTransparent
  QuitsAtTheLastChunk
PROPERTIES
  ReturnsWhenDone
  ImplementsHoleStreams
  CallsEnd
  CompleteBodyIsDelivered
