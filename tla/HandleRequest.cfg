CONSTANTS
  Alphabet <- AllSymbols
  MaxRecv = 3
  Faults = {"timeout", "interrupt", "pollError", "reset", "partialSend", "blockingSend", "sendError", "recvError"}
  Exchanges <- AllExchanges
  Peers <- ServerCloses
  Memory <- SomeMemory
  External = {TRUE, FALSE}
SPECIFICATION MCSpec
CHECK_DEADLOCK FALSE
INVARIANTS
  HandledRequestIsComplete
  NoAssertWithoutFaults
  ClientGetsTheResponse
  ServerGetsTheRequest
PROPERTIES
  GoodRequestIsServed
  WorkerEnds
