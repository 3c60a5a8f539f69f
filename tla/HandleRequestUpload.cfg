CONSTANTS
  Alphabet <- AllSymbols
  MaxRecv = 3
  Faults = {}
  Exchanges <- PostExchange
  Peers <- BothClosed
  Memory <- SomeMemory
  External = {FALSE}
SPECIFICATION Spec
CHECK_DEADLOCK FALSE
INVARIANTS
  RequestBodyIsSent
