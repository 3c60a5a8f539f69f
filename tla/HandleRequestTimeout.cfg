CONSTANTS
  Alphabet <- AllSymbols
  MaxRecv = 3
  Faults = {"timeout"}
  Exchanges <- OneExchange
  Peers <- BothClosed
  Memory <- SomeMemory
  External = {FALSE}
SPECIFICATION Spec
CHECK_DEADLOCK FALSE
INVARIANTS
  NoAssertFailure
