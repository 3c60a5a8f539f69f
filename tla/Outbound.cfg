SPECIFICATION FairSpec
CHECK_DEADLOCK FALSE
CONSTANTS
  CommandLines <- SomeCommandLines
  Resolve <- AddressOf
  SleepBits = 8
  Lines <- SomeLines
  TooShort <- TooShortLine
  Meant <- MeantBy
  CharOf <- CodeOf
INVARIANTS
  ListensWhereAsked
  ConnectedToTheNamedServer
  RequestIsOriginForm
  RecursionIsDetected
PROPERTIES
  StartupEnds
  TargetIsRead
