CONSTANTS
  MaxTickets = 5
  MaxLength = 2
SPECIFICATION Spec
CHECK_DEADLOCK FALSE
INVARIANTS
  TypeOK
  WireInOrder
  NothingPastAHole
  HolesAreHeld
  KnownIsNonempty
PROPERTY
  ImplementsHoleStream
