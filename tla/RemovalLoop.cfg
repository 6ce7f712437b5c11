SPECIFICATION Spec
CONSTANTS
  Fd = {3, 4, 5}
  MaxMessages = 5
INVARIANTS
  InBounds
  RemovesExactly
  MatchesClosedForm
PROPERTY
  Terminates
