SPECIFICATION Spec
CONSTANTS
  Base = 3
  Word = 64
  Types = {1}
  UserTypes = {2}
  Content = {0, 2}
  NULL = NULL
  MaxSize = 7
  Unit = 1
  MaxPayload = 2
  Interrupts = TRUE
  MaxMsgs = 2
INVARIANTS Intact OneAtATime
PROPERTY EveryMessageRead
