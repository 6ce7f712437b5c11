SPECIFICATION Spec
CONSTANTS
  Base = 3
  Word = 64
  Types = {1}
  UserTypes = {2}
  Content = {0, 2}
  NULL = NULL
  MaxSize = 7
  Unit = 5
  MaxPayload = 2
  Interrupts = FALSE
  MaxMsgs = 1
INVARIANT ReadWasWritten
