SPECIFICATION Spec
CONSTANTS
  Fd = {3, 4, 5, 6}
  NoFd = 0
  Payload = {"text", "empty", "bad"}
  MaxFiles = 5
  MaxMsgs = 2
CHECK_DEADLOCK FALSE
INVARIANTS DescriptorsOwned SwitchesPaired OutHasMessage
PROPERTIES ImplementsOutbox TxDrains PairsEnd
