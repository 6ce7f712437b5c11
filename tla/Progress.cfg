SPECIFICATION FairSpec
CONSTANTS
  Fd = {f1, f2, f3}
  NoFd = NoFd
  Callback = {}
  Calls = {"switched", "connect", "write"}
  Payload = {"text"}
  Pipelining = FALSE
  DestLeaves = FALSE
  MaxFiles = 3
  MaxMsgs = 2
  MaxConns = 3
INVARIANT SwitchedHasRecord
PROPERTIES EventFilled SwitchTransfers TxDrains
