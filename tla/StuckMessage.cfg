SPECIFICATION FairSpec
CONSTANTS
  Fd = {f1, f2, f3}
  NoFd = NoFd
  Callback = {}
  Calls = {"switched", "connect", "write"}
  Payload = {"text"}
  Pipelining = FALSE
  DestLeaves = TRUE
  MaxFiles = 3
  MaxMsgs = 1
  MaxConns = 3
PROPERTIES TxDrains
