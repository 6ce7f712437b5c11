SPECIFICATION Spec
CONSTANTS
  Fd = {f1, f2, f3}
  NoFd = NoFd
  Callback = {cb}
  Calls = {"switched", "connect", "callbacks", "callbacks_", "close", "write"}
  Payload = {"text"}
  Pipelining = TRUE
  DestLeaves = TRUE
  MaxFiles = 3
  MaxMsgs = 2
  MaxConns = 3
SYMMETRY Symmetry
INVARIANT SwitchdbCoherent
PROPERTY ImplementsOutbox
