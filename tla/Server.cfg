SPECIFICATION Spec
CONSTANTS
  Fd = {f1, f2, f3}
  NoFd = NoFd
  Callback = {}
  Calls = {"server", "external", "write", "close", "shutdown"}
  Payload = {"text"}
  Pipelining = TRUE
  DestLeaves = TRUE
  MaxFiles = 4
  MaxMsgs = 2
  MaxConns = 4
SYMMETRY Symmetry
INVARIANTS TypeOK TxRegistered DescriptorsOwned NoMisdelivery
PROPERTY ImplementsOutbox
