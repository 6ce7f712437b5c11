SPECIFICATION Spec
CONSTANTS
  p1 = p1
  p2 = p2
  q = q
  c = c
  pong = pong
  net = net
  u1 = u1
  u2 = u2
  Server <- MCServer
  Client <- MCClient
  Service = {pong, net}
  Serves <- MCServes
  User = {u1, u2}
  UserOf <- MCUserOf
  Anyone = Anyone
  None = None
  Depth = 2
  MaxStarts = 3
INVARIANTS Reachable StartSucceeds NoStalePath
PROPERTY StartReturns
