SPECIFICATION Spec
CONSTANTS
  Pong = {p1, p2}
  Spam = {s1}
  Signalled = {p1, s1}
  Rounds = 2
  Burst = 2
  MaxLines = 1
CHECK_DEADLOCK FALSE
INVARIANTS EchoConserved PongServed
PROPERTIES FailureCause EchoesReturn ClientsForgotten
