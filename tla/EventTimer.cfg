SPECIFICATION TimerSpec
CONSTANTS
  Tick = 3
  Ms = 3
  Period = 4
  Late = 2
  MaxCalls = 4
INVARIANT NoDrift
PROPERTY TimerRunsOut
