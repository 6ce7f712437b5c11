SPECIFICATION Spec
CONSTANTS
  MaxCalls = 3
INVARIANTS ContextLeads LeaksBounded
PROPERTIES FallsBack RemoteUsed CallReturns
