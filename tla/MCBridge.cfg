SPECIFICATION Spec
CONSTANTS
  Threads = {"t1", "t2"}
  Scenarios <- MCScenarios
  MaxCalls = 2
  Blocks = {1, 2, 3, 4, 5, 6, 7, 8}
  None = None
INVARIANTS BuffersKept OutputDelivered TouchIsOfThisCall ForkedChildStops

PROPERTIES CallsEnd
