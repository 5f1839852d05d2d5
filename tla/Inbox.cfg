CONSTANTS
  alice = alice
  Callers <- MCOne
  MaxCalls = 3
  Timeout = 1
  MaxKills = 1
  MaxCrashes = 1
CHECK_DEADLOCK FALSE
SPECIFICATION Spec
INVARIANTS OkIsDone
PROPERTIES OverIsNotBegun CallsInOrder
