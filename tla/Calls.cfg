CONSTANTS
  c1 = c1
  c2 = c2
  Calls = {c1, c2}
  MaxExecs = 1
  QueueSize = 2
  PipeSize = 1
  MaxChunks <- OneWrites
SPECIFICATION FairSpec
CHECK_DEADLOCK FALSE
INVARIANTS OutputBeforeExit IdleIsEmpty
PROPERTIES SlotsReturn
