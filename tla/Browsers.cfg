CONSTANTS
  c1 = c1
  c2 = c2
  None = None
  Calls = {c1, c2}
  Engines = {"chromium", "firefox"}
  Default = "chromium"
  QueueSize = 1
  Chunks = 2
SPECIFICATION Spec
CHECK_DEADLOCK FALSE
INVARIANTS AdmittedIsServed CapturedIsWritten CancelsOnlyOwn
