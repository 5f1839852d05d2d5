CONSTANTS
  e1 = e1
  e2 = e2
  e3 = e3
  k1 = k1
  s1 = s1
  s2 = s2
  w1 = w1
  w2 = w2
  Execs = {e1, e2, e3}
  Stops = {k1}
  SessionOf <- Session
  WorkspaceOf <- Workspace
  Workspaces = {w1, w2}
  Sessions = {s1, s2}
  Nobody = Nobody
  NoCall = NoCall
  MaxRuntimes = 1
  Crowds <- TwoOfThem
  MaxFaults = 1
SPECIFICATION FairSpec
CHECK_DEADLOCK FALSE
INVARIANTS NoOrphans ClosedIsEmpty
PROPERTIES ImplementsLeases EvictsOnlyEmpty CallsAnswered
