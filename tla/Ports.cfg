CONSTANTS
  c1 = c1
  c2 = c2
  p1 = p1
  p2 = p2
  NoPort = NoPort
  Conns = {c1, c2}
  Ports = {p1, p2}
  MaxPorts = 2
  MaxRuns = 2
  MaxChanges = 3
SPECIFICATION FairSpec
CHECK_DEADLOCK FALSE
INVARIANTS ReachesWhatItOpened GoneIsClosed
PROPERTIES ServerIsShown
