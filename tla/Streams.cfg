CONSTANTS
  c1 = c1
  Relays = {c1}
  MaxConnections = 1
  MaxStreams = 1
  QueueSize = 2
  ReadSize = 2
  MaxPending = 2
  Up <- OneUp
  Down <- OneDown
SPECIFICATION StreamsFairSpec
CHECK_DEADLOCK FALSE
INVARIANTS CreditsAgree ToldHasAll
PROPERTIES StreamsEnd
