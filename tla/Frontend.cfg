CONSTANTS
  i1 = i1
  i2 = i2
  i3 = i3
  Reader = Reader
  Nobody = Nobody
  Ids = {i1, i2, i3}
  MaxConcurrent = 2
  MaxAsked = 2
SPECIFICATION FairFrontendSpec
CHECK_DEADLOCK FALSE
PROPERTIES NoLateAnswer CallsFinish
