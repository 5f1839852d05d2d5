CONSTANTS
  i1 = i1
  i2 = i2
  s1 = s1
  s2 = s2
  NoSubject = NoSubject
  Items = {i1, i2}
  Subjects = {s1, s2}
  SubjectOf <- TwoSubjects
  Reviews = {i2}
  Authorized = {i1, i2}
  Grace = 2
  Delay = 1
  ScanTime = 1
  DryRun = TRUE
  MaxEdits = 1
  MaxFailures = 1
  MaxCrashes = 1
SPECIFICATION FairSpec
CHECK_DEADLOCK FALSE
INVARIANTS NothingSkipped FreshIsTaken
PROPERTIES CommandsRun
