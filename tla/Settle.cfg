CONSTANTS
  Events = {0, 1, 2}
  Reviews = {2}
  Subjects <- MCSubjects
  PullRequests <- MCPullRequests
  SubjectOf <- Split
  Manual = {}
  MaxTasks = 2
  NoEvent = NoEvent
  NoTask = NoTask
  CanOverflow = FALSE
  Deletable = {}
  Settled = {0}
  InitialMapping <- HalfMapped
  InitialCommands = {"continue", "cancel"}
  EditCommands = {}
  UserPrompts = FALSE
  MaxEdits = 0
  MaxFaults = 2
SPECIFICATION FairSpec
PROPERTIES EventsSettle DeliveriesSettle
