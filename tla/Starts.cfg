CONSTANTS
  Events = {1, 2}
  Reviews = {2}
  Subjects <- MCSubjects
  PullRequests <- MCPullRequests
  SubjectOf <- OnPr
  Manual = {9}
  MaxTasks = 1
  NoEvent = NoEvent
  NoTask = NoTask
  CanOverflow = TRUE
  Deletable = {2}
  Settled = {}
  InitialMapping <- Unmapped
  InitialCommands = {"implement", "continue"}
  EditCommands = {"none", "ambiguous", "answer", "cancel"}
  UserPrompts = TRUE
  MaxEdits = 2
  MaxFaults = 1
SPECIFICATION Spec
INVARIANTS MappedWasPrompted
PROPERTIES PromptsAreFinal DeliveredWasPosted DiscardOnlyUnprompted
CONSTRAINT Orderly
