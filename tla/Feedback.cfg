CONSTANTS
  Events = {0, 1, 2, 3}
  Reviews = {2, 3}
  Subjects <- MCSubjects
  PullRequests <- MCPullRequests
  SubjectOf <- OnPr
  Manual = {9}
  MaxTasks = 1
  NoEvent = NoEvent
  NoTask = NoTask
  CanOverflow = FALSE
  Deletable = {}
  Settled = {0}
  InitialMapping <- Mapped
  InitialCommands = {"continue", "cancel"}
  EditCommands = {}
  UserPrompts = FALSE
  MaxEdits = 0
  MaxFaults = 4
SPECIFICATION Spec
INVARIANTS CollectedIsQuiet QueuedIsCarried CancelWithdraws
PROPERTIES SubjectOrder DeliveredReachedAgent PostedIsSealed PromptedOnce
CONSTRAINT OneRegistration
