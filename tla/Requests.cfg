CONSTANTS
  Kinds = {"assignment", "review_requested"}
  MayReopen = TRUE
  Ties = FALSE
  MaxEvents = 4
  MaxFaults = 2
SPECIFICATION Spec
PROPERTIES CurrentIsTaken CancelsOlder
