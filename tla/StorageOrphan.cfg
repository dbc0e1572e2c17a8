CONSTANTS
  Writer = {w1}
  Offsets = 3
  Valid <- AllValid
  BatchMax = 2
  Names = {1, 2}
  MaxCrashes = 1
  TornCommits = TRUE
SPECIFICATION FairSpec
PROPERTIES
  EventuallyStored
CHECK_DEADLOCK FALSE
