CONSTANTS
  Writer = {w1}
  Offsets = 3
  Valid <- SecondInvalid
  BatchMax = 2
  Names = {1, 2}
  MaxCrashes = 1
  TornCommits = FALSE
SPECIFICATION FairSpec
PROPERTIES
  EventuallyStored
CHECK_DEADLOCK FALSE
