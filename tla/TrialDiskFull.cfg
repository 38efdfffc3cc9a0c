SPECIFICATION MCSpec
CONSTANTS
  Originals <- Installed
  MaxTrials = 2
  MaxBoots = 2
  Faults = {"disk"}
PROPERTY FailedUnchanged
CHECK_DEADLOCK FALSE
