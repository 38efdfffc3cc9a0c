SPECIFICATION MCSpec
CONSTANTS
  Originals <- Installed
  MaxTrials = 2
  MaxBoots = 2
  Faults = {"recovery", "foreign"}
INVARIANTS RunningMatches StatusTrue
PROPERTIES KeptStays AtomicChange ResolvedUnlessRare
CHECK_DEADLOCK FALSE
