SPECIFICATION MCSpec
CONSTANTS
  MaxCommits = 2
  MaxRequests = 3
  Shutdowns = TRUE
PROPERTIES ResumesReady SnapshotKept OnlyReviewed PausedWhileBlocked Repaired
