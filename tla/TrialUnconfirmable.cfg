SPECIFICATION HostPagesSpec
CONSTANTS
  Reviews = 2
  HostEvents = 1
  PageFaults = 1
INVARIANTS TrialConfirmable
CHECK_DEADLOCK FALSE
