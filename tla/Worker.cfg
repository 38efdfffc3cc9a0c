SPECIFICATION MCSpec
CONSTANTS
  Requests = {r1, r2, r3}
  Actions = {"configure-gpu-memory", "prepare-gpu", "install-updates"}
  MaxOps = 2
  MaxBoots = 3
  HistoryLimit = 1
  StateLoss = TRUE
SYMMETRY RequestSymmetry
INVARIANTS TypeOK OneActiveUnlessLost AtMostOnce
PROPERTIES SecondRestartAfterBoot AcknowledgedFirst ConsentedBoot NoRevival
CHECK_DEADLOCK FALSE
