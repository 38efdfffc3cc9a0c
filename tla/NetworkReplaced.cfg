SPECIFICATION Spec
CONSTANTS
  Requests = {r1, r2}
  Actions = {"configure-network", "reboot"}
  MaxOps = 2
  MaxBoots = 2
  HistoryLimit = 1
  StateLoss = FALSE
SYMMETRY RequestSymmetry
INVARIANT OneActive
CHECK_DEADLOCK FALSE
