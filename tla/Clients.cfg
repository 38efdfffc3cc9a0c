SPECIFICATION MCSpec
CONSTANTS
  Requests = {r1}
  Actions = {"reboot", "poweroff", "prepare-gpu", "configure-gpu-memory", "scan-wifi", "configure-updates", "install-updates", "apply-software-channel", "configure-network"}
  MaxOps = 1
  MaxBoots = 2
  HistoryLimit = 1
  StateLoss = FALSE
  Entities <- MCEntities
  Protected <- MCProtected
  DeviceLife = 8
  TerminalFaults = 1
  TerminalInputs = 2
  Shells = {c1, c2}
  CommandFaults = 1
  Cards = {g1, g2}
  EditInputs = 2
  ForeignEdits = 1
  References = {"u1", "u2", "u3"}
  TaskOf <- MCTaskOf
  Found <- MCFound
  Presets <- MCPresets
  CreateInputs = 3
  CreateFaults = 1
  Reviews = 2
  HostEvents = 1
  PageFaults = 1
  FormInputs = 5
  OtherEdits = 1
  FormFaults = 1
INVARIANTS ConsoleSafe ModelFormsTrue DoneAsReviewed ScreenTrue
PROPERTIES ChangesKept NobodyWaits
CHECK_DEADLOCK FALSE
