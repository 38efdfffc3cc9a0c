SPECIFICATION MCSpec
CONSTANTS
  Tests = {t1, t2}
  LeafFaults = 1
  Phases <- MCPhases
  CampaignFaults = 2
  DrillCases <- MCCases
  DrillFaults = 2
  DrillBoots = 3
  LateSharers = FALSE
  PendingLimit = 2
  ValidationFaults = 2
  MaxEdits = 2
  ScenarioFaults = 2
  Callers = {c1, c2}
  Intents = {i1}
  LoginChanges = 2
  LoginFaults = 1
  Pinned = 2
  PinAttempts = 2
  ClusterEdits = 1
INVARIANTS StepTrue VerdictTrue DrillSafe ReadingsTrue
PROPERTIES FenceHolds LoginGuarded RunEnds
CHECK_DEADLOCK FALSE
