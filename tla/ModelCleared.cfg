SPECIFICATION ModelEditSpec
CONSTANTS
  Cards = {g1, g2}
  EditInputs = 2
  ForeignEdits = 1
PROPERTIES ClearedGone
CHECK_DEADLOCK FALSE
