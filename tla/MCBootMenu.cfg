SPECIFICATION Spec
CONSTANTS
  Rows = 3
  MaxListed = 7
  MsgIds = 3
  Inputs <- MCInputs
  Systems <- MCSystems
  Built <- MCBuilt
INVARIANTS TypeOK CursorShown ClockAgrees RunsOneImage
PROPERTIES MenuGoesOn
CHECK_DEADLOCK FALSE
