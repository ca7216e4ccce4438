SPECIFICATION Spec
CONSTANTS
  Rows = 3
  MaxListed = 2
  MsgIds = 3
  Inputs <- MCInputs
  Systems <- MCSystems
  Built <- MCBuilt
PROPERTIES ClockKeepsRunning
CHECK_DEADLOCK FALSE
