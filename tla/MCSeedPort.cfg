SPECIFICATION PortSpec
CONSTANTS
  MaxTicket = 2
  Work = {"work"}
  Lock = "lock"
  NoCommand = "none"
  NoRequest = NoRequest
  Blank = Blank
  MaxEpoch = 4
  ReportPages = 2
  QrPages = 3
  SeqMod = 6
  BusDepth = 2
  NoPage = NoPage
  MaxRestarts = 1
INVARIANTS PortTypeOK ShownIsOneAnswer
PROPERTIES LeavesLocked NeverTurnedAway
