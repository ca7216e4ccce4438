SPECIFICATION FairSpec
CONSTANTS
  MaxTicket = 3
  Work = {"work", "sign"}
  Lock = "lock"
  NoCommand = "none"
  NoRequest = NoRequest
  Blank = Blank
  MaxEpoch = 6
INVARIANTS TypeOK FrameIsCurrent NoTicketRunsTwice
PROPERTIES KeepsPromise Answered
