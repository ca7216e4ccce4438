------------------------------- MODULE SeedPort -------------------------------
(***************************************************************************)
(* The signer as the game sees it: the frontend in the game's ROM          *)
(* (integrations/pokecrystal/native/seed.asm), the bus writes it makes,    *)
(* core 0 that serves them (src/crystal_seed.rs, Bus::write) and the link  *)
(* with its worker, SeedLink.  The three run at their own pace: the        *)
(* console reads the 38 bytes of the status window while core 0 rewrites   *)
(* them.                                                                   *)
(***************************************************************************)
EXTENDS SeedLink, Sequences

CONSTANTS
  ReportPages,  \* pages of a report; 4 in the code
  QrPages,      \* pages fetched when the report says state 7; 11 in the code
  SeqMod,       \* the publication sequence is a byte: 256 in the code
  BusDepth,     \* writes that may await core 0
  NoPage,       \* a page never published: its version byte is 0
  MaxRestarts   \* bound on restarts of the game in one power cycle

\* The sequence byte does not come round while the writes that await core 0 are
\* served.
ASSUME PortAssumption ==
  /\ ReportPages \in Nat \ {0} /\ QrPages \in Nat /\ QrPages >= ReportPages
  /\ SeqMod \in Nat /\ SeqMod > 2 /\ SeqMod % 2 = 0
  /\ BusDepth \in Nat /\ BusDepth >= 2 /\ 2 * BusDepth < SeqMod
  /\ MaxRestarts \in Nat

VARIABLES
  bus,        \* the writes core 0 has not yet taken, oldest first
  command,    \* Bus.command
  publishing, \* the page core 0 is copying into the window
  cpc,        \* where core 0 is in the copy
  window,     \* SeedLinkPage, the 38 bytes in the game's ROM
  fpc,        \* where the frontend is
  fetching,   \* SeedSend has its ticket acknowledged and fetches pages
  sending,    \* the command SeedSend was called with
  opening,    \* it was called by CrystalSeed itself, before the menu is shown
  wSeedTicket, wSeedFailed, wSeedPage,
  seen,       \* the sequence byte SeedReadPage keeps on the stack
  wSeedStage, \* the copy of the window
  wSeedReport,\* the pages fetched
  restarts,   \* history: restarts of the game
  stale       \* history: no page has been published since the last restart

linkVars == vars
coreVars == <<command, publishing, cpc, window>>
sendVars == <<fetching, sending, opening, wSeedTicket, wSeedFailed>>
readVars == <<wSeedPage, seen, wSeedStage, wSeedReport>>
history == <<restarts, stale>>
portVars == <<linkVars, bus, coreVars, fpc, sendVars, readVars, history>>

\* The window: byte 0, bytes 1 to 3, bytes 4 to 36, byte 37.
EmptyWindow ==
  [seq |-> 0, ack |-> 0, busy |-> FALSE, index |-> 0, payload |-> NoPage, tail |-> 0]
NoReport == [i \in 0 .. QrPages - 1 |-> NoPage]

PortInit ==
  /\ Init
  /\ bus = <<>> /\ command = NoCommand
  /\ publishing = NoPage /\ cpc = "pull" /\ window = EmptyWindow
  /\ fpc = "game" /\ fetching = FALSE /\ sending = NoCommand /\ opening = FALSE
  /\ wSeedTicket = 0 /\ wSeedFailed = FALSE
  /\ wSeedPage = 0 /\ seen = 0 /\ wSeedStage = EmptyWindow /\ wSeedReport = NoReport
  /\ restarts = 0 /\ stale = FALSE

-----------------------------------------------------------------------------
\* Core 0: Bus::write

NextSeq == (window.seq + 2) % SeqMod

\* $7000
SetCommand ==
  /\ cpc = "pull" /\ bus # <<>> /\ Head(bus).address = "command"
  /\ command' = Head(bus).data
  /\ bus' = Tail(bus)
  /\ UNCHANGED <<linkVars, publishing, cpc, window, history>>

\* $7001
SubmitTicket ==
  /\ cpc = "pull" /\ bus # <<>> /\ Head(bus).address = "ticket"
  /\ Submit(Head(bus).data, command)
  /\ bus' = Tail(bus)
  /\ UNCHANGED <<coreVars, history>>

\* Link::page, the frame and its neighbours as of one moment
Page(i) ==
  [seq |-> NextSeq, ack |-> ack, busy |-> active # NoRequest, index |-> i,
   payload |-> [frame |-> frame, page |-> i], tail |-> NextSeq]

\* $7002: the first byte turns odd, the others follow, the first one seals.
OpenPage ==
  /\ cpc = "pull" /\ bus # <<>> /\ Head(bus).address = "page"
  /\ publishing' = Page(Head(bus).data)
  /\ window' = [window EXCEPT !.seq = NextSeq + 1]
  /\ cpc' = "status"
  /\ bus' = Tail(bus)
  /\ stale' = FALSE
  /\ UNCHANGED <<linkVars, command, restarts>>

CopyStatus ==
  /\ cpc = "status"
  /\ window' = [window EXCEPT !.ack = publishing.ack, !.busy = publishing.busy,
                              !.index = publishing.index]
  /\ cpc' = "payload"
  /\ UNCHANGED <<linkVars, bus, command, publishing, history>>

CopyPayload ==
  /\ cpc = "payload"
  /\ window' = [window EXCEPT !.payload = publishing.payload, !.tail = publishing.tail]
  /\ cpc' = "seal"
  /\ UNCHANGED <<linkVars, bus, command, publishing, history>>

SealPage ==
  /\ cpc = "seal"
  /\ window' = [window EXCEPT !.seq = publishing.seq]
  /\ publishing' = NoPage
  /\ cpc' = "pull"
  /\ UNCHANGED <<linkVars, bus, command, history>>

Core0 ==
  /\ SetCommand \/ SubmitTicket \/ OpenPage \/ CopyStatus \/ CopyPayload \/ SealPage
  /\ UNCHANGED <<fpc, sendVars, readVars>>

Core1 ==
  /\ Worker
  /\ UNCHANGED <<bus, coreVars, fpc, sendVars, readVars, history>>

-----------------------------------------------------------------------------
\* The frontend: seed.asm

Writes(w) == bus' = bus \o w
Write(a, d) == [address |-> a, data |-> d]

\* Mutant: 0 is not skipped.
NextTicket_WrapsToZero == IF wSeedTicket = MaxTicket THEN 0 ELSE wSeedTicket + 1

\* Tickets wrap at a byte and skip 0.
NextTicket == IF wSeedTicket = MaxTicket THEN 1 ELSE wSeedTicket + 1

\* SeedSend up to its wait: the command, then the next ticket, written once.
SeedSend(c) ==
  /\ epoch < MaxEpoch /\ Len(bus) + 2 <= BusDepth
  /\ wSeedTicket' = NextTicket
  /\ Writes(<<Write("command", c), Write("ticket", wSeedTicket')>>)
  /\ sending' = c /\ fetching' = FALSE
  /\ wSeedFailed' = FALSE /\ wSeedPage' = 0
  /\ fpc' = "ask"
  /\ UNCHANGED <<linkVars, coreVars, seen, wSeedStage, wSeedReport, history>>

\* CrystalSeed opens with a LOCK.
CrystalSeed ==
  /\ fpc = "game"
  /\ SeedSend(Lock)
  /\ opening' = TRUE

\* Mutant: a failure does not keep the menu from sending commands.
SeedInput_AfterFailure ==
  /\ fpc = "menu"
  /\ \E c \in Command : SeedSend(c)
  /\ UNCHANGED opening

\* SeedInput: after a failure only B is heard, and it sends a LOCK.
SeedInput ==
  /\ fpc = "menu"
  /\ \E c \in Command : (wSeedFailed => c = Lock) /\ SeedSend(c)
  /\ UNCHANGED opening

\* Mutant: SeedLockExit leaves whether the LOCK is answered or not.
Return_LeavesAnyway(ok) ==
  /\ fpc' = IF opening THEN IF ok THEN "menu" ELSE "missing"
            ELSE IF sending = Lock THEN "leave" ELSE "menu"
  /\ wSeedFailed' = ~ok
  /\ opening' = FALSE

\* The end of SeedSend: to the menu, or to "Signer unavailable", or, with a LOCK
\* sent by SeedLockExit and answered, out.
Return(ok) ==
  /\ fpc' = IF opening THEN IF ok THEN "menu" ELSE "missing"
            ELSE IF ok /\ sending = Lock THEN "leave" ELSE "menu"
  /\ wSeedFailed' = ~ok
  /\ opening' = FALSE

\* Out of the menu, or out of "Signer unavailable" with B; the private bytes of
\* work RAM are wiped.
Leave ==
  /\ fpc \in {"leave", "missing"}
  /\ fpc' = "game"
  /\ wSeedReport' = NoReport
  /\ UNCHANGED <<linkVars, bus, coreVars, sendVars, wSeedPage, seen, wSeedStage, history>>

\* SeedReadPage asks and lets a frame pass.
AskPage ==
  /\ fpc = "ask" /\ Len(bus) < BusDepth
  /\ Writes(<<Write("page", wSeedPage)>>)
  /\ fpc' = "head"
  /\ UNCHANGED <<linkVars, coreVars, sendVars, readVars, history>>

\* A page that is not accepted ends the fetch; before it, the wait goes on.
Reject ==
  IF fetching
  THEN Return(FALSE) /\ UNCHANGED <<fetching, sending, wSeedTicket>>
  ELSE fpc' = "again" /\ UNCHANGED sendVars

\* The frame that passes is much longer than a publication takes.  What is used
\* of that is only that the first page of a game just restarted is there.
ReadHead ==
  /\ fpc = "head" /\ ~stale
  /\ IF window.seq % 2 = 1
     THEN Reject /\ UNCHANGED seen
     ELSE fpc' = "status" /\ seen' = window.seq /\ UNCHANGED sendVars
  /\ UNCHANGED <<linkVars, bus, coreVars, wSeedPage, wSeedStage, wSeedReport, history>>

ReadStatus ==
  /\ fpc = "status"
  /\ wSeedStage' = [wSeedStage EXCEPT !.ack = window.ack, !.busy = window.busy,
                                      !.index = window.index]
  /\ fpc' = "payload"
  /\ UNCHANGED <<linkVars, bus, coreVars, sendVars, wSeedPage, seen, wSeedReport, history>>

ReadPayload ==
  /\ fpc = "payload"
  /\ wSeedStage' = [wSeedStage EXCEPT !.payload = window.payload, !.tail = window.tail]
  /\ fpc' = "verify"
  /\ UNCHANGED <<linkVars, bus, coreVars, sendVars, wSeedPage, seen, wSeedReport, history>>

\* Mutant: the first byte is not looked at again.
Verified_Once ==
  /\ wSeedStage.tail = seen
  /\ wSeedStage.payload # NoPage
  /\ wSeedStage.index = wSeedPage

\* The page was not rewritten while it was copied, and is the one asked for.
Verified ==
  /\ window.seq = seen /\ wSeedStage.tail = seen
  /\ wSeedStage.payload # NoPage
  /\ wSeedStage.index = wSeedPage

\* What SeedReadPage has copied is used at once and not looked at again.
Forget == seen' = 0 /\ wSeedStage' = EmptyWindow

Refuse ==
  /\ fpc = "verify" /\ ~Verified
  /\ Reject
  /\ Forget
  /\ UNCHANGED <<linkVars, bus, coreVars, wSeedPage, wSeedReport, history>>

\* While it waits, SeedSend looks for its ticket with nothing at work.
Poll ==
  /\ fpc = "verify" /\ Verified /\ ~fetching
  /\ IF wSeedStage.ack = wSeedTicket /\ ~wSeedStage.busy
     THEN fpc' = "ask" /\ fetching' = TRUE /\ wSeedPage' = 0
     ELSE fpc' = "again" /\ UNCHANGED <<fetching, wSeedPage>>
  /\ Forget
  /\ UNCHANGED <<linkVars, bus, coreVars, sending, opening, wSeedTicket, wSeedFailed,
                 wSeedReport, history>>

\* The state byte of the report, in its first page.
ShowsQr(report) == report[0].frame # Blank /\ report[0].frame.shows = "qr"
PageCount(report) == IF ShowsQr(report) THEN QrPages ELSE ReportPages

FetchPage ==
  /\ fpc = "verify" /\ Verified /\ fetching
  /\ wSeedReport' = [wSeedReport EXCEPT ![wSeedPage] = wSeedStage.payload]
  /\ wSeedPage' = wSeedPage + 1
  /\ IF wSeedPage' < ReportPages \/ wSeedPage' < PageCount(wSeedReport')
     THEN fpc' = "ask" /\ UNCHANGED <<opening, wSeedFailed>>
     ELSE Return(TRUE)
  /\ Forget
  /\ UNCHANGED <<linkVars, bus, coreVars, fetching, sending, wSeedTicket, history>>

\* 1200 polls of a frame each: within a poll or by and by.
Again ==
  /\ fpc = "again"
  /\ fpc' = "ask"
  /\ UNCHANGED <<linkVars, bus, coreVars, sendVars, readVars, history>>

\* After 1200 frames core 0 has long served the bus.
TimeOut ==
  /\ fpc = "again" /\ bus = <<>> /\ cpc = "pull"
  /\ Return(FALSE)
  /\ UNCHANGED <<linkVars, bus, coreVars, fetching, sending, wSeedTicket, readVars, history>>

Frontend ==
  \/ CrystalSeed \/ SeedInput \/ Leave
  \/ AskPage \/ ReadHead \/ ReadStatus \/ ReadPayload \/ Refuse
  \/ Poll \/ FetchPage \/ Again \/ TimeOut

-----------------------------------------------------------------------------

FrontendReset ==
  /\ fpc' = "game" /\ fetching' = FALSE /\ sending' = NoCommand /\ opening' = FALSE
  /\ wSeedTicket' = 0 /\ wSeedFailed' = FALSE
  /\ wSeedPage' = 0 /\ seen' = 0 /\ wSeedStage' = EmptyWindow /\ wSeedReport' = NoReport

\* The game restarts, external to the repository: it clears work RAM, and the
\* cartridge does not notice.  It takes longer than core 0 takes for the bus.
Restart ==
  /\ restarts < MaxRestarts /\ bus = <<>> /\ cpc = "pull"
  /\ FrontendReset
  /\ restarts' = restarts + 1 /\ stale' = TRUE
  /\ UNCHANGED <<linkVars, bus, coreVars>>

PowerCycle ==
  /\ Reset /\ FrontendReset
  /\ bus' = <<>> /\ command' = NoCommand
  /\ publishing' = NoPage /\ cpc' = "pull" /\ window' = EmptyWindow
  /\ restarts' = 0 /\ stale' = FALSE

PortNext == Core0 \/ Core1 \/ Frontend \/ Restart \/ PowerCycle

PortSpec == PortInit /\ [][PortNext]_portVars

-----------------------------------------------------------------------------
\* Properties

Payload == {NoPage} \cup [frame : Result \cup {Blank}, page : 0 .. QrPages - 1]

PortTypeOK ==
  /\ TypeOK
  /\ \A i \in 1 .. Len(bus) :
       bus[i] \in [address : {"command"}, data : Command]
             \cup [address : {"ticket"}, data : Ticket]
             \cup [address : {"page"}, data : 0 .. QrPages - 1]
  /\ command \in Command \cup {NoCommand}
  /\ window.seq \in 0 .. SeqMod - 1 /\ window.payload \in Payload
  /\ cpc \in {"pull", "status", "payload", "seal"}
  /\ fpc \in {"game", "menu", "missing", "leave", "ask", "head", "status", "payload",
              "verify", "again"}
  /\ wSeedTicket \in Ticket \cup {0} /\ wSeedPage \in 0 .. QrPages
  /\ wSeedStage.payload \in Payload /\ wSeedReport \in [0 .. QrPages - 1 -> Payload]

\* What the menu shows is one answer of the signer, whole, and the answer to the
\* ticket last sent: SeedReadPage and the sequence byte never let two
\* publications or two frames be mixed.
ShownIsOneAnswer ==
  (fpc = "menu" /\ ~wSeedFailed) =>
    LET f == wSeedReport[0].frame IN
    /\ f # Blank /\ f.of.ticket = wSeedTicket
    /\ \A i \in 0 .. PageCount(wSeedReport) - 1 :
         wSeedReport[i] = [frame |-> f, page |-> i]

\* The player who leaves the menu leaves a locked signer behind, with nothing in
\* the frame but the answer to a LOCK (SeedLockExit waits for it).
LeavesLocked ==
  [][fpc = "leave" /\ fpc' = "game" =>
       session = "locked" /\ frame # Blank /\ frame.of.command = Lock]_portVars

\* No command of the menu is turned away by Link::submit, whose answer Bus::write
\* drops: the frontend sends only when nothing is at work, or a LOCK.
NeverTurnedAway ==
  [][bus # <<>> /\ bus' = Tail(bus) /\ Head(bus).address = "ticket" =>
       Accepts(Head(bus).data, command) \/ command = Lock]_portVars

=============================================================================
