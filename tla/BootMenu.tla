------------------------------- MODULE BootMenu -------------------------------
(***************************************************************************)
(* The cartridge from power-on to the game: the ROM menu the console runs  *)
(* (gb-bootloader/bootloader.c) and the cartridge that serves it, loads    *)
(* the chosen ROM and hands the console over to it                         *)
(* (src/gb_bootloader.rs, the start and end of main in src/main.rs).       *)
(*                                                                         *)
(* The two share SRAM, which holds SharedGameboyData and, at $B000, a time *)
(* or a file name; the console's writes to $6000 reach the cartridge in    *)
(* order.  One action of the console is one frame: vsync, joypad and       *)
(* drawscreen; a frame that waits in runCommandAndWait is two.  What the   *)
(* screens print is left out, except which games the list shows and which  *)
(* line is highlighted.                                                    *)
(***************************************************************************)
EXTENDS ClockChip, FiniteSets

CONSTANTS
  Rows,       \* MAX_GAMES_RENDER_NUM, 16
  MaxListed,  \* u8::MAX
  MsgIds,     \* a message id is a byte: 256
  Inputs,     \* sets of keys joypad may return
  Systems,    \* what the cartridge starts with: the entries of the card's
              \*   root directory, in order, and the clock chip; and, to
              \*   bound the model, how often the clock is edited and set
  Built       \* BUILT_TIME_UTC

Key == {"up", "down", "left", "right", "a", "b", "select"}

\* What an entry of the root directory is: a ROM file and its size in banks, a
\* directory with a ROM's extension, a ROM file whose header is refused or whose
\* mapper is not one of main's, one whose short name is not UTF-8, or something the
\* menu does not list.
Kind == {"rom", "folder", "badheader", "badmapper", "badname", "other"}
Entry == [kind : Kind, banks : Nat]

ASSUME MenuAssumption ==
  /\ Rows \in Nat \ {0} /\ MaxListed \in Nat
  /\ MsgIds \in Nat /\ MsgIds > 2
  /\ Inputs \subseteq SUBSET Key
  /\ Systems \subseteq [card : Seq(Entry), chip : Chip, edits : Nat, sets : Nat]
  /\ Built \in Instant /\ InRange(Built)

VARIABLES
  (* the console *)
  pc,       \* "off", "frame", "await" in runCommandAndWait, "loading"
  input,    \* gCurrentInput of a frame that waits
  asked,    \* the command it waits for
  screen,   \* curScreen
  force,    \* gForceDrawScreen
  at,       \* gCursor and gPageCursor
  last,     \* gLastSelectedGame and gLastSelectedGamePage
  line,     \* gDMGHighlightLine, 0 for none
  drawn,    \* the list of games is on the screen,
  top,      \*   from this game on
  field,    \* selectionX
  clock,    \* real_rtc_
  (* shared memory and the bus *)
  count,    \* number_of_roms
  msgGb, msgRp,
  loaded,   \* loaded_banks
  mail,     \* what $B000 holds
  cmds,     \* writes the cartridge has not taken
  (* the cartridge *)
  rp,       \* where GbBootloader::run or main is
  card, chip,
  game,     \* the entry that was chosen
  held,     \* the reset line
  bank0,    \* the 16 KiB area bank0_base_addr_ptr points to, 3 at first
  area,     \* what is in gb_rom_memory's areas 0 to 2
  sram,     \* what is in SRAM: "old", "shared" data or the "save"
  gate,     \* the console's reads and writes of SRAM are served
  (* history *)
  dirty,    \* the clock on display was edited since it was read or set
  edits, sets  \* what is left of the bounds

screenVars == <<screen, force, at, last, line, drawn, top>>
clockVars == <<field, clock, dirty, edits>>
waitVars == <<input, asked, sets>>
sharedVars == <<count, msgGb, msgRp, loaded, mail, cmds>>
cartVars == <<rp, card, chip, game, held, bank0, area, sram, gate>>
vars == <<pc, waitVars, screenVars, clockVars, sharedVars, cartVars>>

\* A TimePoint: second, minute, hour, day and month from 0, year from 1970
Point == [0 .. 5 -> Byte]
First == <<0, 0, 0, 1, 1, 1970>>
ToPoint(t) == [i \in 0 .. 5 |-> t[6 - i] - First[i + 1]]
FromPoint(p) == <<p[5] + 1970, p[4] + 1, p[3] + 1, p[2], p[1], 0>>

Home == [cursor |-> 0, page |-> 0]
NoGame == 0
TimeMail(p) == [time |-> p, game |-> NoGame]
NameMail(i) == [time |-> [f \in 0 .. 5 |-> 42], game |-> i]

Init ==
  /\ pc = "off" /\ input = {} /\ asked = "none"
  /\ screen = "games" /\ force = TRUE /\ at = Home /\ last = Home
  /\ line = 0 /\ drawn = FALSE /\ top = 0
  /\ field = 1 /\ clock = [i \in 0 .. 5 |-> 0] /\ dirty = TRUE
  /\ count = 0 /\ msgGb = 0 /\ msgRp = 0 /\ loaded = 0 /\ mail = NameMail(NoGame)
  /\ cmds = <<>>
  /\ rp = "power"
  /\ \E s \in Systems : card = s.card /\ chip = s.chip /\ edits = s.edits /\ sets = s.sets
  /\ game = NoGame /\ held = TRUE /\ bank0 = 3 /\ area = [i \in 0 .. 2 |-> "none"]
  /\ sram = "old" /\ gate = TRUE

-----------------------------------------------------------------------------
(* moveCursor: the list is paged by Rows lines. *)

\* Mutant: the first line is not the end.
CursorUp_NoEnd(c) ==
  [cursor |-> c.cursor - 1, page |-> IF c.cursor - 1 < c.page THEN c.page - 1 ELSE c.page]

CursorUp(c) ==
  IF c.cursor = 0 THEN c
  ELSE [cursor |-> c.cursor - 1,
        page |-> IF c.cursor - 1 < c.page THEN c.page - 1 ELSE c.page]

\* Mutant: the page follows one line late.
CursorDown_Late(c, limit) ==
  IF c.cursor < limit - 1
  THEN [cursor |-> c.cursor + 1,
        page |-> IF c.cursor + 1 > c.page + Rows THEN c.page + 1 ELSE c.page]
  ELSE c

CursorDown(c, limit) ==
  IF c.cursor < limit - 1
  THEN [cursor |-> c.cursor + 1,
        page |-> IF c.cursor + 1 > c.page + Rows - 1 THEN c.page + 1 ELSE c.page]
  ELSE c

Back(n) == IF n >= Rows THEN n - Rows ELSE 0

PageUp(c) ==
  IF c.cursor = 0 THEN c ELSE [cursor |-> Back(c.cursor), page |-> Back(c.page)]

PageDown(c, limit) ==
  IF c.cursor < limit - 1
  THEN [cursor |-> IF c.cursor + Rows < limit THEN c.cursor + Rows ELSE limit - 1,
        page |-> IF c.page + 2 * Rows < limit THEN c.page + Rows ELSE limit - Rows]
  ELSE c

Moved(c, limit, keys) ==
  IF "up" \in keys THEN CursorUp(c)
  ELSE IF "down" \in keys THEN CursorDown(c, limit)
  ELSE IF "left" \in keys /\ limit > Rows THEN PageUp(c)
  ELSE IF "right" \in keys /\ limit > Rows THEN PageDown(c, limit)
  ELSE c

Redraws(limit, keys) ==
  \/ force \/ keys \cap {"up", "down"} # {}
  \/ limit > Rows /\ keys \cap {"left", "right"} # {}

\* at and the highlighted line after moveCursor(limit) in a frame with these keys
Line(c) == c.cursor - c.page + 1
MoveCursor(limit, keys) ==
  /\ at' = Moved(at, limit, keys)
  /\ line' = IF Redraws(limit, keys) THEN Line(at') ELSE line

-----------------------------------------------------------------------------
(* drawscreen: what follows the screen's own function *)

Stay == force' = FALSE /\ UNCHANGED screen

\* resetHighlights and cls
Goto(s) ==
  /\ screen' = s /\ force' = TRUE
  /\ at' = Home /\ line' = 0 /\ drawn' = FALSE

\* A frame of this screen that handles its keys at once
Frame(s, keys) ==
  /\ pc = "frame" /\ screen = s /\ keys \in Inputs
  /\ UNCHANGED <<waitVars, clockVars, cartVars>>

\* startGame: the name to $B000, then the command; the console then shows
\* the progress until it is reset.
StartGame(i) ==
  /\ mail' = NameMail(i)
  /\ cmds' = Append(cmds, "start")
  /\ pc' = "loading"
  /\ line' = 0 /\ drawn' = FALSE
  /\ at' = last
  /\ UNCHANGED <<screen, force, last, top, count, msgGb, msgRp, loaded>>

RenderGamelist(first) == drawn' = TRUE /\ top' = first

\* drawscreenGameMenu
LeaveGames(keys) ==
  /\ Frame("games", keys) /\ "select" \in keys
  /\ Goto("settings")
  /\ UNCHANGED <<pc, last, top, sharedVars>>

ChooseGame(keys) ==
  /\ Frame("games", keys) /\ "select" \notin keys
  /\ count # 0 /\ "a" \in keys
  /\ StartGame(last.cursor + 1)

BrowseGames(keys) ==
  /\ Frame("games", keys) /\ keys \cap {"select", "a"} = {}
  /\ count # 0
  /\ at' = Moved(last, count, keys)
  /\ line' = IF Redraws(count, keys) THEN Line(at') ELSE line
  /\ last' = at'
  /\ IF Redraws(count, keys) THEN RenderGamelist(at'.page) ELSE UNCHANGED <<drawn, top>>
  /\ Stay
  /\ UNCHANGED <<pc, sharedVars>>

NoGames(keys) ==
  /\ Frame("games", keys) /\ "select" \notin keys
  /\ count = 0
  /\ last' = at
  /\ Stay
  /\ UNCHANGED <<pc, at, line, drawn, top, sharedVars>>

\* drawscreenSettings
Chosen(c) == CASE c.cursor = 0 -> "clock" [] c.cursor = 1 -> "leds" [] OTHER -> "info"

Settings(keys) ==
  /\ Frame("settings", keys)
  /\ IF "b" \in keys THEN Goto("games")
     ELSE IF "a" \in keys THEN Goto(Chosen(Moved(at, 3, keys)))
     ELSE MoveCursor(3, keys) /\ Stay /\ UNCHANGED drawn
  /\ UNCHANGED <<pc, last, top, sharedVars>>

\* drawscreenRGBTester: A does nothing and hides the other keys
Leds(keys) ==
  /\ Frame("leds", keys)
  /\ IF "a" \notin keys /\ "select" \in keys THEN Goto("games")
     ELSE IF "a" \notin keys /\ "b" \in keys THEN Goto("settings")
     ELSE MoveCursor(4, keys) /\ Stay /\ UNCHANGED drawn
  /\ UNCHANGED <<pc, last, top, sharedVars>>

\* drawscreenSystemInfo
Info(keys) ==
  /\ Frame("info", keys)
  /\ IF "select" \in keys THEN Goto("games")
     ELSE IF "b" \in keys THEN Goto("settings")
     ELSE Stay /\ UNCHANGED <<at, line, drawn>>
  /\ UNCHANGED <<pc, last, top, sharedVars>>

-----------------------------------------------------------------------------
(* drawscreenSettingsRTC *)

\* Mutant: February always has 29 days.
MaxDay_AnyYear(year, month) ==
  IF month = 1 THEN 28 ELSE IF month \in {3, 5, 8, 10} THEN 29 ELSE 30

MaxDay(year, month) ==
  IF month = 1
  THEN IF (1970 + year) % 4 = 0
          /\ ((1970 + year) % 100 = 0 => (1970 + year) % 400 = 0)
       THEN 28 ELSE 27
  ELSE IF month \in {3, 5, 8, 10} THEN 29 ELSE 30

AtMost(n, most) == IF n > most THEN most ELSE n

\* sanitizeRTCReal
Sanitized(p) ==
  LET month == AtMost(p[4], 11)
  IN [p EXCEPT ![4] = month, ![3] = AtMost(@, MaxDay(p[5], month)),
               ![2] = AtMost(@, 23), ![1] = AtMost(@, 59)]

\* J_UP: past the end a field goes back to 0.
Increased(p, f) ==
  LET new == (p[f] + 1) % 256
      q == Sanitized([p EXCEPT ![f] = new])
  IN IF q[f] + 1 = new THEN [q EXCEPT ![f] = 0] ELSE q

Decreased(p, f) == Sanitized([p EXCEPT ![f] = (@ + 255) % 256])

\* runCommandAndWait up to its loop
Ask(cmd) ==
  /\ msgGb' = (msgGb + 1) % MsgIds
  /\ cmds' = Append(cmds, cmd)
  /\ pc' = "await" /\ asked' = cmd

\* What the keys do to the clock p on display, whose selected field is f
ClockKeys(keys, p, f) ==
  \/ /\ "b" \in keys
     /\ Goto("settings")
     /\ pc' = "frame"
     /\ clock' = p /\ field' = f
     /\ UNCHANGED <<asked, edits, sets, msgGb, mail, cmds>>
  \/ /\ "b" \notin keys /\ "a" \in keys
     /\ mail' = TimeMail(p)
     /\ Ask("set") /\ sets' = sets - 1
     /\ clock' = p /\ field' = f
     /\ UNCHANGED <<screen, force, at, line, drawn, edits>>
  \/ /\ keys \cap {"b", "a"} = {}
     /\ clock' = IF "up" \in keys THEN Increased(p, f)
                 ELSE IF "down" \in keys THEN Decreased(p, f) ELSE p
     /\ edits' = IF keys \cap {"up", "down"} # {} THEN edits - 1 ELSE edits
     /\ field' = IF keys \cap {"up", "down"} # {} THEN f
                 ELSE IF "left" \in keys THEN IF f < 5 THEN f + 1 ELSE f
                 ELSE IF "right" \in keys THEN IF f > 1 THEN f - 1 ELSE f
                 ELSE f
     /\ line' = IF force \/ keys \cap {"up", "down", "left", "right"} # {} THEN 0 ELSE line
     /\ Stay
     /\ pc' = "frame"
     /\ UNCHANGED <<asked, at, drawn, sets, msgGb, mail, cmds>>

Edits(keys) == keys \cap {"up", "down"} # {} /\ keys \cap {"a", "b"} = {}

WithinBounds(keys) ==
  /\ "a" \in keys => sets > 0
  /\ keys \cap {"up", "down"} # {} => edits > 0

\* The first frame of the screen asks for the time and waits,
AskTime(keys) ==
  /\ pc = "frame" /\ screen = "clock" /\ force
  /\ keys \in Inputs /\ WithinBounds(keys)
  /\ input' = keys /\ field' = 1
  /\ Ask("read")
  /\ UNCHANGED <<screenVars, clock, dirty, edits, sets, mail, count, msgRp, loaded, cartVars>>

\* and goes on when it has come.
ShowTime ==
  /\ pc = "await" /\ asked = "read" /\ msgGb = msgRp
  /\ ClockKeys(input, mail.time, field)
  /\ dirty' = Edits(input)
  /\ UNCHANGED <<input, last, top, count, msgRp, loaded, cartVars>>

EditTime(keys) ==
  /\ pc = "frame" /\ screen = "clock" /\ ~force
  /\ keys \in Inputs /\ WithinBounds(keys)
  /\ ClockKeys(keys, clock, field)
  /\ dirty' = (dirty \/ Edits(keys))
  /\ UNCHANGED <<input, last, top, count, msgRp, loaded, cartVars>>

TimeSet ==
  /\ pc = "await" /\ asked = "set" /\ msgGb = msgRp
  /\ Goto("settings")
  /\ pc' = "frame"
  /\ dirty' = FALSE
  /\ UNCHANGED <<waitVars, last, top, field, clock, edits, sharedVars, cartVars>>

-----------------------------------------------------------------------------
(* The cartridge.  The console's own variables change only when it is let *)
(* go and when it is reset.                                                *)

consoleVars == <<pc, waitVars, screenVars, clockVars>>

\* Entries with a ROM's extension, up to as many as the menu can hold
Listed == {i \in DOMAIN card : card[i].kind # "other"}
number_of_roms == AtMost(Cardinality(Listed), MaxListed)

\* The name the menu asks for is that of the n-th of them.
Rom(n) == card[CHOOSE i \in Listed : Cardinality({j \in Listed : j <= i}) = n]

SetClock ==
  /\ rp = "power"
  /\ rp' = "image"
  /\ chip' = Started(chip, Built)
  /\ UNCHANGED <<consoleVars, sharedVars, card, game, held, bank0, area, sram, gate>>

LoadMenu ==
  /\ rp = "image"
  /\ rp' = "list"
  /\ area' = [area EXCEPT ![1] = "menu"] /\ bank0' = 1
  /\ sram' = "shared"
  /\ count' = 0 /\ msgGb' = 0 /\ msgRp' = 0 /\ loaded' = 0
  /\ UNCHANGED <<consoleVars, mail, cmds, card, chip, game, held, gate>>

\* One of the entries the listing takes has a name that is not UTF-8.
BadName ==
  \E i \in Listed :
    card[i].kind = "badname" /\ Cardinality({j \in Listed : j < i}) < MaxListed

\* The listing, and the end of the console's reset.  A volume that cannot be
\* opened lists nothing.
ReleaseMenu ==
  /\ rp = "list"
  /\ \/ count' = 0
     \/ ~BadName /\ count' = number_of_roms
  /\ rp' = "menu"
  /\ held' = FALSE
  /\ UNCHANGED <<consoleVars, msgGb, msgRp, loaded, mail, cmds, card, chip, game, bank0,
                 area, sram, gate>>

Panic ==
  /\ rp' = "panic"
  /\ UNCHANGED <<consoleVars, sharedVars, card, chip, game, held, bank0, area, sram, gate>>

\* The volume is there, but the root directory cannot be opened or read, or one of
\* the names in it cannot be logged: the console is never let go.
CannotList ==
  /\ rp = "list"
  /\ Panic

\* The console's main up to its loop.  Its write to $0000, which would enable
\* SRAM, reaches the cartridge like a command.
StartMenu ==
  /\ pc = "off" /\ ~held /\ area[bank0] = "menu"
  /\ pc' = "frame"
  /\ cmds' = Append(cmds, "enable")
  /\ mail' = NameMail(NoGame)
  /\ msgGb' = 1
  /\ UNCHANGED <<waitVars, screenVars, clockVars, count, msgRp, loaded, cartVars>>

Take(cmd) ==
  /\ rp = "menu" /\ cmds # <<>> /\ Head(cmds) = cmd
  /\ cmds' = Tail(cmds)
  /\ UNCHANGED <<consoleVars, count, msgGb, loaded, card, held, bank0, area, sram, gate>>

TakeOther == Take("enable") /\ UNCHANGED <<rp, chip, game, msgRp, mail>>

\* Mutant: the answer counts for itself instead of returning the id.
TakeRead_OwnCount ==
  /\ Take("read")
  /\ mail' = TimeMail(ToPoint(Datetime(chip)))
  /\ msgRp' = (msgRp + 1) % MsgIds
  /\ UNCHANGED <<rp, chip, game>>

TakeRead ==
  /\ Take("read")
  /\ mail' = TimeMail(ToPoint(Datetime(chip)))
  /\ msgRp' = msgGb
  /\ UNCHANGED <<rp, chip, game>>

\* A date that does not exist is only reported; one the driver refuses panics.
TakeSet ==
  /\ Take("set")
  /\ LET t == FromPoint(mail.time)
     IN \/ /\ IsInstant(t) /\ ~InRange(t)
           /\ rp' = "panic"
           /\ UNCHANGED <<chip, msgRp>>
        \/ /\ IsInstant(t) /\ InRange(t)
           /\ chip' = SetDatetime(chip, t)
           /\ msgRp' = msgGb
           /\ UNCHANGED rp
        \/ /\ ~IsInstant(t)
           /\ msgRp' = msgGb
           /\ UNCHANGED <<rp, chip>>
  /\ UNCHANGED <<mail, game>>

TakeStart ==
  /\ Take("start")
  /\ rp' = "open" /\ game' = mail.game
  /\ UNCHANGED <<chip, msgRp, mail>>

Load == UNCHANGED <<consoleVars, count, msgGb, msgRp, mail, cmds, card, chip, game>>

OpenRom ==
  /\ rp = "open" /\ Rom(game).kind \in {"rom", "badmapper"}
  /\ rp' = "banks"
  /\ area' = [area EXCEPT ![0] = "first"] /\ loaded' = 1
  /\ Load /\ UNCHANGED <<held, bank0, sram, gate>>

\* The ROM file is not one, or the card does not answer while it is read.
CannotRead ==
  /\ rp \in {"open", "banks"}
  /\ Panic

\* Mutant: the banks pass through the area the menu runs from.
LoadBank_OverMenu ==
  /\ rp = "banks" /\ loaded < Rom(game).banks
  /\ area' = [area EXCEPT ![1] = "bank"] /\ loaded' = loaded + 1
  /\ Load /\ UNCHANGED <<rp, held, bank0, sram, gate>>

LoadBank ==
  /\ rp = "banks" /\ loaded < Rom(game).banks
  /\ area' = [area EXCEPT ![2] = "bank"] /\ loaded' = loaded + 1
  /\ Load /\ UNCHANGED <<rp, held, bank0, sram, gate>>

\* Reset, then bank 0 of the game for the menu's, then the save
StopMenu ==
  /\ rp = "banks" /\ loaded >= Rom(game).banks
  /\ rp' = "restore"
  /\ held' = TRUE /\ bank0' = 0
  /\ pc' = "off"
  /\ UNCHANGED <<waitVars, screenVars, clockVars, sharedVars, card, chip, game, area, sram, gate>>

Restore ==
  /\ rp = "restore"
  /\ rp' = "mapper"
  /\ sram' = "save"
  /\ Load /\ UNCHANGED <<held, bank0, area, loaded, gate>>

\* main: the accesses to SRAM off, the mapper, and the console's release
StartMapper ==
  /\ rp = "mapper" /\ gate
  /\ gate' = FALSE
  /\ rp' = IF Rom(game).kind = "badmapper" THEN "panic" ELSE "release"
  /\ Load /\ UNCHANGED <<held, bank0, area, sram, loaded>>

ReleaseGame ==
  /\ rp = "release"
  /\ rp' = "game" /\ held' = FALSE
  /\ Load /\ UNCHANGED <<bank0, area, sram, gate, loaded>>

-----------------------------------------------------------------------------
Console ==
  \/ StartMenu \/ ShowTime \/ TimeSet
  \/ \E keys \in Inputs :
       \/ LeaveGames(keys) \/ ChooseGame(keys) \/ BrowseGames(keys) \/ NoGames(keys)
       \/ Settings(keys) \/ Leds(keys) \/ Info(keys)
       \/ AskTime(keys) \/ EditTime(keys)

Cartridge ==
  \/ SetClock \/ LoadMenu \/ ReleaseMenu \/ CannotList
  \/ TakeOther \/ TakeRead \/ TakeSet \/ TakeStart
  \/ OpenRom \/ CannotRead \/ LoadBank \/ StopMenu
  \/ Restore \/ StartMapper \/ ReleaseGame

Next == Console \/ Cartridge

\* The cartridge and a console that waits go on; nobody has to press a key.
Spec ==
  /\ Init /\ [][Next]_vars
  /\ WF_vars(Cartridge)
  /\ WF_vars(StartMenu) /\ WF_vars(ShowTime) /\ WF_vars(TimeSet)

-----------------------------------------------------------------------------
Position == [cursor : Nat, page : Nat]
Mail == [time : Point, game : Nat]
Commands == {"enable", "read", "set", "start"}

\* The variables have their types.
TypeOK ==
  /\ pc \in {"off", "frame", "await", "loading"}
  /\ input \in SUBSET Key /\ asked \in {"none", "read", "set"}
  /\ screen \in {"games", "settings", "leds", "info", "clock"}
  /\ force \in BOOLEAN /\ drawn \in BOOLEAN /\ dirty \in BOOLEAN
  /\ at \in Position /\ last \in Position /\ line \in Nat /\ top \in Nat
  /\ field \in 1 .. 5 /\ clock \in Point
  /\ count \in Nat /\ msgGb \in 0 .. MsgIds - 1 /\ msgRp \in 0 .. MsgIds - 1
  /\ loaded \in Nat /\ mail \in Mail /\ cmds \in Seq(Commands)
  /\ rp \in {"power", "image", "list", "menu", "open", "banks", "restore", "mapper",
             "release", "game", "panic"}
  /\ card \in Seq(Entry) /\ chip \in Chip /\ game \in Nat
  /\ held \in BOOLEAN /\ bank0 \in 0 .. 3
  /\ area \in [0 .. 2 -> {"none", "menu", "first", "bank"}]
  /\ sram \in {"old", "shared", "save"} /\ gate \in BOOLEAN
  /\ edits \in Nat /\ sets \in Nat

\* Whenever the list of games is on the screen, the game that A would start is
\* a game of the list, it is one of the lines shown, its line is the one
\* highlighted, and a list longer than the screen fills it.
CursorShown ==
  screen = "games" /\ drawn =>
    /\ last.cursor < count
    /\ top = last.page
    /\ line = last.cursor - top + 1 /\ line \in 1 .. Rows
    /\ count >= Rows => top + Rows <= count

\* The clock a frame shows and nobody has edited since it was read or set is
\* the chip's, but for the seconds: every date the keys can reach is one the
\* chip takes, and what it takes it reads back.
ClockAgrees ==
  pc = "frame" /\ ~dirty =>
    \A i \in 1 .. 5 : clock[i] = ToPoint(Datetime(chip))[i]

\* The console never runs on an image, or with an SRAM, that is not complete:
\* while it is let go, the menu's image, its shared data and its access to SRAM
\* are there, or all of the game's banks and its save are and the mapper's gate
\* is shut.
RunsOneImage ==
  ~held =>
    \/ rp # "game" /\ area[bank0] = "menu" /\ sram = "shared" /\ gate
    \/ /\ rp = "game" /\ area[bank0] = "first" /\ sram = "save" /\ ~gate
       /\ loaded >= Rom(game).banks

\* Unless the cartridge panics, the menu comes up, a console that waits for the
\* clock goes on, and one that shows the progress is reset into the game.
MenuGoesOn ==
  /\ <>(pc = "frame" \/ rp = "panic")
  /\ pc = "await" ~> pc = "frame" \/ rp = "panic"
  /\ pc = "loading" ~> rp \in {"game", "panic"}

\* The comment at the end of set_datetime: an oscillator that ran before the
\* date was set runs after it.
ClockKeepsRunning == [][Running(chip) => Running(chip)']_vars

=============================================================================
