------------------------------- MODULE AutoSave -------------------------------
(***************************************************************************)
(* The save path as a whole: the game writes SRAM while the window is      *)
(* open, the coordinator decides when to flush, and the worker takes the   *)
(* CRC and writes both files from the live SRAM, unit by unit, while core  *)
(* 0 keeps serving the game (src/main.rs, core1_task and the boot path).   *)
(*                                                                         *)
(* C is the coordinator and F the files on the card; every step here is a  *)
(* step of one of them, of both, or of the game.                           *)
(***************************************************************************)
EXTENDS Integers

CONSTANTS
  Value, Zero, NoImage, Units, HasRtc, ClusterUnits,   \* see SaveFile
  NoCrc, QuietPeriod, MaxGeneration                    \* see SaveCoordinator

VARIABLES
  SRAM_ENABLED, SAVE_GENERATION, SAVE_DIRTY, window, ram_enabled, mpc,
  engine, dirty, gen, quiet, crc, stored, wpc, activityAge, disableAge, raced,
  sram, card, pc, file, done, before, sound,
  scan, scanned,      \* crc32 in progress: the units it has taken in
  overlap, tainted    \* history: the window was open during this attempt;
                      \* the card may hold something else than last_crc says

F == INSTANCE SaveFile
C == INSTANCE SaveCoordinator WITH Image <- F!Image

\* The assumptions of SaveFile, of which this module chooses the constants.
ASSUME ValueAssumption == Zero \in Value
ASSUME UnitsAssumption == Units \in Nat /\ Units > 0
ASSUME RtcAssumption == HasRtc \in BOOLEAN
ASSUME ClusterAssumption == ClusterUnits \in Nat /\ ClusterUnits > 0
ASSUME NoImageAssumption == NoImage \notin F!Image

\* Those of SaveCoordinator.
ASSUME QuietAssumption == QuietPeriod \in Nat /\ QuietPeriod > 0
ASSUME GenerationAssumption == MaxGeneration \in Nat
ASSUME CrcAssumption == NoCrc \notin F!Image

coordinatorVars ==
  <<SRAM_ENABLED, SAVE_GENERATION, SAVE_DIRTY, window, ram_enabled, mpc, engine,
    dirty, gen, quiet, crc, stored, wpc, activityAge, disableAge, raced>>
fileVars == <<sram, card, pc, file, done, before, sound>>
scanVars == <<scan, scanned>>
vars == <<coordinatorVars, fileVars, scanVars, overlap, tainted>>

\* What the next boot fills SRAM with, read errors aside.
BootContents(c) ==
  IF F!BootImage(c) = NoImage THEN F!ZeroImage ELSE F!BootImage(c)

Init ==
  /\ C!Init /\ F!Init
  /\ scan = F!ZeroImage /\ scanned = 0
  /\ overlap = FALSE /\ tainted = FALSE

-----------------------------------------------------------------------------

\* History: core 1 reads SRAM in "crc" and "store".  A success without overlap
\* makes the card trustworthy again; a failure leaves it in doubt.
Reading == {"crc", "store"}

Watch ==
  /\ overlap' = \/ window' /\ wpc' \in Reading
                \/ overlap /\ wpc' \in Reading \cup {"still", "success"}
  /\ tainted' = CASE wpc' = "boot" -> FALSE
                  [] wpc = "boot" /\ wpc' # "boot" -> sram' # BootContents(card')
                  [] wpc = "success" /\ wpc' # "boot" -> overlap
                  [] wpc = "failure" /\ wpc' \notin {"failure", "boot"} -> TRUE
                  [] OTHER -> tainted

\* The game does not run before the bootloader is done, and the console's boot
\* ROM, external to the repository, outlasts the CRC core 1 starts with.  A gate
\* write that leaves the gate as it is publishes what is there already:
\* SaveCoordinator has those.
Mapper ==
  /\ wpc # "boot"
  /\ C!Mapper
  /\ mpc = "idle" => window' # window
  /\ UNCHANGED <<fileVars, scanVars>>
  /\ Watch

\* The game, external to the repository.
GameWrite(u, v) ==
  /\ window
  /\ sram' = [sram EXCEPT ![u] = v]
  /\ UNCHANGED <<coordinatorVars, card, pc, file, done, before, sound, scanVars>>
  /\ Watch

\* The bootloader restores, then core 1 starts and seeds last_crc.
Boot ==
  /\ F!Boot
  /\ C!Restored(sram')
  /\ UNCHANGED scanVars
  /\ Watch

\* The steps of the worker loop that touch neither SRAM nor the card.
Coordinate ==
  /\ \/ C!TakeDirty \/ C!LoadGeneration \/ C!Poll \/ C!Recheck
     \/ C!StillDisabled \/ C!Succeed \/ C!Fail
  /\ UNCHANGED <<fileVars, scanVars>>
  /\ Watch

\* Mutant: the checksum leaves out the last unit.
ScanUnit_LeavesLast ==
  /\ wpc = "crc" /\ scanned < Units
  /\ scanned' = scanned + 1
  /\ scan' = IF scanned' < Units THEN [scan EXCEPT ![scanned'] = sram[scanned']]
             ELSE scan
  /\ UNCHANGED <<coordinatorVars, fileVars>>
  /\ Watch

\* crc32(saveram_memory) reads the live SRAM.
ScanUnit ==
  /\ wpc = "crc" /\ scanned < Units
  /\ scanned' = scanned + 1
  /\ scan' = [scan EXCEPT ![scanned'] = sram[scanned']]
  /\ UNCHANGED <<coordinatorVars, fileVars>>
  /\ Watch

StartPersist ==
  /\ wpc = "crc" /\ scanned = Units
  /\ C!StartPersist(scan)
  /\ IF wpc' = "store" THEN F!StartStore ELSE UNCHANGED fileVars
  /\ scan' = F!ZeroImage /\ scanned' = 0
  /\ Watch

StoreStep ==
  /\ wpc = "store"
  /\ F!StoreStep
  /\ UNCHANGED <<coordinatorVars, scanVars>>
  /\ Watch

FinishStore ==
  /\ F!FinishStore
  /\ C!FinishStore(pc = "ok")
  /\ UNCHANGED scanVars
  /\ Watch

Tick ==
  /\ C!Tick
  /\ UNCHANGED <<fileVars, scanVars>>
  /\ Watch

PowerLoss ==
  /\ F!PowerLoss
  /\ C!Reboot
  /\ scan' = F!ZeroImage /\ scanned' = 0
  /\ Watch

Next ==
  \/ Mapper
  \/ \E u \in 1..Units, v \in Value : GameWrite(u, v)
  \/ Boot \/ Coordinate \/ ScanUnit \/ StartPersist \/ StoreStep \/ FinishStore
  \/ Tick \/ PowerLoss

Spec == Init /\ [][Next]_vars

-----------------------------------------------------------------------------
(* Properties.                                                             *)

\* The engine has nothing to do and the game is not in its SRAM.
AtRest ==
  /\ wpc = "top" /\ mpc = "idle" /\ ~window /\ ~SAVE_DIRTY
  /\ engine.disk_generation = SAVE_GENERATION

\* What the save path is for: when it has come to rest, a boot restores exactly
\* what the game left in SRAM, unless an attempt failed, or was overlapped by a
\* whole session, since the card was last known to be good.
DurableAtRest == AtRest /\ ~tainted => BootContents(card) = sram

\* Skipping a flush because the CRC has not changed loses nothing, with the
\* same exception.
SkipIsSound ==
  wpc = "crc" /\ scanned = Units /\ engine.last_crc = scan /\ ~tainted
    => BootContents(card) = scan

\* A session is open, or closed and not yet published, or newer than g: the engine
\* owes the card more than generation g.
Owed(g) ==
  \/ window
  \/ mpc \in {"storeOff", "bump"}
  \/ SAVE_GENERATION > g

\* An attempt ends that failed, or that read SRAM while the window was open.
EndsInDoubt ==
  /\ wpc \in {"crc", "success", "failure"} /\ wpc' = "top"
  /\ overlap \/ wpc = "failure"

\* After an attempt that ends in doubt the engine still owes a store: an image
\* torn by a session, or half on the card, is never the last it means to write.
DoubtIsOwed == [][EndsInDoubt => (Owed(engine.disk_generation))']_vars

=============================================================================
