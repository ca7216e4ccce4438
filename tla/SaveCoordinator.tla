---------------------------- MODULE SaveCoordinator ----------------------------
(***************************************************************************)
(* The automatic save coordinator: the three atomics the two cores share,  *)
(* the mapper on core 0 that publishes SRAM enable changes into them, and  *)
(* the AutoSaveEngine with the worker loop of core1_task that consumes     *)
(* them (cartridge-core/src/save_coordinator.rs, src/main.rs).             *)
(*                                                                         *)
(* Every atomic access is a step of its own.  The engine's methods are     *)
(* operators from an engine record to an engine record.  The clock is kept *)
(* as saturating ages: a tick is any unit of which QUIET_PERIOD_MS is      *)
(* QuietPeriod.  What the SRAM and the card hold is left to AutoSave: here *)
(* a CRC is any member of Image and a store may succeed or fail.           *)
(***************************************************************************)
EXTENDS Integers

CONSTANTS
  Image,          \* the SRAM contents a CRC tells apart
  NoCrc,          \* Option::None of last_crc
  QuietPeriod,    \* QUIET_PERIOD_MS, in ticks
  MaxGeneration   \* bound on the SRAM sessions of one power cycle

ASSUME QuietAssumption == QuietPeriod \in Nat /\ QuietPeriod > 0
ASSUME GenerationAssumption == MaxGeneration \in Nat
ASSUME CrcAssumption == NoCrc \notin Image

VARIABLES
  \* shared atomics
  SRAM_ENABLED, SAVE_GENERATION, SAVE_DIRTY,
  \* core 0: the SRAM window the DMA serves, the mapper's flag, where it is
  window, ram_enabled, mpc,
  \* core 1: the engine, the locals of the worker loop, where it is
  engine, dirty, gen, quiet, crc, stored, wpc,
  \* the clock: ticks since last_activity_ms
  activityAge,
  \* history: ticks since the last disable edge; whether an edge was being
  \* published at, or came after, the worker's last look at SAVE_DIRTY
  disableAge, raced

atomics    == <<SRAM_ENABLED, SAVE_GENERATION, SAVE_DIRTY>>
mapperVars == <<window, ram_enabled, mpc>>
localVars  == <<dirty, gen, quiet, crc, stored>>
clockVars  == <<activityAge, disableAge, raced>>
vars == <<atomics, mapperVars, engine, localVars, wpc, clockVars>>

MapperPc == {"idle", "storeOn", "storeOff", "bump", "dirty"}
WorkerPc == {"boot", "top", "gen", "poll", "recheck", "crc", "store", "still",
             "success", "failure"}

Engine == [pending_generation : Nat, disk_generation : Nat,
           last_crc : Image \cup {NoCrc}, in_flight : BOOLEAN]

-----------------------------------------------------------------------------
(* AutoSaveEngine.  last_activity_ms is the age activityAge.               *)

NewEngine == [pending_generation |-> 0, disk_generation |-> 0,
              last_crc |-> NoCrc, in_flight |-> FALSE]

\* Mutant: every dirty poll counts as a generation, retries included.
IngestDirty_CountsRetries(e, g) ==
  [e EXCEPT !.pending_generation = IF g > @ THEN g ELSE @ + 1]

IngestDirty(e, g) ==
  [e EXCEPT !.pending_generation = IF g > @ THEN g ELSE @]

\* decide returns Persist; the worker treats its three other answers alike.
DecidesPersist(e, sramDisabled, quietOver) ==
  /\ ~e.in_flight
  /\ e.pending_generation > e.disk_generation
  /\ sramDisabled
  /\ quietOver

BeginPersist(e) == [e EXCEPT !.in_flight = TRUE]

ShouldSkipIdentical(e, c) == e.last_crc = c

\* Mutant: the generation is stored where the CRC belongs.
OnSuccess_StoresGeneration(e, g, c) ==
  [e EXCEPT !.disk_generation = IF g > @ THEN g ELSE @,
            !.last_crc = g, !.in_flight = FALSE]

OnSuccess(e, g, c) ==
  [e EXCEPT !.disk_generation = IF g > @ THEN g ELSE @,
            !.last_crc = c, !.in_flight = FALSE]

\* Mutant: the failed attempt leaves the engine in flight.
OnFailure_KeepsFlight(e) == e

OnFailure(e) == [e EXCEPT !.in_flight = FALSE]

OnRestored(e, c) ==
  [e EXCEPT !.last_crc = c, !.disk_generation = e.pending_generation]

-----------------------------------------------------------------------------

Init ==
  /\ SRAM_ENABLED = FALSE /\ SAVE_GENERATION = 0 /\ SAVE_DIRTY = FALSE
  /\ window = FALSE /\ ram_enabled = FALSE /\ mpc = "idle"
  /\ engine = NewEngine
  /\ dirty = FALSE /\ gen = 0 /\ quiet = FALSE /\ crc = NoCrc /\ stored = FALSE
  /\ wpc = "boot"
  /\ activityAge = 0 /\ disableAge = QuietPeriod /\ raced = FALSE

-----------------------------------------------------------------------------
(* Core 0.  A write to the RAM-gate register first switches the DMA        *)
(* commands, then publish_sram_transition stores the flag and, on the      *)
(* enabled -> disabled edge only, bumps the generation and marks it dirty. *)

GateWrite(on) ==
  /\ mpc = "idle"
  /\ on => SAVE_GENERATION < MaxGeneration   \* bound: MaxGeneration sessions
  /\ window' = on
  /\ mpc' = IF on THEN "storeOn" ELSE "storeOff"
  /\ UNCHANGED <<atomics, ram_enabled, engine, localVars, wpc, clockVars>>

StoreEnabled ==
  /\ mpc = "storeOn"
  /\ SRAM_ENABLED' = TRUE /\ ram_enabled' = TRUE
  /\ mpc' = "idle"
  /\ UNCHANGED <<SAVE_GENERATION, SAVE_DIRTY, window, engine, localVars, wpc,
                 clockVars>>

StoreDisabled ==
  /\ mpc = "storeOff"
  /\ SRAM_ENABLED' = FALSE /\ ram_enabled' = FALSE
  /\ IF ram_enabled
     THEN mpc' = "bump" /\ disableAge' = 0 /\ raced' = TRUE
     ELSE mpc' = "idle" /\ UNCHANGED <<disableAge, raced>>
  /\ UNCHANGED <<SAVE_GENERATION, SAVE_DIRTY, window, engine, localVars, wpc,
                 activityAge>>

BumpGeneration ==
  /\ mpc = "bump"
  /\ SAVE_GENERATION' = SAVE_GENERATION + 1
  /\ mpc' = "dirty"
  /\ UNCHANGED <<SRAM_ENABLED, SAVE_DIRTY, window, ram_enabled, engine,
                 localVars, wpc, clockVars>>

MarkDirty ==
  /\ mpc = "dirty"
  /\ SAVE_DIRTY' = TRUE
  /\ mpc' = "idle"
  /\ UNCHANGED <<SRAM_ENABLED, SAVE_GENERATION, window, ram_enabled, engine,
                 localVars, wpc, clockVars>>

Publish == StoreEnabled \/ StoreDisabled \/ BumpGeneration \/ MarkDirty

Mapper == (\E on \in BOOLEAN : GateWrite(on)) \/ Publish

-----------------------------------------------------------------------------
(* Core 1.                                                                 *)

Restored(c) ==
  /\ wpc = "boot"
  /\ engine' = OnRestored(engine, c)
  /\ wpc' = "top"
  /\ UNCHANGED <<atomics, mapperVars, localVars, clockVars>>

\* Mutant: only the first of several coalesced edges restarts the quiet period.
TakeDirty_KeepsFirstActivity ==
  /\ wpc = "top"
  /\ dirty' = SAVE_DIRTY
  /\ SAVE_DIRTY' = FALSE
  /\ activityAge' = IF SAVE_DIRTY
                       /\ engine.pending_generation = engine.disk_generation
                    THEN 0 ELSE activityAge
  /\ quiet' = (activityAge' >= QuietPeriod)
  /\ raced' = (mpc \in {"bump", "dirty"})
  /\ wpc' = "gen"
  /\ UNCHANGED <<SRAM_ENABLED, SAVE_GENERATION, mapperVars, engine, gen, crc,
                 stored, disableAge>>

\* now_ms and the swap of SAVE_DIRTY are adjacent statements, taken at one
\* instant.  ingest_dirty sets last_activity_ms to this now_ms, and decide
\* compares this now_ms with it, so both are settled here.
TakeDirty ==
  /\ wpc = "top"
  /\ dirty' = SAVE_DIRTY
  /\ SAVE_DIRTY' = FALSE
  /\ activityAge' = IF SAVE_DIRTY THEN 0 ELSE activityAge
  /\ quiet' = (activityAge' >= QuietPeriod)
  /\ raced' = (mpc \in {"bump", "dirty"})
  /\ wpc' = "gen"
  /\ UNCHANGED <<SRAM_ENABLED, SAVE_GENERATION, mapperVars, engine, gen, crc,
                 stored, disableAge>>

\* Mutant: the flag is cleared again after the swap, with the generation load.
LoadGeneration_ClearsFlag ==
  /\ wpc = "gen"
  /\ gen' = SAVE_GENERATION
  /\ SAVE_DIRTY' = FALSE
  /\ wpc' = "poll"
  /\ UNCHANGED <<SRAM_ENABLED, SAVE_GENERATION, mapperVars, engine, dirty, quiet,
                 crc, stored, clockVars>>

LoadGeneration ==
  /\ wpc = "gen"
  /\ gen' = SAVE_GENERATION
  /\ wpc' = "poll"
  /\ UNCHANGED <<atomics, mapperVars, engine, dirty, quiet, crc, stored,
                 clockVars>>

\* The load of SRAM_ENABLED and AutoSaveEngine::poll.  Locals that are dead
\* from here on are cleared.
Poll ==
  /\ wpc = "poll"
  /\ engine' = IF dirty THEN IngestDirty(engine, gen) ELSE engine
  /\ wpc' = IF DecidesPersist(engine', ~SRAM_ENABLED, quiet)
            THEN "recheck" ELSE "top"
  /\ dirty' = FALSE /\ gen' = 0 /\ quiet' = FALSE
  /\ UNCHANGED <<atomics, mapperVars, crc, stored, clockVars>>

Recheck ==
  /\ wpc = "recheck"
  /\ wpc' = IF SRAM_ENABLED THEN "top" ELSE "crc"
  /\ UNCHANGED <<atomics, mapperVars, engine, localVars, clockVars>>

StartPersist(c) ==
  /\ wpc = "crc"
  /\ IF ShouldSkipIdentical(engine, c)
     THEN /\ engine' = OnSuccess(BeginPersist(engine),
                                 engine.pending_generation, c)
          /\ wpc' = "top" /\ crc' = crc
     ELSE /\ engine' = BeginPersist(engine)
          /\ wpc' = "store" /\ crc' = c
  /\ UNCHANGED <<atomics, mapperVars, dirty, gen, quiet, stored, clockVars>>

FinishStore(ok) ==
  /\ wpc = "store"
  /\ stored' = ok
  /\ wpc' = "still"
  /\ UNCHANGED <<atomics, mapperVars, engine, dirty, gen, quiet, crc, clockVars>>

StillDisabled ==
  /\ wpc = "still"
  /\ wpc' = IF stored /\ ~SRAM_ENABLED THEN "success" ELSE "failure"
  /\ stored' = FALSE
  /\ UNCHANGED <<atomics, mapperVars, engine, dirty, gen, quiet, crc, clockVars>>

\* Mutant: the newest generation is credited instead of the attempt's.
Succeed_CreditsNewest ==
  /\ wpc = "success"
  /\ engine' = OnSuccess(engine, SAVE_GENERATION, crc)
  /\ crc' = NoCrc
  /\ wpc' = "top"
  /\ UNCHANGED <<atomics, mapperVars, dirty, gen, quiet, stored, clockVars>>

\* pending_generation is still the generation the attempt was started for:
\* only poll changes it.
Succeed ==
  /\ wpc = "success"
  /\ engine' = OnSuccess(engine, engine.pending_generation, crc)
  /\ crc' = NoCrc
  /\ wpc' = "top"
  /\ UNCHANGED <<atomics, mapperVars, dirty, gen, quiet, stored, clockVars>>

Fail ==
  /\ wpc = "failure"
  /\ engine' = OnFailure(engine)
  /\ SAVE_DIRTY' = TRUE
  /\ crc' = NoCrc
  /\ wpc' = "top"
  /\ UNCHANGED <<SRAM_ENABLED, SAVE_GENERATION, mapperVars, dirty, gen, quiet,
                 stored, clockVars>>

Worker ==
  \/ \E c \in Image : Restored(c) \/ StartPersist(c)
  \/ TakeDirty \/ LoadGeneration \/ Poll \/ Recheck
  \/ \E ok \in BOOLEAN : FinishStore(ok)
  \/ StillDisabled \/ Succeed \/ Fail

-----------------------------------------------------------------------------

Older(age) == IF age < QuietPeriod THEN age + 1 ELSE age

\* A tick is a good part of QUIET_PERIOD_MS.  Core 0 publishes an edge, and core 1
\* gets from the swap to the recheck, in a handful of instructions with no
\* interrupt between them, so no tick falls inside either.
Tick ==
  /\ mpc \notin {"bump", "dirty"}
  /\ wpc \in {"boot", "top", "crc", "store"}
  /\ activityAge' = Older(activityAge)
  /\ disableAge' = Older(disableAge)
  /\ UNCHANGED <<atomics, mapperVars, engine, localVars, wpc, raced>>

\* Power is cut and comes back: statics and engine start afresh.
Reboot ==
  /\ SRAM_ENABLED' = FALSE /\ SAVE_GENERATION' = 0 /\ SAVE_DIRTY' = FALSE
  /\ window' = FALSE /\ ram_enabled' = FALSE /\ mpc' = "idle"
  /\ engine' = NewEngine
  /\ dirty' = FALSE /\ gen' = 0 /\ quiet' = FALSE /\ crc' = NoCrc
  /\ stored' = FALSE /\ wpc' = "boot"
  /\ activityAge' = 0 /\ disableAge' = QuietPeriod /\ raced' = FALSE

Next == Mapper \/ Worker \/ Tick \/ Reboot

Spec == Init /\ [][Next]_vars

\* Both cores run unconditional loops and time passes.  A store that is tried
\* again and again is assumed to succeed in the end.
Fairness ==
  /\ WF_vars(Publish) /\ WF_vars(Worker) /\ SF_vars(Tick)
  /\ SF_vars(FinishStore(TRUE))

FairSpec == Spec /\ Fairness

-----------------------------------------------------------------------------
(* Properties.                                                             *)

TypeOK ==
  /\ SRAM_ENABLED \in BOOLEAN /\ SAVE_GENERATION \in Nat /\ SAVE_DIRTY \in BOOLEAN
  /\ window \in BOOLEAN /\ ram_enabled \in BOOLEAN /\ mpc \in MapperPc
  /\ engine \in Engine
  /\ dirty \in BOOLEAN /\ gen \in Nat /\ quiet \in BOOLEAN
  /\ crc \in Image \cup {NoCrc} /\ stored \in BOOLEAN /\ wpc \in WorkerPc
  /\ activityAge \in 0..QuietPeriod /\ disableAge \in 0..QuietPeriod
  /\ raced \in BOOLEAN

\* A finished SRAM session is never forgotten: while the engine has not taken
\* the newest generation over, the dirty flag is up, or about to be raised, or
\* in the hands of a worker that will still read that generation.  This is what
\* the order "generation, then flag" on core 0 and "flag, then generation" on
\* core 1 is for.
NothingForgotten ==
  \/ engine.pending_generation = SAVE_GENERATION
  \/ SAVE_DIRTY
  \/ mpc = "dirty"
  \/ dirty /\ wpc = "gen"
  \/ dirty /\ wpc = "poll" /\ gen = SAVE_GENERATION

\* The engine never claims a generation the mapper has not published, and the
\* card is never credited with one the engine has not seen.
GenerationsOrdered ==
  /\ engine.disk_generation <= engine.pending_generation
  /\ engine.pending_generation <= SAVE_GENERATION

\* An attempt starts only a full quiet period after the last disable edge,
\* except for an edge that was being published when the worker looked at
\* SAVE_DIRTY, or that came after it looked.
QuietUnlessRaced ==
  wpc \in {"recheck", "crc"} => disableAge >= QuietPeriod \/ raced

\* Once the power stays on and the game leaves the SRAM disabled, the newest
\* session is recorded as being on the card, and stays so.
EventuallyRecorded ==
  <>[][~Reboot]_vars /\ <>[]~SRAM_ENABLED
    => <>[](engine.disk_generation = SAVE_GENERATION)

=============================================================================
