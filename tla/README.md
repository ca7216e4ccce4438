# Savepoint signer: TLA+ models, checks and proofs

The repository is the firmware of a Game Boy flash cartridge (RP2350, two
cores, SD card, HyperRAM, wall clock) that also hides a Bitcoin signer behind a
patched game. Core 0 runs the mapper in a tight loop with interrupts off; core
1 runs one serial loop that saves the game to the card and serves the signer;
the console is the client of both. This directory holds models of that program,
TLC configurations that check them on small instances, and TLAPS proofs.

## Inventory

| Component | State | Operations | Interacts with |
|---|---|---|---|
| Mapper (`src/gb_mbc.rs`, `cartridge-core/src/mbc3.rs`) | bank registers, `ram_enabled`, latch flag | one per register write of the game | DMA commands, save atomics, clock, seed bus |
| DMA command machine (`src/gb_dma.rs`) | the blocks in force, the registers of the accessor, the requestors armed | enable / disable RAM, enable RTC; a block per access | bus, SRAM, clock registers |
| Save coordinator (`cartridge-core/src/save_coordinator.rs`) | `SRAM_ENABLED`, `SAVE_GENERATION`, `SAVE_DIRTY`; the engine's generations, `last_crc`, `in_flight`, `last_activity_ms` | publish, ingest, decide, begin, success, failure, restored | mapper (core 0), worker (core 1) |
| Save worker (`src/main.rs`, `core1_task`) | locals of the loop | poll, recheck, CRC, store, recheck | coordinator, SRAM, card |
| Save files (`cartridge-core/src/savefile.rs`, `src/gb_savefile.rs`) | `<rom>.TMP`, `<rom>.SAV` | store, restore, pick | FAT driver, wall clock, RTC registers |
| FAT driver (`vendor/embedded-sdmmc`) | directory entries, FAT, open handles | open, read, write, flush, close, list | card |
| ROM menu on the console (`gb-bootloader/bootloader.c`) | screen, cursor and page, the clock on display, ids of messages | a frame of each screen, commands to the cartridge | bootloader, through SRAM and writes to $6000 |
| Bootloader (`src/gb_bootloader.rs`, ends of `main`) | ROM list, choice, what is in each memory area, the reset line | list, answer, load, restore or zero-fill SRAM, hand over | menu, save files, clock chip |
| Clock chip (`src/mcp795xx.rs`) | seven registers with their flag bits | start, read, set | bootloader, save files |
| Real-time clock (`src/gb_rtc.rs`) | live and latched registers, halt, milliseconds | process, latch, select, catch-up | mapper, DMA, save files |
| Seed link (`cartridge-core/src/seed_link.rs`) and bus (`src/crystal_seed.rs`) | pending, active and finished request, page, ticket | submit, take, finish, page | mapper (core 0), signer worker (core 1) |
| Crystal frontend (`integrations/pokecrystal/native/seed.asm`) | ticket, frame counter, screen | send, poll, fetch pages, show | seed link |
| Terminal (`signer-probe/src/terminal.rs`) | screen state, words, file list, PSBT under review, page | command, load, finish, report | seed, PSBT policy, card |
| Seed and PSBT policy (`signer-probe/src/seed.rs`, `lib.rs`) | mnemonic, passphrase, keys | recover, lock, review, sign | terminal |
| PSBT files (`src/sd_psbt.rs`, `src/sd_lfn.rs`) | none between calls | list, read, write under a free name | FAT driver |

The rest of the board support, the bus and HyperRAM programs, the SD block
driver, the ROM header parser, the QR encoder and the build scripts keep no
protocol state, or are vendored; `PROJECT.json` lists them with the reason.

What is hard here, and what makes each component correct:

- **Coordinator.** Two cores, three atomics, no lock. Correct when no finished
  SRAM session is dropped, when nothing is flushed while the game is still
  writing, when generations are credited to what was really written, and when a
  failed flush is tried again until it succeeds.
- **Files.** Every card write can fail or be the last one before the power
  goes. Correct when a boot always gets one whole image, the old or the new,
  and when `Ok` means that the image is safe.
- **Save path as a whole.** The CRC, the `.TMP` and the `.SAV` are three passes
  over SRAM that core 0 keeps serving. Correct when, at rest, the card holds
  what the game left.
- **Clock.** Core 0 advances registers in place that the DMA writes for the
  game, catches up with the seconds the cartridge was off, falls behind and stops
  for a halt. Correct when no millisecond is lost or gained.
- **Seed link.** One mailbox, two cores, a LOCK that supersedes running work.
  Correct when each request is executed at most once, a superseded result is
  never shown, and every accepted request is answered.
- **Terminal.** Some twenty commands, any of them in any of seventeen states,
  and a card behind it that fails or is swapped. Correct when nothing is signed
  that was not reviewed in full, when the file opened is the file on the screen,
  and when no screen leaves anything of a seed, a review or an export behind.
- **PSBT policy.** A PSBT is a stranger's claim about keys. Correct when what is
  accepted can be signed, and when only the seed's own outputs are called change.
- **PSBT files.** The card comes from computers that leave long names of files
  they deleted or renamed. Correct when a file is listed by its own name and when
  an export never overwrites one.
- **Mappers and DMA.** The mapper only exchanges pointers and command blocks, and
  a block ORs its values into what the access before left. Correct when each
  access reaches the byte the game's own writes select.
- **Menu and hand-over.** The console executes from memory that the cartridge is
  about to replace, shows a list by a cursor and a page with an arithmetic each,
  and has a calendar of its own. Correct when the console never runs on half an
  image, when A starts the highlighted game, when the clock set is the clock
  read, and when nothing waits for ever.

`PROJECT.json` lists the hazards one by one, each at its line.

## Modules

```
SaveCoordinator ---- SaveCoordinatorProofs
      \                                           DurableSave (abstract)
       AutoSave ---- AutoSaveProofs                    |
      /                                                |
SaveFile ---- SaveFileRefinement ---- SaveFileProofs --+

SeedPort (frontend, bus, core 0) ---- SeedProofs
   |                                      /
SeedLink --------------------------------+
   |
Mailbox (abstract)

PsbtPolicy ---- Terminal ---- TerminalProofs
                    \
                     MCTerminal

PsbtCard ---- PsbtCardProofs
    \
     MCPsbtCard

DmaMachine --\
Mappers ------ Cartridge ---- CartridgeProofs
RealTimeClock /      \
                      MCCartridge

ClockChip ---- BootMenu ---- BootMenuProofs
                   \
                    MCBootMenu
```

### SaveCoordinator

Mapper and worker as two processes. The three atomics keep their names. `mpc`
and `wpc` are program counters: each access to an atomic is a step of its own
(`StoreEnabled`/`StoreDisabled`, `BumpGeneration`, `MarkDirty` on core 0;
`TakeDirty`, `LoadGeneration`, `Poll`, `Recheck`, `StillDisabled`, `Fail` on
core 1), and what lies between two accesses is part of the step before or
after. The methods of `AutoSaveEngine` are operators from an engine record to
an engine record. `GateWrite` is a write of the game to the RAM-gate register;
it switches the DMA commands first (`window`) and publishes afterwards, in that
order, as all three mappers do. MBC3 also publishes after other register
writes; the transition is then from a state to itself, which stores the value
`SRAM_ENABLED` already has. `Reboot` may come at any time.

Time is the pair of ages `activityAge` (since `last_activity_ms`) and
`disableAge` (history), saturating at `QuietPeriod`. `Tick` is disabled where
the code is between two adjacent instructions of one core: a tick stands for a
good part of `QUIET_PERIOD_MS`.

Generations are unbounded naturals where the code has a `u32` that wraps:
2^32 sessions of one power cycle are left out.

### SaveFile

The two files as length, image and a flag for a chain that has been cut behind
its first cluster. A store is the sequence `Mount`, then for each file
`CutChain`, `ZeroEntry`, `WriteUnit`..., `Close`: these are the points at which
`open_file_in_dir(ReadWriteCreateOrTruncate)`, `write` and `close` of the
driver change what a reader finds. Each has its failing counterpart; a failing
write of a directory or FAT sector may have reached the card or not. A failed
data write goes through `Abort`, the `let _ = file.close()` of `write_save`,
which may record the length reached. `PowerLoss` may come at any time but
during the boot itself, which writes nothing.

`Restore` is `GbSavefile::restore` with the zero-fill of the bootloader; its
four parameters say whether the wall clock is read, whether each probe works,
and whether the file read works. `before` and `sound` are history.

Assumed: a sector is written whole or not at all; a lookup of an existing file
does not fail inside a store (where it does, `open_file_in_dir` creates a second
entry of the same name: see the hazard at `volume_mgr.rs:510`); the card has
room. `Units > 0`: cartridges with a clock and no SRAM are left out.

### DurableSave and SaveFileRefinement

`DurableSave` is the promise: one durable image; a store replaces it in one
step (`Take`) and reports success only when the image is there and will survive
the beginning of the next store. It has two weaknesses, each named: `Lose`,
while the only complete image is the one the next store overwrites first
(`exposed`), and `Gap`, when clusters are smaller than a save. The refinement
maps `durable` to what a boot would restore and `exposed` to the lack of a
readable full `.SAV`; `Gapless` holds of cards whose clusters hold a save.

### AutoSave

Coordinator and files in one system with the live SRAM. `GameWrite` writes one
unit whenever the window is open; `ScanUnit` is the CRC unit by unit;
`StoreStep` is the store, unit by unit, interleaved with the game. A CRC tells
images apart without collisions: it is the image itself. `overlap` and
`tainted` are history. Gate writes that leave the gate as it was, which publish
no transition, are left to the runs of `SaveCoordinator`. `Mapper` waits for the
first CRC of core 1 to be done (the console's boot ROM shows its logo for seconds).
The assumptions are those of the two components, put once more for the instances.

### SeedLink and Mailbox

`Link` and its worker, with any client at all: `Submit` takes every ticket and
every command, 0 included. The methods of `Link` run under one spinlock and are
one step each. `Worker::poll` is three steps, `Take`, `Execute`, `Finish`; a
LOCK may supersede the request between them, and `Finish` compares the request
with its epoch as the code does. The terminal behind the worker is its screen:
locked, open, or open with a QR code. A frame holds a result that names its
request, or `Blank`. `last` is history.

`Mailbox` is the promise to the client: one pending request, which only a LOCK
displaces; an answer is the answer to what is pending; from a LOCK on nothing is
to be seen until it is answered. `Promise` maps `pending` to `Link.active` and
`answer` to `Link.frame`.

Epochs are unbounded naturals where the code has a `u32` that wraps.

### SeedPort

The frontend in the game's ROM with the bus and core 0 around `SeedLink`. Bus
writes queue up to `BusDepth`. Core 0 rewrites the window in four steps
(sequence byte odd, bytes 1 to 3, bytes 4 to 37, sequence byte even), the
frontend reads it in four (sequence, bytes 1 to 3, bytes 4 to 37, sequence
again), and the two interleave freely: the frame the frontend waits is not used
to keep them apart. It is used twice: the first page after a restart of the
game is there when it is read (`stale`), and after 1200 frames the bus is empty
(`TimeOut`). The copy in `wSeedStage` is kept while `SeedReadPage` uses it and
forgotten afterwards; nothing else reads it. A page is the pair of the frame it
is cut from and its index.

`PortAssumption` asks that the sequence byte does not come round while the writes
on the bus are served (`2 * BusDepth < SeqMod`; the byte takes 256 values, the
PIO's FIFO four words, two to a write), and that the bus holds a command with its ticket.

External: the game around the menu, which may restart (`Restart` clears work
RAM, and with it `wSeedTicket`) while the cartridge stays powered. Which command
a screen may send is left open: the menu sends any.

### PsbtPolicy

`review_psbt` and `sign_psbt` of `signer-probe/src/seed.rs` as operators on a
seed (secret and network) and a PSBT. A PSBT is a record of what the policy looks
at: `form` stands for parsing, size and version, `inputs` for the two input
counts, `sighash` and `signed` for the fields of that name, `origins` for the
claims of its input about keys, `utxo` for the coin, `previous` for the check
against the whole previous transaction. `Accepted` is the conjunction of the
checks; their order, which only chooses the text of the refusal, is left out.

A key *is* the secret and path it is derived from, a script the key it is locked
to: derivations and 20-byte hashes are injective. Four-byte fingerprints are
not: `Fingerprint` is any operator, and the instance has two phrases with the
same one. The signature itself is `Signs`: `sign_psbt` derives the key of the
reviewed path and its `verify_ecdsa` against the reviewed key succeeds exactly if
the two are the same. Values are naturals; the sums stay far below 2^64.

### Terminal

One action is one turn of `Worker::poll`: the command, and in the same turn the
recovery, listing, reading or signing that the command leads to. The states 3, 9,
11, 14 and 16 of the code last no longer than a turn and have no counterpart. The
other states are named: 0 `locked`, 1 `words`, 2 `pass`, 4 `identity`, 5
`active`, 6 `invalid`, 7 `qr`, 10 `review`, 13 `error`, 15 `saved`, 17 `files`;
8, a QR code that does not fit, is unreachable, because an account key has one
length and its code 41 modules, the most the buffer holds. Slots, file indices
and candidates count from 1 where the code counts from 0. Variables bear the
names of the fields, except: `entry` holds what `clear_entry` clears, `picker`
the file list with its index and name page, `qr` the account the buffer encodes
(`None` for a buffer of zeros). `touched`, `seen` and `signature` are history:
the slots entered since BEGIN, the pages of this review that were reported, and
what was last signed after which pages.

`Import` takes any list of at most `MaxFiles` different names, `Open` any PSBT
whatever the name: the card may have been swapped since the listing. `OpenFails`
and `ImportFails` are the card's errors, `Approve(FALSE)` that of the export,
whose names and steps are those of `PsbtCard`. `PageOf` is what `report` puts in its
20-character amount and 44-character address fields: an amount above `MaxMoney`
or an address other than P2WPKH would be cut. Of the words, only prefixes and
positions matter; a phrase is valid if it is in `ValidPhrases`, its checksum.

Assumed: a derivation from a loaded seed does not fail (its probability is
2^-127; the code then keeps the old address and steps the index back).

### PsbtCard

`list` takes one slot of the root directory per step (`Scan`), with the long name
assembled by `LongName` from slots that may be torn, out of order, of another
file, or followed by deleted ones; the two results are `done` and `limit`, and a
read error gives no listing. An alias is a number, of which `0 .. MaxIndex` are
the names for exports, and a long name is the sequence of the pieces in its
slots. What decides whether a name is offered is a set of names (`Unoffered`);
`Garbled` pieces stand for characters the signer does not show and for an end of
the name in the wrong place. Thirteen characters to a slot, their encoding and
the order of the list, which is sorted afterwards, are left out.

`write_signed` looks up the names one after the other (`Probe`), opens the first
free one, writes its chunks and closes. A lookup that fails counts as "not there"
in the driver, in `Probe` and again in `Open`; `misread` remembers it, because
that is the one way in which an export can truncate or shadow a file (the hazard
at `volume_mgr.rs:510`). `told` is history: the files that were there at the
beginning and the exports that were reported, with whom they are by.

### Cartridge, Mappers, DmaMachine, RealTimeClock

`Mappers` has one operator per mapper from its record and a write of the game to
the next record; `DmaMachine` has the command blocks as the firmware builds them,
four `DmaCommand`s each, and what running them makes of MEMORY_ACCESSOR's three
registers; `RealTimeClock` has the registers, a second, and the catch-up.
`Cartridge` puts them on one bus: `MapperWrite` is a turn of the mapper's loop on
core 0, `SramRead`, `SramWrite` and `RomRead` are accesses that the DMA serves
without a core, and `ProcessLoad` and `ProcessStore` are the two ends of
`GbRtc::process`, between which the DMA may store in the registers and the wall
clock may move (`Tick`).

An address is the set of what was OR-ed into it. That keeps apart the two things
an access depends on, the base and the offset, and whatever an earlier access left.
A mapper takes its write before the game's next access; core 0 needs less than a
bus cycle for it, which is a matter of its cycle timing and assumed. `said`, `due`
and `sure` are history: the last write to each register as the game means it, the
milliseconds the clock should have counted, and whether it is known, which it is
not while the registers, from the save file or from the game, show no time of day,
nor after a write that process may undo.

Until a clock register that exists is selected, the pointers are those of
`get_latch_ptr` and `get_real_ptr` (`Dangling`): a null pointer, which does not
trigger the transfer and so leaves the reader unarmed, and the address of a copy on
the stack of core 0. `stray` remembers what accesses through them have done; a core
0 whose locals were overwritten is not followed any further.

Left out on purpose: `ServedAsAimed` claims nothing for a clock register beyond
the fifth, nor after an access through those first pointers, nor for an MBC5 game
that selects bank 1 first (`Settled`), nor for a write while access is off that
follows an access that was on. `TypeOK` says that nothing but a read through the null
pointer leaves a requestor unarmed.

### ClockChip and BootMenu

`ClockChip` has the driver of the MCP795xx byte by byte, with the flag bits that
share the registers with the digits, and the calendar of the date library behind
it (external). `BootMenu` is the console's program and the cartridge that answers
it. One action of the console is one frame of the current screen with any set of
keys from `Inputs`; a frame that waits in `runCommandAndWait` is two, and
`ClockKeys` is shared by both. Writes to $6000 queue in `cmds`. The cartridge is
`rp`, where `GbBootloader::run` and the end of `main` have come to; `area` is what
each 16 KiB area of memory holds, `bank0` the one the console executes from,
`sram` what its window shows, `gate` whether the window is open. A panic stops
the cartridge where it is; the console goes on with what is there, as it does in
the code, or stays in reset if the panic came before the menu (`CannotList`: the
card cannot be read, or a name on it is not UTF-8). Transfers to the clock chip
are assumed not to fail. `dirty`, `edits` and `sets` are history and bounds.

What is printed is left out but for the list: `drawn` and `top` say whether it is
on the screen and from which game on, `line` which line is highlighted. The games
are the entries of the root directory; the menu asks for one by name, that is by
its index. Only the date-and-time wire format crosses SRAM as what it is: months
and days from 0, years from 1970.

## Runs

| Run | Question | Bounds |
|---|---|---|
| `coordinator` | no session forgotten, generations ordered, quiet period kept, under all interleavings of the two cores; the last session recorded in the end | 3 sessions, quiet period 2, 2 images |
| `files_small_clusters` | old image or new, success stored twice, the promise with the gap | 2 units, RTC tail, 1 unit per cluster |
| `files_cut_chain` (violation) | the `.TMP` always covers the rewrite of the `.SAV` | as `files_small_clusters` |
| `autosave` | at rest the card holds what the game left; a skipped flush loses nothing; after a failed or overlapped attempt a store is still owed | 2 units, cluster of 2, 2 sessions, quiet period 1 |
| `seedlink` | superseded results hidden, no ticket run twice, the mailbox promise, every accepted request answered or superseded | 3 tickets, 3 commands, 6 requests |
| `seedport` | the menu shows one whole answer to its ticket, is left with the signer locked, and is never turned away | 2 tickets, 4 requests, reports of 2 pages or 3 with a QR code, 2 writes on the bus, sequence modulo 6, 1 restart |
| `terminal` | what is signed was seen, uncut; approval is never refused; change comes back; the file opened is the file shown; the entry, the identity and every screen hold what they should | 2 letters, 3 words, prefixes of 2, phrases of 1 and 2 words, 3 of them valid, 1 passphrase character, 2 addresses, 2 files of 2 and 1 name pages, 202 PSBTs, 2 networks |
| `psbt_card` | every file is listed once and by its own name; an export touches no file that was there or was reported | every directory of 4 slots or fewer from 10 kinds of slot, names of 1 and 2 parts, 5 slots and 2 files per listing, 2 export names, 2 exports of 1 chunk |
| `cartridge` | each access reaches what the game's writes select; the clock keeps its time; only a read through the null pointer stops a requestor | 5 accesses and 2 to 11 different mapper writes, 2 offsets, a clock of 3·2·2·2·2 seconds with 2 ms to the second, 2 ms of run after up to 3 ms of uptime and 2 s of catch-up |
| `closed_write` (violation) | a write while access is off goes to `DEV_NULL` | 4 accesses, MBC1 |
| `boot_menu` | A starts the highlighted game; the clock read is the clock set; the console never runs on half an image; the menu comes up, and the console waits in it, unless the cartridge has panicked | 3 lines, up to 7 games listed of 8, 3 message ids, 7 cards with their clocks, 1 edit and up to 2 settings, 10 sets of keys |
| `clock_stops` (violation) | an oscillator that ran before the date was set runs after it | 2 games listed, the rest as `boot_menu` |

Why the bounds are enough: a flush reads the generations of at most two
sessions (the one it writes and one that overtakes it), and three let a retry
meet a third; two units are the least a torn image needs; two values are the
least it needs to differ; one cluster per unit makes every prefix of the file a
point where a chain can be cut. Two tickets are the least that tells a LOCK
from the request before it, and they wrap at once; four requests are a handshake,
a command that outlasts its client, and two LOCKs; two pages are the least that
can be mixed; three sequence values are more than the publications that fit
between the two looks at the sequence byte. Of the terminal, three words make
prefixes with one, two and three matches; two phrases share a fingerprint; the
PSBTs are a good one and those that differ from it in one respect, every claim
of two secrets about six paths on the input and on an output, and every pair of
amounts around the limits. Of the card, four slots hold a whole name of two parts
with its entry and one slot more, in front, between or behind; two exports and two
names are the least that can meet and run out. Of the cartridge, an enable, a bank,
an access, another write and an access tell every pair of blocks and pointers
apart; the clock starts one second before all its registers turn, with either
ninth bit of the day, and two milliseconds make a second. Of the menu, three lines
and seven games have a first, a middle and an uneven last page; the five clocks
stand at the ends of a day, a month, a leap February and the range of the chip; three
message ids wrap within a visit. The proofs below remove the bounds for every
safety property of the passing runs.

**Fairness** (`FairSpec` of `SeedLink`): core 1 polls the link at the end of
each turn of its endless loop, so `WF` of its step. `Answered` asks nothing of
the client.

**Fairness** (`Spec` of `BootMenu`): the cartridge's loop and the console's waits
go on (`WF` of `Cartridge`, `StartMenu`, `ShowTime` and `TimeSet`); no key is ever
assumed to be pressed. `MenuGoesOn` needs no more.

**Fairness** (`FairSpec` of `SaveCoordinator`): both cores run unconditional loops, so a
publication that has begun goes on and the worker steps (`WF`); time passes, but
ticks are disabled for moments again and again, so `SF`; a store tried again and
again succeeds sooner or later (`SF` of `FinishStore(TRUE)`), without which a
broken card refutes the property at once. The premises of `EventuallyRecorded`
are that the power stays on from some point on (`<>[][~Reboot]_vars`) and that
the game leaves SRAM disabled.

Deadlock is not checked where the system may stop: a cartridge that has panicked,
a game or a run that has used up its bound. The other runs check it.

## Disagreements with comments and docs

Three have a run, and `PROJECT.json` quotes the lines:

- `files_cut_chain`: the chain of the `.SAV` is cut before its entry is rewritten,
  and boot prefers that unreadable file over a complete `.TMP`.
- `clock_stops`: `set_datetime` masks with 20 where the oscillator's bit is 0x20, so
  setting the clock from the menu can stop it until the next power-on.
- `closed_write`: the block for a write while access is off ORs the address of
  `DEV_NULL` into the write address of the access before instead of storing it.

Others are known from the models, which contain them, and have no run of their own;
the properties are stated so that they are true of the code with them:

- The quiet period is skipped for an edge that lands between the swap of
  `SAVE_DIRTY` and the check of `SRAM_ENABLED` (`main.rs:742`); `QuietUnlessRaced`
  excepts it.
- A whole session may hide inside a store, and the rechecks do not see it
  (`main.rs:770`): `DurableAtRest` speaks of rest and leaves such an attempt to the
  next one, which `DoubtIsOwed` says the engine still owes.
- `last_crc` survives a failed attempt that changed the card
  (`save_coordinator.rs:163`).
- A store that follows a failed one truncates the `.TMP`, which may be the only
  complete image (`savefile.rs:168`): `exposed` in `DurableSave`.
- `savefile.rs:206` speaks of "the newest complete image", and `pick_restore_slot`
  prefers a full `.SAV` to a full `.TMP`, which is the newer one after a power loss
  between the two.
- A LOCK whose ticket is that of the running request is taken for a repetition
  (`seed_link.rs:38`).
- A write of the game to a clock register is undone when it falls inside `process`
  (`gb_rtc.rs:187`): `sure` in `KeepsTime`.
- An MBC5 game whose first selection is bank 1 keeps bank 0 (`gb_mbc.rs:455`):
  `Settled`. MBC1 keeps the SRAM bank when it leaves mode 1, and knows 64 ROM banks.
- Until a clock register 8 to 12 is selected, `latch_ptr` is null and `real_ptr` points
  at a copy of the registers on a stack frame that is gone (`gb_rtc.rs:132` and `:143`
  borrow a temporary, and the latter stores it in the wrong pointer). A game that selects
  13 to 15 first and reads the clock stops the console's reads for good; what it writes
  there lands on the stack of core 0: `Settled`, and the exception in `TypeOK`.
- A card that fails while its games are listed, or a short name that is not UTF-8,
  panics the cartridge (`gb_bootloader.rs:193`, `:218`, `:229`) before it releases the
  reset of the console (`:238`), which then never comes up: `MenuGoesOn` excepts it.
- A year after 2099, which the menu lets one choose, panics the cartridge when it is
  set (`gb_bootloader.rs:312`).
- A lookup that fails on a read error counts as a missing file (`volume_mgr.rs:510`),
  so an export may truncate or double a file: `misread` in `ExportsAreKept`.
- When, at the restore, fewer seconds have passed since the save than the cartridge has
  been up by then (the chip was set back, say), the clock still counts the whole uptime
  (`restore_unix` in `gb_savefile.rs`): `InitClock`.
- The mirror of the clock for host tests (`cartridge-core/src/rtc.rs`) stops
  advancing when the day carries, unlike the firmware's; it is not modelled.

## Proofs

All are for every value of the constants under the named assumptions of the
modules (`QuietPeriod` positive, `MaxGeneration` any natural, any set of images
and values, any number of units and cluster size).

- `SaveCoordinatorProofs`: `TypeCorrect`, `NoSessionForgotten`,
  `GenerationsAreOrdered`, `AttemptsFollowQuiet`. `NothingForgotten` and
  `GenerationsOrdered` need each other's facts about the locals of the worker
  (`gen` is between the pending and the published generation); the quiet period
  needs that the dirty flag, or the worker's copy of it, dominates the age.
  `EngineIsNeverStuck` is the safety half of `EventuallyRecorded`: `FlightInv` says that
  an attempt is in flight exactly while the worker is in one, so an engine that owes a
  session has all that `decide` asks of it.
- `SaveFileProofs`: `TypeCorrect`, `SuccessIsStoredTwice`, `StoreSwapsImages`
  and `SaveFileKeepsPromise`, the refinement. The inductive invariant `IInv` adds
  to the type: what the file being written holds up to `done` is the SRAM
  (`WriteInv`), that work on the `.SAV` comes with a full `.TMP` of the image
  being stored (`OrderInv`), and that a `.SAV` sound at the start stays so until
  it is touched (`PrimaryInv`). The refinement is by cases on the actions: each
  step of a store is a stutter, a `Take`, a `Lose` or a `Gap`.

- `AutoSaveProofs`, for SRAM and clusters of any size: `RestIsDurable` and
  `SkippingLosesNothing` follow an image from SRAM (`GateInv`: where the mapper is
  says whether the window is open, and that closing it will be published) through
  the checksum (`Slice`) and the two files (`Written`) to what is credited (`Kept`,
  `Credited`). A session that cuts in makes the card be `Owed` more than the
  generation claimed (`OverlapInv`), which is why an attempt that read a mixed image
  never looks at rest. `DoubtLeavesADebt` (`DoubtIsOwed`) is that fact about the attempt
  itself: one that is overlapped is owed to by `OverlapInv`, one that failed has credited
  nothing and was begun for a generation the card did not have (`AttemptInv`).

  The proofs of the parts are then instantiated for the whole. `P` is
  `SaveCoordinatorProofs` with the images of the composition: `CoordinatorHolds` carries
  its three invariants over, and `DifferenceIsPending` joins `EngineIsNeverStuck` to the
  image: a card that would not restore what SRAM holds leaves a store to start. `Q` is
  `SaveFileProofs`, whose SRAM is still during a store while here the game may write it.
  `FilesInv` keeps what `Q` says for every store that no session overlaps, and what the
  history variables say of the `.SAV` for all; from it `CrashKeepsOldOrNew` (a crash
  outside a store, or inside one that no session overlaps, leaves the old image or the
  new one), `SuccessIsWhole` and `TypeCorrect` follow. A store that a session overlaps
  can tear the image in both files; the engine then owes a later generation
  (`OverlapInv`), so the next store repairs it, but a crash in between boots what is torn.

- `SeedProofs`, first of the link, for any number of tickets, any
  set of commands and any client: `TypeCorrect`, `SupersededStaysHidden`,
  `TicketsRunOnce` and `LinkKeepsPromise`, the refinement of `Mailbox`. `IInv` adds that
  the queue holds the active request until it is taken (`QueueInv`), that the active
  request has the youngest epoch (`EpochInv`) and that the worker is at the last request
  taken, whose ticket is the one acknowledged when nothing is active (`WorkerInv`): that
  last fact is why comparing with `ack` is enough to recognise a repetition.
  `RequestIsNeverLost` and `EveryCallCounts` are the safety half of `Answered`: an
  accepted request is in the queue or with the worker until it is answered (`HandInv`),
  and `CallsLeft`, at most five, goes down with every call of `Worker::poll`, whatever
  the client does.

  Then of the frontend, bus and core 0 around it: `PortUsesLink`, by which the above
  holds with them (`PortKeepsPromise` says so), `PortTypeCorrect`, `MenuShowsOneAnswer`, `MenuLeavesLocked` and
  `MenuIsHeard`. The bus holds at most one command with its ticket (`BusInv`); between
  the two looks at the sequence byte no more pages are published than the bus had room
  for, so the byte cannot have come round (`CopyInv`); a ticket that has left the bus
  is the link's, or answered (`TicketInv`), and a page that answers it holds the frame,
  which nothing moves before the next ticket (`PageInv`, `FetchInv`).

- `TerminalProofs`, for every word list, phrase length, fingerprint operator and
  set of PSBTs: `SignaturesWereShown`, `ApprovalSigns`, `ChangeIsOwn`,
  `OpenedFileIsShown`, `ScreensLeaveNothing`, `DisplayIsTheSeeds`, `EntryUsesNothingOld`
  and `TypeCorrect`. The
  inductive invariant of the first three is `ReviewInv`: a review is that of a
  PSBT the loaded seed accepts, and the pages up to the one on display are among
  those reported, so that the last page, the only one that takes an approval,
  comes with all of them. `PagesShowAll` says that the limits of the policy keep
  every field within its width. `OpenedFileIsShown` rests on `PickerInv`: while
  files are shown the two lists are equal. `EntryUsesNothingOld` rests on `EntryInv`:
  slots before the current one were entered since BEGIN (`TouchedInv`), and the
  candidate is one of the matches of the prefix (`CandidateInv`), of which there is
  always one, because a letter is taken only if a word goes on with it.

- `PsbtCardProofs`, for every directory and any number of names, slots and chunks:
  `TypeCorrect`, `NothingIsOverwritten` and `FilesBearTheirNames`. `ListingInv` adds to the type that files
  are only named during a listing. `KeptInv` says that what was told is present and
  whole (`ToldInv`), that the name about to be opened is free (`FreeInv`), and that
  the file being written is nobody's yet (`OwnInv`); `WithEntryKeeps` says that a new
  entry replaces no other. A directory has a first free slot because it is finite
  (`FirstExists`, from the well-foundedness of strict inclusion). `Known` ties the
  name in assembly to the slots before `at`, both ways: the name is there if and only
  if they are a `Run` of its parts, and `PartKnown` takes it one slot further; that the
  parts of an entry are found at most once follows from it.

- `CartridgeProofs`, for all four kinds of cartridge, every set of writes, offsets,
  banks and clocks: `GameReachesItsAim`, `ClockKeepsTime` and `TypeCorrect`. `ReadBlocks`
  and `WriteBlocks` run the six command blocks on an accessor that holds anything at
  all; `ServedInv` ties the mapper's registers, its pointers and the blocks in force to
  what the game last wrote, with one lemma per mapper (`Mbc1Step`, `Mbc3Step`,
  `Mbc5Step`); its part `WaitInv` says which requestors wait, and that the latch pointer
  is null only as long as both are the first ones.

  Of the clock, `TickSeconds` says that a second from a time of day is the next time
  of day, or the first after the last; `TickTotal` and `TotalAdds` take that to
  milliseconds modulo the clock's circle. `Advanced` is about any number of seconds
  at once. `AdvanceBy` is a function defined by recursion, and the prover cannot apply
  the library's induction; instead `Iterates` and `Advanced` look at the least
  number of seconds for which they would fail (`Smallest`, from the well-foundedness of
  the naturals), and show that there is none. `TimeInv` says that while `due` speaks
  of the clock, what `process` has loaded is the clock and the milliseconds
  not yet counted make up the difference; `StoreClock` is a call of `process` with a
  second, without one, and after a halt.

- `BootMenuProofs`, for every card, set of keys, clock, height of the screen and
  length of the list: `OneImageRuns`, `CursorIsShown`, `ClockIsTheChips`,
  `NobodyWaitsInVain` and `TypeCorrect`. `ImageInv` says what each
  step of the cartridge has put in place; `CursorInv` that the cursor is on its page
  and a long list fills it (`Fits`, kept by every key: `MovedFits`), and that nothing
  is drawn while the list changes (`StartInv`). `TalkInv` says that at most one command
  is under way and that the ids differ until it is answered, which is also why nobody
  waits in vain, the safety half of `MenuGoesOn`; `ClockInv` that the clock
  on display is a date at any time and the chip's unless edited. The rest is about
  single dates: the chip gives back what it was set to through BCD and the flag bits
  (`SetDatetimeReads`), the console's calendar agrees with the library's
  (`MonthsAgree`), and every key leaves a date (`KeysKeepValid`).

Every invariant and action property of the passing runs is thus proved. Only
model-checked are `EventuallyRecorded`, `Answered` and `MenuGoesOn`: liveness under
fairness is out of the reach of the prover. What is proved of the three is that the
system never gets where they could not come true any more: the step to take next is
always there. That it is taken is what fairness, and TLC, add.

## Not modelled

- PIO programs, HyperRAM set-up and the cycle timing of the bus: what they promise,
  that a write is taken before the next access, is an assumption of `Cartridge`.
- The SD block driver, cluster allocation and a full card: the models see reads and
  writes of sectors that succeed or fail.
- BIP32, BIP39, hashes, ECDSA and the QR encoder: pure library algorithms.
- The drawing of the two frontends, the LED tester, and which command a screen of
  the Crystal frontend may send.
- The header parser, production data, voltage, LED, USB reset: no state.
- Wrap-around of the 32-bit generations and epochs.

## Plan

Done so far: the save path, the link and its frontend, the terminal with its
policy, the PSBT files, mappers with DMA and clock, the menu. Next, in this order:

1. The seam of `PsbtCard` and `Terminal`, where an export is one step of the terminal.
2. `SignerMenu`: the screens of the frontend (`seed.asm`, from line 912 on) with
   their echo of what is typed, on top of `Terminal`.
3. `validate` of `lib.rs`, the diagnostic's policy, against `PsbtPolicy`.
4. Lookup errors inside a store, in `SaveFile`.
