------------------------------ MODULE Cartridge ------------------------------
(***************************************************************************)
(* A game on the bus of the cartridge: the mapper on core 0 (src/gb_mbc.rs) *)
(* and its clock (src/gb_rtc.rs), and the DMA channels that serve the      *)
(* console without any core (src/gb_dma.rs).                               *)
(*                                                                         *)
(* The mapper only ever exchanges pointers and command blocks; which byte  *)
(* an access reaches is the sum of what several of its runs, and the       *)
(* access before, have left behind.  Core 0 takes a write of the game off  *)
(* its FIFO before the next access of the game, unless process is running. *)
(* The clock's registers are also written by the DMA, while process works  *)
(* on them.                                                                *)
(***************************************************************************)
EXTENDS DmaMachine, Mappers, RealTimeClock, FiniteSets

CONSTANTS
  Kinds,     \* of mappers: a subset of {"none", "mbc1", "mbc3", "mbc5"}
  Writes,    \* Writes[kind]: pairs of area and data the game writes below $8000
  Offsets,   \* in a bank
  BankSize,  \* $4000
  Bytes,     \* the game writes to $A000-$BFFF
  Saved,     \* clocks in a save file: real and latch
  Elapsed,   \* seconds since it was written
  Uptimes,   \* milliseconds since power-on when the mapper starts
  MaxTime,   \* bound on the milliseconds of a run
  MaxOps     \* bound on the accesses of the game

\* MBC5 decodes the upper four address bits, MBC1 and MBC3 the upper three.
Areas(k) == IF k = "mbc5" THEN 0 .. 7 ELSE {0, 2, 4, 6}

ASSUME CartridgeAssumption ==
  /\ Kinds \subseteq {"none", "mbc1", "mbc3", "mbc5"}
  /\ \A k \in Kinds : Writes[k] \subseteq Areas(k) \X (0 .. 255)
  /\ Offsets \subseteq 0 .. BankSize - 1
  /\ Bytes \subseteq [num : 0 .. 255, flags : SUBSET Flags]
  /\ Saved \subseteq [real : Regs, latch : Regs]
  /\ Elapsed \subseteq Nat /\ Uptimes \subseteq Nat
  /\ BankSize \in Nat \ {0} /\ MaxTime \in Nat /\ MaxOps \in Nat

VARIABLES
  kind,      \* of the mapper
  m,         \* its registers and pointers
  accessor,  \* MEMORY_ACCESSOR
  armed,     \* the requestors that wait for an access
  low,       \* the read address of channel 1 below $4000
  sum,       \* of the sniffer
  stray,     \* what accesses of the clock before its first selection have done:
             \* "read", the last read that was served; "core0", core 0 is lost
  ptr,       \* latch_ptr and real_ptr
  real,      \* the clock
  latch,     \* what the game reads of it
  millies,
  lag,       \* milliseconds since last_milli
  oldHalt,
  pass,      \* of process: whether it runs, what it has loaded, what the DMA wrote since
  said,      \* what the game has asked for
  due,       \* the milliseconds the clock should have counted
  sure,      \* whether due speaks of it
  time, ops  \* so far

mapperVars == <<m, ptr>>
dmaVars == <<accessor, armed, low, sum, stray>>
clockVars == <<real, latch, millies, lag, oldHalt, pass, due, sure>>
vars == <<kind, mapperVars, dmaVars, clockVars, said, time, ops>>

-----------------------------------------------------------------------------
(* Start: the save and its clock have been restored.                       *)

\* Whole milliseconds, of those the clock can count
Total(r, ms) == ((Seconds(r) * Millis) + ms) % (Cycle * Millis)

\* GbSavefile::restore_unix: the clock runs from power-on and catches up
\* with the time since, so that time is not restored.
Restored(regs, elapsed, uptime) ==
  AdvanceBy(regs, IF elapsed > uptime \div Millis THEN elapsed - (uptime \div Millis) ELSE 0)

Idle == [busy |-> FALSE, regs |-> [count |-> [n \in 0 .. 3 |-> 0], flags |-> {}],
         lag |-> 0, hit |-> {}]
Loaded == [busy |-> TRUE, regs |-> real, lag |-> lag, hit |-> {}]

InitClock ==
  \E tail \in Saved, elapsed \in Elapsed, uptime \in Uptimes :
     LET seconds == IF elapsed > uptime \div Millis THEN elapsed ELSE uptime \div Millis
     IN /\ real = Restored(tail.real, elapsed, uptime)
        /\ latch = tail.latch
        /\ lag = uptime
        /\ due = Total(tail.real, (seconds * Millis) + (uptime % Millis))
        /\ sure = Valid(tail.real)

NoClock ==
  /\ real = Idle.regs /\ latch = Idle.regs
  /\ lag = 0 /\ due = 0 /\ sure = TRUE

\* The menu talks to the cartridge through SRAM; its last access read or wrote.
LastOfMenu ==
  {[chain |-> "reader", read |-> SramByte(0, 0), write |-> TxFifo],
   [chain |-> "writer", read |-> RxFifo, write |-> SramByte(0, 0)]}

\* get_latch_ptr and get_real_ptr: the one leaves its pointer null, and both take
\* the address of a copy of the registers on the stack, which is gone when they
\* return.
Dangling == [latch |-> Nothing, real |-> At("stack", 0)]

Init ==
  /\ kind \in Kinds
  /\ m = NewMapper
  /\ accessor \in LastOfMenu
  /\ armed = {"reader", "writer"}
  /\ low = Nothing /\ sum = 0 /\ stray = {}
  /\ ptr = Dangling
  /\ IF kind = "mbc3" THEN InitClock ELSE NoClock
  /\ millies = 0 /\ oldHalt = FALSE
  /\ pass = IF kind = "mbc3" THEN Loaded ELSE Idle
  /\ said = [open |-> FALSE, low |-> 1, up |-> 0, high |-> 0, bank |-> 0, mode |-> 0, moved |-> FALSE]
  /\ time = 0 /\ ops = 0

-----------------------------------------------------------------------------
(* What the game has asked for, by its last write to each register         *)

Say(area, data) ==
  IF kind = "none" THEN said
  ELSE CASE area \in {0, 1} -> [said EXCEPT !.open = Enables(data)]
         [] area = 2 -> [said EXCEPT !.low = data]
         [] area = 3 -> [said EXCEPT !.up = data]
         [] area = 4 -> IF kind = "mbc1" /\ said.mode = 0 THEN [said EXCEPT !.high = data]
                        ELSE [said EXCEPT !.bank = data, !.moved = @ \/ data % 16 # 1]
         [] area \in 5 .. 7 -> [said EXCEPT !.mode = data % 2]

AimedRom ==
  CASE kind = "none" -> 1
    [] kind = "mbc1" -> (AtLeastOne(said.low % 32) + (IF said.mode = 0 THEN 32 * said.high ELSE 0)) % 64
    [] kind = "mbc3" -> AtLeastOne(said.low % 128)
    [] kind = "mbc5" -> said.low + (256 * (said.up % 2))

AimsAtClock == kind = "mbc3" /\ SelectsClock(said.bank)

\* The byte between $A000 and $BFFF: of the clock the game reads the latch.
Aim(clock, offset) ==
  IF ~said.open THEN DevNull
  ELSE IF AimsAtClock THEN At(clock, said.bank % 8)
  ELSE SramByte(said.bank % (IF kind = "mbc3" THEN 8 ELSE 4), offset)

\* Register numbers from 5 on select nothing; a clock that is accessed before one
\* below 5 was selected may have stopped the reads, or core 0.  The first bank an
\* MBC5 game selects is not taken when it is 1, the register's value at power-on.
Settled ==
  /\ stray = {}
  /\ AimsAtClock => said.bank % 8 <= Status
  /\ kind = "mbc5" => said.moved \/ said.bank = 0

-----------------------------------------------------------------------------
(* Core 0: a write of the game to the mapper                               *)

Written(area, data) ==
  CASE kind = "none" -> m
    [] kind = "mbc1" -> Mbc1Write(m, area, data)
    [] kind = "mbc3" -> Mbc3Write(m, area, data)
    [] kind = "mbc5" -> Mbc5Write(m, area, data)

\* trigger_latch
Latched(area, data) == IF kind = "mbc3" /\ Latches(m, area, data) THEN real ELSE latch

\* activate_register
Activated(area, data) ==
  IF kind = "mbc3" /\ Activates(area, data) /\ data % 8 <= Status
  THEN [latch |-> At("latch", data % 8), real |-> At("real", data % 8)]
  ELSE ptr

\* What a core 0 whose locals were overwritten does is not followed.
Core0Runs == "core0" \notin stray

MapperWrite(area, data) ==
  /\ Core0Runs /\ ~pass.busy
  /\ ops < MaxOps /\ ops' = ops + 1
  /\ m' = Written(area, data)
  /\ latch' = Latched(area, data)
  /\ ptr' = Activated(area, data)
  /\ said' = Say(area, data)
  /\ UNCHANGED <<kind, dmaVars, real, millies, lag, oldHalt, pass, due, sure, time>>

-----------------------------------------------------------------------------
(* The DMA: an access of the game                                          *)

Access(offset) ==
  [offset |-> offset, base |-> At("sram", m.ram), latch |-> ptr.latch, real |-> ptr.real]

\* The requestor starts the block and the accessor, when it is done, rearms
\* the requestor it is chained to; one that is not triggered rearms none.
Serve(requestor, block, offset) ==
  LET after == RunBlock(block, accessor, Access(offset))
  IN IF requestor \in armed
     THEN /\ accessor' = after
          /\ armed' = (armed \ {requestor})
                       \cup {c \in {after.chain} : Triggers(block, Access(offset))}
     ELSE UNCHANGED <<accessor, armed>>

SramRead(offset) ==
  /\ ops < MaxOps /\ ops' = ops + 1
  /\ Serve("reader", Blocks[m.gate].read, offset)
  /\ stray' = stray \cup {s \in {"read"} : m.gate = "rtc" /\ ptr = Dangling}
  /\ UNCHANGED <<kind, mapperVars, low, sum, clockVars, said, time>>

ClockRegister(address) == {n \in 0 .. Status : address = At("real", n)}

\* The clock runs on from what the game has set, unless process has the
\* registers in hand, or what it has set is no time of day.
SetByGame(address, byte) ==
  \E n \in ClockRegister(address) :
     /\ real' = Stored(real, n, byte)
     /\ pass' = [pass EXCEPT !.hit = IF pass.busy THEN @ \cup {n} ELSE @]
     /\ due' = Total(real', millies + lag)
     /\ sure' = (Core0Runs /\ ~pass.busy /\ Valid(real'))
     /\ UNCHANGED stray

\* Where the copy of the registers was, a local of core 0 may be by now.
SetStack(address) ==
  /\ address = Dangling.real
  /\ stray' \in {stray, stray \cup {"core0"}}
  /\ sure' = (sure /\ "core0" \notin stray')
  /\ UNCHANGED <<real, pass, due>>

SetElsewhere(address) ==
  /\ ClockRegister(address) = {} /\ address # Dangling.real
  /\ UNCHANGED <<real, pass, due, sure, stray>>

SramWrite(offset, byte) ==
  /\ ops < MaxOps /\ ops' = ops + 1
  /\ Serve("writer", Blocks[m.gate].write, offset)
  /\ \/ SetByGame(accessor'.write, byte)
     \/ SetStack(accessor'.write)
     \/ SetElsewhere(accessor'.write)
  /\ UNCHANGED <<kind, mapperVars, low, sum, latch, millies, lag, oldHalt, said, time>>

RomRead(offset) ==
  /\ ops < MaxOps /\ ops' = ops + 1
  /\ \/ low' = RomLow(RomBase, offset) /\ UNCHANGED sum
     \/ sum' = RomHigh(m.rom * BankSize, offset) /\ UNCHANGED low
  /\ UNCHANGED <<kind, mapperVars, accessor, armed, stray, clockVars, said, time>>

-----------------------------------------------------------------------------
(* Core 0: process, which loads the registers and stores them all          *)

ProcessLoad ==
  /\ kind = "mbc3" /\ Core0Runs /\ ~pass.busy
  /\ pass' = Loaded
  /\ UNCHANGED <<kind, mapperVars, dmaVars, real, latch, millies, lag, oldHalt, due, sure,
                 said, time, ops>>

\* A register that did not change need not be stored.
Merge(r, kept) ==
  [count |-> [n \in 0 .. 3 |-> IF n \in kept THEN real.count[n] ELSE r.count[n]],
   flags |-> IF Status \in kept THEN real.flags ELSE r.flags]

ProcessStore ==
  LET running == ~IsHalt(pass.regs)
      resumed == oldHalt /\ running
      behind  == IF resumed THEN 0 ELSE pass.lag
      milli   == IF running /\ behind > 1 THEN 1 ELSE 0
      second  == running /\ millies + milli >= Millis
      regs    == Masked(IF second THEN process_tick(pass.regs) ELSE pass.regs)
  IN /\ Core0Runs /\ pass.busy /\ pass' = Idle
     /\ oldHalt' = ~running
     /\ lag' = (lag - pass.lag) + behind - milli
     /\ millies' = IF second THEN 0 ELSE millies + milli
     /\ \E kept \in SUBSET pass.hit : real' = Merge(regs, kept)
     /\ due' = IF resumed THEN Total(pass.regs, millies + lag - pass.lag) ELSE due
     /\ UNCHANGED <<kind, mapperVars, dmaVars, latch, sure, said, time, ops>>

Tick ==
  /\ kind = "mbc3"
  /\ time < MaxTime /\ time' = time + 1
  /\ lag' = lag + 1
  /\ due' = (due + 1) % (Cycle * Millis)
  /\ UNCHANGED <<kind, mapperVars, dmaVars, real, latch, millies, oldHalt, pass, sure, said, ops>>

-----------------------------------------------------------------------------

Game ==
  \/ \E write \in Writes[kind] : MapperWrite(write[1], write[2])
  \/ \E offset \in Offsets : SramRead(offset) \/ RomRead(offset)
  \/ \E offset \in Offsets, byte \in Bytes : SramWrite(offset, byte)

Next == Game \/ ProcessLoad \/ ProcessStore \/ Tick

Spec == Init /\ [][Next]_vars

-----------------------------------------------------------------------------
(* Properties                                                              *)

\* Types; no requestor is ever left unarmed, for the console would never be
\* served again, but the reader after a read of a clock of which no register was
\* selected yet; MBC1 and MBC3 never map bank 0 a second time; the blocks in
\* force let the game in only when the mapper has.
TypeOK ==
  /\ kind \in Kinds
  /\ m \in Mapper /\ m.ram \in 0 .. 7 /\ m.rom \in 0 .. 511
  /\ kind \in {"mbc1", "mbc3"} => m.rom # 0
  /\ m.gate = "off" <=> ~m.enabled
  /\ accessor.chain \in {"reader", "writer"}
  /\ stray \subseteq {"read", "core0"}
  /\ armed = {"reader", "writer"} \ {r \in {"reader"} : "read" \in stray}
  /\ real \in Regs /\ latch \in Regs
  /\ millies \in 0 .. Millis - 1 /\ lag \in Nat
  /\ pass.busy \in BOOLEAN /\ pass.hit \subseteq 0 .. Status
  /\ due \in 0 .. (Cycle * Millis) - 1
  /\ time \in 0 .. MaxTime /\ ops \in 0 .. MaxOps

\* Every access is served, and reaches the byte the game's own last writes
\* to the mapper select, whatever blocks, pointers and addresses the
\* accesses and writes before it have left behind (the command blocks of
\* GbDmaCommandMachine, the pointers of Mbc1, Mbc3 and Mbc5).  A write while
\* access is off is claimed to be dropped only after one that was dropped:
\* its block ORs the address of DEV_NULL into the one before.
ReadAsAimed(offset) ==
  /\ accessor'.write = IF said.open THEN TxFifo ELSE DevNull
  /\ said.open => accessor'.read = Aim("latch", offset)
WrittenAsAimed(offset) ==
  /\ accessor'.read = RxFifo
  /\ said.open \/ accessor.write = DevNull => accessor'.write = Aim("real", offset)
ServedAsAimed ==
  [][\A offset \in Offsets :
       /\ SramRead(offset) /\ Settled => ReadAsAimed(offset)
       /\ (\E byte \in Bytes : SramWrite(offset, byte)) /\ Settled => WrittenAsAimed(offset)
       /\ RomRead(offset) => \/ low' = RomLow(RomBase, offset) /\ UNCHANGED sum
                             \/ sum' = RomHigh(AimedRom * BankSize, offset)]_vars

\* The clock loses no millisecond and gains none, from the time in the save
\* file on: over the seconds since it was written, of which those since
\* power-on are made up for by process, over the turns of minute, hour, day
\* and the ninth bit of the day, over process falling behind, over what the
\* game sets and over halts (GbRtc::process, restore_unix).  A byte the game
\* stores while process has the registers in hand may be lost.
KeepsTime ==
  (kind = "mbc3" /\ ~pass.busy /\ sure /\ ~IsHalt(real) /\ ~oldHalt)
    => Total(real, millies + lag) = due

\* A write while access is off is dropped: "load the addr of _devNull into
\* write addr of MEMORY_ACCESSOR_DMA" (gb_dma.rs:599).
ClosedWritesAreDropped ==
  [][\A offset \in Offsets, byte \in Bytes :
       SramWrite(offset, byte) /\ ~said.open => accessor'.write = DevNull]_vars

=============================================================================
