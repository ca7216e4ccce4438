------------------------------- MODULE Mappers -------------------------------
(***************************************************************************)
(* The mappers (src/gb_mbc.rs): what a write of the console below $8000    *)
(* makes of the bank pointers, of the access to $A000-$BFFF and of the     *)
(* clock.  A mapper is one record for all three kinds; rom and ram are the *)
(* pointers the DMA uses, in banks, and rom is also the register rom_bank, *)
(* with which it changes.                                                  *)
(***************************************************************************)
EXTENDS Naturals

Mapper == [
  rom : Nat, ram : Nat,
  low : Nat, high : Nat,       \* rom_bank_low and rom_bank_high
  mode : {0, 1},
  bank : Nat,                  \* ram_bank
  enabled : BOOLEAN,           \* ram_enabled
  latch : BOOLEAN,             \* rtc_latch
  gate : {"ram", "rtc", "off"} \* the command blocks in force
]

\* As main leaves it: $4000 and the first bank of SRAM, and no access
NewMapper == [rom |-> 1, ram |-> 0, low |-> 1, high |-> 0, mode |-> 0, bank |-> 1,
              enabled |-> FALSE, latch |-> FALSE, gate |-> "off"]

Enables(data) == data % 16 = 10
AtLeastOne(n) == IF n = 0 THEN 1 ELSE n

-----------------------------------------------------------------------------
(* Mbc1::run.  Writes are decoded by the upper three address bits: area 0  *)
(* is $0000, 2 is $2000, 4 is $4000 and 6 is $6000.                        *)

Mbc1Rom(m) == IF m.mode = 0 THEN ((m.high * 32) + m.low) % 64 ELSE m.low % 64

Mbc1Area(m, area, data) ==
  CASE area = 0 -> [m EXCEPT !.enabled = Enables(data),
                             !.gate = IF Enables(data) THEN "ram" ELSE "off"]
    [] area = 2 -> [m EXCEPT !.low = AtLeastOne(data % 32)]
    [] area = 4 -> IF m.mode # 0 THEN [m EXCEPT !.ram = data % 4] ELSE [m EXCEPT !.high = data % 4]
    [] area = 6 -> [m EXCEPT !.mode = data % 2]

Mbc1Write(m, area, data) ==
  LET new == Mbc1Area(m, area, data) IN [new EXCEPT !.rom = Mbc1Rom(new)]

-----------------------------------------------------------------------------
(* Mbc3State::step and the shortcut of Mbc3::run for $2000                 *)

SelectsClock(bank) == (bank \div 8) % 2 = 1
Mbc3Gate(enabled, bank) ==
  IF ~enabled THEN "off" ELSE IF SelectsClock(bank) THEN "rtc" ELSE "ram"

\* Mutant: a bank selected while access is on leaves the clock's blocks.
Mbc3Bank_KeepsGate(m, data) ==
  [m EXCEPT !.bank = data, !.ram = IF SelectsClock(data) THEN @ ELSE data % 8,
            !.gate = IF m.enabled /\ SelectsClock(data) THEN "rtc" ELSE @]

Mbc3Bank(m, data) ==
  [m EXCEPT !.bank = data, !.ram = IF SelectsClock(data) THEN @ ELSE data % 8,
            !.gate = IF m.enabled THEN Mbc3Gate(TRUE, data) ELSE @]

Mbc3Write(m, area, data) ==
  CASE area = 0 -> [m EXCEPT !.enabled = Enables(data), !.gate = Mbc3Gate(Enables(data), m.bank)]
    [] area = 2 -> [m EXCEPT !.rom = AtLeastOne(data % 128)]
    [] area = 4 -> Mbc3Bank(m, data)
    [] area = 6 -> [m EXCEPT !.latch = (data # 0)]

\* What step asks of the clock
Latches(m, area, data) == area = 6 /\ data # 0 /\ ~m.latch
Activates(area, data) == area = 4 /\ SelectsClock(data)

-----------------------------------------------------------------------------
(* Mbc5::run, decoded by the upper four address bits.  The pointer to SRAM *)
(* moves only when the register changes.                                   *)

Mbc5Bank(m, data) ==
  [m EXCEPT !.bank = data % 16, !.ram = IF m.bank # data % 16 THEN data % 4 ELSE @]

Mbc5Write(m, area, data) ==
  CASE area \in {0, 1} -> [m EXCEPT !.enabled = Enables(data),
                                    !.gate = IF Enables(data) THEN "ram" ELSE "off"]
    [] area = 2 -> [m EXCEPT !.rom = ((@ \div 256) * 256) + data]
    [] area = 3 -> [m EXCEPT !.rom = ((data % 2) * 256) + (@ % 256)]
    [] area = 4 -> Mbc5Bank(m, data)
    [] area \in 5 .. 7 -> m

=============================================================================
