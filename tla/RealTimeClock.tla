---------------------------- MODULE RealTimeClock ----------------------------
(***************************************************************************)
(* The clock of an MBC3 cartridge (src/gb_rtc.rs): its five registers, one *)
(* second, and a call of process.                                          *)
(***************************************************************************)
EXTENDS Naturals

CONSTANTS
  Radix,   \* 60 seconds, 60 minutes, 24 hours, 256 days
  Width,   \* values of these registers: 64, 64, 32, 256
  Millis   \* 1000

ASSUME ClockAssumption ==
  /\ Radix \in [0 .. 3 -> Nat \ {0}] /\ Width \in [0 .. 3 -> Nat \ {0}]
  /\ \A n \in 0 .. 3 : Radix[n] <= Width[n]
  /\ Radix[3] = Width[3]
  /\ Millis \in Nat \ {0}

Status == 4
\* The bits of the status register the mask leaves
Flags == {"daysHigh", "halt", "carry"}
Regs == [count : [0 .. 3 -> Nat], flags : SUBSET Flags]

\* REGISTER_MASKS
Masked(r) == [r EXCEPT !.count = [n \in 0 .. 3 |-> @[n] % Width[n]]]

IsHalt(r) == "halt" \in r.flags

\* The number of registers that start again at this second
Rolls(r, n) == \A k \in 0 .. n : r.count[k] + 1 = Radix[k]

\* The day register is a byte.
AfterDays(r) ==
  IF "daysHigh" \in r.flags THEN (r.flags \ {"daysHigh"}) \cup {"carry"}
  ELSE r.flags \cup {"daysHigh"}

\* Mutant: the bit for the days above 255 is not toggled back.
process_tick_KeepsHigh(r) ==
  [count |-> [n \in 0 .. 3 |->
     IF Rolls(r, n) THEN 0
     ELSE IF n = 0 \/ Rolls(r, n - 1) THEN r.count[n] + 1 ELSE r.count[n]],
   flags |-> IF Rolls(r, 3)
             THEN r.flags \cup {"daysHigh"} \cup (IF "daysHigh" \in r.flags THEN {"carry"} ELSE {})
             ELSE r.flags]

process_tick(r) ==
  [count |-> [n \in 0 .. 3 |->
     IF Rolls(r, n) THEN 0
     ELSE IF n = 0 \/ Rolls(r, n - 1) THEN r.count[n] + 1 ELSE r.count[n]],
   flags |-> IF Rolls(r, 3) THEN AfterDays(r) ELSE r.flags]

\* A byte of the console in a register; as a status it is a set of flags.
Stored(r, n, byte) ==
  IF n = Status THEN [r EXCEPT !.flags = byte.flags]
  ELSE [r EXCEPT !.count[n] = IF n = 3 THEN byte.num % Width[3] ELSE byte.num]

\* GbRtcStateProvider::advance_by_seconds
AdvanceBy(r, seconds) ==
  LET after[n \in 0 .. seconds] == IF n = 0 THEN r ELSE process_tick(after[n - 1])
  IN IF IsHalt(r) THEN r ELSE after[seconds]

\* The seconds the clock shows, of those it can
Valid(r) == \A n \in 0 .. 3 : r.count[n] < Radix[n]
Cycle == 2 * Radix[0] * Radix[1] * Radix[2] * Radix[3]
Seconds(r) ==
  LET days == r.count[3] + (IF "daysHigh" \in r.flags THEN Radix[3] ELSE 0)
  IN r.count[0] + (Radix[0] * (r.count[1] + (Radix[1] * (r.count[2] + (Radix[2] * days)))))

=============================================================================
