------------------------------ MODULE ClockChip ------------------------------
(***************************************************************************)
(* The cartridge's battery-backed clock, an MCP795xx                       *)
(* (src/mcp795xx.rs): the seven registers from RTCSEC to RTCYEAR as the    *)
(* driver reads and writes them, its datetime and set_datetime, and what   *)
(* main does with the chip when the cartridge starts.                      *)
(*                                                                         *)
(* A chip is a function from the register index to a byte.  An instant is  *)
(* <<year, month, day, hour, minute, second>> with months and days from 1. *)
(***************************************************************************)
EXTENDS Naturals, Sequences

Second == 0
Minute == 1
Hour == 2
WeekDay == 3
Day == 4
Month == 5
Year == 6

Byte == 0 .. 255
Chip == [Second .. Year -> Byte]

\* The bits mask (a power of two) selects
Bit(byte, mask) == (byte \div mask) % 2 = 1

Oscillator == 128  \* RTCSEC: the oscillator is on
PowerFail == 16    \* RTCWKDAY
BatteryOn == 8     \* RTCWKDAY

\* Mutant: the tens are not shifted into their nibble.
bin2bcd_NoTens(n) == (n \div 10) * 10 + (n % 10)

bin2bcd(n) == (n \div 10) * 16 + (n % 10)
bcd2bin(n) == (n \div 16) * 10 + (n % 16)

-----------------------------------------------------------------------------
(* The calendar of the date library the driver and the menu hand dates to. *)

LeapYear(y) == y % 4 = 0 /\ (y % 100 # 0 \/ y % 400 = 0)

DaysIn(y, m) ==
  IF m = 2 THEN IF LeapYear(y) THEN 29 ELSE 28
  ELSE IF m \in {4, 6, 9, 11} THEN 30 ELSE 31

IsDate(y, m, d) == m \in 1 .. 12 /\ d \in 1 .. DaysIn(y, m)
IsTime(h, mi, s) == h \in 0 .. 23 /\ mi \in 0 .. 59 /\ s \in 0 .. 59
IsInstant(t) == IsDate(t[1], t[2], t[3]) /\ IsTime(t[4], t[5], t[6])
Instant == Nat \X (1 .. 12) \X (1 .. 31) \X (0 .. 23) \X (0 .. 59) \X (0 .. 59)

\* 1 for Monday
NumberFromMonday(t) ==
  LET shift == <<0, 3, 2, 5, 0, 3, 5, 1, 4, 6, 2, 4>>
      y == IF t[2] < 3 THEN t[1] - 1 ELSE t[1]
  IN (((y + (y \div 4) + (y \div 400) + shift[t[2]] + t[3] + 6) - (y \div 100)) % 7) + 1

Later(t, u) ==
  \E i \in 1 .. 6 : t[i] > u[i] /\ \A j \in 1 .. i - 1 : t[j] = u[j]

-----------------------------------------------------------------------------
(* The driver *)

Running(chip) == Bit(chip[Second], Oscillator)

\* The fields of datetime, each register without its flag bits
Fields(chip) ==
  <<bcd2bin(chip[Year]) + 2000, bcd2bin(chip[Month] % 32), bcd2bin(chip[Day] % 64),
    bcd2bin(chip[Hour] % 64), bcd2bin(chip[Minute] % 128), bcd2bin(chip[Second] % 128)>>

\* datetime and the unwrap_or_default of its callers: the epoch when the chip
\* answers nothing that is a date
Epoch == <<1970, 1, 1, 0, 0, 0>>
Datetime(chip) == IF IsInstant(Fields(chip)) THEN Fields(chip) ELSE Epoch

InRange(t) == t[1] \in 2000 .. 2099

\* set_datetime takes the flags in RTCWKDAY that the mask 20, 2 ^ 4 + 2 ^ 2,
\* selects for the running oscillator: PowerFail, or a weekday from 4 to 7.
TakenForRunning(chip) == Bit(chip[WeekDay], PowerFail) \/ Bit(chip[WeekDay], 4)

\* set_datetime of a date in range.  RTCSEC is written without its oscillator
\* bit, which is set again only if the oscillator was taken for running.
SetDatetime(chip, t) ==
  [chip EXCEPT ![Second] = bin2bcd(t[6]) + (IF TakenForRunning(chip) THEN Oscillator ELSE 0),
               ![Minute] = ((@ \div 128) * 128) + bin2bcd(t[5]),
               ![Hour] = bin2bcd(t[4]),
               ![WeekDay] = (((@ \div BatteryOn) % 2) * BatteryOn) + NumberFromMonday(t),
               ![Day] = bin2bcd(t[3]),
               ![Month] = bin2bcd(t[2]),
               ![Year] = bin2bcd(t[1] - 2000)]

-----------------------------------------------------------------------------
(* main: battery on, not earlier than the build, oscillator on *)

WithBattery(chip) ==
  IF Bit(chip[WeekDay], BatteryOn) THEN chip ELSE [chip EXCEPT ![WeekDay] = BatteryOn + 1]

NotBefore(chip, built) ==
  IF Later(built, Datetime(chip)) THEN SetDatetime(chip, built) ELSE chip

WithOscillator(chip) ==
  IF Running(chip) THEN chip ELSE [chip EXCEPT ![Second] = Oscillator]

Started(chip, built) == WithOscillator(NotBefore(WithBattery(chip), built))

=============================================================================
