--------------------------- MODULE BootMenuProofs ---------------------------
(***************************************************************************)
(* The ROM menu and the hand-over to the game, for cards with any number   *)
(* of games, screens of any height, any keys and any clock.                *)
(***************************************************************************)
EXTENDS BootMenu, FiniteSetTheorems, SequenceTheorems, TLAPS

-----------------------------------------------------------------------------
(* The chip reads back what it takes                                       *)

LEMMA BcdOfMinutes == \A n \in 0 .. 59 : bin2bcd(n) \in 0 .. 127 /\ bcd2bin(bin2bcd(n)) = n
BY DEF bin2bcd, bcd2bin

LEMMA BcdOfDays == \A n \in 0 .. 31 : bin2bcd(n) \in 0 .. 63 /\ bcd2bin(bin2bcd(n)) = n
BY DEF bin2bcd, bcd2bin

LEMMA BcdOfMonths == \A n \in 0 .. 12 : bin2bcd(n) \in 0 .. 31 /\ bcd2bin(bin2bcd(n)) = n
BY DEF bin2bcd, bcd2bin

LEMMA BcdOfYears == \A n \in 0 .. 99 : bin2bcd(n) \in 0 .. 153 /\ bcd2bin(bin2bcd(n)) = n
BY DEF bin2bcd, bcd2bin

LEMMA BcdRange == \A b \in Byte : bcd2bin(b) \in 0 .. 165
BY DEF bcd2bin, Byte

LEMMA WeekDayRange ==
  ASSUME NEW t, t[1] \in Nat, t[2] \in 1 .. 12, t[3] \in Nat
  PROVE  NumberFromMonday(t) \in 1 .. 7
<1> DEFINE shift == <<0, 3, 2, 5, 0, 3, 5, 1, 4, 6, 2, 4>>
<1>1. shift[t[2]] \in Nat
  OBVIOUS
<1> HIDE DEF shift
<1>2. \A n \in Int : (n % 7) + 1 \in 1 .. 7
  OBVIOUS
<1>3. \A y \in Int, s, d \in Nat :
        ((y + (y \div 4) + (y \div 400) + s + d + 6) - (y \div 100)) \in Int
  OBVIOUS
<1> DEFINE y == IF t[2] < 3 THEN t[1] - 1 ELSE t[1]
<1>4. y \in Int
  OBVIOUS
<1> HIDE DEF y
<1>5. (((y + (y \div 4) + (y \div 400) + shift[t[2]] + t[3] + 6) - (y \div 100)) % 7) + 1 \in 1 .. 7
  BY <1>1, <1>2, <1>3, <1>4
<1> QED BY <1>5 DEF NumberFromMonday, y, shift

\* The digits of a date and time that the registers have room for.
Digits(t) ==
  /\ t[1] \in 2000 .. 2099 /\ t[2] \in 1 .. 12 /\ t[3] \in 1 .. 31
  /\ t[4] \in 0 .. 23 /\ t[5] \in 0 .. 59 /\ t[6] \in 0 .. 59

LEMMA InstantDigits == \A t : IsInstant(t) /\ InRange(t) => Digits(t)
BY DEF IsInstant, IsDate, IsTime, DaysIn, InRange, Digits

LEMMA SetDatetimeReads ==
  ASSUME NEW c \in Chip, NEW t, Digits(t)
  PROVE  /\ SetDatetime(c, t) \in Chip
         /\ \A i \in 1 .. 6 : Fields(SetDatetime(c, t))[i] = t[i]
<1> DEFINE d == SetDatetime(c, t)
<1> USE DEF Second, Minute, Hour, WeekDay, Day, Month, Year
<1>1. DOMAIN c = 0 .. 6 /\ c[1] \in Byte /\ c[3] \in Byte
  BY DEF Chip
<1>2. /\ d[0] = bin2bcd(t[6]) + (IF TakenForRunning(c) THEN 128 ELSE 0)
      /\ d[1] = ((c[1] \div 128) * 128) + bin2bcd(t[5])
      /\ d[2] = bin2bcd(t[4]) /\ d[4] = bin2bcd(t[3]) /\ d[5] = bin2bcd(t[2])
      /\ d[6] = bin2bcd(t[1] - 2000)
      /\ d[3] = (((c[3] \div 8) % 2) * 8) + NumberFromMonday(t)
      /\ d \in [0 .. 6 -> {d[i] : i \in 0 .. 6}]
  BY <1>1 DEF SetDatetime, Oscillator, BatteryOn, Chip
<1> HIDE DEF d
<1>3. /\ t[1] - 2000 \in 0 .. 99 /\ t[2] \in 0 .. 12 /\ t[3] \in 0 .. 31
      /\ t[4] \in 0 .. 31 /\ t[5] \in 0 .. 59 /\ t[6] \in 0 .. 59
  BY DEF Digits
<1>4. /\ bin2bcd(t[6]) \in 0 .. 127 /\ bcd2bin(bin2bcd(t[6])) = t[6]
      /\ bin2bcd(t[5]) \in 0 .. 127 /\ bcd2bin(bin2bcd(t[5])) = t[5]
      /\ bin2bcd(t[4]) \in 0 .. 63 /\ bcd2bin(bin2bcd(t[4])) = t[4]
      /\ bin2bcd(t[3]) \in 0 .. 63 /\ bcd2bin(bin2bcd(t[3])) = t[3]
      /\ bin2bcd(t[2]) \in 0 .. 31 /\ bcd2bin(bin2bcd(t[2])) = t[2]
      /\ bin2bcd(t[1] - 2000) \in 0 .. 153 /\ bcd2bin(bin2bcd(t[1] - 2000)) = t[1] - 2000
  <2>1. bin2bcd(t[6]) \in 0 .. 127 /\ bcd2bin(bin2bcd(t[6])) = t[6]
    BY <1>3, BcdOfMinutes
  <2>2. bin2bcd(t[5]) \in 0 .. 127 /\ bcd2bin(bin2bcd(t[5])) = t[5]
    BY <1>3, BcdOfMinutes
  <2>3. bin2bcd(t[4]) \in 0 .. 63 /\ bcd2bin(bin2bcd(t[4])) = t[4]
    BY <1>3, BcdOfDays
  <2>4. bin2bcd(t[3]) \in 0 .. 63 /\ bcd2bin(bin2bcd(t[3])) = t[3]
    BY <1>3, BcdOfDays
  <2>5. bin2bcd(t[2]) \in 0 .. 31 /\ bcd2bin(bin2bcd(t[2])) = t[2]
    BY <1>3, BcdOfMonths
  <2>6. bin2bcd(t[1] - 2000) \in 0 .. 153 /\ bcd2bin(bin2bcd(t[1] - 2000)) = t[1] - 2000
    <3>1. PICK y \in 0 .. 99 : y = t[1] - 2000
      BY <1>3
    <3>2. bin2bcd(y) \in 0 .. 153 /\ bcd2bin(bin2bcd(y)) = y
      BY BcdOfYears
    <3> QED BY <3>1, <3>2
  <2> QED BY <2>1, <2>2, <2>3, <2>4, <2>5, <2>6
<1>5. NumberFromMonday(t) \in 1 .. 7
  BY WeekDayRange DEF Digits
<1>6. /\ d[0] \in Byte /\ d[0] % 128 = bin2bcd(t[6])
  <2>1. \A b \in 0 .. 127 : b % 128 = b /\ (b + 128) % 128 = b /\ b + 0 = b
    OBVIOUS
  <2>2. CASE d[0] = bin2bcd(t[6]) + 128
    BY <1>4, <2>1, <2>2 DEF Byte
  <2>3. CASE d[0] = bin2bcd(t[6]) + 0
    BY <1>4, <2>1, <2>3 DEF Byte
  <2> QED BY <1>2, <2>2, <2>3
<1>7. /\ d[1] \in Byte /\ d[1] % 128 = bin2bcd(t[5])
  <2>1. \A a \in Byte, b \in 0 .. 127 :
          ((a \div 128) * 128) + b \in Byte /\ (((a \div 128) * 128) + b) % 128 = b
    BY DEF Byte
  <2>2. PICK b \in 0 .. 127 : b = bin2bcd(t[5])
    BY <1>4
  <2>3. c[1] \in Byte /\ d[1] = ((c[1] \div 128) * 128) + b
    BY <1>1, <1>2, <2>2
  <2>4. ((c[1] \div 128) * 128) + b \in Byte /\ (((c[1] \div 128) * 128) + b) % 128 = b
    BY <2>1, <2>3
  <2> QED BY <2>2, <2>3, <2>4
<1>8. d[3] \in Byte
  <2>1. \A a \in Byte, b \in 1 .. 7 : (((a \div 8) % 2) * 8) + b \in Byte
    BY DEF Byte
  <2> QED BY <1>1, <1>2, <1>5, <2>1
<1>9. /\ d[2] \in Byte /\ d[2] % 64 = bin2bcd(t[4])
      /\ d[4] \in Byte /\ d[4] % 64 = bin2bcd(t[3])
      /\ d[5] \in Byte /\ d[5] % 32 = bin2bcd(t[2])
      /\ d[6] \in Byte
  BY <1>2, <1>4 DEF Byte
<1>10. d \in Chip
  <2>1. \A i \in 0 .. 6 : d[i] \in Byte
    BY <1>6, <1>7, <1>8, <1>9
  <2> QED BY <1>2, <2>1 DEF Chip
<1>11. (t[1] - 2000) + 2000 = t[1]
  BY DEF Digits
<1>12. /\ Fields(d)[1] = t[1] /\ Fields(d)[2] = t[2] /\ Fields(d)[3] = t[3]
       /\ Fields(d)[4] = t[4] /\ Fields(d)[5] = t[5] /\ Fields(d)[6] = t[6]
  BY <1>2, <1>4, <1>6, <1>7, <1>9, <1>11 DEF Fields
<1>13. \A i \in 1 .. 6 : Fields(d)[i] = t[i]
  BY <1>12
<1> QED BY <1>10, <1>13 DEF d

-----------------------------------------------------------------------------
(* The calendar of the menu and that of the date library                   *)

LEMMA MonthsAgree ==
  \A y \in Nat, m \in 0 .. 11 :
    MaxDay(y, m) \in 27 .. 30 /\ MaxDay(y, m) + 1 = DaysIn(y + 1970, m + 1)
<1> SUFFICES ASSUME NEW y \in Nat, NEW m \in 0 .. 11
             PROVE  MaxDay(y, m) \in 27 .. 30 /\ MaxDay(y, m) + 1 = DaysIn(y + 1970, m + 1)
  OBVIOUS
<1> DEFINE z == y + 1970
<1>1. 1970 + y = z
  OBVIOUS
<1>2. (z % 4 = 0 /\ (z % 100 = 0 => z % 400 = 0)) <=> LeapYear(z)
  BY DEF LeapYear
<1> HIDE DEF z
<1>3. MaxDay(y, m) = IF m = 1 THEN IF LeapYear(z) THEN 28 ELSE 27
                     ELSE IF m \in {3, 5, 8, 10} THEN 29 ELSE 30
  BY <1>1, <1>2 DEF MaxDay
<1>4. DaysIn(z, m + 1) = IF m = 1 THEN IF LeapYear(z) THEN 29 ELSE 28
                         ELSE IF m \in {3, 5, 8, 10} THEN 30 ELSE 31
  <2>1. m + 1 = 2 <=> m = 1
    OBVIOUS
  <2>2. m + 1 \in {4, 6, 9, 11} <=> m \in {3, 5, 8, 10}
    OBVIOUS
  <2> QED BY <2>1, <2>2 DEF DaysIn
<1>5. MaxDay(y, m) \in 27 .. 30 /\ MaxDay(y, m) + 1 = DaysIn(z, m + 1)
  BY <1>3, <1>4
<1> QED BY <1>5 DEF z

\* A date and time that exist, in the menu's form.
Valid(p) ==
  /\ p \in Point /\ p[4] \in 0 .. 11 /\ p[3] \in 0 .. MaxDay(p[5], p[4])
  /\ p[2] \in 0 .. 23 /\ p[1] \in 0 .. 59

LEMMA ToPointFields ==
  \A t : /\ ToPoint(t)[0] = t[6] - 0 /\ ToPoint(t)[1] = t[5] - 0 /\ ToPoint(t)[2] = t[4] - 0
         /\ ToPoint(t)[3] = t[3] - 1 /\ ToPoint(t)[4] = t[2] - 1 /\ ToPoint(t)[5] = t[1] - 1970
         /\ DOMAIN ToPoint(t) = 0 .. 5 /\ ToPoint(t) = [i \in 0 .. 5 |-> ToPoint(t)[i]]
<1> SUFFICES ASSUME NEW t
             PROVE /\ ToPoint(t)[0] = t[6] - 0 /\ ToPoint(t)[1] = t[5] - 0
                   /\ ToPoint(t)[2] = t[4] - 0 /\ ToPoint(t)[3] = t[3] - 1
                   /\ ToPoint(t)[4] = t[2] - 1 /\ ToPoint(t)[5] = t[1] - 1970
                   /\ DOMAIN ToPoint(t) = 0 .. 5
                   /\ ToPoint(t) = [i \in 0 .. 5 |-> ToPoint(t)[i]]
  OBVIOUS
<1>1. /\ First[1] = 0 /\ First[2] = 0 /\ First[3] = 0
      /\ First[4] = 1 /\ First[5] = 1 /\ First[6] = 1970
  BY DEF First
<1>2. \A i \in 0 .. 5 : ToPoint(t)[i] = t[6 - i] - First[i + 1]
  BY DEF ToPoint
<1>3. /\ ToPoint(t)[0] = t[6 - 0] - First[0 + 1] /\ ToPoint(t)[1] = t[6 - 1] - First[1 + 1]
      /\ ToPoint(t)[2] = t[6 - 2] - First[2 + 1] /\ ToPoint(t)[3] = t[6 - 3] - First[3 + 1]
      /\ ToPoint(t)[4] = t[6 - 4] - First[4 + 1] /\ ToPoint(t)[5] = t[6 - 5] - First[5 + 1]
  BY <1>2
<1>4. /\ 6 - 0 = 6 /\ 6 - 1 = 5 /\ 6 - 2 = 4 /\ 6 - 3 = 3 /\ 6 - 4 = 2 /\ 6 - 5 = 1
      /\ 0 + 1 = 1 /\ 1 + 1 = 2 /\ 2 + 1 = 3 /\ 3 + 1 = 4 /\ 4 + 1 = 5 /\ 5 + 1 = 6
  OBVIOUS
<1>5. DOMAIN ToPoint(t) = 0 .. 5 /\ ToPoint(t) = [i \in 0 .. 5 |-> ToPoint(t)[i]]
  BY DEF ToPoint
<1> QED BY <1>1, <1>3, <1>4, <1>5

LEMMA FromPointFields ==
  \A p : /\ FromPoint(p)[1] = p[5] + 1970 /\ FromPoint(p)[2] = p[4] + 1
         /\ FromPoint(p)[3] = p[3] + 1 /\ FromPoint(p)[4] = p[2]
         /\ FromPoint(p)[5] = p[1] /\ FromPoint(p)[6] = 0
BY DEF FromPoint

\* Every date the menu can set exists for the cartridge.
LEMMA ValidIsInstant == \A p : Valid(p) => IsInstant(FromPoint(p))
<1> SUFFICES ASSUME NEW p, Valid(p) PROVE IsInstant(FromPoint(p))
  OBVIOUS
<1> DEFINE t == FromPoint(p)
<1>1. /\ p[5] \in Nat /\ p[4] \in 0 .. 11 /\ p[3] \in 0 .. MaxDay(p[5], p[4])
      /\ p[2] \in 0 .. 23 /\ p[1] \in 0 .. 59
  BY DEF Valid, Point, Byte
<1>2. MaxDay(p[5], p[4]) \in 27 .. 30 /\ MaxDay(p[5], p[4]) + 1 = DaysIn(p[5] + 1970, p[4] + 1)
  BY <1>1, MonthsAgree
<1>3. p[3] + 1 \in 1 .. DaysIn(p[5] + 1970, p[4] + 1) /\ p[4] + 1 \in 1 .. 12
  BY <1>1, <1>2
<1>4. /\ t[1] = p[5] + 1970 /\ t[2] = p[4] + 1 /\ t[3] = p[3] + 1
      /\ t[4] = p[2] /\ t[5] = p[1] /\ t[6] = 0
  BY FromPointFields
<1> HIDE DEF t
<1>5. IsDate(t[1], t[2], t[3])
  BY <1>3, <1>4 DEF IsDate
<1>6. IsTime(t[4], t[5], t[6])
  BY <1>1, <1>4 DEF IsTime
<1> QED BY <1>5, <1>6 DEF IsInstant, t

\* Whatever the chip holds, the menu is given a date that exists,
LEMMA DatetimeIsValid == \A c \in Chip : Valid(ToPoint(Datetime(c)))
<1> SUFFICES ASSUME NEW c \in Chip PROVE Valid(ToPoint(Datetime(c)))
  OBVIOUS
<1> DEFINE t == Datetime(c)
<1>1. IsInstant(t) /\ t[1] \in 1970 .. 2165
  <2>1. IsInstant(Epoch) /\ Epoch[1] = 1970
    BY DEF Epoch, IsInstant, IsDate, IsTime, DaysIn
  <2>2. Fields(c)[1] \in 1970 .. 2165
    <3>1. bcd2bin(c[Year]) \in 0 .. 165
      BY BcdRange DEF Chip, Second, Year
    <3>2. Fields(c)[1] = bcd2bin(c[Year]) + 2000
      BY DEF Fields
    <3> QED BY <3>1, <3>2
  <2> QED BY <2>1, <2>2 DEF Datetime
<1> HIDE DEF t
<1>2. /\ t[2] \in 1 .. 12 /\ t[3] \in 1 .. DaysIn(t[1], t[2]) /\ t[4] \in 0 .. 23
      /\ t[5] \in 0 .. 59 /\ t[6] \in 0 .. 59
  BY <1>1 DEF IsInstant, IsDate, IsTime
<1> DEFINE p == ToPoint(t)
<1>3. /\ p[0] = t[6] - 0 /\ p[1] = t[5] - 0 /\ p[2] = t[4] - 0
      /\ p[3] = t[3] - 1 /\ p[4] = t[2] - 1 /\ p[5] = t[1] - 1970
      /\ p = [i \in 0 .. 5 |-> p[i]]
  BY ToPointFields
<1> HIDE DEF p
<1>4. /\ p[5] \in 0 .. 195 /\ p[4] \in 0 .. 11 /\ p[2] \in 0 .. 23 /\ p[1] \in 0 .. 59
      /\ p[0] \in 0 .. 59
  BY <1>1, <1>2, <1>3
<1>5. p[5] + 1970 = t[1] /\ p[4] + 1 = t[2]
  BY <1>1, <1>2, <1>3
<1>6. MaxDay(p[5], p[4]) \in 27 .. 30 /\ MaxDay(p[5], p[4]) + 1 = DaysIn(t[1], t[2])
  <2>1. p[5] \in Nat
    BY <1>4
  <2> QED BY <1>4, <1>5, <2>1, MonthsAgree
<1>7. p[3] \in 0 .. MaxDay(p[5], p[4])
  BY <1>2, <1>3, <1>6
<1>8. p \in Point
  <2>1. \A i \in 0 .. 5 : p[i] \in Byte
    BY <1>4, <1>6, <1>7 DEF Byte
  <2> QED BY <1>3, <2>1 DEF Point
<1> QED BY <1>4, <1>7, <1>8 DEF Valid, p, t

\* and what the menu sets is what it reads.
Agree(p, c) == \A i \in 1 .. 5 : p[i] = ToPoint(Datetime(c))[i]

LEMMA SetAgrees ==
  ASSUME NEW c \in Chip, NEW p, Valid(p), InRange(FromPoint(p))
  PROVE  /\ SetDatetime(c, FromPoint(p)) \in Chip
         /\ Agree(p, SetDatetime(c, FromPoint(p)))
<1> DEFINE t == FromPoint(p)
           d == SetDatetime(c, t)
<1>1. IsInstant(t) /\ Digits(t)
  BY ValidIsInstant, InstantDigits
<1>2. t = <<t[1], t[2], t[3], t[4], t[5], t[6]>>
  BY DEF FromPoint
<1>3. /\ t[1] = p[5] + 1970 /\ t[2] = p[4] + 1 /\ t[3] = p[3] + 1
      /\ t[4] = p[2] /\ t[5] = p[1] /\ t[6] = 0
  BY FromPointFields
<1> HIDE DEF t
<1>4. d \in Chip /\ \A i \in 1 .. 6 : Fields(d)[i] = t[i]
  BY <1>1, SetDatetimeReads
<1> HIDE DEF d
<1>5. /\ Fields(d)[1] = t[1] /\ Fields(d)[2] = t[2] /\ Fields(d)[3] = t[3]
      /\ Fields(d)[4] = t[4] /\ Fields(d)[5] = t[5] /\ Fields(d)[6] = t[6]
  BY <1>4
<1>6. Datetime(d) = Fields(d)
  <2>1. IsInstant(Fields(d))
    BY <1>1, <1>5 DEF IsInstant
  <2> QED BY <2>1 DEF Datetime
<1> DEFINE q == ToPoint(Datetime(d))
<1>7. /\ q[1] = t[5] - 0 /\ q[2] = t[4] - 0 /\ q[3] = t[3] - 1
      /\ q[4] = t[2] - 1 /\ q[5] = t[1] - 1970
  BY <1>5, <1>6, ToPointFields
<1> HIDE DEF q
<1>8. /\ p[1] \in Nat /\ p[2] \in Nat /\ p[3] \in Nat /\ p[4] \in Nat /\ p[5] \in Nat
  BY DEF Valid, Point, Byte
<1>9. p[1] = q[1] /\ p[2] = q[2] /\ p[3] = q[3] /\ p[4] = q[4] /\ p[5] = q[5]
  BY <1>3, <1>7, <1>8
<1>10. \A i \in 1 .. 5 : p[i] = q[i]
  BY <1>9
<1> QED BY <1>4, <1>10 DEF Agree, q, d, t

\* What main does with the chip leaves a chip.
LEMMA StartedIsChip == \A c \in Chip : Started(c, Built) \in Chip
<1> SUFFICES ASSUME NEW c \in Chip PROVE Started(c, Built) \in Chip
  OBVIOUS
<1>1. Digits(Built)
  <2>1. Built \in Instant /\ InRange(Built)
    BY MenuAssumption
  <2>2. /\ Built[2] \in 1 .. 12 /\ Built[3] \in 1 .. 31 /\ Built[4] \in 0 .. 23
        /\ Built[5] \in 0 .. 59 /\ Built[6] \in 0 .. 59
    BY <2>1 DEF Instant
  <2> QED BY <2>1, <2>2 DEF Digits, InRange
<1>2. \A x \in Chip : WithBattery(x) \in Chip /\ WithOscillator(x) \in Chip
  <2>1. \A x \in Chip, i \in 0 .. 6, b \in Byte : [x EXCEPT ![i] = b] \in Chip
    BY DEF Chip, Second, Year
  <2>2. 9 \in Byte /\ 128 \in Byte /\ BatteryOn + 1 = 9
    BY DEF Byte, BatteryOn
  <2>3. \A x \in Chip : [x EXCEPT ![WeekDay] = BatteryOn + 1] \in Chip
    <3>1. WeekDay \in 0 .. 6
      BY DEF WeekDay
    <3> QED BY <2>1, <2>2, <3>1
  <2>4. \A x \in Chip : [x EXCEPT ![Second] = Oscillator] \in Chip
    <3>1. Second \in 0 .. 6 /\ Oscillator \in Byte
      BY <2>2 DEF Second, Oscillator
    <3> QED BY <2>1, <3>1
  <2> QED BY <2>3, <2>4, Zenon DEF WithBattery, WithOscillator
<1>3. \A x \in Chip : NotBefore(x, Built) \in Chip
  BY <1>1, SetDatetimeReads DEF NotBefore
<1> QED BY <1>2, <1>3 DEF Started

-----------------------------------------------------------------------------
(* The keys never leave a date that does not exist                         *)

LEMMA SanitizedIsValid ==
  ASSUME NEW p \in Point
  PROVE  /\ Valid(Sanitized(p)) /\ Sanitized(p)[5] = p[5] /\ Sanitized(p)[0] = p[0]
         /\ \A i \in 0 .. 5 : Sanitized(p)[i] <= p[i]
<1> DEFINE month == AtMost(p[4], 11)
           day == AtMost(p[3], MaxDay(p[5], month))
           q == Sanitized(p)
<1>1. \A i \in 0 .. 5 : p[i] \in 0 .. 255
  BY DEF Point, Byte
<1>2. month \in 0 .. 11 /\ month <= p[4]
  BY <1>1 DEF AtMost
<1>3. MaxDay(p[5], month) \in 27 .. 30
  <2>1. p[5] \in Nat
    BY <1>1
  <2> HIDE DEF month
  <2> QED BY <1>2, <2>1, MonthsAgree
<1>4. day \in 0 .. MaxDay(p[5], month) /\ day <= p[3]
  BY <1>1, <1>3 DEF AtMost
<1>5. /\ q = [p EXCEPT ![4] = month, ![3] = day, ![2] = AtMost(@, 23), ![1] = AtMost(@, 59)]
      /\ p = [i \in 0 .. 5 |-> p[i]] /\ DOMAIN p = 0 .. 5
  BY DEF Sanitized, Point
<1> HIDE DEF month, day, q
<1>6. /\ q[0] = p[0] /\ q[5] = p[5] /\ q[4] = month /\ q[3] = day
      /\ q[2] = AtMost(p[2], 23) /\ q[1] = AtMost(p[1], 59)
      /\ q = [i \in 0 .. 5 |-> q[i]]
  <2>1. DOMAIN q = 0 .. 5 /\ q = [i \in 0 .. 5 |-> q[i]]
    BY <1>5
  <2>2. q[0] = p[0] /\ q[5] = p[5] /\ q[4] = month /\ q[3] = day
    BY <1>5
  <2>3. q[2] = AtMost(p[2], 23) /\ q[1] = AtMost(p[1], 59)
    BY <1>5
  <2> QED BY <2>1, <2>2, <2>3
<1>7. q[2] \in 0 .. 23 /\ q[2] <= p[2] /\ q[1] \in 0 .. 59 /\ q[1] <= p[1]
  BY <1>1, <1>6 DEF AtMost
<1>8. q[0] \in 0 .. 255 /\ q[5] \in 0 .. 255
  BY <1>1, <1>6
<1>9. /\ \A i \in 0 .. 5 : q[i] <= p[i]
      /\ \A i \in 0 .. 5 : q[i] \in 0 .. 255
  BY <1>1, <1>2, <1>3, <1>4, <1>6, <1>7, <1>8
<1>10. q \in Point
  BY <1>6, <1>9 DEF Point, Byte
<1>11. Valid(q)
  BY <1>2, <1>4, <1>6, <1>7, <1>10 DEF Valid
<1> QED BY <1>6, <1>9, <1>11 DEF q

LEMMA KeysKeepValid ==
  ASSUME NEW p, Valid(p), NEW f \in 1 .. 5
  PROVE  Valid(Increased(p, f)) /\ Valid(Decreased(p, f))
<1>1. p \in Point /\ \A i \in 0 .. 5 : p[i] \in 0 .. 255
  BY DEF Valid, Point, Byte
<1>2. \A b \in 0 .. 255 : (b + 1) % 256 \in Byte /\ (b + 255) % 256 \in Byte
  BY DEF Byte
<1>3. \A b \in Byte : [p EXCEPT ![f] = b] \in Point /\ [p EXCEPT ![f] = b][f] = b
  BY <1>1 DEF Point
<1>4. Valid(Decreased(p, f))
  BY <1>1, <1>2, <1>3, SanitizedIsValid DEF Decreased
<1> DEFINE new == (p[f] + 1) % 256
           e == [p EXCEPT ![f] = new]
           q == Sanitized(e)
           r == [q EXCEPT ![f] = 0]
<1>5. new \in Byte /\ e \in Point /\ e[f] = new
  BY <1>1, <1>2, <1>3
<1>6. Valid(q) /\ q[5] = e[5] /\ q \in Point
  <2> HIDE DEF e
  <2>1. Valid(Sanitized(e)) /\ Sanitized(e)[5] = e[5]
    BY <1>5, SanitizedIsValid
  <2>2. \A x : Valid(x) => x \in Point
    BY Zenon DEF Valid
  <2> QED BY <2>1, <2>2
<1>7. ASSUME q[f] + 1 = new PROVE Valid(r)
  <2> HIDE DEF q, e, new
  <2>1. f # 5
    BY <1>5, <1>6, <1>7 DEF Byte
  <2>2. DOMAIN q = 0 .. 5 /\ q \in [0 .. 5 -> Byte]
    BY <1>6 DEF Point
  <2>3. /\ r[5] = q[5] /\ r \in [0 .. 5 -> Byte]
        /\ \A i \in 1 .. 4 : r[i] = IF i = f THEN 0 ELSE q[i]
    BY <2>1, <2>2 DEF Byte
  <2>4. /\ q[4] \in 0 .. 11 /\ q[3] \in 0 .. MaxDay(q[5], q[4]) /\ q[2] \in 0 .. 23
        /\ q[1] \in 0 .. 59 /\ q[5] \in Nat
    BY <1>6 DEF Valid, Point, Byte
  <2> HIDE DEF r
  <2>5. r[4] \in {0, q[4]} /\ r[3] \in {0, q[3]} /\ r[2] \in {0, q[2]} /\ r[1] \in {0, q[1]}
    BY <2>3
  <2>6. MaxDay(q[5], q[4]) \in 27 .. 30 /\ MaxDay(q[5], 0) \in Nat
    BY <2>4, MonthsAgree
  <2>7. r[3] \in 0 .. MaxDay(r[5], r[4])
    <3>1. CASE r[4] = q[4]
      BY <2>3, <2>4, <2>5, <2>6, <3>1
    <3>2. CASE r[4] = 0
      <4>1. MaxDay(r[5], 0) = 30
        BY DEF MaxDay
      <4>2. q[3] \in 0 .. 30
        BY <2>4, <2>6
      <4> QED BY <2>5, <3>2, <4>1, <4>2
    <3> QED BY <2>5, <3>1, <3>2
  <2> QED BY <2>3, <2>4, <2>5, <2>7 DEF Valid, Point
<1>8. Increased(p, f) = IF q[f] + 1 = new THEN r ELSE q
  BY DEF Increased
<1> QED BY <1>4, <1>6, <1>7, <1>8

-----------------------------------------------------------------------------
(* Ids and short queues                                                    *)

\* The next of a circle of numbers is another one.
LEMMA NextModulo ==
  ASSUME NEW n \in Nat, n > 2
  PROVE  /\ \A m \in 0 .. n - 1 : (m + 1) % n \in 0 .. n - 1 /\ (m + 1) % n # m
         /\ (1 + 1) % n # 0
<1>1. ASSUME NEW k \in Int, 0 <= k, k < n PROVE k % n = k
  <2>1. k % n \in 0 .. n - 1 /\ k = n * (k \div n) + (k % n) /\ k \div n \in Int
    OBVIOUS
  <2>2. k \div n = 0
    BY <1>1, <2>1
  <2> QED BY <2>1, <2>2
<1>2. n % n = 0
  <2>1. n % n \in 0 .. n - 1 /\ n = n * (n \div n) + (n % n) /\ n \div n \in Int
    OBVIOUS
  <2>2. n \div n = 1
    BY <2>1
  <2> QED BY <2>1, <2>2
<1>3. ASSUME NEW m \in 0 .. n - 1
      PROVE  (m + 1 < n /\ (m + 1) % n = m + 1) \/ (m + 1 = n /\ (m + 1) % n = 0)
  BY <1>1, <1>2
<1>4. (1 + 1) % n = 2
  BY <1>1
<1>5. ASSUME NEW m \in 0 .. n - 1 PROVE (m + 1) % n \in 0 .. n - 1 /\ (m + 1) % n # m
  <2>1. (m + 1) % n \in 0 .. n - 1
    OBVIOUS
  <2>2. (m + 1) % n # m
    BY <1>3
  <2> QED BY <2>1, <2>2
<1> QED BY <1>4, <1>5

\* A queue of one or two.
LEMMA ShortQueues ==
  ASSUME NEW c, NEW e
  PROVE  /\ Append(<<>>, c) = <<c>> /\ Append(<<e>>, c) = <<e, c>>
         /\ Head(<<c>>) = c /\ Tail(<<c>>) = <<>> /\ <<c>> # <<>>
         /\ Head(<<e, c>>) = e /\ Tail(<<e, c>>) = <<c>>
         /\ <<e, c>> # <<>>
<1>1. Append(<<>>, c) = <<c>>
  OBVIOUS
<1>2. Append(<<e>>, c) = <<e, c>>
  <2> DEFINE s == Append(<<e>>, c)
  <2>0. /\ <<e>> \in Seq({e, c}) /\ c \in {e, c} /\ Len(<<e>>) = 1
        /\ <<e, c>> \in Seq({e, c}) /\ Len(<<e, c>>) = 2
    OBVIOUS
  <2>1. /\ s \in Seq({e, c}) /\ Len(s) = 2 /\ s[1] = e /\ s[2] = c
    BY <2>0, AppendProperties
  <2> HIDE DEF s
  <2>2. \A i \in 1 .. 2 : s[i] = <<e, c>>[i]
    BY <2>1
  <2> QED BY <2>0, <2>1, <2>2, SeqEqual DEF s
<1>3. Head(<<c>>) = c
  OBVIOUS
<1>4. Tail(<<c>>) = <<>>
  OBVIOUS
<1>5. <<c>> # <<>> /\ <<e, c>> # <<>>
  OBVIOUS
<1>6. Head(<<e, c>>) = e
  OBVIOUS
<1>7. Tail(<<e, c>>) = <<c>>
  OBVIOUS
<1> QED BY <1>1, <1>2, <1>3, <1>4, <1>5, <1>6, <1>7

-----------------------------------------------------------------------------
(* What any menu may be given; usable from here on.                         *)
USE MenuAssumption

-----------------------------------------------------------------------------
(* What is in place at each step of the cartridge                          *)

Contents == {"none", "menu", "first", "bank"}

MenuIsThere == bank0 = 1 /\ area[1] = "menu" /\ sram = "shared" /\ gate
BanksAreThere == bank0 = 0 /\ area[0] = "first" /\ loaded >= Rom(game).banks

ImageInv ==
  /\ area \in [0 .. 2 -> Contents]
  /\ rp \in {"power", "image", "list", "menu", "open", "banks", "restore", "mapper",
             "release", "game", "panic"}
  /\ rp \in {"power", "image"} => held
  /\ rp \in {"list", "menu", "open", "banks"} => MenuIsThere
  /\ rp = "list" => held
  /\ rp = "banks" => area[0] = "first"
  /\ rp \in {"restore", "mapper", "release", "game"} => BanksAreThere
  /\ rp \in {"restore", "mapper", "release"} => held
  /\ rp \in {"mapper", "release", "game"} => sram = "save"
  /\ rp \in {"release", "game"} => ~gate
  /\ rp = "panic" => held \/ MenuIsThere

LEMMA InitImage == Init => ImageInv
BY DEF Init, ImageInv, Contents

\* The console leaves the cartridge's memory alone.
LEMMA ConsoleLeaves == Console => UNCHANGED <<cartVars, count, loaded>>
<1> SUFFICES ASSUME Console PROVE UNCHANGED <<cartVars, count, loaded>>
  OBVIOUS
<1>1. CASE StartMenu
  BY <1>1 DEF StartMenu
<1>2. CASE ShowTime \/ TimeSet
  BY <1>2 DEF ShowTime, TimeSet, sharedVars
<1>3. ASSUME NEW keys \in Inputs,
             \/ LeaveGames(keys) \/ BrowseGames(keys) \/ NoGames(keys)
             \/ Settings(keys) \/ Leds(keys) \/ Info(keys)
      PROVE  UNCHANGED <<cartVars, count, loaded>>
  BY <1>3 DEF LeaveGames, BrowseGames, NoGames, Settings, Leds, Info, Frame, sharedVars
<1>4. ASSUME NEW keys \in Inputs, ChooseGame(keys) PROVE UNCHANGED <<cartVars, count, loaded>>
  BY <1>4 DEF ChooseGame, StartGame, Frame
<1>5. ASSUME NEW keys \in Inputs, AskTime(keys) \/ EditTime(keys)
      PROVE  UNCHANGED <<cartVars, count, loaded>>
  BY <1>5 DEF AskTime, EditTime
<1> QED BY <1>1, <1>2, <1>3, <1>4, <1>5 DEF Console

LEMMA ImageStep == ImageInv /\ [Next]_vars => ImageInv'
<1> SUFFICES ASSUME ImageInv, [Next]_vars PROVE ImageInv'
  OBVIOUS
<1> USE DEF MenuIsThere, BanksAreThere
<1>1. ASSUME UNCHANGED <<cartVars, loaded>> PROVE ImageInv'
  BY <1>1 DEF ImageInv, cartVars, Rom, Listed
<1>2. CASE Console
  BY <1>1, <1>2, ConsoleLeaves
<1>3. CASE SetClock \/ LoadMenu \/ ReleaseMenu
  BY <1>3 DEF SetClock, LoadMenu, ReleaseMenu, sharedVars, ImageInv, Contents
<1>4. CASE TakeOther \/ TakeRead \/ TakeSet \/ TakeStart
  BY <1>4 DEF TakeOther, TakeRead, TakeSet, TakeStart, Take, ImageInv
<1>5. CASE OpenRom \/ LoadBank
  BY <1>5 DEF OpenRom, LoadBank, Load, ImageInv, Contents
<1>6. CASE CannotRead \/ CannotList
  BY <1>6 DEF CannotList, CannotRead, Panic, sharedVars, ImageInv
<1>7. CASE StopMenu
  BY <1>7 DEF StopMenu, sharedVars, ImageInv, Rom, Listed
<1>8. CASE Restore \/ StartMapper \/ ReleaseGame
  <2>1. Rom(game)' = Rom(game) /\ loaded' = loaded
    BY <1>8 DEF Restore, StartMapper, ReleaseGame, Load, Rom, Listed
  <2>2. CASE Restore
    BY <2>1, <2>2 DEF Restore, ImageInv
  <2>3. CASE StartMapper
    BY <2>1, <2>3 DEF StartMapper, ImageInv
  <2>4. CASE ReleaseGame
    BY <2>1, <2>4 DEF ReleaseGame, ImageInv
  <2> QED BY <1>8, <2>2, <2>3, <2>4
<1>9. CASE UNCHANGED vars
  BY <1>1, <1>9 DEF vars, sharedVars
<1> QED BY <1>2, <1>3, <1>4, <1>5, <1>6, <1>7, <1>8, <1>9 DEF Next, Cartridge

\* The console is only let go on the whole menu or on the whole game.
THEOREM OneImageRuns == Spec => []RunsOneImage
<1>1. ImageInv => RunsOneImage
  BY DEF ImageInv, MenuIsThere, BanksAreThere, RunsOneImage
<1> QED BY <1>1, InitImage, ImageStep, PTL DEF Spec

-----------------------------------------------------------------------------
(* The cursor                                                              *)

\* A cursor c of a list of n lines is on the page, and a long list fills it.
Fits(c, n) ==
  /\ c \in Position
  /\ c.page <= c.cursor /\ c.cursor < c.page + Rows
  /\ n > 0 => c.cursor < n
  /\ n >= Rows => c.page + Rows <= n

LEMMA HomeFits == \A n \in Nat : Fits(Home, n)
BY DEF Fits, Home, Position

\* Every key of the list keeps it so.
LEMMA MovedFits ==
  ASSUME NEW n \in Nat, n > 0, NEW c, Fits(c, n), NEW keys
  PROVE  Fits(Moved(c, n, keys), n)
<1>0. /\ c \in Position /\ c.cursor \in Nat /\ c.page \in Nat /\ Rows \in Nat /\ Rows > 0
      /\ c.page <= c.cursor /\ c.cursor < c.page + Rows /\ c.cursor < n
      /\ n >= Rows => c.page + Rows <= n
  BY DEF Fits, Position
<1>1. \A cursor, page \in Nat :
        page <= cursor /\ cursor < page + Rows /\ cursor < n /\ (n >= Rows => page + Rows <= n)
          => Fits([cursor |-> cursor, page |-> page], n)
  BY DEF Fits, Position
<1>2. Fits(CursorUp(c), n)
  BY <1>0, <1>1 DEF CursorUp, Fits
<1>3. Fits(CursorDown(c, n), n)
  BY <1>0, <1>1 DEF CursorDown, Fits
<1>4. Fits(PageUp(c), n)
  BY <1>0, <1>1 DEF PageUp, Back, Fits
<1>5. n > Rows => Fits(PageDown(c, n), n)
  BY <1>0, <1>1 DEF PageDown, Fits
<1> QED BY <1>2, <1>3, <1>4, <1>5 DEF Moved

\* Keys that do not redraw the list do not move the cursor.
LEMMA NotMoved ==
  ASSUME NEW n, NEW c, NEW keys, ~Redraws(n, keys)
  PROVE  Moved(c, n, keys) = c
BY DEF Redraws, Moved

\* Until the menu is let go the console is at its start; a console that waits
\* shows the clock; an empty list has no cursor to move.
StartInv ==
  /\ rp \in {"power", "image", "list"} =>
       held /\ pc = "off" /\ last = Home /\ at = Home /\ ~drawn
  /\ pc = "await" => screen = "clock"
  /\ screen = "games" /\ count = 0 => at = Home
  /\ card \in Seq(Entry)

\* The list that is drawn is the one the cursor is in.
ListInv ==
  /\ count \in Nat /\ Fits(last, count)
  /\ screen = "games" /\ drawn => count > 0 /\ top = last.page /\ line = Line(last)

CursorInv == StartInv /\ ListInv

LEMMA InitCursor == Init => CursorInv
<1>1. Init => count = 0 /\ last = Home /\ at = Home /\ drawn = FALSE /\ pc = "off" /\ held = TRUE
  BY DEF Init
<1>2. Init => card \in Seq(Entry)
  BY DEF Init
<1>3. Init => StartInv
  BY <1>1, <1>2 DEF StartInv
<1>4. Init => ListInv
  BY <1>1, HomeFits DEF ListInv
<1> QED BY <1>3, <1>4 DEF CursorInv

\* The menu is told of as many games as there are, or of as many as it can hold.
LEMMA NumberOfRoms == card \in Seq(Entry) => number_of_roms \in Nat
<1> SUFFICES ASSUME card \in Seq(Entry) PROVE number_of_roms \in Nat
  OBVIOUS
<1>1. DOMAIN card = 1 .. Len(card) /\ Len(card) \in Nat
  BY LenProperties
<1>2. IsFiniteSet(Listed)
  <2>1. IsFiniteSet(1 .. Len(card))
    BY <1>1, FS_Interval
  <2>2. Listed \in SUBSET (1 .. Len(card))
    BY <1>1 DEF Listed
  <2> QED BY <2>1, <2>2, FS_Subset
<1>3. Cardinality(Listed) \in Nat
  BY <1>2, FS_CardinalityType
<1> QED BY <1>3 DEF number_of_roms, AtMost

\* Of the cartridge, only the start of the menu touches the list.
LEMMA CartridgeKeepsCursor == ImageInv /\ CursorInv /\ Cartridge => CursorInv'
<1> SUFFICES ASSUME ImageInv, CursorInv, Cartridge PROVE CursorInv'
  OBVIOUS
<1>0. UNCHANGED <<screen, at, last, line, drawn, top>>
  BY DEF Cartridge, SetClock, LoadMenu, ReleaseMenu, TakeOther, TakeRead, TakeSet, TakeStart, Take,
         OpenRom, CannotList, CannotRead, LoadBank, StopMenu, Restore, StartMapper, ReleaseGame, Load,
         Panic,
         consoleVars, screenVars
<1>1. CASE LoadMenu \/ ReleaseMenu
  <2>1. last = Home /\ at = Home /\ ~drawn /\ pc' = "off" /\ card' = card /\ card \in Seq(Entry)
    BY <1>1 DEF LoadMenu, ReleaseMenu, consoleVars, CursorInv, StartInv
  <2>2. count' \in Nat
    BY <1>1, <2>1, NumberOfRoms DEF LoadMenu, ReleaseMenu
  <2>3. rp' \in {"power", "image", "list"} => held'
    BY <1>1 DEF LoadMenu, ReleaseMenu, ImageInv
  <2>4. StartInv'
    BY <1>0, <2>1, <2>3 DEF StartInv
  <2>5. ListInv'
    BY <1>0, <2>1, <2>2, HomeFits DEF CursorInv, ListInv
  <2> QED BY <2>4, <2>5 DEF CursorInv
<1>2. CASE SetClock
  BY <1>0, <1>2 DEF SetClock, consoleVars, sharedVars, CursorInv, StartInv, ListInv
<1>3. CASE ~(LoadMenu \/ ReleaseMenu \/ SetClock)
  <2>1. /\ count' = count /\ card' = card /\ pc' \in {pc, "off"}
        /\ rp' \notin {"power", "image", "list"}
    BY <1>3 DEF Cartridge, TakeOther, TakeRead, TakeSet, TakeStart, Take,
         OpenRom, CannotList, CannotRead, LoadBank, StopMenu, Restore, StartMapper, ReleaseGame, Load,
         Panic,
         consoleVars, sharedVars
  <2> QED BY <1>0, <2>1 DEF CursorInv, StartInv, ListInv
<1> QED BY <1>1, <1>2, <1>3

\* The frames of the list itself
LEMMA GamesKeepCursor ==
  ASSUME CursorInv, ImageInv, NEW keys,
         LeaveGames(keys) \/ ChooseGame(keys) \/ BrowseGames(keys) \/ NoGames(keys)
  PROVE  CursorInv'
<1>0. /\ pc = "frame" /\ screen = "games" /\ count' = count
      /\ UNCHANGED cartVars /\ pc' \in {"frame", "loading"}
      /\ rp \notin {"power", "image", "list"}
  BY DEF LeaveGames, ChooseGame, StartGame, BrowseGames, NoGames, Frame, sharedVars, CursorInv, StartInv
<1>1. CASE LeaveGames(keys)
  BY <1>0, <1>1 DEF LeaveGames, Goto, cartVars, CursorInv, StartInv, ListInv
<1>2. CASE ChooseGame(keys)
  BY <1>0, <1>2 DEF ChooseGame, StartGame, cartVars, CursorInv, StartInv, ListInv
<1>3. CASE BrowseGames(keys)
  <2>1. count \in Nat /\ count > 0 /\ Fits(last, count)
    BY <1>3 DEF BrowseGames, CursorInv, ListInv
  <2>2. last' = Moved(last, count, keys) /\ Fits(last', count)
    BY <1>3, <2>1, MovedFits DEF BrowseGames
  <2>3. StartInv'
    BY <1>0, <1>3, <2>1 DEF BrowseGames, Stay, cartVars, CursorInv, StartInv
  <2>4. CASE Redraws(count, keys)
    BY <1>0, <1>3, <2>1, <2>2, <2>3, <2>4
    DEF BrowseGames, RenderGamelist, CursorInv, ListInv, Line
  <2>5. CASE ~Redraws(count, keys)
    <3>1. last' = last /\ UNCHANGED <<drawn, top, line, screen>>
      BY <1>3, <2>2, <2>5, NotMoved DEF BrowseGames, Stay
    <3> QED BY <1>0, <2>3, <3>1 DEF CursorInv, ListInv
  <2> QED BY <2>4, <2>5
<1>4. CASE NoGames(keys)
  <2>1. last' = Home /\ at' = at /\ count = 0 /\ UNCHANGED <<line, drawn, top, screen>>
    BY <1>0, <1>4 DEF NoGames, Stay, CursorInv, StartInv
  <2> QED
    BY <1>0, <2>1, HomeFits DEF cartVars, CursorInv, StartInv, ListInv
<1> QED BY <1>1, <1>2, <1>3, <1>4

\* The other screens either keep away from the list or leave for it blank.
LEMMA OthersKeepCursor ==
  ASSUME CursorInv,
         UNCHANGED <<cartVars, count, last, top>>,
         rp \notin {"power", "image", "list"},
         pc' = "await" => screen' = "clock",
         \/ screen' = screen /\ at' = at /\ line' = line /\ drawn' = drawn
         \/ screen' = screen /\ screen # "games" /\ drawn' = drawn
         \/ at' = Home /\ drawn' = FALSE
  PROVE  CursorInv'
<1>1. StartInv'
  <2>1. rp' \notin {"power", "image", "list"} /\ card' = card
    BY DEF cartVars
  <2>2. screen' = "games" /\ count' = 0 => at' = Home
    BY DEF CursorInv, StartInv
  <2> QED BY <2>1, <2>2 DEF CursorInv, StartInv
<1>2. ListInv'
  BY DEF CursorInv, ListInv
<1> QED BY <1>1, <1>2 DEF CursorInv

LEMMA ScreensKeepCursor ==
  ASSUME CursorInv, NEW keys, Settings(keys) \/ Leds(keys) \/ Info(keys)
  PROVE  CursorInv'
<1>1. /\ pc = "frame" /\ pc' = "frame" /\ UNCHANGED <<cartVars, count, last, top>>
      /\ screen # "games" /\ rp \notin {"power", "image", "list"}
  BY DEF Settings, Leds, Info, Frame, sharedVars, CursorInv, StartInv
<1>2. \/ screen' = screen /\ drawn' = drawn
      \/ at' = Home /\ drawn' = FALSE
  BY DEF Settings, Leds, Info, Stay, Goto
<1> QED BY <1>1, <1>2, OthersKeepCursor

LEMMA ClockKeepsCursor ==
  ASSUME CursorInv,
         \/ ShowTime \/ TimeSet
         \/ \E keys \in Inputs : AskTime(keys) \/ EditTime(keys)
  PROVE  CursorInv'
<1>1. screen = "clock" /\ pc # "off" /\ rp \notin {"power", "image", "list"}
  BY DEF ShowTime, TimeSet, AskTime, EditTime, CursorInv, StartInv
<1>2. UNCHANGED <<cartVars, count, last, top>>
  BY DEF ShowTime, TimeSet, AskTime, EditTime, screenVars, sharedVars
<1>3. \/ screen' = screen /\ drawn' = drawn
      \/ at' = Home /\ drawn' = FALSE /\ pc' = "frame"
  BY DEF ShowTime, TimeSet, AskTime, EditTime, ClockKeys, Goto, Stay, screenVars
<1> QED BY <1>1, <1>2, <1>3, OthersKeepCursor

LEMMA CursorStep == ImageInv /\ CursorInv /\ [Next]_vars => CursorInv'
<1> SUFFICES ASSUME ImageInv, CursorInv, [Next]_vars PROVE CursorInv'
  OBVIOUS
<1>1. CASE Cartridge
  BY <1>1, CartridgeKeepsCursor
<1>2. CASE StartMenu
  <2>1. rp \notin {"power", "image", "list"} /\ pc' = "frame"
    BY <1>2 DEF StartMenu, CursorInv, StartInv
  <2>2. UNCHANGED <<cartVars, count, last, top, screen, at, line, drawn>>
    BY <1>2 DEF StartMenu, screenVars
  <2> QED BY <2>1, <2>2, OthersKeepCursor
<1>3. CASE UNCHANGED vars
  <2>1. UNCHANGED <<cartVars, count, last, top, screen, at, line, drawn, pc, rp, held, card>>
    BY <1>3 DEF vars, screenVars, sharedVars, cartVars
  <2> QED BY <2>1 DEF CursorInv, StartInv, ListInv
<1> QED
  BY <1>1, <1>2, <1>3, GamesKeepCursor, ScreensKeepCursor, ClockKeepsCursor DEF Next, Console

\* The game that A starts is a game of the list, on the screen, and the line
\* that is highlighted.
THEOREM CursorIsShown == Spec => []CursorShown
<1>1. CursorInv => CursorShown
  BY DEF CursorInv, ListInv, Fits, Position, Line, CursorShown
<1> QED BY <1>1, InitImage, ImageStep, InitCursor, CursorStep, PTL DEF Spec

-----------------------------------------------------------------------------
(* Commands and answers                                                    *)

Queued(cmd) == cmds \in {<<cmd>>, <<"enable", cmd>>}

\* The console has at most one command under way, and the ids differ until it is
\* answered; what the cartridge loads, it loads for a console that waits.
TalkInv ==
  /\ msgGb \in 0 .. MsgIds - 1 /\ msgRp \in 0 .. MsgIds - 1
  /\ pc \in {"off", "frame", "await", "loading"}
  /\ pc = "off" =>
       /\ cmds = <<>>
       /\ \/ rp \in {"power", "image", "restore", "mapper", "release", "game"}
          \/ rp \in {"list", "menu"} /\ msgGb = 0 /\ msgRp = 0
          \/ rp = "panic" /\ held
  /\ pc = "frame" =>
       /\ rp = "menu" /\ cmds \in {<<>>, <<"enable">>}
       /\ \/ msgGb = msgRp
          \/ msgGb = 1 /\ msgRp = 0
  /\ pc = "await" =>
       /\ asked \in {"read", "set"}
       /\ \/ msgGb = msgRp /\ cmds = <<>> /\ rp = "menu"
          \/ msgGb # msgRp /\ Queued(asked) /\ rp = "menu"
          \/ msgGb # msgRp /\ cmds = <<>> /\ rp = "panic"
  /\ pc = "loading" =>
       \/ rp = "menu" /\ Queued("start")
       \/ rp \in {"open", "banks", "panic"} /\ cmds = <<>>

LEMMA Queue ==
  \A c : /\ Append(<<>>, c) = <<c>> /\ Append(<<"enable">>, c) = <<"enable", c>>
         /\ Head(<<c>>) = c /\ Tail(<<c>>) = <<>> /\ <<c>> # <<>>
         /\ Head(<<"enable", c>>) = "enable" /\ Tail(<<"enable", c>>) = <<c>>
         /\ <<"enable", c>> # <<>>
BY ShortQueues

LEMMA NextId ==
  /\ \A m \in 0 .. MsgIds - 1 : (m + 1) % MsgIds \in 0 .. MsgIds - 1 /\ (m + 1) % MsgIds # m
  /\ (1 + 1) % MsgIds # 0
<1>1. MsgIds \in Nat /\ MsgIds > 2
  OBVIOUS
<1> QED BY <1>1, NextModulo

\* A console that may ask, asks.
LEMMA AskTalks ==
  ASSUME TalkInv, NEW cmd \in {"read", "set"}, Ask(cmd), UNCHANGED <<rp, msgRp>>,
         rp = "menu", cmds \in {<<>>, <<"enable">>},
         msgGb = msgRp \/ (msgGb = 1 /\ msgRp = 0)
  PROVE  TalkInv'
<1>1. /\ msgGb' = (msgGb + 1) % MsgIds /\ pc' = "await" /\ asked' = cmd
      /\ cmds' = Append(cmds, cmd)
  BY DEF Ask
<1>2. cmds' \in {<<cmd>>, <<"enable", cmd>>}
  BY <1>1, Queue
<1>3. msgGb' \in 0 .. MsgIds - 1 /\ msgGb' # msgRp'
  <2>1. msgGb \in 0 .. MsgIds - 1
    BY DEF TalkInv
  <2>2. CASE msgGb = msgRp
    BY <1>1, <2>1, <2>2, NextId
  <2>3. CASE msgGb = 1 /\ msgRp = 0
    BY <1>1, <2>1, <2>3, NextId
  <2> QED BY <2>2, <2>3
<1>4. msgRp' \in 0 .. MsgIds - 1
  BY DEF TalkInv
<1> QED BY <1>1, <1>2, <1>3, <1>4 DEF TalkInv, Queued

LEMMA TalkStep == ImageInv /\ CursorInv /\ TalkInv /\ [Next]_vars => TalkInv'
<1> SUFFICES ASSUME ImageInv, CursorInv, TalkInv, [Next]_vars PROVE TalkInv'
  OBVIOUS
<1>1. ASSUME UNCHANGED <<pc, asked, cmds, msgGb, msgRp, rp, held>> PROVE TalkInv'
  BY <1>1 DEF TalkInv, Queued
<1>2. CASE Console
  <2>0. UNCHANGED cartVars
    BY <1>2, ConsoleLeaves
  <2>1. CASE StartMenu
    <3>1. rp = "menu" /\ cmds = <<>> /\ msgGb = 0 /\ msgRp = 0
      BY <2>1 DEF StartMenu, TalkInv, ImageInv, BanksAreThere
    <3>2. cmds' = <<"enable">>
      BY <2>1, <3>1, Queue DEF StartMenu
    <3>3. 1 \in 0 .. MsgIds - 1 /\ 0 \in 0 .. MsgIds - 1
      OBVIOUS
    <3> QED BY <2>0, <2>1, <3>1, <3>2, <3>3 DEF StartMenu, TalkInv, cartVars
  <2>2. ASSUME NEW keys \in Inputs,
               \/ LeaveGames(keys) \/ BrowseGames(keys) \/ NoGames(keys)
               \/ Settings(keys) \/ Leds(keys) \/ Info(keys)
        PROVE  TalkInv'
    BY <1>1, <2>2
    DEF LeaveGames, BrowseGames, NoGames, Settings, Leds, Info, Frame, sharedVars, waitVars, cartVars
  <2>3. ASSUME NEW keys \in Inputs, ChooseGame(keys) PROVE TalkInv'
    <3>1. /\ pc = "frame" /\ pc' = "loading" /\ cmds' = Append(cmds, "start")
          /\ UNCHANGED <<msgGb, msgRp, rp>>
      BY <2>0, <2>3 DEF ChooseGame, StartGame, Frame, cartVars
    <3>2. rp = "menu" /\ cmds \in {<<>>, <<"enable">>}
      BY <3>1 DEF TalkInv
    <3>3. cmds' \in {<<"start">>, <<"enable", "start">>}
      BY <3>1, <3>2, Queue
    <3> QED BY <3>1, <3>2, <3>3 DEF TalkInv, Queued
  <2>4. ASSUME NEW keys \in Inputs, AskTime(keys) PROVE TalkInv'
    <3>1. pc = "frame" /\ Ask("read") /\ UNCHANGED <<rp, msgRp>>
      BY <2>0, <2>4 DEF AskTime, cartVars
    <3>2. /\ rp = "menu" /\ cmds \in {<<>>, <<"enable">>}
          /\ msgGb = msgRp \/ (msgGb = 1 /\ msgRp = 0)
      BY <3>1 DEF TalkInv
    <3> QED BY <3>1, <3>2, AskTalks
  <2>5. ASSUME NEW keys, NEW p, NEW f, ClockKeys(keys, p, f), UNCHANGED <<rp, msgRp, held>>,
               rp = "menu", cmds \in {<<>>, <<"enable">>},
               msgGb = msgRp \/ (msgGb = 1 /\ msgRp = 0)
        PROVE  TalkInv'
    <3>1. CASE pc' = "frame" /\ UNCHANGED <<asked, msgGb, cmds>>
      BY <2>5, <3>1 DEF TalkInv
    <3>2. CASE Ask("set")
      BY <2>5, <3>2, AskTalks
    <3> QED BY <2>5, <3>1, <3>2 DEF ClockKeys
  <2>6. CASE ShowTime
    <3>1. /\ ClockKeys(input, mail.time, field) /\ UNCHANGED <<rp, msgRp, held>>
          /\ pc = "await" /\ msgGb = msgRp
      BY <2>0, <2>6 DEF ShowTime, cartVars
    <3>2. rp = "menu" /\ cmds \in {<<>>, <<"enable">>}
      BY <3>1 DEF TalkInv
    <3> QED BY <2>5, <3>1, <3>2
  <2>7. ASSUME NEW keys \in Inputs, EditTime(keys) PROVE TalkInv'
    <3>1. /\ ClockKeys(keys, clock, field) /\ UNCHANGED <<rp, msgRp, held>> /\ pc = "frame"
      BY <2>0, <2>7 DEF EditTime, cartVars
    <3>2. /\ rp = "menu" /\ cmds \in {<<>>, <<"enable">>}
          /\ msgGb = msgRp \/ (msgGb = 1 /\ msgRp = 0)
      BY <3>1 DEF TalkInv
    <3> QED BY <2>5, <3>1, <3>2
  <2>8. CASE TimeSet
    BY <2>0, <2>8 DEF TimeSet, sharedVars, cartVars, TalkInv
  <2> QED BY <1>2, <2>1, <2>2, <2>3, <2>4, <2>6, <2>7, <2>8 DEF Console
<1>3. CASE SetClock \/ LoadMenu \/ ReleaseMenu
  <2>1. pc = "off" /\ held /\ cmds = <<>> /\ UNCHANGED <<pc, cmds>>
    BY <1>3 DEF SetClock, LoadMenu, ReleaseMenu, consoleVars, sharedVars, CursorInv, StartInv, TalkInv
  <2>2. 0 \in 0 .. MsgIds - 1
    OBVIOUS
  <2> QED BY <1>3, <2>1, <2>2 DEF SetClock, LoadMenu, ReleaseMenu, sharedVars, TalkInv
<1>4. CASE TakeOther \/ TakeRead \/ TakeSet \/ TakeStart
  <2>0. /\ rp = "menu" /\ cmds # <<>> /\ cmds' = Tail(cmds)
        /\ UNCHANGED <<pc, asked, msgGb, held>>
    BY <1>4 DEF TakeOther, TakeRead, TakeSet, TakeStart, Take, consoleVars, waitVars
  <2>1. /\ pc = "frame" => cmds = <<"enable">>
        /\ pc = "await" => asked \in {"read", "set"} /\ Queued(asked) /\ msgGb # msgRp
        /\ pc = "loading" => Queued("start")
        /\ pc # "off"
    BY <2>0 DEF TalkInv
  <2>2. CASE TakeOther
    <3>1. Head(cmds) = "enable" /\ UNCHANGED <<rp, msgRp>>
      BY <2>2 DEF TakeOther, Take
    <3>2. CASE pc = "frame"
      BY <2>0, <2>1, <3>1, <3>2, Queue DEF TalkInv
    <3>3. CASE pc = "await"
      <4>1. cmds \in {<<asked>>, <<"enable", asked>>} /\ asked # "enable"
        BY <2>1, <3>3 DEF Queued
      <4>2. cmds # <<asked>>
        BY <3>1, <4>1, Queue
      <4>3. cmds' = <<asked>>
        BY <2>0, <4>1, <4>2, Queue
      <4> QED BY <2>0, <2>1, <3>1, <3>3, <4>3 DEF TalkInv, Queued
    <3>4. CASE pc = "loading"
      <4>1. cmds \in {<<"start">>, <<"enable", "start">>}
        BY <2>1, <3>4 DEF Queued
      <4>2. cmds # <<"start">>
        BY <3>1, Queue
      <4>3. cmds' = <<"start">>
        BY <2>0, <4>1, <4>2, Queue
      <4> QED BY <2>0, <2>1, <3>1, <3>4, <4>3 DEF TalkInv, Queued
    <3> QED BY <2>1, <3>2, <3>3, <3>4 DEF TalkInv
  <2>3. ASSUME Head(cmds) \in {"read", "set"}
        PROVE  pc = "await" /\ asked = Head(cmds) /\ cmds' = <<>>
    <3>1. pc = "await"
      BY <2>1, <2>3, Queue DEF Queued, TalkInv
    <3> QED BY <2>0, <2>1, <2>3, <3>1, Queue DEF Queued
  <2>4. CASE TakeRead
    <3>1. Head(cmds) = "read" /\ msgRp' = msgGb /\ rp' = rp
      BY <2>4 DEF TakeRead, Take
    <3> QED BY <2>0, <2>1, <2>3, <3>1 DEF TalkInv
  <2>5. CASE TakeSet
    <3>1. /\ Head(cmds) = "set"
          /\ \/ rp' = "panic" /\ msgRp' = msgRp
             \/ rp' = rp /\ msgRp' = msgGb
      BY <2>5 DEF TakeSet, Take
    <3> QED BY <2>0, <2>1, <2>3, <3>1 DEF TalkInv
  <2>6. CASE TakeStart
    <3>1. Head(cmds) = "start" /\ rp' = "open" /\ msgRp' = msgRp
      BY <2>6 DEF TakeStart, Take
    <3>2. pc = "loading" /\ cmds' = <<>>
      BY <2>0, <2>1, <3>1, Queue DEF Queued, TalkInv
    <3> QED BY <2>0, <3>1, <3>2 DEF TalkInv
  <2> QED BY <1>4, <2>2, <2>4, <2>5, <2>6
<1>5. CASE OpenRom \/ LoadBank \/ CannotRead
  <2>1. rp \in {"open", "banks"} /\ rp' \in {"open", "banks", "panic"}
        /\ UNCHANGED <<pc, asked, cmds, msgGb, msgRp, held>>
    BY <1>5 DEF OpenRom, LoadBank, CannotRead, Panic, Load, consoleVars, waitVars, sharedVars
  <2>2. pc = "loading" /\ cmds = <<>>
    BY <2>1 DEF TalkInv
  <2> QED BY <2>1, <2>2 DEF TalkInv
<1>6. CASE StopMenu
  <2>1. rp = "banks" /\ rp' = "restore" /\ pc' = "off" /\ UNCHANGED <<cmds, msgGb, msgRp>>
    BY <1>6 DEF StopMenu, sharedVars
  <2>2. cmds = <<>>
    BY <2>1 DEF TalkInv
  <2> QED BY <2>1, <2>2 DEF TalkInv
<1>7. CASE Restore \/ StartMapper \/ ReleaseGame
  <2>1. /\ rp \in {"restore", "mapper", "release"} /\ UNCHANGED <<pc, cmds, msgGb, msgRp>>
        /\ rp' \in {"mapper", "release", "game"} \/ (rp' = "panic" /\ held' = held)
    BY <1>7 DEF Restore, StartMapper, ReleaseGame, Load, consoleVars
  <2>2. pc = "off" /\ cmds = <<>> /\ held
    BY <2>1 DEF TalkInv, ImageInv
  <2> QED BY <2>1, <2>2 DEF TalkInv
<1>8. CASE CannotList
  <2>1. /\ rp = "list" /\ rp' = "panic"
        /\ UNCHANGED <<pc, asked, cmds, msgGb, msgRp, held>>
    BY <1>8 DEF CannotList, Panic, consoleVars, waitVars, sharedVars
  <2>2. pc = "off" /\ held
    BY <2>1 DEF TalkInv, ImageInv
  <2> QED BY <2>1, <2>2 DEF TalkInv
<1>9. CASE UNCHANGED vars
  BY <1>1, <1>9 DEF vars, waitVars, sharedVars, cartVars
<1> QED BY <1>2, <1>3, <1>4, <1>5, <1>6, <1>7, <1>8, <1>9 DEF Next, Cartridge

LEMMA InitTalk == Init => TalkInv
<1>1. 0 \in 0 .. MsgIds - 1
  OBVIOUS
<1>2. Init => msgGb = 0 /\ msgRp = 0 /\ pc = "off" /\ cmds = <<>> /\ rp = "power"
  BY DEF Init
<1> QED BY <1>1, <1>2 DEF TalkInv

-----------------------------------------------------------------------------
(* The clock on display                                                    *)

\* The clock on display is always a date and time that exists; until it is
\* edited it is the chip's, and so is one the console has on the way.
ClockInv ==
  /\ chip \in Chip /\ Valid(clock) /\ field \in 1 .. 5
  /\ pc = "off" /\ rp \in {"power", "image", "list", "menu"} => dirty
  /\ pc = "frame" /\ ~dirty => Agree(clock, chip)
  /\ pc = "await" /\ asked = "read" /\ msgGb = msgRp => mail.time = ToPoint(Datetime(chip))
  /\ pc = "await" /\ asked = "set" /\ msgGb # msgRp => mail.time = clock
  /\ pc = "await" /\ asked = "set" /\ msgGb = msgRp => Agree(clock, chip)

LEMMA InitClock == Init => ClockInv
<1> SUFFICES ASSUME Init PROVE ClockInv
  OBVIOUS
<1>1. chip \in Chip
  BY DEF Init
<1>2. Valid(clock)
  <2>1. clock = [i \in 0 .. 5 |-> 0]
    BY DEF Init
  <2>2. clock \in Point
    BY <2>1 DEF Point, Byte
  <2>3. clock[4] = 0 /\ clock[3] = 0 /\ clock[2] = 0 /\ clock[1] = 0 /\ clock[5] = 0
    BY <2>1
  <2>4. MaxDay(0, 0) = 30
    BY DEF MaxDay
  <2> QED BY <2>2, <2>3, <2>4 DEF Valid
<1>3. pc = "off" /\ dirty = TRUE /\ field = 1
  BY DEF Init
<1> QED BY <1>1, <1>2, <1>3 DEF ClockInv

LEMMA MailTime == \A p, i : TimeMail(p).time = p
BY DEF TimeMail

\* A frame of the clock's screen: p is what it shows, and d whether p was edited.
LEMMA FrameKeepsClock ==
  ASSUME NEW keys, NEW p, Valid(p), NEW d, NEW f \in 1 .. 5,
         ClockKeys(keys, p, f), dirty' = (d \/ Edits(keys)), d \/ Agree(p, chip),
         chip \in Chip, chip' = chip, msgRp' = msgRp, TalkInv, TalkInv',
         pc = "frame" \/ (pc = "await" /\ msgGb = msgRp)
  PROVE  ClockInv'
<1>1. CASE pc' = "frame"
  <2>1. Valid(clock') /\ field' \in 1 .. 5
    <3>1. clock' \in {p, Increased(p, f), Decreased(p, f)}
      BY <1>1 DEF ClockKeys, Ask
    <3>2. field' \in {f, f + 1, f - 1} /\ (field' = f + 1 => f < 5) /\ (field' = f - 1 => f > 1)
      BY <1>1 DEF ClockKeys, Ask
    <3> QED BY <3>1, <3>2, KeysKeepValid
  <2>2. dirty' \/ clock' = p
    BY <1>1, Zenon DEF ClockKeys, Ask, Edits
  <2>3. ~d => Agree(p, chip')
    OBVIOUS
  <2>4. ~dirty' => Agree(clock', chip')
    BY <2>2, <2>3
  <2> QED BY <1>1, <2>1, <2>4 DEF ClockInv
<1>2. CASE pc' = "await"
  <2>1. mail' = TimeMail(p) /\ clock' = p /\ field' = f /\ asked' = "set" /\ cmds' = Append(cmds, "set")
    BY <1>2 DEF ClockKeys, Ask
  <2>2. cmds' # <<>>
    <3>1. cmds \in {<<>>, <<"enable">>}
      BY DEF TalkInv
    <3> QED BY <2>1, <3>1, Queue
  <2>3. msgGb' # msgRp'
    BY <1>2, <2>2 DEF TalkInv
  <2>4. mail'.time = clock'
    BY <2>1, MailTime
  <2> QED BY <1>2, <2>1, <2>3, <2>4 DEF ClockInv
<1> QED BY <1>1, <1>2 DEF ClockKeys, Ask

LEMMA ConsoleKeepsClock ==
  ASSUME CursorInv, TalkInv, TalkInv', ClockInv, Console
  PROVE  ClockInv'
<1>0. UNCHANGED <<rp, chip>>
  BY ConsoleLeaves DEF cartVars
<1>1. CASE StartMenu
  <2>1. pc = "off" /\ pc' = "frame" /\ UNCHANGED <<clock, field, dirty>> /\ rp \in {"list", "menu"}
    BY <1>0, <1>1 DEF StartMenu, clockVars, TalkInv
  <2> QED BY <1>0, <2>1 DEF ClockInv
<1>2. ASSUME NEW keys \in Inputs,
             \/ LeaveGames(keys) \/ BrowseGames(keys) \/ NoGames(keys)
             \/ Settings(keys) \/ Leds(keys) \/ Info(keys) \/ ChooseGame(keys)
      PROVE  ClockInv'
  <2>1. pc = "frame" /\ pc' \in {"frame", "loading"} /\ UNCHANGED <<clock, field, dirty>>
    BY <1>2 DEF LeaveGames, BrowseGames, NoGames, Settings, Leds, Info, ChooseGame, StartGame,
                Frame, clockVars
  <2> QED BY <1>0, <2>1 DEF ClockInv
<1>3. ASSUME NEW keys \in Inputs, AskTime(keys) PROVE ClockInv'
  <2>1. /\ pc' = "await" /\ asked' = "read" /\ UNCHANGED clock /\ field' = 1
        /\ pc = "frame" /\ cmds' = Append(cmds, "read")
    BY <1>3 DEF AskTime, Ask
  <2>2. cmds' # <<>>
    <3>1. cmds \in {<<>>, <<"enable">>}
      BY <2>1 DEF TalkInv
    <3> QED BY <2>1, <3>1, Queue
  <2>3. msgGb' # msgRp'
    BY <2>1, <2>2 DEF TalkInv
  <2> QED BY <1>0, <2>1, <2>3 DEF ClockInv
<1>4. CASE ShowTime
  <2>1. /\ ClockKeys(input, mail.time, field) /\ msgRp' = msgRp
        /\ pc = "await" /\ asked = "read" /\ msgGb = msgRp
    BY <1>4 DEF ShowTime
  <2>2. dirty' = (FALSE \/ Edits(input))
    BY <1>4, Zenon DEF ShowTime, Edits
  <2>3. mail.time = ToPoint(Datetime(chip)) /\ chip \in Chip /\ field \in 1 .. 5
    BY <2>1 DEF ClockInv
  <2>4. Valid(mail.time) /\ Agree(mail.time, chip)
    BY <2>3, DatetimeIsValid DEF Agree
  <2> QED BY <1>0, <2>1, <2>2, <2>3, <2>4, FrameKeepsClock
<1>5. ASSUME NEW keys \in Inputs, EditTime(keys) PROVE ClockInv'
  <2>1. ClockKeys(keys, clock, field) /\ msgRp' = msgRp /\ pc = "frame"
    BY <1>5 DEF EditTime
  <2>2. dirty' = (dirty \/ Edits(keys))
    BY <1>5 DEF EditTime
  <2>3. Valid(clock) /\ chip \in Chip /\ field \in 1 .. 5 /\ (dirty \/ Agree(clock, chip))
    BY <2>1 DEF ClockInv
  <2> QED BY <1>0, <2>1, <2>2, <2>3, FrameKeepsClock
<1>6. CASE TimeSet
  <2>1. pc = "await" /\ asked = "set" /\ msgGb = msgRp /\ pc' = "frame" /\ UNCHANGED <<clock, field>>
    BY <1>6 DEF TimeSet
  <2> QED BY <1>0, <2>1 DEF ClockInv
<1> QED BY <1>1, <1>2, <1>3, <1>4, <1>5, <1>6 DEF Console

LEMMA ClockStep == ImageInv /\ CursorInv /\ TalkInv /\ TalkInv' /\ ClockInv /\ [Next]_vars => ClockInv'
<1> SUFFICES ASSUME ImageInv, CursorInv, TalkInv, TalkInv', ClockInv, [Next]_vars PROVE ClockInv'
  OBVIOUS
<1>1. CASE Console
  BY <1>1, ConsoleKeepsClock
<1>2. CASE SetClock \/ LoadMenu \/ ReleaseMenu
  <2>1. rp \in {"power", "image", "list"} /\ UNCHANGED <<pc, clock, field, dirty>>
    BY <1>2 DEF SetClock, LoadMenu, ReleaseMenu, consoleVars, clockVars
  <2>2. pc = "off"
    BY <2>1 DEF CursorInv, StartInv
  <2>3. chip' \in {chip, Started(chip, Built)}
    BY <1>2 DEF SetClock, LoadMenu, ReleaseMenu
  <2>4. chip' \in Chip
    BY <2>3, StartedIsChip DEF ClockInv
  <2> QED BY <2>1, <2>2, <2>4 DEF ClockInv
<1>3. CASE TakeOther \/ TakeRead \/ TakeSet \/ TakeStart
  <2>0. /\ rp = "menu" /\ cmds # <<>> /\ UNCHANGED <<pc, asked, msgGb, clock, field, dirty>>
    BY <1>3 DEF TakeOther, TakeRead, TakeSet, TakeStart, Take, consoleVars, waitVars, clockVars
  <2>1. pc # "off"
    BY <2>0 DEF TalkInv
  <2>2. CASE TakeOther
    <3>1. UNCHANGED <<rp, chip, msgRp, mail>>
      BY <2>2 DEF TakeOther
    <3> QED BY <2>0, <3>1 DEF ClockInv
  <2>3. ASSUME Head(cmds) \in {"read", "set"}
        PROVE  pc = "await" /\ asked = Head(cmds) /\ msgGb # msgRp
    <3>1. pc = "await"
      BY <2>0, <2>1, <2>3, Queue DEF Queued, TalkInv
    <3> QED BY <2>0, <2>3, <3>1, Queue DEF Queued, TalkInv
  <2>4. CASE TakeRead
    <3>1. /\ Head(cmds) = "read" /\ msgRp' = msgGb /\ UNCHANGED <<rp, chip>>
          /\ mail' = TimeMail(ToPoint(Datetime(chip)))
      BY <2>4 DEF TakeRead, Take
    <3>2. mail'.time = ToPoint(Datetime(chip'))
      BY <3>1, MailTime
    <3>3. pc = "await" /\ asked = "read"
      BY <2>3, <3>1
    <3> QED BY <2>0, <3>1, <3>2, <3>3 DEF ClockInv
  <2>5. CASE TakeSet
    <3>1. Head(cmds) = "set" /\ mail' = mail
      BY <2>5 DEF TakeSet, Take
    <3>2. pc = "await" /\ asked = "set" /\ msgGb # msgRp
      BY <2>3, <3>1
    <3>3. mail.time = clock /\ Valid(clock) /\ chip \in Chip
      BY <3>2 DEF ClockInv
    <3>4. IsInstant(FromPoint(clock))
      BY <3>3, ValidIsInstant
    <3>5. \/ chip' = chip /\ msgRp' = msgRp
          \/ /\ InRange(FromPoint(clock)) /\ chip' = SetDatetime(chip, FromPoint(clock))
             /\ msgRp' = msgGb
      BY <2>5, <3>3, <3>4 DEF TakeSet
    <3>6. CASE chip' = chip /\ msgRp' = msgRp
      BY <2>0, <3>1, <3>2, <3>3, <3>6 DEF ClockInv
    <3>7. CASE /\ InRange(FromPoint(clock)) /\ chip' = SetDatetime(chip, FromPoint(clock))
               /\ msgRp' = msgGb
      <4>1. chip' \in Chip /\ Agree(clock', chip')
        BY <2>0, <3>3, <3>7, SetAgrees
      <4> QED BY <2>0, <3>2, <3>7, <4>1 DEF ClockInv
    <3> QED BY <3>5, <3>6, <3>7
  <2>6. CASE TakeStart
    <3>1. Head(cmds) = "start" /\ UNCHANGED <<chip, msgRp, mail>>
      BY <2>6 DEF TakeStart, Take
    <3> QED BY <2>0, <2>1, <3>1 DEF ClockInv
  <2> QED BY <1>3, <2>2, <2>4, <2>5, <2>6
<1>4. ASSUME UNCHANGED <<pc, asked, clock, field, dirty, chip, msgGb, msgRp, mail>>,
             rp' \in {"power", "image", "list", "menu"} => rp' = rp
      PROVE  ClockInv'
  BY <1>4 DEF ClockInv
<1>5. CASE OpenRom \/ CannotRead \/ CannotList \/ LoadBank \/ Restore \/ StartMapper \/ ReleaseGame
  <2>1. /\ UNCHANGED <<pc, asked, clock, field, dirty, chip, msgGb, msgRp, mail>>
        /\ rp' \in {"power", "image", "list", "menu"} => rp' = rp
    BY <1>5
    DEF OpenRom, CannotList, CannotRead, Panic, LoadBank, Restore, StartMapper, ReleaseGame, Load,
        consoleVars, waitVars, clockVars, sharedVars
  <2> QED BY <1>4, <2>1
<1>6. CASE StopMenu
  <2>1. pc' = "off" /\ rp' = "restore" /\ UNCHANGED <<clock, field, chip>>
    BY <1>6 DEF StopMenu, clockVars
  <2> QED BY <2>1 DEF ClockInv
<1>7. CASE UNCHANGED vars
  BY <1>4, <1>7 DEF vars, waitVars, clockVars, sharedVars, cartVars
<1> QED BY <1>1, <1>2, <1>3, <1>5, <1>6, <1>7 DEF Next, Cartridge

\* The clock on display is the chip's, whatever the chip held and whatever date
\* the keys made: the calendars of the menu and of the date library agree, and
\* the chip's registers give back every date they take.
THEOREM ClockIsTheChips == Spec => []ClockAgrees
<1>1. ClockInv => ClockAgrees
  BY DEF ClockInv, Agree, ClockAgrees
<1> QED BY <1>1, InitImage, ImageStep, InitCursor, CursorStep, InitTalk, TalkStep,
           InitClock, ClockStep, PTL DEF Spec

\* What a console that waits is served with: as long as the ids differ its command
\* is on its way to the cartridge, behind the enabling of SRAM at most, and once
\* they agree nothing is; a load that was asked for is on its way or under way.
WaitServed ==
  /\ pc = "await" /\ rp # "panic" =>
       /\ rp = "menu"
       /\ IF msgGb = msgRp THEN cmds = <<>> ELSE Queued(asked)
  /\ pc = "loading" /\ rp # "panic" =>
       rp \in {"open", "banks"} \/ (rp = "menu" /\ Queued("start"))

\* The safety half of MenuGoesOn: no command is lost between runCommandAndWait
\* and GbBootloader::run, and a console never goes on upon an answer to something
\* else while its own command is still under way.
THEOREM NobodyWaitsInVain == Spec => []WaitServed
<1>1. TalkInv => WaitServed
  <2> SUFFICES ASSUME TalkInv PROVE WaitServed
    OBVIOUS
  <2>1. ASSUME pc = "await", rp # "panic"
        PROVE  rp = "menu" /\ IF msgGb = msgRp THEN cmds = <<>> ELSE Queued(asked)
    BY <2>1 DEF TalkInv
  <2>2. ASSUME pc = "loading", rp # "panic"
        PROVE  rp \in {"open", "banks"} \/ (rp = "menu" /\ Queued("start"))
    BY <2>2 DEF TalkInv
  <2> QED BY <2>1, <2>2 DEF WaitServed
<1> QED BY <1>1, InitImage, ImageStep, InitCursor, CursorStep, InitTalk, TalkStep, PTL DEF Spec

-----------------------------------------------------------------------------
(* Types                                                                   *)

\* The lines the cursor of each screen moves on
Lines(s) == CASE s = "games" -> count [] s = "settings" -> 3 [] s = "leds" -> 4 [] OTHER -> 1

Screens == {"games", "settings", "leds", "info", "clock"}

ScreenInv ==
  /\ screen \in Screens /\ Fits(at, Lines(screen))
  /\ force \in BOOLEAN /\ drawn \in BOOLEAN /\ line \in Nat /\ top \in Nat

LEMMA FittingLine == \A c, n : Fits(c, n) => Line(c) \in Nat /\ c.page \in Nat /\ c \in Position
BY DEF Fits, Line, Position

LEMMA GotoIsScreen ==
  ASSUME CursorInv', ScreenInv, NEW s \in Screens, Goto(s), top' = top
  PROVE  ScreenInv'
<1>1. Lines(s)' \in Nat
  <2>1. count' \in Nat
    BY DEF CursorInv, ListInv
  <2> QED BY <2>1 DEF Lines, Screens
<1>2. Fits(Home, Lines(s)')
  BY <1>1, HomeFits
<1>3. Fits(at, Lines(screen))'
  BY <1>2 DEF Goto, Lines
<1> QED BY <1>3 DEF Goto, ScreenInv

\* A screen whose keys only move its cursor.
LEMMA MovesAreScreen ==
  ASSUME ScreenInv, Lines(screen) \in Nat, Lines(screen) > 0, NEW n, n = Lines(screen), NEW keys,
         MoveCursor(n, keys), Stay, UNCHANGED <<count, drawn, top>>
  PROVE  ScreenInv'
<1>1. Fits(Moved(at, n, keys), n)
  BY MovedFits DEF ScreenInv
<1>2. at' = Moved(at, n, keys) /\ line' \in {line, Line(at')}
  BY DEF MoveCursor
<1>3. Fits(at', n) /\ line' \in Nat
  BY <1>1, <1>2, FittingLine DEF ScreenInv
<1>4. Lines(screen)' = n
  BY DEF Stay, Lines
<1> QED BY <1>3, <1>4 DEF Stay, ScreenInv

LEMMA ConsoleKeepsScreen ==
  ASSUME CursorInv, CursorInv', ScreenInv, Console
  PROVE  ScreenInv'
<1>0. count' = count
  BY ConsoleLeaves
<1>1. ASSUME UNCHANGED <<screen, at, line, drawn, top>>, force' \in BOOLEAN PROVE ScreenInv'
  <2>1. Lines(screen)' = Lines(screen)
    BY <1>0, <1>1 DEF Lines
  <2> QED BY <1>1, <2>1 DEF ScreenInv
<1>2. CASE StartMenu
  BY <1>1, <1>2 DEF StartMenu, screenVars, ScreenInv
<1>3. ASSUME NEW keys \in Inputs, LeaveGames(keys) PROVE ScreenInv'
  BY <1>3, GotoIsScreen DEF LeaveGames, Screens
<1>4. ASSUME NEW keys \in Inputs, ChooseGame(keys) PROVE ScreenInv'
  <2>1. screen' = "games" /\ at' = last /\ line' = 0 /\ drawn' = FALSE /\ UNCHANGED <<force, top>>
    BY <1>4 DEF ChooseGame, StartGame, Frame
  <2>2. Fits(last, count)
    BY DEF CursorInv, ListInv
  <2>3. Fits(at, Lines(screen))'
    BY <1>0, <2>1, <2>2 DEF Lines
  <2> QED BY <2>1, <2>3 DEF ScreenInv, Screens
<1>5. ASSUME NEW keys \in Inputs, BrowseGames(keys) PROVE ScreenInv'
  <2>1. /\ screen = "games" /\ Stay /\ at' = last'
        /\ line' \in {line, Line(at')} /\ top' \in {top, at'.page} /\ drawn' \in {drawn, TRUE}
    BY <1>5 DEF BrowseGames, RenderGamelist, Frame
  <2>2. Fits(at', count')
    BY <2>1 DEF CursorInv, ListInv
  <2>3. line' \in Nat /\ top' \in Nat
    BY <2>1, <2>2, FittingLine DEF ScreenInv
  <2>4. Fits(at, Lines(screen))'
    BY <2>1, <2>2 DEF Lines, Stay
  <2> QED BY <2>1, <2>3, <2>4 DEF Stay, ScreenInv
<1>6. ASSUME NEW keys \in Inputs, NoGames(keys) PROVE ScreenInv'
  BY <1>1, <1>6 DEF NoGames, Stay
<1>7. ASSUME NEW keys \in Inputs, Settings(keys) PROVE ScreenInv'
  <2>1. screen = "settings" /\ Lines(screen) = 3 /\ top' = top
    BY <1>7 DEF Settings, Frame, Lines
  <2>2. \/ \E s \in Screens : Goto(s)
        \/ MoveCursor(3, keys) /\ Stay /\ UNCHANGED drawn
    BY <1>7 DEF Settings, Chosen, Screens
  <2> QED BY <1>0, <2>1, <2>2, GotoIsScreen, MovesAreScreen
<1>8. ASSUME NEW keys \in Inputs, Leds(keys) PROVE ScreenInv'
  <2>1. screen = "leds" /\ Lines(screen) = 4 /\ top' = top
    BY <1>8 DEF Leds, Frame, Lines
  <2>2. \/ \E s \in Screens : Goto(s)
        \/ MoveCursor(4, keys) /\ Stay /\ UNCHANGED drawn
    BY <1>8 DEF Leds, Screens
  <2> QED BY <1>0, <2>1, <2>2, GotoIsScreen, MovesAreScreen
<1>9. ASSUME NEW keys \in Inputs, Info(keys) PROVE ScreenInv'
  <2>1. top' = top /\ \/ \E s \in Screens : Goto(s)
                      \/ Stay /\ UNCHANGED <<at, line, drawn>>
    BY <1>9 DEF Info, Screens
  <2> QED BY <1>1, <2>1, GotoIsScreen DEF Stay
<1>10. ASSUME NEW keys \in Inputs, AskTime(keys) PROVE ScreenInv'
  BY <1>1, <1>10 DEF AskTime, screenVars, ScreenInv
<1>11. ASSUME NEW keys, NEW p, NEW f, ClockKeys(keys, p, f), top' = top PROVE ScreenInv'
  <2>1. CASE Goto("settings")
    BY <1>11, <2>1, GotoIsScreen DEF Screens
  <2>2. CASE /\ UNCHANGED <<screen, at, drawn>> /\ line' \in {line, 0}
             /\ force' \in {force, FALSE}
    <3>1. Lines(screen)' = Lines(screen)
      BY <1>0, <2>2 DEF Lines
    <3>2. Fits(at, Lines(screen))'
      BY <2>2, <3>1 DEF ScreenInv
    <3>3. force' \in BOOLEAN /\ drawn' \in BOOLEAN
      BY <2>2, Zenon DEF ScreenInv
    <3> QED BY <1>11, <2>2, <3>2, <3>3 DEF ScreenInv
  <2>3. \/ Goto("settings")
        \/ /\ UNCHANGED <<screen, at, drawn>> /\ line' \in {line, 0}
           /\ force' \in {force, FALSE}
    BY <1>11 DEF ClockKeys, Stay
  <2> QED BY <2>1, <2>2, <2>3
<1>12. CASE ShowTime
  BY <1>11, <1>12 DEF ShowTime
<1>13. ASSUME NEW keys \in Inputs, EditTime(keys) PROVE ScreenInv'
  BY <1>11, <1>13 DEF EditTime
<1>14. CASE TimeSet
  BY <1>14, GotoIsScreen DEF TimeSet, Screens
<1> QED BY <1>2, <1>3, <1>4, <1>5, <1>6, <1>7, <1>8, <1>9, <1>10, <1>12, <1>13, <1>14 DEF Console

LEMMA ScreenStep ==
  ImageInv /\ CursorInv /\ CursorInv' /\ ScreenInv /\ [Next]_vars => ScreenInv'
<1> SUFFICES ASSUME ImageInv, CursorInv, CursorInv', ScreenInv, [Next]_vars PROVE ScreenInv'
  OBVIOUS
<1>1. CASE Console
  BY <1>1, ConsoleKeepsScreen
<1>2. CASE Cartridge
  <2>1. UNCHANGED <<screen, at, line, drawn, top, force>>
    BY <1>2
    DEF Cartridge, SetClock, LoadMenu, ReleaseMenu, TakeOther, TakeRead, TakeSet, TakeStart, Take,
        OpenRom, CannotList, CannotRead, LoadBank, StopMenu, Restore, StartMapper, ReleaseGame, Load,
         Panic,
        consoleVars, screenVars
  <2>2. count' = count \/ at = Home
    BY <1>2
    DEF Cartridge, SetClock, LoadMenu, ReleaseMenu, TakeOther, TakeRead, TakeSet, TakeStart, Take,
        OpenRom, CannotList, CannotRead, LoadBank, StopMenu, Restore, StartMapper, ReleaseGame, Load,
         Panic,
        sharedVars, CursorInv, StartInv
  <2>3. Fits(at, Lines(screen))'
    <3>1. CASE count' = count
      BY <2>1, <3>1 DEF Lines, ScreenInv
    <3>2. CASE at = Home
      <4>1. Lines(screen)' \in Nat
        BY <2>1 DEF Lines, CursorInv, ListInv
      <4> QED BY <2>1, <3>2, <4>1, HomeFits
    <3> QED BY <2>2, <3>1, <3>2
  <2> QED BY <2>1, <2>3 DEF ScreenInv
<1>3. CASE UNCHANGED vars
  BY <1>3 DEF vars, screenVars, sharedVars, ScreenInv, Lines
<1> QED BY <1>1, <1>2, <1>3 DEF Next

\* What is left of the bounds covers what a frame that waits may do.
WaitInv ==
  /\ input \in SUBSET Key /\ asked \in {"none", "read", "set"}
  /\ edits \in Nat /\ sets \in Nat
  /\ pc = "await" /\ asked = "read" => WithinBounds(input)

LEMMA KeysKeepWait ==
  ASSUME WaitInv, NEW keys, WithinBounds(keys), NEW p, NEW f, ClockKeys(keys, p, f), input' = input
  PROVE  WaitInv'
<1>1. \A n \in Nat : n > 0 => n - 1 \in Nat
  OBVIOUS
<1>2. edits' \in Nat
  BY <1>1 DEF WaitInv, WithinBounds, ClockKeys
<1>3. sets' \in Nat
  BY <1>1 DEF WaitInv, WithinBounds, ClockKeys
<1>4. /\ pc' = "frame" \/ asked' = "set"
      /\ asked' \in {asked, "set"}
  BY DEF ClockKeys, Ask
<1> QED BY <1>2, <1>3, <1>4 DEF WaitInv

LEMMA WaitStep == TalkInv /\ WaitInv /\ [Next]_vars => WaitInv'
<1> SUFFICES ASSUME TalkInv, WaitInv, [Next]_vars PROVE WaitInv'
  OBVIOUS
<1>1. ASSUME UNCHANGED <<waitVars, edits>>, pc' = "await" => pc = "await" PROVE WaitInv'
  BY <1>1 DEF WaitInv, WithinBounds, waitVars
<1>2. CASE StartMenu \/ TimeSet
  BY <1>1, <1>2 DEF StartMenu, TimeSet, clockVars
<1>3. ASSUME NEW keys \in Inputs,
             \/ LeaveGames(keys) \/ BrowseGames(keys) \/ NoGames(keys)
             \/ Settings(keys) \/ Leds(keys) \/ Info(keys) \/ ChooseGame(keys)
      PROVE  WaitInv'
  <2>1. UNCHANGED <<waitVars, clockVars>> /\ (pc' = "await" => pc = "await")
    BY <1>3 DEF LeaveGames, BrowseGames, NoGames, Settings, Leds, Info, ChooseGame, StartGame, Frame
  <2> QED BY <1>1, <2>1 DEF clockVars
<1>4. ASSUME NEW keys \in Inputs, AskTime(keys) PROVE WaitInv'
  <2>1. input' = keys /\ asked' = "read" /\ WithinBounds(keys) /\ UNCHANGED <<edits, sets>>
    BY <1>4 DEF AskTime, Ask
  <2> QED BY <2>1 DEF WaitInv, WithinBounds
<1>5. CASE ShowTime
  BY <1>5, KeysKeepWait DEF ShowTime, WaitInv
<1>6. ASSUME NEW keys \in Inputs, EditTime(keys) PROVE WaitInv'
  BY <1>6, KeysKeepWait DEF EditTime
<1>7. CASE Cartridge
  <2>1. UNCHANGED <<waitVars, clockVars>> /\ pc' \in {pc, "off"}
    BY <1>7
    DEF Cartridge, SetClock, LoadMenu, ReleaseMenu, TakeOther, TakeRead, TakeSet, TakeStart, Take,
        OpenRom, CannotList, CannotRead, LoadBank, StopMenu, Restore, StartMapper, ReleaseGame, Load,
         Panic,
        consoleVars
  <2> QED BY <1>1, <2>1 DEF clockVars
<1>8. CASE UNCHANGED vars
  BY <1>1, <1>8 DEF vars, clockVars
<1> QED BY <1>2, <1>3, <1>4, <1>5, <1>6, <1>7, <1>8 DEF Next, Console

LEMMA DirtyStep == dirty \in BOOLEAN /\ [Next]_vars => dirty' \in BOOLEAN
<1> SUFFICES ASSUME dirty \in BOOLEAN, [Next]_vars PROVE dirty' \in BOOLEAN
  OBVIOUS
<1>1. ASSUME NEW d \in BOOLEAN, NEW keys, dirty' = (d \/ Edits(keys)) PROVE dirty' \in BOOLEAN
  BY <1>1, Zenon DEF Edits
<1>2. CASE StartMenu
  BY <1>2 DEF StartMenu, clockVars
<1>3. ASSUME NEW keys \in Inputs,
             \/ LeaveGames(keys) \/ BrowseGames(keys) \/ NoGames(keys)
             \/ Settings(keys) \/ Leds(keys) \/ Info(keys) \/ ChooseGame(keys) \/ AskTime(keys)
      PROVE  dirty' \in BOOLEAN
  BY <1>3 DEF LeaveGames, BrowseGames, NoGames, Settings, Leds, Info, ChooseGame, AskTime, Frame,
              clockVars
<1>4. CASE ShowTime
  BY <1>4, Zenon DEF ShowTime, Edits
<1>5. ASSUME NEW keys \in Inputs, EditTime(keys) PROVE dirty' \in BOOLEAN
  BY <1>1, <1>5, Zenon DEF EditTime
<1>6. CASE TimeSet
  BY <1>6 DEF TimeSet
<1>7. CASE Cartridge
  BY <1>7
  DEF Cartridge, SetClock, LoadMenu, ReleaseMenu, TakeOther, TakeRead, TakeSet, TakeStart, Take,
      OpenRom, CannotList, CannotRead, LoadBank, StopMenu, Restore, StartMapper, ReleaseGame, Load,
         Panic,
      consoleVars, clockVars
<1>8. CASE UNCHANGED vars
  BY <1>8 DEF vars, clockVars
<1> QED BY <1>2, <1>3, <1>4, <1>5, <1>6, <1>7, <1>8 DEF Next, Console

\* What the two sides share, and what the cartridge keeps.
MemoryInv ==
  /\ mail \in Mail /\ game \in Nat /\ loaded \in Nat
  /\ held \in BOOLEAN /\ bank0 \in 0 .. 3 /\ gate \in BOOLEAN
  /\ sram \in {"old", "shared", "save"}

LEMMA MailTypes == /\ \A i \in Nat : NameMail(i) \in Mail
                   /\ \A p \in Point : TimeMail(p) \in Mail
<1>1. [f \in 0 .. 5 |-> 42] \in Point
  BY DEF Point, Byte
<1> QED BY <1>1 DEF NameMail, TimeMail, Mail, NoGame

LEMMA ConsoleKeepsMemory ==
  ASSUME CursorInv, ClockInv, MemoryInv, Console
  PROVE  MemoryInv'
<1>0. UNCHANGED <<game, loaded, held, bank0, gate, sram>>
  BY ConsoleLeaves DEF cartVars
<1>1. ASSUME mail' \in Mail PROVE MemoryInv'
  BY <1>0, <1>1, Zenon DEF MemoryInv
<1>2. CASE StartMenu
  BY <1>1, <1>2, MailTypes DEF StartMenu, NoGame
<1>3. ASSUME NEW keys \in Inputs,
             \/ LeaveGames(keys) \/ BrowseGames(keys) \/ NoGames(keys)
             \/ Settings(keys) \/ Leds(keys) \/ Info(keys) \/ AskTime(keys)
      PROVE  MemoryInv'
  <2>1. mail' = mail
    BY <1>3 DEF LeaveGames, BrowseGames, NoGames, Settings, Leds, Info, AskTime, sharedVars
  <2> QED BY <1>1, <2>1 DEF MemoryInv
<1>4. ASSUME NEW keys \in Inputs, ChooseGame(keys) PROVE MemoryInv'
  <2>1. last.cursor + 1 \in Nat
    BY DEF CursorInv, ListInv, Fits, Position
  <2> QED BY <1>1, <1>4, <2>1, MailTypes DEF ChooseGame, StartGame
<1>5. ASSUME NEW keys, NEW p, Valid(p), NEW f, ClockKeys(keys, p, f) PROVE MemoryInv'
  <2>1. mail' \in {mail, TimeMail(p)} /\ p \in Point
    BY <1>5 DEF ClockKeys, Valid
  <2> QED BY <1>1, <2>1, MailTypes DEF MemoryInv
<1>6. CASE ShowTime
  <2>1. /\ ClockKeys(input, mail.time, field) /\ pc = "await" /\ asked = "read" /\ msgGb = msgRp
    BY <1>6 DEF ShowTime
  <2>2. Valid(mail.time)
    BY <2>1, DatetimeIsValid DEF ClockInv
  <2> QED BY <1>5, <2>1, <2>2
<1>7. ASSUME NEW keys \in Inputs, EditTime(keys) PROVE MemoryInv'
  BY <1>5, <1>7 DEF EditTime, ClockInv
<1>8. CASE TimeSet
  BY <1>1, <1>8 DEF TimeSet, sharedVars, MemoryInv
<1> QED BY <1>2, <1>3, <1>4, <1>6, <1>7, <1>8 DEF Console

LEMMA CartridgeKeepsMemory ==
  ASSUME ClockInv, MemoryInv, Cartridge
  PROVE  MemoryInv'
<1>1. ASSUME mail' \in Mail, game' \in Nat, loaded' \in Nat, bank0' \in 0 .. 3,
             sram' \in {"old", "shared", "save"}
      PROVE  MemoryInv'
  <2>1. held' \in {held, TRUE, FALSE} /\ gate' \in {gate, FALSE}
    BY DEF Cartridge, SetClock, LoadMenu, ReleaseMenu, TakeOther, TakeRead, TakeSet, TakeStart, Take,
        OpenRom, CannotList, CannotRead, LoadBank, StopMenu, Restore, StartMapper, ReleaseGame, Load,
         Panic
  <2>2. held' \in BOOLEAN /\ gate' \in BOOLEAN
    BY <2>1, Zenon DEF MemoryInv
  <2> QED BY <1>1, <2>2 DEF MemoryInv
<1>2. CASE SetClock \/ LoadMenu \/ ReleaseMenu
  <2>1. /\ mail' = mail /\ game' = game /\ loaded' \in {loaded, 0} /\ bank0' \in {bank0, 1}
        /\ sram' \in {sram, "shared"}
    BY <1>2 DEF SetClock, LoadMenu, ReleaseMenu, sharedVars
  <2> QED BY <1>1, <2>1 DEF MemoryInv
<1>3. CASE TakeOther \/ TakeRead \/ TakeSet \/ TakeStart
  <2>1. UNCHANGED <<loaded, bank0, sram>>
    BY <1>3 DEF TakeOther, TakeRead, TakeSet, TakeStart, Take
  <2>2. game' \in {game, mail.game} /\ mail' \in {mail, TimeMail(ToPoint(Datetime(chip)))}
    BY <1>3 DEF TakeOther, TakeRead, TakeSet, TakeStart, Take
  <2>3. mail.game \in Nat
    BY DEF MemoryInv, Mail
  <2>4. TimeMail(ToPoint(Datetime(chip))) \in Mail
    BY DatetimeIsValid, MailTypes DEF Valid, ClockInv
  <2> QED BY <1>1, <2>1, <2>2, <2>3, <2>4 DEF MemoryInv
<1>4. CASE \/ OpenRom \/ CannotRead \/ CannotList \/ LoadBank \/ StopMenu
         \/ Restore \/ StartMapper \/ ReleaseGame
  <2>1. /\ mail' = mail /\ game' = game /\ loaded' \in {loaded, 1, loaded + 1}
        /\ bank0' \in {bank0, 0} /\ sram' \in {sram, "save"}
    BY <1>4 DEF OpenRom, CannotList, CannotRead, Panic, LoadBank, StopMenu, Restore,
                StartMapper, ReleaseGame, Load, sharedVars
  <2> QED BY <1>1, <2>1 DEF MemoryInv
<1> QED BY <1>2, <1>3, <1>4 DEF Cartridge

LEMMA MemoryStep == CursorInv /\ ClockInv /\ MemoryInv /\ [Next]_vars => MemoryInv'
<1>1. MemoryInv /\ UNCHANGED vars => MemoryInv'
  BY DEF vars, sharedVars, cartVars, MemoryInv
<1> QED BY <1>1, ConsoleKeepsMemory, CartridgeKeepsMemory DEF Next

LEMMA InitTypes == Init => ScreenInv /\ WaitInv /\ MemoryInv
<1> SUFFICES ASSUME Init PROVE ScreenInv /\ WaitInv /\ MemoryInv
  OBVIOUS
<1>1. ScreenInv
  <2>1. screen = "games" /\ force = TRUE /\ at = Home /\ line = 0 /\ drawn = FALSE /\ top = 0
        /\ count = 0
    BY DEF Init
  <2>2. Fits(Home, 0)
    BY HomeFits
  <2> QED BY <2>1, <2>2 DEF ScreenInv, Screens, Lines
<1>2. WaitInv
  BY DEF Init, WaitInv
<1>3. MemoryInv
  <2>1. /\ mail = NameMail(NoGame) /\ game = 0 /\ loaded = 0 /\ held = TRUE /\ bank0 = 3
        /\ gate = TRUE /\ sram = "old"
    BY DEF Init, NoGame
  <2> QED BY <2>1, MailTypes DEF MemoryInv, NoGame
<1> QED BY <1>1, <1>2, <1>3

\* Every variable keeps its type: a command is only sent while the one before it
\* is not under way, so the writes under way are a short queue of commands.
THEOREM TypeCorrect == Spec => []TypeOK
<1> DEFINE All == /\ ImageInv /\ CursorInv /\ TalkInv /\ ClockInv /\ dirty \in BOOLEAN
                  /\ ScreenInv /\ WaitInv /\ MemoryInv
<1>1. Init => All
  BY InitImage, InitCursor, InitTalk, InitClock, InitTypes DEF Init
<1>2. All /\ [Next]_vars => All'
  <2>1. dirty \in BOOLEAN /\ [Next]_vars => dirty' \in BOOLEAN
    BY DirtyStep
  <2> QED BY <2>1, ImageStep, CursorStep, TalkStep, ClockStep, ScreenStep, WaitStep, MemoryStep
<1>3. All => TypeOK
  <2> SUFFICES ASSUME All PROVE TypeOK
    OBVIOUS
  <2>1. cmds \in Seq(Commands)
    <3>1. \A c \in Commands : <<c>> \in Seq(Commands) /\ <<"enable", c>> \in Seq(Commands)
      BY DEF Commands
    <3>2. <<>> \in Seq(Commands) /\ {"enable", "read", "set", "start"} = Commands
      BY DEF Commands
    <3>3. cmds = <<>> \/ \E c \in Commands : cmds \in {<<c>>, <<"enable", c>>}
      BY <3>2 DEF TalkInv, Queued
    <3> QED BY <3>1, <3>2, <3>3
  <2>2. at \in Position /\ last \in Position /\ count \in Nat /\ card \in Seq(Entry)
    BY DEF ScreenInv, CursorInv, ListInv, StartInv, Fits
  <2>3. clock \in Point /\ field \in 1 .. 5 /\ chip \in Chip
    BY DEF ClockInv, Valid
  <2>4. /\ area \in [0 .. 2 -> {"none", "menu", "first", "bank"}]
        /\ rp \in {"power", "image", "list", "menu", "open", "banks", "restore", "mapper",
                   "release", "game", "panic"}
    BY DEF ImageInv, Contents
  <2>5. /\ pc \in {"off", "frame", "await", "loading"}
        /\ msgGb \in 0 .. MsgIds - 1 /\ msgRp \in 0 .. MsgIds - 1
    BY DEF TalkInv
  <2> QED
    BY <2>1, <2>2, <2>3, <2>4, <2>5 DEF ScreenInv, Screens, WaitInv, MemoryInv, TypeOK
<1> QED BY <1>1, <1>2, <1>3, PTL DEF Spec

=============================================================================
