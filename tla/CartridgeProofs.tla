-------------------------- MODULE CartridgeProofs ---------------------------
(***************************************************************************)
(* A game on the bus, for every clock and number of accesses.  First the   *)
(* clock keeps time: a second of process, the seconds restore_unix adds at *)
(* once, what the game stores and what process merges.  Then the accesses  *)
(* of the game reach what its writes to the mapper select, for all four    *)
(* kinds of cartridge and every write a game can make to them.             *)
(***************************************************************************)
EXTENDS Cartridge, Integers, NaturalsInduction, WellFoundedInduction, TLAPS

-----------------------------------------------------------------------------
(* Remainders                                                              *)

LEMMA RemainderIs ==
  ASSUME NEW n \in Nat, n > 0, NEW q \in Int, NEW x \in 0 .. n - 1
  PROVE  (n * q + x) % n = x
<1> DEFINE y == n * q + x
           p == y \div n
<1>1. y \in Int /\ p \in Int /\ y % n \in 0 .. n - 1 /\ y = n * p + (y % n)
  OBVIOUS
<1>2. n * (q - p) = (y % n) - x
  BY <1>1
<1>3. \A k \in Int : k >= 1 => n * k >= n
  OBVIOUS
<1>4. \A k \in Int : k <= -1 => n * k <= -n
  OBVIOUS
<1> HIDE DEF y, p
<1>5. q - p = 0
  <2>1. q - p \in Int
    BY <1>1
  <2>2. CASE q - p >= 1
    BY <1>1, <1>2, <1>3, <2>1, <2>2
  <2>3. CASE q - p <= -1
    BY <1>1, <1>2, <1>4, <2>1, <2>3
  <2> QED BY <2>1, <2>2, <2>3
<1>6. n * (q - p) = 0
  BY <1>5
<1> QED BY <1>1, <1>2, <1>6 DEF y

LEMMA RemainderOfSum ==
  ASSUME NEW n \in Nat, n > 0, NEW a \in Nat, NEW b \in Nat
  PROVE  /\ (a % n) \in 0 .. n - 1
         /\ ((a % n) + b) % n = (a + b) % n
         /\ (a + n) % n = a % n
<1>1. /\ a \div n \in Int /\ a % n \in 0 .. n - 1 /\ a = n * (a \div n) + (a % n)
  OBVIOUS
<1> DEFINE c == (a % n) + b
<1>2. /\ c \in Nat /\ c \div n \in Int /\ c % n \in 0 .. n - 1 /\ c = n * (c \div n) + (c % n)
  BY <1>1
<1>3. a + b = n * ((a \div n) + (c \div n)) + (c % n)
  <2>1. a + b = n * (a \div n) + c
    BY <1>1
  <2> HIDE DEF c
  <2>2. n * ((a \div n) + (c \div n)) = n * (a \div n) + n * (c \div n)
    BY <1>1, <1>2
  <2> QED BY <1>1, <1>2, <2>1, <2>2
<1>4. (a + b) % n = c % n
  <2> HIDE DEF c
  <2>1. (a \div n) + (c \div n) \in Int
    BY <1>1, <1>2
  <2>2. (n * ((a \div n) + (c \div n)) + (c % n)) % n = c % n
    BY <1>2, <2>1, RemainderIs
  <2> QED BY <1>3, <2>2
<1>5. a + n = n * ((a \div n) + 1) + (a % n) /\ (a \div n) + 1 \in Int
  BY <1>1
<1>6. (a + n) % n = a % n
  <2>1. (a \div n) + 1 \in Int
    BY <1>1
  <2>2. (n * ((a \div n) + 1) + (a % n)) % n = a % n
    BY <1>1, <2>1, RemainderIs
  <2> QED BY <1>5, <2>2
<1> QED BY <1>1, <1>4, <1>6

-----------------------------------------------------------------------------
(* The clock                                                               *)

\* A second
LEMMA TickType ==
  ASSUME NEW r \in Regs
  PROVE  /\ process_tick(r) \in Regs
         /\ IsHalt(process_tick(r)) <=> IsHalt(r)
<1>1. /\ r.count \in [0 .. 3 -> Nat] /\ r.flags \subseteq Flags
  BY DEF Regs
<1>2. AfterDays(r) \subseteq Flags /\ ("halt" \in AfterDays(r) <=> "halt" \in r.flags)
  BY <1>1 DEF AfterDays, Flags
<1>3. \A n \in 0 .. 3 : r.count[n] + 1 \in Nat /\ r.count[n] \in Nat
  BY <1>1
<1>4. process_tick(r).count \in [0 .. 3 -> Nat]
  BY <1>3 DEF process_tick
<1>5. process_tick(r).flags \in {AfterDays(r), r.flags}
  BY DEF process_tick
<1>6. process_tick(r) = [count |-> process_tick(r).count, flags |-> process_tick(r).flags]
  BY DEF process_tick
<1>7. process_tick(r) \in Regs
  BY <1>1, <1>2, <1>4, <1>5, <1>6 DEF Regs
<1>8. IsHalt(process_tick(r)) <=> IsHalt(r)
  BY <1>2, <1>5 DEF IsHalt
<1> QED BY <1>7, <1>8

\* The registers one by one, each with those below it
LEMMA TickFields ==
  ASSUME NEW r \in Regs
  PROVE  LET c == r.count
             t == process_tick(r).count
             roll0 == c[0] + 1 = Radix[0]
             roll1 == roll0 /\ c[1] + 1 = Radix[1]
             roll2 == roll1 /\ c[2] + 1 = Radix[2]
             roll3 == roll2 /\ c[3] + 1 = Radix[3]
         IN /\ t[0] = IF roll0 THEN 0 ELSE c[0] + 1
            /\ t[1] = IF roll1 THEN 0 ELSE IF roll0 THEN c[1] + 1 ELSE c[1]
            /\ t[2] = IF roll2 THEN 0 ELSE IF roll1 THEN c[2] + 1 ELSE c[2]
            /\ t[3] = IF roll3 THEN 0 ELSE IF roll2 THEN c[3] + 1 ELSE c[3]
            /\ process_tick(r).flags = IF roll3 THEN AfterDays(r) ELSE r.flags
<1> DEFINE c == r.count
           t == process_tick(r).count
<1>1. /\ Rolls(r, 0) <=> c[0] + 1 = Radix[0]
      /\ Rolls(r, 1) <=> c[0] + 1 = Radix[0] /\ c[1] + 1 = Radix[1]
      /\ Rolls(r, 2) <=> c[0] + 1 = Radix[0] /\ c[1] + 1 = Radix[1] /\ c[2] + 1 = Radix[2]
      /\ Rolls(r, 3) <=> /\ c[0] + 1 = Radix[0] /\ c[1] + 1 = Radix[1] /\ c[2] + 1 = Radix[2]
                         /\ c[3] + 1 = Radix[3]
  <2>1. /\ \A k \in 0 .. 0 : k = 0
        /\ \A k \in 0 .. 1 : k = 0 \/ k = 1
        /\ \A k \in 0 .. 2 : k = 0 \/ k = 1 \/ k = 2
        /\ \A k \in 0 .. 3 : k = 0 \/ k = 1 \/ k = 2 \/ k = 3
    OBVIOUS
  <2> QED BY <2>1 DEF Rolls
<1>2. \A n \in 0 .. 3 : t[n] = IF Rolls(r, n) THEN 0
                               ELSE IF n = 0 \/ Rolls(r, n - 1) THEN c[n] + 1 ELSE c[n]
  BY DEF process_tick
<1>3. /\ t[0] = IF Rolls(r, 0) THEN 0 ELSE c[0] + 1
      /\ t[1] = IF Rolls(r, 1) THEN 0 ELSE IF Rolls(r, 0) THEN c[1] + 1 ELSE c[1]
      /\ t[2] = IF Rolls(r, 2) THEN 0 ELSE IF Rolls(r, 1) THEN c[2] + 1 ELSE c[2]
      /\ t[3] = IF Rolls(r, 3) THEN 0 ELSE IF Rolls(r, 2) THEN c[3] + 1 ELSE c[3]
  <2>1. 1 - 1 = 0 /\ 2 - 1 = 1 /\ 3 - 1 = 2
    OBVIOUS
  <2> QED BY <1>2, <2>1
<1>4. process_tick(r).flags = IF Rolls(r, 3) THEN AfterDays(r) ELSE r.flags
  BY DEF process_tick
<1> HIDE DEF t
<1> QED BY <1>1, <1>3, <1>4 DEF t

Days(r) == r.count[3] + (IF "daysHigh" \in r.flags THEN Radix[3] ELSE 0)

LEMMA RadixTypes ==
  /\ Radix[0] \in Nat \ {0} /\ Radix[1] \in Nat \ {0} /\ Radix[2] \in Nat \ {0}
  /\ Radix[3] \in Nat \ {0} /\ Millis \in Nat \ {0}
  /\ \A n \in 0 .. 3 : Radix[n] \in Nat \ {0} /\ Width[n] \in Nat \ {0} /\ Radix[n] <= Width[n]
BY ClockAssumption

LEMMA CycleTypes == Cycle \in Nat \ {0} /\ Cycle * Millis \in Nat \ {0}
<1>1. \A x, y \in Nat \ {0} : x * y \in Nat \ {0}
  OBVIOUS
<1>2. 2 * Radix[0] \in Nat \ {0}
  BY RadixTypes
<1>3. 2 * Radix[0] * Radix[1] \in Nat \ {0}
  BY <1>1, <1>2, RadixTypes
<1>4. 2 * Radix[0] * Radix[1] * Radix[2] \in Nat \ {0}
  BY <1>1, <1>3, RadixTypes
<1>5. Cycle \in Nat \ {0}
  BY <1>1, <1>4, RadixTypes DEF Cycle
<1> QED BY <1>1, <1>5, RadixTypes

\* The hours, the minutes and the seconds the clock shows
Hours(r) == r.count[2] + (Radix[2] * Days(r))
Minutes(r) == r.count[1] + (Radix[1] * Hours(r))

LEMMA SecondsAre ==
  ASSUME NEW r \in Regs
  PROVE  /\ r.count[0] \in Nat /\ r.count[1] \in Nat /\ r.count[2] \in Nat /\ r.count[3] \in Nat
         /\ Days(r) \in Nat /\ Hours(r) \in Nat /\ Minutes(r) \in Nat
         /\ Seconds(r) = r.count[0] + (Radix[0] * Minutes(r))
         /\ Seconds(r) \in Nat
<1>1. r.count[0] \in Nat /\ r.count[1] \in Nat /\ r.count[2] \in Nat /\ r.count[3] \in Nat
  BY DEF Regs
<1>2. Days(r) \in Nat
  BY <1>1, RadixTypes DEF Days
<1>3. \A x, y, z \in Nat : x + (y * z) \in Nat
  OBVIOUS
<1>4. Hours(r) \in Nat
  BY <1>1, <1>2, <1>3, RadixTypes DEF Hours
<1>5. Minutes(r) \in Nat
  BY <1>1, <1>3, <1>4, RadixTypes DEF Minutes
<1>6. Seconds(r) = r.count[0] + (Radix[0] * Minutes(r))
  BY DEF Seconds, Days, Hours, Minutes
<1>7. Seconds(r) \in Nat
  BY <1>1, <1>3, <1>5, <1>6, RadixTypes
<1> QED BY <1>1, <1>2, <1>4, <1>5, <1>6, <1>7

\* A second from a time of day is the next one, on the clock's circle.
LEMMA TickSeconds ==
  ASSUME NEW r \in Regs, Valid(r)
  PROVE  /\ Valid(process_tick(r))
         /\ \/ Seconds(process_tick(r)) = Seconds(r) + 1
            \/ Seconds(process_tick(r)) + Cycle = Seconds(r) + 1
<1> DEFINE c == r.count
           q == process_tick(r)
           t == q.count
           roll0 == c[0] + 1 = Radix[0]
           roll1 == roll0 /\ c[1] + 1 = Radix[1]
           roll2 == roll1 /\ c[2] + 1 = Radix[2]
           roll3 == roll2 /\ c[3] + 1 = Radix[3]
<1>1. /\ c[0] \in Nat /\ c[1] \in Nat /\ c[2] \in Nat /\ c[3] \in Nat
      /\ c[0] < Radix[0] /\ c[1] < Radix[1] /\ c[2] < Radix[2] /\ c[3] < Radix[3]
  BY SecondsAre DEF Valid
<1>2. /\ t[0] = IF roll0 THEN 0 ELSE c[0] + 1
      /\ t[1] = IF roll1 THEN 0 ELSE IF roll0 THEN c[1] + 1 ELSE c[1]
      /\ t[2] = IF roll2 THEN 0 ELSE IF roll1 THEN c[2] + 1 ELSE c[2]
      /\ t[3] = IF roll3 THEN 0 ELSE IF roll2 THEN c[3] + 1 ELSE c[3]
      /\ q.flags = IF roll3 THEN AfterDays(r) ELSE r.flags
  BY TickFields
<1>3. q \in Regs
  BY TickType
<1> HIDE DEF q
<1>4. Valid(q)
  <2>1. t[0] < Radix[0] /\ t[1] < Radix[1] /\ t[2] < Radix[2] /\ t[3] < Radix[3]
    BY <1>1, <1>2, RadixTypes
  <2>2. \A n \in 0 .. 3 : n = 0 \/ n = 1 \/ n = 2 \/ n = 3
    OBVIOUS
  <2> QED BY <2>1, <2>2 DEF Valid
<1>5. /\ Days(r) \in Nat /\ Hours(r) \in Nat /\ Minutes(r) \in Nat /\ Seconds(r) \in Nat
      /\ Days(q) \in Nat /\ Hours(q) \in Nat /\ Minutes(q) \in Nat /\ Seconds(q) \in Nat
      /\ Seconds(r) = c[0] + (Radix[0] * Minutes(r))
      /\ Seconds(q) = t[0] + (Radix[0] * Minutes(q))
  BY <1>3, SecondsAre
<1>6. /\ Radix[0] \in Nat /\ Radix[1] \in Nat /\ Radix[2] \in Nat /\ Radix[3] \in Nat
  BY RadixTypes
<1>a. /\ Radix[2] * (Days(r) + 1) = (Radix[2] * Days(r)) + Radix[2]
      /\ Radix[1] * (Hours(r) + 1) = (Radix[1] * Hours(r)) + Radix[1]
      /\ Radix[0] * (Minutes(r) + 1) = (Radix[0] * Minutes(r)) + Radix[0]
  BY <1>5, <1>6
<1>7. CASE ~(roll3 /\ "daysHigh" \in r.flags)
  <2>1. Days(q) = IF roll2 THEN Days(r) + 1 ELSE Days(r)
    <3>1. CASE roll3
      BY <1>1, <1>2, <1>6, <1>7, <3>1 DEF Days, AfterDays
    <3>2. CASE ~roll3
      BY <1>1, <1>2, <1>6, <3>2 DEF Days
    <3> QED BY <3>1, <3>2
  <2>2. Hours(q) = IF roll1 THEN Hours(r) + 1 ELSE Hours(r)
    <3>1. CASE roll2
      <4>1. Hours(q) = Radix[2] * (Days(r) + 1)
        BY <1>2, <1>5, <1>6, <2>1, <3>1 DEF Hours
      <4> QED BY <1>1, <1>5, <1>6, <3>1, <1>a, <4>1 DEF Hours
    <3>2. CASE ~roll2
      BY <1>1, <1>2, <1>5, <1>6, <2>1, <3>2 DEF Hours
    <3> QED BY <3>1, <3>2
  <2>3. Minutes(q) = IF roll0 THEN Minutes(r) + 1 ELSE Minutes(r)
    <3>1. CASE roll1
      <4>1. Minutes(q) = Radix[1] * (Hours(r) + 1)
        BY <1>2, <1>5, <1>6, <2>2, <3>1 DEF Minutes
      <4> QED BY <1>1, <1>5, <1>6, <3>1, <1>a, <4>1 DEF Minutes
    <3>2. CASE ~roll1
      BY <1>1, <1>2, <1>5, <1>6, <2>2, <3>2 DEF Minutes
    <3> QED BY <3>1, <3>2
  <2>4. Seconds(q) = Seconds(r) + 1
    <3>1. CASE roll0
      BY <1>1, <1>2, <1>5, <1>6, <2>3, <3>1
    <3>2. CASE ~roll0
      BY <1>1, <1>2, <1>5, <1>6, <2>3, <3>2
    <3> QED BY <3>1, <3>2
  <2> QED BY <1>4, <2>4 DEF q
<1>8. CASE roll3 /\ "daysHigh" \in r.flags
  <2>1. t[0] = 0 /\ t[1] = 0 /\ t[2] = 0 /\ t[3] = 0
    BY <1>2, <1>8
  <2>2. Days(q) = 0 /\ Days(r) + 1 = 2 * Radix[3]
    BY <1>1, <1>2, <1>6, <1>8, <2>1 DEF Days, AfterDays
  <2>b. Radix[2] * 0 = 0 /\ Radix[1] * 0 = 0 /\ Radix[0] * 0 = 0
    BY <1>6
  <2>3. Hours(q) = 0 /\ Hours(r) + 1 = Radix[2] * (Days(r) + 1)
    <3>1. Hours(q) = 0
      BY <1>6, <2>1, <2>2, <2>b DEF Hours
    <3>2. Hours(r) = c[2] + (Radix[2] * Days(r)) /\ c[2] + 1 = Radix[2]
      BY <1>8 DEF Hours
    <3>3. Radix[2] * Days(r) \in Nat
      BY <1>5, <1>6
    <3> QED BY <1>1, <1>6, <1>a, <3>1, <3>2, <3>3
  <2>4. Minutes(q) = 0 /\ Minutes(r) + 1 = Radix[1] * (Hours(r) + 1)
    <3>1. Minutes(q) = 0
      BY <1>6, <2>1, <2>3, <2>b DEF Minutes
    <3>2. Minutes(r) = c[1] + (Radix[1] * Hours(r)) /\ c[1] + 1 = Radix[1]
      BY <1>8 DEF Minutes
    <3>3. Radix[1] * Hours(r) \in Nat
      BY <1>5, <1>6
    <3> QED BY <1>1, <1>6, <1>a, <3>1, <3>2, <3>3
  <2>5. Seconds(q) = 0 /\ Seconds(r) + 1 = Radix[0] * (Minutes(r) + 1)
    <3>1. Seconds(q) = 0
      BY <1>5, <1>6, <2>1, <2>4, <2>b
    <3>2. c[0] + 1 = Radix[0]
      BY <1>8
    <3>3. Radix[0] * Minutes(r) \in Nat
      BY <1>5, <1>6
    <3> QED BY <1>1, <1>5, <1>6, <1>a, <3>1, <3>2, <3>3
  <2>6. Seconds(r) + 1 = Radix[0] * (Radix[1] * (Radix[2] * (2 * Radix[3])))
    BY <2>2, <2>3, <2>4, <2>5
  <2>7. Radix[0] * (Radix[1] * (Radix[2] * (2 * Radix[3]))) = Cycle
    BY <1>6 DEF Cycle
  <2>8. Cycle = Seconds(r) + 1 /\ Cycle \in Nat
    BY <2>6, <2>7, CycleTypes
  <2> QED BY <1>4, <2>5, <2>8 DEF q
<1> QED BY <1>7, <1>8

LEMMA TotalType ==
  ASSUME NEW r \in Regs, NEW ms \in Nat
  PROVE  /\ (Seconds(r) * Millis) + ms \in Nat
         /\ Total(r, ms) \in 0 .. (Cycle * Millis) - 1
<1>1. \A x, y, z \in Nat : (x * y) + z \in Nat
  OBVIOUS
<1>2. (Seconds(r) * Millis) + ms \in Nat
  BY <1>1, SecondsAre, RadixTypes
<1>3. ((Seconds(r) * Millis) + ms) % (Cycle * Millis) \in 0 .. (Cycle * Millis) - 1
  <2>1. \A x \in Nat, y \in Nat \ {0} : x % y \in 0 .. y - 1
    OBVIOUS
  <2> QED BY <1>2, <2>1, CycleTypes
<1> QED BY <1>2, <1>3 DEF Total

\* A second has that many milliseconds,
LEMMA TickTotal ==
  ASSUME NEW r \in Regs, Valid(r), NEW ms \in Nat
  PROVE  Total(process_tick(r), ms) = Total(r, ms + Millis)
<1> DEFINE s == Seconds(r)
           t == Seconds(process_tick(r))
           all == Cycle * Millis
<1>1. process_tick(r) \in Regs /\ s \in Nat /\ t \in Nat /\ (t = s + 1 \/ t + Cycle = s + 1)
  BY SecondsAre, TickSeconds, TickType
<1>2. Cycle \in Nat /\ all \in Nat /\ all > 0 /\ Millis \in Nat
  BY CycleTypes, RadixTypes
<1>3. (t * Millis) + ms \in Nat
  BY <1>1, TotalType
<1> HIDE DEF s, t
<1>4. CASE t = s + 1
  <2>1. (t * Millis) + ms = (s * Millis) + (ms + Millis)
    BY <1>1, <1>2, <1>4
  <2> QED BY <2>1 DEF Total, s, t
<1>5. CASE t + Cycle = s + 1
  <2>1. ((t * Millis) + ms) + all = (s * Millis) + (ms + Millis)
    BY <1>1, <1>2, <1>5
  <2> HIDE DEF all
  <2>2. (((t * Millis) + ms) + all) % all = ((t * Millis) + ms) % all
    BY <1>2, <1>3, RemainderOfSum
  <2> QED BY <2>1, <2>2 DEF Total, s, t, all
<1> QED BY <1>1, <1>4, <1>5

\* and the milliseconds add up.
LEMMA TotalAdds ==
  ASSUME NEW r \in Regs, NEW ms \in Nat, NEW more \in Nat
  PROVE  Total(r, ms + more) = (Total(r, ms) + more) % (Cycle * Millis)
<1>1. (Seconds(r) * Millis) + (ms + more) = ((Seconds(r) * Millis) + ms) + more
  BY SecondsAre, RadixTypes
<1>2. (Seconds(r) * Millis) + ms \in Nat
  BY TotalType
<1>3. ((((Seconds(r) * Millis) + ms) % (Cycle * Millis)) + more) % (Cycle * Millis)
        = (((Seconds(r) * Millis) + ms) + more) % (Cycle * Millis)
  <2> DEFINE x == (Seconds(r) * Millis) + ms
             all == Cycle * Millis
  <2>1. x \in Nat /\ all \in Nat /\ all > 0
    BY <1>2, CycleTypes
  <2> HIDE DEF x, all
  <2>2. ((x % all) + more) % all = (x + more) % all
    BY <2>1, RemainderOfSum
  <2> QED BY <2>2 DEF x, all
<1> QED BY <1>1, <1>3 DEF Total

-----------------------------------------------------------------------------
(* Seconds in a row.  What holds of the registers after any number of them *)
(* is shown of the least number for which it would fail.                   *)

LEMMA Smallest ==
  ASSUME NEW T \in SUBSET Nat, T # {}
  PROVE  \E n \in T : \A k \in T : n <= k
<1> DEFINE R == OpToRel(<, Nat)
<1>1. IsWellFoundedOn(R, Nat)
  BY NatLessThanWellFounded
<1>2. \A x, y \in Nat : x < y => <<x, y>> \in R
  BY DEF OpToRel
<1> HIDE DEF R
<1>3. PICK n \in T : \A y \in T : ~(<<y, n>> \in R)
  BY <1>1, WFMin
<1>4. \A y \in T : ~(y < n)
  BY <1>2, <1>3
<1> QED BY <1>4

\* There is a function of the seconds as AdvanceBy defines it,
LEMMA Iterates ==
  ASSUME NEW r, NEW s \in Nat
  PROVE  \E g : g = [n \in 0 .. s |-> IF n = 0 THEN r ELSE process_tick(g[n - 1])]
<1> DEFINE Is(g, k) == g = [n \in 0 .. k |-> IF n = 0 THEN r ELSE process_tick(g[n - 1])]
           T == {k \in Nat : ~\E g : Is(g, k)}
<1>1. ASSUME T # {} PROVE FALSE
  <2>1. PICK k \in T : \A j \in T : k <= j
    BY <1>1, Smallest
  <2>2. k # 0
    <3>1. Is([n \in 0 .. 0 |-> r], 0)
      OBVIOUS
    <3> HIDE DEF Is
    <3> QED BY <3>1
  <2>3. k - 1 \in Nat /\ k - 1 \notin T
    BY <2>1, <2>2
  <2>4. PICK g : Is(g, k - 1)
    BY <2>3
  <2> DEFINE h == [n \in 0 .. k |-> IF n = k THEN process_tick(g[k - 1]) ELSE g[n]]
  <2>5. \A n \in 0 .. k : h[n] = IF n = 0 THEN r ELSE process_tick(h[n - 1])
    <3> SUFFICES ASSUME NEW n \in 0 .. k
                 PROVE  h[n] = IF n = 0 THEN r ELSE process_tick(h[n - 1])
      OBVIOUS
    <3>1. CASE n = k
      <4>1. h[n] = process_tick(g[k - 1]) /\ h[n - 1] = g[k - 1]
        BY <2>2, <3>1
      <4> QED BY <2>2, <3>1, <4>1
    <3>2. CASE n # k
      <4>1. h[n] = g[n] /\ (n # 0 => h[n - 1] = g[n - 1])
        BY <3>2
      <4>2. n \in 0 .. k - 1
        BY <2>1, <3>2
      <4>3. g[n] = IF n = 0 THEN r ELSE process_tick(g[n - 1])
        BY <2>4, <4>2
      <4> QED BY <4>1, <4>3
    <3> QED BY <3>1, <3>2
  <2>6. h = [n \in 0 .. k |-> h[n]]
    OBVIOUS
  <2> HIDE DEF h
  <2>7. Is(h, k)
    BY <2>5, <2>6
  <2> QED BY <2>1, <2>7
<1> QED BY <1>1

LEMMA AdvanceUnfolds ==
  ASSUME NEW r, NEW s \in Nat, ~IsHalt(r)
  PROVE  \E g : /\ AdvanceBy(r, s) = g[s]
                /\ \A n \in 0 .. s : g[n] = IF n = 0 THEN r ELSE process_tick(g[n - 1])
<1> DEFINE after[n \in 0 .. s] == IF n = 0 THEN r ELSE process_tick(after[n - 1])
<1>1. after = [n \in 0 .. s |-> IF n = 0 THEN r ELSE process_tick(after[n - 1])]
  BY Iterates, ZenonT(40)
<1>2. AdvanceBy(r, s) = IF IsHalt(r) THEN r ELSE after[s]
  BY Zenon DEF AdvanceBy
<1> HIDE DEF after
<1>3. \A n \in 0 .. s : after[n] = IF n = 0 THEN r ELSE process_tick(after[n - 1])
  BY <1>1
<1> QED BY <1>2, <1>3

\* and the clock that has been advanced shows that many seconds more.
LEMMA Advanced ==
  ASSUME NEW r \in Regs, NEW s \in Nat
  PROVE  /\ AdvanceBy(r, s) \in Regs
         /\ IsHalt(AdvanceBy(r, s)) <=> IsHalt(r)
         /\ Valid(r) => Valid(AdvanceBy(r, s))
         /\ Valid(r) /\ ~IsHalt(r) =>
              \A ms \in Nat : Total(AdvanceBy(r, s), ms) = Total(r, (s * Millis) + ms)
<1>1. CASE IsHalt(r)
  BY <1>1 DEF AdvanceBy
<1>2. CASE ~IsHalt(r)
  <2>1. PICK g : /\ AdvanceBy(r, s) = g[s]
                 /\ \A n \in 0 .. s : g[n] = IF n = 0 THEN r ELSE process_tick(g[n - 1])
    BY <1>2, AdvanceUnfolds
  <2> DEFINE Runs(n) == g[n] \in Regs /\ ~IsHalt(g[n])
             Counts(n) == /\ Valid(g[n])
                          /\ \A ms \in Nat : Total(g[n], ms) = Total(r, (n * Millis) + ms)
             Fails == {n \in 0 .. s : ~(Runs(n) /\ (Valid(r) => Counts(n)))}
  <2>2. Fails = {}
    <3> SUFFICES ASSUME Fails # {} PROVE FALSE
      OBVIOUS
    <3>1. PICK n \in Fails : \A k \in Fails : n <= k
      <4>1. Fails \in SUBSET Nat
        OBVIOUS
      <4> HIDE DEF Fails
      <4> QED BY <4>1, Smallest
    <3>2. n # 0
      <4>1. g[0] = r
        BY <2>1
      <4>2. \A ms \in Nat : (0 * Millis) + ms = ms
        BY RadixTypes
      <4>3. Runs(0) /\ (Valid(r) => Counts(0))
        BY <1>2, <4>1, <4>2
      <4> HIDE DEF Runs, Counts
      <4> QED BY <3>1, <4>3
    <3>3. n \in 0 .. s /\ n - 1 \in 0 .. s /\ n - 1 \in Nat
      BY <3>1, <3>2
    <3>4. Runs(n - 1) /\ (Valid(r) => Counts(n - 1))
      <4> HIDE DEF Runs, Counts
      <4> QED BY <3>1, <3>3
    <3>5. g[n] = process_tick(g[n - 1])
      BY <2>1, <3>2, <3>3
    <3>6. Runs(n)
      BY <3>4, <3>5, TickType
    <3>7. ASSUME Valid(r) PROVE Counts(n)
      <4>1. Valid(g[n])
        BY <3>4, <3>5, <3>7, TickSeconds
      <4>2. ASSUME NEW ms \in Nat PROVE Total(g[n], ms) = Total(r, (n * Millis) + ms)
        <5>1. Total(g[n], ms) = Total(g[n - 1], ms + Millis)
          BY <3>4, <3>5, <3>7, TickTotal
        <5>2. ms + Millis \in Nat
          BY RadixTypes
        <5>3. Total(g[n - 1], ms + Millis) = Total(r, ((n - 1) * Millis) + (ms + Millis))
          BY <3>4, <3>7, <5>2
        <5>4. ((n - 1) * Millis) + (ms + Millis) = (n * Millis) + ms
          BY <3>3, RadixTypes
        <5> QED BY <5>1, <5>3, <5>4
      <4> QED BY <4>1, <4>2
    <3> HIDE DEF Runs, Counts
    <3> QED BY <3>1, <3>6, <3>7
  <2>3. s \in 0 .. s
    OBVIOUS
  <2>4. Runs(s) /\ (Valid(r) => Counts(s))
    <3> HIDE DEF Runs, Counts
    <3> QED BY <2>2, <2>3
  <2> QED BY <1>2, <2>1, <2>4
<1> QED BY <1>1, <1>2

-----------------------------------------------------------------------------
(* The clock of a run.  While due speaks of it, the registers process has  *)
(* loaded are the clock, and the clock with the milliseconds not yet       *)
(* counted is due; the types go with that.                                 *)

ClockType ==
  /\ real \in Regs /\ latch \in Regs
  /\ millies \in 0 .. Millis - 1 /\ lag \in Nat
  /\ pass \in [busy : BOOLEAN, regs : Regs, lag : Nat, hit : SUBSET (0 .. Status)]
  /\ oldHalt \in BOOLEAN /\ sure \in BOOLEAN
  /\ due \in 0 .. (Cycle * Millis) - 1

TimeInv ==
  /\ sure => Valid(real)
  /\ sure /\ pass.busy => pass.regs = real /\ pass.hit = {}
  /\ pass.busy => pass.lag <= lag
  /\ sure /\ ~IsHalt(real) /\ ~oldHalt => Total(real, millies + lag) = due

ClockInv == ClockType /\ TimeInv

LEMMA IdleType == Idle \in [busy : BOOLEAN, regs : Regs, lag : Nat, hit : SUBSET (0 .. Status)]
<1>1. Idle.regs \in Regs
  BY DEF Idle, Regs
<1>2. \A r \in Regs : [busy |-> FALSE, regs |-> r, lag |-> 0, hit |-> {}]
        \in [busy : BOOLEAN, regs : Regs, lag : Nat, hit : SUBSET (0 .. Status)]
  OBVIOUS
<1> QED BY <1>1, <1>2 DEF Idle

LEMMA MaskedIs ==
  ASSUME NEW r \in Regs
  PROVE  /\ Masked(r) \in Regs /\ (IsHalt(Masked(r)) <=> IsHalt(r))
         /\ Valid(r) => Masked(r) = r
<1> DEFINE counts == [n \in 0 .. 3 |-> r.count[n] % Width[n]]
<1>1. r.count \in [0 .. 3 -> Nat] /\ r = [count |-> r.count, flags |-> r.flags]
      /\ r.flags \in SUBSET Flags
  BY DEF Regs
<1>2. Masked(r) = [count |-> counts, flags |-> r.flags]
  BY <1>1 DEF Masked
<1>3. \A x \in Nat, w \in Nat \ {0} : x % w \in Nat /\ (x < w => x % w = x)
  OBVIOUS
<1>4. counts \in [0 .. 3 -> Nat]
  <2>1. \A n \in 0 .. 3 : r.count[n] % Width[n] \in Nat
    BY <1>1, <1>3, RadixTypes
  <2> QED BY <2>1
<1>5. ASSUME Valid(r) PROVE counts = r.count
  <2>1. \A n \in 0 .. 3 : r.count[n] < Width[n]
    <3>1. \A n \in 0 .. 3 : r.count[n] \in Nat /\ r.count[n] < Radix[n]
      BY <1>1, <1>5 DEF Valid
    <3>2. \A n \in 0 .. 3 : Radix[n] \in Nat /\ Width[n] \in Nat /\ Radix[n] <= Width[n]
      BY RadixTypes
    <3> QED BY <3>1, <3>2
  <2>2. \A n \in 0 .. 3 : r.count[n] % Width[n] = r.count[n]
    BY <1>1, <1>3, <2>1, RadixTypes
  <2> QED BY <1>1, <2>2
<1> HIDE DEF counts
<1>6. Masked(r) \in Regs
  BY <1>1, <1>2, <1>4 DEF Regs
<1>7. IsHalt(Masked(r)) <=> IsHalt(r)
  BY <1>2 DEF IsHalt
<1>8. Valid(r) => Masked(r) = r
  BY <1>1, <1>2, <1>5
<1> QED BY <1>6, <1>7, <1>8

LEMMA StoredType ==
  ASSUME NEW r \in Regs, NEW n \in 0 .. Status, NEW byte \in Bytes
  PROVE  Stored(r, n, byte) \in Regs
<1>1. byte.num \in Nat /\ byte.flags \in SUBSET Flags
  BY CartridgeAssumption
<1>2. CASE n = Status
  BY <1>1, <1>2 DEF Stored, Regs
<1>3. CASE n # Status
  <2> DEFINE value == IF n = 3 THEN byte.num % Width[3] ELSE byte.num
  <2>1. value \in Nat
    <3>1. \A x \in Nat, w \in Nat \ {0} : x % w \in Nat
      OBVIOUS
    <3>2. Width[3] \in Nat \ {0}
      BY RadixTypes
    <3> QED BY <1>1, <3>1, <3>2
  <2>2. Stored(r, n, byte) = [r EXCEPT !.count[n] = value]
    BY <1>3 DEF Stored
  <2> HIDE DEF value
  <2>3. r.count \in [0 .. 3 -> Nat] /\ n \in 0 .. 3
    BY <1>3 DEF Regs, Status
  <2>4. [r.count EXCEPT ![n] = value] \in [0 .. 3 -> Nat]
    BY <2>1, <2>3
  <2>5. Stored(r, n, byte) = [count |-> [r.count EXCEPT ![n] = value], flags |-> r.flags]
    BY <2>2 DEF Regs
  <2> QED BY <2>4, <2>5 DEF Regs
<1> QED BY <1>2, <1>3

LEMMA MergeIs ==
  ASSUME NEW r \in Regs, real \in Regs, NEW kept \in SUBSET (0 .. Status)
  PROVE  /\ Merge(r, kept) \in Regs
         /\ kept = {} => Merge(r, kept) = r
<1>1. /\ r.count \in [0 .. 3 -> Nat] /\ r.flags \in SUBSET Flags
      /\ real.count \in [0 .. 3 -> Nat] /\ real.flags \in SUBSET Flags
      /\ r = [count |-> r.count, flags |-> r.flags]
  BY DEF Regs
<1>2. Merge(r, kept) \in Regs
  BY <1>1 DEF Merge, Regs
<1>3. kept = {} => Merge(r, kept) = r
  BY <1>1 DEF Merge
<1> QED BY <1>2, <1>3

\* The save file's clock, with the time since on it
LEMMA InitClockInv == Init => ClockInv
<1> SUFFICES ASSUME Init PROVE ClockInv
  OBVIOUS
<1>0. millies = 0 /\ oldHalt = FALSE /\ 0 \in 0 .. Millis - 1
  BY RadixTypes DEF Init
<1>1. CASE kind = "mbc3"
  <2>1. PICK tail \in Saved, elapsed \in Elapsed, uptime \in Uptimes :
          /\ real = Restored(tail.real, elapsed, uptime)
          /\ latch = tail.latch /\ lag = uptime
          /\ due = Total(tail.real,
                         ((IF elapsed > uptime \div Millis THEN elapsed ELSE uptime \div Millis)
                            * Millis) + (uptime % Millis))
          /\ sure = Valid(tail.real)
    BY <1>1 DEF Init, InitClock
  <2> DEFINE on == uptime \div Millis
             since == IF elapsed > on THEN elapsed - on ELSE 0
             all == IF elapsed > on THEN elapsed ELSE on
  <2>2. tail.real \in Regs /\ tail.latch \in Regs /\ elapsed \in Nat /\ uptime \in Nat
    BY CartridgeAssumption
  <2>3. /\ on \in Nat /\ uptime % Millis \in Nat
        /\ uptime = (Millis * on) + (uptime % Millis)
    <3>1. \A x \in Nat, n \in Nat \ {0} :
            x \div n \in Nat /\ x % n \in Nat /\ x = (n * (x \div n)) + (x % n)
      OBVIOUS
    <3> QED BY <2>2, <3>1, RadixTypes
  <2>4. pass = Loaded
    BY <1>1 DEF Init
  <2>5. real = AdvanceBy(tail.real, since)
    BY <2>1 DEF Restored
  <2> HIDE DEF on
  <2>6. since \in Nat /\ all \in Nat /\ all = since + on
    BY <2>2, <2>3
  <2>7. due = Total(tail.real, (all * Millis) + (uptime % Millis))
    BY <2>1 DEF on
  <2> HIDE DEF since, all
  <2>8. (all * Millis) + (uptime % Millis) = (since * Millis) + uptime
    <3>1. (since + on) * Millis = (since * Millis) + (Millis * on)
      BY <2>3, <2>6, RadixTypes
    <3>2. since * Millis \in Nat /\ Millis * on \in Nat
      BY <2>3, <2>6, RadixTypes
    <3> QED BY <2>2, <2>3, <2>6, <3>1, <3>2
  <2>9. /\ real \in Regs /\ (IsHalt(real) <=> IsHalt(tail.real))
        /\ Valid(tail.real) => Valid(real)
        /\ Valid(tail.real) /\ ~IsHalt(tail.real) =>
             \A ms \in Nat : Total(real, ms) = Total(tail.real, (since * Millis) + ms)
    BY <2>2, <2>5, <2>6, Advanced
  <2>10. due \in 0 .. (Cycle * Millis) - 1
    <3>1. since * Millis \in Nat
      BY <2>6, RadixTypes
    <3>2. (since * Millis) + uptime \in Nat
      BY <2>2, <3>1
    <3> QED BY <2>2, <2>7, <2>8, <3>2, TotalType
  <2>11. /\ pass \in [busy : BOOLEAN, regs : Regs, lag : Nat, hit : SUBSET (0 .. Status)]
         /\ pass.regs = real /\ pass.hit = {} /\ pass.lag <= lag
    BY <2>1, <2>2, <2>4, <2>9 DEF Loaded
  <2>12. sure \in BOOLEAN
    BY <2>1, Zenon DEF Valid
  <2>13. ClockType
    BY <1>0, <2>1, <2>2, <2>9, <2>10, <2>11, <2>12 DEF ClockType
  <2>14. sure /\ ~IsHalt(real) => Total(real, millies + lag) = due
    <3>1. millies + lag = uptime
      BY <1>0, <2>1, <2>2
    <3> QED BY <2>1, <2>2, <2>7, <2>8, <2>9, <3>1
  <2> QED BY <2>1, <2>9, <2>11, <2>13, <2>14 DEF ClockInv, TimeInv
<1>2. CASE kind # "mbc3"
  <2>1. /\ real = Idle.regs /\ latch = Idle.regs /\ lag = 0 /\ due = 0 /\ sure = TRUE
        /\ pass = Idle
    BY <1>2 DEF Init, NoClock
  <2>2. Idle.regs \in Regs /\ ~Idle.busy /\ Idle.regs = [count |-> [n \in 0 .. 3 |-> 0], flags |-> {}]
    BY IdleType DEF Idle
  <2>3. Valid(real)
    BY <2>1, <2>2, RadixTypes DEF Valid
  <2>4. Total(real, 0) = 0
    <3>1. /\ real.count[0] = 0 /\ real.count[1] = 0 /\ real.count[2] = 0 /\ real.count[3] = 0
          /\ "daysHigh" \notin real.flags
      BY <2>1, <2>2
    <3>2. Days(real) = 0
      BY <3>1 DEF Days
    <3>3. Radix[2] * 0 = 0 /\ Radix[1] * 0 = 0 /\ Radix[0] * 0 = 0
      BY RadixTypes
    <3>4. Hours(real) = 0
      BY <3>1, <3>2, <3>3 DEF Hours
    <3>5. Minutes(real) = 0
      BY <3>1, <3>3, <3>4 DEF Minutes
    <3>6. Seconds(real) = 0
      BY <2>1, <2>2, <3>1, <3>3, <3>5, SecondsAre
    <3>7. (0 * Millis) + 0 = 0
      BY RadixTypes
    <3>8. \A n \in Nat \ {0} : 0 % n = 0
      OBVIOUS
    <3> QED BY <3>6, <3>7, <3>8, CycleTypes DEF Total
  <2>5. 0 \in 0 .. (Cycle * Millis) - 1
    BY CycleTypes
  <2>6. ClockType
    BY <1>0, <2>1, <2>2, <2>5, IdleType DEF ClockType
  <2> QED BY <1>0, <2>1, <2>2, <2>3, <2>4, <2>6 DEF ClockInv, TimeInv
<1> QED BY <1>1, <1>2

\* A write of the game to the mapper may latch the clock.
LEMMA MapperWriteClock ==
  ASSUME ClockInv, NEW area, NEW data, MapperWrite(area, data)
  PROVE  ClockInv'
<1>1. /\ real' = real /\ millies' = millies /\ lag' = lag /\ oldHalt' = oldHalt /\ pass' = pass
      /\ due' = due /\ sure' = sure
      /\ latch' = real \/ latch' = latch
  BY DEF MapperWrite, Latched
<1>2. ClockType'
  BY <1>1 DEF ClockInv, ClockType
<1>3. TimeInv'
  BY <1>1 DEF ClockInv, TimeInv
<1> QED BY <1>2, <1>3 DEF ClockInv

\* A byte of the game
LEMMA SramWriteClock ==
  ASSUME ClockInv, NEW offset \in Offsets, NEW byte \in Bytes, SramWrite(offset, byte)
  PROVE  ClockInv'
<1>1. /\ millies' = millies /\ lag' = lag /\ oldHalt' = oldHalt /\ latch' = latch
      /\ \/ SetByGame(accessor'.write, byte)
         \/ SetStack(accessor'.write)
         \/ SetElsewhere(accessor'.write)
  BY DEF SramWrite
<1>2. CASE SetByGame(accessor'.write, byte)
  <2>1. PICK n \in ClockRegister(accessor'.write) :
          /\ real' = Stored(real, n, byte)
          /\ pass' = [pass EXCEPT !.hit = IF pass.busy THEN pass.hit \cup {n} ELSE pass.hit]
          /\ due' = Total(real', millies + lag)
          /\ sure' = (Core0Runs /\ ~pass.busy /\ Valid(real'))
    BY <1>2 DEF SetByGame
  <2>2. n \in 0 .. Status
    BY DEF ClockRegister
  <2>3. real' \in Regs
    BY <2>1, <2>2, StoredType DEF ClockInv, ClockType
  <2>4. /\ pass' \in [busy : BOOLEAN, regs : Regs, lag : Nat, hit : SUBSET (0 .. Status)]
        /\ pass'.busy = pass.busy /\ pass'.lag = pass.lag
    BY <2>1, <2>2 DEF ClockInv, ClockType
  <2>5. due' \in 0 .. (Cycle * Millis) - 1
    <3>1. millies + lag \in Nat
      BY RadixTypes DEF ClockInv, ClockType
    <3> QED BY <2>1, <2>3, <3>1, TotalType
  <2>6. sure' \in BOOLEAN
    BY <2>1, Zenon
  <2>7. ClockType'
    BY <1>1, <2>1, <2>3, <2>4, <2>5, <2>6 DEF ClockInv, ClockType
  <2>8. sure' => ~pass'.busy /\ Valid(real')
    BY <2>1, <2>4
  <2>9. Valid(real') => Valid(real)'
    BY DEF Valid
  <2>10. Total(real, millies + lag)' = due'
    BY <1>1, <2>1
  <2>11. pass'.busy => pass'.lag <= lag'
    BY <1>1, <2>4 DEF ClockInv, TimeInv
  <2> QED BY <2>7, <2>8, <2>9, <2>10, <2>11 DEF ClockInv, TimeInv
<1>3. CASE SetStack(accessor'.write)
  <2>1. /\ real' = real /\ pass' = pass /\ due' = due
        /\ sure' = (sure /\ "core0" \notin stray')
    BY <1>3 DEF SetStack
  <2>2. sure' \in BOOLEAN /\ (sure' => sure)
    BY <2>1, Zenon
  <2>3. ClockType'
    BY <1>1, <2>1, <2>2 DEF ClockInv, ClockType
  <2>4. TimeInv'
    BY <1>1, <2>1, <2>2 DEF ClockInv, TimeInv
  <2> QED BY <2>3, <2>4 DEF ClockInv
<1>4. CASE SetElsewhere(accessor'.write)
  <2>1. real' = real /\ pass' = pass /\ due' = due /\ sure' = sure
    BY <1>4 DEF SetElsewhere
  <2>2. ClockType'
    BY <1>1, <2>1 DEF ClockInv, ClockType
  <2>3. TimeInv'
    BY <1>1, <2>1 DEF ClockInv, TimeInv
  <2> QED BY <2>2, <2>3 DEF ClockInv
<1> QED BY <1>1, <1>2, <1>3, <1>4

LEMMA LoadClock ==
  ASSUME ClockInv, ProcessLoad
  PROVE  ClockInv'
<1>1. /\ real' = real /\ latch' = latch /\ millies' = millies /\ lag' = lag
      /\ oldHalt' = oldHalt /\ due' = due /\ sure' = sure /\ pass' = Loaded
  BY DEF ProcessLoad
<1>2. /\ pass' \in [busy : BOOLEAN, regs : Regs, lag : Nat, hit : SUBSET (0 .. Status)]
      /\ pass'.regs = real /\ pass'.hit = {} /\ pass'.lag = lag
  BY <1>1 DEF Loaded, ClockInv, ClockType
<1>3. ClockType'
  BY <1>1, <1>2 DEF ClockInv, ClockType
<1>4. lag <= lag
  BY DEF ClockInv, ClockType
<1>5. TimeInv'
  BY <1>1, <1>2, <1>4 DEF ClockInv, TimeInv
<1> QED BY <1>3, <1>5 DEF ClockInv

LEMMA TickClock ==
  ASSUME ClockInv, Tick
  PROVE  ClockInv'
<1>1. /\ real' = real /\ latch' = latch /\ millies' = millies /\ lag' = lag + 1
      /\ oldHalt' = oldHalt /\ due' = (due + 1) % (Cycle * Millis) /\ sure' = sure /\ pass' = pass
  BY DEF Tick
<1>2. /\ real \in Regs /\ millies \in Nat /\ lag \in Nat /\ due \in Nat
      /\ millies + lag \in Nat
  BY RadixTypes, CycleTypes DEF ClockInv, ClockType
<1>3. due' \in 0 .. (Cycle * Millis) - 1
  <2>1. \A x \in Nat, y \in Nat \ {0} : x % y \in 0 .. y - 1
    OBVIOUS
  <2>2. due + 1 \in Nat
    BY <1>2
  <2> QED BY <1>1, <2>1, <2>2, CycleTypes
<1>4. ClockType'
  BY <1>1, <1>2, <1>3 DEF ClockInv, ClockType
<1>5. Total(real, millies + lag)' = (Total(real, millies + lag) + 1) % (Cycle * Millis)
  <2>1. Total(real, (millies + lag) + 1) = (Total(real, millies + lag) + 1) % (Cycle * Millis)
    BY <1>2, TotalAdds
  <2>2. millies' + lag' = (millies + lag) + 1
    BY <1>1, <1>2
  <2> QED BY <1>1, <2>1, <2>2
<1>6. pass.lag \in Nat /\ (pass.lag <= lag => pass.lag <= lag + 1)
  BY <1>2 DEF ClockInv, ClockType
<1>7. TimeInv'
  BY <1>1, <1>5, <1>6 DEF ClockInv, TimeInv
<1> QED BY <1>4, <1>7 DEF ClockInv

\* A call of process.  Falling behind, it takes one millisecond; a second it
\* completes is on the registers; after a halt what lies behind is dropped.
LEMMA StoreClock ==
  ASSUME ClockInv, ProcessStore
  PROVE  ClockInv'
<1> DEFINE running == ~IsHalt(pass.regs)
           resumed == oldHalt /\ running
           behind  == IF resumed THEN 0 ELSE pass.lag
           milli   == IF running /\ behind > 1 THEN 1 ELSE 0
           second  == running /\ millies + milli >= Millis
           stepped == IF second THEN process_tick(pass.regs) ELSE pass.regs
           regs    == Masked(stepped)
<1>1. /\ pass.busy /\ pass' = Idle /\ oldHalt' = ~running
      /\ lag' = (lag - pass.lag) + behind - milli
      /\ millies' = IF second THEN 0 ELSE millies + milli
      /\ \E kept \in SUBSET pass.hit : real' = Merge(regs, kept)
      /\ due' = IF resumed THEN Total(pass.regs, millies + lag - pass.lag) ELSE due
      /\ latch' = latch /\ sure' = sure
  BY DEF ProcessStore
<1>2. /\ real \in Regs /\ pass.regs \in Regs /\ pass.lag \in Nat /\ lag \in Nat
      /\ millies \in Nat /\ millies < Millis /\ Millis \in Nat
      /\ pass.lag <= lag /\ pass.hit \in SUBSET (0 .. Status) /\ due \in 0 .. (Cycle * Millis) - 1
  BY <1>1, RadixTypes DEF ClockInv, ClockType, TimeInv
<1>3. PICK kept \in SUBSET pass.hit : real' = Merge(regs, kept)
  BY <1>1
<1>4. stepped \in Regs /\ (IsHalt(stepped) <=> IsHalt(pass.regs))
  BY <1>2, TickType
<1>5. regs \in Regs /\ (IsHalt(regs) <=> IsHalt(pass.regs)) /\ (Valid(stepped) => regs = stepped)
  <2> HIDE DEF stepped
  <2> QED BY <1>4, MaskedIs
<1> HIDE DEF regs
<1>6. real' \in Regs /\ (kept = {} => real' = regs)
  <2>1. kept \in SUBSET (0 .. Status)
    BY <1>2
  <2> QED BY <1>2, <1>3, <1>5, <2>1, MergeIs
<1>7. milli \in {0, 1} /\ behind \in Nat /\ behind <= pass.lag /\ (milli = 1 => running /\ behind > 1)
  BY <1>2
<1>8. (lag - pass.lag) + behind - milli \in Nat
  <2> HIDE DEF milli, behind
  <2> QED BY <1>2, <1>7
<1>9. second => milli = 1 /\ millies + 1 = Millis /\ running /\ ~resumed
  <2>1. second => running /\ (millies + 1 >= Millis \/ millies >= Millis)
    BY <1>2
  <2> QED BY <1>2
<1>10. millies' \in 0 .. Millis - 1
  <2>1. CASE second
    BY <1>1, <1>2, <2>1
  <2>2. CASE ~second
    <3>1. ~(millies + milli >= Millis)
      BY <1>2, <2>2
    <3> HIDE DEF milli, second
    <3> QED BY <1>1, <1>2, <1>7, <2>2, <3>1
  <2> QED BY <2>1, <2>2
<1>11. due' \in 0 .. (Cycle * Millis) - 1
  <2>1. CASE resumed
    <3>1. millies + lag - pass.lag \in Nat
      BY <1>2
    <3> QED BY <1>1, <1>2, <2>1, <3>1, TotalType
  <2>2. CASE ~resumed
    BY <1>1, <1>2, <2>2
  <2> QED BY <2>1, <2>2
<1>12. ClockType'
  <2>1. oldHalt' \in BOOLEAN /\ sure' \in BOOLEAN /\ latch' \in Regs /\ lag' \in Nat
    BY <1>1, <1>8 DEF ClockInv, ClockType
  <2>2. pass' \in [busy : BOOLEAN, regs : Regs, lag : Nat, hit : SUBSET (0 .. Status)]
    BY <1>1, IdleType
  <2> QED BY <1>6, <1>10, <1>11, <2>1, <2>2 DEF ClockType
<1>13. ASSUME sure
       PROVE  /\ Valid(stepped) /\ real' = stepped /\ pass.regs = real
  <2>1. pass.regs = real /\ kept = {} /\ Valid(real)
    BY <1>1, <1>13 DEF ClockInv, TimeInv
  <2>2. Valid(stepped)
    BY <1>2, <2>1, TickSeconds
  <2> QED BY <1>5, <1>6, <2>1, <2>2
<1>14. ASSUME sure, running PROVE Total(real', millies' + lag') = due'
  <2>1. ~IsHalt(real) /\ pass.regs = real /\ real' = stepped /\ Valid(real)
    BY <1>1, <1>13, <1>14 DEF ClockInv, TimeInv
  <2>2. CASE resumed
    <3>1. ~second /\ milli = 0 /\ behind = 0
      BY <1>2, <2>2
    <3>2. real' = pass.regs
      BY <2>1, <3>1
    <3>3. lag' = lag - pass.lag /\ millies' = millies
      BY <1>1, <1>2, <3>1
    <3>4. millies' + lag' = millies + lag - pass.lag
      BY <1>2, <3>3
    <3>5. due' = Total(pass.regs, millies + lag - pass.lag)
      BY <1>1, <2>2
    <3> QED BY <3>2, <3>4, <3>5
  <2>3. CASE ~resumed
    <3>1. Total(real, millies + lag) = due
      BY <1>14, <2>1, <2>3 DEF ClockInv, TimeInv
    <3>2. due' = due /\ behind = pass.lag
      BY <1>1, <2>3
    <3>3. lag' = lag - milli
      <4> HIDE DEF behind, milli
      <4> QED BY <1>1, <1>2, <1>7, <3>2
    <3>4. CASE second
      <4>1. lag' = lag - 1 /\ millies' = 0 /\ millies + 1 = Millis /\ lag' \in Nat
        BY <1>1, <1>8, <1>9, <3>3, <3>4
      <4>2. real' = process_tick(real)
        BY <2>1, <3>4
      <4>3. Total(process_tick(real), lag') = Total(real, lag' + Millis)
        BY <1>2, <2>1, <4>1, TickTotal
      <4>4. lag' + Millis = millies + lag /\ millies' + lag' = lag'
        BY <1>2, <4>1
      <4> QED BY <3>1, <3>2, <4>2, <4>3, <4>4
    <3>5. CASE ~second
      <4>1. real' = real /\ millies' = millies + milli
        BY <1>1, <2>1, <3>5
      <4>2. millies' + lag' = millies + lag
        <5> HIDE DEF milli, second
        <5> QED BY <1>2, <1>7, <3>3, <4>1
      <4> QED BY <3>1, <3>2, <4>1, <4>2
    <3> QED BY <3>4, <3>5
  <2> QED BY <2>2, <2>3
<1>15. TimeInv'
  <2>1. ~pass'.busy
    BY <1>1 DEF Idle
  <2>2. sure' => Valid(real)'
    BY <1>1, <1>13 DEF Valid
  <2>3. sure' /\ ~IsHalt(real)' => sure /\ running
    BY <1>1, <1>4, <1>13 DEF IsHalt
  <2>4. sure' /\ ~IsHalt(real)' => Total(real, millies + lag)' = due'
    BY <1>14, <2>3
  <2> QED BY <2>1, <2>2, <2>4 DEF TimeInv
<1> QED BY <1>12, <1>15 DEF ClockInv

LEMMA ClockStep == ClockInv /\ [Next]_vars => ClockInv'
<1> SUFFICES ASSUME ClockInv, [Next]_vars PROVE ClockInv'
  OBVIOUS
<1>1. ASSUME UNCHANGED clockVars PROVE ClockInv'
  <2>1. ClockType'
    BY <1>1 DEF ClockInv, ClockType, clockVars
  <2>2. TimeInv'
    BY <1>1 DEF ClockInv, TimeInv, clockVars
  <2> QED BY <2>1, <2>2 DEF ClockInv
<1>2. CASE \E write \in Writes[kind] : MapperWrite(write[1], write[2])
  BY <1>2, MapperWriteClock
<1>3. CASE \E offset \in Offsets : SramRead(offset) \/ RomRead(offset)
  BY <1>1, <1>3 DEF SramRead, RomRead
<1>4. CASE \E offset \in Offsets, byte \in Bytes : SramWrite(offset, byte)
  BY <1>4, SramWriteClock
<1>5. CASE ProcessLoad
  BY <1>5, LoadClock
<1>6. CASE ProcessStore
  BY <1>6, StoreClock
<1>7. CASE Tick
  BY <1>7, TickClock
<1>8. CASE UNCHANGED vars
  BY <1>1, <1>8 DEF vars
<1> QED BY <1>2, <1>3, <1>4, <1>5, <1>6, <1>7, <1>8 DEF Next, Game

\* The clock loses no millisecond and gains none.
THEOREM ClockKeepsTime == Spec => []KeepsTime
<1>1. ClockInv => KeepsTime
  BY DEF ClockInv, TimeInv, KeepsTime
<1> QED BY <1>1, InitClockInv, ClockStep, PTL DEF Spec

-----------------------------------------------------------------------------

\* Edits of the mapper's record.

\* A write to the enable register changes two fields and keeps the record typed
Enabling(n, e, g) == [n EXCEPT !.enabled = e, !.gate = g]

LEMMA EnableEdit ==
  ASSUME NEW n \in Mapper, NEW e \in BOOLEAN, NEW g \in {"ram", "rtc", "off"}
  PROVE  LET new == Enabling(n, e, g)
         IN
         /\ new \in Mapper
         /\ new.enabled = e /\ new.gate = g
         /\ new.rom = n.rom /\ new.bank = n.bank /\ new.ram = n.ram
<1> DEFINE half == [n EXCEPT !.enabled = e]
           new == Enabling(n, e, g)
<1>1. half \in Mapper
  BY DEF Mapper
<1>2. new = [half EXCEPT !.gate = g]
  BY DEF Mapper, Enabling
<1>3. /\ half.enabled = e /\ half.rom = n.rom /\ half.bank = n.bank /\ half.ram = n.ram
  BY DEF Mapper
<1> HIDE DEF half, new
<1>4. new \in Mapper
  BY <1>1, <1>2 DEF Mapper
<1>5. new.gate = g /\ new.enabled = half.enabled
  BY <1>1, <1>2 DEF Mapper
<1>6. new.rom = half.rom /\ new.bank = half.bank /\ new.ram = half.ram
  BY <1>1, <1>2 DEF Mapper
<1> QED BY <1>3, <1>4, <1>5, <1>6 DEF new

\* So does a write to the register that selects a bank of SRAM
Banking(n, b, r, g) == [n EXCEPT !.bank = b, !.ram = r, !.gate = g]

LEMMA BankEdit ==
  ASSUME NEW n \in Mapper, NEW b, NEW r, {b, r} \subseteq Nat, NEW g \in {"ram", "rtc", "off"}
  PROVE  LET new == Banking(n, b, r, g)
         IN
         /\ new \in Mapper
         /\ new.bank = b /\ new.ram = r /\ new.gate = g
         /\ new.rom = n.rom /\ new.enabled = n.enabled
<1> DEFINE half == [n EXCEPT !.bank = b, !.ram = r]
           new == Banking(n, b, r, g)
<1>1. half \in Mapper
  BY DEF Mapper
<1>2. new = [half EXCEPT !.gate = g]
  BY DEF Mapper, Banking
<1>3. half.bank = b /\ half.ram = r /\ half.rom = n.rom /\ half.enabled = n.enabled
  BY DEF Mapper
<1> HIDE DEF half, new
<1>4. new \in Mapper
  BY <1>1, <1>2 DEF Mapper
<1>5. new.gate = g /\ new.bank = half.bank /\ new.ram = half.ram
  BY <1>1, <1>2 DEF Mapper
<1>6. new.rom = half.rom /\ new.enabled = half.enabled
  BY <1>1, <1>2 DEF Mapper
<1> QED BY <1>3, <1>4, <1>5, <1>6 DEF new
USE CartridgeAssumption


-----------------------------------------------------------------------------
(* What a block makes of the accessor                                      *)

Accessor(c, r, w) == [chain |-> c, read |-> r, write |-> w]
IsAccessor(a) == a = Accessor(a.chain, a.read, a.write)

LEMMA ExecuteChain ==
  ASSUME NEW c, NEW r, NEW w, NEW v, NEW x
  PROVE  Execute(Accessor(c, r, w), Set(v, "chain"), x) = Accessor(v, r, w)
BY DEF Execute, Set, Accessor

LEMMA ExecuteNothing ==
  ASSUME NEW c, NEW r, NEW w, NEW v, NEW x
  PROVE  Execute(Accessor(c, r, w), Set(v, "devnull"), x) = Accessor(c, r, w)
BY DEF Execute, Set, Accessor

LEMMA SetRead ==
  ASSUME NEW c, NEW r, NEW w, NEW v, NEW x, NEW y, Value(v, x) = y
  PROVE  Execute(Accessor(c, r, w), Set(v, "read"), x) = Accessor(c, y, w)
BY DEF Execute, Set, Accessor

LEMMA OrRead ==
  ASSUME NEW c, NEW r, NEW w, NEW v, NEW x, NEW y, Value(v, x) = y
  PROVE  Execute(Accessor(c, r, w), Or(v, "read"), x) = Accessor(c, r \cup y, w)
BY DEF Execute, Or, Accessor

LEMMA SetWrite ==
  ASSUME NEW c, NEW r, NEW w, NEW v, NEW x, NEW y, Value(v, x) = y
  PROVE  Execute(Accessor(c, r, w), Set(v, "write"), x) = Accessor(c, r, y)
BY DEF Execute, Set, Accessor

LEMMA OrWrite ==
  ASSUME NEW c, NEW r, NEW w, NEW v, NEW x, NEW y, Value(v, x) = y
  PROVE  Execute(Accessor(c, r, w), Or(v, "write"), x) = Accessor(c, r, w \cup y)
BY DEF Execute, Or, Accessor

LEMMA Values ==
  ASSUME NEW x
  PROVE  /\ Value("tx", x) = TxFifo /\ Value("rx", x) = RxFifo /\ Value("devnull", x) = DevNull
         /\ Value("fifo", x) = At("offset", x.offset) /\ Value("base", x) = x.base
         /\ Value("latch", x) = x.latch /\ Value("real", x) = x.real
BY DEF Value

LEMMA BlockIsFour ==
  ASSUME NEW a, NEW b, NEW c, NEW d, NEW accs, NEW x
  PROVE  RunBlock(<<a, b, c, d>>, accs, x)
           = Execute(Execute(Execute(Execute(accs, a, x), b, x), c, x), d, x)
BY DEF RunBlock

\* The block for each kind of read, whatever the accessor did before.
LEMMA ReadBlocks ==
  ASSUME NEW a, IsAccessor(a), NEW x
  PROVE  /\ RunBlock(Blocks["ram"].read, a, x)
              = Accessor("reader", At("offset", x.offset) \cup x.base, TxFifo)
         /\ RunBlock(Blocks["off"].read, a, x)
              = Accessor("reader", At("offset", x.offset) \cup x.base, DevNull)
         /\ RunBlock(Blocks["rtc"].read, a, x) = Accessor("reader", x.latch, TxFifo)
<1> DEFINE A == Accessor(a.chain, a.read, a.write)
<1>0. a = A
  BY DEF IsAccessor
<1>1. RunBlock(ramRead, A, x) = Accessor("reader", At("offset", x.offset) \cup x.base, TxFifo)
  <2>1. RunBlock(ramRead, A, x) =
          Execute(Execute(Execute(Execute(A, Set("reader", "chain"), x), Set("tx", "write"), x),
                  Set("fifo", "read"), x), Or("base", "read"), x)
    BY BlockIsFour DEF ramRead
  <2>2. Execute(Accessor(a.chain, a.read, a.write), Set("reader", "chain"), x)
          = Accessor("reader", a.read, a.write)
    BY ExecuteChain
  <2>3. Execute(Accessor("reader", a.read, a.write), Set("tx", "write"), x)
          = Accessor("reader", a.read, TxFifo)
    BY SetWrite, Values
  <2>4. Execute(Accessor("reader", a.read, TxFifo), Set("fifo", "read"), x)
          = Accessor("reader", At("offset", x.offset), TxFifo)
    BY SetRead, Values
  <2>5. Execute(Accessor("reader", At("offset", x.offset), TxFifo), Or("base", "read"), x)
          = Accessor("reader", At("offset", x.offset) \cup x.base, TxFifo)
    BY OrRead, Values
  <2> QED BY <2>1, <2>2, <2>3, <2>4, <2>5
<1>2. RunBlock(ramDisabledRead, A, x) = Accessor("reader", At("offset", x.offset) \cup x.base, DevNull)
  <2>1. RunBlock(ramDisabledRead, A, x) =
          Execute(Execute(Execute(Execute(A, Set("reader", "chain"), x), Set("devnull", "write"), x),
                  Set("fifo", "read"), x), Or("base", "read"), x)
    BY BlockIsFour DEF ramDisabledRead
  <2>2. Execute(Accessor(a.chain, a.read, a.write), Set("reader", "chain"), x)
          = Accessor("reader", a.read, a.write)
    BY ExecuteChain
  <2>3. Execute(Accessor("reader", a.read, a.write), Set("devnull", "write"), x)
          = Accessor("reader", a.read, DevNull)
    BY SetWrite, Values
  <2>4. Execute(Accessor("reader", a.read, DevNull), Set("fifo", "read"), x)
          = Accessor("reader", At("offset", x.offset), DevNull)
    BY SetRead, Values
  <2>5. Execute(Accessor("reader", At("offset", x.offset), DevNull), Or("base", "read"), x)
          = Accessor("reader", At("offset", x.offset) \cup x.base, DevNull)
    BY OrRead, Values
  <2> QED BY <2>1, <2>2, <2>3, <2>4, <2>5
<1>3. RunBlock(rtcRead, A, x) = Accessor("reader", x.latch, TxFifo)
  <2>1. RunBlock(rtcRead, A, x) =
          Execute(Execute(Execute(Execute(A, Set("reader", "chain"), x), Set("tx", "write"), x),
                  Set("fifo", "devnull"), x), Set("latch", "read"), x)
    BY BlockIsFour DEF rtcRead
  <2>2. Execute(Accessor(a.chain, a.read, a.write), Set("reader", "chain"), x)
          = Accessor("reader", a.read, a.write)
    BY ExecuteChain
  <2>3. Execute(Accessor("reader", a.read, a.write), Set("tx", "write"), x)
          = Accessor("reader", a.read, TxFifo)
    BY SetWrite, Values
  <2>4. Execute(Accessor("reader", a.read, TxFifo), Set("fifo", "devnull"), x)
          = Accessor("reader", a.read, TxFifo)
    BY ExecuteNothing
  <2>5. Execute(Accessor("reader", a.read, TxFifo), Set("latch", "read"), x)
          = Accessor("reader", x.latch, TxFifo)
    BY SetRead, Values
  <2> QED BY <2>1, <2>2, <2>3, <2>4, <2>5
<1>4. Blocks["ram"].read = ramRead /\ Blocks["off"].read = ramDisabledRead /\ Blocks["rtc"].read = rtcRead
  BY DEF Blocks
<1> QED BY <1>0, <1>1, <1>2, <1>3, <1>4

\* The blocks of the writes; the one while access is off adds to the address.
LEMMA WriteBlocks ==
  ASSUME NEW a, IsAccessor(a), NEW x
  PROVE  /\ RunBlock(Blocks["ram"].write, a, x)
              = Accessor("writer", RxFifo, At("offset", x.offset) \cup x.base)
         /\ RunBlock(Blocks["off"].write, a, x)
              = Accessor("writer", RxFifo, a.write \cup DevNull)
         /\ RunBlock(Blocks["rtc"].write, a, x) = Accessor("writer", RxFifo, x.real)
<1> DEFINE A == Accessor(a.chain, a.read, a.write)
<1>0. a = A
  BY DEF IsAccessor
<1>1. RunBlock(ramWrite, A, x) = Accessor("writer", RxFifo, At("offset", x.offset) \cup x.base)
  <2>1. RunBlock(ramWrite, A, x) =
          Execute(Execute(Execute(Execute(A, Set("writer", "chain"), x),
                  Set("fifo", "write"), x), Or("base", "write"), x), Set("rx", "read"), x)
    BY BlockIsFour DEF ramWrite
  <2>2. Execute(Accessor(a.chain, a.read, a.write), Set("writer", "chain"), x)
          = Accessor("writer", a.read, a.write)
    BY ExecuteChain
  <2>3. Execute(Accessor("writer", a.read, a.write), Set("fifo", "write"), x)
          = Accessor("writer", a.read, At("offset", x.offset))
    BY SetWrite, Values
  <2>4. Execute(Accessor("writer", a.read, At("offset", x.offset)), Or("base", "write"), x)
          = Accessor("writer", a.read, At("offset", x.offset) \cup x.base)
    BY OrWrite, Values
  <2>5. Execute(Accessor("writer", a.read, At("offset", x.offset) \cup x.base), Set("rx", "read"), x)
          = Accessor("writer", RxFifo, At("offset", x.offset) \cup x.base)
    BY SetRead, Values
  <2> QED BY <2>1, <2>2, <2>3, <2>4, <2>5
<1>2. RunBlock(ramDisabledWrite, A, x) = Accessor("writer", RxFifo, a.write \cup DevNull)
  <2>1. RunBlock(ramDisabledWrite, A, x) =
          Execute(Execute(Execute(Execute(A, Set("writer", "chain"), x),
                  Set("fifo", "devnull"), x), Or("devnull", "write"), x), Set("rx", "read"), x)
    BY BlockIsFour DEF ramDisabledWrite
  <2>2. Execute(Accessor(a.chain, a.read, a.write), Set("writer", "chain"), x)
          = Accessor("writer", a.read, a.write)
    BY ExecuteChain
  <2>3. Execute(Accessor("writer", a.read, a.write), Set("fifo", "devnull"), x)
          = Accessor("writer", a.read, a.write)
    BY ExecuteNothing
  <2>4. Execute(Accessor("writer", a.read, a.write), Or("devnull", "write"), x)
          = Accessor("writer", a.read, a.write \cup DevNull)
    BY OrWrite, Values
  <2>5. Execute(Accessor("writer", a.read, a.write \cup DevNull), Set("rx", "read"), x)
          = Accessor("writer", RxFifo, a.write \cup DevNull)
    BY SetRead, Values
  <2> QED BY <2>1, <2>2, <2>3, <2>4, <2>5
<1>3. RunBlock(rtcWrite, A, x) = Accessor("writer", RxFifo, x.real)
  <2>1. RunBlock(rtcWrite, A, x) =
          Execute(Execute(Execute(Execute(A, Set("writer", "chain"), x),
                  Set("fifo", "devnull"), x), Set("real", "write"), x), Set("rx", "read"), x)
    BY BlockIsFour DEF rtcWrite
  <2>2. Execute(Accessor(a.chain, a.read, a.write), Set("writer", "chain"), x)
          = Accessor("writer", a.read, a.write)
    BY ExecuteChain
  <2>3. Execute(Accessor("writer", a.read, a.write), Set("fifo", "devnull"), x)
          = Accessor("writer", a.read, a.write)
    BY ExecuteNothing
  <2>4. Execute(Accessor("writer", a.read, a.write), Set("real", "write"), x)
          = Accessor("writer", a.read, x.real)
    BY SetWrite, Values
  <2>5. Execute(Accessor("writer", a.read, x.real), Set("rx", "read"), x)
          = Accessor("writer", RxFifo, x.real)
    BY SetRead, Values
  <2> QED BY <2>1, <2>2, <2>3, <2>4, <2>5
<1>4. Blocks["ram"].write = ramWrite /\ Blocks["off"].write = ramDisabledWrite
      /\ Blocks["rtc"].write = rtcWrite
  BY DEF Blocks
<1> QED BY <1>0, <1>1, <1>2, <1>3, <1>4

-----------------------------------------------------------------------------
(* The mapper has what the game has said                                   *)

Byte == 0 .. 255
Said == [open : BOOLEAN, low : Byte, up : Byte, high : Byte, bank : Byte, mode : {0, 1},
         moved : BOOLEAN]

Mbc1Agrees ==
  /\ m.low = AtLeastOne(said.low % 32) /\ m.high = said.high % 4 /\ m.mode = said.mode
  /\ m.ram = said.bank % 4 /\ m.rom = AimedRom
  /\ m.gate = IF said.open THEN "ram" ELSE "off"

Mbc3Agrees ==
  /\ m.rom = AimedRom /\ m.enabled = said.open
  /\ SelectsClock(m.bank) <=> AimsAtClock
  /\ ~AimsAtClock => m.ram = said.bank % 8
  /\ AimsAtClock /\ said.bank % 8 <= Status =>
       ptr = [latch |-> At("latch", said.bank % 8), real |-> At("real", said.bank % 8)]
  /\ m.gate = IF ~said.open THEN "off" ELSE IF AimsAtClock THEN "rtc" ELSE "ram"

\* The register starts at 1 and the pointer at 0: they agree from the first
\* bank on that is another.
Mbc5Agrees ==
  /\ m.rom = AimedRom
  /\ said.moved => m.bank = said.bank % 16 /\ m.ram = m.bank % 4
  /\ ~said.moved => m.bank = 1 /\ m.ram = 0 /\ (said.bank = 0 \/ said.bank % 16 = 1)
  /\ m.gate = IF said.open THEN "ram" ELSE "off"

Agrees ==
  /\ kind = "none" => m = NewMapper /\ ~said.open
  /\ kind = "mbc1" => Mbc1Agrees
  /\ kind = "mbc3" => Mbc3Agrees
  /\ kind = "mbc5" => Mbc5Agrees

\* Both requestors wait for an access, but the reader once a read has stored the
\* null pointer; the pointers are what they were at first until a register is chosen.
WaitInv ==
  /\ stray \subseteq {"read", "core0"}
  /\ armed = {"reader", "writer"} \ {r \in {"reader"} : "read" \in stray}
  /\ ptr.latch = Nothing => ptr = Dangling

ServedInv ==
  /\ kind \in Kinds
  /\ IsAccessor(accessor)
  /\ m \in Mapper /\ said \in Said
  /\ Agrees
  /\ WaitInv

LEMMA InitServed == Init => ServedInv
<1> SUFFICES ASSUME Init PROVE ServedInv
  OBVIOUS
<1>1. kind \in Kinds /\ m = NewMapper
  BY DEF Init
<1>a. WaitInv
  BY DEF Init, WaitInv
<1>2. IsAccessor(accessor)
  BY DEF Init, LastOfMenu, IsAccessor, Accessor
<1>3. said = [open |-> FALSE, low |-> 1, up |-> 0, high |-> 0, bank |-> 0, mode |-> 0, moved |-> FALSE]
  BY DEF Init
<1>4. m \in Mapper /\ said \in Said
  BY <1>1, <1>3 DEF NewMapper, Mapper, Said, Byte
<1>5. kind = "mbc1" => Mbc1Agrees
  BY <1>1, <1>3 DEF Mbc1Agrees, AimedRom, AtLeastOne, NewMapper
<1>6. kind = "mbc3" => Mbc3Agrees
  BY <1>1, <1>3 DEF Mbc3Agrees, AimedRom, AimsAtClock, SelectsClock, AtLeastOne, NewMapper
<1>7. kind = "mbc5" => Mbc5Agrees
  BY <1>1, <1>3 DEF Mbc5Agrees, AimedRom, NewMapper
<1> QED BY <1>a, <1>1, <1>2, <1>3, <1>4, <1>5, <1>6, <1>7 DEF ServedInv, Agrees

\* What the game says at a write
LEMMA SayTypes ==
  ASSUME said \in Said, NEW area \in 0 .. 7, NEW data \in Byte
  PROVE  Say(area, data) \in Said
<1>1. [said EXCEPT !.open = Enables(data)] \in Said
  BY Zenon DEF Said, Enables
<1>2. /\ [said EXCEPT !.low = data] \in Said /\ [said EXCEPT !.up = data] \in Said
      /\ [said EXCEPT !.high = data] \in Said
  BY DEF Said
<1>3. [said EXCEPT !.bank = data, !.moved = @ \/ data % 16 # 1] \in Said
  BY DEF Said
<1>4. [said EXCEPT !.mode = data % 2] \in Said
  BY DEF Said, Byte
<1> QED BY <1>1, <1>2, <1>3, <1>4 DEF Say

LEMMA EnablesType == \A data : Enables(data) \in BOOLEAN
BY Zenon DEF Enables

LEMMA Mbc1Step ==
  ASSUME ServedInv, kind = "mbc1", kind' = kind,
         NEW area \in {0, 2, 4, 6}, NEW data \in Byte,
         m' = Mbc1Write(m, area, data), said' = Say(area, data)
  PROVE  m' \in Mapper /\ Mbc1Agrees'
<1> DEFINE new == Mbc1Area(m, area, data)
<1>0. m \in Mapper /\ said \in Said /\ Mbc1Agrees
  BY DEF ServedInv, Agrees
<1>a. said' \in Said
  BY <1>0, SayTypes
<1>1. new \in Mapper
  <2>1. CASE area = 0
    <3> DEFINE gate == IF Enables(data) THEN "ram" ELSE "off"
    <3>1. Mbc1Area(m, area, data) = [m EXCEPT !.enabled = Enables(data), !.gate = gate]
      BY <2>1 DEF Mbc1Area
    <3>2. gate \in {"ram", "rtc", "off"}
      OBVIOUS
    <3>3. Enables(data) \in BOOLEAN
      BY EnablesType
    <3>4. Mbc1Area(m, area, data) = Enabling(m, Enables(data), gate)
      BY <3>1 DEF Enabling
    <3> HIDE DEF gate
    <3> QED BY <1>0, <3>2, <3>3, <3>4, EnableEdit
  <2>2. CASE area = 2
    BY <1>0, <2>2 DEF Mbc1Area, Mapper, AtLeastOne, Byte
  <2>3. CASE area = 4
    BY <1>0, <2>3 DEF Mbc1Area, Mapper, Byte
  <2>4. CASE area = 6
    BY <1>0, <2>4 DEF Mbc1Area, Mapper, Byte
  <2> QED BY <2>1, <2>2, <2>3, <2>4
<1>2. /\ new.low = AtLeastOne(said'.low % 32) /\ new.high = said'.high % 4 /\ new.mode = said'.mode
      /\ new.ram = said'.bank % 4
      /\ new.gate = IF said'.open THEN "ram" ELSE "off"
  BY <1>0 DEF Mbc1Area, Mapper, Say, Said, Byte, Mbc1Agrees
<1>3. Mbc1Rom(new) = AimedRom' /\ Mbc1Rom(new) \in Nat
  <2>1. PICK h \in 0 .. 3, q \in Nat : said'.high = (4 * q) + h /\ said'.high % 4 = h
    <3>1. said'.high \in 0 .. 255
      BY <1>a DEF Said, Byte
    <3>2. /\ said'.high = (4 * (said'.high \div 4)) + (said'.high % 4)
          /\ said'.high \div 4 \in Nat /\ said'.high % 4 \in 0 .. 3
      BY <3>1
    <3> QED BY <3>2
  <2>2. PICK l \in 0 .. 31 : l = AtLeastOne(said'.low % 32)
    <3>1. said'.low \in 0 .. 255
      BY <1>a DEF Said, Byte
    <3>2. said'.low % 32 \in 0 .. 31
      BY <3>1
    <3> QED BY <3>2 DEF AtLeastOne
  <2>3. AimedRom' = (l + (IF said'.mode = 0 THEN 32 * said'.high ELSE 0)) % 64
    BY <2>2 DEF AimedRom
  <2>4. Mbc1Rom(new) = IF said'.mode = 0 THEN ((h * 32) + l) % 64 ELSE l % 64
    BY <1>2, <2>1, <2>2 DEF Mbc1Rom
  <2>5. (l + (32 * said'.high)) % 64 = ((h * 32) + l) % 64
    BY <2>1, <2>2
  <2> QED BY <2>2, <2>3, <2>4, <2>5
<1>4. m' = [new EXCEPT !.rom = Mbc1Rom(new)]
  BY DEF Mbc1Write
<1> HIDE DEF new
<1> QED BY <1>1, <1>2, <1>3, <1>4 DEF Mbc1Agrees, Mapper

LEMMA Mbc3Step ==
  ASSUME ServedInv, kind = "mbc3", kind' = kind,
         NEW area \in {0, 2, 4, 6}, NEW data \in Byte,
         m' = Mbc3Write(m, area, data), said' = Say(area, data), ptr' = Activated(area, data)
  PROVE  m' \in Mapper /\ Mbc3Agrees'
<1>0. m \in Mapper /\ said \in Said /\ Mbc3Agrees
  BY DEF ServedInv, Agrees
<1>1. CASE area = 0
  <2> DEFINE gate == Mbc3Gate(Enables(data), m.bank)
  <2>1. m' = [m EXCEPT !.enabled = Enables(data), !.gate = gate]
    BY <1>1 DEF Mbc3Write
  <2>2. gate = IF ~Enables(data) THEN "off" ELSE IF AimsAtClock THEN "rtc" ELSE "ram"
    BY <1>0 DEF Mbc3Agrees, Mbc3Gate
  <2>3. said' = [said EXCEPT !.open = Enables(data)] /\ ptr' = ptr
    BY <1>1 DEF Say, Activated, Activates
  <2>4. said'.open = Enables(data) /\ said'.bank = said.bank /\ said'.low = said.low
    BY <1>0, <2>3 DEF Said
  <2> HIDE DEF gate
  <2>5. gate \in {"ram", "rtc", "off"}
    BY <2>2
  <2>6. /\ m' \in Mapper
        /\ m'.enabled = Enables(data) /\ m'.gate = gate
        /\ m'.rom = m.rom /\ m'.bank = m.bank /\ m'.ram = m.ram
    <3>1. Enables(data) \in BOOLEAN
      BY EnablesType
    <3>2. m' = Enabling(m, Enables(data), gate)
      BY <2>1 DEF Enabling
    <3> QED BY <1>0, <2>5, <3>1, <3>2, EnableEdit
  <2>7. AimedRom' = AimedRom /\ AimsAtClock' = AimsAtClock
    BY <2>4 DEF AimedRom, AimsAtClock
  <2> QED BY <1>0, <2>2, <2>3, <2>4, <2>6, <2>7 DEF Mbc3Agrees
<1>2. CASE area = 2
  <2>1. m' = [m EXCEPT !.rom = AtLeastOne(data % 128)]
    BY <1>2 DEF Mbc3Write
  <2>2. said' = [said EXCEPT !.low = data] /\ ptr' = ptr
    BY <1>2 DEF Say, Activated, Activates
  <2>3. AtLeastOne(data % 128) \in Nat
    BY DEF AtLeastOne, Byte
  <2>4. m' \in Mapper /\ m'.rom = AtLeastOne(data % 128) /\ m'.enabled = m.enabled
        /\ m'.gate = m.gate /\ m'.bank = m.bank /\ m'.ram = m.ram
    BY <1>0, <2>1, <2>3 DEF Mapper
  <2>5. said'.low = data /\ said'.open = said.open /\ said'.bank = said.bank
    BY <1>0, <2>2 DEF Said
  <2>6. AimedRom' = AtLeastOne(data % 128) /\ AimsAtClock' = AimsAtClock
    BY <2>5 DEF AimedRom, AimsAtClock
  <2> QED BY <1>0, <2>2, <2>4, <2>5, <2>6 DEF Mbc3Agrees
<1>3. CASE area = 4
  <2> DEFINE ram == IF SelectsClock(data) THEN m.ram ELSE data % 8
             gate == IF m.enabled THEN Mbc3Gate(TRUE, data) ELSE m.gate
  <2>1. m' = [m EXCEPT !.bank = data, !.ram = ram, !.gate = gate]
    BY <1>0, <1>3 DEF Mbc3Write, Mbc3Bank, Mapper
  <2>2. said' = [said EXCEPT !.bank = data, !.moved = @ \/ data % 16 # 1]
    BY <1>3 DEF Say
  <2>3. said'.low = said.low /\ said'.open = said.open /\ said'.bank = data
    BY <1>0, <2>2 DEF Said
  <2>4. AimedRom' = AimedRom /\ (AimsAtClock' <=> SelectsClock(data))
    BY <2>3 DEF AimedRom, AimsAtClock
  <2>5. gate = IF ~said.open THEN "off" ELSE IF SelectsClock(data) THEN "rtc" ELSE "ram"
    BY <1>0 DEF Mbc3Agrees, Mbc3Gate
  <2>6. ram \in Nat /\ data \in Nat /\ (~SelectsClock(data) => ram = data % 8)
    BY <1>0 DEF Byte, Mapper
  <2> HIDE DEF gate, ram
  <2>7. m' \in Mapper /\ m'.rom = m.rom /\ m'.enabled = m.enabled
        /\ m'.gate = gate /\ m'.bank = data /\ m'.ram = ram
    <3>1. gate \in {"ram", "rtc", "off"}
      BY <2>5
    <3>2. m' = Banking(m, data, ram, gate)
      BY <2>1 DEF Banking
    <3>3. m \in Mapper /\ data \in Nat /\ ram \in Nat
      BY <1>0, <2>6
    <3>4. LET new == Banking(m, data, ram, gate)
          IN  /\ new \in Mapper
              /\ new.bank = data /\ new.ram = ram /\ new.gate = gate
              /\ new.rom = m.rom /\ new.enabled = m.enabled
      BY <3>1, <3>3, BankEdit
    <3> QED BY <3>2, <3>4
  <2>8. SelectsClock(data) /\ data % 8 <= Status =>
          ptr' = [latch |-> At("latch", data % 8), real |-> At("real", data % 8)]
    BY <1>3 DEF Activated, Activates
  <2> QED BY <1>0, <2>3, <2>4, <2>5, <2>6, <2>7, <2>8 DEF Mbc3Agrees
<1>4. CASE area = 6
  <2>1. m' = [m EXCEPT !.latch = (data # 0)]
    BY <1>4 DEF Mbc3Write
  <2>2. said' = [said EXCEPT !.mode = data % 2] /\ ptr' = ptr
    BY <1>4 DEF Say, Activated, Activates
  <2>3. m' \in Mapper /\ m'.rom = m.rom /\ m'.enabled = m.enabled
        /\ m'.gate = m.gate /\ m'.bank = m.bank /\ m'.ram = m.ram
    <3> DEFINE on == (data # 0)
    <3>1. on \in BOOLEAN
      OBVIOUS
    <3>2. m' = [m EXCEPT !.latch = on]
      BY <2>1
    <3> HIDE DEF on
    <3>3. m' \in Mapper
      BY <1>0, <3>1, <3>2 DEF Mapper
    <3>4. m'.rom = m.rom /\ m'.enabled = m.enabled /\ m'.gate = m.gate
      BY <1>0, <3>2 DEF Mapper
    <3>5. m'.bank = m.bank /\ m'.ram = m.ram
      BY <1>0, <3>2 DEF Mapper
    <3> QED BY <3>3, <3>4, <3>5
  <2>4. said'.low = said.low /\ said'.open = said.open /\ said'.bank = said.bank
    BY <1>0, <2>2 DEF Said
  <2>5. AimedRom' = AimedRom /\ AimsAtClock' = AimsAtClock
    BY <2>4 DEF AimedRom, AimsAtClock
  <2> QED BY <1>0, <2>2, <2>3, <2>4, <2>5 DEF Mbc3Agrees
<1> QED BY <1>1, <1>2, <1>3, <1>4

LEMMA Mbc5Step ==
  ASSUME ServedInv, kind = "mbc5", kind' = kind,
         NEW area \in 0 .. 7, NEW data \in Byte,
         m' = Mbc5Write(m, area, data), said' = Say(area, data)
  PROVE  m' \in Mapper /\ Mbc5Agrees'
<1>0. m \in Mapper /\ said \in Said /\ Mbc5Agrees
  BY DEF ServedInv, Agrees
<1>a. /\ said.low \in 0 .. 255 /\ said.up \in 0 .. 255 /\ said.bank \in 0 .. 255
      /\ m.rom = said.low + (256 * (said.up % 2))
  BY <1>0 DEF Mbc5Agrees, AimedRom, Said, Byte
<1>1. CASE area \in {0, 1}
  <2> DEFINE gate == IF Enables(data) THEN "ram" ELSE "off"
  <2>1. m' = [m EXCEPT !.enabled = Enables(data), !.gate = gate]
    BY <1>1 DEF Mbc5Write
  <2>2. gate \in {"ram", "rtc", "off"}
    OBVIOUS
  <2>3. said' = [said EXCEPT !.open = Enables(data)]
    BY <1>1 DEF Say
  <2> HIDE DEF gate
  <2>4. m' \in Mapper /\ m'.rom = m.rom /\ m'.gate = gate /\ m'.bank = m.bank /\ m'.ram = m.ram
    <3>1. Enables(data) \in BOOLEAN
      BY EnablesType
    <3>2. m' = Enabling(m, Enables(data), gate)
      BY <2>1 DEF Enabling
    <3> QED BY <1>0, <2>2, <3>1, <3>2, EnableEdit
  <2>5. /\ said'.open = Enables(data) /\ said'.low = said.low /\ said'.up = said.up
        /\ said'.bank = said.bank /\ said'.moved = said.moved
    BY <1>0, <2>3 DEF Said
  <2>6. AimedRom' = AimedRom
    BY <2>5 DEF AimedRom
  <2> QED BY <1>0, <2>4, <2>5, <2>6 DEF Mbc5Agrees, gate
<1>2. CASE area \in {2, 3}
  <2> DEFINE rom == IF area = 2 THEN ((m.rom \div 256) * 256) + data
                   ELSE ((data % 2) * 256) + (m.rom % 256)
  <2>1. m' = [m EXCEPT !.rom = rom]
    BY <1>2 DEF Mbc5Write
  <2>2. said' = IF area = 2 THEN [said EXCEPT !.low = data] ELSE [said EXCEPT !.up = data]
    BY <1>2 DEF Say
  <2>3. /\ said'.low = (IF area = 2 THEN data ELSE said.low)
        /\ said'.up = (IF area = 3 THEN data ELSE said.up)
        /\ said'.open = said.open /\ said'.bank = said.bank /\ said'.moved = said.moved
    BY <1>0, <1>2, <2>2 DEF Said
  <2>4. data \in 0 .. 255 /\ said.up % 2 \in 0 .. 1
    BY <1>a DEF Byte
  <2>5. m.rom \div 256 = said.up % 2 /\ m.rom % 256 = said.low
    BY <1>a, <2>4
  <2>6. rom = AimedRom' /\ rom \in Nat
    <3>1. AimedRom' = said'.low + (256 * (said'.up % 2))
      BY DEF AimedRom
    <3>2. CASE area = 2
      BY <1>a, <2>3, <2>4, <2>5, <3>1, <3>2
    <3>3. CASE area = 3
      BY <1>a, <2>3, <2>4, <2>5, <3>1, <3>3
    <3> QED BY <1>2, <3>2, <3>3
  <2> HIDE DEF rom
  <2>7. m' \in Mapper /\ m'.rom = rom /\ m'.gate = m.gate /\ m'.bank = m.bank /\ m'.ram = m.ram
    BY <1>0, <2>1, <2>6 DEF Mapper
  <2> QED BY <1>0, <2>3, <2>6, <2>7 DEF Mbc5Agrees
<1>3. CASE area = 4
  <2> DEFINE ram == IF m.bank # data % 16 THEN data % 4 ELSE m.ram
  <2>1. m' = [m EXCEPT !.bank = data % 16, !.ram = ram]
    BY <1>0, <1>3 DEF Mbc5Write, Mbc5Bank, Mapper
  <2>2. said' = [said EXCEPT !.bank = data, !.moved = @ \/ data % 16 # 1]
    BY <1>3 DEF Say
  <2>3. /\ said'.low = said.low /\ said'.up = said.up /\ said'.open = said.open
        /\ said'.bank = data /\ said'.moved = (said.moved \/ data % 16 # 1)
    BY <1>0, <2>2 DEF Said
  <2>4. AimedRom' = AimedRom
    BY <2>3 DEF AimedRom
  <2>5. data % 16 \in Nat /\ data % 4 \in Nat /\ (data % 16) % 4 = data % 4
    BY DEF Byte
  <2>6. ram \in Nat
    BY <1>0, <2>5 DEF Mapper
  <2>7. said'.moved => ram = (data % 16) % 4
    BY <1>0, <2>3, <2>5 DEF Mbc5Agrees
  <2>8. ~said'.moved => data % 16 = 1 /\ ram = 0
    BY <1>0, <2>3 DEF Mbc5Agrees
  <2> HIDE DEF ram
  <2>9. m' \in Mapper /\ m'.rom = m.rom /\ m'.gate = m.gate /\ m'.bank = data % 16 /\ m'.ram = ram
    <3>1. m.gate \in {"ram", "rtc", "off"}
      BY <1>0 DEF Mapper
    <3>2. m' = [m EXCEPT !.bank = data % 16, !.ram = ram, !.gate = m.gate]
      BY <1>0, <2>1 DEF Mapper
    <3>3. m' = Banking(m, data % 16, ram, m.gate)
      BY <3>2 DEF Banking
    <3>4. m \in Mapper /\ data % 16 \in Nat /\ ram \in Nat
      BY <1>0, <2>5, <2>6
    <3>5. LET new == Banking(m, data % 16, ram, m.gate)
          IN  /\ new \in Mapper
              /\ new.bank = data % 16 /\ new.ram = ram /\ new.gate = m.gate
              /\ new.rom = m.rom
      BY <3>1, <3>4, BankEdit
    <3> QED BY <3>3, <3>5
  <2> QED BY <1>0, <2>3, <2>4, <2>7, <2>8, <2>9 DEF Mbc5Agrees
<1>4. CASE area \in 5 .. 7
  <2>1. m' = m
    BY <1>4 DEF Mbc5Write
  <2>2. said' = [said EXCEPT !.mode = data % 2]
    BY <1>4 DEF Say
  <2>3. /\ said'.low = said.low /\ said'.up = said.up /\ said'.open = said.open
        /\ said'.bank = said.bank /\ said'.moved = said.moved
    BY <1>0, <2>2 DEF Said
  <2>4. AimedRom' = AimedRom
    BY <2>3 DEF AimedRom
  <2> QED BY <1>0, <2>1, <2>3, <2>4 DEF Mbc5Agrees
<1> QED BY <1>1, <1>2, <1>3, <1>4

\* A write names an area and a byte.
LEMMA WriteParts ==
  ASSUME kind \in Kinds, NEW write \in Writes[kind]
  PROVE  write[1] \in Areas(kind) /\ write[2] \in Byte
<1>1. Writes[kind] \subseteq Areas(kind) \X (0 .. 255)
  OBVIOUS
<1>2. write \in Areas(kind) \X (0 .. 255)
  BY <1>1
<1> HIDE CartridgeAssumption
<1> QED BY <1>2 DEF Byte

\* A write of the game keeps mapper and game in agreement.
LEMMA WriteStep ==
  ASSUME ServedInv, NEW write \in Writes[kind], MapperWrite(write[1], write[2])
  PROVE  ServedInv'
<1> DEFINE area == write[1]
           data == write[2]
<1>0. kind \in Kinds /\ said \in Said /\ m \in Mapper
  BY DEF ServedInv
<1>1. area \in Areas(kind) /\ data \in Byte
  BY <1>0, WriteParts
<1>2. /\ kind' = kind /\ accessor' = accessor /\ armed' = armed /\ stray' = stray
      /\ m' = Written(area, data) /\ ptr' = Activated(area, data) /\ said' = Say(area, data)
  BY DEF MapperWrite, dmaVars
<1>3. area \in 0 .. 7
  BY <1>1 DEF Areas
<1> HIDE DEF area, data
<1>4. said' \in Said
  BY <1>0, <1>1, <1>2, <1>3, SayTypes
<1>5. IsAccessor(accessor)' /\ WaitInv' /\ kind' \in Kinds
  <2>1. ptr' = ptr \/ ptr'.latch = At("latch", data % 8)
    BY <1>2 DEF Activated
  <2>2. At("latch", data % 8) # Nothing
    BY DEF At, Nothing
  <2>3. WaitInv'
    BY <1>2, <2>1, <2>2 DEF ServedInv, WaitInv
  <2> QED BY <1>2, <2>3 DEF ServedInv, IsAccessor, Accessor
<1>6. CASE kind = "none"
  <2>1. m' = m /\ said' = said
    BY <1>2, <1>6 DEF Written, Say
  <2> QED BY <1>0, <1>2, <1>4, <1>5, <1>6, <2>1 DEF ServedInv, Agrees
<1>7. CASE kind = "mbc1"
  <2>1. area \in {0, 2, 4, 6} /\ m' = Mbc1Write(m, area, data)
    BY <1>1, <1>2, <1>7 DEF Areas, Written
  <2> QED BY <1>1, <1>2, <1>4, <1>5, <1>7, <2>1, Mbc1Step DEF ServedInv, Agrees
<1>8. CASE kind = "mbc3"
  <2>1. area \in {0, 2, 4, 6} /\ m' = Mbc3Write(m, area, data)
    BY <1>1, <1>2, <1>8 DEF Areas, Written
  <2> QED BY <1>1, <1>2, <1>4, <1>5, <1>8, <2>1, Mbc3Step DEF ServedInv, Agrees
<1>9. CASE kind = "mbc5"
  <2>1. m' = Mbc5Write(m, area, data)
    BY <1>2, <1>9 DEF Written
  <2> QED BY <1>1, <1>2, <1>3, <1>4, <1>5, <1>9, <2>1, Mbc5Step DEF ServedInv, Agrees
<1> QED BY <1>0, <1>6, <1>7, <1>8, <1>9

-----------------------------------------------------------------------------
(* The accesses                                                            *)

\* The blocks in force are the ones the game has asked for.
LEMMA GateAgrees ==
  ASSUME ServedInv
  PROVE  m.gate = IF ~said.open THEN "off" ELSE IF AimsAtClock THEN "rtc" ELSE "ram"
<1>1. CASE kind = "none"
  BY <1>1 DEF ServedInv, Agrees, NewMapper
<1>2. CASE kind = "mbc1"
  BY <1>2 DEF ServedInv, Agrees, Mbc1Agrees, AimsAtClock
<1>3. CASE kind = "mbc3"
  BY <1>3 DEF ServedInv, Agrees, Mbc3Agrees
<1>4. CASE kind = "mbc5"
  BY <1>4 DEF ServedInv, Agrees, Mbc5Agrees, AimsAtClock
<1> QED BY <1>1, <1>2, <1>3, <1>4 DEF ServedInv

\* So are the pointers, once the game has chosen a bank that there is.
LEMMA PointersAgree ==
  ASSUME ServedInv, Settled, said.open
  PROVE  /\ ~AimsAtClock => m.ram = said.bank % (IF kind = "mbc3" THEN 8 ELSE 4)
         /\ AimsAtClock =>
              ptr = [latch |-> At("latch", said.bank % 8), real |-> At("real", said.bank % 8)]
         /\ m.rom = AimedRom
<1>0. said \in Said
  BY DEF ServedInv
<1>1. CASE kind = "none"
  BY <1>1 DEF ServedInv, Agrees
<1>2. CASE kind = "mbc1"
  BY <1>2 DEF ServedInv, Agrees, Mbc1Agrees, AimsAtClock
<1>3. CASE kind = "mbc3"
  BY <1>3 DEF ServedInv, Agrees, Mbc3Agrees, Settled
<1>4. CASE kind = "mbc5"
  <2>1. ~AimsAtClock
    BY <1>4 DEF AimsAtClock
  <2>2. m.rom = AimedRom
    BY <1>4 DEF ServedInv, Agrees, Mbc5Agrees
  <2>3. m.ram = said.bank % 4
    <3>1. said.bank \in 0 .. 255
      BY <1>0 DEF Said, Byte
    <3>2. (said.bank % 16) % 4 = said.bank % 4
      BY <3>1
    <3>3. CASE said.moved
      BY <1>4, <3>2, <3>3 DEF ServedInv, Agrees, Mbc5Agrees
    <3>4. CASE ~said.moved
      BY <1>4, <3>4 DEF ServedInv, Agrees, Mbc5Agrees, Settled
    <3> QED BY <3>3, <3>4
  <2> QED BY <1>4, <2>1, <2>2, <2>3
<1> QED BY <1>1, <1>2, <1>3, <1>4 DEF ServedInv

LEMMA RomAgrees == ServedInv => m.rom = AimedRom
BY DEF ServedInv, Agrees, Mbc1Agrees, Mbc3Agrees, Mbc5Agrees, NewMapper, AimedRom

\* The block in force arms again the requestor it serves, unless it reads through
\* the null pointer.
LEMMA BlocksRearm ==
  ASSUME ServedInv, NEW offset
  PROVE  /\ RunBlock(Blocks[m.gate].read, accessor, Access(offset)).chain = "reader"
         /\ RunBlock(Blocks[m.gate].write, accessor, Access(offset)).chain = "writer"
         /\ Triggers(Blocks[m.gate].write, Access(offset))
         /\ ~Triggers(Blocks[m.gate].read, Access(offset)) <=> m.gate = "rtc" /\ ptr = Dangling
<1> DEFINE x == Access(offset)
<1>1. IsAccessor(accessor)
  BY DEF ServedInv
<1>2. m.gate = "off" \/ m.gate = "ram" \/ m.gate = "rtc"
  BY GateAgrees
<1>3. x.base = At("sram", m.ram) /\ x.latch = ptr.latch
  BY DEF Access
<1> HIDE DEF x
<1>4. /\ RunBlock(Blocks[m.gate].read, accessor, x).chain = "reader"
      /\ RunBlock(Blocks[m.gate].write, accessor, x).chain = "writer"
  <2>1. /\ RunBlock(Blocks["ram"].read, accessor, x)
             = Accessor("reader", At("offset", x.offset) \cup x.base, TxFifo)
        /\ RunBlock(Blocks["off"].read, accessor, x)
             = Accessor("reader", At("offset", x.offset) \cup x.base, DevNull)
        /\ RunBlock(Blocks["rtc"].read, accessor, x) = Accessor("reader", x.latch, TxFifo)
    BY <1>1, ReadBlocks
  <2>2. /\ RunBlock(Blocks["ram"].write, accessor, x)
             = Accessor("writer", RxFifo, At("offset", x.offset) \cup x.base)
        /\ RunBlock(Blocks["off"].write, accessor, x)
             = Accessor("writer", RxFifo, accessor.write \cup DevNull)
        /\ RunBlock(Blocks["rtc"].write, accessor, x) = Accessor("writer", RxFifo, x.real)
    BY <1>1, WriteBlocks
  <2>3. \A c, r, w : Accessor(c, r, w).chain = c
    BY DEF Accessor
  <2> QED BY <1>2, <2>1, <2>2, <2>3
<1>5. /\ Blocks["ram"].read[4].value = "base" /\ Blocks["ram"].write[4].value = "rx"
      /\ Blocks["off"].read[4].value = "base" /\ Blocks["off"].write[4].value = "rx"
      /\ Blocks["rtc"].read[4].value = "latch" /\ Blocks["rtc"].write[4].value = "rx"
  BY DEF Blocks, ramRead, ramWrite, ramDisabledRead, ramDisabledWrite, rtcRead, rtcWrite, Set, Or
<1>6. x.base # Nothing /\ RxFifo # Nothing
  BY <1>3 DEF At, RxFifo, Nothing
<1>7. Triggers(Blocks[m.gate].write, x)
  BY <1>2, <1>5, <1>6, Values DEF Triggers
<1>8. Triggers(Blocks[m.gate].read, x) <=> m.gate # "rtc" \/ x.latch # Nothing
  BY <1>2, <1>5, <1>6, Values DEF Triggers
<1>9. x.latch = Nothing <=> ptr = Dangling
  BY <1>3 DEF ServedInv, WaitInv, Dangling
<1> QED BY <1>4, <1>7, <1>8, <1>9 DEF x

LEMMA ReadServes ==
  ASSUME ServedInv, NEW offset, Serve("reader", Blocks[m.gate].read, offset), stray = {}
  PROVE  /\ IsAccessor(accessor)'
         /\ accessor'.write = IF said.open THEN TxFifo ELSE DevNull
         /\ said.open /\ Settled => accessor'.read = Aim("latch", offset)
<1> DEFINE x == Access(offset)
           after == RunBlock(Blocks[m.gate].read, accessor, x)
<1>0. IsAccessor(accessor) /\ "reader" \in armed
  BY DEF ServedInv, WaitInv
<1>1. accessor' = after
  BY <1>0 DEF Serve
<1>2. /\ x.offset = offset /\ x.base = At("sram", m.ram)
      /\ x.latch = ptr.latch /\ x.real = ptr.real
  BY DEF Access
<1> HIDE DEF x
<1>3. CASE m.gate = "off"
  <2>1. after = Accessor("reader", At("offset", x.offset) \cup x.base, DevNull) /\ ~said.open
    BY <1>0, <1>3, ReadBlocks, GateAgrees
  <2> QED BY <1>0, <1>1, <2>1 DEF IsAccessor, Accessor
<1>4. CASE m.gate = "ram"
  <2>1. after = Accessor("reader", At("offset", x.offset) \cup x.base, TxFifo)
    BY <1>0, <1>4, ReadBlocks
  <2>2. said.open /\ ~AimsAtClock
    BY <1>4, GateAgrees
  <2>3. Settled => At("offset", x.offset) \cup x.base = Aim("latch", offset)
    BY <1>2, <2>2, PointersAgree DEF Aim, SramByte
  <2> QED BY <1>0, <1>1, <2>1, <2>2, <2>3 DEF IsAccessor, Accessor
<1>5. CASE m.gate = "rtc"
  <2>1. after = Accessor("reader", x.latch, TxFifo) /\ said.open /\ AimsAtClock
    BY <1>0, <1>5, ReadBlocks, GateAgrees
  <2>2. Settled => x.latch = Aim("latch", offset)
    BY <1>2, <2>1, PointersAgree DEF Aim
  <2> QED BY <1>0, <1>1, <2>1, <2>2 DEF IsAccessor, Accessor
<1> QED BY <1>3, <1>4, <1>5, GateAgrees

LEMMA WriteServes ==
  ASSUME ServedInv, NEW offset, Serve("writer", Blocks[m.gate].write, offset)
  PROVE  /\ IsAccessor(accessor)'
         /\ accessor'.read = RxFifo
         /\ (said.open \/ accessor.write = DevNull) /\ Settled
              => accessor'.write = Aim("real", offset)
<1> DEFINE x == Access(offset)
           after == RunBlock(Blocks[m.gate].write, accessor, x)
<1>0. IsAccessor(accessor) /\ "writer" \in armed
  BY DEF ServedInv, WaitInv
<1>1. accessor' = after
  BY <1>0 DEF Serve
<1>2. /\ x.offset = offset /\ x.base = At("sram", m.ram)
      /\ x.latch = ptr.latch /\ x.real = ptr.real
  BY DEF Access
<1> HIDE DEF x
<1>3. CASE m.gate = "off"
  <2>1. after = Accessor("writer", RxFifo, accessor.write \cup DevNull) /\ ~said.open
    BY <1>0, <1>3, WriteBlocks, GateAgrees
  <2>2. Aim("real", offset) = DevNull
    BY <2>1 DEF Aim
  <2> QED BY <1>0, <1>1, <2>1, <2>2 DEF IsAccessor, Accessor
<1>4. CASE m.gate = "ram"
  <2>1. after = Accessor("writer", RxFifo, At("offset", x.offset) \cup x.base)
        /\ said.open /\ ~AimsAtClock
    BY <1>0, <1>4, WriteBlocks, GateAgrees
  <2>2. Settled => At("offset", x.offset) \cup x.base = Aim("real", offset)
    BY <1>2, <2>1, PointersAgree DEF Aim, SramByte
  <2> QED BY <1>0, <1>1, <2>1, <2>2 DEF IsAccessor, Accessor
<1>5. CASE m.gate = "rtc"
  <2>1. after = Accessor("writer", RxFifo, x.real) /\ said.open /\ AimsAtClock
    BY <1>0, <1>5, WriteBlocks, GateAgrees
  <2>2. Settled => x.real = Aim("real", offset)
    BY <1>2, <2>1, PointersAgree DEF Aim
  <2> QED BY <1>0, <1>1, <2>1, <2>2 DEF IsAccessor, Accessor
<1> QED BY <1>3, <1>4, <1>5, GateAgrees

\* A read leaves the reader waiting, unless it went through the null pointer.
LEMMA ReadWaits ==
  ASSUME ServedInv, NEW offset \in Offsets, SramRead(offset)
  PROVE  WaitInv' /\ IsAccessor(accessor)'
<1> DEFINE block == Blocks[m.gate].read
           after == RunBlock(block, accessor, Access(offset))
<1>1. /\ Serve("reader", block, offset) /\ ptr' = ptr
      /\ stray' = stray \cup {s \in {"read"} : m.gate = "rtc" /\ ptr = Dangling}
  BY DEF SramRead, mapperVars
<1>2. CASE "read" \in stray
  <2>1. "reader" \notin armed
    BY <1>2 DEF ServedInv, WaitInv
  <2>2. accessor' = accessor /\ armed' = armed /\ stray' = stray
    BY <1>1, <1>2, <2>1 DEF Serve
  <2> QED BY <1>1, <2>2 DEF ServedInv, WaitInv, IsAccessor, Accessor
<1>3. CASE "read" \notin stray
  <2>1. "reader" \in armed /\ armed = {"reader", "writer"}
    BY <1>3 DEF ServedInv, WaitInv
  <2>2. /\ accessor' = after
        /\ armed' = (armed \ {"reader"})
                     \cup {c \in {after.chain} : Triggers(block, Access(offset))}
    BY <1>1, <2>1 DEF Serve
  <2>3. after.chain = "reader"
        /\ (~Triggers(block, Access(offset)) <=> m.gate = "rtc" /\ ptr = Dangling)
    BY BlocksRearm
  <2> HIDE DEF block
  <2>4. IsAccessor(after)
    <3>1. IsAccessor(accessor) /\ (m.gate = "off" \/ m.gate = "ram" \/ m.gate = "rtc")
      BY GateAgrees DEF ServedInv
    <3>2. \A c, r, w : IsAccessor(Accessor(c, r, w))
      BY DEF IsAccessor, Accessor
    <3>3. /\ IsAccessor(RunBlock(Blocks["ram"].read, accessor, Access(offset)))
          /\ IsAccessor(RunBlock(Blocks["off"].read, accessor, Access(offset)))
          /\ IsAccessor(RunBlock(Blocks["rtc"].read, accessor, Access(offset)))
      <4> DEFINE x == Access(offset)
      <4> HIDE DEF x
      <4>1. /\ RunBlock(Blocks["ram"].read, accessor, x)
                 = Accessor("reader", At("offset", x.offset) \cup x.base, TxFifo)
            /\ RunBlock(Blocks["off"].read, accessor, x)
                 = Accessor("reader", At("offset", x.offset) \cup x.base, DevNull)
            /\ RunBlock(Blocks["rtc"].read, accessor, x) = Accessor("reader", x.latch, TxFifo)
        BY <3>1, ReadBlocks
      <4>2. /\ IsAccessor(RunBlock(Blocks["ram"].read, accessor, x))
            /\ IsAccessor(RunBlock(Blocks["off"].read, accessor, x))
            /\ IsAccessor(RunBlock(Blocks["rtc"].read, accessor, x))
        BY <3>2, <4>1
      <4> QED BY <4>2 DEF x
    <3> QED BY <3>1, <3>3 DEF block
  <2> HIDE DEF after
  <2>5. IsAccessor(accessor)'
    BY <2>2, <2>4 DEF IsAccessor, Accessor
  <2>6. stray \subseteq {"read", "core0"} /\ (ptr.latch = Nothing => ptr = Dangling)
    BY DEF ServedInv, WaitInv
  <2>7. CASE m.gate = "rtc" /\ ptr = Dangling
    <3>1. armed' = {"writer"}
      BY <2>1, <2>2, <2>3, <2>7
    <3>2. stray' = stray \cup {"read"}
      BY <1>1, <2>7
    <3>3. WaitInv'
      BY <1>1, <2>6, <3>1, <3>2 DEF WaitInv
    <3> QED BY <2>5, <3>3
  <2>8. CASE ~(m.gate = "rtc" /\ ptr = Dangling)
    <3>1. armed' = {"reader", "writer"}
      BY <2>1, <2>2, <2>3, <2>8
    <3>2. stray' = stray
      BY <1>1, <2>8
    <3>3. WaitInv'
      BY <1>1, <1>3, <2>6, <3>1, <3>2 DEF WaitInv
    <3> QED BY <2>5, <3>3
  <2> QED BY <2>7, <2>8
<1> QED BY <1>2, <1>3

\* The writer waits after every write.
LEMMA WriteWaits ==
  ASSUME ServedInv, NEW offset \in Offsets, NEW byte \in Bytes, SramWrite(offset, byte)
  PROVE  WaitInv'
<1> DEFINE block == Blocks[m.gate].write
           after == RunBlock(block, accessor, Access(offset))
<1>1. /\ Serve("writer", block, offset) /\ ptr' = ptr
      /\ stray' = stray \/ stray' = stray \cup {"core0"}
  BY DEF SramWrite, SetByGame, SetStack, SetElsewhere, mapperVars
<1>2. "writer" \in armed
  BY DEF ServedInv, WaitInv
<1>3. armed' = (armed \ {"writer"}) \cup {c \in {after.chain} : Triggers(block, Access(offset))}
  BY <1>1, <1>2 DEF Serve
<1>4. after.chain = "writer" /\ Triggers(block, Access(offset))
  BY BlocksRearm
<1> HIDE DEF block, after
<1>5. armed' = armed
  BY <1>2, <1>3, <1>4
<1> QED BY <1>1, <1>5 DEF ServedInv, WaitInv

-----------------------------------------------------------------------------

\* What leaves the mapper, the game's wishes and the clock's pointers alone.
LEMMA OtherStep ==
  ASSUME ServedInv, UNCHANGED <<kind, m, ptr, said>>,
         IsAccessor(accessor)', WaitInv'
  PROVE  ServedInv'
<1>1. AimedRom' = AimedRom /\ AimsAtClock' = AimsAtClock
  BY DEF AimedRom, AimsAtClock
<1>2. Mbc1Agrees => Mbc1Agrees'
  BY <1>1 DEF Mbc1Agrees
<1>3. Mbc3Agrees => Mbc3Agrees'
  BY <1>1 DEF Mbc3Agrees
<1>4. Mbc5Agrees => Mbc5Agrees'
  BY <1>1 DEF Mbc5Agrees
<1>5. Agrees'
  BY <1>2, <1>3, <1>4 DEF ServedInv, Agrees
<1> QED BY <1>5 DEF ServedInv

LEMMA ServedStep == ServedInv /\ [Next]_vars => ServedInv'
<1> SUFFICES ASSUME ServedInv, [Next]_vars PROVE ServedInv'
  OBVIOUS
<1>1. ASSUME NEW write \in Writes[kind], MapperWrite(write[1], write[2]) PROVE ServedInv'
  BY <1>1, WriteStep
<1>2. ASSUME NEW offset \in Offsets, SramRead(offset) PROVE ServedInv'
  <2>1. UNCHANGED <<kind, m, ptr, said>>
    BY <1>2 DEF SramRead, mapperVars
  <2> QED BY <1>2, <2>1, ReadWaits, OtherStep
<1>3. ASSUME NEW offset \in Offsets, NEW byte \in Bytes, SramWrite(offset, byte) PROVE ServedInv'
  <2>1. Serve("writer", Blocks[m.gate].write, offset) /\ UNCHANGED <<kind, m, ptr, said>>
    BY <1>3 DEF SramWrite, mapperVars
  <2> QED BY <1>3, <2>1, WriteServes, WriteWaits, OtherStep
<1>4. ASSUME UNCHANGED <<kind, m, ptr, said, accessor, armed, stray>> PROVE ServedInv'
  <2>1. WaitInv' /\ IsAccessor(accessor)'
    BY <1>4 DEF ServedInv, WaitInv, IsAccessor, Accessor
  <2> QED BY <1>4, <2>1, OtherStep
<1>5. ASSUME NEW offset \in Offsets, RomRead(offset) PROVE ServedInv'
  BY <1>4, <1>5 DEF RomRead, mapperVars
<1>6. CASE ProcessLoad \/ ProcessStore \/ Tick
  BY <1>4, <1>6 DEF ProcessLoad, ProcessStore, Tick, mapperVars, dmaVars
<1>7. CASE UNCHANGED vars
  BY <1>4, <1>7 DEF vars, mapperVars, dmaVars
<1> QED BY <1>1, <1>2, <1>3, <1>5, <1>6, <1>7 DEF Next, Game

\* Every read and write of a game is served and reaches what the game's own
\* writes to the mapper select, whatever came before it, as long as the game
\* selects what there is and does not use the clock before it has selected it.
THEOREM GameReachesItsAim == Spec => ServedAsAimed
<1> DEFINE Step ==
      \A offset \in Offsets :
        /\ SramRead(offset) /\ Settled => ReadAsAimed(offset)
        /\ (\E byte \in Bytes : SramWrite(offset, byte)) /\ Settled => WrittenAsAimed(offset)
        /\ RomRead(offset) => \/ low' = RomLow(RomBase, offset) /\ UNCHANGED sum
                              \/ sum' = RomHigh(AimedRom * BankSize, offset)
<1>1. ServedInv => Step
  <2> SUFFICES ASSUME ServedInv, NEW offset \in Offsets
               PROVE  /\ SramRead(offset) /\ Settled => ReadAsAimed(offset)
                      /\ (\E byte \in Bytes : SramWrite(offset, byte)) /\ Settled => WrittenAsAimed(offset)
                      /\ RomRead(offset) => \/ low' = RomLow(RomBase, offset) /\ UNCHANGED sum
                                            \/ sum' = RomHigh(AimedRom * BankSize, offset)
    OBVIOUS
  <2>1. SramRead(offset) /\ Settled => ReadAsAimed(offset)
    BY ReadServes DEF SramRead, ReadAsAimed, Settled
  <2>2. ASSUME NEW byte \in Bytes, SramWrite(offset, byte), Settled PROVE WrittenAsAimed(offset)
    BY <2>2, WriteServes DEF SramWrite, WrittenAsAimed
  <2>3. RomRead(offset) => \/ low' = RomLow(RomBase, offset) /\ UNCHANGED sum
                           \/ sum' = RomHigh(AimedRom * BankSize, offset)
    BY RomAgrees DEF RomRead
  <2> QED BY <2>1, <2>2, <2>3
<1>2. ServedInv /\ [Next]_vars => [Step]_vars
  BY <1>1
<1> QED BY <1>2, InitServed, ServedStep, PTL DEF Spec, ServedAsAimed

-----------------------------------------------------------------------------
(* The types of the mapper                                                 *)

\* The bank of SRAM there is, and access open when the mapper says so
MapperInv == m.ram \in 0 .. 7 /\ (m.enabled <=> said.open)

LEMMA WriteMapper ==
  ASSUME ServedInv, MapperInv, NEW write \in Writes[kind], MapperWrite(write[1], write[2])
  PROVE  MapperInv'
<1> DEFINE area == write[1]
           data == write[2]
<1>0. kind \in Kinds /\ said \in Said /\ m \in Mapper
  BY DEF ServedInv
<1>1. area \in Areas(kind) /\ data \in Byte
  BY <1>0, WriteParts
<1>2. m' = Written(area, data) /\ said' = Say(area, data)
  BY DEF MapperWrite
<1> HIDE DEF area, data
<1>3. data \in 0 .. 255 /\ data % 4 \in 0 .. 7 /\ data % 8 \in 0 .. 7
  BY <1>1 DEF Byte
<1>4. /\ [said EXCEPT !.open = Enables(data)].open = Enables(data)
      /\ [said EXCEPT !.low = data].open = said.open
      /\ [said EXCEPT !.up = data].open = said.open
      /\ [said EXCEPT !.high = data].open = said.open
      /\ [said EXCEPT !.bank = data, !.moved = @ \/ data % 16 # 1].open = said.open
      /\ [said EXCEPT !.mode = data % 2].open = said.open
  BY <1>0 DEF Said
<1>5. CASE kind = "none"
  BY <1>2, <1>5 DEF Written, Say, MapperInv
<1>6. CASE kind = "mbc1"
  <2> DEFINE new == Mbc1Area(m, area, data)
  <2>1. area \in {0, 2, 4, 6} /\ m' = [new EXCEPT !.rom = Mbc1Rom(new)]
    BY <1>1, <1>2, <1>6 DEF Areas, Written, Mbc1Write
  <2>2. \A r : [r EXCEPT !.rom = Mbc1Rom(r)].ram = r.ram
               \/ "ram" \notin DOMAIN r
    OBVIOUS
  <2>3. new.ram \in {m.ram, data % 4}
        /\ new.enabled = (IF area = 0 THEN Enables(data) ELSE m.enabled)
        /\ "ram" \in DOMAIN new /\ "enabled" \in DOMAIN new
    BY <1>0, <2>1 DEF Mbc1Area, Mapper
  <2> HIDE DEF new
  <2>4. m'.ram = new.ram /\ m'.enabled = new.enabled
    BY <2>1, <2>3
  <2>5. said'.open = IF area = 0 THEN Enables(data) ELSE said.open
    BY <1>2, <1>4, <1>6, <2>1 DEF Say
  <2> QED BY <1>3, <2>3, <2>4, <2>5 DEF MapperInv
<1>7. CASE kind = "mbc3"
  <2>1. area \in {0, 2, 4, 6} /\ m' = Mbc3Write(m, area, data)
    BY <1>1, <1>2, <1>7 DEF Areas, Written
  <2>2. m'.ram \in {m.ram, data % 8}
        /\ m'.enabled = (IF area = 0 THEN Enables(data) ELSE m.enabled)
    BY <1>0, <2>1 DEF Mbc3Write, Mbc3Bank, Mapper
  <2>3. said'.open = IF area = 0 THEN Enables(data) ELSE said.open
    BY <1>2, <1>4, <1>7, <2>1 DEF Say
  <2> QED BY <1>3, <2>2, <2>3 DEF MapperInv
<1>8. CASE kind = "mbc5"
  <2>1. area \in 0 .. 7 /\ m' = Mbc5Write(m, area, data)
    BY <1>1, <1>2, <1>8 DEF Areas, Written
  <2>2. m'.ram \in {m.ram, data % 4}
        /\ m'.enabled = (IF area \in {0, 1} THEN Enables(data) ELSE m.enabled)
    BY <1>0, <2>1 DEF Mbc5Write, Mbc5Bank, Mapper
  <2>3. said'.open = IF area \in {0, 1} THEN Enables(data) ELSE said.open
    BY <1>2, <1>4, <1>8, <2>1 DEF Say
  <2> QED BY <1>3, <2>2, <2>3 DEF MapperInv
<1> QED BY <1>0, <1>5, <1>6, <1>7, <1>8

LEMMA MapperStep == ServedInv /\ MapperInv /\ [Next]_vars => MapperInv'
<1> SUFFICES ASSUME ServedInv, MapperInv, [Next]_vars PROVE MapperInv'
  OBVIOUS
<1>1. ASSUME UNCHANGED <<m, said>> PROVE MapperInv'
  BY <1>1 DEF MapperInv
<1>2. CASE \E write \in Writes[kind] : MapperWrite(write[1], write[2])
  BY <1>2, WriteMapper
<1>3. CASE \E offset \in Offsets : SramRead(offset) \/ RomRead(offset)
  BY <1>1, <1>3 DEF SramRead, RomRead, mapperVars
<1>4. CASE \E offset \in Offsets, byte \in Bytes : SramWrite(offset, byte)
  BY <1>1, <1>4 DEF SramWrite, mapperVars
<1>5. CASE ProcessLoad \/ ProcessStore \/ Tick
  BY <1>1, <1>5 DEF ProcessLoad, ProcessStore, Tick, mapperVars
<1>6. CASE UNCHANGED vars
  BY <1>1, <1>6 DEF vars, mapperVars
<1> QED BY <1>2, <1>3, <1>4, <1>5, <1>6 DEF Next, Game

\* How far a run has come, and which requestor was served last
CountInv ==
  /\ accessor.chain \in {"reader", "writer"}
  /\ time \in 0 .. MaxTime /\ ops \in 0 .. MaxOps

LEMMA InitCount == Init => CountInv
<1> SUFFICES ASSUME Init PROVE CountInv
  OBVIOUS
<1>1. accessor.chain \in {"reader", "writer"}
  BY DEF Init, LastOfMenu
<1>2. time = 0 /\ ops = 0
  BY DEF Init
<1> QED BY <1>1, <1>2 DEF CountInv

\* An access that is served leaves the accessor chained to its requestor.
LEMMA ServedChain ==
  ASSUME ServedInv, CountInv, NEW offset,
         \/ Serve("reader", Blocks[m.gate].read, offset)
         \/ Serve("writer", Blocks[m.gate].write, offset)
  PROVE  accessor'.chain \in {"reader", "writer"}
<1>1. accessor.chain \in {"reader", "writer"}
  BY DEF CountInv
<1> QED BY <1>1, BlocksRearm DEF Serve

LEMMA CountStep == ServedInv /\ CountInv /\ [Next]_vars => CountInv'
<1> SUFFICES ASSUME ServedInv, CountInv, [Next]_vars PROVE CountInv'
  OBVIOUS
<1>0. ops \in Nat /\ ops <= MaxOps /\ time \in Nat /\ time <= MaxTime
  BY DEF CountInv
<1>1. ASSUME time' = time \/ (time < MaxTime /\ time' = time + 1),
             ops' = ops \/ (ops < MaxOps /\ ops' = ops + 1),
             accessor'.chain \in {"reader", "writer"}
      PROVE  CountInv'
  <2>1. time' \in 0 .. MaxTime /\ ops' \in 0 .. MaxOps
    BY <1>0, <1>1
  <2> QED BY <1>1, <2>1 DEF CountInv
<1>2. ASSUME accessor' = accessor PROVE accessor'.chain \in {"reader", "writer"}
  BY <1>2 DEF CountInv
<1>3. CASE \E write \in Writes[kind] : MapperWrite(write[1], write[2])
  BY <1>1, <1>2, <1>3 DEF MapperWrite, dmaVars
<1>4. ASSUME NEW offset \in Offsets, SramRead(offset) PROVE CountInv'
  BY <1>1, <1>4, ServedChain DEF SramRead
<1>5. ASSUME NEW offset \in Offsets, NEW byte \in Bytes, SramWrite(offset, byte) PROVE CountInv'
  BY <1>1, <1>5, ServedChain DEF SramWrite
<1>6. ASSUME NEW offset \in Offsets, RomRead(offset) PROVE CountInv'
  BY <1>1, <1>2, <1>6 DEF RomRead
<1>7. CASE ProcessLoad \/ ProcessStore
  BY <1>1, <1>2, <1>7 DEF ProcessLoad, ProcessStore, dmaVars
<1>8. CASE Tick
  BY <1>1, <1>2, <1>8 DEF Tick, dmaVars
<1>9. CASE UNCHANGED vars
  BY <1>1, <1>2, <1>9 DEF vars, dmaVars
<1> QED BY <1>3, <1>4, <1>5, <1>6, <1>7, <1>8, <1>9 DEF Next, Game

\* The bank of ROM there is; MBC1 and MBC3 do not map bank 0 a second time.
LEMMA RomRange ==
  ASSUME ServedInv
  PROVE  m.rom \in 0 .. 511 /\ (kind \in {"mbc1", "mbc3"} => m.rom # 0)
<1>0. /\ said.low \in 0 .. 255 /\ said.up \in 0 .. 255 /\ said.high \in 0 .. 255
      /\ m.rom = AimedRom /\ kind \in {"none", "mbc1", "mbc3", "mbc5"}
  BY RomAgrees DEF ServedInv, Said, Byte
<1>1. CASE kind = "none"
  BY <1>0, <1>1 DEF AimedRom
<1>2. CASE kind = "mbc1"
  <2> DEFINE l == AtLeastOne(said.low % 32)
  <2>1. l \in 1 .. 31
    BY <1>0 DEF AtLeastOne
  <2> HIDE DEF l
  <2>2. said.high \in 0 .. 255
    BY <1>0
  <2>3. (l + (32 * said.high)) % 64 \in 1 .. 63 /\ (l + 0) % 64 \in 1 .. 63
    <3>1. PICK q \in 0 .. 127, h \in 0 .. 1 : said.high = (2 * q) + h
      <4>1. said.high \div 2 \in 0 .. 127 /\ said.high % 2 \in 0 .. 1
        BY <2>2
      <4>2. said.high = (2 * (said.high \div 2)) + (said.high % 2)
        BY <2>2
      <4> QED BY <4>1, <4>2
    <3>2. l + (32 * said.high) = (64 * q) + (l + (32 * h)) /\ l + (32 * h) \in 1 .. 63
      BY <2>1, <3>1
    <3>3. (l + (32 * said.high)) % 64 = l + (32 * h)
      BY <3>1, <3>2
    <3>4. (l + 0) % 64 = l
      BY <2>1
    <3> QED BY <2>1, <3>2, <3>3, <3>4
  <2>4. \/ m.rom = (l + (32 * said.high)) % 64
        \/ m.rom = (l + 0) % 64
    BY <1>0, <1>2 DEF AimedRom, l
  <2>5. m.rom \in 1 .. 63
    BY <2>3, <2>4
  <2>6. \A x \in 1 .. 63 : x \in 0 .. 511 /\ x # 0
    OBVIOUS
  <2> QED BY <2>5, <2>6
<1>3. CASE kind = "mbc3"
  BY <1>0, <1>3 DEF AimedRom, AtLeastOne
<1>4. CASE kind = "mbc5"
  <2>1. m.rom = said.low + (256 * (said.up % 2))
    BY <1>0, <1>4 DEF AimedRom
  <2>2. said.up % 2 \in 0 .. 1
    BY <1>0
  <2>3. PICK h \in 0 .. 1 : h = said.up % 2
    BY <2>2
  <2>4. m.rom \in 0 .. 511
    <3>1. m.rom = said.low + (256 * h) /\ said.low \in 0 .. 255
      BY <1>0, <2>1, <2>3
    <3> QED BY <3>1
  <2> QED BY <1>4, <2>4
<1> QED BY <1>0, <1>1, <1>2, <1>3, <1>4

\* Types; no requestor is ever left unarmed but the reader, after a read of a clock
\* of which no register was selected yet, and the blocks in force let the game in
\* only when the mapper has.
THEOREM TypeCorrect == Spec => []TypeOK
<1> DEFINE Inv == ServedInv /\ MapperInv /\ CountInv /\ ClockInv
<1>1. Init => Inv
  <2>1. Init => MapperInv
    BY DEF Init, NewMapper, MapperInv
  <2> QED BY <2>1, InitServed, InitCount, InitClockInv
<1>2. Inv /\ [Next]_vars => Inv'
  BY ServedStep, MapperStep, CountStep, ClockStep
<1>3. Inv => TypeOK
  <2> SUFFICES ASSUME Inv PROVE TypeOK
    OBVIOUS
  <2>1. m.gate = "off" <=> ~m.enabled
    BY GateAgrees DEF MapperInv
  <2>2. pass.busy \in BOOLEAN /\ pass.hit \subseteq 0 .. Status
    BY DEF ClockInv, ClockType
  <2>3. /\ kind \in Kinds /\ m \in Mapper /\ stray \subseteq {"read", "core0"}
        /\ armed = {"reader", "writer"} \ {r \in {"reader"} : "read" \in stray}
        /\ m.ram \in 0 .. 7
    BY DEF ServedInv, WaitInv, MapperInv
  <2>4. /\ real \in Regs /\ latch \in Regs /\ millies \in 0 .. Millis - 1 /\ lag \in Nat
        /\ due \in 0 .. (Cycle * Millis) - 1
    BY DEF ClockInv, ClockType
  <2>5. accessor.chain \in {"reader", "writer"} /\ time \in 0 .. MaxTime /\ ops \in 0 .. MaxOps
    BY DEF CountInv
  <2> HIDE DEF Inv
  <2>6. m.rom \in 0 .. 511 /\ (kind \in {"mbc1", "mbc3"} => m.rom # 0)
    BY RomRange DEF Inv
  <2> QED BY <2>1, <2>2, <2>3, <2>4, <2>5, <2>6 DEF TypeOK
<1> HIDE DEF Inv
<1> QED BY <1>1, <1>2, <1>3, PTL DEF Spec

=============================================================================
