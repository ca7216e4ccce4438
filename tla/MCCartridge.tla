----------------------------- MODULE MCCartridge -----------------------------
(***************************************************************************)
(* Instances of Cartridge: a clock of 3 seconds, 2 minutes, 2 hours and 2  *)
(* days to a turn, with 2 milliseconds to the second.                      *)
(***************************************************************************)
EXTENDS Cartridge

MCRadix == [n \in 0 .. 3 |-> IF n = 0 THEN 3 ELSE 2]
MCWidth == [n \in 0 .. 3 |-> IF n = 0 THEN 4 ELSE 2]

MCGate == {<<0, 10>>, <<0, 0>>}
\* Enable, ROM banks with their wrap to 1 and past the mask, SRAM banks, the
\* clock's registers and a number without one, and the latch.
MCWrites == [
  none |-> {<<0, 10>>, <<2, 3>>},
  mbc1 |-> MCGate \cup {<<2, 32>>, <<2, 5>>, <<4, 0>>, <<4, 3>>, <<6, 0>>, <<6, 1>>},
  mbc3 |-> MCGate \cup {<<2, 128>>, <<4, 3>>, <<4, 8>>, <<4, 11>>, <<4, 12>>, <<4, 13>>,
                        <<6, 0>>, <<6, 1>>},
  mbc5 |-> MCGate \cup {<<1, 10>>, <<2, 0>>, <<2, 255>>, <<3, 1>>, <<3, 2>>, <<4, 0>>, <<4, 1>>, <<4, 6>>,
            <<5, 3>>}]

Clock(s, rest, flags) == [count |-> [n \in 0 .. 3 |-> IF n = 0 THEN s ELSE rest], flags |-> flags]

\* 0, and 3, which is no second; the second, as a status, halts the clock.
MCBytes == {[num |-> 0, flags |-> {}], [num |-> 3, flags |-> {"halt", "daysHigh"}]}

\* One second before the days turn, with either ninth bit
MCSaved == {[real |-> Clock(2, 1, flags), latch |-> Clock(1, 0, {})] : flags \in {{}, {"daysHigh"}}}

=============================================================================
