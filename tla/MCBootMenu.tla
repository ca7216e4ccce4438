------------------------------ MODULE MCBootMenu ------------------------------
(***************************************************************************)
(* BootMenu on small instances: a screen of three lines, directories of up *)
(* to eight games, and clocks found at the ends of months and years.       *)
(***************************************************************************)
EXTENDS BootMenu

\* One key at a time, and two pairs held together.
MCInputs == {{}} \cup {{k} : k \in Key} \cup {{"up", "a"}, {"b", "select"}}

RomOf(banks) == [kind |-> "rom", banks |-> banks]
Other(kind) == [kind |-> kind, banks |-> 1]
Roms(n) == [i \in 1 .. n |-> RomOf(1)]

\* The chip at this time, its oscillator on, and a weekday
ChipAt(y, mo, d, h, mi, weekDay) ==
  [i \in Second .. Year |->
    <<Oscillator + bin2bcd(30), bin2bcd(mi), bin2bcd(h), BatteryOn + weekDay,
      bin2bcd(d), bin2bcd(mo), bin2bcd(y)>>[i + 1]]

MCSystems == {
  \* more games than the list takes, and a clock before the build
  [card |-> Roms(8), chip |-> ChipAt(24, 5, 31, 23, 0, 1), edits |-> 0, sets |-> 0],
  \* a month up is one of 28 days; the hour and the minute are at their ends
  [card |-> <<Other("other"), RomOf(3)>>, chip |-> ChipAt(31, 1, 31, 23, 59, 5),
   edits |-> 1, sets |-> 1],
  \* a year up or down has no such day
  [card |-> <<Other("folder"), Other("badmapper")>>, chip |-> ChipAt(28, 2, 29, 0, 0, 2),
   edits |-> 1, sets |-> 1],
  \* a year up is out of range
  [card |-> <<Other("badheader")>>, chip |-> ChipAt(99, 12, 31, 12, 30, 4),
   edits |-> 1, sets |-> 1],
  \* no game, and a clock that never ran
  [card |-> <<Other("other")>>, chip |-> [i \in Second .. Year |-> 0],
   edits |-> 1, sets |-> 2],
  \* a name that is not UTF-8 among those the list takes
  [card |-> <<RomOf(1), Other("badname")>>, chip |-> ChipAt(27, 9, 30, 8, 0, 4),
   edits |-> 0, sets |-> 0],
  \* and one behind them
  [card |-> Append(Roms(7), Other("badname")), chip |-> ChipAt(27, 9, 30, 8, 0, 4),
   edits |-> 0, sets |-> 0]}

MCBuilt == <<2026, 3, 1, 6, 0, 0>>

=============================================================================
