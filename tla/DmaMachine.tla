------------------------------ MODULE DmaMachine ------------------------------
(***************************************************************************)
(* The DMA channels that serve the console's bus (src/gb_dma.rs): the      *)
(* command machine for $A000-$BFFF, and the chains for the two ROM areas.  *)
(*                                                                         *)
(* An address is the set of what was OR-ed into it: a bank's base and an   *)
(* offset, or one register or FIFO.  The null pointer is the empty set.    *)
(***************************************************************************)
EXTENDS Naturals, Sequences

At(place, n) == {<<place, n>>}
Nothing == {}
DevNull == At("devnull", 0)
TxFifo == At("tx", 0)      \* what the console reads
RxFifo == At("rx", 0)      \* what the console writes
SramByte(bank, offset) == At("sram", bank) \cup At("offset", offset)
RomBase == At("rom", 0)

-----------------------------------------------------------------------------
(* MEMORY_ACCESSOR's registers: the requestor it re-arms, and its read and *)
(* write address.  A DmaCommand stores a value in one of them; through the *)
(* alias for setting bits it is OR-ed into what is there.                  *)

Set(value, reg) == [value |-> value, reg |-> reg, or |-> FALSE]
Or(value, reg) == [value |-> value, reg |-> reg, or |-> TRUE]

\* The values: the offset in the PIO's FIFO, and what the pointers of the
\* mapper and the clock hold, are those of one access.
Value(name, access) ==
  CASE name = "tx" -> TxFifo
    [] name = "rx" -> RxFifo
    [] name = "devnull" -> DevNull
    [] name = "fifo" -> At("offset", access.offset)
    [] name = "base" -> access.base
    [] name = "latch" -> access.latch
    [] name = "real" -> access.real

Execute(accessor, command, access) ==
  LET value == Value(command.value, access)
  IN CASE command.reg = "devnull" -> accessor
       [] command.reg = "chain" -> [accessor EXCEPT !.chain = command.value]
       [] command.reg = "read" ->
            [accessor EXCEPT !.read = IF command.or THEN @ \cup value ELSE value]
       [] command.reg = "write" ->
            [accessor EXCEPT !.write = IF command.or THEN @ \cup value ELSE value]

\* The fifth command of a block is null and ends it; the fourth triggers the
\* transfer, unless what it stores is null.
Triggers(block, access) == Value(block[4].value, access) # Nothing

RunBlock(block, accessor, access) ==
  Execute(Execute(Execute(Execute(accessor, block[1], access), block[2], access),
                  block[3], access), block[4], access)

ramRead == <<Set("reader", "chain"), Set("tx", "write"), Set("fifo", "read"), Or("base", "read")>>
ramDisabledRead ==
  <<Set("reader", "chain"), Set("devnull", "write"), Set("fifo", "read"), Or("base", "read")>>
rtcRead == <<Set("reader", "chain"), Set("tx", "write"), Set("fifo", "devnull"), Set("latch", "read")>>

\* Mutant: the control word of a read.
ramWrite_ReadControl ==
  <<Set("reader", "chain"), Set("fifo", "write"), Or("base", "write"), Set("rx", "read")>>

ramWrite == <<Set("writer", "chain"), Set("fifo", "write"), Or("base", "write"), Set("rx", "read")>>
\* DEV_NULL's address is OR-ed into the write address of the access before.
ramDisabledWrite ==
  <<Set("writer", "chain"), Set("fifo", "devnull"), Or("devnull", "write"), Set("rx", "read")>>
rtcWrite == <<Set("writer", "chain"), Set("fifo", "devnull"), Set("real", "write"), Set("rx", "read")>>

Blocks == [
  ram |-> [read |-> ramRead, write |-> ramWrite],
  off |-> [read |-> ramDisabledRead, write |-> ramDisabledWrite],
  rtc |-> [read |-> rtcRead, write |-> rtcWrite]]

-----------------------------------------------------------------------------
(* The ROM areas.  Below $4000, channel 0 stores the offset in channel 1's *)
(* read address, channel 2 ORs the base into it and triggers channel 1.    *)
(* Above, channel 0 stores the offset in the sniffer's sum, the transfer   *)
(* of the base by channel 1 adds it, and channel 2 sends the sum to the    *)
(* HyperRAM, from where channel 3 serves the console.                      *)

RomLow(base, offset) == At("offset", offset) \cup base

RomHigh(base, offset) == base + offset

=============================================================================
