------------------------------ MODULE DramInit ------------------------------
(***************************************************************************)
(* The bring-up of the memory (stage1/bootblock.c): one module is found by *)
(* its SPD memory on the SMBus, and the registers of the 440BX follow from *)
(* eight bytes of it.  An SPD memory is a function from offsets to bytes,  *)
(* or Fail for a read that gave none.  Sizes are in bytes; drive strengths *)
(* and delays are left out.                                                *)
(***************************************************************************)
EXTENDS MemoryMap

Fail   == -1
Slots  == 80 .. 83                       \* SMBus addresses 0x50-0x53
Needed == {2, 3, 4, 5, 6, 7, 17, 18}

\* read_spd_minimal: the bytes it copies; the rest of its buffer stays 0
Spd(bus, slot) == [offset \in Needed |-> bus[slot][offset]]

\* the first slot that answers for byte 0 is the only one used
Answers(bus, slot) == bus[slot][0] # Fail
Found(bus, slot) ==
  slot \in Slots /\ Answers(bus, slot) /\ \A other \in Slots : other < slot => ~Answers(bus, other)

RowBits(spd) == spd[3]
ColBits(spd) == spd[4]
Sides(spd)   == spd[5]
Width(spd)   == spd[6] + 256 * spd[7]
Banks(spd)   == spd[17]

StartRow(slot)    == (slot - 80) * 2
EndRow(spd, slot) == StartRow(slot) + Sides(spd)

\* 1u << n
Bit == [n \in 0 .. 31 |-> 2^n]

RowBytes(spd)  == Bit[RowBits(spd)] * Bit[ColBits(spd)] * Banks(spd) * (Width(spd) \div 8)
PageBytes(spd) == (Bit[ColBits(spd)] * Width(spd)) \div 8
DrbVal(spd)    == (RowBytes(spd) \div (8 * MB)) % 256

\* latencies of 3 and 2 are bits 2 and 1 of the mask; 3 is preferred, 0 is none
CasLatency(spd) ==
  IF (spd[18] \div 4) % 2 = 1 THEN 3
  ELSE IF (spd[18] \div 2) % 2 = 1 THEN 2
  ELSE 0

\* the modules dram_init_from_spd does not return -1 for
Accepted(spd, slot) ==
  /\ spd[2] = 4 /\ Width(spd) = 64 /\ Banks(spd) = 4
  /\ Sides(spd) \in 1 .. 2 /\ RowBits(spd) \in 11 .. 13 /\ ColBits(spd) \in 8 .. 11
  /\ slot \in 80 .. 82 /\ EndRow(spd, slot) <= 6
  /\ RowBytes(spd) % (8 * MB) = 0 /\ DrbVal(spd) # 0
  /\ CasLatency(spd) # 0
  /\ PageBytes(spd) \in {2048, 4096, 8192}

Rows == 0 .. 7
Populated(spd, slot, row) == StartRow(slot) <= row /\ row < EndRow(spd, slot)

\* the row boundaries, eight bits each, in units of 8 MB
Drb(spd, slot, row) ==
  LET sides == IF row < EndRow(spd, slot) THEN (row - StartRow(slot) + 1) % 256 ELSE Sides(spd)
  IN  IF row < StartRow(slot) THEN 0 ELSE (sides * DrbVal(spd)) % 256

\* two bits of RPS for each row; those of an empty row are 0
Rps(spd, slot, row) ==
  IF ~Populated(spd, slot, row) \/ PageBytes(spd) = 2048 THEN 0
  ELSE IF PageBytes(spd) = 4096 THEN 1 ELSE 2

\* the bit of PGPOL that says a row has four banks
FourBanks(spd, slot, row) == Populated(spd, slot, row)

\* dram_mode_reg_address
ModeAddress(latency, start) ==
  IF start >= 4 THEN IF latency = 2 THEN 7848 ELSE 7720    \* 0x1ea8, 0x1e28
  ELSE IF latency = 2 THEN 336 ELSE 464                    \* 0x0150, 0x01d0

\* what SDRAMC holds at the n-th write to memory, and where the write goes
Command(n) == IF n = 1 THEN "nop" ELSE IF n = 2 THEN "precharge" ELSE IF n <= 10 THEN "refresh" ELSE "mode"
CommandAddress(spd, slot, n) == IF n <= 10 THEN 0 ELSE ModeAddress(CasLatency(spd), StartRow(slot))

TotalBytes(spd) == RowBytes(spd) * Sides(spd)

\* largest_power_of_two; dram_mtrr_mask is of the block of this size at 0
LargestPowerOfTwo(value) == Bit[CHOOSE n \in 0 .. 31 : Bit[n] <= value /\ value < 2 * Bit[n]]
WriteBack(total) == 0 .. LargestPowerOfTwo(total) - 1

TableBytes == 16384                       \* SHARED_TABLE_BYTES
TableBase(total)   == (total \div 4096) * 4096 - TableBytes
PointerSlot(total) == (total \div 4) * 4 - 4
StackTop(total)    == IF total >= 3 * MB THEN TableBase(total) ELSE 2093056

\* c_entry: the slot whose module it enters stage 1.5 with, as long as memory
\* then passes its tests; without such a slot the BIOS halts
Enters(bus, slot) ==
  /\ Found(bus, slot)
  /\ \A offset \in Needed : bus[slot][offset] # Fail
  /\ Accepted(Spd(bus, slot), slot)

\* what it hands on
Handed(spd) ==
  [total |-> TotalBytes(spd), writeBack |-> WriteBack(TotalBytes(spd)), stack |-> StackTop(TotalBytes(spd))]

(***************************************************************************)
(* A row of the 440BX answers from the boundary of the row before it to    *)
(* its own.                                                                *)
(***************************************************************************)
RowBase(spd, slot, row) == IF row = 0 THEN 0 ELSE Drb(spd, slot, row - 1) * 8 * MB
RowEnd(spd, slot, row)  == Drb(spd, slot, row) * 8 * MB
InRow(spd, slot, row, address) == RowBase(spd, slot, row) <= address /\ address < RowEnd(spd, slot, row)
=============================================================================
