------------------------------ MODULE MemoryMap ------------------------------
(***************************************************************************)
(* The memory the BIOS reports (bios_memory.c, bios_memory.h) and the      *)
(* three calls of INT 15h that tell programs of it (legacy_int15.c).       *)
(* Sizes are in bytes.                                                     *)
(***************************************************************************)
EXTENDS Integers

MB  == 1048576
Low == 654336      \* end of conventional memory

\* bios_memory_top_reserved_base_value
TopReservedBase(total) ==
  IF total <= MB THEN total
  ELSE IF total <= 2 * MB THEN MB
  ELSE ((total - MB) \div 4096) * 4096

\* bios_memory_extended_usable_end
UsableEnd(total) ==
  IF TopReservedBase(total) > total THEN total ELSE TopReservedBase(total)

\* bios_memory_e820_entry_count
EntryCount(total) ==
  IF total <= MB THEN 2 ELSE IF TopReservedBase(total) > MB THEN 4 ELSE 3

EntryAt(base, length, usable) == [base |-> base, length |-> length, usable |-> usable]
NoEntry == EntryAt(0, 0, FALSE)

\* bios_memory_e820_get_entry
Entry(total, index) ==
  IF index = 0 THEN EntryAt(0, Low, TRUE)
  ELSE IF index = 1 THEN EntryAt(Low, MB - Low, FALSE)
  ELSE IF index = 2 /\ total > MB
       THEN IF UsableEnd(total) <= MB THEN EntryAt(MB, total - MB, FALSE)
            ELSE EntryAt(MB, UsableEnd(total) - MB, TRUE)
  ELSE IF index = 3 /\ TopReservedBase(total) > MB /\ total > TopReservedBase(total)
       THEN EntryAt(TopReservedBase(total), total - TopReservedBase(total), FALSE)
  ELSE NoEntry

\* int15_e820: what the caller passes back to get the next entry, 0 after the last
Next820(total, index) == IF index + 1 < EntryCount(total) THEN index + 1 ELSE 0

\* INT 15h AH=88: kilobytes above the first megabyte, in 16 bits
Extended88(total) ==
  LET kb == IF UsableEnd(total) > MB THEN (UsableEnd(total) - MB) \div 1024 ELSE 0
  IN  IF kb > 65535 THEN 65535 ELSE kb

\* INT 15h AX=E801: kilobytes from 1 to 16 megabytes, and blocks of 64 KB above
Below16(total) ==
  LET end == IF UsableEnd(total) > 16 * MB THEN 16 * MB ELSE UsableEnd(total)
  IN  IF UsableEnd(total) > MB THEN (end - MB) \div 1024 ELSE 0

Above16(total) ==
  IF UsableEnd(total) > 16 * MB THEN (UsableEnd(total) - 16 * MB) \div 65536 ELSE 0
=============================================================================
