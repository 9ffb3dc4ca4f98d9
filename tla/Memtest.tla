------------------------------ MODULE Memtest ------------------------------
(***************************************************************************)
(* The optional memory test of stage 3 (bios_memtest.c): every word from   *)
(* 1 MB to the end of the memory a program may use, but for the shared     *)
(* services and their table, is written, read back and written again.      *)
(***************************************************************************)
EXTENDS DramInit

\* what the test reads of the shared service table, all 0 without one
Service(base, size, table, tableSize) ==
  [base |-> base, size |-> size, table |-> table, tableSize |-> tableSize]

\* install_shared_service_table: the services run where stage 1.5 or 2 has them
Installed(total, base, size) == Service(base, size, TableBase(total), TableBytes)

InServices(service, addr) == service.base # 0 /\ service.base <= addr /\ addr < service.base + service.size
InTable(service, addr) ==
  service.table # 0 /\ service.tableSize # 0 /\ service.table <= addr /\ addr < service.table + service.tableSize

\* memtest_skip_end
SkipEnd(service, addr) ==
  IF InServices(service, addr) THEN service.base + service.size
  ELSE IF InTable(service, addr) THEN service.table + service.tableSize
  ELSE addr

\* memtest_range_uncached: the words both of its loops stop at, as long as what
\* they skip ends on a word
Tested(service, total) ==
  {addr \in MB .. UsableEnd(total) - 4 : addr % 4 = 0 /\ SkipEnd(service, addr) = addr}

\* bios_memtest_run_optional: what is overwritten with the setting on
Overwritten(enable, service, total) ==
  {byte \in 0 .. total - 1 : enable /\ \E addr \in Tested(service, total) : addr <= byte /\ byte < addr + 4}

\* where stage 3 is loaded and runs from (blob.h)
Stage3Image == {byte \in Nat : 2 * MB <= byte /\ byte < 2 * MB + 262144}
=============================================================================
