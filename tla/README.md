# TLA+ models of the 440BX BIOS

This directory holds TLA+ specifications of the BIOS in this repository, TLC
configurations that check them on small instances, and TLAPS proofs that hold
for every value of the constants. Paths are relative to the repository's root;
`blob_service.c` without a directory is `src/shared_service/blob_service.c`.

## 1. The system

The BIOS boots an ASUS P2B98-XV (440BX chipset, PIIX4E south bridge) and QEMU's
`pc` machine. It is one thread of control without an operating system, built as
a chain of stages that are loaded from ROM one after another:

    P2B98-XV:  bootblock (stage 1, cache as RAM, DRAM init)
                 -> stage 1.5 -> stage 2 (L2, shadow RAM, ACPI) -> stage 3 -> app
    QEMU:      stage 1 -> stage 2 -> stage 3 -> app

What makes it hard although nothing runs in parallel: ROM reads on the real
board fail at random; the user may press a key, reset or switch off at any
moment, between two bytes of a CMOS write as well; memory is shared by stages
that were linked separately and know each other by a table at the top of DRAM;
devices (USB, IDE, SMBus, RTC, UART) go on by themselves; and old operating
systems call back into the apps by software interrupts.

| Component | State it keeps | Operations | What makes it correct |
|---|---|---|---|
| Shared service table and heap (`service_table.h`, `blob_service.c`) | free list, blocks, boot context | install, alloc, free, realloc | blocks never overlap, none is lost, the heap is large enough for every boot |
| Blob loader (`blob_service.c`, `gen_blob.py`) | staging buffer, retry counters, status | `blob_load`, stable reads, LZ4 decoding, CRC checks | success means the right bytes; every load ends; the decoder writes only its block |
| Settings (`bios_nvram.c`, `bios_settings.c`, `bios_maintenance.c`) | CMOS bank, copy in memory | load and repair, prompt commands, one-shot test request, learning the boot priority | always usable, persistent, safe against power cuts |
| Boot flow (`stage15.c`, `stage2.c`, `stage3.c`, `app_boot.c`, `legacy_boot.c`) | boot context flags, snapshots, app contexts | stage loads, app choice, fallback | every boot ends, with every medium tried; the maintenance key is honoured |
| PCI enumeration (`bios_pci_bus.c`) | bridge table, allocators | measure, assign | windows cover what is behind the bridge, nothing overlaps |
| Storage (`bios_storage.c`: IDE, UHCI, USB mass storage) | disk candidates, current disk, toggles, transfer descriptors, snapshot | scan, select, read | a read returns what was asked for or an error; what can be booted is |
| Linux loader (`linux_loader.c`) | segments, memory map, boot parameters | ELF and bzImage load, deferred segments, initrd | nothing that is still needed is overwritten; the kernel is told the truth |
| Legacy app (`src/app/legacy`, `bios16.asm`) | BIOS data area, the frame of a service call, tick count, keyboard ring | INT 8-1Ah, test floppy, hard disk | each caller gets its own answer; days and keys are counted once |
| Memory map (`bios_memory.c`, `legacy_int15.c`) | none: computed from the amount of DRAM | E820, E801, AH=88 | no gap, no overlap, no contradiction |
| VM86 monitor (`src/lib/vm86`) | emulated real-mode registers, task segment | trap emulation | the VGA BIOS gets the effect of what it executed |
| RTC (`bios_rtc.c`) | the clock's registers and their form | read, set, hand over to Linux | what is told is what is kept |
| Memory test (`bios_memtest.c`) | DRAM ranges | patterns | only memory not in use is tested |
| DRAM and cache bring-up (`bootblock.c`, `start.asm`, `l2_service.c`) | SPD data, DRB/MTRR/PAM registers | SMBus reads, SDRAM sequence, shadow RAM | decoded size = populated size |
| ACPI (`acpi_tables.c`, `bios_acpi_runtime.c`) | tables, PM registers | build, patch | checksums, addresses agree |
| Selftest app (`src/app/selftest`) | S3 resume state | run a monitor or a suspend test | one run per request |

Components call each other through the function pointers of the service table
(`blob_load`, `heap_alloc`, `heap_free`, `heap_realloc`, `crc32`), hand state
forward in the boot context (flags, ACPI, NVRAM copy) and the app context, and
share the CMOS.

## 2. Modules

| Module | Models | Notes |
|---|---|---|
| `AllocatorSpec` | what the heap promises | abstract: payloads in the heap, long enough, apart |
| `SharedHeap` | `shared_heap_*_service`, `shared_heap_init` | the free list as a sequence of blocks; refines `AllocatorSpec` |
| `StableRead` | `read_stable_u8` | a vote over the samples of one byte |
| `Lz4Encoder`, `Lz4` | `lz4_compress_chunk` of `gen_blob.py`; `blob_lz4_decode_chunk` | the encoder is an operator, the decoder a state machine with one action per part of a sequence |
| `BlobLoad` | `blob_load_service`, `blob_expand_service`, the key poll | a try, a decode or a check is one step |
| `NvramSettings` | CMOS layout, load/repair/save, prompt, learning | a byte written is one step; power may fail between any two |
| `BootFlow` | stage chain, table installation, stage 3, apps' boot choice | composes `SharedHeap` (by `INSTANCE`, at its real size) with the boot's requests |
| `PciBus` | `pci_bus_enumerate_and_assign` and both its recursions | one BAR, one bridge entered or left is one step |
| `UsbMsd` | selecting the USB disk and `bios_hdd_read_sectors` on it, with UHCI controller and disk around it | one transfer descriptor is one step |
| `Storage` | the scan of IDE slots and USB ports, candidates, snapshot, selection, PIO reads, INT 13h | the apps follow one another on one machine; a sector is one step |
| `LinuxLoader` | `linux_loader_try_boot` and all it calls, but for the command line | memory in units, one per chunk of a long read |
| `Rtc` | `bios_rtc.c` with the chip around it | an operation of the driver is one step |
| `LegacyServices` | stubs, frame and return of `bios16.asm`, IRQ0, INT 16h, INT 1Ah, the dispatch | extends `Rtc`; a part of a call between which an interrupt may come is one step |
| `MemoryMap` | `bios_memory.c` and INT 15h AX=E820, AX=E801, AH=88 | operators only, at the real sizes |
| `DramInit` | `bootblock.c`: the SPD reads, `dram_init_from_spd`, what stage 1.5 is told | operators only; drive strengths and delays are left out |
| `Memtest` | `bios_memtest.c` | operators only; the words both loops stop at |
| `ServiceProofs`, `NvramProofs`, `BootProofs`, `UsbProofs`, `StorageProofs`, `LinuxProofs`, `LegacyProofs`, `PciProofs` | | the theorems of section 5; `ServiceProofs` has those about `SharedHeap`, `BlobLoad`, `StableRead` and `Lz4`, `BootProofs` those about `MemoryMap`, `DramInit` and `Memtest` |
| `MC*` | | constants for TLC |

### State and actions against the code

*SharedHeap.* Addresses count 16-byte granules. `free` is the list from
`heap_free_list`, each block with the size word of its header; `live` are the
blocks behind the pointers callers hold, with the bytes they asked for. `Alloc`,
`Free`, `ReallocInPlace` and `ReallocMove` are the three services with their
early returns; `Linked` is the insertion of `shared_heap_free_service` with its
two calls of `heap_coalesce_next`. The second of these works on the header of
the freed block, which is dead when the predecessor has just swallowed it: block
and successor then remain two list entries though they touch. The model keeps
this; it costs neither safety nor the reuse of what was freed
(`FreedIsReusable`), only larger requests.

*Lz4.* `DecodeInit` ranges over `Streams`: what the encoder makes of a chunk, the
same cut off anywhere, and any other bytes; `StreamAssumption` says so. The table
of `lz4_compress_chunk` is the set of earlier positions with the same bytes
(`Refs`), the last of which counts. A sequence is two actions, `Literals` and
`Match`; `Finish` is the loop's end. Bytes, lengths and escapes are scaled down
(`Escape`, `ByteMax`); the continuation bytes keep their rule.

*BlobLoad.* A payload is what matters of it: is it known, has it a CRC, does
its header pass, which blocks are damaged, does the output CRC apply. The bus
may fail `MaxGlitches` reads. A stable read is spoilt by more than half of its
samples (`StableRead` proves the other direction), so a retry in stable mode
costs `StableCost` failing reads where the first costs one. With `FlakyTables`
the header and the descriptors, which the code reads once each time and without
a checksum, can be misread too, at each place where they are read: the load
address (`LoadAddr`), the checks, the size and CRC at each try, the decoder's
offsets, the table and the CRC of the output. `aimed` says whether the destination
is the one the payload was built for. Nothing compares it with anything later,
and the CRC of the output is taken there too, so a load that was sent to a
wrong address still succeeds. A payload without an address of its own takes the
caller's; it needs two misread fields to get another one. What is overwritten at a
wrong address, the loader itself perhaps, is not modelled, only that what was
expanded may not be kept there (`Expanded`).

*NvramSettings.* `cmos` maps offsets to bytes. A handler changes the copy in
memory in one step and leaves the bytes it has to write in `writes`; `Write`
performs one, `PowerCut` forgets the rest. `before`, `after`, `sound`, `asked`
and `ran` are history variables.

*BootFlow.* `pc` is the place in the boot. A `blob_load` is two steps, so that
the staging buffer is held while the key is polled. The heap has its real size:
16384 bytes of table less 800 for the table, the manifest and the boot context
with their alignment, less the pointer slot's granule, makes 973 granules; the
staging buffer takes 513, each PCI snapshot 194, the storage snapshot 11, an app
context 14. `Reset` may come at any time and changes the media. On the P2B98-XV
the table is installed by stage 1.5 and again by stage 2, which zeroes it: a key
pressed while stage 2 itself was loading is forgotten. `asked` therefore counts
from the last installation. `bios_settings_load`'s branch for a snapshot already
in the boot context is never taken, since stage 3's table is freshly zeroed.

*PciBus.* A tree is the sequence of its functions in the order in which both
recursions meet them, each with its parent bridge; `bus` is the bus a recursion
is on, and going up or down is a step (`EnterBridge`, `LeaveBus`; `OpenBridge`,
`CloseBridge`). `need` is the table `pci_bridges`, so its domain says which
bridges got an entry. Sizing a BAR by writing ones is not a step of its own:
`bars` holds the sizes it finds. `IsTree` is what `PciAssumption` asks of a tree:
the order of the walk, a parent that is a bridge, BARs of a size above 0, and no
function that is bridge and VGA card. Interrupt lines, PIRQ routes and command
registers are left out, and so is wrapping at 2^32.

*UsbMsd.* Three parties share the state: the program (`stage`, `cmd`, `phase`,
its toggles), the chain of descriptors the controller works through (`tds`,
`toggle`), and the disk (`work`, `resp`, its toggles). `Issue`, `DataPhase`,
`StatusPhase` and `CheckStatus` are the parts of `usb_msd_command`; `Sense`
follows each failure. Controller and disk are not in this repository; they are
modelled from how the code uses them and from the USB standards: a packet may be
lost, or its acknowledgement, so that the next descriptor meets a repeated
packet with the wrong toggle; the disk may be late, fail a command or stall; and
it may (`eager`) or may not take a command before its last status is fetched. A
sector is two packets instead of eight; both counts are even, which is what
matters to toggles. `Word` stands for 2^32. The two ports are one, a
failed port being a failed enumeration, and enumeration itself is one step.
`Read` requires that the last selection succeeded, which both callers check.
Both ports, and what one enumeration does to a disk on the other, are in
`Storage`, where in turn a USB command is one step.

*Storage.* `machine` is what is plugged in. A drive is its status register with
where it is in a command: `DriveProceeds` is the drive's own progress, a `Send`
or `Receive` that gives up is a timeout of `ide_wait_cmd_ready` or
`ide_wait_drq`, and costs one of `MaxFaults`. The error bit stays until the next
command, and `ide_wait_cmd_ready` refuses to send one while it is set; only
IDENTIFY is sent without that look. `Delay` is the 400 ns after a sector, in
which the status still tells of the sector before. `hdd` is the disk in use, `cand` the two
candidates, `snap` what the apps import; `Select`, `Ports`, `PortFails` and
`PortFound` are `bios_hdd_select_kind` with the enumeration that follows it for
USB. Every USB device gets address 1 and loses it only when its port is reset:
`Alone` says whether a device is the only one to answer. INT 13h takes every
request, in the range or not. The scan is skipped below 8 MB of memory; that
machine is not modelled, nor are DMA (not compiled in) and the registers of the
PCI functions. A disk's sectors are named by disk and number, so `ReadRight` can
say which ones a read has to bring.

*LinuxLoader.* Each unit of memory holds what was last put there: a part of a
segment or an initrd, zeros, the BIOS, or the USB controller's buffers. The
stages are those of `try_boot_linux_current` and `try_boot_bzimage_current`:
headers, initrd, buffer for deferred segments, segments, parameters, release of
the BIOS's services, the deferred copies, the jump. A read, a selection and a
call of the video BIOS may fail. The second attempt, after the IDE disk, starts
from whatever the first left in memory. Kernels are as linkers make them
(`IsDisk`): the segments of an ELF file do not overlap, and a file with none is
started all the same. `MachineAssumption` also says that the ACPI tables are
below 1 MB or in the reserved top, where the stages put them.

*Rtc, LegacyServices.* `cpu` is the stack of what was interrupted, innermost
last: the program, and above it the program's routines on INT 1Ch. A call is
`Call`, `StoreVector`, `SaveFrame`, `Service`, `Return`, `LoadFrame`, and the
timer may interrupt wherever the interrupt flag is on. A call with `jump`
reaches its stub not by `INT` but by a jump, as that of a program to the vector
it replaced, with interrupts as they are. The stub stores the vector before
`bios16_common` turns interrupts off (`bios16.asm:402`, `:408`): if an interrupt
comes between the two (`cut`), its routine's calls leave their vector behind.
`Service` does what the code does then: the function is the one of the vector it
finds (`Function`), on the registers in the frame, so that a caller who asked for
the time may have a key taken. `AnswersReachCaller` names this case. The
clock's chip is modelled from its data sheet: in
an update the registers show old or new values, and the form they are in is
whatever the last system left.

*DramInit, Memtest.* Both are straight-line code, and so they are operators and
have no run: theorems say what they come to, for every input. A failed SMBus read
is `Fail` (a timeout, a busy or a refusing device); `Accepted` joins the tests
of `dram_init_from_spd` for which it returns -1, and `Drb`, `Rps` and
`FourBanks` are what it then writes to the chipset. `RowBase`, `RowEnd` and
`InRow` are the chipset's part. `Enters` says with which module stage 1.5 is
reached, if the tests of A20 and memory (`bootblock.c:703-709`) pass, and
`Handed` what it is told. `Tested` takes both loops of the memory test together:
they go up a word at a time and jump over the services and the table.

Definitions whose names start with `Fault` (but for `Fault` of `UsbMsd`, a fault
on the bus) are mistakes the code could have
made, written next to the operator they would replace. No other definition uses
them: each shows that a property notices the mistake (`PROJECT.json`,
"mutants").

## 3. Runs

`MCUsbMsd` takes about 80 seconds with two workers, `MCStorage` and `MCLegacy` 45, every other run less than half a minute.

| Run | Question | Bounds, and why they suffice |
|---|---|---|
| `MCSharedHeap` | Does any sequence of calls break the heap? | 13 granules, requests of 16, 17 and 33 bytes: two, three and four granules with the header, so exact fit, a remainder of one granule (goes with the block) and of two (a block), and up to six blocks with neighbours to coalesce on either side. No bound on the number of calls. |
| `MCLz4` | Does the decoder undo the encoder, and stay in its block on bad streams? | all chunks of up to 5 bytes over two letters and runs of 11-16, behind 4 prefixes, with lengths up to the escape and past it; streams cut anywhere, and all noise of up to 4 bytes. |
| `MCBlobLoad` | Is a load ever silently wrong, endless, leaking, deaf to the key, or refused although all is intact? | 3 blocks, 3 samples, 2 tries each for ROM and block, two loads, two keys, 5 failing reads of bytes or table fields: enough to spoil all tries of a block; 7 payloads, with and without a load address, damage, CRCs. `IntactLoads` speaks of the executions in which they did not. |
| `MCNvramSettings` | Do settings survive anything? | command line of 3 bytes, 5 CMOS contents with each field out of range, 3 commands, 2 power cuts. |
| `MCBootFlow` | Does every boot end well? | 2 platforms, 5 ROMs with different apps, 4 kinds of media, a reset, a failed load, a key press, each at any time. |
| `MCPciBus` | Does every tree get bus numbers, windows and addresses that work? | all trees of up to 5 functions of 4 kinds (a bridge, two devices, a VGA card), so bridges three deep and side by side; 3 buses instead of 16, so that a third bridge is skipped. No BAR is larger than a window's alignment: see `MCPciAgp`. |
| `MCPciAgp` | Does a graphics card get addresses that its bridge decodes (`specs/440bx.md:40`)? | cards with 1, 16 and 32 MB behind a bridge, 64 and 80 MB of DRAM; **violated**, see section 6. |
| `MCUsbMsd` | Is a read from the USB disk ever wrong, endless, or failing without a cause? | 3 sectors, reads of 1 to 3 in chunks of up to 2, sector numbers modulo 5, so that sums wrap; any toggles and leftovers from before, and 2 faults anywhere: enough for a repeated packet behind an abandoned command. No bound on the number of calls. |
| `MCStorage` | Does INT 13h bring the right sectors of the disk booted, is everything bootable booted, does the scan end? | 6 machines: drives absent, dead, empty, ATAPI and good on each slot, two USB disks, a hub before a disk, a test floppy; sector numbers of 5 bits of which a drive gets 3; 2 sectors a command, 3 per USB command, reads of 0, 1, 3 and 5; both geometries; 2 late or failing commands anywhere. No bound on the number of reads. |
| `MCLinuxLoader` | Is a kernel ever started that is not whole, or the BIOS damaged that gets control back? | 10 units of memory, kernels of one segment at 4 places, of two and three segments that touch, fill and cross stage 3, with and without zeros, ELF and bzImage, in a partition or on the whole disk, initrds of up to 3 units; 2 failures anywhere. |
| `MCLinuxScratch` | Are the USB buffers in the reserved top of memory (`specs/hardware-notes.md:76-79`)? | same; **violated**, see section 6. |
| `MCLegacy` | Does each caller get its answer, midnight once, its keys in order, and the time that is kept? | a day of 2 ticks, 5 timer interrupts nested as deep as they come, a ring of 3 slots, 4 keys, 2 seconds, 4 times from the last second of a century to noon, 5 forms of the registers; four DOS programs, one of which and its timer routine jump to the stubs, a count set beyond the end of the day, and the Linux loader. |

The properties are described at their definitions. Deadlock checking is off
(`CHECK_DEADLOCK FALSE`) where the system really stops: a decoder that is done,
a vote that is over, a halted processor, a machine that is out of commands.

### Fairness

`BlobLoad` and `BootFlow` assume weak fairness of the program's own
steps only: one processor executes it, nothing preempts it and no step waits
for another party. Keys, edits at the prompt, `quit`, resets and power cuts
have no fairness; the prompt may wait for ever, and `BootEnds` counts it as an
end. In `UsbMsd` the controller works through its schedule and the disk gets to
a command it has taken; the program's own timeout covers a disk that answers
nothing. In `Storage` a drive gets on with its command, or the program counts it
as late. `LinuxLoader` is one program whose waits are bounded. `LegacyServices` has no
fairness: a program may wait for a key for ever.

## 4. What is only model-checked

* Liveness: `LoadEnds`, `BootEnds`, `CallsReturn`, `ScanEnds`, `LoaderEnds`. The
  prover does not do fairness and `ENABLED`. `BootFlow` uses the storage snapshot and
  the loaders only as steps that succeed or fail; that no failure leaves them stuck
  is what `ScanEnds` and `LoaderEnds` add.
* `WindowsCover` and `NoConflict` where a BAR is larger than the alignment of its
  window: there the first is false (section 6).

Every other property of a run that passes is a theorem.

## 5. What is proved

Each theorem is a property of section 3's runs for every value of the constants,
unless it is about operators only. TLC checked each inductive invariant on the
component's run, or on a smaller instance where it is slow to evaluate, before
it was proved.

*ServiceProofs*, about `SharedHeap`, for every heap, request set and sequence of calls:
`TypeCorrect`, `HeapSafe` (no two blocks share memory), `HeapConserved` (no
granule is lost), `RequestsFit`, `HeapRefines` (the heap implements
`AllocatorSpec`), and `FreedRoomStays` (`FreedIsReusable`: a step that gives a
block back leaves a free one of at least its size). The inductive
invariant `IInv` joins the type invariant, `NoOverlap` and conservation; the order
of the free list is in it because `Free` finds its place by it, and the lower
bound on block sizes because a payload of length zero would not be in the heap of
`AllocatorSpec`. The lemmas say what `Remaining`, `InsertBlock`, `CoalesceNext`
and `Linked` do to the set of granules a list covers, and, for `FreedRoomStays`,
that each of them only makes blocks larger, the call on the dead header included.
Assumption: `HeapAssumption` (a heap base above 0, sizes above 0).

*ServiceProofs*, about `BlobLoad` and `StableRead`, for every ROM, retry limit, number of failing reads and of keys:

* The staging buffer is always returned (`NoStageLeak`), and success means that the
  payload is right and in its place as long as the unprotected tables were read
  right; where the CRC of the output applies, one misread field does no harm
  either, unless it is one that gives the load address (`SuccessIsRight`). Its
  invariant, `OutputInv`, counts what each way to go wrong must have cost in misread
  fields.
* A payload that is intact in the ROM is loaded unless the bus spoilt every try of
  one of its blocks (`RetriesPay`). The invariant `RetryInv` is an account: what
  the bus has used up covers what the tries so far must have cost it, the first
  try one failing read and each later one `StableCost`.
* The last key, if it asks for maintenance, is noted or still at the UART
  (`MaintenanceKeyKept`). This one is inductive as it stands.
* Of a byte read `Samples` times, from any set of values: one that more than half
  of the reads brought is returned (`Majority`), and in general the first of those
  brought most often (`Plurality`). `Vote` is `StableRead` with the loader's
  number of samples.

Assumption: `LoadAssumption`.

*ServiceProofs*, about `Lz4`, for every width of the format, prefix and stream:
no byte of what was expanded is one nobody wrote (`NothingStale`) and no step
writes outside the block (`WritesInside`), whatever bytes are staged; what the
encoder compressed is accepted and expands to what it was, and what was cut is
rejected or expands to the same (`DecodeUndoesCompress`, that is `RoundTrip`). The
first two follow from `DecoderInv`, the ranges of the pointers and bytes up to
`op`. The third adds `Follows`: the destination agrees with the text, and the
source goes on with what the encoder emits from this position (`SequenceDue`), or
with the offset and the length of a match it found there (`MatchDue`).
`LengthRead` says that `blob_lz4_read_len` undoes `emit_len`, by division with
remainder; `CopyRight` that a copy byte by byte repeats the text even where it
overlaps itself. The recursive functions of the encoder and of a copy are shown to
exist, and what they compute is shown, without an induction theorem: of the
positions where it failed there would be a smallest (`LeastOf`, from the
well-foundedness of the natural numbers), and the one before it gives the
contradiction. Assumptions: `FormatAssumption` (the greatest offset fits two
bytes), `StreamAssumption`.

*NvramProofs*, for every command line length, every contents of the CMOS, every
line typed and any number of power failures: `SettingsPersist` (`Persisted`),
`CutIsHarmless` (`CutLeavesOldOrNew`), `TestBlobOnce` (`AtMostOnce`). A handler
changes the copy in memory at once and the CMOS byte by byte, so none of the
three is inductive. The invariant follows each cell of the settings on its own:
`KeptInv` says that either it holds the byte of the copy and nothing in `writes` goes
to it, or the last write to it brings that byte; `HalfInv` says that it and
what is still to be written to it belong to the old or to the new settings;
`OnceInv` says that an outstanding request (`Due`) has been asked for and not
run. Of a command line that is being changed a cut may leave a mixture, of which
nothing is claimed. Assumptions: `ImageAssumption` (a CMOS
holds bytes), `TextAssumption` (nobody types the byte that ends a line).

*BootProofs*, for every set of ROMs and media and any number of resets, failing
loads and keys: `EveryRequestFits` (`HeapSuffices`), `PromptComes`
(`MaintenanceHonoured`), `SetPriorityStays` (`NeverRelearned`). The heap's part of
the invariant, `HeapInv`, says that it is a stack: what was taken for good, the
staging buffer on top while a load runs, and one free block up to the end. How
high the stack may be depends on the place in the boot (`Taken`): two PCI snapshots,
the storage snapshot and the contexts of two apps come to 427 of 973
granules, and the staging buffer takes 513. Without the shape of the free list the
number that is free would not say that one block is large enough.

*UsbProofs*, for every size of the disk, chunk, number of packets and of tries,
and any number of faults:

* A read that returns success brought the sectors asked for, in order
  (`DiskReadsRight`). The invariant `IInv` is about the stream of packets of one
  command (`StreamInv`). It is a status left over from an abandoned command
  and then the answer to this one; the program missed the first few packets of
  it (`skipped`) and has some (`buffer`), the disk is to send the others (`resp`),
  and one of them twice when its acknowledgement was lost (`Repeated`). A success
  needs a status in the last place, and the data in front of it is then that of
  the command (`Brought`).
* From the enumeration on toggles agree and nothing is left over until something
  fails (`StaysInStep`), a selection fails only if something fails during it
  (`SelectionMends`), and a read fails only after something failed or beyond the
  disk's end (`ReadsFailForCause`). These take `FullInv`, which adds where
  program and disk are in a command as long as nothing has failed (`SmoothInv`).

Assumption: `UsbAssumption` (the capacity fits a word, counts are above 0). That
the packets of a sector are even in number is not needed.

*StorageProofs*, for every machine whose disks fit their sector numbers, every
request, and any number of late or failing commands:

* A read that INT 13h answers with success brought the sectors asked for, in
  order, of the disk booted from (`ReadsRight`, which states `ReadRight`).
  `ReadInv` follows the read in progress: what `buf` holds is the sectors from
  `First` on, as many as are no longer to come (`Got`). The range check compares
  sums that wrap, so that all it says of `First` and the number asked for is that
  the sum modulo 2^32 is within the disk; an IDE drive is given the sector number
  modulo 2^28. What makes the sectors right all the same is that each sector
  that came had a number, so reduced, that the drive has (`IdeBrought`,
  `UsbBrought`): a read that goes past the end of the disk fails at the first sector
  the drive does not have, and so does one whose sum wrapped, before it comes round to
  sector 0 (`Complete`). `DriveInv` ties the drive to the program: it is at the
  sector the program waits for and has as many to send. The count of `Before` is
  the arithmetic of `ChsFirst` (`CountedByGeometry`, by a bijection with an interval).
* `BootsHonestly` (`BootHonest`) and `RefusedForCause` (`RefusalsHaveCause`). Their
  second halves speak of runs in which nothing has failed, and take `CleanInv`:
  drives are ready between commands (`Quietly`), the candidates are those the scan
  should find up to where it is (`ScanInv`), each kind of disk that can be booted
  is still to be tried or the one being tried (`TurnInv`), and a read fails only
  on an error that was already shown (`ServedInv`).

Assumption: `StorageAssumption` (a drive that answers IDENTIFY tells of less than
2^28 sectors, as the command has 28 bits for them; READ CAPACITY has 32; the
largest geometry is below 2^32 sectors; only a disk with sectors is active).

*LinuxProofs*, for every size of the memory, every kernel on either disk and
whatever fails: `KernelIntact` (`JumpIntact`), `ReturnsSafely` (`ReturnSafe`),
`MapTold` (`MapHonest`). The invariant says of each segment where its content is
now (`DoneInv`): in place, in the buffer under an entry of `deferred`, or copied
to its place. The buffer lies above all segments and below the initrd, and what it
has left is at least what is still to be deferred (`BufferInv`; the sum is
handled as the cardinality of the set of units, `Pending`). So neither a
segment, nor the initrd, nor a deferred copy runs over what was loaded before. Units
at the USB controller's buffers are excepted (`Holds`), as in `JumpIntact` itself.
`BiosInv` says that nothing below the kernel's lowest segment was written before
the services were released. Assumptions: `MemoryAssumption` (the buffers of the
USB controller are not inside the BIOS), `MachineAssumption` (section 2).

*LegacyProofs*, for every set of programs, ring, clock and length of the day,
with timer interrupts nested to any depth:

* `AnswersRight` (`AnswersReachCaller`). The inductive invariant `IInv` has two
  parts. `Stack`: all but the innermost context wait between two calls, or in
  a stub they jumped to before it turned interrupts off, and those that had stored
  their vector are marked (`Waits`). `InCall`: whatever is further in its call
  runs with interrupts off, and owns the frame, the answer and, unless it is
  marked, the vector (`Own`). Without the first the frame could belong to a
  context further down.
* `MidnightCounted` (`MidnightOnce`). As long as no midnight was missed, elapsed
  ticks are days heard of, plus the one pending, times the length of a day, plus
  today's ticks, which are less than a day (`Time`). A program that sets a count
  beyond the day counts as one that missed a midnight.
* `KeysOrdered` (`KeysInOrder`): the keys that are owed are
  those in the ring from its head on, wrapping, and then the one at the UART
  (`InTurn`). It does not need `IInv`, since a key is handed out and taken off
  the ring in one step, by whichever call; that the call is one that asked for
  a key is `AnswersRight`.
* `ClockTold` (`ClockKept`). `ClockInv` says that
  while the code can be sure of the clock's form (`sure`), the registers show
  the time in that form. It takes from `IInv` that a service runs only after a
  call, whereas the Linux loader readies the clock before any; and from `Requests`
  that what a call brings to set the clock is bytes. The
  lemmas say that the driver decodes what the chip has encoded, in
  each of the forms its registers may have.

Assumptions: `LegacyAssumption` (registers hold bytes; nobody calls INT 19h, which
starts over) and `ClockAssumption`.

*PciProofs*, for every tree of bridges and functions, of any depth, with any BARs,
also when bus numbers or table entries run out:

* The bus numbers a bridge passes on are those of the bridges behind it, and no
  others (`NumbersNested`). `WalkInv` says where a walk is: the functions after an
  open bridge, up to the walk, are behind it. `NumberInv` adds that numbers rise
  in the order of the walk, and what a bridge whose bus was left passes on.
* VGA cycles are passed on by exactly the bridges in front of a card that is
  reached (`CardsReached`). `VgaInv` says which cards the mark of an open bus tells
  of: those the walk has come by, less those behind an open bridge further in,
  whose mark has yet to be handed on.
* Where `Fits` holds, what is behind a bridge is inside its windows
  (`BehindWindows`), no two BARs share an address, none is inside the window of
  a bridge it is not behind, and none is in the DRAM (`AddressesApart`). `Fits`
  says that the size of each BAR divides what the free addresses of its bus begin
  at a multiple of: 1 MB or 4 KB behind a bridge, 16 MB for memory on bus 0. It is
  a hypothesis, and not an assumption on the constants, since there are cards for
  which it is false, and `MCPciAgp` shows what then happens.

The two passes do the same sums at different bases. `Trace(C)` says that `C` is a
record of the first pass: what had been asked for on a bus when the walk came to
each BAR, at least what was asked for before it with that BAR added; it
survives the rest of the pass as more is only added behind. `Placed(C, B)`
says of the second pass that each open bus, whose free addresses began at `B`, is
nowhere beyond `B` plus the record at the same place; aligning an address is
aligning its distance from `B` when `B` is a multiple of the alignment (`AlignShift`).
This is where `Fits` is used. At the end of a bus it is within what was
measured, and so within the window. `AreasInv` then keeps three kinds of addresses
apart: free on one open bus, inside a window, given to a BAR. The record is not
part of the model: the invariant (`PlanInv`) says that there is one. Assumption:
`PciAssumption` (the trees, and bases that are multiples of the alignments).

The second part of *BootProofs*:

* For every amount of memory: `MapWhole` (the E820 entries leave no gap and no
  overlap) and `SizesAgree` (AH=88 and AX=E801 stay within what E820 calls usable,
  and leave out less than 64 KB of it). They rest on `TopReserved`, the bounds
  of `bios_memory_top_reserved_base_value`.
* For every contents of the SPD memories and every outcome of their reads: the
  row boundaries are those of the module, are not cut to eight bits and end
  with the size that is handed on (`BoundariesFit`); stage 1.5 is entered with one
  module, all of it cached, and a stack at its end (`EnteredWithOneModule`, from
  `CachedWhole`); every command goes to the first row (`CommandsToFirstRow`);
  the stack has a megabyte less the table to itself (`StackApart`); what the
  memory test spares and what it does not (`MemtestSpares`,
  `MemtestOverwritesStage3`). All rest on `RowSizes`: a module that passes every
  test has rows of 16 to 256 MB, a power of two. Assumption of the last two: the
  services lie below 1 MB, as both stages that install them do.

## 6. Where documents and code disagree

Two runs show a disagreement:

* `MCPciAgp`: `specs/440bx.md:40` says that bridges must be given windows, as otherwise the
  memory of an AGP card is unusable. `pci_measure_bus` measures what is behind a
  bridge as if it began at address 0, and `pci_assign_bus` puts the window at
  the next multiple of 1 MB (`bios_pci_bus.c:543`), while each BAR is aligned to
  its own size (`bios_pci_bus.c:458`). With 80 MB of DRAM a card with 32 MB of
  non-prefetchable memory gets 96-128 MB, and its bridge decodes 80-113 MB. Where the window
  is as aligned as the largest BAR behind it the two agree, which is the
  restriction of `MCPciBus`. The root's prefetchable base is derived in the same
  way (`bios_pci_bus.c:619`).
* `MCLinuxScratch`: `specs/hardware-notes.md:76-79` says that the top megabyte
  is reserved for the stack of the BIOS and for its IDE and USB buffers.
  `stage3.c:67` puts the buffers there, by a static variable of the copy of
  `bios_storage.c` that stage 3 is linked with. The apps have copies of their
  own, which keep the initial 0x500000 (`bios_storage.c:19`), in memory that is
  reported usable. `JumpIntact` leaves out kernels that are loaded to there from
  a USB disk.

Found while reading, and kept by the models:

* The memory test starts at 1 MB and leaves out the services and the table
  (`bios_memtest.c:126-187`). Stage 3, which runs it (`stage3.c:86`), is at 2 MB:
  with the setting on it overwrites itself (`MemtestOverwritesStage3`).
  `specs/piix4e.md:75` speaks of a test of all memory.
* Of a module with two sides only the first is sent the commands by which SDRAM
  is started (`CommandsToFirstRow`): the accesses are to addresses 0 and
  `mode_addr`. Whether the second side then works depends on the chipset, whose
  manual is not in the repository. A module in a second slot is not used at all.
* The load address in the header of a payload is read once, with no check
  (`blob_service.c:570`, `blob.h:86-95`): one misread field sends the payload to a
  wrong place, and the load succeeds. `NeverSilentlyWrong` names this exception.
* A call of a program that jumps to a stub with interrupts on may have another
  function performed (section 2, `LegacyServices`).
* `docs/blob_format.md:47` says that each block is compressed independently.
  `gen_blob.py` packs a chunk with the chunks in front as window, and the
  decoder accepts offsets that reach back over the block's start
  (`blob_service.c:364`). A single bad block therefore spoils later ones
  (`BlobLoad`'s `Decode` models that). The same document calls the format
  version 3; the code is at version 4.
* `APP_BOOT_INTERFACE.md:55` says that an app returns 0 after success and that
  the caller may fall back on a negative result. The Linux loader returns 0
  when it cannot boot, and `stage3.c:43` falls back on it.
* A read whose last sector lies beyond 2^32 passes the range check
  (`bios_storage.c:1197`). The drive refuses it, but its error bit then makes
  `ide_wait_cmd_ready` refuse every later read; INT 13h AH=00 resets nothing.
  `RefusalsHaveCause` names this exception. A SET FEATURES that is refused has the same
  effect on the read of sector 0 during the scan.
* Only the first IDE drive that identifies itself is a candidate: another one
  is not booted when the first has no active partition. Of two USB disks the
  scan keeps the last, the refresh before a boot takes the first. A device on
  the first USB port that is no disk keeps address 1, so that a disk on the
  second port is not reached. `Bootable` states what remains.
* When a bzImage has an initrd beside it, the partition table is read over the
  first setup sector (`linux_loader.c:1068`).
* Two midnights that nobody asks about count as one, a tick is lost while INT
  16h waits with interrupts off, and INT 16h AH=03 and AH=05 wait for a key like
  AH=00. INT 1Ah AH=02 and AH=04 misread a clock that was left in 12-hour or
  binary form, and AH=03 and AH=05 take bytes that are not BCD; `ClockKept`
  speaks of the other cases (`sure`), and of Linux unless an update was under
  way, for which `bios_rtc_prepare_for_linux` does not wait.

## 7. Not modelled

* The VM86 monitor: a subset of an instruction set; a model would restate it
  instruction by instruction.
* Of the bring-up of the memory the drive strengths, the delays, cache as RAM, the
  L2 cache and the shadow RAM: what may go wrong there is analog. That the copy of
  stage 1.5 is executed unchecked is listed among the hazards. Of the memory
  test the patterns and the caching while it runs.
* ACPI tables and app shadow RAM: tables and register values written once, in
  straight-line code.
* Of the legacy app the entry into real mode, the VGA BIOS calls and the PCI
  BIOS calls. The polled tick count of `legacy_timer.c:105-124` serves only
  before the timer interrupt is on.
* Of storage the DMA reads, which are not compiled in, the mode registers of the
  IDE function, and the allocation of I/O ports.
* The S3 test drives an ACPI interpreter that is not in the repository.
* Host tools (but for the encoder in `gen_blob.py`), DOS tools and test programs
  are not part of the BIOS. Formatting, serial output and POST codes are left
  out everywhere.

## 8. Plan

1. `AllocatorSpec`, `SharedHeap` with proofs (done).
2. `StableRead`, `Lz4`, `BlobLoad` with proofs (done).
3. `NvramSettings`, `BootFlow` with proofs (done).
4. `PciBus` with proofs (done).
5. `UsbMsd`, `Storage` with proofs (done).
6. `LinuxLoader` with proofs (done).
7. `Rtc`, `LegacyServices`, `MemoryMap` with proofs (done).
8. `DramInit`, `Memtest` with proofs (done).
9. `Vm86` and app shadow RAM, as far as there is something in them that a test
   would not show.
