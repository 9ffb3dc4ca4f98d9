---------------------------- MODULE LinuxLoader ----------------------------
(***************************************************************************)
(* The Linux loader: finds a kernel on the IDE or the USB disk, an ELF     *)
(* file or a bzImage, on the whole disk or in a partition; loads it with   *)
(* an optional initrd around the BIOS that is still in memory, and jumps.  *)
(* When it cannot, it returns to that BIOS.                                *)
(*                                                                         *)
(* Memory is counted in units, one for each chunk of a long read.  Unit 0  *)
(* is what is below 1 MB, where the loader itself and its buffers are.     *)
(***************************************************************************)
EXTENDS Naturals, Sequences, FiniteSets

CONSTANTS
  Total,       \* units of memory
  Reserved,    \* units at its top that bios_memory keeps from programs
  Runtime,     \* the units stage 3 occupies (0x200000)
  Scratch,     \* the units of storage_scratch_base in an app (0x500000)
  Machines,    \* the disk of each kind: a record, see below, or Absent
  Tables,      \* where the ACPI tables may be: records [base, size]
  MaxFailures  \* bound: reads, selections and video calls that fail

ASSUME MemoryAssumption ==
  /\ Total \in Nat /\ Reserved \in Nat /\ Reserved + 1 < Total
  /\ Runtime \subseteq 1 .. Total - Reserved - 1
  /\ Scratch \subseteq 1 .. Total - 1 /\ Scratch \cap Runtime = {}

VARIABLES
  disks,     \* the disk of each kind
  prio,      \* the boot priority in the app context: the kinds to try
  acpi,      \* the ACPI table range in the app context
  pc,        \* where the loader is
  left,      \* the kinds not yet tried
  kind,      \* the disk selected
  segments,  \* the program headers with their physical addresses
  seg, unit, \* the segment being loaded, and the next unit of it
  cursor,    \* where the next deferred segment is kept
  deferred,  \* linux_deferred: segments kept aside, [temp, at, file, mem]
  initrd,    \* [base, size], size 0 when there is none
  setup,     \* the setup sectors of a bzImage in the sector buffer
  mem,       \* what each unit of memory holds
  mode,      \* the mode of the video card
  params,    \* the boot parameters
  slot,      \* can the shared service table still be found?
  learned,   \* the boot priority stored
  failures

machine == <<disks, prio, acpi>>
loading == <<segments, seg, unit, cursor, deferred, initrd, setup>>
outcome == <<mode, params, slot, learned>>
vars == <<machine, pc, left, kind, loading, mem, outcome, failures>>

-----------------------------------------------------------------------------
(* A disk is [format: what its kernel is, whole: does it begin at sector   *)
(* 0, sound: do headers, offsets and entry pass their checks, segs: the    *)
(* LOAD segments [phys, virt, file, mem], initrd: the size the entry of    *)
(* the second partition tells, 0 when that is the kernel's].               *)
Absent == [format |-> "absent"]

NoInitrd == [base |-> 0, size |-> 0]
NoSetup  == [first |-> "none", rest |-> "none"]
Disk == disks[kind]
Elf  == Disk.format = "elf"
KernelSpace == 2 * Total      \* 0xc0000000

UsableEnd == Total - Reserved
Units(at, size) == at .. at + size - 1

(* What is read from the disk into the units at, with what the reading     *)
(* itself leaves behind: the buffers of the USB controller.                *)
Read(at, what) ==
  [u \in 1 .. Total - 1 |-> IF kind = "usb" /\ u \in Scratch THEN <<"scratch">>
                            ELSE IF u = at THEN what ELSE mem[u]]

(* linux_resolve_load_phys: 0 where there is no address to load to.        *)
Resolved(s) ==
  LET at == IF s.phys >= 1 THEN s.phys
            ELSE IF s.virt >= KernelSpace THEN s.virt - KernelSpace
            ELSE s.virt
  IN [at |-> at, file |-> s.file, mem |-> s.mem]

Loadable(s) ==
  s.at >= 1 /\ s.at < UsableEnd /\ s.file <= s.mem /\ s.mem <= UsableEnd - s.at

(* linux_should_defer_load: the whole segment counts, not what is in the   *)
(* file.  A bzImage is never kept aside.                                   *)
FaultDefer(s) == Elf /\ Units(s.at, s.file) \cap Runtime # {}
Defer(s) == Elf /\ Units(s.at, s.mem) \cap Runtime # {}

(* Not below load_high, which is 1 MB or the end of the highest segment.   *)
Above(base) ==
  base >= 1 /\ \A i \in 1 .. Len(segments) : segments[i].at + segments[i].mem <= base

FileUnits(segs) ==
  {p \in (1 .. Len(segs)) \X (1 .. Total) : p[2] <= segs[p[1]].file}

DeferTotal(segs) == Cardinality({p \in FileUnits(segs) : Defer(segs[p[1]])})

(* What a disk may be.  The segments of an ELF kernel do not overlap, as   *)
(* the format has it; a bzImage is one segment.                            *)
IsDisk(d) ==
  \/ d = Absent
  \/ /\ d.format \in {"elf", "bzimage", "other"}
     /\ d.whole \in BOOLEAN /\ d.sound \in BOOLEAN /\ d.initrd \in Nat
     /\ d.segs \in Seq([phys : Nat, virt : Nat, file : Nat, mem : Nat])
     /\ d.format = "bzimage" => Len(d.segs) = 1
     /\ d.format = "elf" =>
          \A i, j \in 1 .. Len(d.segs) : i # j =>
            LET s == Resolved(d.segs[i])
                t == Resolved(d.segs[j])
            IN  Units(s.at, s.mem) \cap Units(t.at, t.mem) = {}

(* ACPI tables are in the reserved top, or below 1 MB.                     *)
ASSUME MachineAssumption ==
  /\ \A m \in Machines : DOMAIN m = {"ide", "usb"} /\ \A k \in DOMAIN m : IsDisk(m[k])
  /\ \A t \in Tables :
       t.base \in Nat /\ t.size \in Nat /\ (t.base < 1 \/ t.base >= UsableEnd)

(* The memory map for the kernel: all but the ACPI tables, or without them *)
(* all but the reserved top.                                               *)
FaultUsable == 1 .. Total - 1
Usable ==
  IF acpi.base < 1 \/ acpi.size = 0 \/ acpi.base >= Total
  THEN 1 .. UsableEnd - 1
  ELSE (1 .. Total - 1) \ Units(acpi.base, acpi.size)

-----------------------------------------------------------------------------
Init ==
  /\ disks \in Machines /\ acpi \in Tables
  /\ prio \in {<<"ide">>, <<"usb">>, <<"ide", "usb">>}
  /\ pc = "select" /\ left = prio /\ kind = "ide"
  /\ segments = << >> /\ seg = 1 /\ unit = 0 /\ cursor = 0 /\ deferred = << >>
  /\ initrd = NoInitrd /\ setup = NoSetup
  /\ mem = [u \in 1 .. Total - 1 |-> IF u \in Runtime THEN <<"bios">> ELSE <<"free">>]
  /\ mode = "text" /\ params = << >> /\ slot = TRUE /\ learned = "none"
  /\ failures = 0

Fail == failures < MaxFailures /\ failures' = failures + 1

(* try_boot_linux_current returns 0.                                       *)
GiveUp == pc' = "select"

FaultSelect ==
  /\ pc = "select" /\ left # << >>
  /\ kind' = Head(left)
  /\ seg' = 1 /\ unit' = 0 /\ cursor' = 0 /\ deferred' = << >>
  /\ initrd' = NoInitrd /\ setup' = NoSetup /\ segments' = << >>
  /\ \/ disks[kind'] # Absent /\ pc' = "source" /\ left' = Tail(left) /\ UNCHANGED failures
     \/ disks[kind'] = Absent /\ UNCHANGED <<pc, left, failures>>
     \/ kind' = "usb" /\ Fail /\ UNCHANGED <<pc, left>>
  /\ UNCHANGED <<machine, mem, outcome>>

(* linux_hdd_select_kind: the USB disk is enumerated again, which may fail.*)
Select ==
  /\ pc = "select" /\ left # << >>
  /\ kind' = Head(left) /\ left' = Tail(left)
  /\ seg' = 1 /\ unit' = 0 /\ cursor' = 0 /\ deferred' = << >>
  /\ initrd' = NoInitrd /\ setup' = NoSetup /\ segments' = << >>
  /\ \/ disks[kind'] # Absent /\ pc' = "source" /\ UNCHANGED failures
     \/ disks[kind'] = Absent /\ UNCHANGED <<pc, failures>>
     \/ kind' = "usb" /\ Fail /\ UNCHANGED pc
  /\ UNCHANGED <<machine, mem, outcome>>

(* linux_loader_try_boot returns 0 to the BIOS.                            *)
Return ==
  /\ pc = "select" /\ left = << >> /\ pc' = "returned"
  /\ UNCHANGED <<machine, left, kind, loading, mem, outcome, failures>>

(* The first sectors of the disk, then those of the kernel.                *)
Source ==
  /\ pc = "source"
  /\ \/ /\ mem' = Read(0, << >>)
        /\ pc' = CASE Disk.format = "elf" -> "headers"
                   [] Disk.format = "bzimage" -> "setup"
                   [] OTHER -> "select"
        /\ UNCHANGED failures
     \/ Fail /\ GiveUp /\ UNCHANGED mem
  /\ UNCHANGED <<machine, left, kind, loading, outcome>>

(* The program headers and all checks of them, before anything is loaded.  *)
Headers ==
  /\ pc = "headers"
  /\ \/ /\ mem' = Read(0, << >>)
        /\ segments' = [i \in 1 .. Len(Disk.segs) |-> Resolved(Disk.segs[i])]
        /\ IF Disk.sound /\ \A i \in 1 .. Len(segments') : Loadable(segments'[i])
           THEN pc' = "initrd" ELSE GiveUp
        /\ UNCHANGED failures
     \/ Fail /\ GiveUp /\ UNCHANGED <<mem, segments>>
  /\ UNCHANGED <<machine, left, kind, seg, unit, cursor, deferred, initrd, setup, outcome>>

(* The setup sectors of a bzImage; the rest of its partition is the        *)
(* kernel, loaded to 1 MB.                                                 *)
Setup ==
  /\ pc = "setup"
  /\ \/ /\ mem' = Read(0, << >>)
        /\ setup' = [first |-> kind, rest |-> kind]
        /\ segments' = << Resolved(Disk.segs[1]) >>
        /\ IF Disk.sound /\ Loadable(segments'[1]) THEN pc' = "segment" ELSE GiveUp
        /\ UNCHANGED failures
     \/ Fail /\ GiveUp /\ UNCHANGED <<mem, setup, segments>>
  /\ UNCHANGED <<machine, left, kind, seg, unit, cursor, deferred, initrd, outcome>>

Continue == pc' = IF Elf THEN "buffer" ELSE "params"

(* The second partition, at the top of the usable memory.  The sector with *)
(* the partition table is read into the buffer that holds the setup of a   *)
(* bzImage.                                                                *)
FindInitrd ==
  LET base == UsableEnd - Disk.initrd IN
  /\ pc = "initrd"
  /\ \/ Elf /\ Disk.whole /\ Continue /\ UNCHANGED <<unit, initrd, setup, mem, failures>>
     \/ /\ ~(Elf /\ Disk.whole)
        /\ mem' = Read(0, << >>)
        /\ setup' = IF Elf \/ Disk.whole THEN setup ELSE [setup EXCEPT !.first = "mbr"]
        /\ unit' = 0
        /\ IF Disk.initrd \in 1 .. UsableEnd - 1 /\ Above(base)
           THEN initrd' = [base |-> base, size |-> Disk.initrd] /\ pc' = "read_initrd"
           ELSE UNCHANGED initrd /\ Continue
        /\ UNCHANGED failures
     \/ ~(Elf /\ Disk.whole) /\ Fail /\ Continue /\ UNCHANGED <<unit, initrd, setup, mem>>
  /\ UNCHANGED <<machine, left, kind, segments, seg, cursor, deferred, outcome>>

(* A failed read is no reason not to boot.                                 *)
ReadInitrd ==
  /\ pc = "read_initrd"
  /\ \/ /\ mem' = Read(initrd.base + unit, <<kind, "initrd", 1, unit>>)
        /\ IF unit + 1 < initrd.size THEN unit' = unit + 1 /\ UNCHANGED pc
           ELSE unit' = 0 /\ Continue
        /\ UNCHANGED <<initrd, failures>>
     \/ Fail /\ initrd' = NoInitrd /\ unit' = 0 /\ Continue /\ UNCHANGED mem
  /\ UNCHANGED <<machine, left, kind, segments, seg, cursor, deferred, setup, outcome>>

FaultLimit == UsableEnd
BufferLimit == IF initrd.size # 0 THEN initrd.base ELSE UsableEnd

(* Room for the deferred segments, between the kernel and the initrd.      *)
Buffer ==
  LET total == DeferTotal(segments) IN
  /\ pc = "buffer"
  /\ IF total = 0
     THEN cursor' = 0 /\ pc' = IF segments = << >> THEN "params" ELSE "segment"
     ELSE IF total > BufferLimit \/ ~Above(BufferLimit - total)
     THEN GiveUp /\ UNCHANGED cursor
     ELSE cursor' = BufferLimit - total /\ pc' = "segment"
  /\ UNCHANGED <<machine, left, kind, segments, seg, unit, deferred, initrd, setup,
                 mem, outcome, failures>>

Current == segments[seg]

(* A chunk of a segment.                                                   *)
ReadSegment ==
  /\ pc = "segment" /\ unit < Current.file
  /\ \/ /\ mem' = Read((IF Defer(Current) THEN cursor ELSE Current.at) + unit,
                       <<kind, "kernel", seg, unit>>)
        /\ unit' = unit + 1 /\ UNCHANGED <<pc, failures>>
     \/ Fail /\ GiveUp /\ UNCHANGED <<unit, mem>>
  /\ UNCHANGED <<machine, left, kind, segments, seg, cursor, deferred, initrd, setup, outcome>>

Zeroed(m, s) ==
  [u \in 1 .. Total - 1 |->
     IF u \in Units(s.at + s.file, s.mem - s.file) THEN <<"zero">> ELSE m[u]]

(* The end of a segment: it is remembered for later, or its bss cleared.   *)
EndSegment ==
  /\ pc = "segment" /\ unit = Current.file
  /\ IF Defer(Current)
     THEN /\ deferred' = Append(deferred, [temp |-> cursor, at |-> Current.at,
                                           file |-> Current.file, mem |-> Current.mem])
          /\ cursor' = cursor + Current.file /\ UNCHANGED mem
     ELSE mem' = Zeroed(mem, Current) /\ UNCHANGED <<deferred, cursor>>
  /\ seg' = seg + 1 /\ unit' = 0
  /\ pc' = IF seg < Len(segments) THEN "segment" ELSE IF Elf THEN "params" ELSE "initrd"
  /\ UNCHANGED <<machine, left, kind, segments, initrd, setup, outcome, failures>>

(* linux_setup_boot_params: everything but the screen.                     *)
Prepare ==
  /\ pc = "params" /\ pc' = "video"
  /\ params' = [usable |-> Usable, initrd |-> initrd, screen |-> "text", setup |-> setup]
  /\ UNCHANGED <<machine, left, kind, loading, mem, mode, slot, learned, failures>>

(* linux_set_vbe_1024x768, if the user asked for it: the card may not have *)
(* the mode, or not be able to set it.                                     *)
Video ==
  /\ pc = "video" /\ pc' = "release"
  /\ \/ UNCHANGED <<mode, params, failures>>
     \/ Fail /\ UNCHANGED <<mode, params>>
     \/ mode' = "lfb" /\ params' = [params EXCEPT !.screen = "lfb"] /\ UNCHANGED failures
  /\ UNCHANGED <<machine, left, kind, loading, mem, slot, learned>>

(* The boot priority is learned, where the user left it open; from here on *)
(* the service table cannot be found.                                      *)
Release ==
  /\ pc = "release" /\ pc' = "apply"
  /\ learned' = IF Len(prio) = 2 THEN kind ELSE learned
  /\ slot' = FALSE
  /\ UNCHANGED <<machine, left, kind, loading, mem, mode, params, failures>>

(* linux_apply_deferred_segments: over the BIOS, which is not needed now.  *)
Apply ==
  /\ pc = "apply" /\ deferred # << >>
  /\ LET s == Head(deferred)
         copied == [u \in 1 .. Total - 1 |->
                      IF u \in Units(s.at, s.file) THEN mem[s.temp + u - s.at] ELSE mem[u]]
     IN mem' = Zeroed(copied, s)
  /\ deferred' = Tail(deferred)
  /\ UNCHANGED <<machine, pc, left, kind, segments, seg, unit, cursor, initrd, setup,
                 outcome, failures>>

Jump ==
  /\ pc = "apply" /\ deferred = << >> /\ pc' = "kernel"
  /\ UNCHANGED <<machine, left, kind, loading, mem, outcome, failures>>

Next ==
  \/ Select \/ Return \/ Source \/ Headers \/ Setup \/ FindInitrd \/ ReadInitrd
  \/ Buffer \/ ReadSegment \/ EndSegment \/ Prepare \/ Video \/ Release \/ Apply \/ Jump

(* The loader is a sequential program; its waits for the disks are bounded.*)
Spec == Init /\ [][Next]_vars /\ WF_vars(Next)
-----------------------------------------------------------------------------
Loaded ==
  (UNION { Units(segments[i].at, segments[i].mem) : i \in 1 .. Len(segments) })
    \cup Units(BufferLimit - DeferTotal(segments), DeferTotal(segments))
    \cup Units(initrd.base, initrd.size)

(* The kernel finds itself in memory as its file says, with zeros behind   *)
(* each segment, the initrd where the parameters tell, and the card in the *)
(* mode they tell: whatever had to be kept aside, whichever disk was tried *)
(* before in vain.  Left out: what is loaded to where the USB controller's *)
(* buffers are, see ScratchReserved, and the first setup sector.           *)
JumpIntact ==
  pc = "kernel" /\ (kind = "usb" => Loaded \cap Scratch = {}) =>
    /\ \A i \in 1 .. Len(segments), u \in 1 .. Total - 1 :
         LET s == segments[i] IN
         /\ u \in Units(s.at, s.file) => mem[u] = <<kind, "kernel", i, u - s.at>>
         /\ u \in Units(s.at + s.file, s.mem - s.file) => mem[u] = <<"zero">>
    /\ \A u \in Units(params.initrd.base, params.initrd.size) :
         mem[u] = <<kind, "initrd", 1, u - params.initrd.base>>
    /\ params.screen = mode
    /\ params.setup.rest = (IF Elf THEN "none" ELSE kind)

(* The lowest unit an initrd or a buffer for the kernel of d can reach.    *)
Lowest(d) == UsableEnd - d.initrd - Cardinality(FileUnits(d.segs))

(* A loader that gives up leaves behind the BIOS it returns to, with its   *)
(* services.  Left out: a bzImage, whose kernel is read to where the BIOS  *)
(* is, and memory so small that an initrd or the buffer reaches down to it.*)
ReturnSafe ==
  /\ pc = "returned" => slot /\ learned = "none"
  /\ pc = "returned" /\ (\A i \in 1 .. Len(prio) :
       LET d == disks[prio[i]] IN
       d # Absent => d.format # "bzimage" /\ \A r \in Runtime : r < Lowest(d))
     => \A u \in Runtime : mem[u] = <<"bios">>

(* The kernel may use no unit of the ACPI tables; all that was loaded for  *)
(* it is in memory that the map has.                                       *)
MapHonest ==
  pc = "kernel" =>
    /\ acpi.base >= 1 => params.usable \cap Units(acpi.base, acpi.size) = {}
    /\ Units(params.initrd.base, params.initrd.size) \subseteq params.usable
    /\ \A i \in 1 .. Len(segments) :
         Units(segments[i].at, segments[i].mem) \subseteq params.usable

(* The controllers' buffers are in the reserved top of the memory.         *)
ScratchReserved == \A u \in 1 .. UsableEnd - 1 : mem[u] # <<"scratch">>

(* Whatever fails: a kernel is started or the BIOS gets control back.      *)
LoaderEnds == <>(pc \in {"kernel", "returned"})
=============================================================================
