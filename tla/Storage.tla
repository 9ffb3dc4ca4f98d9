------------------------------ MODULE Storage ------------------------------
(***************************************************************************)
(* The hard disks of the BIOS (bios_storage.c) from the scan to INT 13h.   *)
(* Stage 3 looks for disks on the four IDE slots and the two USB ports and *)
(* hands what it found to the apps; each app has a copy of its own.  The   *)
(* Linux loader may select disks and read; then the legacy app selects a   *)
(* disk, boots from it, and serves the reads of the program booted.        *)
(*                                                                         *)
(* An IDE drive is modelled by its status register: it may answer late,    *)
(* or with an error.  Commands on USB, modelled in UsbMsd, are one step.   *)
(***************************************************************************)
EXTENDS Naturals, Sequences, FiniteSets

CONSTANTS
  Word,        \* 2^32: sums of sector numbers are taken modulo Word
  Lba28,       \* 2^28: an IDE drive gets the sector number modulo Lba28
  Batch,       \* sectors of one IDE command; the count register holds it modulo Batch
  UsbBatch,    \* usb_msd_max_read_sectors
  Spt, FewHeads, ManyHeads, MaxCylinders, \* bios_hdd_set_geometry
  Tries,       \* attempts of ide_identify
  FloppyHeads, FloppySpt,
  Machines,    \* the disks, the floppy image and the boot priority, see below
  Counts,      \* bound: the sectors a program asks for in one call
  MaxFaults    \* bound: commands that fail or are late

(* A machine is [ide: the drive in each slot, usb: the device in each      *)
(* port, floppy: the sectors of the test floppy, prio: the kinds to try].  *)
(* A device is [id, kind, size, mbr: has sector 0 an active partition?];   *)
(* kind is "ata", "atapi", "dead" for a drive that never identifies        *)
(* itself, "msd" for a USB disk, "other", or "none".  An IDE drive tells   *)
(* of less than 2^28 sectors, a USB disk of less than 2^32.                *)
IsDevice(d, limit) ==
  /\ d.kind \in {"ata", "atapi", "dead", "msd", "other", "none"} /\ d.id # "floppy"
  /\ d.size \in 0 .. limit - 1 /\ d.mbr \in BOOLEAN /\ (d.mbr => d.size > 0)

IsMachine(m) ==
  /\ \A s \in 1 .. 4 : IsDevice(m.ide[s], Lba28)
  /\ \A p \in 1 .. 2 : IsDevice(m.usb[p], Word)
  /\ m.floppy \in Nat /\ m.prio \in Seq({"ide", "usb"})

ASSUME StorageAssumption ==
  /\ Lba28 \in Nat \ {0} /\ Word \in Nat /\ Word % Lba28 = 0 /\ Word > 1
  /\ Batch \in 1 .. Lba28 /\ UsbBatch \in Nat \ {0} /\ Tries \in Nat \ {0}
  /\ {Spt, FewHeads, ManyHeads, MaxCylinders, FloppyHeads, FloppySpt} \subseteq Nat \ {0}
  /\ FewHeads <= ManyHeads /\ MaxCylinders * ManyHeads * Spt <= Word
  /\ Counts \subseteq Nat /\ MaxFaults \in Nat
  /\ \A m \in Machines : IsMachine(m)

VARIABLES
  machine,
  drive,   \* the IDE drives: [st: status, at: next sector, left: sectors still to send]
  usb,     \* the USB ports: [on: enabled, addr: of the device]
  hdd,     \* bios_hdd_*: the disk in use
  cand,    \* bios_hdd_ide_candidate and bios_hdd_usb_candidate
  snap,    \* shared_storage_snapshot: [hdd, cand]
  pc, app, \* where the program is, and which program: "stage3", "linux", "legacy"
  at,      \* the slot or port being scanned
  try,     \* attempts of ide_identify
  todo,    \* the kinds of disk the app has still to try
  rd,      \* the read in progress: [slot, lba, left, ok, back]
  togo,    \* the sectors still to come of the command sent
  buf,     \* the sectors read
  req,     \* the request of the booted program
  boot,    \* what was booted: [from, id]
  faults

scan == <<machine, cand, snap, app, at, try, todo, boot>>
vars == <<scan, drive, usb, hdd, pc, rd, togo, buf, req, faults>>

-----------------------------------------------------------------------------
None == [id |-> "none", kind |-> "none", size |-> 0, mbr |-> FALSE]

NoDisk == [kind |-> "none", slot |-> 0, mbr |-> FALSE, total |-> 0,
           heads |-> FewHeads, cylinders |-> 1]
NoRead == [slot |-> 0, lba |-> 0, left |-> 0, ok |-> TRUE, back |-> "none"]

Quiet(st) == [st |-> st, at |-> 0, left |-> 0]

(* bios_hdd_set_geometry.                                                  *)
Geometry(total) ==
  LET heads == IF total > MaxCylinders * FewHeads * Spt THEN ManyHeads ELSE FewHeads
      whole == total \div (heads * Spt)
  IN [heads |-> heads,
      cylinders |-> IF whole = 0 THEN 1 ELSE IF whole > MaxCylinders THEN MaxCylinders ELSE whole]

Disk(kind, slot, mbr, total) ==
  [kind |-> kind, slot |-> slot, mbr |-> mbr, total |-> total,
   heads |-> Geometry(total).heads, cylinders |-> Geometry(total).cylinders]

Snapshot(disk, candidates) == [hdd |-> disk, cand |-> candidates]

(* The devices that answer to address 1, and whether the device in port p  *)
(* is alone with its address there.                                        *)
Answering == {p \in 1 .. 2 : usb[p].on /\ usb[p].addr = 1}
Alone(p, addr) == \A q \in (1 .. 2) \ {p} : ~(usb[q].on /\ usb[q].addr = addr)

Fault == faults > 0 /\ faults' = faults - 1

-----------------------------------------------------------------------------
Init ==
  /\ machine \in Machines
  /\ drive = [s \in 1 .. 4 |-> Quiet("ready")]
  /\ usb = [p \in 1 .. 2 |-> [on |-> FALSE, addr |-> 0]]
  /\ hdd = NoDisk /\ cand = [ide |-> NoDisk, usb |-> NoDisk]
  /\ snap = Snapshot(NoDisk, cand)
  /\ pc = "identify" /\ app = "stage3" /\ at = 1 /\ try = 1 /\ todo = << >>
  /\ rd = NoRead /\ togo = 0 /\ buf = << >>
  /\ req = << >> /\ boot = [from |-> "none", id |-> "none"]
  /\ faults = MaxFaults

(* A drive finishes what it is doing: a mode change or an IDENTIFY that    *)
(* took long, or the search for a sector, which it may not be able to      *)
(* read.                                                                   *)
DriveProceeds(s) ==
  LET d == drive[s] IN
  /\ \/ d.st = "slow" /\ drive' = [drive EXCEPT ![s].st = "ready"] /\ UNCHANGED faults
     \/ d.st \in {"seek", "settle"}
        /\ drive' = [drive EXCEPT ![s] = IF d.left = 0 THEN Quiet("ready")
                                         ELSE IF d.at < machine.ide[s].size
                                         THEN [d EXCEPT !.st = "data"] ELSE Quiet("error")]
        /\ UNCHANGED faults
     \/ d.st = "seek" /\ Fault /\ drive' = [drive EXCEPT ![s] = Quiet("error")]
  /\ UNCHANGED <<scan, usb, hdd, pc, rd, togo, buf, req>>

-----------------------------------------------------------------------------
(* The scan of the IDE slots.                                              *)
NextSlot ==
  /\ try' = 1
  /\ IF at < 4 THEN at' = at + 1 /\ pc' = "identify"
     ELSE at' = 1 /\ pc' = "ports"

FaultCounted(n) == n
Counted(n) == n + 1

Identify ==
  LET d == machine.ide[at] IN
  /\ pc = "identify"
  /\ \/ /\ d.kind \notin {"ata", "dead"}       \* no drive, or a signature
        /\ NextSlot /\ UNCHANGED <<drive, faults>>
     \/ /\ d.kind = "ata" /\ drive[at].st # "slow"
        /\ drive' = [drive EXCEPT ![at] = Quiet("ready")]
        /\ IF d.size # 0 THEN pc' = "mode" /\ UNCHANGED <<at, try>> ELSE NextSlot
        /\ UNCHANGED faults
     \/ /\ \/ d.kind = "ata" /\ Fault
           \/ d.kind = "dead" /\ UNCHANGED faults
        /\ \E st \in {"ready", "error", "slow"} : drive' = [drive EXCEPT ![at] = Quiet(st)]
        /\ IF try < Tries THEN try' = Counted(try) /\ UNCHANGED <<pc, at>> ELSE NextSlot
  /\ UNCHANGED <<machine, usb, hdd, cand, snap, app, todo, rd, togo, buf, req, boot>>

(* ide_set_transfer_mode, whose failure is ignored.                        *)
SetMode ==
  \/ UNCHANGED <<drive, faults>>
  \/ Fault /\ \E st \in {"error", "slow"} : drive' = [drive EXCEPT ![at] = Quiet(st)]

(* bios_hdd_register: the first IDE disk stays.                            *)
RegisterIde(disk) ==
  IF cand.ide = NoDisk THEN hdd' = disk /\ cand' = [cand EXCEPT !.ide = disk]
  ELSE UNCHANGED <<hdd, cand>>

RegisterUsb(disk) == hdd' = disk /\ cand' = [cand EXCEPT !.usb = disk]

Register ==
  /\ pc = "mode" /\ SetMode
  /\ RegisterIde(Disk("ide", at, FALSE, machine.ide[at].size))
  /\ rd' = [slot |-> at, lba |-> 0, left |-> 1, ok |-> TRUE, back |-> "mbr"]
  /\ buf' = << >> /\ pc' = "send"
  /\ UNCHANGED <<machine, usb, snap, app, at, try, todo, togo, req, boot>>

FaultIsCurrent(slot) == hdd.kind = "ide"
IsCurrent(slot) == hdd.kind = "ide" /\ hdd.slot = slot

ScanMbr ==
  /\ pc = "mbr"
  /\ IF rd.ok /\ IsCurrent(at)
     THEN /\ hdd' = [hdd EXCEPT !.mbr = machine.ide[at].mbr]
          /\ cand' = [cand EXCEPT !.ide = hdd']
     ELSE UNCHANGED <<hdd, cand>>
  /\ NextSlot /\ rd' = NoRead /\ buf' = << >>
  /\ UNCHANGED <<machine, drive, usb, snap, app, todo, togo, req, boot, faults>>

-----------------------------------------------------------------------------
(* ide_read_lba28.                                                         *)
Command(lba, n) ==
  [st |-> "seek", at |-> lba % Lba28,
   left |-> IF n % Batch = 0 THEN Batch ELSE n % Batch]

(* After a sector the drive takes 400 ns to show that it is busy.          *)
FaultDelay(d) == d
Delay(d) == IF d.left = 0 THEN Quiet("ready") ELSE [d EXCEPT !.st = "seek"]

Chunk == IF rd.left > Batch THEN Batch ELSE rd.left

(* ide_wait_cmd_ready and ide_wait_drq fail on the error bit, also on that *)
(* of an earlier command, and when the time is over.                       *)
CmdReadyFails(st) ==
  \/ st \in {"error", "data"} /\ UNCHANGED faults
  \/ st \in {"slow", "seek"} /\ Fault

DrqFails(st) == \/ st = "error" /\ UNCHANGED faults
                \/ st = "seek" /\ Fault

Send ==
  LET d == drive[rd.slot] IN
  /\ pc = "send"
  /\ \/ /\ d.st = "ready"
        /\ drive' = [drive EXCEPT ![rd.slot] = Command(rd.lba, Chunk)]
        /\ togo' = Chunk /\ pc' = "drq" /\ UNCHANGED <<rd, faults>>
     \/ /\ CmdReadyFails(d.st)
        /\ rd' = [rd EXCEPT !.ok = FALSE] /\ pc' = rd.back
        /\ UNCHANGED <<drive, togo>>
  /\ UNCHANGED <<scan, usb, hdd, buf, req>>

Receive ==
  LET d == drive[rd.slot]
      what == IF d.st = "data" THEN <<machine.ide[rd.slot].id, d.at>> ELSE <<"noise", 0>>
  IN
  /\ pc = "drq"
  /\ \/ /\ d.st \in {"data", "settle"}
        /\ buf' = Append(buf, what) /\ togo' = togo - 1
        /\ drive' = [drive EXCEPT ![rd.slot] =
                      Delay([st |-> "settle", at |-> d.at + 1, left |-> d.left - 1])]
        /\ IF togo > 1 THEN UNCHANGED <<pc, rd>>
           ELSE /\ rd' = [rd EXCEPT !.lba = (@ + Chunk) % Word, !.left = @ - Chunk]
                /\ pc' = rd.back
        /\ UNCHANGED faults
     \/ /\ DrqFails(d.st)
        /\ rd' = [rd EXCEPT !.ok = FALSE] /\ pc' = rd.back
        /\ UNCHANGED <<drive, togo, buf>>
  /\ UNCHANGED <<scan, usb, hdd, req>>

-----------------------------------------------------------------------------
(* usb_scan and usb_refresh_boot_device.  Resetting the controller         *)
(* disables both ports; resetting a port enables it and sets its device to *)
(* address 0; enumeration gives every device address 1.                    *)
Ports ==
  /\ pc = "ports"
  /\ \/ /\ usb' = [p \in 1 .. 2 |-> [usb[p] EXCEPT !.on = FALSE]]
        /\ pc' = "port" /\ UNCHANGED faults
     \/ Fault /\ pc' = "selected" /\ UNCHANGED usb
  /\ at' = 1 /\ rd' = [rd EXCEPT !.ok = FALSE]
  /\ UNCHANGED <<machine, drive, hdd, cand, snap, app, try, todo, togo, buf, req, boot>>

NextPort == IF at < 2 THEN at' = at + 1 /\ pc' = "port"
            ELSE at' = 1 /\ pc' = "selected"

PortFails ==
  LET d == machine.usb[at] IN
  /\ pc = "port"
  /\ \/ d = None /\ UNCHANGED <<usb, faults>>
     \/ d # None /\ Fault /\ UNCHANGED usb             \* the reset of the port
     \/ /\ d # None
        /\ \E addr \in 0 .. 1 :          \* the address it got before it failed
             /\ usb' = [usb EXCEPT ![at] = [on |-> TRUE, addr |-> addr]]
             /\ addr = 1 => Alone(at, 0)
             /\ \/ Fault
                \/ /\ UNCHANGED faults
                   /\ IF addr = 0 THEN ~Alone(at, 0) ELSE d.kind = "other" \/ ~Alone(at, 1)
  /\ NextPort
  /\ UNCHANGED <<machine, drive, hdd, cand, snap, app, try, todo, rd, togo, buf, req, boot>>

(* A disk that answers is registered.  The scan goes on, and the last disk *)
(* stays; the refresh ends with the first.                                 *)
PortFound ==
  LET d == machine.usb[at] IN
  /\ pc = "port" /\ d.kind = "msd" /\ Alone(at, 0) /\ Alone(at, 1)
  /\ usb' = [usb EXCEPT ![at] = [on |-> TRUE, addr |-> 1]]
  /\ RegisterUsb(Disk("usb", 0, d.mbr, d.size))
  /\ rd' = [rd EXCEPT !.ok = TRUE]
  /\ IF app = "stage3" THEN NextPort ELSE at' = 1 /\ pc' = "selected"
  /\ UNCHANGED <<machine, drive, snap, app, try, todo, togo, buf, req, boot, faults>>

(* storage_scan ends: an IDE disk is preferred.  The outcome is exported,  *)
(* unless the heap has no room for it.                                     *)
Preferred == IF cand.ide # NoDisk THEN cand.ide ELSE cand.usb

Export ==
  /\ pc = "selected" /\ app = "stage3"
  /\ hdd' = Preferred
  /\ \/ snap' = Snapshot(hdd', cand) /\ UNCHANGED faults
     \/ Fault /\ UNCHANGED snap
  /\ pc' = "import" /\ app' = "linux" /\ rd' = NoRead
  /\ UNCHANGED <<machine, drive, usb, cand, at, try, todo, togo, buf, req, boot>>

-----------------------------------------------------------------------------
(* An app starts with the snapshot and tries disks in the order given.     *)
Import ==
  /\ pc = "import"
  /\ hdd' = snap.hdd /\ cand' = snap.cand
  /\ IF app = "legacy" /\ machine.floppy # 0
     THEN pc' = "guest" /\ boot' = [from |-> "floppy", id |-> "floppy"]
     ELSE pc' = "select" /\ UNCHANGED boot
  /\ todo' = machine.prio
  /\ UNCHANGED <<machine, drive, usb, snap, app, at, try, rd, togo, buf, req, faults>>

(* bios_hdd_select_kind.                                                   *)
Select ==
  /\ pc = "select" /\ todo # << >>
  /\ todo' = Tail(todo) /\ rd' = [rd EXCEPT !.ok = (cand[Head(todo)] # NoDisk)]
  /\ IF cand[Head(todo)] = NoDisk THEN pc' = "selected" /\ UNCHANGED hdd
     ELSE /\ hdd' = cand[Head(todo)]
          /\ pc' = IF Head(todo) = "usb" THEN "ports" ELSE "selected"
  /\ UNCHANGED <<machine, drive, usb, cand, snap, app, at, try, togo, buf, req, boot, faults>>

(* The start of bios_hdd_read_sectors; what follows it is in back.         *)
FaultInRange(lba, n) == (lba + n) % Word < hdd.total
InRange(lba, n) == (lba + n) % Word <= hdd.total

Read(lba, n) ==
  /\ rd' = [slot |-> hdd.slot, lba |-> lba, left |-> n, back |-> "chunk",
            ok |-> hdd.kind # "none" /\ n # 0 /\ InRange(lba, n)]
  /\ pc' = "chunk" /\ buf' = << >>

(* The disk selected is read: by the Linux loader for its own purposes, by *)
(* the legacy app for the boot sector.                                     *)
Selected ==
  /\ pc = "selected" /\ app # "stage3"
  /\ IF rd.ok /\ (app = "linux" \/ hdd.mbr) THEN Read(0, 1)
     ELSE pc' = "select" /\ UNCHANGED <<rd, buf>>
  /\ UNCHANGED <<scan, drive, usb, hdd, togo, req, faults>>

(* A chunk of bios_hdd_read_sectors.                                       *)
ReadIde ==
  /\ pc = "chunk" /\ rd.ok /\ rd.left > 0 /\ hdd.kind = "ide"
  /\ pc' = "send"
  /\ UNCHANGED <<scan, drive, usb, hdd, rd, togo, buf, req, faults>>

ReadUsb ==
  LET n == IF rd.left > UsbBatch THEN UsbBatch ELSE rd.left IN
  /\ pc = "chunk" /\ rd.ok /\ rd.left > 0 /\ hdd.kind = "usb"
  /\ \/ \E p \in Answering :
          /\ Answering = {p} /\ machine.usb[p].kind = "msd" /\ rd.lba + n <= machine.usb[p].size
          /\ buf' = buf \o [i \in 1 .. n |-> <<machine.usb[p].id, rd.lba + i - 1>>]
          /\ rd' = [rd EXCEPT !.lba = (@ + n) % Word, !.left = @ - n]
          /\ UNCHANGED faults
     \/ /\ \/ Fault
           \/ /\ UNCHANGED faults
              /\ \/ Cardinality(Answering) # 1
                 \/ \E p \in Answering : rd.lba + n > machine.usb[p].size
                 \/ boot.from = "floppy"        \* the toggles are those of the scan
        /\ rd' = [rd EXCEPT !.ok = FALSE] /\ UNCHANGED buf
  /\ UNCHANGED <<scan, drive, usb, hdd, pc, togo, req>>

(* bios_hdd_read_sectors returns.                                          *)
ReadEnds ==
  /\ pc = "chunk" /\ (~rd.ok \/ rd.left = 0)
  /\ \/ boot.from # "none" /\ pc' = "answer" /\ UNCHANGED boot
     \/ /\ boot.from = "none" /\ app = "legacy" /\ rd.ok
        /\ pc' = "guest" /\ boot' = [from |-> "disk", id |-> buf[1][1]]
     \/ /\ boot.from = "none" /\ (app = "linux" \/ ~rd.ok)
        /\ pc' = "select" /\ UNCHANGED boot
  /\ UNCHANGED <<machine, drive, usb, hdd, cand, snap, app, at, try, todo, rd, togo, buf, req, faults>>

(* The Linux loader gives up and returns, or the legacy app halts.         *)
NoneLeft ==
  /\ pc = "select" /\ todo = << >>
  /\ IF app = "linux" THEN app' = "legacy" /\ pc' = "import" ELSE pc' = "halted" /\ UNCHANGED app
  /\ rd' = NoRead /\ buf' = << >>
  /\ UNCHANGED <<machine, drive, usb, hdd, cand, snap, at, try, todo, togo, req, boot, faults>>

-----------------------------------------------------------------------------
(* INT 13h.  A request is [fn, lba, c, h, s, n]: "ext" reads n sectors     *)
(* from lba (AH=42), "chs" from cylinder, head and sector (AH=02),         *)
(* "floppy" the same from drive 0, "other" asks for geometry or type.      *)
ChsFirst(r) == ((r.c * hdd.heads) + r.h) * Spt + r.s - 1
FloppyFirst(r) == (r.c * FloppyHeads + r.h) * FloppySpt + r.s - 1

Answer(ok, sectors) == rd' = [NoRead EXCEPT !.ok = ok] /\ buf' = sectors /\ pc' = "answer"

(* legacy_floppy_read_sectors: sectors of the image, or zeros.             *)
FloppyHolds(first, n) == first <= machine.floppy /\ n <= machine.floppy - first

FloppyRead(r) ==
  /\ r.fn = "floppy"
  /\ IF /\ machine.floppy # 0 /\ r.s \in 1 .. FloppySpt /\ r.n # 0 /\ r.h < FloppyHeads
        /\ FloppyHolds(FloppyFirst(r), r.n)
     THEN Answer(TRUE, [i \in 1 .. r.n |-> <<"floppy", FloppyFirst(r) + i - 1>>])
     ELSE Answer(FALSE, << >>)

ExtRead(r) ==
  /\ r.fn = "ext"
  /\ IF hdd.kind # "none" /\ r.n # 0 THEN Read(r.lba, r.n) ELSE Answer(FALSE, << >>)

ChsRead(r) ==
  /\ r.fn = "chs"
  /\ IF hdd.kind # "none" /\ r.s # 0 /\ r.n # 0 /\ r.h < hdd.heads /\ r.c < hdd.cylinders
     THEN Read(ChsFirst(r), r.n) ELSE Answer(FALSE, << >>)

Parameters(r) == r.fn = "other" /\ Answer(hdd.kind # "none", << >>)

Int13(r) ==
  /\ pc = "guest" /\ req' = r
  /\ FloppyRead(r) \/ ExtRead(r) \/ ChsRead(r) \/ Parameters(r)
  /\ UNCHANGED <<scan, drive, usb, hdd, togo, faults>>

(* The requests of a program: any, also outside the disk.                  *)
Requests ==
  [fn : {"ext"}, lba : 0 .. Word - 1, n : Counts]
  \cup [fn : {"chs"}, c : 0 .. MaxCylinders, h : 0 .. ManyHeads, s : 0 .. Spt, n : Counts]
  \cup [fn : {"floppy"}, c : 0 .. 1, h : 0 .. FloppyHeads, s : 0 .. FloppySpt + 1, n : Counts]
  \cup [fn : {"other"}]

Answered ==
  /\ pc = "answer" /\ pc' = "guest"
  /\ rd' = NoRead /\ buf' = << >> /\ req' = << >>
  /\ UNCHANGED <<scan, drive, usb, hdd, togo, faults>>

-----------------------------------------------------------------------------
Program ==
  \/ Identify \/ Register \/ ScanMbr \/ Send \/ Receive
  \/ Ports \/ PortFails \/ PortFound \/ Export
  \/ Import \/ Select \/ Selected \/ ReadIde \/ ReadUsb \/ ReadEnds \/ NoneLeft \/ Answered

Next == Program \/ (\E s \in 1 .. 4 : DriveProceeds(s)) \/ (\E r \in Requests : Int13(r))

(* The program runs alone; a drive that is searching gets somewhere, or    *)
(* the program counts it as late.                                          *)
Spec == Init /\ [][Next]_vars /\ WF_vars(Program) /\ \A s \in 1 .. 4 : WF_vars(DriveProceeds(s))

-----------------------------------------------------------------------------
(* What a program may expect of cylinder, head and sector: the sectors are *)
(* counted with the sector first, then the head, then the cylinder.        *)
Before(heads, spt, r) ==
  Cardinality({p \in (0 .. r.c) \X (0 .. heads - 1) \X (1 .. spt) :
    \/ p[1] < r.c
    \/ p[1] = r.c /\ p[2] < r.h
    \/ p[1] = r.c /\ p[2] = r.h /\ p[3] < r.s})

Ids == {machine.ide[s].id : s \in 1 .. 4} \cup {machine.usb[p].id : p \in 1 .. 2}

Begins(r) == CASE r.fn = "ext"    -> r.lba
               [] r.fn = "chs"    -> Before(hdd.heads, Spt, r)
               [] r.fn = "floppy" -> Before(FloppyHeads, FloppySpt, r)

(* A read of INT 13h that succeeds brings exactly the sectors asked for,   *)
(* in order, of the disk booted from; after a boot from the floppy, of one *)
(* disk.  Hazards: a transfer before the drive is ready, sector numbers    *)
(* that wrap in the range check or in the command, a late drive whose data *)
(* arrive during a later command, two USB disks with one address.          *)
ReadRight ==
  pc = "answer" /\ rd.ok /\ req.fn # "other" =>
    \E id \in {"floppy"} \cup Ids :
      /\ buf = [i \in 1 .. req.n |-> <<id, Begins(req) + i - 1>>]
      /\ (id = "floppy") = (req.fn = "floppy")
      /\ req.fn # "floppy" /\ boot.from = "disk" => id = boot.id

(* What a disk of each kind must be for the BIOS to boot from it: the      *)
(* first IDE drive that identifies itself, the first USB device.           *)
Bootable(kind) ==
  IF kind = "ide"
  THEN \E s \in 1 .. 4 : /\ machine.ide[s].kind = "ata" /\ machine.ide[s].mbr
                        /\ \A t \in 1 .. s - 1 : machine.ide[t].kind # "ata" \/ machine.ide[t].size = 0
  ELSE \E p \in 1 .. 2 : /\ machine.usb[p].kind = "msd" /\ machine.usb[p].mbr
                        /\ \A q \in 1 .. p - 1 : machine.usb[q] = None

(* The disk booted has an active partition, the record of the IDE disk     *)
(* tells of that very disk, and the BIOS halts only if something failed or *)
(* no disk it considers can be booted.                                     *)
BootHonest ==
  /\ boot.from = "disk" =>
       \/ \E s \in 1 .. 4 : machine.ide[s].id = boot.id /\ machine.ide[s].mbr
       \/ \E p \in 1 .. 2 : machine.usb[p].id = boot.id /\ machine.usb[p].mbr
  /\ cand.ide # NoDisk =>
       LET d == machine.ide[cand.ide.slot] IN (cand.ide.mbr => d.mbr) /\ cand.ide.total = d.size
  /\ pc = "halted" /\ faults = MaxFaults =>
       \A i \in 1 .. Len(machine.prio) : ~Bootable(machine.prio[i])

(* As long as nothing has failed since the machine was switched on, every  *)
(* read within the disk, or within the geometry that AH=08 tells and the   *)
(* disk, succeeds; unless the drive shows the error of an earlier command, *)
(* which the program booted can bring about by asking for sectors so high  *)
(* that the range check wraps.                                             *)
Served(r) ==
  \/ r.fn = "other"
  \/ r.fn = "ext" /\ r.n > 0 /\ r.lba + r.n <= hdd.total
  \/ /\ r.fn = "chs" /\ r.n > 0 /\ r.s \in 1 .. Spt /\ r.h < hdd.heads /\ r.c < hdd.cylinders
     /\ Begins(r) + r.n <= hdd.total
  \/ /\ r.fn = "floppy" /\ r.n > 0 /\ r.s \in 1 .. FloppySpt /\ r.h < FloppyHeads
     /\ Begins(r) + r.n <= machine.floppy

RefusalsHaveCause ==
  /\ pc = "answer" /\ ~rd.ok /\ Served(req)
  /\ faults = MaxFaults /\ boot.from = "disk"
  => hdd.kind = "ide" /\ drive[hdd.slot].st = "error"

(* Whatever drives and devices do, scan and selection end: something is    *)
(* booted, or the BIOS says that there is nothing to boot.                 *)
ScanEnds == <>(boot.from # "none" \/ pc = "halted")
=============================================================================
