--------------------------- MODULE StorageProofs ---------------------------
(* Theorems about the hard disks, for every machine whose disks fit their  *)
(* sector numbers, every request and any number of failing commands.       *)
EXTENDS Storage, FiniteSetTheorems, FunctionTheorems, SequenceTheorems, TLAPS

Slots == 1 .. 4
Ports2 == 1 .. 2

Stages == {"identify", "mode", "mbr", "send", "drq", "ports", "port", "selected",
           "import", "select", "chunk", "guest", "answer", "halted"}

(* What may be in the records of disks.                                    *)
IsIde(d) ==
  \E s \in Slots, active \in BOOLEAN :
    /\ machine.ide[s].kind = "ata" /\ (active => machine.ide[s].mbr)
    /\ d = Disk("ide", s, active, machine.ide[s].size)

IsUsb(d) ==
  \E p \in Ports2 :
    /\ machine.usb[p].kind = "msd"
    /\ d = Disk("usb", 0, machine.usb[p].mbr, machine.usb[p].size)

IsDisk(d) == d = NoDisk \/ IsIde(d) \/ IsUsb(d)

IsCand(c) ==
  /\ DOMAIN c = {"ide", "usb"}
  /\ c.ide = NoDisk \/ IsIde(c.ide)
  /\ c.usb = NoDisk \/ IsUsb(c.usb)

Status == [st : {"ready", "slow", "seek", "data", "error"}, at : Nat, left : Nat]

TypeInv ==
  /\ machine \in Machines
  /\ drive \in [Slots -> Status]
  /\ usb \in [Ports2 -> [on : BOOLEAN, addr : 0 .. 1]]
  /\ IsDisk(hdd) /\ IsCand(cand) /\ IsDisk(snap.hdd) /\ IsCand(snap.cand)
  /\ pc \in Stages /\ app \in {"stage3", "linux", "legacy"}
  /\ todo \in Seq({"ide", "usb"})
  /\ faults \in 0 .. MaxFaults

(* The record of the read in progress.                                     *)
ReadType ==
  rd \in [slot : 0 .. 4, lba : Nat, left : Nat, ok : BOOLEAN, back : {"none", "mbr", "chunk"}]

(* Where the program can be.                                               *)
Reading == pc = "chunk" \/ (pc \in {"send", "drq"} /\ rd.back = "chunk")

PlaceInv ==
  /\ pc \in {"identify", "mode", "mbr"} => app = "stage3" /\ at \in Slots
  /\ pc \in {"mode", "mbr"} => machine.ide[at].kind = "ata"
  /\ pc \in {"send", "drq"} =>
       /\ rd.back = "chunk" \/ (rd.back = "mbr" /\ app = "stage3" /\ at \in Slots /\ rd.slot = at
                                /\ rd.lba = 0 /\ rd.left = 1)
       /\ rd.slot \in Slots /\ machine.ide[rd.slot].kind = "ata"
  /\ pc = "chunk" => rd.back = "chunk"
  /\ pc = "port" => at \in Ports2
  /\ Reading => app # "stage3"
  /\ pc \in {"send", "drq"} /\ rd.back = "chunk" => hdd.kind = "ide"
  /\ Reading /\ hdd.kind = "ide" => rd.slot = hdd.slot
  /\ pc \in {"ports", "port"} /\ app # "stage3" => hdd.kind = "usb"
  /\ pc = "port" /\ app # "stage3" => ~rd.ok
  /\ pc \in {"import", "select"} => app # "stage3"
  /\ pc = "halted" => app = "legacy"
  /\ boot.from \in {"none", "floppy", "disk"}
  /\ boot.from # "none" => app = "legacy" /\ (Reading \/ pc \in {"guest", "answer"})
  /\ pc \in {"guest", "answer"} => boot.from # "none"
  /\ app = "legacy" /\ pc # "import" /\ boot.from # "floppy" => machine.floppy = 0
  /\ (Reading \/ pc = "answer") /\ boot.from # "none" => req \in Requests
  /\ Reading /\ boot.from # "none" =>
       /\ req.fn \in {"ext", "chs"}
       /\ req.fn = "chs" => req.h < hdd.heads /\ req.c < hdd.cylinders /\ req.s # 0

(* The USB disk of an app is the one that answers, except after a boot     *)
(* from the floppy.                                                        *)
UsbFound ==
  \E p \in Ports2 :
    /\ Answering = {p} /\ machine.usb[p].kind = "msd"
    /\ hdd = Disk("usb", 0, machine.usb[p].mbr, machine.usb[p].size)

UsbInv ==
  /\ pc = "port" => /\ \A q \in at .. 2 : ~usb[q].on
                    /\ \A q \in 1 .. at - 1 : machine.usb[q] = None => ~usb[q].on
  /\ /\ app # "stage3" /\ hdd.kind = "usb" /\ boot.from # "floppy"
     /\ (pc = "selected" /\ rd.ok) \/ Reading \/ pc \in {"guest", "answer"}
     => UsbFound

(* The read in progress, of Asked sectors from First.                      *)
First == IF boot.from = "none" THEN 0 ELSE IF req.fn = "ext" THEN req.lba ELSE ChsFirst(req)
Asked == IF boot.from = "none" THEN 1 ELSE req.n

Got == Asked - rd.left + (IF pc = "drq" THEN Chunk - togo ELSE 0)

IdeBrought(k) ==
  \A i \in 1 .. k :
    /\ buf[i] = <<machine.ide[hdd.slot].id, (First + i - 1) % Lba28>>
    /\ (First + i - 1) % Lba28 < machine.ide[hdd.slot].size

UsbBrought(k) ==
  k > 0 => \E p \in Ports2 :
    /\ Answering = {p}
    /\ \A i \in 1 .. k : /\ buf[i] = <<machine.usb[p].id, First + i - 1>>
                         /\ First + i - 1 < machine.usb[p].size

DriveInv ==
  pc = "drq" =>
    /\ togo \in 1 .. Chunk
    /\ drive[rd.slot].st \in {"seek", "data", "error"}
    /\ drive[rd.slot].st # "error" =>
         drive[rd.slot].at = (rd.lba % Lba28) + Chunk - togo /\ drive[rd.slot].left = togo
    /\ drive[rd.slot].st = "data" => drive[rd.slot].at < machine.ide[rd.slot].size

Numbers == First \in 0 .. Word - 1 /\ Asked \in Nat /\ rd.left \in 0 .. Asked

(* A read that goes well has brought the g sectors it should have by now.  *)
Sound(g) ==
  /\ Asked # 0 /\ InRange(First, Asked)
  /\ rd.lba = (First + Asked - rd.left) % Word
  /\ buf \in Seq(Ids \X Nat) /\ Len(buf) = g
  /\ hdd.kind = "ide" => IdeBrought(g)
  /\ hdd.kind = "usb" => UsbBrought(g)
  /\ hdd.kind # "none"

ReadInv ==
  /\ pc \in {"send", "drq"} => rd.ok /\ rd.left \in Nat \ {0} /\ rd.lba \in Nat
  /\ Reading => Numbers
  /\ Reading /\ rd.ok => Sound(Got)

BootedInv ==
  /\ app = "legacy" /\ boot.from = "none" /\ Reading => hdd.mbr
  /\ boot.from = "disk" =>
       /\ hdd.mbr
       /\ \/ hdd.kind = "ide" /\ boot.id = machine.ide[hdd.slot].id
          \/ hdd.kind = "usb" /\ \A p \in Ports2 : Answering = {p} => boot.id = machine.usb[p].id

SafeInv == TypeInv /\ ReadType /\ PlaceInv /\ UsbInv /\ DriveInv /\ ReadInv /\ BootedInv /\ ReadRight

-----------------------------------------------------------------------------
Clean == faults = MaxFaults

Good(s) == machine.ide[s].kind = "ata" /\ machine.ide[s].size # 0

(* The candidate is the first good drive among the first n, and is known   *)
(* to be active if it is among the first m.                                *)
Leads(c, n, m) ==
  /\ c = NoDisk <=> \A s \in 1 .. n : ~Good(s)
  /\ c # NoDisk => /\ c.slot \in 1 .. n /\ Good(c.slot) /\ \A s \in 1 .. c.slot - 1 : ~Good(s)
                   /\ c.slot <= m => c.mbr = machine.ide[c.slot].mbr

Lead(p) ==
  /\ machine.usb[p].kind = "msd" /\ machine.usb[p].mbr
  /\ \A q \in 1 .. p - 1 : machine.usb[q] = None

Scanned(c) == Leads(c.ide, 4, 4) /\ ((\E p \in Ports2 : Lead(p)) => c.usb # NoDisk)

Quietly ==
  boot.from = "none" =>
    \A s \in Slots : machine.ide[s].kind = "ata" =>
      drive[s].st = "ready" \/ (pc = "drq" /\ s = rd.slot /\ drive[s].st \in {"seek", "data"})

ScanInv ==
  /\ app = "stage3" /\ pc \in {"identify", "mode", "send", "drq", "mbr"} => hdd = cand.ide
  /\ pc = "identify" => Leads(cand.ide, at - 1, at - 1)
  /\ pc = "mode" => Good(at) /\ Leads(cand.ide, at - 1, at - 1)
  /\ app = "stage3" /\ pc \in {"send", "drq", "mbr"} =>
       Good(at) /\ Leads(cand.ide, at, at - 1)
  /\ pc = "mbr" => rd.ok
  /\ app = "stage3" /\ pc \in {"ports", "port", "selected"} => Leads(cand.ide, 4, 4)
  /\ app = "stage3" /\ pc = "port" => ((\E p \in 1 .. at - 1 : Lead(p)) => cand.usb # NoDisk)
  /\ app = "stage3" /\ pc = "selected" => Scanned(cand)
  /\ app # "stage3" => Scanned(snap.cand) /\ (pc # "import" => Scanned(cand))

(* The kind of disk the legacy app has selected can still be booted.       *)
OnTrack ==
  \/ pc = "ports"
  \/ pc = "port" /\ \A p \in 1 .. at - 1 : ~Lead(p)
  \/ pc = "selected" /\ rd.ok /\ hdd.mbr
  \/ Reading /\ rd.ok

Waiting(kind) == \E i \in 1 .. Len(todo) : todo[i] = kind

Turn(kind) == Waiting(kind) \/ (kind = hdd.kind /\ OnTrack)

Ordered(kind) == \E i \in 1 .. Len(machine.prio) : machine.prio[i] = kind

TurnInv ==
  /\ pc = "halted" => todo = << >>
  /\ app = "legacy" /\ boot.from = "none" /\ pc # "import" =>
       \A kind \in {"ide", "usb"} : Ordered(kind) /\ Bootable(kind) => Turn(kind)

ServedInv ==
  boot.from = "disk" =>
    /\ hdd.kind = "ide" =>
         IF pc = "drq" THEN drive[hdd.slot].st \in {"seek", "data", "error"}
         ELSE drive[hdd.slot].st \in {"ready", "error"}
    /\ pc = "chunk" /\ ~rd.ok /\ Served(req) => hdd.kind = "ide" /\ drive[hdd.slot].st = "error"

CleanInv == Clean => Quietly /\ ScanInv /\ TurnInv /\ ServedInv
-----------------------------------------------------------------------------
LEMMA MachineFacts ==
  ASSUME machine \in Machines
  PROVE  /\ \A s \in Slots :
              /\ machine.ide[s].size \in 0 .. Lba28 - 1 /\ machine.ide[s].mbr \in BOOLEAN
              /\ machine.ide[s].mbr => machine.ide[s].size > 0
              /\ machine.ide[s].id # "floppy"
         /\ \A p \in Ports2 :
              /\ machine.usb[p].size \in 0 .. Word - 1 /\ machine.usb[p].mbr \in BOOLEAN
              /\ machine.usb[p].mbr => machine.usb[p].size > 0
              /\ machine.usb[p].id # "floppy"
         /\ machine.floppy \in Nat /\ machine.prio \in Seq({"ide", "usb"})
         /\ Word \in Nat \ {0} /\ Lba28 \in Nat \ {0}
PROOF
  BY StorageAssumption DEF IsMachine, IsDevice, Slots, Ports2

LEMMA NoDiskFacts == NoDisk.kind = "none" /\ NoDisk.mbr = FALSE
PROOF
  BY DEF NoDisk

LEMMA IdeFacts ==
  ASSUME machine \in Machines, NEW d, IsIde(d)
  PROVE  /\ d.kind = "ide" /\ d.slot \in Slots /\ d # NoDisk
         /\ machine.ide[d.slot].kind = "ata" /\ d.total = machine.ide[d.slot].size
         /\ d.mbr \in BOOLEAN /\ (d.mbr => machine.ide[d.slot].mbr)
PROOF
  BY NoDiskFacts DEF IsIde, Disk

LEMMA UsbFacts ==
  ASSUME machine \in Machines, NEW d, IsUsb(d)
  PROVE  d.kind = "usb" /\ d # NoDisk /\ d.mbr \in BOOLEAN
PROOF
  <1>1. PICK p \in Ports2 : d = Disk("usb", 0, machine.usb[p].mbr, machine.usb[p].size)
    BY DEF IsUsb
  <1>2. machine.usb[p].mbr \in BOOLEAN
    BY MachineFacts
  <1> QED
    BY <1>1, <1>2, NoDiskFacts DEF Disk

LEMMA SameMachine ==
  ASSUME UNCHANGED machine, NEW d
  PROVE  (IsIde(d) <=> IsIde(d)') /\ (IsUsb(d) <=> IsUsb(d)')
PROOF
  BY DEF IsIde, IsUsb

LEMMA TypeInitial == Init => TypeInv
PROOF
  <1> SUFFICES ASSUME Init PROVE TypeInv
    OBVIOUS
  <1>1. drive \in [Slots -> Status] /\ usb \in [Ports2 -> [on : BOOLEAN, addr : 0 .. 1]]
    BY DEF Init, Quiet, Status, Slots, Ports2
  <1>2. IsCand(cand) /\ IsCand(snap.cand) /\ snap.hdd = NoDisk
    BY DEF Init, Snapshot, IsCand
  <1> QED
    BY <1>1, <1>2, StorageAssumption DEF Init, TypeInv, Stages, IsDisk

(* The types of the drives are kept whenever one gets a proper status.     *)
LEMMA DriveType ==
  ASSUME drive \in [Slots -> Status], NEW s \in Slots, NEW d \in Status,
         drive' = [drive EXCEPT ![s] = d]
  PROVE  drive' \in [Slots -> Status] /\ drive'[s] = d /\ \A t \in Slots : t # s => drive'[t] = drive[t]
PROOF
  OBVIOUS

LEMMA ProceedsType ==
  ASSUME machine \in Machines, drive \in [Slots -> Status], faults \in 0 .. MaxFaults,
         NEW s \in Slots, DriveProceeds(s)
  PROVE  /\ drive' \in [Slots -> Status] /\ \A t \in Slots : t # s => drive'[t] = drive[t]
         /\ drive[s].st \in {"slow", "seek"}
         /\ drive[s].st = "slow" => drive'[s].st = "ready"
         /\ drive[s].st = "seek" =>
              \/ drive'[s].st = "error" /\ (faults' # faults \/ drive[s].at >= machine.ide[s].size)
              \/ drive'[s].st = "ready" /\ drive[s].left = 0
              \/ /\ drive'[s] = [drive[s] EXCEPT !.st = "data"] /\ drive[s].left # 0
                 /\ drive[s].at < machine.ide[s].size
         /\ UNCHANGED <<scan, usb, hdd, pc, rd, togo, buf, req>>
         /\ faults' \in 0 .. MaxFaults /\ (faults = MaxFaults \/ faults' # MaxFaults)
PROOF
  <1> DEFINE d == drive[s]
  <1>0. d \in Status /\ machine.ide[s].size \in Nat /\ MaxFaults \in Nat
    BY MachineFacts, StorageAssumption
  <1>1. d.st # "settle"
    BY <1>0 DEF Status
  <1>2. /\ [d EXCEPT !.st = "ready"] \in Status /\ [d EXCEPT !.st = "ready"].st = "ready"
        /\ [d EXCEPT !.st = "data"] \in Status
        /\ \A st \in {"ready", "error"} : Quiet(st) \in Status /\ Quiet(st).st = st
    BY <1>0 DEF Status, Quiet
  <1>3. Fault => faults' # faults /\ faults' \in 0 .. MaxFaults /\ faults' # MaxFaults
    BY <1>0 DEF Fault
  <1>4. CASE d.st = "slow" /\ drive' = [drive EXCEPT ![s].st = "ready"] /\ UNCHANGED faults
    <2>1. drive' = [drive EXCEPT ![s] = [d EXCEPT !.st = "ready"]]
      BY <1>4
    <2> QED
      BY <1>2, <1>4, <2>1, DriveType DEF DriveProceeds
  <1>5. CASE /\ d.st \in {"seek", "settle"}
             /\ drive' = [drive EXCEPT ![s] = IF d.left = 0 THEN Quiet("ready")
                                              ELSE IF d.at < machine.ide[s].size
                                              THEN [d EXCEPT !.st = "data"] ELSE Quiet("error")]
             /\ UNCHANGED faults
    <2>1. CASE d.left = 0
      BY <1>1, <1>2, <1>5, <2>1, DriveType DEF DriveProceeds
    <2>2. CASE d.left # 0 /\ d.at < machine.ide[s].size
      BY <1>1, <1>2, <1>5, <2>2, DriveType DEF DriveProceeds
    <2>3. CASE d.left # 0 /\ ~(d.at < machine.ide[s].size)
      <3>1. d.at >= machine.ide[s].size
        BY <1>0, <2>3 DEF Status
      <3> QED
        BY <1>1, <1>2, <1>5, <2>3, <3>1, DriveType DEF DriveProceeds
    <2> QED
      BY <2>1, <2>2, <2>3
  <1>6. CASE d.st = "seek" /\ Fault /\ drive' = [drive EXCEPT ![s] = Quiet("error")]
    BY <1>2, <1>3, <1>6, DriveType DEF DriveProceeds
  <1> QED
    BY <1>4, <1>5, <1>6 DEF DriveProceeds

LEMMA ModUnique ==
  ASSUME NEW b \in Nat \ {0}, NEW q \in Int, NEW r \in 0 .. b - 1
  PROVE  (q * b + r) % b = r
PROOF
  OBVIOUS

LEMMA ModSmall ==
  ASSUME NEW b \in Nat \ {0}
  PROVE  b % b = 0 /\ \A r \in 0 .. b - 1 : r % b = r
PROOF
  OBVIOUS

LEMMA ModDef ==
  ASSUME NEW b \in Nat \ {0}, NEW x \in Nat
  PROVE  x % b \in 0 .. b - 1 /\ x \div b \in Nat /\ x = (x \div b) * b + (x % b)
PROOF
  OBVIOUS

(* What the drive is told of a chunk.                                      *)
LEMMA CommandFacts ==
  ASSUME NEW lba \in Nat, NEW n \in 1 .. Batch
  PROVE  Command(lba, n) = [st |-> "seek", at |-> lba % Lba28, left |-> n] /\ Command(lba, n) \in Status
PROOF
  <1>1. Batch \in Nat \ {0} /\ lba % Lba28 \in Nat
    BY StorageAssumption, ModDef
  <1>2. n % Batch = IF n = Batch THEN 0 ELSE n
    BY <1>1, ModSmall
  <1> QED
    BY <1>1, <1>2 DEF Command, Status

LEMMA ChunkFacts ==
  ASSUME rd.left \in Nat \ {0}
  PROVE  Chunk \in 1 .. Batch /\ Chunk <= rd.left /\ Chunk \in Nat
PROOF
  BY StorageAssumption DEF Chunk

(* The records are those of the same machine after a step.                 *)
LEMMA DisksStay ==
  ASSUME UNCHANGED machine
  PROVE  /\ IsDisk(hdd') => IsDisk(hdd)'
         /\ IsCand(cand') => IsCand(cand)'
         /\ IsDisk(snap'.hdd) => IsDisk(snap.hdd)'
         /\ IsCand(snap'.cand) => IsCand(snap.cand)'
PROOF
  <1>1. IsDisk(hdd') => IsDisk(hdd)'
    BY DEF IsDisk, IsIde, IsUsb
  <1>2. IsCand(cand') => IsCand(cand)'
    BY DEF IsCand, IsIde, IsUsb
  <1>3. IsDisk(snap'.hdd) => IsDisk(snap.hdd)'
    BY DEF IsDisk, IsIde, IsUsb
  <1>4. IsCand(snap'.cand) => IsCand(snap.cand)'
    BY DEF IsCand, IsIde, IsUsb
  <1> QED
    BY <1>1, <1>2, <1>3, <1>4

LEMMA TypeStep == TypeInv /\ PlaceInv /\ ReadInv /\ DriveInv /\ [Next]_vars => TypeInv'
PROOF
  <1> SUFFICES ASSUME TypeInv, PlaceInv, ReadInv, DriveInv, [Next]_vars PROVE TypeInv'
    OBVIOUS
  <1> DEFINE Disks == UNCHANGED <<machine, hdd, cand, snap>>
  <1>0. /\ machine \in Machines /\ drive \in [Slots -> Status] /\ faults \in 0 .. MaxFaults
        /\ MaxFaults \in Nat /\ usb \in [Ports2 -> [on : BOOLEAN, addr : 0 .. 1]]
        /\ \A st \in {"ready", "error", "slow"} : Quiet(st) \in Status
    BY StorageAssumption DEF TypeInv, Quiet, Status
  <1>1. Fault => faults' \in 0 .. MaxFaults
    BY <1>0 DEF Fault
  <1>2. Disks => machine' \in Machines /\ IsDisk(hdd)' /\ IsCand(cand)' /\ IsDisk(snap.hdd)' /\ IsCand(snap.cand)'
    BY DisksStay DEF TypeInv
  <1>3. CASE Identify
    <2>1. drive' \in [Slots -> Status]
      BY <1>0, <1>3 DEF Identify, PlaceInv
    <2> QED
      BY <1>0, <1>1, <1>2, <1>3, <2>1 DEF Identify, NextSlot, TypeInv, Stages
  <1>4. CASE Register
    <2>1. at \in Slots /\ UNCHANGED <<machine, snap>>
      BY <1>4 DEF Register, PlaceInv
    <2>2. drive' \in [Slots -> Status] /\ faults' \in 0 .. MaxFaults
      BY <1>0, <1>1, <1>4, <2>1 DEF Register, SetMode
    <2>3. PICK d : d = Disk("ide", at, FALSE, machine.ide[at].size)
      OBVIOUS
    <2>4. IsIde(d)
      BY <1>4, <2>1, <2>3 DEF Register, PlaceInv, IsIde
    <2>5. IsDisk(hdd') /\ IsCand(cand')
      BY <1>4, <2>3, <2>4 DEF Register, RegisterIde, TypeInv, IsCand, IsDisk
    <2>6. IsDisk(hdd)' /\ IsCand(cand)' /\ IsDisk(snap.hdd)' /\ IsCand(snap.cand)'
      BY <2>1, <2>5, DisksStay DEF TypeInv
    <2> QED
      BY <1>0, <1>4, <2>1, <2>2, <2>6 DEF Register, TypeInv, Stages
  <1>5. CASE ScanMbr
    <2>1. at \in Slots /\ UNCHANGED <<machine, snap>>
      BY <1>5 DEF ScanMbr, PlaceInv
    <2>2. ASSUME IsCurrent(at) PROVE IsIde([hdd EXCEPT !.mbr = machine.ide[at].mbr])
      <3>1. PICK s \in Slots, a \in BOOLEAN :
              machine.ide[s].kind = "ata" /\ hdd = Disk("ide", s, a, machine.ide[s].size)
        BY <1>0, <2>2, UsbFacts, NoDiskFacts DEF TypeInv, IsDisk, IsIde, IsCurrent
      <3>2. s = at
        BY <2>2, <3>1 DEF IsCurrent, Disk
      <3>3. [hdd EXCEPT !.mbr = machine.ide[at].mbr] =
              Disk("ide", at, machine.ide[at].mbr, machine.ide[at].size)
        BY <3>1, <3>2 DEF Disk
      <3>4. machine.ide[at].mbr \in BOOLEAN
        BY <1>0, <2>1, MachineFacts
      <3> QED
        BY <2>1, <3>1, <3>2, <3>3, <3>4 DEF IsIde
    <2>3. IsDisk(hdd') /\ IsCand(cand')
      BY <1>5, <2>2 DEF ScanMbr, TypeInv, IsCand, IsDisk
    <2>4. IsDisk(hdd)' /\ IsCand(cand)' /\ IsDisk(snap.hdd)' /\ IsCand(snap.cand)'
      BY <2>1, <2>3, DisksStay DEF TypeInv
    <2> QED
      BY <1>0, <1>5, <2>1, <2>4 DEF ScanMbr, NextSlot, TypeInv, Stages
  <1>6. CASE Send
    <2>1. rd.slot \in Slots /\ Disks
      BY <1>6 DEF Send, PlaceInv, scan
    <2>2. drive' \in [Slots -> Status] /\ faults' \in 0 .. MaxFaults
      <3>1. CASE drive' = [drive EXCEPT ![rd.slot] = Command(rd.lba, Chunk)] /\ UNCHANGED faults
        <4>1. Command(rd.lba, Chunk) \in Status
          BY <1>6, ChunkFacts, CommandFacts DEF Send, ReadInv
        <4> QED
          BY <1>0, <2>1, <3>1, <4>1
      <3>2. CASE CmdReadyFails(drive[rd.slot].st) /\ UNCHANGED drive
        BY <1>0, <1>1, <3>2 DEF CmdReadyFails
      <3> QED
        BY <1>6, <3>1, <3>2 DEF Send
    <2>3. pc' \in Stages
      BY <1>6 DEF Send, PlaceInv, Stages
    <2> QED
      BY <1>0, <1>2, <1>6, <2>1, <2>2, <2>3 DEF Send, scan, TypeInv
  <1>7. CASE Receive
    <2>1. rd.slot \in Slots /\ Disks
      BY <1>7 DEF Receive, PlaceInv, scan
    <2>2. drive' \in [Slots -> Status] /\ faults' \in 0 .. MaxFaults
      <3>1. CASE /\ drive[rd.slot].st \in {"data", "settle"} /\ UNCHANGED faults
                 /\ drive' = [drive EXCEPT ![rd.slot] =
                      Delay([st |-> "settle", at |-> drive[rd.slot].at + 1, left |-> drive[rd.slot].left - 1])]
        <4>1. drive[rd.slot].at \in Nat /\ drive[rd.slot].left \in Nat \ {0}
          <5>1. pc = "drq" /\ rd.left \in Nat \ {0} /\ drive[rd.slot] \in Status
            BY <1>0, <1>7, <2>1 DEF Receive, ReadInv
          <5>2. togo \in Nat \ {0}
            BY <5>1, ChunkFacts DEF DriveInv
          <5>3. drive[rd.slot].left = togo
            BY <3>1, <5>1 DEF DriveInv
          <5> QED
            BY <5>1, <5>2, <5>3 DEF Status
        <4>2. Delay([st |-> "settle", at |-> drive[rd.slot].at + 1, left |-> drive[rd.slot].left - 1]) \in Status
          BY <4>1 DEF Delay, Quiet, Status
        <4> QED
          BY <1>0, <2>1, <3>1, <4>2
      <3>2. CASE DrqFails(drive[rd.slot].st) /\ UNCHANGED drive
        BY <1>0, <1>1, <3>2 DEF DrqFails
      <3> QED
        BY <1>7, <3>1, <3>2 DEF Receive
    <2>3. pc' \in Stages
      BY <1>7 DEF Receive, PlaceInv, Stages
    <2> QED
      BY <1>0, <1>2, <1>7, <2>1, <2>2, <2>3 DEF Receive, scan, TypeInv
  <1>8. CASE Ports
    <2>1. usb' \in [Ports2 -> [on : BOOLEAN, addr : 0 .. 1]]
      BY <1>0, <1>8 DEF Ports, Ports2
    <2> QED
      BY <1>0, <1>1, <1>2, <1>8, <2>1 DEF Ports, TypeInv, Stages
  <1>9. CASE PortFails
    <2>1. at \in Ports2
      BY <1>9 DEF PortFails, PlaceInv
    <2>2. usb' \in [Ports2 -> [on : BOOLEAN, addr : 0 .. 1]]
      <3>1. \A on \in BOOLEAN, addr \in 0 .. 1 :
              [usb EXCEPT ![at] = [on |-> on, addr |-> addr]] \in [Ports2 -> [on : BOOLEAN, addr : 0 .. 1]]
        BY <1>0, <2>1
      <3>2. UNCHANGED usb \/ \E addr \in 0 .. 1 : usb' = [usb EXCEPT ![at] = [on |-> TRUE, addr |-> addr]]
        BY <1>9 DEF PortFails
      <3>3. usb' = usb \/ usb' \in [Ports2 -> [on : BOOLEAN, addr : 0 .. 1]]
        BY <3>1, <3>2
      <3> QED
        BY <1>0, <3>3
    <2> QED
      BY <1>0, <1>1, <1>2, <1>9, <2>2 DEF PortFails, NextPort, TypeInv, Stages
  <1>10. CASE PortFound
    <2>1. at \in Ports2 /\ UNCHANGED <<machine, snap>>
      BY <1>10 DEF PortFound, PlaceInv
    <2>2. usb' \in [Ports2 -> [on : BOOLEAN, addr : 0 .. 1]]
      BY <1>0, <1>10, <2>1 DEF PortFound
    <2>3. PICK d : d = Disk("usb", 0, machine.usb[at].mbr, machine.usb[at].size)
      OBVIOUS
    <2>4. IsUsb(d)
      BY <1>10, <2>1, <2>3 DEF PortFound, IsUsb
    <2>5. IsDisk(hdd') /\ IsCand(cand')
      BY <1>10, <2>3, <2>4 DEF PortFound, RegisterUsb, TypeInv, IsCand, IsDisk
    <2>6. IsDisk(hdd)' /\ IsCand(cand)' /\ IsDisk(snap.hdd)' /\ IsCand(snap.cand)'
      BY <2>1, <2>5, DisksStay DEF TypeInv
    <2> QED
      BY <1>0, <1>10, <2>2, <2>6 DEF PortFound, NextPort, TypeInv, Stages
  <1>11. CASE Export
    <2>1. IsDisk(hdd') /\ IsCand(cand') /\ IsDisk(snap'.hdd) /\ IsCand(snap'.cand)
      BY <1>11 DEF Export, Preferred, Snapshot, TypeInv, IsCand, IsDisk
    <2>2. IsDisk(hdd)' /\ IsCand(cand)' /\ IsDisk(snap.hdd)' /\ IsCand(snap.cand)'
      BY <1>11, <2>1, DisksStay DEF Export
    <2> QED
      BY <1>0, <1>1, <1>11, <2>2 DEF Export, TypeInv, Stages
  <1>12. CASE Import
    <2>1. IsDisk(hdd)' /\ IsCand(cand)' /\ IsDisk(snap.hdd)' /\ IsCand(snap.cand)'
      BY <1>12, DisksStay DEF Import, TypeInv
    <2>2. machine.prio \in Seq({"ide", "usb"})
      BY <1>0, MachineFacts
    <2> QED
      BY <1>0, <1>12, <2>1, <2>2 DEF Import, TypeInv, Stages
  <1>13. CASE Select
    <2>1. Head(todo) \in {"ide", "usb"} /\ Tail(todo) \in Seq({"ide", "usb"})
      BY <1>13 DEF Select, TypeInv
    <2>2. IsDisk(cand[Head(todo)])
      BY <2>1 DEF TypeInv, IsCand, IsDisk
    <2>3. IsDisk(hdd') /\ UNCHANGED <<machine, cand, snap>>
      BY <1>13, <2>2 DEF Select, TypeInv
    <2>4. IsDisk(hdd)' /\ IsCand(cand)' /\ IsDisk(snap.hdd)' /\ IsCand(snap.cand)'
      BY <2>3, DisksStay DEF TypeInv
    <2> QED
      BY <1>0, <1>13, <2>1, <2>4 DEF Select, TypeInv, Stages
  <1>14. CASE Selected
    BY <1>0, <1>2, <1>14 DEF Selected, scan, TypeInv, Stages, Read
  <1>15. CASE ReadIde
    BY <1>0, <1>2, <1>15 DEF ReadIde, scan, TypeInv, Stages
  <1>16. CASE ReadUsb
    BY <1>0, <1>1, <1>2, <1>16 DEF ReadUsb, scan, TypeInv, Stages
  <1>17. CASE ReadEnds
    BY <1>0, <1>2, <1>17 DEF ReadEnds, TypeInv, Stages
  <1>18. CASE NoneLeft
    BY <1>0, <1>2, <1>18 DEF NoneLeft, TypeInv, Stages
  <1>19. CASE Answered
    BY <1>0, <1>2, <1>19 DEF Answered, scan, TypeInv, Stages
  <1>20. ASSUME NEW s \in Slots, DriveProceeds(s) PROVE TypeInv'
    BY <1>0, <1>2, <1>20, ProceedsType DEF scan, TypeInv
  <1>21. ASSUME NEW r \in Requests, Int13(r) PROVE TypeInv'
    BY <1>0, <1>2, <1>21 DEF Int13, FloppyRead, ExtRead, ChsRead, Parameters, Answer, Read, scan, TypeInv, Stages
  <1>22. CASE UNCHANGED vars
    BY <1>0, <1>2, <1>22 DEF vars, scan, TypeInv
  <1> QED
    BY <1>3, <1>4, <1>5, <1>6, <1>7, <1>8, <1>9, <1>10, <1>11, <1>12, <1>13, <1>14, <1>15, <1>16,
       <1>17, <1>18, <1>19, <1>20, <1>21, <1>22 DEF Next, Program, Slots

LEMMA WordFacts ==
  /\ Word \in Nat \ {0} /\ Lba28 \in Nat \ {0} /\ Lba28 <= Word /\ Lba28 - 1 \in Nat
  /\ \E k \in Nat \ {0} : Word = k * Lba28
PROOF
  <1>1. Word \in Nat \ {0} /\ Lba28 \in Nat \ {0} /\ Word % Lba28 = 0
    BY StorageAssumption
  <1>2. Word = (Word \div Lba28) * Lba28 /\ Word \div Lba28 \in Nat
    BY <1>1, ModDef
  <1>3. PICK k \in Nat : Word = k * Lba28
    BY <1>2
  <1>4. k # 0
    BY <1>1, <1>3
  <1>5. k * Lba28 >= Lba28
    BY <1>1, <1>4
  <1> QED
    BY <1>1, <1>3, <1>4, <1>5

LEMMA SectorFacts ==
  ASSUME NEW x \in Nat
  PROVE  x % Lba28 \in Nat /\ x % Lba28 \in 0 .. Lba28 - 1
PROOF
  <1>1. x % Lba28 \in 0 .. Lba28 - 1
    BY WordFacts, ModDef
  <1> QED
    BY <1>1, WordFacts

LEMMA GeometryFacts ==
  ASSUME NEW total \in Nat
  PROVE  Geometry(total).heads \in 1 .. ManyHeads /\ Geometry(total).cylinders \in 1 .. MaxCylinders
PROOF
  <1> DEFINE heads == IF total > MaxCylinders * FewHeads * Spt THEN ManyHeads ELSE FewHeads
             whole == total \div (heads * Spt)
  <1>1. /\ Spt \in Nat \ {0} /\ MaxCylinders \in Nat \ {0} /\ FewHeads \in Nat \ {0}
        /\ ManyHeads \in Nat \ {0} /\ FewHeads <= ManyHeads
    BY StorageAssumption
  <1>2. heads \in 1 .. ManyHeads
    BY <1>1
  <1>3. PICK b : b = heads * Spt
    OBVIOUS
  <1>4. b \in Nat \ {0}
    BY <1>1, <1>2, <1>3
  <1>5. whole \in Nat
    BY <1>3, <1>4, ModDef
  <1> QED
    BY <1>1, <1>2, <1>5 DEF Geometry

DiskRecords ==
  [kind : {"none", "ide", "usb"}, slot : 0 .. 4, mbr : BOOLEAN, total : 0 .. Word - 1,
   heads : 1 .. ManyHeads, cylinders : 1 .. MaxCylinders]

LEMMA DiskTypes ==
  ASSUME machine \in Machines, NEW d, IsDisk(d)
  PROVE  /\ d \in DiskRecords
         /\ d.kind = "ide" => IsIde(d)
         /\ d.kind = "usb" => IsUsb(d)
         /\ d.kind = "none" => d = NoDisk
PROOF
  <1>1. CASE d = NoDisk
    BY <1>1, StorageAssumption DEF NoDisk, DiskRecords
  <1>2. CASE IsIde(d)
    <2>1. PICK s \in Slots, active \in BOOLEAN : d = Disk("ide", s, active, machine.ide[s].size)
      BY <1>2 DEF IsIde
    <2>2. PICK n : n = machine.ide[s].size
      OBVIOUS
    <2>3. n \in 0 .. Lba28 - 1
      BY <2>2, MachineFacts
    <2>4. n \in Nat /\ n \in 0 .. Word - 1
      BY <2>3, WordFacts
    <2> QED
      BY <1>2, <2>1, <2>2, <2>4, GeometryFacts DEF Disk, DiskRecords, Slots
  <1>3. CASE IsUsb(d)
    <2>1. PICK p \in Ports2 : d = Disk("usb", 0, machine.usb[p].mbr, machine.usb[p].size)
      BY <1>3 DEF IsUsb
    <2>2. PICK n : n = machine.usb[p].size
      OBVIOUS
    <2>3. n \in 0 .. Word - 1 /\ machine.usb[p].mbr \in BOOLEAN
      BY <2>2, MachineFacts
    <2>4. n \in Nat
      BY <2>3, WordFacts
    <2> QED
      BY <1>3, <2>1, <2>2, <2>3, <2>4, GeometryFacts DEF Disk, DiskRecords
  <1> QED
    BY <1>1, <1>2, <1>3 DEF IsDisk

LEMMA RequestFacts ==
  ASSUME NEW r \in Requests
  PROVE  /\ r.fn \in {"ext", "chs", "floppy", "other"}
         /\ r.fn = "ext" => r.lba \in 0 .. Word - 1 /\ r.lba \in Nat /\ r.n \in Nat
         /\ r.fn = "chs" => r.c \in 0 .. MaxCylinders /\ r.c \in Nat /\ r.h \in Nat /\ r.s \in 0 .. Spt /\ r.n \in Nat
         /\ r.fn = "floppy" => r.c \in Nat /\ r.h \in Nat /\ r.s \in Nat /\ r.n \in Nat
PROOF
  <1>1. \A n \in Counts : n \in Nat
    BY StorageAssumption
  <1>2. {Spt, ManyHeads, MaxCylinders, FloppyHeads, FloppySpt, Word} \subseteq Nat
    BY StorageAssumption
  <1>3. CASE r \in [fn : {"ext"}, lba : 0 .. Word - 1, n : Counts]
    BY <1>1, <1>2, <1>3
  <1>4. CASE r \in [fn : {"chs"}, c : 0 .. MaxCylinders, h : 0 .. ManyHeads, s : 0 .. Spt, n : Counts]
    BY <1>1, <1>2, <1>4
  <1>5. CASE r \in [fn : {"floppy"}, c : 0 .. 1, h : 0 .. FloppyHeads, s : 0 .. FloppySpt + 1, n : Counts]
    BY <1>1, <1>2, <1>5
  <1>6. CASE r \in [fn : {"other"}]
    BY <1>6
  <1> QED
    BY <1>3, <1>4, <1>5, <1>6 DEF Requests

(* Of a disk in use.                                                       *)
LEMMA HddFacts ==
  ASSUME TypeInv
  PROVE  /\ hdd \in DiskRecords /\ hdd.heads \in Nat \ {0} /\ hdd.slot \in 0 .. 4
         /\ hdd.kind = "ide" => IsIde(hdd) /\ hdd.slot \in Slots /\ machine.ide[hdd.slot].kind = "ata"
                                /\ hdd.total = machine.ide[hdd.slot].size
         /\ hdd.kind = "usb" => IsUsb(hdd)
         /\ hdd.kind = "none" => hdd = NoDisk
PROOF
  <1>1. machine \in Machines /\ IsDisk(hdd)
    BY DEF TypeInv
  <1>2. ManyHeads \in Nat
    BY StorageAssumption
  <1> QED
    BY <1>1, <1>2, DiskTypes, IdeFacts DEF DiskRecords

LEMMA ChsType ==
  ASSUME TypeInv, NEW r \in Requests, r.fn = "chs", r.s # 0
  PROVE  ChsFirst(r) \in Nat
PROOF
  <1>1. hdd.heads \in Nat /\ Spt \in Nat
    BY HddFacts, StorageAssumption
  <1>2. r.c \in Nat /\ r.h \in Nat /\ r.s \in Nat \ {0}
    BY RequestFacts, StorageAssumption
  <1>3. (r.c * hdd.heads) + r.h \in Nat
    BY <1>1, <1>2
  <1>4. ((r.c * hdd.heads) + r.h) * Spt \in Nat
    BY <1>1, <1>3
  <1> QED
    BY <1>2, <1>4 DEF ChsFirst

LEMMA ReadTypeStep == TypeInv /\ PlaceInv /\ ReadType /\ [Next]_vars => ReadType'
PROOF
  <1> SUFFICES ASSUME TypeInv, PlaceInv, ReadType, [Next]_vars PROVE ReadType'
    OBVIOUS
  <1>1. ASSUME UNCHANGED rd PROVE ReadType'
    BY <1>1 DEF ReadType
  <1>2. ASSUME rd' = NoRead PROVE ReadType'
    BY <1>2 DEF ReadType, NoRead
  <1>3. ASSUME rd' = [rd EXCEPT !.ok = FALSE] \/ rd' = [rd EXCEPT !.ok = TRUE] PROVE ReadType'
    BY <1>3 DEF ReadType
  <1>4. ASSUME NEW lba \in Nat, NEW n \in Nat, Read(lba, n) PROVE ReadType'
    <2>1. hdd.slot \in 0 .. 4
      BY HddFacts
    <2> QED
      BY <1>4, <2>1 DEF ReadType, Read
  <1>5. CASE Register
    <2>1. rd' = [slot |-> at, lba |-> 0, left |-> 1, ok |-> TRUE, back |-> "mbr"] /\ at \in 0 .. 4
      BY <1>5 DEF Register, PlaceInv, Slots
    <2> QED
      BY <2>1 DEF ReadType
  <1>6. ASSUME Receive \/ ReadUsb PROVE ReadType'
    <2>1. PICK n : \/ UNCHANGED rd \/ rd' = [rd EXCEPT !.ok = FALSE]
                   \/ /\ n \in Nat /\ n <= rd.left
                      /\ rd' = [rd EXCEPT !.lba = (rd.lba + n) % Word, !.left = rd.left - n]
      <3>1. CASE Receive
        <4>1. Chunk \in Nat /\ Chunk <= rd.left
          BY StorageAssumption DEF Chunk, ReadType
        <4> QED
          BY <3>1, <4>1 DEF Receive
      <3>2. CASE ReadUsb
        <4>1. PICK n : n = IF rd.left > UsbBatch THEN UsbBatch ELSE rd.left
          OBVIOUS
        <4>2. n \in Nat /\ n <= rd.left
          BY <4>1, StorageAssumption DEF ReadType
        <4>3. \/ rd' = [rd EXCEPT !.ok = FALSE]
              \/ rd' = [rd EXCEPT !.lba = (rd.lba + n) % Word, !.left = rd.left - n]
          BY <3>2, <4>1 DEF ReadUsb
        <4> QED
          BY <4>2, <4>3
      <3> QED
        BY <1>6, <3>1, <3>2
    <2>2. CASE n \in Nat /\ n <= rd.left
               /\ rd' = [rd EXCEPT !.lba = (rd.lba + n) % Word, !.left = rd.left - n]
      <3>1. (rd.lba + n) % Word \in Nat /\ rd.left - n \in Nat
        <4>1. rd.lba + n \in Nat /\ Word \in Nat \ {0}
          BY <2>2, WordFacts DEF ReadType
        <4>2. (rd.lba + n) % Word \in Nat
          BY <4>1, ModDef
        <4> QED
          BY <2>2, <4>2 DEF ReadType
      <3> QED
        BY <2>2, <3>1 DEF ReadType
    <2> QED
      BY <2>1, <2>2, <1>1, <1>3
  <1>7. ASSUME Select PROVE ReadType'
    <2>1. PICK ok \in BOOLEAN : rd' = [rd EXCEPT !.ok = ok]
      BY <1>7 DEF Select
    <2> QED
      BY <2>1 DEF ReadType
  <1>8. ASSUME NEW r \in Requests, Int13(r) PROVE ReadType'
    <2>1. CASE \E ok \in BOOLEAN : rd' = [NoRead EXCEPT !.ok = ok]
      BY <2>1 DEF ReadType, NoRead
    <2>2. CASE r.fn = "ext" /\ Read(r.lba, r.n)
      BY <2>2, <1>4, RequestFacts
    <2>3. CASE r.fn = "chs" /\ r.s # 0 /\ Read(ChsFirst(r), r.n)
      BY <2>3, <1>4, RequestFacts, ChsType
    <2>4. (hdd.kind # "none") \in BOOLEAN
      OBVIOUS
    <2> QED
      BY <1>8, <2>1, <2>2, <2>3, <2>4 DEF Int13, FloppyRead, ExtRead, ChsRead, Parameters, Answer
  <1>9. CASE Selected
    BY <1>1, <1>4, <1>9 DEF Selected
  <1> QED
    BY <1>1, <1>2, <1>3, <1>5, <1>6, <1>7, <1>8, <1>9
    DEF Next, Program, vars, scan, Identify, ScanMbr, Send, Ports, PortFails, PortFound, Export,
        Import, ReadIde, ReadEnds, NoneLeft, Answered, DriveProceeds

LEMMA PlaceStep == TypeInv /\ ReadType /\ PlaceInv /\ [Next]_vars => PlaceInv'
PROOF
  <1> SUFFICES ASSUME TypeInv, ReadType, PlaceInv, [Next]_vars PROVE PlaceInv'
    OBVIOUS
  <1>1. CASE Identify
    BY <1>1 DEF Identify, NextSlot, Slots, PlaceInv, Reading
  <1>2. CASE Register
    BY <1>2 DEF Register, PlaceInv, Reading
  <1>3. CASE ScanMbr
    BY <1>3 DEF ScanMbr, NextSlot, Slots, PlaceInv, Reading
  <1>4. CASE Send
    BY <1>4 DEF Send, ReadType, PlaceInv, Reading, scan
  <1>5. CASE Receive
    BY <1>5 DEF Receive, ReadType, PlaceInv, Reading, scan
  <1>6. CASE Ports
    BY <1>6 DEF Ports, PlaceInv, Reading, Ports2, ReadType
  <1>7. CASE PortFails
    BY <1>7 DEF PortFails, NextPort, PlaceInv, Reading, Ports2, ReadType
  <1>8. CASE PortFound
    BY <1>8 DEF PortFound, NextPort, PlaceInv, Reading, Ports2, ReadType
  <1>9. CASE Export
    BY <1>9 DEF Export, PlaceInv, Reading
  <1>10. CASE Import
    BY <1>10 DEF Import, PlaceInv, Reading
  <1>11. CASE Select
    <2>1. pc' = "ports" => hdd' = cand.usb /\ cand.usb # NoDisk
      BY <1>11 DEF Select
    <2>2. pc' = "ports" => hdd'.kind = "usb"
      BY <2>1, UsbFacts DEF TypeInv, IsCand
    <2> QED
      BY <1>11, <2>2 DEF Select, PlaceInv, Reading
  <1>12. CASE Selected
    BY <1>12 DEF Selected, Read, PlaceInv, Reading, scan
  <1>13. CASE ReadIde
    BY <1>13, HddFacts DEF ReadIde, PlaceInv, Reading, scan
  <1>14. CASE ReadUsb
    BY <1>14 DEF ReadUsb, ReadType, PlaceInv, Reading, scan
  <1>15. CASE ReadEnds
    BY <1>15 DEF ReadEnds, PlaceInv, Reading
  <1>16. CASE NoneLeft
    BY <1>16 DEF NoneLeft, TypeInv, PlaceInv, Reading
  <1>17. CASE Answered
    BY <1>17 DEF Answered, PlaceInv, Reading, scan
  <1>18. ASSUME NEW s \in Slots, DriveProceeds(s) PROVE PlaceInv'
    BY <1>18 DEF DriveProceeds, PlaceInv, Reading, scan
  <1>19. ASSUME NEW r \in Requests, Int13(r) PROVE PlaceInv'
    BY <1>19 DEF Int13, FloppyRead, ExtRead, ChsRead, Parameters, Answer, Read, PlaceInv, Reading, scan
  <1>20. CASE UNCHANGED vars
    BY <1>20 DEF vars, scan, PlaceInv, Reading
  <1> QED
    BY <1>1, <1>2, <1>3, <1>4, <1>5, <1>6, <1>7, <1>8, <1>9, <1>10, <1>11, <1>12, <1>13, <1>14,
       <1>15, <1>16, <1>17, <1>18, <1>19, <1>20 DEF Next, Program, Slots

UsbNeeded ==
  /\ app # "stage3" /\ hdd.kind = "usb" /\ boot.from # "floppy"
  /\ (pc = "selected" /\ rd.ok) \/ Reading \/ pc \in {"guest", "answer"}

LEMMA UsbStep == TypeInv /\ ReadType /\ PlaceInv /\ UsbInv /\ [Next]_vars => UsbInv'
PROOF
  <1> SUFFICES ASSUME TypeInv, ReadType, PlaceInv, UsbInv, [Next]_vars PROVE UsbInv'
    OBVIOUS
  <1>0. UsbNeeded => UsbFound
    BY DEF UsbInv, UsbNeeded
  <1>1. ASSUME pc' # "port", UsbNeeded' => UsbFound' PROVE UsbInv'
    BY <1>1 DEF UsbInv, UsbNeeded
  <1>2. UNCHANGED <<machine, usb, hdd>> => (UsbFound => UsbFound')
    BY DEF UsbFound, Answering
  <1>3. ASSUME UNCHANGED <<machine, usb, hdd>>, pc' # "port", UsbNeeded' => UsbNeeded PROVE UsbInv'
    BY <1>0, <1>1, <1>2, <1>3
  <1>4. ASSUME pc' # "port", ~UsbNeeded' PROVE UsbInv'
    BY <1>1, <1>4
  <1>5. CASE Identify \/ Register \/ ScanMbr \/ Export \/ Import \/ NoneLeft
    <2>1. ~UsbNeeded'
      <3>1. CASE Identify \/ Register \/ ScanMbr
        BY <3>1 DEF Identify, Register, ScanMbr, UsbNeeded, PlaceInv
      <3>2. CASE Export \/ NoneLeft
        BY <3>2 DEF Export, NoneLeft, UsbNeeded, Reading
      <3>3. CASE Import
        BY <3>3 DEF Import, UsbNeeded, Reading
      <3> QED
        BY <1>5, <3>1, <3>2, <3>3
    <2>2. pc' # "port"
      BY <1>5 DEF Identify, Register, ScanMbr, NextSlot, Export, Import, NoneLeft
    <2> QED
      BY <1>4, <2>1, <2>2
  <1>6. CASE Send \/ Receive
    <2>1. UNCHANGED <<machine, usb, hdd, app, boot>> /\ pc' # "port"
      BY <1>6 DEF Send, Receive, scan, ReadType
    <2>2. UsbNeeded' => UsbNeeded
      BY <1>6 DEF Send, Receive, scan, ReadType, UsbNeeded, Reading, PlaceInv
    <2> QED
      BY <1>3, <2>1, <2>2
  <1>7. CASE Ports
    <2>1. CASE Fault /\ pc' = "selected"
      <3>1. ~UsbNeeded'
        BY <1>7, <2>1 DEF Ports, UsbNeeded, Reading, ReadType
      <3> QED
        BY <1>4, <2>1, <3>1
    <2>2. CASE pc' = "port" /\ usb' = [p \in 1 .. 2 |-> [usb[p] EXCEPT !.on = FALSE]]
      <3>1. \A p \in 1 .. 2 : ~usb'[p].on
        BY <2>2 DEF TypeInv, Ports2
      <3>2. ~UsbNeeded' /\ at' = 1
        BY <1>7, <2>2 DEF Ports, UsbNeeded, Reading
      <3> QED
        BY <2>2, <3>1, <3>2 DEF UsbInv, UsbNeeded
    <2> QED
      BY <1>7, <2>1, <2>2 DEF Ports
  <1>8. CASE PortFails
    <2>1. ~UsbNeeded'
      BY <1>8 DEF PortFails, NextPort, PlaceInv, UsbNeeded, Reading
    <2>2. ASSUME pc' = "port" PROVE /\ \A q \in at' .. 2 : ~usb'[q].on
                                    /\ \A q \in 1 .. at' - 1 : machine'.usb[q] = None => ~usb'[q].on
      <3>1. at = 1 /\ at' = 2 /\ pc = "port" /\ UNCHANGED machine
        BY <1>8, <2>2 DEF PortFails, NextPort, PlaceInv, Ports2
      <3>2. usb'[2] = usb[2] /\ (machine.usb[1] = None => usb'[1] = usb[1])
        BY <1>8, <3>1 DEF PortFails, TypeInv, Ports2
      <3>3. ~usb[1].on /\ ~usb[2].on
        BY <3>1 DEF UsbInv
      <3> QED
        BY <3>1, <3>2, <3>3
    <2> QED
      BY <2>1, <2>2 DEF UsbInv, UsbNeeded
  <1>9. CASE PortFound
    <2>1. PICK d : d = Disk("usb", 0, machine.usb[at].mbr, machine.usb[at].size)
      OBVIOUS
    <2>2. at \in Ports2 /\ usb'[at] = [on |-> TRUE, addr |-> 1] /\ hdd' = d /\ UNCHANGED <<machine, app>>
      BY <1>9, <2>1 DEF PortFound, RegisterUsb, TypeInv, PlaceInv
    <2>3. ASSUME app # "stage3" PROVE UsbFound'
      <3>1. \A q \in Ports2 \ {at} : usb'[q] = usb[q] /\ ~(usb[q].on /\ usb[q].addr = 1)
        BY <1>9, <2>2 DEF PortFound, Alone, TypeInv, Ports2
      <3>2. Answering' = {at}
        BY <2>2, <3>1 DEF Answering, Ports2
      <3> QED
        BY <1>9, <2>1, <2>2, <3>2 DEF PortFound, UsbFound
    <2>4. ASSUME pc' = "port" PROVE /\ \A q \in at' .. 2 : ~usb'[q].on
                                    /\ \A q \in 1 .. at' - 1 : machine'.usb[q] = None => ~usb'[q].on
      <3>1. at = 1 /\ at' = 2 /\ pc = "port" /\ UNCHANGED machine
        BY <1>9, <2>4 DEF PortFound, NextPort, PlaceInv, Ports2
      <3>2. usb'[2] = usb[2] /\ machine.usb[1].kind = "msd"
        BY <1>9, <3>1 DEF PortFound, TypeInv, Ports2
      <3>3. ~usb[2].on /\ machine.usb[1] # None
        BY <3>1, <3>2 DEF UsbInv, None
      <3> QED
        BY <3>1, <3>2, <3>3
    <2> QED
      BY <2>2, <2>3, <2>4 DEF UsbInv
  <1>10. CASE Select
    <2>0. Head(todo) \in {"ide", "usb"}
      BY <1>10 DEF Select, TypeInv
    <2>1. pc' = "selected" /\ rd'.ok => hdd' = cand.ide /\ cand.ide # NoDisk
      BY <1>10, <2>0 DEF Select, ReadType
    <2>2. pc' = "selected" /\ rd'.ok => hdd'.kind = "ide"
      BY <2>1, IdeFacts DEF TypeInv, IsCand
    <2>3. ~UsbNeeded' /\ pc' # "port"
      BY <1>10, <2>2 DEF Select, UsbNeeded, Reading
    <2> QED
      BY <1>4, <2>3
  <1>11. CASE Selected \/ ReadIde \/ ReadUsb \/ Answered
    <2>1. UNCHANGED <<machine, usb, hdd, app, boot>> /\ pc' # "port"
      BY <1>11 DEF Selected, Read, ReadIde, ReadUsb, Answered, scan
    <2>2. UsbNeeded' => UsbNeeded
      BY <1>11 DEF Selected, Read, ReadIde, ReadUsb, Answered, scan, ReadType, UsbNeeded, Reading, PlaceInv
    <2> QED
      BY <1>3, <2>1, <2>2
  <1>12. CASE ReadEnds
    <2>1. UNCHANGED <<machine, usb, hdd, app>> /\ pc' # "port"
      BY <1>12 DEF ReadEnds
    <2>2. UsbNeeded' => UsbNeeded
      BY <1>12 DEF ReadEnds, UsbNeeded, Reading
    <2> QED
      BY <1>3, <2>1, <2>2
  <1>13. ASSUME NEW r \in Requests, Int13(r) PROVE UsbInv'
    <2>1. UNCHANGED <<machine, usb, hdd, app, boot>> /\ pc' # "port" /\ pc = "guest"
      BY <1>13 DEF Int13, FloppyRead, ExtRead, ChsRead, Parameters, Answer, Read, scan
    <2>2. UsbNeeded' => UsbNeeded
      BY <2>1 DEF UsbNeeded
    <2> QED
      BY <1>3, <2>1, <2>2
  <1>14. ASSUME (\E s \in Slots : DriveProceeds(s)) \/ UNCHANGED vars PROVE UsbInv'
    <2>1. UNCHANGED <<machine, usb, hdd, app, boot, pc, rd, at>>
      BY <1>14 DEF DriveProceeds, scan, vars
    <2> QED
      BY <2>1 DEF UsbInv, UsbFound, Answering, Reading
  <1> QED
    BY <1>5, <1>6, <1>7, <1>8, <1>9, <1>10, <1>11, <1>12, <1>13, <1>14 DEF Next, Program, Slots

LEMMA DriveStep ==
  TypeInv /\ ReadType /\ PlaceInv /\ DriveInv /\ ReadInv /\ [Next]_vars => DriveInv'
PROOF
  <1> SUFFICES ASSUME TypeInv, ReadType, PlaceInv, DriveInv, ReadInv, [Next]_vars PROVE DriveInv'
    OBVIOUS
  <1>1. ASSUME pc' # "drq" PROVE DriveInv'
    BY <1>1 DEF DriveInv
  <1>2. ASSUME UNCHANGED <<machine, drive, pc, rd, togo>> PROVE DriveInv'
    BY <1>2 DEF DriveInv, Chunk
  <1>3. drive \in [Slots -> Status]
    BY DEF TypeInv
  <1>4. CASE Send
    <2>1. rd.slot \in Slots /\ rd.lba \in Nat /\ Chunk \in 1 .. Batch
      BY <1>4, ChunkFacts DEF Send, PlaceInv, ReadInv
    <2>2. CASE /\ drive' = [drive EXCEPT ![rd.slot] = Command(rd.lba, Chunk)]
               /\ togo' = Chunk /\ UNCHANGED <<rd, faults>>
      <3>1. Chunk' = Chunk
        BY <2>2 DEF Chunk
      <3>2. drive'[rd.slot] = [st |-> "seek", at |-> rd.lba % Lba28, left |-> Chunk]
        BY <1>3, <2>1, <2>2, CommandFacts
      <3>3. rd.lba % Lba28 \in Nat /\ Chunk \in Nat \ {0} /\ Batch \in Nat
        BY <2>1, SectorFacts, StorageAssumption
      <3> QED
        BY <2>1, <2>2, <3>1, <3>2, <3>3 DEF DriveInv
    <2>3. CASE pc' = rd.back
      BY <1>1, <2>3 DEF ReadType
    <2> QED
      BY <1>4, <2>2, <2>3 DEF Send
  <1>5. CASE Receive
    <2>1. CASE pc' = rd.back
      BY <1>1, <2>1 DEF ReadType
    <2>2. CASE ~(pc' = rd.back)
      <3> DEFINE d == drive[rd.slot]
      <3>1. /\ togo > 1 /\ UNCHANGED <<pc, rd>> /\ togo' = togo - 1 /\ pc = "drq" /\ d.st \in {"data", "settle"}
            /\ drive' = [drive EXCEPT ![rd.slot] = Delay([st |-> "settle", at |-> d.at + 1, left |-> d.left - 1])]
        BY <1>5, <2>2 DEF Receive
      <3>2. /\ rd.slot \in Slots /\ rd.lba \in Nat /\ rd.left \in Nat \ {0} /\ Chunk' = Chunk /\ UNCHANGED rd
            /\ togo \in 1 .. Chunk
        BY <3>1 DEF PlaceInv, ReadInv, Chunk, DriveInv
      <3>3. d.at = (rd.lba % Lba28) + Chunk - togo /\ d.left = togo
        BY <3>1 DEF DriveInv
      <3>4. Chunk \in Nat /\ rd.lba % Lba28 \in Nat
        BY <3>2, ChunkFacts, SectorFacts
      <3>5. togo \in Nat /\ togo - 1 # 0 /\ togo - 1 \in 1 .. Chunk
        BY <3>1, <3>2, <3>4
      <3>6. Delay([st |-> "settle", at |-> d.at + 1, left |-> d.left - 1]) =
              [st |-> "seek", at |-> d.at + 1, left |-> d.left - 1]
        BY <3>3, <3>5 DEF Delay
      <3>7. drive'[rd.slot] = [st |-> "seek", at |-> d.at + 1, left |-> d.left - 1]
        BY <1>3, <3>1, <3>2, <3>6
      <3>8. PICK q : q = rd.lba % Lba28
        OBVIOUS
      <3>9. q + Chunk - togo + 1 = q + Chunk - (togo - 1) /\ q \in Nat
        BY <3>4, <3>5, <3>8
      <3> QED
        BY <3>1, <3>2, <3>3, <3>5, <3>7, <3>8, <3>9 DEF DriveInv
    <2> QED
      BY <2>1, <2>2
  <1>6. ASSUME NEW s \in Slots, DriveProceeds(s), pc = "drq" PROVE DriveInv'
    <2>1. /\ drive' \in [Slots -> Status] /\ \A t \in Slots : t # s => drive'[t] = drive[t]
          /\ drive[s].st \in {"slow", "seek"}
          /\ drive[s].st = "slow" => drive'[s].st = "ready"
          /\ drive[s].st = "seek" =>
               \/ drive'[s].st = "error"
               \/ drive'[s].st = "ready" /\ drive[s].left = 0
               \/ drive'[s] = [drive[s] EXCEPT !.st = "data"] /\ drive[s].at < machine.ide[s].size
          /\ UNCHANGED <<machine, pc, rd, togo>>
      BY <1>3, <1>6, ProceedsType DEF TypeInv, scan
    <2>2. /\ rd.slot \in Slots /\ togo \in 1 .. Chunk /\ Chunk' = Chunk /\ Chunk \in Nat
          /\ drive[rd.slot].st \in {"seek", "data", "error"}
      BY <1>6, <2>1, ChunkFacts DEF PlaceInv, ReadInv, Chunk, DriveInv
    <2>3. CASE s # rd.slot
      BY <1>6, <2>1, <2>2, <2>3 DEF DriveInv
    <2>4. CASE s = rd.slot
      <3>1. drive[s].st = "seek" /\ drive[s].left = togo /\ togo # 0 /\ drive[s] \in Status
        BY <1>3, <1>6, <2>1, <2>2, <2>4 DEF DriveInv
      <3>2. CASE drive'[s].st = "error"
        BY <2>1, <2>2, <2>4, <3>2 DEF DriveInv
      <3>3. CASE drive'[s] = [drive[s] EXCEPT !.st = "data"] /\ drive[s].at < machine.ide[s].size
        <4>1. drive'[s].st = "data" /\ drive'[s].at = drive[s].at /\ drive'[s].left = drive[s].left
          BY <3>1, <3>3 DEF Status
        <4> QED
          BY <1>6, <2>1, <2>2, <2>4, <3>1, <4>1 DEF DriveInv
      <3> QED
        BY <2>1, <3>1, <3>2, <3>3
    <2> QED
      BY <2>3, <2>4
  <1>7. ASSUME NEW s \in Slots, DriveProceeds(s), pc # "drq" PROVE DriveInv'
    BY <1>1, <1>7 DEF DriveProceeds
  <1>8. ASSUME NEW r \in Requests, Int13(r) PROVE DriveInv'
    BY <1>1, <1>8 DEF Int13, FloppyRead, ExtRead, ChsRead, Parameters, Answer, Read
  <1> QED
    BY <1>1, <1>2, <1>4, <1>5, <1>6, <1>7, <1>8
    DEF Next, Program, Slots, vars, scan, Identify, Register, ScanMbr, NextSlot, Ports, PortFails, PortFound,
        NextPort, Export, Import, Select, Selected, Read, ReadIde, ReadUsb, ReadEnds, NoneLeft, Answered

(* Sector numbers.                                                         *)
LEMMA ModShift ==
  ASSUME NEW b \in Nat \ {0}, NEW q \in Nat, NEW x \in Nat
  PROVE  (q * b + x) % b = x % b
PROOF
  <1>1. PICK p \in Nat, r \in 0 .. b - 1 : x = p * b + r
    BY ModDef
  <1>2. q * b + x = (q + p) * b + r
    BY <1>1
  <1>3. q + p \in Int /\ p \in Int
    OBVIOUS
  <1> QED
    BY <1>1, <1>2, <1>3, ModUnique

LEMMA ModAdd ==
  ASSUME NEW b \in Nat \ {0}, NEW x \in Nat, NEW y \in Nat
  PROVE  ((x % b) + y) % b = (x + y) % b
PROOF
  <1>1. PICK p \in Nat, r \in 0 .. b - 1 : x = p * b + r /\ x % b = r
    BY ModDef
  <1>2. PICK z \in Nat : z = r + y /\ x + y = p * b + z
    BY <1>1
  <1>3. (p * b + z) % b = z % b
    BY ModShift
  <1> QED
    BY <1>1, <1>2, <1>3

LEMMA SectorOfWord ==
  ASSUME NEW x \in Nat
  PROVE  (x % Word) % Lba28 = x % Lba28
PROOF
  <1>1. PICK k \in Nat : Word = k * Lba28
    BY WordFacts
  <1>2. PICK p \in Nat, r \in 0 .. Word - 1 : x = p * Word + r /\ x % Word = r
    BY WordFacts, ModDef
  <1>3. PICK q \in Nat : q = p * k
    BY <1>1, <1>2
  <1>4. p * Word = q * Lba28 /\ r \in Nat
    BY <1>1, <1>2, <1>3, WordFacts
  <1>5. (q * Lba28 + r) % Lba28 = r % Lba28
    BY <1>4, WordFacts, ModShift
  <1> QED
    BY <1>2, <1>4, <1>5

(* A range that wraps has the last sector of the disk with the largest     *)
(* number an IDE drive can have.                                           *)
LEMMA NoWrap ==
  ASSUME NEW first \in 0 .. Word - 1, NEW n \in Nat, NEW size \in 0 .. Lba28 - 1,
         n # 0, (first + n) % Word <= size,
         \A i \in 1 .. n : (first + i - 1) % Lba28 < size
  PROVE  \A i \in 1 .. n : (first + i - 1) % Lba28 = first + i - 1
PROOF
  <1>1. Word \in Nat \ {0} /\ Lba28 \in Nat \ {0} /\ Lba28 <= Word
    BY WordFacts
  <1>2. CASE first + n < Word
    <2>1. (first + n) % Word = first + n
      BY <1>1, <1>2, ModSmall
    <2>2. \A i \in 1 .. n : first + i - 1 \in 0 .. Lba28 - 1
      BY <1>1, <2>1
    <2> QED
      BY <1>1, <2>2, ModSmall
  <1>3. CASE first + n >= Word
    <2>1. PICK k \in Nat \ {0} : Word = k * Lba28
      BY WordFacts
    <2>2. Word - 1 = (k - 1) * Lba28 + (Lba28 - 1) /\ k - 1 \in Int /\ Lba28 - 1 \in 0 .. Lba28 - 1
      BY <1>1, <2>1
    <2>3. (Word - 1) % Lba28 = Lba28 - 1
      BY <1>1, <2>2, ModUnique
    <2>4. PICK i \in 1 .. n : first + i - 1 = Word - 1
      <3>1. Word - first \in 1 .. n /\ first + (Word - first) - 1 = Word - 1
        BY <1>1, <1>3
      <3> QED
        BY <3>1
    <2>5. Lba28 - 1 < size
      BY <2>3, <2>4
    <2> QED
      BY <1>1, <2>5
  <1> QED
    BY <1>1, <1>2, <1>3

(* The sector of a position of the geometry has a number below 2^32.       *)
LEMMA ChsBelow ==
  ASSUME TypeInv, NEW r \in Requests, r.fn = "chs", r.s # 0, r.h < hdd.heads, r.c < hdd.cylinders
  PROVE  ChsFirst(r) \in 0 .. Word - 1
PROOF
  <1>1. PICK heads \in Nat, cylinders \in Nat : heads = hdd.heads /\ cylinders = hdd.cylinders
                                               /\ heads <= ManyHeads /\ cylinders <= MaxCylinders
    BY HddFacts, StorageAssumption DEF DiskRecords
  <1>2. PICK c \in Nat, h \in Nat, s \in Nat : c = r.c /\ h = r.h /\ s = r.s /\ s <= Spt
    BY RequestFacts, StorageAssumption
  <1>3. /\ Spt \in Nat /\ ManyHeads \in Nat /\ MaxCylinders \in Nat /\ Word \in Nat
        /\ MaxCylinders * ManyHeads * Spt <= Word
    BY StorageAssumption
  <1>4. PICK m : m = c * heads + h
    OBVIOUS
  <1>5. m \in Nat /\ m + 1 <= MaxCylinders * ManyHeads
    <2>1. c + 1 <= MaxCylinders /\ h + 1 <= heads
      BY <1>1, <1>2, <1>3
    <2>2. \A x, y \in Nat : x * y + y = (x + 1) * y
      OBVIOUS
    <2>3. (c + 1) * heads <= (c + 1) * ManyHeads
      BY <1>1, <1>2, <1>3
    <2>4. (c + 1) * ManyHeads <= MaxCylinders * ManyHeads
      BY <1>3, <2>1
    <2>5. c * heads \in Nat /\ (c + 1) * heads \in Nat /\ (c + 1) * ManyHeads \in Nat /\ MaxCylinders * ManyHeads \in Nat
      BY <1>3
    <2> QED
      BY <1>4, <2>1, <2>2, <2>3, <2>4, <2>5
  <1>6. (m + 1) * Spt <= (MaxCylinders * ManyHeads) * Spt
    <2>1. PICK mm \in Nat : mm = MaxCylinders * ManyHeads
      BY <1>3
    <2> QED
      BY <1>3, <1>5, <2>1
  <1>7. m * Spt + Spt = (m + 1) * Spt /\ m * Spt \in Nat
    BY <1>3, <1>5
  <1>8. PICK q \in Nat : q = m * Spt
    BY <1>7
  <1>9. q + Spt <= Word
    BY <1>3, <1>6, <1>7, <1>8
  <1>10. ChsFirst(r) = q + s - 1
    BY <1>1, <1>2, <1>4, <1>8 DEF ChsFirst
  <1> QED
    BY <1>2, <1>3, <1>9, <1>10

(* A sector from an IDE drive.                                             *)
LEMMA SectorFromIde ==
  ASSUME TypeInv, ReadType, PlaceInv, DriveInv, ReadInv,
         pc = "drq", rd.back = "chunk", drive[rd.slot].st \in {"data", "settle"},
         NEW d, d = drive[rd.slot], NEW g, g = Got,
         buf' = Append(buf, IF d.st = "data" THEN <<machine.ide[rd.slot].id, d.at>> ELSE <<"noise", 0>>),
         UNCHANGED <<machine, hdd, boot, req>>
  PROVE  /\ g \in Nat /\ buf' \in Seq(Ids \X Nat) /\ Len(buf') = g + 1
         /\ IdeBrought(g + 1)'
PROOF
  <1>1. /\ Reading /\ rd.ok /\ rd.left \in Nat \ {0} /\ rd.lba \in Nat /\ hdd.kind = "ide"
        /\ rd.slot = hdd.slot /\ rd.slot \in Slots /\ rd.left \in 0 .. Asked /\ Asked \in Nat
        /\ First \in 0 .. Word - 1 /\ First \in Nat
    BY WordFacts DEF Reading, ReadInv, Numbers, Sound, PlaceInv
  <1>2. PICK first \in Nat, asked \in Nat, left \in Nat : first = First /\ asked = Asked /\ left = rd.left
    BY <1>1
  <1>3. /\ Chunk \in Nat /\ Chunk <= rd.left /\ togo \in 1 .. Chunk /\ d.st = "data"
        /\ d.at = (rd.lba % Lba28) + Chunk - togo /\ d.at < machine.ide[hdd.slot].size
    BY <1>1, ChunkFacts DEF DriveInv
  <1>4. PICK j \in Nat : j = Chunk - togo
    BY <1>3
  <1>5. g = asked - left + j /\ g \in Nat
    BY <1>1, <1>2, <1>3, <1>4 DEF Got
  <1>6. buf \in Seq(Ids \X Nat) /\ Len(buf) = g /\ IdeBrought(g)
    BY <1>1 DEF ReadInv, Numbers, Sound
  <1>7. d.at = (first + g) % Lba28 /\ d.at \in Nat
    <2>1. PICK x \in Nat : x = first + (asked - left)
      BY <1>1, <1>2
    <2>2. rd.lba = x % Word
      BY <1>1, <1>2, <2>1 DEF ReadInv, Numbers, Sound
    <2>3. rd.lba % Lba28 = x % Lba28
      BY <2>1, <2>2, SectorOfWord
    <2>4. PICK q \in Nat : q = x % Lba28
      BY SectorFacts
    <2>5. machine.ide[hdd.slot].size \in 0 .. Lba28 - 1
      BY <1>1, MachineFacts DEF TypeInv
    <2>6. d.at = q + j /\ q + j \in 0 .. Lba28 - 1
      BY <1>3, <1>4, <2>3, <2>4, <2>5, WordFacts
    <2>7. (q + j) % Lba28 = (x + j) % Lba28
      BY <2>4, ModAdd, WordFacts
    <2>8. (q + j) % Lba28 = q + j
      BY <2>6, ModSmall, WordFacts
    <2>9. x + j = first + g
      BY <1>2, <1>4, <1>5, <2>1
    <2> QED
      BY <2>6, <2>7, <2>8, <2>9
  <1>8. PICK what : what = <<machine.ide[hdd.slot].id, d.at>>
    OBVIOUS
  <1>9. what \in Ids \X Nat
    BY <1>1, <1>7, <1>8 DEF Ids, Slots
  <1>10. buf' = Append(buf, what)
    BY <1>1, <1>3, <1>8
  <1>11. PICK S : S = Ids \X Nat
    OBVIOUS
  <1>12. /\ buf' \in Seq(S) /\ Len(buf') = g + 1
         /\ \A i \in 1 .. g : buf'[i] = buf[i]
         /\ buf'[g + 1] = what
    BY <1>6, <1>9, <1>10, <1>11, AppendProperties
  <1>13. IdeBrought(g + 1)'
    <2>1. UNCHANGED <<machine, hdd>> /\ First' = First
      BY DEF First, ChsFirst
    <2>2. ASSUME NEW i \in 1 .. g + 1
          PROVE  /\ buf'[i] = <<machine.ide[hdd.slot].id, (First + i - 1) % Lba28>>
                 /\ (First + i - 1) % Lba28 < machine.ide[hdd.slot].size
      <3>1. CASE i \in 1 .. g
        BY <1>6, <1>12, <3>1 DEF IdeBrought
      <3>2. CASE i = g + 1
        <4>1. First + i - 1 = first + g
          BY <1>2, <1>5, <3>2
        <4> QED
          BY <1>3, <1>7, <1>8, <1>12, <3>2, <4>1
      <3>3. i \in 1 .. g \/ i = g + 1
        BY <1>5
      <3> QED
        BY <3>1, <3>2, <3>3
    <2> QED
      BY <2>1, <2>2 DEF IdeBrought
  <1>14. (Ids \X Nat)' = Ids \X Nat
    BY DEF Ids
  <1> QED
    BY <1>5, <1>11, <1>12, <1>13

LEMMA PlaceOfSector ==
  ASSUME NEW first \in Nat, NEW g \in Nat, NEW n \in Nat, NEW lba \in Nat, NEW size \in Nat,
         NEW i \in 1 .. g + n, ~(i <= g), lba = first + g, lba + n <= size
  PROVE  i - g \in 1 .. n /\ lba + (i - g) - 1 = first + i - 1 /\ first + i - 1 < size
PROOF
  OBVIOUS

LEMMA NextBelow ==
  ASSUME NEW first \in Nat, NEW g \in Nat, NEW w \in Nat, NEW size \in 0 .. w - 1, first + g - 1 < size
  PROVE  first + g < w
PROOF
  OBVIOUS

(* Sectors from the USB disk.                                              *)
LEMMA SectorsFromUsb ==
  ASSUME TypeInv, ReadType, PlaceInv, ReadInv, pc = "chunk", rd.ok, hdd.kind = "usb",
         NEW g, g = Got, NEW n \in Nat, NEW p \in Answering,
         Answering = {p}, rd.lba + n <= machine.usb[p].size, n > 0,
         buf' = buf \o [i \in 1 .. n |-> <<machine.usb[p].id, rd.lba + i - 1>>],
         UNCHANGED <<machine, usb, hdd, boot, req>>
  PROVE  /\ g \in Nat /\ buf' \in Seq(Ids \X Nat) /\ Len(buf') = g + n
         /\ rd.lba = First + g /\ UsbBrought(g + n)'
PROOF
  <1>1. /\ Reading /\ rd.left \in 0 .. Asked /\ Asked \in Nat /\ First \in 0 .. Word - 1 /\ First \in Nat
        /\ rd.lba \in Nat /\ rd.left \in Nat
    BY WordFacts DEF Reading, ReadInv, Numbers, Sound, ReadType
  <1>2. PICK first \in Nat, asked \in Nat, left \in Nat : first = First /\ asked = Asked /\ left = rd.left
    BY <1>1
  <1>3. g = asked - left /\ g \in Nat
    BY <1>1, <1>2 DEF Got
  <1>4. buf \in Seq(Ids \X Nat) /\ Len(buf) = g /\ UsbBrought(g)
    BY <1>1 DEF ReadInv, Numbers, Sound
  <1>5. p \in Ports2 /\ machine.usb[p].size \in 0 .. Word - 1
    BY MachineFacts DEF Answering, Ports2, TypeInv
  <1>6. \A i \in 1 .. g : /\ buf[i] = <<machine.usb[p].id, First + i - 1>>
                         /\ First + i - 1 < machine.usb[p].size
    <2>1. CASE g = 0
      BY <2>1
    <2>2. CASE g # 0
      <3>1. g > 0
        BY <1>3, <2>2
      <3>2. PICK q \in Ports2 :
              /\ Answering = {q}
              /\ \A i \in 1 .. g : /\ buf[i] = <<machine.usb[q].id, First + i - 1>>
                                   /\ First + i - 1 < machine.usb[q].size
        BY <1>4, <3>1 DEF UsbBrought
      <3>3. q = p
        BY <3>2
      <3> QED
        BY <3>2, <3>3
    <2> QED
      BY <2>1, <2>2
  <1>7. first + g < Word
    <2>1. CASE g = 0
      BY <1>1, <1>2, <2>1, WordFacts
    <2>2. CASE g # 0
      <3>1. g \in 1 .. g
        BY <1>3, <2>2
      <3>2. First + g - 1 < machine.usb[p].size
        BY <1>6, <3>1
      <3>3. PICK size \in 0 .. Word - 1 : size = machine.usb[p].size
        BY <1>5
      <3> QED
        BY <1>2, <1>3, <3>2, <3>3, WordFacts, NextBelow
    <2> QED
      BY <2>1, <2>2
  <1>8. rd.lba = first + g
    <2>1. rd.lba = (first + asked - left) % Word
      BY <1>1, <1>2 DEF ReadInv, Numbers, Sound
    <2>2. first + asked - left = first + g /\ first + g \in 0 .. Word - 1
      BY <1>2, <1>3, <1>7, WordFacts
    <2>3. (first + g) % Word = first + g
      BY <2>2, ModSmall, WordFacts
    <2> QED
      BY <2>1, <2>2, <2>3
  <1>9. PICK more : more = [i \in 1 .. n |-> <<machine.usb[p].id, rd.lba + i - 1>>]
    OBVIOUS
  <1>10. PICK S : S = Ids \X Nat
    OBVIOUS
  <1>11. more \in Seq(S) /\ Len(more) = n
    <2>1. \A i \in 1 .. n : <<machine.usb[p].id, rd.lba + i - 1>> \in S
      BY <1>1, <1>5, <1>10 DEF Ids, Ports2
    <2> QED
      BY <1>9, <2>1
  <1>12. /\ buf' \in Seq(S) /\ Len(buf') = g + n
         /\ \A i \in 1 .. g + n : buf'[i] = IF i <= g THEN buf[i] ELSE more[i - g]
    <2>1. buf' = buf \o more
      BY <1>9
    <2>2. /\ buf \in Seq(S) /\ Len(buf) = g
      BY <1>4, <1>10
    <2>3. PICK b : b = buf
      OBVIOUS
    <2>4. /\ b \o more \in Seq(S)
          /\ Len(b \o more) = Len(b) + Len(more)
          /\ \A i \in 1 .. Len(b) + Len(more) :
               (b \o more)[i] = IF i <= Len(b) THEN b[i] ELSE more[i - Len(b)]
      BY <1>11, <2>2, <2>3, ConcatProperties
    <2> QED
      BY <1>11, <2>1, <2>2, <2>3, <2>4
  <1>13. UsbBrought(g + n)'
    <2>1. UNCHANGED <<machine, Answering>> /\ First' = First
      BY DEF First, ChsFirst, Answering
    <2>2. ASSUME NEW i \in 1 .. g + n
          PROVE  buf'[i] = <<machine.usb[p].id, First + i - 1>> /\ First + i - 1 < machine.usb[p].size
      <3>1. CASE i <= g
        <4>1. i \in 1 .. g
          BY <1>3, <3>1
        <4> QED
          BY <1>6, <1>12, <3>1, <4>1
      <3>2. CASE ~(i <= g)
        <4>1. PICK size \in Nat : size = machine.usb[p].size
          BY <1>5
        <4>2. i - g \in 1 .. n /\ rd.lba + (i - g) - 1 = first + i - 1 /\ first + i - 1 < size
          BY <1>1, <1>3, <1>8, <3>2, <4>1, PlaceOfSector
        <4>3. more[i - g] = <<machine.usb[p].id, rd.lba + (i - g) - 1>>
          BY <1>9, <4>2
        <4> QED
          BY <1>2, <1>12, <3>2, <4>1, <4>2, <4>3
      <3> QED
        BY <3>1, <3>2
    <2> QED
      BY <1>5, <2>1, <2>2 DEF UsbBrought
  <1> QED
    BY <1>2, <1>3, <1>8, <1>10, <1>12, <1>13

(* Counting what is left of a read when n sectors come after g.            *)
LEMMA LeftAfter ==
  ASSUME NEW first \in Nat, NEW asked \in Nat, NEW left \in Nat, NEW n \in Nat, NEW lba,
         left <= asked, n <= left, lba = (first + asked - left) % Word
  PROVE  /\ left - n \in 0 .. asked
         /\ (lba + n) % Word = (first + asked - (left - n)) % Word
         /\ asked - (left - n) = (asked - left) + n
PROOF
  <1>1. PICK x \in Nat : x = first + asked - left
    OBVIOUS
  <1>2. (lba + n) % Word = (x + n) % Word
    <2>1. lba = x % Word /\ n \in Nat /\ Word \in Nat \ {0}
      BY <1>1, WordFacts
    <2>2. ((x % Word) + n) % Word = (x + n) % Word
      BY <2>1, ModAdd
    <2> QED
      BY <2>1, <2>2
  <1>3. x + n = first + asked - (left - n)
    BY <1>1
  <1> QED
    BY <1>2, <1>3

(* The beginning of a read of n sectors.                                   *)
LEMMA ReadBegins ==
  ASSUME TypeInv, NEW lba \in 0 .. Word - 1, NEW n \in Nat, Read(lba, n),
         First' = lba, Asked' = n, UNCHANGED <<machine, usb, hdd>>
  PROVE  ReadInv'
PROOF
  <1>1. /\ pc' = "chunk" /\ buf' = << >>
        /\ rd' = [slot |-> hdd.slot, lba |-> lba, left |-> n, back |-> "chunk",
                  ok |-> hdd.kind # "none" /\ n # 0 /\ InRange(lba, n)]
    BY DEF Read
  <1>2. lba \in Nat /\ lba + n - n = lba /\ lba % Word = lba
    BY WordFacts, ModSmall
  <1>3. Got' = 0
    <2>1. rd'.left = n
      BY <1>1
    <2> QED
      BY <1>1, <2>1 DEF Got
  <1>4. ASSUME rd'.ok PROVE Sound(0)'
    <2>1. hdd.kind # "none" /\ n # 0 /\ InRange(lba, n) /\ rd'.lba = lba /\ rd'.left = n
      BY <1>1, <1>4
    <2>2. InRange(First, Asked)'
      BY <2>1 DEF InRange
    <2>3. << >> \in Seq((Ids \X Nat)')
      OBVIOUS
    <2>4. IdeBrought(0)' /\ UsbBrought(0)'
      BY DEF IdeBrought, UsbBrought
    <2> QED
      BY <1>1, <1>2, <2>1, <2>2, <2>3, <2>4 DEF Sound
  <1>5. Numbers'
    BY <1>1 DEF Numbers
  <1> QED
    BY <1>1, <1>3, <1>4, <1>5 DEF ReadInv

LEMMA ReadStep ==
  TypeInv /\ ReadType /\ PlaceInv /\ UsbInv /\ DriveInv /\ ReadInv /\ [Next]_vars => ReadInv'
PROOF
  <1> SUFFICES ASSUME TypeInv, ReadType, PlaceInv, UsbInv, DriveInv, ReadInv, [Next]_vars PROVE ReadInv'
    OBVIOUS
  <1>1. ASSUME pc' \notin {"send", "drq", "chunk"} PROVE ReadInv'
    BY <1>1 DEF ReadInv, Reading
  <1>2. ASSUME UNCHANGED <<boot, req, hdd>> PROVE First' = First /\ Asked' = Asked
    BY <1>2 DEF First, Asked, ChsFirst
  <1>3. ASSUME UNCHANGED <<machine, usb, hdd, boot, req, buf, rd>>, NEW g
        PROVE  Sound(g) => Sound(g)'
    BY <1>2, <1>3 DEF Sound, InRange, IdeBrought, UsbBrought, Answering, Ids
  <1>4. ASSUME UNCHANGED <<machine, usb, hdd, boot, req, buf, rd>>, Got' = Got,
               Reading' => Reading,
               pc' \in {"send", "drq"} => rd.ok /\ rd.left \in Nat \ {0} /\ rd.lba \in Nat
        PROVE  ReadInv'
    <2>1. PICK g : g = Got
      OBVIOUS
    <2>2. Numbers => Numbers'
      BY <1>2, <1>4 DEF Numbers
    <2> QED
      BY <1>3, <1>4, <2>1, <2>2 DEF ReadInv
  (* A failure.                                                            *)
  <1>5. ASSUME rd' = [rd EXCEPT !.ok = FALSE], UNCHANGED <<hdd, boot, req>>, pc' \notin {"send", "drq"},
               Reading' => Reading
        PROVE  ReadInv'
    <2>1. ~rd'.ok /\ rd'.left = rd.left
      BY <1>5 DEF ReadType
    <2>2. Numbers => Numbers'
      BY <1>2, <1>5, <2>1 DEF Numbers
    <2> QED
      BY <1>5, <2>1, <2>2 DEF ReadInv
  <1>6. CASE Register
    <2>1. rd'.ok /\ rd'.left = 1 /\ rd'.lba = 0 /\ rd'.back = "mbr" /\ pc' = "send"
      BY <1>6 DEF Register
    <2> QED
      BY <2>1 DEF ReadInv, Reading
  <1>7. CASE Send
    <2>1. UNCHANGED <<machine, usb, hdd, boot, req, buf>> /\ pc = "send"
      BY <1>7 DEF Send, scan
    <2>2. rd.ok /\ rd.left \in Nat \ {0} /\ rd.lba \in Nat
      BY <2>1 DEF ReadInv
    <2>3. CASE pc' = "drq" /\ togo' = Chunk /\ UNCHANGED rd
      <3>1. Chunk' = Chunk /\ Chunk \in Nat
        BY <2>2, <2>3, ChunkFacts DEF Chunk
      <3>2. Got' = Got
        BY <1>2, <2>1, <2>3, <3>1 DEF Got
      <3> QED
        BY <1>4, <2>1, <2>2, <2>3, <3>2 DEF Reading
    <2>4. CASE rd' = [rd EXCEPT !.ok = FALSE] /\ pc' = rd.back
      <3>1. pc' \notin {"send", "drq"} /\ (Reading' => Reading)
        BY <2>1, <2>4 DEF ReadType, Reading
      <3> QED
        BY <1>5, <2>1, <2>4, <3>1
    <2> QED
      BY <1>7, <2>3, <2>4 DEF Send
  <1>8. CASE Receive
    <2>1. UNCHANGED <<machine, usb, hdd, boot, req>> /\ pc = "drq"
      BY <1>8 DEF Receive, scan
    <2>2. rd.ok /\ rd.left \in Nat \ {0} /\ rd.lba \in Nat /\ Chunk \in Nat /\ Chunk <= rd.left /\ togo \in 1 .. Chunk
      BY <2>1, ChunkFacts DEF ReadInv, DriveInv
    <2>3. CASE rd' = [rd EXCEPT !.ok = FALSE] /\ pc' = rd.back
      <3>1. pc' \notin {"send", "drq"} /\ (Reading' => Reading)
        BY <2>1, <2>3 DEF ReadType, Reading
      <3> QED
        BY <1>5, <2>1, <2>3, <3>1
    <2>4. ASSUME drive[rd.slot].st \in {"data", "settle"}, rd.back = "chunk",
                 buf' = Append(buf, IF drive[rd.slot].st = "data"
                                    THEN <<machine.ide[rd.slot].id, drive[rd.slot].at>> ELSE <<"noise", 0>>)
          PROVE  /\ Reading /\ Got \in Nat /\ buf' \in Seq(Ids \X Nat)' /\ Len(buf') = Got + 1
                 /\ \A g : g = Got => IdeBrought(g + 1)'
      <3>1. PICK d : d = drive[rd.slot]
        OBVIOUS
      <3>2. PICK g : g = Got
        OBVIOUS
      <3>3. /\ g \in Nat /\ buf' \in Seq(Ids \X Nat) /\ Len(buf') = g + 1
            /\ IdeBrought(g + 1)'
        BY <2>1, <2>4, <3>1, <3>2, SectorFromIde
      <3>4. Ids' = Ids
        BY <2>1 DEF Ids
      <3> QED
        BY <2>1, <2>4, <3>2, <3>3, <3>4 DEF Reading
    <2>5. ASSUME ~(rd' = [rd EXCEPT !.ok = FALSE] /\ pc' = rd.back) PROVE
             /\ drive[rd.slot].st \in {"data", "settle"} /\ togo' = togo - 1
             /\ buf' = Append(buf, IF drive[rd.slot].st = "data"
                                    THEN <<machine.ide[rd.slot].id, drive[rd.slot].at>> ELSE <<"noise", 0>>)
             /\ IF togo > 1 THEN UNCHANGED <<pc, rd>>
                ELSE /\ rd' = [rd EXCEPT !.lba = (rd.lba + Chunk) % Word, !.left = rd.left - Chunk]
                     /\ pc' = rd.back
      BY <1>8, <2>5 DEF Receive
    <2>6. CASE rd.back = "mbr" /\ ~(rd' = [rd EXCEPT !.ok = FALSE] /\ pc' = rd.back)
      <3>1. CASE togo > 1
        BY <2>1, <2>2, <2>5, <2>6, <3>1 DEF ReadInv, Reading
      <3>2. CASE ~(togo > 1)
        BY <1>1, <2>5, <2>6, <3>2
      <3> QED
        BY <3>1, <3>2
    <2>7. CASE rd.back = "chunk" /\ ~(rd' = [rd EXCEPT !.ok = FALSE] /\ pc' = rd.back)
      <3>1. PICK g : g = Got
        OBVIOUS
      <3>2. /\ Reading /\ g \in Nat /\ buf' \in Seq(Ids \X Nat)' /\ Len(buf') = g + 1
            /\ IdeBrought(g + 1)'
        BY <2>4, <2>5, <2>7, <3>1
      <3>3. Numbers /\ Sound(g) /\ hdd.kind = "ide" /\ First \in Nat
        <4>1. Numbers /\ Sound(g)
          BY <2>2, <3>1, <3>2 DEF ReadInv
        <4>2. hdd.kind = "ide"
          BY <2>1, <2>7 DEF PlaceInv
        <4>3. First \in Nat
          BY <4>1, WordFacts DEF Numbers
        <4> QED
          BY <4>1, <4>2, <4>3
      <3>4. PICK first \in Nat, asked \in Nat, left \in Nat, n \in Nat :
              /\ first = First /\ asked = Asked /\ left = rd.left /\ n = Chunk
              /\ left \in 0 .. asked /\ n \in 1 .. left
        BY <2>2, <3>3 DEF Numbers
      <3>5. asked # 0 /\ InRange(first, asked) /\ rd.lba = (first + asked - left) % Word
        BY <3>3, <3>4 DEF Sound
      <3>6. First' = first /\ Asked' = asked /\ InRange(first, asked)'
        BY <1>2, <2>1, <3>4, <3>5 DEF InRange
      <3>7. ASSUME rd'.lba = (first + asked - rd'.left) % Word PROVE Sound(g + 1)'
        BY <2>1, <3>2, <3>3, <3>5, <3>6, <3>7 DEF Sound
      <3>8. CASE togo > 1
        <4>1. UNCHANGED <<pc, rd>> /\ togo' = togo - 1 /\ Chunk' = Chunk
          BY <2>5, <2>7, <3>8 DEF Chunk
        <4>2. Got' = asked - left + (n - (togo - 1)) /\ g = asked - left + (n - togo)
          BY <2>1, <3>1, <3>4, <3>6, <4>1 DEF Got
        <4>3. Got' = g + 1
          BY <2>2, <3>4, <4>2
        <4>4. Sound(g + 1)' /\ Numbers'
          BY <3>3, <3>4, <3>5, <3>6, <3>7, <4>1 DEF Numbers
        <4> QED
          BY <2>2, <4>1, <4>3, <4>4 DEF ReadInv
      <3>9. CASE ~(togo > 1)
        <4>1. /\ rd' = [rd EXCEPT !.lba = (rd.lba + n) % Word, !.left = left - n]
              /\ pc' = "chunk" /\ togo = 1
          BY <2>2, <2>5, <2>7, <3>4, <3>9
        <4>2. rd'.lba = (rd.lba + n) % Word /\ rd'.left = left - n
          BY <4>1 DEF ReadType
        <4>3. /\ left - n \in 0 .. asked
              /\ (rd.lba + n) % Word = (first + asked - (left - n)) % Word
              /\ asked - (left - n) = (asked - left) + n
          <5>1. n <= left /\ left <= asked
            BY <3>4
          <5>2. PICK lba : lba = rd.lba
            OBVIOUS
          <5> QED
            BY <3>5, <5>1, <5>2, LeftAfter
        <4>4. Got' = asked - (left - n) /\ g = asked - left + (n - 1)
          BY <2>1, <3>1, <3>4, <3>6, <4>1, <4>2, <4>3 DEF Got
        <4>5. Got' = g + 1
          BY <3>4, <4>3, <4>4
        <4>6. Sound(g + 1)' /\ Numbers'
          BY <3>3, <3>4, <3>6, <3>7, <4>2, <4>3 DEF Numbers
        <4> QED
          BY <4>1, <4>5, <4>6 DEF ReadInv
      <3> QED
        BY <3>8, <3>9
    <2> QED
      BY <2>1, <2>3, <2>6, <2>7 DEF PlaceInv
  <1>9. CASE ReadIde
    <2>1. UNCHANGED <<machine, usb, hdd, boot, req, buf, rd>> /\ pc = "chunk" /\ pc' = "send" /\ rd.ok /\ rd.left > 0
      BY <1>9 DEF ReadIde, scan
    <2>2. Got' = Got
      BY <1>2, <2>1 DEF Got
    <2>3. rd.back = "chunk" /\ rd.left \in Nat \ {0} /\ rd.lba \in Nat
      BY <2>1 DEF PlaceInv, ReadType
    <2> QED
      BY <1>4, <2>1, <2>2, <2>3 DEF Reading
  <1>10. CASE ReadUsb
    <2>1. /\ UNCHANGED <<machine, usb, hdd, boot, req, pc>> /\ pc = "chunk" /\ rd.ok /\ rd.left > 0
          /\ hdd.kind = "usb" /\ Reading /\ rd.left \in Nat
      BY <1>10 DEF ReadUsb, scan, Reading, ReadType
    <2>2. CASE rd' = [rd EXCEPT !.ok = FALSE]
      BY <1>5, <2>1, <2>2 DEF Reading
    <2>3. PICK n : n = IF rd.left > UsbBatch THEN UsbBatch ELSE rd.left
      OBVIOUS
    <2>4. n \in Nat /\ n > 0 /\ n <= rd.left
      BY <2>1, <2>3, StorageAssumption
    <2>5. CASE \E p \in Answering :
            /\ Answering = {p} /\ machine.usb[p].kind = "msd" /\ rd.lba + n <= machine.usb[p].size
            /\ buf' = buf \o [i \in 1 .. n |-> <<machine.usb[p].id, rd.lba + i - 1>>]
            /\ rd' = [rd EXCEPT !.lba = (rd.lba + n) % Word, !.left = rd.left - n]
      <3>1. PICK p \in Answering :
            /\ Answering = {p} /\ rd.lba + n <= machine.usb[p].size
            /\ buf' = buf \o [i \in 1 .. n |-> <<machine.usb[p].id, rd.lba + i - 1>>]
            /\ rd' = [rd EXCEPT !.lba = (rd.lba + n) % Word, !.left = rd.left - n]
        BY <2>5
      <3>2. PICK g : g = Got
        OBVIOUS
      <3>3. g \in Nat /\ buf' \in Seq(Ids \X Nat) /\ Len(buf') = g + n /\ UsbBrought(g + n)'
        BY <2>1, <2>4, <3>1, <3>2, SectorsFromUsb
      <3>4. Numbers /\ Sound(g) /\ First \in Nat /\ Ids' = Ids
        BY <2>1, <3>2, WordFacts DEF ReadInv, Numbers, Ids
      <3>5. PICK first \in Nat, asked \in Nat, left \in Nat :
              first = First /\ asked = Asked /\ left = rd.left /\ left \in 0 .. asked
        BY <2>1, <3>4 DEF Numbers
      <3>6. asked # 0 /\ InRange(first, asked) /\ rd.lba = (first + asked - left) % Word
        BY <3>4, <3>5 DEF Sound
      <3>7. First' = first /\ Asked' = asked /\ InRange(first, asked)'
        BY <1>2, <2>1, <3>5, <3>6 DEF InRange
      <3>8. rd'.lba = (rd.lba + n) % Word /\ rd'.left = left - n
        BY <3>1, <3>5 DEF ReadType
      <3>9. /\ left - n \in 0 .. asked
            /\ (rd.lba + n) % Word = (first + asked - (left - n)) % Word
            /\ asked - (left - n) = (asked - left) + n
        <4>1. n <= left /\ left <= asked /\ n \in Nat
          BY <2>4, <3>5
        <4>2. PICK lba : lba = rd.lba
          OBVIOUS
        <4> QED
          BY <3>6, <4>1, <4>2, LeftAfter
      <3>10. Got' = asked - (left - n) /\ g = asked - left
        BY <2>1, <3>2, <3>5, <3>7, <3>8, <3>9 DEF Got
      <3>11. Got' = g + n
        BY <3>9, <3>10
      <3>12. Sound(g + n)' /\ Numbers'
        BY <2>1, <3>3, <3>4, <3>5, <3>6, <3>7, <3>8, <3>9 DEF Sound, Numbers
      <3> QED
        BY <2>1, <3>11, <3>12 DEF ReadInv
    <2> QED
      BY <1>10, <2>2, <2>3, <2>5 DEF ReadUsb
  <1>11. CASE Selected
    <2>1. CASE pc' = "select"
      BY <1>1, <2>1
    <2>2. CASE Read(0, 1)
      <3>1. UNCHANGED <<machine, usb, hdd, boot>> /\ boot.from = "none"
        BY <1>11 DEF Selected, scan, PlaceInv, Reading
      <3>2. First' = 0 /\ Asked' = 1 /\ 0 \in 0 .. Word - 1
        BY <3>1, WordFacts DEF First, Asked
      <3> QED
        BY <2>2, <3>1, <3>2, ReadBegins
    <2> QED
      BY <1>11, <2>1, <2>2 DEF Selected
  <1>12. ASSUME NEW r \in Requests, Int13(r) PROVE ReadInv'
    <2>1. UNCHANGED <<machine, usb, hdd, boot>> /\ req' = r /\ boot.from # "none"
      BY <1>12 DEF Int13, scan, PlaceInv
    <2>2. CASE \E ok, sectors : Answer(ok, sectors)
      BY <1>1, <2>2 DEF Answer
    <2>3. CASE r.fn = "ext" /\ Read(r.lba, r.n)
      <3>1. First' = r.lba /\ Asked' = r.n
        BY <2>1, <2>3 DEF First, Asked
      <3> QED
        BY <2>1, <2>3, <3>1, RequestFacts, ReadBegins
    <2>4. CASE r.fn = "chs" /\ r.s # 0 /\ r.h < hdd.heads /\ r.c < hdd.cylinders /\ Read(ChsFirst(r), r.n)
      <3>1. First' = ChsFirst(r) /\ Asked' = r.n
        BY <2>1, <2>4 DEF First, Asked, ChsFirst
      <3>2. PICK lba \in 0 .. Word - 1 : lba = ChsFirst(r)
        BY <2>4, ChsBelow
      <3> QED
        BY <2>1, <2>4, <3>1, <3>2, RequestFacts, ReadBegins
    <2> QED
      BY <1>12, <2>2, <2>3, <2>4 DEF Int13, FloppyRead, ExtRead, ChsRead, Parameters
  <1>13. ASSUME (\E s \in Slots : DriveProceeds(s)) \/ UNCHANGED vars PROVE ReadInv'
    <2>1. UNCHANGED <<machine, usb, hdd, boot, req, buf, rd, pc, togo>>
      BY <1>13 DEF DriveProceeds, vars, scan
    <2>2. Got' = Got
      BY <1>2, <2>1 DEF Got, Chunk
    <2> QED
      BY <1>4, <2>1, <2>2 DEF Reading, ReadInv
  <1> QED
    BY <1>1, <1>6, <1>7, <1>8, <1>9, <1>10, <1>11, <1>12, <1>13
    DEF Next, Program, Slots, Identify, ScanMbr, NextSlot, Ports, PortFails, PortFound,
        NextPort, Export, Import, Select, ReadEnds, NoneLeft, Answered

LEMMA DigitsLess ==
  ASSUME NEW b \in Nat \ {0}, NEW q1 \in Nat, NEW q2 \in Nat, NEW r1 \in 0 .. b - 1, NEW r2 \in 0 .. b - 1
  PROVE  /\ q1 * b + r1 < q2 * b + r2 <=> q1 < q2 \/ (q1 = q2 /\ r1 < r2)
         /\ q1 * b + r1 = q2 * b + r2 <=> q1 = q2 /\ r1 = r2
         /\ q1 * b + r1 \in Nat
PROOF
  <1>1. \A x, y \in Nat : x < y => x * b + b <= y * b
    <2> SUFFICES ASSUME NEW x \in Nat, NEW y \in Nat, x < y PROVE x * b + b <= y * b
      OBVIOUS
    <2>1. PICK z \in Nat : y = x + 1 + z
      <3>1. y - x - 1 \in Nat /\ y = x + 1 + (y - x - 1)
        OBVIOUS
      <3> QED
        BY <3>1
    <2>2. y * b = x * b + b + z * b /\ z * b \in Nat /\ x * b \in Nat
      BY <2>1
    <2> QED
      BY <2>2
  <1>2. q1 * b \in Nat /\ q2 * b \in Nat
    OBVIOUS
  <1>3. PICK p1 \in Nat, p2 \in Nat : p1 = q1 * b /\ p2 = q2 * b
    BY <1>2
  <1>4. (q1 < q2 => p1 + b <= p2) /\ (q2 < q1 => p2 + b <= p1) /\ (q1 = q2 => p1 = p2)
    BY <1>1, <1>3
  <1>5. /\ p1 + r1 < p2 + r2 <=> q1 < q2 \/ (q1 = q2 /\ r1 < r2)
        /\ p1 + r1 = p2 + r2 <=> q1 = q2 /\ r1 = r2
        /\ p1 + r1 \in Nat
    BY <1>4
  <1> QED
    BY <1>3, <1>5

(* Cylinder, head and sector count the sectors.                            *)
LEMMA CountedByGeometry ==
  ASSUME NEW heads \in Nat \ {0}, NEW spt \in Nat \ {0}, NEW r,
         r.c \in Nat, r.h \in 0 .. heads - 1, r.s \in 1 .. spt
  PROVE  Before(heads, spt, r) = ((r.c * heads) + r.h) * spt + r.s - 1
PROOF
  <1> DEFINE P == {p \in (0 .. r.c) \X (0 .. heads - 1) \X (1 .. spt) :
                     \/ p[1] < r.c
                     \/ p[1] = r.c /\ p[2] < r.h
                     \/ p[1] = r.c /\ p[2] = r.h /\ p[3] < r.s}
             Track(c, h) == c * heads + h
             Num(m, s) == m * spt + (s - 1)
             N == Num(Track(r.c, r.h), r.s)
             Less(c, h, s) == \/ c < r.c
                              \/ c = r.c /\ h < r.h
                              \/ c = r.c /\ h = r.h /\ s < r.s
  <1>1. /\ Track(r.c, r.h) \in Nat /\ N \in Nat
        /\ \A c \in Nat, h \in 0 .. heads - 1 : Track(c, h) \in Nat
        /\ \A m \in Nat, s \in 1 .. spt : Num(m, s) \in Nat /\ s - 1 \in 0 .. spt - 1
    <2>1. \A c \in Nat, h \in 0 .. heads - 1 : Track(c, h) \in Nat
      BY DigitsLess
    <2>2. \A m \in Nat, s \in 1 .. spt : Num(m, s) \in Nat /\ s - 1 \in 0 .. spt - 1
      <3> SUFFICES ASSUME NEW m \in Nat, NEW s \in 1 .. spt PROVE Num(m, s) \in Nat /\ s - 1 \in 0 .. spt - 1
        OBVIOUS
      <3>1. s - 1 \in 0 .. spt - 1
        OBVIOUS
      <3> QED
        BY <3>1, DigitsLess
    <2> QED
      BY <2>1, <2>2
  <1>2. ASSUME NEW c \in Nat, NEW h \in 0 .. heads - 1, NEW s \in 1 .. spt
        PROVE  Num(Track(c, h), s) < N <=> Less(c, h, s)
    <2>1. /\ Track(c, h) < Track(r.c, r.h) <=> c < r.c \/ (c = r.c /\ h < r.h)
          /\ Track(c, h) = Track(r.c, r.h) <=> c = r.c /\ h = r.h
      BY DigitsLess
    <2>2. PICK m1 \in Nat, m2 \in Nat : m1 = Track(c, h) /\ m2 = Track(r.c, r.h)
      BY <1>1
    <2>3. Num(m1, s) < Num(m2, r.s) <=> m1 < m2 \/ (m1 = m2 /\ s - 1 < r.s - 1)
      <3>1. s - 1 \in 0 .. spt - 1 /\ r.s - 1 \in 0 .. spt - 1
        BY <1>1
      <3> QED
        BY <3>1, DigitsLess
    <2>4. s - 1 < r.s - 1 <=> s < r.s
      OBVIOUS
    <2> QED
      BY <2>1, <2>2, <2>3, <2>4
  <1> DEFINE Pos == Nat \X (0 .. heads - 1) \X (1 .. spt)
             Code(p) == Num(Track(p[1], p[2]), p[3])
  <1>3. ASSUME NEW p \in Pos, NEW q \in Pos, Code(p) = Code(q) PROVE p = q
    <2>p. PICK c1 \in Nat, h1 \in 0 .. heads - 1, s1 \in 1 .. spt : p = <<c1, h1, s1>>
      OBVIOUS
    <2>q. PICK c2 \in Nat, h2 \in 0 .. heads - 1, s2 \in 1 .. spt : q = <<c2, h2, s2>>
      OBVIOUS
    <2>1. PICK m1 \in Nat, m2 \in Nat : m1 = Track(c1, h1) /\ m2 = Track(c2, h2)
      BY <1>1
    <2>2. s1 - 1 \in 0 .. spt - 1 /\ s2 - 1 \in 0 .. spt - 1
      BY <1>1
    <2>3. m1 = m2 /\ s1 - 1 = s2 - 1
      BY <1>3, <2>p, <2>q, <2>1, <2>2, DigitsLess
    <2>4. c1 = c2 /\ h1 = h2
      BY <2>1, <2>3, DigitsLess
    <2> QED
      BY <2>p, <2>q, <2>3, <2>4
  <1>4. ASSUME NEW n \in 0 .. N - 1
        PROVE  \E c \in Nat, h \in 0 .. heads - 1, s \in 1 .. spt : n = Num(Track(c, h), s)
    <2>0. n \in Nat
      BY <1>1
    <2>1. PICK m \in Nat, z \in 0 .. spt - 1 : n = m * spt + z
      BY <2>0, ModDef
    <2>2. PICK c \in Nat, h \in 0 .. heads - 1 : m = c * heads + h
      BY ModDef
    <2>3. z + 1 \in 1 .. spt /\ (z + 1) - 1 = z
      OBVIOUS
    <2> QED
      BY <2>1, <2>2, <2>3
  <1> DEFINE F == [p \in P |-> Num(Track(p[1], p[2]), p[3]) + 1]
  <1>5. F \in [P -> 1 .. N]
    <2> SUFFICES ASSUME NEW p \in P PROVE Num(Track(p[1], p[2]), p[3]) + 1 \in 1 .. N
      OBVIOUS
    <2>1. p[1] \in Nat /\ p[2] \in 0 .. heads - 1 /\ p[3] \in 1 .. spt /\ Less(p[1], p[2], p[3])
      OBVIOUS
    <2>2. Num(Track(p[1], p[2]), p[3]) < N /\ Num(Track(p[1], p[2]), p[3]) \in Nat
      BY <1>1, <1>2, <2>1
    <2> QED
      BY <1>1, <2>2
  <1>6. \A p, q \in P : F[p] = F[q] => p = q
    <2> SUFFICES ASSUME NEW p \in P, NEW q \in P, F[p] = F[q] PROVE p = q
      OBVIOUS
    <2>1. p \in Pos /\ q \in Pos
      OBVIOUS
    <2>2. Code(p) \in Nat /\ Code(q) \in Nat
      BY <1>1, <2>1
    <2>3. Code(p) = Code(q)
      BY <2>2
    <2> HIDE DEF Code, Pos
    <2> QED
      BY <1>3, <2>1, <2>3
  <1>7. \A n \in 1 .. N : \E p \in P : F[p] = n
    <2> SUFFICES ASSUME NEW n \in 1 .. N PROVE \E p \in P : F[p] = n
      OBVIOUS
    <2>1. n - 1 \in 0 .. N - 1
      BY <1>1
    <2>2. PICK c \in Nat, h \in 0 .. heads - 1, s \in 1 .. spt : n - 1 = Num(Track(c, h), s)
      BY <1>4, <2>1
    <2>3. Num(Track(c, h), s) < N
      BY <1>1, <2>1, <2>2
    <2>4. Less(c, h, s)
      BY <1>2, <2>3
    <2>5. <<c, h, s>> \in P
      BY <2>4
    <2>6. F[<<c, h, s>>] = n
      BY <2>2, <2>5
    <2> QED
      BY <2>5, <2>6
  <1>8. ExistsBijection(1 .. N, P)
    <2> HIDE DEF F, P, N
    <2>1. F \in Bijection(P, 1 .. N)
      BY <1>5, <1>6, <1>7, Fun_IsBij
    <2>2. ExistsBijection(P, 1 .. N)
      BY <2>1 DEF ExistsBijection
    <2> QED
      BY <2>2, Fun_ExistsBijSymmetric
  <1>9. Cardinality(P) = N
    <2> HIDE DEF P, N
    <2> QED
      BY <1>1, <1>8, FS_CountingElements
  <1> QED
    BY <1>1, <1>9 DEF Before

(* What a read that went well has brought in the end: the sectors asked    *)
(* for, of one disk.                                                       *)
LEMMA Complete ==
  ASSUME TypeInv, PlaceInv, ReadInv, BootedInv, pc = "chunk", rd.ok, rd.left = 0
  PROVE  \E id \in Ids :
           /\ buf = [i \in 1 .. Asked |-> <<id, First + i - 1>>]
           /\ Asked \in Nat \ {0} /\ id # "floppy"
           /\ hdd.kind = "ide" => id = machine.ide[hdd.slot].id
           /\ hdd.kind = "usb" => \E p \in Ports2 : Answering = {p} /\ id = machine.usb[p].id
           /\ hdd.kind # "none"
PROOF
  <1>1. Reading /\ Numbers /\ Got = Asked /\ Asked \in Nat \ {0} /\ Sound(Asked)
    <2>1. Reading /\ Numbers /\ Sound(Got)
      BY DEF Reading, ReadInv
    <2>2. Asked \in Nat \ {0}
      BY <2>1 DEF Numbers, Sound
    <2>3. Got = Asked
      BY <2>2 DEF Got
    <2> QED
      BY <2>1, <2>2, <2>3
  <1>2. PICK first \in 0 .. Word - 1, n \in Nat \ {0} : first = First /\ n = Asked
    BY <1>1 DEF Numbers
  <1>3. buf = [i \in 1 .. n |-> buf[i]]
    BY <1>1, <1>2 DEF Sound
  <1>4. machine \in Machines /\ hdd \in DiskRecords
    BY HddFacts DEF TypeInv
  <1>5. CASE hdd.kind = "ide"
    <2>1. hdd.slot \in Slots /\ hdd.total = machine.ide[hdd.slot].size
      BY <1>5, HddFacts
    <2>2. PICK size \in 0 .. Lba28 - 1 : size = hdd.total
      BY <1>4, <2>1, MachineFacts
    <2>3. /\ \A i \in 1 .. n : buf[i] = <<machine.ide[hdd.slot].id, (first + i - 1) % Lba28>>
          /\ \A i \in 1 .. n : (first + i - 1) % Lba28 < size
          /\ (first + n) % Word <= size
      BY <1>1, <1>2, <1>5, <2>1, <2>2 DEF Sound, IdeBrought, InRange
    <2>4. \A i \in 1 .. n : (first + i - 1) % Lba28 = first + i - 1
      BY <2>3, NoWrap
    <2>5. PICK id : id = machine.ide[hdd.slot].id
      OBVIOUS
    <2>6. buf = [i \in 1 .. n |-> <<id, first + i - 1>>]
      <3>1. \A i \in 1 .. n : buf[i] = <<id, first + i - 1>>
        BY <2>3, <2>4, <2>5
      <3> QED
        BY <1>3, <3>1
    <2>7. id \in Ids /\ id # "floppy"
      BY <1>4, <2>1, <2>5, MachineFacts DEF Ids, Slots
    <2> QED
      BY <1>1, <1>2, <1>5, <2>5, <2>6, <2>7
  <1>6. CASE hdd.kind = "usb"
    <2>1. PICK p \in Ports2 :
            /\ Answering = {p}
            /\ \A i \in 1 .. n : buf[i] = <<machine.usb[p].id, first + i - 1>>
      <3>1. n > 0 /\ UsbBrought(n)
        BY <1>1, <1>2, <1>6 DEF Sound
      <3> QED
        BY <1>2, <3>1 DEF UsbBrought
    <2>2. PICK id : id = machine.usb[p].id
      OBVIOUS
    <2>3. buf = [i \in 1 .. n |-> <<id, first + i - 1>>]
      BY <1>3, <2>1, <2>2
    <2>4. id \in Ids /\ id # "floppy"
      BY <1>4, <2>2, MachineFacts DEF Ids, Ports2
    <2> QED
      BY <1>1, <1>2, <1>6, <2>1, <2>2, <2>3, <2>4
  <1> QED
    BY <1>1, <1>4, <1>5, <1>6 DEF Sound, DiskRecords

LEMMA BootedStep ==
  TypeInv /\ ReadType /\ PlaceInv /\ ReadInv /\ BootedInv /\ [Next]_vars => BootedInv'
PROOF
  <1> SUFFICES ASSUME TypeInv, ReadType, PlaceInv, ReadInv, BootedInv, [Next]_vars PROVE BootedInv'
    OBVIOUS
  <1>1. ASSUME UNCHANGED <<machine, usb, hdd, boot, app>>, Reading' => Reading \/ boot.from # "none" PROVE BootedInv'
    BY <1>1 DEF BootedInv, Answering
  <1>2. ASSUME boot'.from = "none", ~Reading' PROVE BootedInv'
    BY <1>2 DEF BootedInv
  <1>3. ASSUME boot'.from = "none", app' # "legacy" PROVE BootedInv'
    BY <1>3 DEF BootedInv
  <1>4. CASE Identify \/ Register \/ ScanMbr \/ Export
    <2>1. boot.from = "none" /\ UNCHANGED boot /\ app' # "legacy"
      <3>1. app = "stage3" /\ UNCHANGED boot
        BY <1>4 DEF Identify, Register, ScanMbr, Export, PlaceInv
      <3>2. app' \in {"stage3", "linux"}
        BY <1>4, <3>1 DEF Identify, Register, ScanMbr, Export
      <3> QED
        BY <3>1, <3>2 DEF PlaceInv
    <2> QED
      BY <1>3, <2>1
  <1>5. CASE Ports \/ PortFails \/ PortFound \/ Select \/ NoneLeft
    <2>1. boot.from = "none" /\ UNCHANGED boot
      BY <1>5 DEF Ports, PortFails, PortFound, Select, NoneLeft, PlaceInv, Reading
    <2>2. pc' \notin {"chunk", "send", "drq"}
      BY <1>5 DEF Ports, PortFails, PortFound, NextPort, Select, NoneLeft
    <2> QED
      BY <1>2, <2>1, <2>2 DEF Reading
  <1>6. CASE Import
    <2>1. boot.from = "none" /\ pc' \in {"guest", "select"} /\ boot'.from \in {"none", "floppy"}
      BY <1>6 DEF Import, PlaceInv, Reading
    <2> QED
      BY <2>1 DEF BootedInv, Reading
  <1>7. CASE Send \/ Receive \/ ReadIde \/ ReadUsb \/ Answered
    <2>1. UNCHANGED <<machine, usb, hdd, boot, app>>
      BY <1>7 DEF Send, Receive, ReadIde, ReadUsb, Answered, scan
    <2>2. Reading' => Reading \/ boot.from # "none"
      BY <1>7 DEF Send, Receive, ReadIde, ReadUsb, Answered, scan, ReadType, Reading
    <2> QED
      BY <1>1, <2>1, <2>2
  <1>8. CASE Selected
    <2>1. UNCHANGED <<machine, usb, hdd, boot, app>> /\ boot.from = "none"
      BY <1>8 DEF Selected, scan, PlaceInv, Reading
    <2>2. CASE pc' = "select"
      BY <1>2, <2>1, <2>2 DEF Reading
    <2>3. CASE app = "linux" \/ hdd.mbr
      BY <2>1, <2>3 DEF BootedInv
    <2> QED
      BY <1>8, <2>2, <2>3 DEF Selected
  <1>9. CASE ReadEnds
    <2>1. UNCHANGED <<machine, usb, hdd, app, rd>> /\ pc' \notin {"chunk", "send", "drq"} /\ pc = "chunk"
      BY <1>9 DEF ReadEnds
    <2>2. CASE UNCHANGED boot
      BY <1>1, <2>1, <2>2 DEF Reading
    <2>3. CASE /\ boot.from = "none" /\ app = "legacy" /\ rd.ok
               /\ boot' = [from |-> "disk", id |-> buf[1][1]]
      <3>1. rd.left = 0 /\ Asked = 1 /\ hdd.mbr
        BY <1>9, <2>1, <2>3 DEF ReadEnds, BootedInv, Reading, Asked
      <3>2. PICK id \in Ids :
               /\ buf = [i \in 1 .. Asked |-> <<id, First + i - 1>>]
               /\ hdd.kind = "ide" => id = machine.ide[hdd.slot].id
               /\ hdd.kind = "usb" => \E p \in Ports2 : Answering = {p} /\ id = machine.usb[p].id
               /\ hdd.kind # "none"
        BY <2>1, <2>3, <3>1, Complete
      <3>3. buf[1][1] = id
        BY <3>1, <3>2
      <3>4. hdd.kind \in {"ide", "usb"}
        BY <3>2, HddFacts DEF DiskRecords
      <3>5. Answering' = Answering
        BY <2>1 DEF Answering
      <3>6. hdd.kind = "usb" => \A p \in Ports2 : Answering = {p} => id = machine.usb[p].id
        BY <3>2
      <3> QED
        BY <2>1, <2>3, <3>1, <3>2, <3>3, <3>4, <3>5, <3>6 DEF BootedInv
    <2> QED
      BY <1>9, <2>2, <2>3 DEF ReadEnds
  <1>10. ASSUME NEW r \in Requests, Int13(r) PROVE BootedInv'
    <2>1. UNCHANGED <<machine, usb, hdd, boot, app>> /\ boot.from # "none"
      BY <1>10 DEF Int13, scan, PlaceInv
    <2> QED
      BY <1>1, <2>1
  <1>11. ASSUME (\E s \in Slots : DriveProceeds(s)) \/ UNCHANGED vars PROVE BootedInv'
    <2>1. UNCHANGED <<machine, usb, hdd, boot, app, pc, rd>>
      BY <1>11 DEF DriveProceeds, vars, scan
    <2> QED
      BY <1>1, <2>1 DEF Reading
  <1> QED
    BY <1>4, <1>5, <1>6, <1>7, <1>8, <1>9, <1>10, <1>11 DEF Next, Program, Slots

LEMMA RightStep ==
  TypeInv /\ ReadType /\ PlaceInv /\ ReadInv /\ BootedInv /\ ReadRight /\ [Next]_vars => ReadRight'
PROOF
  <1> SUFFICES ASSUME TypeInv, ReadType, PlaceInv, ReadInv, BootedInv, ReadRight, [Next]_vars PROVE ReadRight'
    OBVIOUS
  <1>1. ASSUME pc' # "answer" PROVE ReadRight'
    BY <1>1 DEF ReadRight
  <1>2. CASE ReadEnds
    <2>1. CASE pc' = "answer"
      <3>1. /\ pc = "chunk" /\ boot.from # "none" /\ Reading
            /\ UNCHANGED <<machine, usb, hdd, boot, req, rd, buf>>
        BY <1>2, <2>1 DEF ReadEnds, Reading
      <3>2. /\ req \in Requests /\ req.fn \in {"ext", "chs"} /\ Asked = req.n
            /\ req.fn = "chs" => req.h < hdd.heads /\ req.c < hdd.cylinders /\ req.s # 0
        BY <3>1 DEF PlaceInv, Asked
      <3>3. Begins(req) = First
        <4>1. CASE req.fn = "ext"
          BY <3>1, <4>1 DEF Begins, First
        <4>2. CASE req.fn = "chs"
          <5>1. /\ req.c \in Nat /\ req.h \in 0 .. hdd.heads - 1 /\ req.s \in 1 .. Spt
                /\ hdd.heads \in Nat \ {0} /\ Spt \in Nat \ {0}
            BY <3>2, <4>2, RequestFacts, HddFacts, StorageAssumption
          <5>2. Before(hdd.heads, Spt, req) = ChsFirst(req)
            BY <5>1, CountedByGeometry DEF ChsFirst
          <5> QED
            BY <3>1, <4>2, <5>2 DEF Begins, First
        <4> QED
          BY <3>2, <4>1, <4>2
      <3>4. ASSUME rd.ok PROVE ReadRight'
        <4>1. rd.left = 0
          BY <1>2, <3>4 DEF ReadEnds
        <4>2. PICK id \in Ids :
                 /\ buf = [i \in 1 .. req.n |-> <<id, Begins(req) + i - 1>>]
                 /\ id # "floppy"
                 /\ hdd.kind = "ide" => id = machine.ide[hdd.slot].id
                 /\ hdd.kind = "usb" => \E p \in Ports2 : Answering = {p} /\ id = machine.usb[p].id
          BY <3>1, <3>2, <3>3, <3>4, <4>1, Complete
        <4>3. boot.from = "disk" => id = boot.id
          BY <4>2 DEF BootedInv
        <4>4. Begins(req)' = Begins(req) /\ Ids' = Ids
          BY <3>1 DEF Begins, Ids
        <4> QED
          BY <3>1, <3>2, <4>2, <4>3, <4>4 DEF ReadRight
      <3> QED
        BY <3>1, <3>4 DEF ReadRight
    <2> QED
      BY <1>1, <2>1
  <1>3. ASSUME NEW r \in Requests, Int13(r) PROVE ReadRight'
    <2>1. req' = r /\ UNCHANGED <<hdd, machine, boot>> /\ r.fn \in {"ext", "chs", "floppy", "other"}
      BY <1>3, RequestFacts DEF Int13, scan
    <2>2. CASE \E lba, n : Read(lba, n)
      BY <1>1, <2>2 DEF Read
    <2>3. CASE ~rd'.ok
      BY <2>3 DEF ReadRight
    <2>4. CASE r.fn = "other"
      BY <2>1, <2>4 DEF ReadRight
    <2>5. CASE /\ r.fn = "floppy" /\ r.s \in 1 .. FloppySpt /\ r.h < FloppyHeads
               /\ buf' = [i \in 1 .. r.n |-> <<"floppy", FloppyFirst(r) + i - 1>>]
      <3>1. /\ r.c \in Nat /\ r.h \in 0 .. FloppyHeads - 1 /\ r.s \in 1 .. FloppySpt
            /\ FloppyHeads \in Nat \ {0} /\ FloppySpt \in Nat \ {0}
        BY <2>5, RequestFacts, StorageAssumption
      <3>2. FloppyFirst(r) = Before(FloppyHeads, FloppySpt, r)
        BY <3>1, CountedByGeometry DEF FloppyFirst
      <3>3. Begins(req)' = FloppyFirst(r)
        BY <2>1, <2>5, <3>2 DEF Begins
      <3> QED
        BY <2>1, <2>5, <3>3 DEF ReadRight
    <2> QED
      BY <1>3, <2>2, <2>3, <2>4, <2>5, StorageAssumption
      DEF Int13, FloppyRead, ExtRead, ChsRead, Parameters, Answer, NoRead
  <1>4. ASSUME (\E s \in Slots : DriveProceeds(s)) \/ UNCHANGED vars PROVE ReadRight'
    <2>1. UNCHANGED <<machine, hdd, boot, pc, rd, req, buf>>
      BY <1>4 DEF DriveProceeds, vars, scan
    <2>2. Begins(req)' = Begins(req) /\ Ids' = Ids
      BY <2>1 DEF Begins, Ids
    <2> QED
      BY <2>1, <2>2 DEF ReadRight
  <1>5. ASSUME Send \/ Receive PROVE ReadRight'
    BY <1>1, <1>5 DEF Send, Receive, ReadType
  <1> QED
    BY <1>1, <1>2, <1>3, <1>4, <1>5
    DEF Next, Program, Slots, Identify, Register, ScanMbr, NextSlot, Ports, PortFails, PortFound,
        NextPort, Export, Import, Select, Selected, Read, ReadIde, ReadUsb, NoneLeft, Answered

LEMMA SafeInitial == Init => SafeInv
PROOF
  <1> SUFFICES ASSUME Init PROVE SafeInv
    OBVIOUS
  <1>1. TypeInv
    BY TypeInitial
  <1>2. ReadType
    BY DEF Init, NoRead, ReadType
  <1>3. PlaceInv
    BY DEF Init, PlaceInv, Reading, Slots
  <1>4. UsbInv /\ DriveInv /\ ReadInv /\ BootedInv /\ ReadRight
    BY DEF Init, UsbInv, DriveInv, ReadInv, BootedInv, ReadRight, Reading
  <1> QED
    BY <1>1, <1>2, <1>3, <1>4 DEF SafeInv

LEMMA SafeStep == SafeInv /\ [Next]_vars => SafeInv'
PROOF
  BY TypeStep, ReadTypeStep, PlaceStep, UsbStep, DriveStep, ReadStep, BootedStep, RightStep DEF SafeInv

(* Scan, selection, boot and INT 13h keep to the invariant.                *)
THEOREM Safe == Spec => []SafeInv
PROOF
  BY SafeInitial, SafeStep, PTL DEF Spec

(* ReadRight: a read of INT 13h that succeeds brings exactly the sectors   *)
(* asked for, of the disk booted from.                                     *)
THEOREM ReadsRight == Spec => []ReadRight
PROOF
  <1>1. SafeInv => ReadRight
    BY DEF SafeInv
  <1> QED
    BY Safe, <1>1, PTL

(* The disk booted and the record of the IDE disk.                         *)
LEMMA BootedIsActive ==
  ASSUME SafeInv
  PROVE  /\ boot.from = "disk" =>
              \/ \E s \in 1 .. 4 : machine.ide[s].id = boot.id /\ machine.ide[s].mbr
              \/ \E p \in 1 .. 2 : machine.usb[p].id = boot.id /\ machine.usb[p].mbr
         /\ cand.ide # NoDisk =>
              LET d == machine.ide[cand.ide.slot] IN (cand.ide.mbr => d.mbr) /\ cand.ide.total = d.size
PROOF
  <1>1. TypeInv /\ machine \in Machines
    BY DEF SafeInv, TypeInv
  <1>2. ASSUME boot.from = "disk"
        PROVE  \/ \E s \in 1 .. 4 : machine.ide[s].id = boot.id /\ machine.ide[s].mbr
               \/ \E p \in 1 .. 2 : machine.usb[p].id = boot.id /\ machine.usb[p].mbr
    <2>1. CASE hdd.kind = "ide" /\ boot.id = machine.ide[hdd.slot].id
      <3>1. hdd.mbr /\ IsIde(hdd)
        BY <1>1, <1>2, <2>1, HddFacts DEF SafeInv, BootedInv
      <3>2. hdd.slot \in Slots /\ machine.ide[hdd.slot].mbr
        BY <1>1, <3>1, IdeFacts
      <3> QED
        BY <2>1, <3>2 DEF Slots
    <2>2. CASE hdd.kind = "usb" /\ \A p \in Ports2 : Answering = {p} => boot.id = machine.usb[p].id
      <3>1. UsbFound
        BY <1>2, <2>2 DEF SafeInv, PlaceInv, UsbInv
      <3>2. PICK p \in Ports2 : Answering = {p} /\ hdd = Disk("usb", 0, machine.usb[p].mbr, machine.usb[p].size)
        BY <3>1 DEF UsbFound
      <3>3. hdd.mbr /\ hdd.mbr = machine.usb[p].mbr
        BY <1>2, <3>2 DEF SafeInv, BootedInv, Disk
      <3> QED
        BY <2>2, <3>2, <3>3 DEF Ports2
    <2> QED
      BY <1>2, <2>1, <2>2 DEF SafeInv, BootedInv
  <1>3. cand.ide # NoDisk => (cand.ide.mbr => machine.ide[cand.ide.slot].mbr)
                             /\ cand.ide.total = machine.ide[cand.ide.slot].size
    BY <1>1, IdeFacts DEF TypeInv, IsCand
  <1> QED
    BY <1>2, <1>3

-----------------------------------------------------------------------------
(* As long as nothing fails.                                               *)
LEMMA NothingFailed ==
  ASSUME TypeInv, Clean', [Next]_vars
  PROVE  ~Fault /\ Clean /\ UNCHANGED faults
PROOF
  <1>1. faults \in 0 .. MaxFaults /\ MaxFaults \in Nat
    BY StorageAssumption DEF TypeInv
  <1>2. ~Fault
    BY <1>1 DEF Fault, Clean
  <1>3. UNCHANGED faults
    BY <1>2 DEF Next, Program, vars, DriveProceeds, Identify, Register, SetMode, ScanMbr, Send, CmdReadyFails,
       Receive, DrqFails, Ports, PortFails, PortFound, Export, Import, Select, Selected, ReadIde, ReadUsb,
       ReadEnds, NoneLeft, Answered, Int13
  <1> QED
    BY <1>2, <1>3 DEF Clean

LEMMA FirstSectors == 0 % Word = 0 /\ 1 % Word = 1 /\ Word \in Nat
PROOF
  <1>1. Word \in Nat \ {0} /\ 1 \in 0 .. Word - 1 /\ 0 \in 0 .. Word - 1
    BY StorageAssumption
  <1> QED
    BY <1>1, ModSmall

(* The read of the scan, and that of an app before the boot, is of sector  *)
(* 0, which the disk has.                                                  *)
LEMMA FirstRead ==
  ASSUME SafeInv, Clean => ScanInv, Clean, boot.from = "none", Reading \/ pc \in {"send", "drq"}, rd.ok,
         rd.left # 0
  PROVE  /\ rd.lba = 0 /\ rd.left = 1
         /\ Reading => 1 <= hdd.total
         /\ pc \in {"send", "drq"} => 1 <= machine.ide[rd.slot].size
PROOF
  <1>1. 0 % Word = 0 /\ 1 % Word = 1 /\ Word \in Nat
    BY FirstSectors
  <1>2. CASE Reading
    <2>1. Numbers /\ Sound(Got) /\ First = 0 /\ Asked = 1 /\ TypeInv /\ PlaceInv
      BY <1>2 DEF SafeInv, ReadInv, First, Asked
    <2>2. rd.left = 1
      BY <2>1 DEF Numbers
    <2>3. rd.lba = (0 + 1 - rd.left) % Word /\ (0 + 1) % Word <= hdd.total
      BY <2>1 DEF Sound, InRange
    <2>4. rd.lba = 0 /\ 1 <= hdd.total
      BY <1>1, <2>2, <2>3
    <2>5. pc \in {"send", "drq"} => rd.slot = hdd.slot /\ hdd.total = machine.ide[hdd.slot].size
      BY <1>2, <2>1, HddFacts DEF PlaceInv, Reading
    <2> QED
      BY <2>2, <2>4, <2>5
  <1>3. CASE pc \in {"send", "drq"} /\ ~Reading
    <2>1. rd.lba = 0 /\ rd.left = 1 /\ rd.slot = at /\ app = "stage3" /\ at \in Slots /\ machine \in Machines
      BY <1>3 DEF SafeInv, TypeInv, PlaceInv, Reading
    <2>2. machine.ide[at].size # 0 /\ machine.ide[at].size \in Nat
      BY <1>3, <2>1, MachineFacts, WordFacts DEF ScanInv, Good
    <2> QED
      BY <1>3, <2>1, <2>2
  <1> QED
    BY <1>2, <1>3

LEMMA QuietStep ==
  ASSUME SafeInv, Clean => ScanInv, Clean => Quietly, Clean', [Next]_vars
  PROVE  Quietly'
PROOF
  <1>0. /\ TypeInv /\ ReadType /\ PlaceInv /\ DriveInv /\ ReadInv /\ Clean /\ ScanInv /\ Quietly /\ ~Fault
        /\ UNCHANGED faults /\ drive \in [Slots -> Status]
    BY NothingFailed DEF SafeInv, TypeInv
  <1>1. ASSUME UNCHANGED <<machine, drive>>, pc # "drq", boot'.from = "none" => boot.from = "none"
        PROVE  Quietly'
    BY <1>0, <1>1 DEF Quietly
  <1>2. ASSUME boot'.from # "none" PROVE Quietly'
    BY <1>2 DEF Quietly
  <1>3. CASE Identify
    <2>1. at \in Slots /\ pc = "identify" /\ UNCHANGED <<machine, boot>>
      BY <1>0, <1>3 DEF Identify, PlaceInv
    <2>2. CASE UNCHANGED drive
      BY <1>1, <2>1, <2>2
    <2>3. CASE drive' = [drive EXCEPT ![at] = Quiet("ready")]
      <3>1. \A s \in Slots : drive'[s] = IF s = at THEN Quiet("ready") ELSE drive[s]
        BY <1>0, <2>1, <2>3
      <3> QED
        BY <1>0, <2>1, <3>1 DEF Quietly, Quiet
    <2>4. CASE machine.ide[at].kind = "dead" /\ \E st : drive' = [drive EXCEPT ![at] = Quiet(st)]
      <3>1. \A s \in Slots : s # at => drive'[s] = drive[s]
        BY <1>0, <2>1, <2>4
      <3> QED
        BY <1>0, <2>1, <2>4, <3>1 DEF Quietly
    <2> QED
      BY <1>0, <1>3, <2>2, <2>3, <2>4 DEF Identify
  <1>4. CASE Register \/ ScanMbr \/ Ports \/ PortFails \/ PortFound \/ Export \/ Import \/ Select \/ Selected
             \/ ReadIde \/ ReadUsb \/ ReadEnds \/ NoneLeft \/ Answered
    <2>1. UNCHANGED <<machine, drive>> /\ pc # "drq"
      BY <1>0, <1>4 DEF Register, SetMode, ScanMbr, Ports, PortFails, PortFound, Export, Import, Select, Selected,
         ReadIde, ReadUsb, ReadEnds, NoneLeft, Answered, scan
    <2>2. boot'.from = "none" => boot.from = "none"
      <3>1. CASE Import \/ ReadEnds
        BY <3>1 DEF Import, ReadEnds
      <3>2. CASE ~(Import \/ ReadEnds)
        BY <1>4, <3>2 DEF Register, ScanMbr, Ports, PortFails, PortFound, Export, Select, Selected,
           ReadIde, ReadUsb, NoneLeft, Answered, scan
      <3> QED
        BY <3>1, <3>2
    <2> QED
      BY <1>1, <2>1, <2>2
  <1>5. CASE Send
    <2>1. UNCHANGED <<machine, boot>> /\ pc = "send" /\ rd.slot \in Slots /\ machine.ide[rd.slot].kind = "ata"
      BY <1>0, <1>5 DEF Send, scan, PlaceInv
    <2>2. CASE boot.from # "none"
      BY <1>2, <2>1, <2>2
    <2>3. CASE boot.from = "none"
      <3>1. drive[rd.slot].st = "ready"
        BY <1>0, <2>1, <2>3 DEF Quietly
      <3>2. drive' = [drive EXCEPT ![rd.slot] = Command(rd.lba, Chunk)] /\ UNCHANGED rd /\ pc' = "drq"
        BY <1>5, <3>1 DEF Send, CmdReadyFails
      <3>3. drive'[rd.slot].st = "seek" /\ \A s \in Slots : s # rd.slot => drive'[s] = drive[s]
        BY <1>0, <2>1, <3>2 DEF Command
      <3> QED
        BY <1>0, <2>1, <2>3, <3>2, <3>3 DEF Quietly
    <2> QED
      BY <2>2, <2>3
  <1>6. CASE Receive
    <2>1. UNCHANGED <<machine, boot>> /\ pc = "drq" /\ rd.slot \in Slots /\ machine.ide[rd.slot].kind = "ata"
      BY <1>0, <1>6 DEF Receive, scan, PlaceInv
    <2>2. CASE boot.from # "none"
      BY <1>2, <2>1, <2>2
    <2>3. CASE boot.from = "none"
      <3>1. drive[rd.slot].st = "data"
        BY <1>0, <1>6, <2>1, <2>3 DEF Quietly, Receive, DrqFails
      <3>2. /\ togo \in 1 .. Chunk /\ drive[rd.slot].left = togo /\ Chunk \in Nat
            /\ drive[rd.slot] \in Status
        BY <1>0, <2>1, <3>1, ChunkFacts DEF DriveInv, ReadInv
      <3>3. PICK d : d = Delay([st |-> "settle", at |-> drive[rd.slot].at + 1, left |-> drive[rd.slot].left - 1])
        OBVIOUS
      <3>4. d.st = IF togo > 1 THEN "seek" ELSE "ready"
        BY <3>2, <3>3 DEF Delay, Quiet
      <3>5. /\ drive' = [drive EXCEPT ![rd.slot] = d]
            /\ togo > 1 => UNCHANGED <<pc, rd>>
        BY <1>6, <3>1, <3>3 DEF Receive, DrqFails
      <3>6. drive'[rd.slot] = d /\ \A s \in Slots : s # rd.slot => drive'[s] = drive[s]
        BY <1>0, <2>1, <3>5
      <3> QED
        BY <1>0, <2>1, <2>3, <3>4, <3>5, <3>6 DEF Quietly
    <2> QED
      BY <2>2, <2>3
  <1>7. ASSUME NEW r \in Requests, Int13(r) PROVE Quietly'
    <2>1. boot.from # "none" /\ UNCHANGED boot
      BY <1>0, <1>7 DEF Int13, scan, PlaceInv
    <2> QED
      BY <1>2, <2>1
  <1>8. ASSUME NEW s \in Slots, DriveProceeds(s) PROVE Quietly'
    <2>1. /\ \A t \in Slots : t # s => drive'[t] = drive[t]
          /\ drive[s].st \in {"slow", "seek"}
          /\ drive[s].st = "seek" =>
               \/ drive'[s].st = "error" /\ drive[s].at >= machine.ide[s].size
               \/ drive'[s].st = "ready" /\ drive[s].left = 0
               \/ drive'[s] = [drive[s] EXCEPT !.st = "data"]
          /\ UNCHANGED <<machine, boot, pc, rd, togo>>
      BY <1>0, <1>8, ProceedsType DEF TypeInv, scan
    <2>2. CASE boot.from # "none"
      BY <1>2, <2>1, <2>2
    <2>3. CASE boot.from = "none" /\ machine.ide[s].kind # "ata"
      BY <1>0, <2>1, <2>3 DEF Quietly
    <2>4. CASE boot.from = "none" /\ machine.ide[s].kind = "ata"
      <3>1. pc = "drq" /\ s = rd.slot /\ drive[s].st = "seek" /\ drive[s] \in Status
        BY <1>0, <2>1, <2>4 DEF Quietly
      <3>2. rd.lba = 0 /\ rd.left = 1 /\ 1 <= machine.ide[s].size
        BY <1>0, <2>4, <3>1, FirstRead DEF ReadInv
      <3>3. Chunk = 1 /\ 0 % Lba28 = 0
        BY <3>2, StorageAssumption, ModSmall DEF Chunk
      <3>4. togo = 1 /\ drive[s].at = 0 /\ drive[s].left = 1
        BY <1>0, <3>1, <3>2, <3>3 DEF DriveInv
      <3>5. drive'[s].st = "data"
        <4>1. machine.ide[s].size \in Nat
          BY <1>0, MachineFacts, WordFacts DEF TypeInv
        <4>2. [drive[s] EXCEPT !.st = "data"].st = "data"
          BY <3>1 DEF Status
        <4>3. ~(drive[s].at >= machine.ide[s].size) /\ drive[s].left # 0
          BY <3>2, <3>4, <4>1
        <4> QED
          BY <2>1, <3>1, <4>2, <4>3
      <3> QED
        BY <1>0, <2>1, <2>4, <3>1, <3>5 DEF Quietly
    <2> QED
      BY <2>2, <2>3, <2>4
  <1>9. CASE UNCHANGED vars
    BY <1>0, <1>9 DEF vars, scan, Quietly
  <1> QED
    BY <1>3, <1>4, <1>5, <1>6, <1>7, <1>8, <1>9 DEF Next, Program, Slots

(* Nothing gets in the way of the leading USB disk.                        *)
LEMMA LeadIsAlone ==
  ASSUME TypeInv, PlaceInv, UsbInv, pc = "port", Lead(at)
  PROVE  Alone(at, 0) /\ Alone(at, 1)
PROOF
  <1>1. at \in Ports2
    BY DEF PlaceInv
  <1>2. ASSUME NEW q \in (1 .. 2) \ {at} PROVE ~usb[q].on
    <2>1. CASE q > at
      BY <1>1, <1>2, <2>1 DEF UsbInv, Ports2
    <2>2. CASE q < at
      BY <1>1, <1>2, <2>2 DEF UsbInv, Lead, Ports2
    <2> QED
      BY <1>1, <1>2, <2>1, <2>2 DEF Ports2
  <1> QED
    BY <1>2 DEF Alone

LEMMA LeadNotSkipped ==
  ASSUME TypeInv, PlaceInv, UsbInv, PortFails, ~Fault
  PROVE  ~Lead(at)
PROOF
  <1> SUFFICES ASSUME Lead(at) PROVE FALSE
    OBVIOUS
  <1>1. Alone(at, 0) /\ Alone(at, 1) /\ machine.usb[at].kind = "msd" /\ machine.usb[at] # None
    BY LeadIsAlone DEF PortFails, Lead, None
  <1> QED
    BY <1>1 DEF PortFails

LEMMA SameLeads ==
  ASSUME UNCHANGED machine, NEW c, NEW n, NEW m
  PROVE  Leads(c, n, m)' <=> Leads(c, n, m)
PROOF
  BY DEF Leads, Good

LEMMA SameLead ==
  ASSUME UNCHANGED machine, NEW p
  PROVE  Lead(p)' <=> Lead(p)
PROOF
  BY DEF Lead

(* The scan of the IDE slots finds the first good drive.                   *)
LEMMA NextLead ==
  ASSUME NEW c, NEW n \in Slots, Leads(c, n - 1, n - 1), ~Good(n)
  PROVE  Leads(c, n, n)
PROOF
  <1>1. \A s \in 1 .. n : s = n \/ s \in 1 .. n - 1
    BY DEF Slots
  <1>2. 1 .. n - 1 \subseteq 1 .. n
    BY DEF Slots
  <1>3. c # NoDisk => c.slot \in 1 .. n - 1
    BY DEF Leads
  <1>4. c # NoDisk => (c.slot <= n - 1)
    BY <1>3 DEF Slots
  <1> QED
    BY <1>1, <1>2, <1>3, <1>4 DEF Leads

LEMMA FoundLead ==
  ASSUME NEW n \in Slots, Good(n), NEW c, Leads(c, n - 1, n - 1), NEW d, d # NoDisk, d.slot = n
  PROVE  Leads(IF c = NoDisk THEN d ELSE c, n, n - 1)
PROOF
  <1>1. n \in 1 .. n /\ ~(n <= n - 1) /\ 1 .. n - 1 \subseteq 1 .. n
    BY DEF Slots
  <1>2. CASE c = NoDisk
    BY <1>1, <1>2 DEF Leads
  <1>3. CASE c # NoDisk
    BY <1>1, <1>3 DEF Leads
  <1> QED
    BY <1>2, <1>3

(* A drive before the one that was just looked at keeps its lead, and what *)
(* was read of this one completes its record.                              *)
LEMMA CompletedLead ==
  ASSUME NEW n \in Slots, NEW c, Leads(c, n, n - 1), NEW d,
         IF c.slot = n THEN d # NoDisk /\ d.slot = n /\ d.mbr = machine.ide[n].mbr /\ c # NoDisk ELSE d = c
  PROVE  Leads(d, n, n)
PROOF
  <1>1. CASE c.slot = n
    BY <1>1 DEF Leads
  <1>2. CASE c.slot # n /\ c # NoDisk
    <2>1. c.slot \in 1 .. n
      BY <1>2 DEF Leads
    <2>2. c.slot <= n - 1
      BY <1>2, <2>1 DEF Slots
    <2> QED
      BY <1>2, <2>2 DEF Leads
  <1>3. CASE c.slot # n /\ c = NoDisk
    BY <1>3 DEF Leads
  <1> QED
    BY <1>1, <1>2, <1>3

LEMMA ScanStep ==
  ASSUME SafeInv, SafeInv', ScanInv, Clean, Quietly, Clean', [Next]_vars
  PROVE  ScanInv'
PROOF
  <1>0. /\ TypeInv /\ ReadType /\ PlaceInv /\ UsbInv /\ DriveInv /\ ReadInv /\ ~Fault /\ machine \in Machines
        /\ UNCHANGED faults /\ drive \in [Slots -> Status] /\ PlaceInv'
    BY NothingFailed DEF SafeInv, TypeInv
  (* Scans of an app change the USB disk only.                             *)
  <1>1. ASSUME UNCHANGED machine, app' # "stage3", Scanned(snap'.cand), pc' # "import" => Scanned(cand')
        PROVE  ScanInv'
    <2>1. PICK s, c : s = snap'.cand /\ c = cand'
      OBVIOUS
    <2>2. (Scanned(s) => Scanned(s)') /\ (Scanned(c) => Scanned(c)')
      BY <1>1 DEF Scanned, Leads, Good, Lead
    <2>3. Scanned(snap.cand)' /\ (pc' # "import" => Scanned(cand)')
      BY <1>1, <2>1, <2>2
    <2> QED
      BY <1>0, <1>1, <2>3 DEF ScanInv, PlaceInv
  <1>2. ASSUME app # "stage3" PROVE Scanned(snap.cand) /\ (pc # "import" => Scanned(cand))
    BY <1>2 DEF ScanInv
  <1>3. ASSUME UNCHANGED <<machine, app, cand, snap, pc, hdd, at>>, UNCHANGED rd \/ pc # "mbr" PROVE ScanInv'
    <2>1. PICK c, s, a : c = cand /\ s = snap.cand /\ a = at
      OBVIOUS
    <2>2. /\ Scanned(c)' <=> Scanned(c)
          /\ Scanned(s)' <=> Scanned(s)
          /\ \A n, m : Leads(c.ide, n, m)' <=> Leads(c.ide, n, m)
          /\ Good(a)' <=> Good(a)
          /\ \A p : Lead(p)' <=> Lead(p)
      BY <1>3 DEF Scanned, Leads, Good, Lead
    <2> QED
      BY <1>3, <2>1, <2>2 DEF ScanInv
  (* The scan of a slot is over.                                           *)
  <1>4. ASSUME NextSlot, at \in Slots, UNCHANGED machine, app = "stage3", app' = "stage3",
                NEW c, c = cand'.ide, hdd' = c, Leads(c, at, at)
         PROVE  ScanInv'
    <2>1. PICK n \in Slots : n = at
      BY <1>4
    <2>2. Leads(c, n, n)'
      BY <1>4, <2>1, SameLeads
    <2>3. CASE n < 4
      <3>1. at' - 1 = n /\ pc' = "identify"
        BY <1>4, <2>1, <2>3 DEF NextSlot, Slots
      <3> QED
        BY <1>4, <2>2, <3>1 DEF ScanInv
    <2>4. CASE ~(n < 4)
      <3>1. n = 4 /\ pc' = "ports"
        BY <1>4, <2>1, <2>4 DEF NextSlot, Slots
      <3> QED
        BY <1>4, <2>2, <3>1 DEF ScanInv
    <2> QED
      BY <2>3, <2>4
  <1>5. CASE Identify
    <2>1. /\ pc = "identify" /\ at \in Slots /\ app = "stage3" /\ UNCHANGED <<machine, app, hdd, cand, snap>>
          /\ hdd = cand.ide /\ Leads(cand.ide, at - 1, at - 1)
      BY <1>0, <1>5 DEF Identify, PlaceInv, ScanInv
    <2>n. PICK n \in Slots : n = at
      BY <2>1
    <2>2. PICK c : c = cand.ide
      OBVIOUS
    <2>3. CASE NextSlot /\ ~Good(at)
      <3>1. Leads(c, n, n)
        BY <2>1, <2>n, <2>2, <2>3, NextLead
      <3> QED
        BY <1>4, <2>1, <2>n, <2>2, <2>3, <3>1
    <2>4. CASE pc' = "mode" /\ Good(at) /\ UNCHANGED at
      <3>1. Leads(c, n - 1, n - 1)' /\ Good(n)'
        BY <2>1, <2>n, <2>2, <2>4 DEF Leads, Good
      <3> QED
        BY <2>1, <2>n, <2>2, <2>4, <3>1 DEF ScanInv
    <2>5. CASE UNCHANGED <<pc, at>>
      BY <1>3, <2>1, <2>5
    <2> QED
      BY <1>0, <1>5, <2>3, <2>4, <2>5 DEF Identify, Good
  <1>6. CASE Register
    <2>1. /\ pc = "mode" /\ at \in Slots /\ app = "stage3" /\ UNCHANGED <<machine, app, snap, at>>
          /\ hdd = cand.ide /\ Leads(cand.ide, at - 1, at - 1) /\ Good(at) /\ pc' = "send"
      BY <1>0, <1>6 DEF Register, PlaceInv, ScanInv
    <2>n. PICK n \in Slots : n = at
      BY <2>1
    <2>2. PICK c, d : c = cand.ide /\ d = Disk("ide", at, FALSE, machine.ide[at].size)
      OBVIOUS
    <2>3. d # NoDisk /\ d.slot = n
      BY <2>n, <2>2 DEF Disk, NoDisk
    <2>4. PICK e : e = IF c = NoDisk THEN d ELSE c
      OBVIOUS
    <2>5. cand'.ide = e /\ hdd' = e
      BY <1>0, <1>6, <2>1, <2>n, <2>2, <2>4 DEF Register, RegisterIde, TypeInv, IsCand
    <2>6. Leads(e, n, n - 1)
      BY <2>1, <2>n, <2>2, <2>3, <2>4, FoundLead
    <2>7. Leads(e, n, n - 1)' /\ Good(n)'
      BY <2>1, <2>n, <2>2, <2>6 DEF Leads, Good
    <2> QED
      BY <2>1, <2>n, <2>2, <2>5, <2>7 DEF ScanInv
  <1>7. CASE ScanMbr
    <2>1. /\ pc = "mbr" /\ at \in Slots /\ app = "stage3" /\ UNCHANGED <<machine, app, snap>>
          /\ hdd = cand.ide /\ Leads(cand.ide, at, at - 1) /\ rd.ok /\ NextSlot
      BY <1>0, <1>7 DEF ScanMbr, PlaceInv, ScanInv
    <2>n. PICK n \in Slots : n = at
      BY <2>1
    <2>2. PICK c : c = cand.ide
      OBVIOUS
    <2>3. PICK d : d = hdd'
      OBVIOUS
    <2>4. IF IsCurrent(n) THEN d = [c EXCEPT !.mbr = machine.ide[n].mbr] ELSE d = c
      BY <1>7, <2>1, <2>n, <2>2, <2>3 DEF ScanMbr
    <2>5. cand'.ide = d
      BY <1>0, <1>7, <2>1, <2>n, <2>2, <2>3 DEF ScanMbr, TypeInv, IsCand
    <2>6. c = NoDisk \/ (IsIde(c) /\ c.kind = "ide")
      BY <1>0, <2>n, <2>2, IdeFacts DEF TypeInv, IsCand
    <2>7. c \in DiskRecords
      BY <1>0, <2>1, <2>n, <2>2, HddFacts
    <2>8. NoDisk.slot = 0 /\ n # 0 /\ NoDisk.kind = "none"
      BY DEF NoDisk, Slots
    <2>9. IF c.slot = n THEN d # NoDisk /\ d.slot = n /\ d.mbr = machine.ide[n].mbr /\ c # NoDisk ELSE d = c
      <3>1. CASE c.slot = n
        <4>1. c # NoDisk /\ c.kind = "ide" /\ IsCurrent(n)
          BY <2>1, <2>n, <2>2, <2>6, <2>8, <3>1 DEF IsCurrent
        <4>2. d = [c EXCEPT !.mbr = machine.ide[n].mbr]
          BY <2>4, <4>1
        <4>3. d.kind = "ide" /\ d.slot = n /\ d.mbr = machine.ide[n].mbr
          BY <2>7, <3>1, <4>1, <4>2 DEF DiskRecords
        <4> QED
          BY <2>8, <3>1, <4>1, <4>3
      <3>2. CASE c.slot # n
        BY <2>1, <2>n, <2>2, <2>4, <3>2 DEF IsCurrent
      <3> QED
        BY <3>1, <3>2
    <2>10. Leads(d, n, n)
      BY <2>1, <2>n, <2>2, <2>9, CompletedLead
    <2> QED
      BY <1>4, <2>1, <2>n, <2>2, <2>3, <2>5, <2>10
  <1>8. CASE Send
    <2>1. /\ pc = "send" /\ UNCHANGED <<machine, app, cand, snap, hdd, at>>
      BY <1>8 DEF Send, scan
    <2>2. CASE app # "stage3"
      BY <1>1, <1>2, <2>1, <2>2
    <2>3. CASE app = "stage3"
      <3>1. boot.from = "none" /\ rd.slot \in Slots /\ machine.ide[rd.slot].kind = "ata"
        BY <1>0, <2>1, <2>3 DEF PlaceInv
      <3>2. drive[rd.slot].st = "ready"
        BY <2>1, <3>1 DEF Quietly
      <3>3. pc' = "drq"
        BY <1>0, <1>8, <3>2 DEF Send, CmdReadyFails
      <3>4. PICK c, n : c = cand.ide /\ n = at
        OBVIOUS
      <3>5. Leads(c, n, n - 1)' /\ Good(n)' /\ hdd = c
        BY <2>1, <2>3, <3>4 DEF ScanInv, Leads, Good
      <3> QED
        BY <2>1, <2>3, <3>3, <3>4, <3>5 DEF ScanInv
    <2> QED
      BY <2>2, <2>3
  <1>9. CASE Receive
    <2>1. /\ pc = "drq" /\ UNCHANGED <<machine, app, cand, snap, hdd, at>>
      BY <1>9 DEF Receive, scan
    <2>2. CASE app # "stage3"
      BY <1>1, <1>2, <2>1, <2>2
    <2>3. CASE app = "stage3"
      <3>1. /\ boot.from = "none" /\ rd.slot \in Slots /\ machine.ide[rd.slot].kind = "ata"
            /\ rd.back = "mbr" /\ rd.ok
        BY <1>0, <2>1, <2>3 DEF PlaceInv, ReadInv, Reading
      <3>2. drive[rd.slot].st \in {"seek", "data"}
        <4>1. drive[rd.slot].st # "ready"
          BY <1>0, <2>1, <3>1 DEF DriveInv
        <4> QED
          BY <2>1, <3>1, <4>1 DEF Quietly
      <3>3. pc' \in {"drq", "mbr"} /\ rd'.ok
        BY <1>0, <1>9, <2>1, <3>1, <3>2 DEF Receive, DrqFails, ReadType
      <3>4. PICK c, n : c = cand.ide /\ n = at
        OBVIOUS
      <3>5. Leads(c, n, n - 1)' /\ Good(n)' /\ hdd = c
        BY <2>1, <2>3, <3>4 DEF ScanInv, Leads, Good
      <3> QED
        BY <2>1, <2>3, <3>3, <3>4, <3>5 DEF ScanInv
    <2> QED
      BY <2>2, <2>3
  <1>10. CASE Ports
    <2>1. /\ pc = "ports" /\ pc' = "port" /\ at' = 1 /\ UNCHANGED <<machine, app, cand, snap, hdd>>
      BY <1>0, <1>10 DEF Ports
    <2>2. CASE app # "stage3"
      BY <1>1, <1>2, <2>1, <2>2
    <2>3. CASE app = "stage3"
      <3>1. PICK c : c = cand.ide
        OBVIOUS
      <3>2. Leads(c, 4, 4)'
        BY <2>1, <2>3, <3>1 DEF ScanInv, Leads, Good
      <3>3. 1 .. at' - 1 = {}
        BY <2>1
      <3> QED
        BY <2>1, <2>3, <3>1, <3>2, <3>3 DEF ScanInv
    <2> QED
      BY <2>2, <2>3
  (* The scan of a port is over.                                           *)
  <1>11. ASSUME NextPort, pc = "port", UNCHANGED machine, app = "stage3", app' = "stage3", cand'.ide = cand.ide,
                (\E p \in 1 .. at : Lead(p)) => cand'.usb # NoDisk
         PROVE  ScanInv'
    <2>n. PICK n \in Ports2 : n = at
      BY <1>0, <1>11 DEF PlaceInv
    <2>1. PICK c, u : c = cand.ide /\ u = cand'.usb
      OBVIOUS
    <2>2. Leads(c, 4, 4)'
      BY <1>11, <2>n, <2>1 DEF ScanInv, Leads, Good
    <2>3. (\E p \in 1 .. n : Lead(p)') => u # NoDisk
      BY <1>11, <2>n, <2>1, SameLead
    <2>4. CASE n = 1
      <3>1. at' - 1 = n /\ pc' = "port"
        BY <1>11, <2>n, <2>1, <2>4 DEF NextPort
      <3> QED
        BY <1>11, <2>n, <2>1, <2>2, <2>3, <3>1 DEF ScanInv
    <2>5. CASE n = 2
      <3>1. pc' = "selected"
        BY <1>11, <2>n, <2>1, <2>5 DEF NextPort
      <3> QED
        BY <1>11, <2>n, <2>1, <2>2, <2>3, <2>5, <3>1 DEF ScanInv, Scanned, Ports2
    <2> QED
      BY <2>n, <2>4, <2>5 DEF Ports2
  <1>12. CASE PortFails
    <2>1. /\ pc = "port" /\ UNCHANGED <<machine, app, cand, snap, hdd>> /\ NextPort /\ ~Lead(at) /\ at \in Ports2
      BY <1>0, <1>12, LeadNotSkipped DEF PortFails, PlaceInv
    <2>2. CASE app # "stage3"
      <3>1. pc' # "import"
        BY <2>1 DEF NextPort
      <3> QED
        BY <1>1, <1>2, <2>1, <2>2, <3>1
    <2>3. CASE app = "stage3"
      <3>1. \A p \in 1 .. at : p = at \/ p \in 1 .. at - 1
        BY <2>1 DEF Ports2
      <3>2. (\E p \in 1 .. at : Lead(p)) => cand'.usb # NoDisk
        BY <2>1, <2>3, <3>1 DEF ScanInv
      <3> QED
        BY <1>11, <2>1, <2>3, <3>2
    <2> QED
      BY <2>2, <2>3
  <1>13. CASE PortFound
    <2>1. /\ pc = "port" /\ UNCHANGED <<machine, app, snap>> /\ cand'.ide = cand.ide /\ cand'.usb # NoDisk
          /\ pc' # "import"
      <3>1. Disk("usb", 0, machine.usb[at].mbr, machine.usb[at].size) # NoDisk
        BY DEF Disk, NoDisk
      <3> QED
        BY <1>0, <1>13, <3>1 DEF PortFound, NextPort, RegisterUsb, TypeInv, IsCand
    <2>2. CASE app # "stage3"
      <3>1. Scanned(cand')
        BY <1>2, <2>1, <2>2 DEF Scanned
      <3> QED
        BY <1>1, <1>2, <2>1, <2>2, <3>1
    <2>3. CASE app = "stage3"
      BY <1>13, <1>11, <2>1, <2>3 DEF PortFound
    <2> QED
      BY <2>2, <2>3
  <1>14. CASE Export
    <2>1. Scanned(cand) /\ snap'.cand = cand /\ app' = "linux" /\ pc' = "import" /\ UNCHANGED machine
      BY <1>0, <1>14 DEF Export, Snapshot, ScanInv
    <2> QED
      BY <1>1, <2>1
  <1>15. CASE Import
    <2>1. app # "stage3" /\ UNCHANGED <<machine, app, snap>> /\ cand' = snap.cand
      BY <1>0, <1>15 DEF Import, PlaceInv
    <2> QED
      BY <1>1, <1>2, <2>1
  <1>16. CASE Select \/ Selected \/ ReadIde \/ ReadUsb \/ ReadEnds \/ Answered \/ NoneLeft
    <2>1. /\ app # "stage3" /\ pc # "import" /\ UNCHANGED <<machine, cand, snap>> /\ app' # "stage3"
      BY <1>0, <1>16 DEF Select, Selected, ReadIde, ReadUsb, ReadEnds, Answered, NoneLeft, scan, PlaceInv, Reading
    <2> QED
      BY <1>1, <1>2, <2>1
  <1>17. ASSUME NEW r \in Requests, Int13(r) PROVE ScanInv'
    <2>1. app # "stage3" /\ pc # "import" /\ UNCHANGED <<machine, cand, snap>> /\ app' # "stage3"
      BY <1>0, <1>17 DEF Int13, scan, PlaceInv
    <2> QED
      BY <1>1, <1>2, <2>1
  <1>18. ASSUME (\E s \in Slots : DriveProceeds(s)) \/ UNCHANGED vars PROVE ScanInv'
    <2>1. UNCHANGED <<machine, app, cand, snap, pc, hdd, at, rd>>
      BY <1>18 DEF DriveProceeds, scan, vars
    <2> QED
      BY <1>3, <2>1
  <1> QED
    BY <1>5, <1>6, <1>7, <1>8, <1>9, <1>10, <1>12, <1>13, <1>14, <1>15, <1>16, <1>17, <1>18
    DEF Next, Program, Slots

LEMMA IdeLead ==
  ASSUME TypeInv, Leads(cand.ide, 4, 4), Bootable("ide")
  PROVE  cand.ide # NoDisk /\ cand.ide.mbr /\ cand.ide.kind = "ide"
PROOF
  <1>1. machine \in Machines /\ (cand.ide # NoDisk => IsIde(cand.ide))
    BY DEF TypeInv, IsCand
  <1>2. PICK s \in Slots : /\ machine.ide[s].kind = "ata" /\ machine.ide[s].mbr
                          /\ \A t \in 1 .. s - 1 : ~Good(t)
    BY DEF Bootable, Good, Slots
  <1>3. Good(s)
    BY <1>1, <1>2, MachineFacts DEF Good
  <1>4. PICK c : c = cand.ide
    OBVIOUS
  <1>5. c # NoDisk
    BY <1>3, <1>4 DEF Leads, Slots
  <1>6. c.slot \in Slots /\ Good(c.slot) /\ (\A t \in 1 .. c.slot - 1 : ~Good(t)) /\ c.mbr = machine.ide[c.slot].mbr
    BY <1>4, <1>5 DEF Leads, Slots
  <1>7. c.slot = s
    BY <1>2, <1>3, <1>6 DEF Slots
  <1> QED
    BY <1>1, <1>2, <1>4, <1>5, <1>6, <1>7, IdeFacts

LEMMA SameBootable ==
  ASSUME UNCHANGED machine, NEW kind
  PROVE  Bootable(kind)' <=> Bootable(kind)
PROOF
  BY DEF Bootable

LEMMA UsbBootable == Bootable("usb") <=> \E p \in Ports2 : Lead(p)
PROOF
  BY DEF Bootable, Lead, Ports2

LEMMA TurnKept ==
  ASSUME SafeInv, SafeInv', ScanInv, Quietly, Clean, Clean', [Next]_vars,
         app = "legacy", boot.from = "none", pc # "import", boot'.from = "none",
         NEW kind \in {"ide", "usb"}, Bootable(kind), Turn(kind)
  PROVE  Turn(kind)'
PROOF
  <1>0. /\ TypeInv /\ ReadType /\ PlaceInv /\ UsbInv /\ DriveInv /\ ReadInv /\ ~Fault /\ machine \in Machines
        /\ UNCHANGED faults /\ drive \in [Slots -> Status] /\ PlaceInv'
    BY NothingFailed DEF SafeInv, TypeInv
  <1>1. ASSUME UNCHANGED <<todo, hdd>>, OnTrack => OnTrack' PROVE Turn(kind)'
    BY <1>1 DEF Turn, Waiting
  <1>2. CASE Send
    <2>1. pc = "send" /\ rd.slot \in Slots /\ machine.ide[rd.slot].kind = "ata" /\ UNCHANGED <<todo, hdd>>
      BY <1>0, <1>2 DEF Send, scan, PlaceInv
    <2>2. drive[rd.slot].st = "ready"
      BY <2>1 DEF Quietly
    <2>3. UNCHANGED rd /\ pc' = "drq"
      BY <1>2, <2>2 DEF Send, CmdReadyFails
    <2>4. OnTrack => OnTrack'
      BY <2>1, <2>3 DEF OnTrack, Reading
    <2> QED
      BY <1>1, <2>1, <2>4
  <1>3. CASE Receive
    <2>1. /\ pc = "drq" /\ rd.slot \in Slots /\ machine.ide[rd.slot].kind = "ata" /\ UNCHANGED <<todo, hdd>>
          /\ rd.back = "chunk"
      BY <1>0, <1>3 DEF Receive, scan, PlaceInv
    <2>2. drive[rd.slot].st \in {"seek", "data"}
      <3>1. drive[rd.slot].st # "ready"
        BY <1>0, <2>1 DEF DriveInv
      <3> QED
        BY <2>1, <3>1 DEF Quietly
    <2>3. rd'.ok = rd.ok /\ rd'.back = rd.back /\ pc' \in {"drq", "chunk"}
      BY <1>0, <1>3, <2>1, <2>2 DEF Receive, DrqFails, ReadType
    <2>4. OnTrack => OnTrack'
      BY <2>1, <2>3 DEF OnTrack, Reading
    <2> QED
      BY <1>1, <2>1, <2>4
  <1>4. CASE Ports
    <2>1. pc' = "port" /\ at' = 1 /\ UNCHANGED <<todo, hdd>>
      BY <1>0, <1>4 DEF Ports
    <2>2. OnTrack'
      BY <2>1 DEF OnTrack
    <2> QED
      BY <1>1, <2>1, <2>2
  <1>5. CASE PortFails
    <2>1. /\ pc = "port" /\ UNCHANGED <<machine, todo, hdd>> /\ NextPort /\ ~Lead(at) /\ at \in Ports2
      BY <1>0, <1>5, LeadNotSkipped DEF PortFails, PlaceInv
    <2>2. CASE at = 1
      <3>1. pc' = "port" /\ at' = 2 /\ ~Lead(1)'
        BY <2>1, <2>2, SameLead DEF NextPort
      <3>2. OnTrack'
        BY <3>1 DEF OnTrack
      <3> QED
        BY <1>1, <2>1, <3>2
    <2>3. CASE at = 2
      <3>1. ~(kind = hdd.kind /\ OnTrack)
        <4>1. ASSUME kind = "usb", \A p \in 1 .. at - 1 : ~Lead(p) PROVE FALSE
          BY <2>1, <2>3, <4>1, UsbBootable DEF Ports2
        <4>2. hdd.kind = "usb"
          BY <1>0, <2>1 DEF PlaceInv
        <4> QED
          BY <2>1, <4>1, <4>2 DEF OnTrack, Reading
      <3> QED
        BY <2>1, <3>1 DEF Turn, Waiting
    <2> QED
      BY <2>1, <2>2, <2>3 DEF Ports2
  <1>6. CASE PortFound
    <2>1. /\ pc = "port" /\ UNCHANGED todo /\ at \in Ports2 /\ pc' = "selected" /\ hdd.kind = "usb"
          /\ machine.usb[at].kind = "msd"
          /\ hdd' = Disk("usb", 0, machine.usb[at].mbr, machine.usb[at].size)
          /\ rd' = [rd EXCEPT !.ok = TRUE]
      BY <1>0, <1>6 DEF PortFound, RegisterUsb, PlaceInv
    <2>2. rd'.ok /\ hdd'.kind = "usb" /\ hdd'.mbr = machine.usb[at].mbr
      BY <1>0, <2>1 DEF Disk, ReadType
    <2>3. CASE Waiting(kind)
      BY <2>1, <2>3 DEF Turn, Waiting
    <2>4. CASE kind = hdd.kind /\ OnTrack
      <3>1. PICK p \in Ports2 : Lead(p)
        BY <2>1, <2>4, UsbBootable
      <3>2. \A q \in 1 .. at - 1 : ~Lead(q)
        BY <2>1, <2>4 DEF OnTrack, Reading
      <3>3. ~(at < p)
        BY <2>1, <3>1 DEF Lead, Ports2, None
      <3>4. p = at
        BY <2>1, <3>1, <3>2, <3>3 DEF Ports2
      <3>5. hdd'.mbr
        BY <2>2, <3>1, <3>4 DEF Lead
      <3> QED
        BY <2>1, <2>2, <2>4, <3>5 DEF Turn, OnTrack
    <2> QED
      BY <2>3, <2>4 DEF Turn
  <1>7. CASE Select
    <2>1. /\ pc = "select" /\ todo # << >> /\ todo \in Seq({"ide", "usb"}) /\ todo' = Tail(todo)
          /\ Waiting(kind)
      BY <1>0, <1>7 DEF Select, TypeInv, Turn, OnTrack, Reading
    <2>2. CASE kind = Head(todo)
      <3>1. cand[kind] # NoDisk /\ cand[kind].kind = kind /\ (kind = "ide" => cand[kind].mbr)
        <4>1. CASE kind = "ide"
          BY <1>0, <4>1, IdeLead DEF ScanInv, Scanned
        <4>2. CASE kind = "usb"
          <5>1. cand.usb # NoDisk
            BY <4>2, UsbBootable DEF ScanInv, Scanned
          <5> QED
            BY <1>0, <4>2, <5>1, UsbFacts DEF TypeInv, IsCand
        <4> QED
          BY <4>1, <4>2
      <3>2. /\ hdd' = cand[kind] /\ pc' = IF kind = "usb" THEN "ports" ELSE "selected"
            /\ rd' = [rd EXCEPT !.ok = TRUE]
        BY <1>7, <2>2, <3>1 DEF Select
      <3>3. rd'.ok
        BY <1>0, <3>2 DEF ReadType
      <3> QED
        BY <3>1, <3>2, <3>3 DEF Turn, OnTrack
    <2>3. CASE kind # Head(todo)
      <3>1. PICK i \in 1 .. Len(todo) : todo[i] = kind
        BY <2>1 DEF Waiting
      <3>2. i # 1
        BY <2>1, <2>3, <3>1
      <3>3. i - 1 \in 1 .. Len(Tail(todo)) /\ Tail(todo)[i - 1] = todo[i]
        BY <2>1, <3>1, <3>2
      <3> QED
        BY <2>1, <3>1, <3>3 DEF Turn, Waiting
    <2> QED
      BY <2>2, <2>3
  <1>8. CASE Selected
    <2>1. pc = "selected" /\ UNCHANGED <<todo, hdd>> /\ app = "legacy"
      BY <1>8 DEF Selected, scan
    <2>2. CASE ~(kind = hdd.kind /\ OnTrack)
      BY <2>1, <2>2 DEF Turn, Waiting
    <2>3. CASE kind = hdd.kind /\ OnTrack
      <3>1. rd.ok /\ hdd.mbr
        BY <2>1, <2>3 DEF OnTrack, Reading
      <3>2. Read(0, 1)
        BY <1>8, <2>1, <3>1 DEF Selected
      <3>3. InRange(0, 1)
        <4>1. hdd.total \in Nat \ {0}
          <5>1. CASE hdd.kind = "ide"
            BY <1>0, <3>1, <5>1, HddFacts, IdeFacts, MachineFacts, WordFacts
          <5>2. CASE hdd.kind = "usb"
            <6>1. PICK p \in Ports2 : hdd = Disk("usb", 0, machine.usb[p].mbr, machine.usb[p].size)
              BY <1>0, <5>2, HddFacts DEF IsUsb
            <6> QED
              BY <1>0, <3>1, <6>1, MachineFacts, WordFacts DEF Disk
          <5> QED
            BY <2>3, <5>1, <5>2
        <4>2. 1 % Word = 1
          BY FirstSectors
        <4> QED
          BY <4>1, <4>2 DEF InRange
      <3>4. rd'.ok /\ pc' = "chunk"
        <4>1. pc' = "chunk" /\ rd'.ok = (hdd.kind # "none" /\ 1 # 0 /\ InRange(0, 1))
          BY <3>2 DEF Read
        <4>2. 1 # 0 /\ hdd.kind # "none"
          BY <2>3
        <4> QED
          BY <3>3, <4>1, <4>2, Zenon
      <3> QED
        BY <2>1, <2>3, <3>4 DEF Turn, OnTrack, Reading
    <2> QED
      BY <2>2, <2>3
  <1>9. CASE ReadIde
    BY <1>0, <1>1, <1>9 DEF ReadIde, scan, OnTrack, Reading, PlaceInv
  <1>10. CASE ReadUsb
    <2>1. pc = "chunk" /\ UNCHANGED <<todo, hdd, pc>> /\ hdd.kind = "usb" /\ rd.ok /\ rd.left # 0
      BY <1>10 DEF ReadUsb, scan
    <2>2. rd.lba = 0 /\ rd.left = 1 /\ 1 <= hdd.total
      BY <2>1, FirstRead DEF Reading
    <2>3. PICK p \in Ports2 : Answering = {p} /\ hdd.total = machine.usb[p].size
      BY <1>0, <2>1 DEF UsbInv, UsbFound, Reading, Disk
    <2>4. Cardinality(Answering) = 1
      BY <2>3, FS_Singleton
    <2>5. (IF rd.left > UsbBatch THEN UsbBatch ELSE rd.left) = 1
      BY <2>2, StorageAssumption
    <2>6. \A q \in Answering : ~(rd.lba + 1 > machine.usb[q].size)
      <3>1. machine.usb[p].size \in Nat
        BY <1>0, MachineFacts, WordFacts
      <3> QED
        BY <2>2, <2>3, <3>1
    <2>7. rd'.ok
      BY <1>0, <1>10, <2>1, <2>4, <2>5, <2>6 DEF ReadUsb, ReadType
    <2> QED
      BY <1>1, <2>1, <2>7 DEF OnTrack, Reading
  <1>11. CASE ReadEnds
    <2>1. ~rd.ok /\ pc = "chunk" /\ UNCHANGED todo
      BY <1>11 DEF ReadEnds
    <2>2. Waiting(kind)
      BY <2>1 DEF Turn, OnTrack, Reading
    <2> QED
      BY <2>1, <2>2 DEF Turn, Waiting
  <1>12. CASE NoneLeft
    <2>1. ~Waiting(kind) /\ ~OnTrack
      BY <1>12 DEF NoneLeft, Waiting, OnTrack, Reading
    <2> QED
      BY <2>1 DEF Turn
  <1>13. ASSUME (\E s \in Slots : DriveProceeds(s)) \/ UNCHANGED vars PROVE Turn(kind)'
    <2>1. UNCHANGED <<machine, pc, rd, hdd, at, todo>>
      BY <1>13 DEF DriveProceeds, scan, vars
    <2> QED
      BY <2>1 DEF Turn, Waiting, OnTrack, Reading, Lead
  <1>14. ASSUME NEW r \in Requests, Int13(r) PROVE FALSE
    BY <1>0, <1>14 DEF Int13, PlaceInv
  <1> QED
    BY <1>0, <1>2, <1>3, <1>4, <1>5, <1>6, <1>7, <1>8, <1>9, <1>10, <1>11, <1>12, <1>13, <1>14
    DEF Next, Program, Slots, PlaceInv, Identify, Register, ScanMbr, Export, Import, Answered

LEMMA TurnStep ==
  ASSUME SafeInv, SafeInv', ScanInv, Quietly, TurnInv, Clean, Clean', [Next]_vars
  PROVE  TurnInv'
PROOF
  <1>1. UNCHANGED machine
    BY DEF Next, Program, vars, scan, DriveProceeds, Identify, Register, ScanMbr, Send, Receive, Ports, PortFails,
       PortFound, Export, Import, Select, Selected, ReadIde, ReadUsb, ReadEnds, NoneLeft, Answered, Int13
  <1>2. pc' = "halted" => todo' = << >>
    <2>1. PlaceInv /\ PlaceInv'
      BY DEF SafeInv
    <2> QED
      BY <2>1 DEF TurnInv, Next, Program, vars, scan, DriveProceeds, Identify, Register, ScanMbr, Send, Receive,
         Ports, PortFails, PortFound, Export, Import, Select, Selected, ReadIde, ReadUsb, ReadEnds, NoneLeft, Answered,
         Int13, NextSlot, NextPort, Read, FloppyRead, ExtRead, ChsRead, Parameters, Answer, PlaceInv
  <1>3. SUFFICES ASSUME app' = "legacy", boot'.from = "none", pc' # "import",
                        NEW kind \in {"ide", "usb"}, Ordered(kind)', Bootable(kind)'
                 PROVE  Turn(kind)'
    BY <1>2 DEF TurnInv
  <1>4. Ordered(kind) /\ Bootable(kind)
    BY <1>1, <1>3, SameBootable DEF Ordered
  <1>5. CASE Import
    <2>1. todo' = machine.prio
      BY <1>5 DEF Import
    <2> QED
      BY <1>4, <2>1 DEF Turn, Waiting, Ordered
  <1>6. CASE ~Import
    <2>1. boot.from = "none"
      BY <1>3, <1>6 DEF Next, Program, vars, scan, DriveProceeds, Identify, Register, ScanMbr, Send, Receive, Ports,
         PortFails, PortFound, Export, Select, Selected, ReadIde, ReadUsb, ReadEnds, NoneLeft, Answered, Int13
    <2>2. app = "legacy" /\ pc # "import"
      BY <1>3, <1>6 DEF Next, Program, vars, scan, DriveProceeds, Identify, Register, ScanMbr, Send, Receive, Ports,
         PortFails, PortFound, Export, Select, Selected, ReadIde, ReadUsb, ReadEnds, NoneLeft, Answered, Int13
    <2>3. Turn(kind)
      BY <1>4, <2>1, <2>2 DEF TurnInv
    <2> QED
      BY <1>3, <1>4, <2>1, <2>2, <2>3, TurnKept
  <1> QED
    BY <1>5, <1>6

(* A request within the disk.                                              *)
LEMMA ServedFacts ==
  ASSUME SafeInv, boot.from = "disk", NEW r \in Requests, Served(r)
  PROVE  /\ r.fn = "ext" => r.n # 0 /\ InRange(r.lba, r.n) /\ r.lba + r.n <= hdd.total
         /\ r.fn = "chs" => /\ r.s # 0 /\ r.n # 0 /\ r.h < hdd.heads /\ r.c < hdd.cylinders
                            /\ InRange(ChsFirst(r), r.n) /\ ChsFirst(r) + r.n <= hdd.total
         /\ r.fn = "floppy" => /\ machine.floppy # 0 /\ r.s \in 1 .. FloppySpt /\ r.n # 0 /\ r.h < FloppyHeads
                               /\ FloppyHolds(FloppyFirst(r), r.n)
         /\ hdd.kind # "none" /\ hdd.total \in 0 .. Word - 1
PROOF
  <1>1. /\ TypeInv /\ hdd.heads \in Nat \ {0} /\ hdd.total \in 0 .. Word - 1 /\ hdd.total \in Nat
        /\ hdd.kind # "none" /\ machine.floppy \in Nat /\ Spt \in Nat \ {0}
        /\ FloppyHeads \in Nat \ {0} /\ FloppySpt \in Nat \ {0}
    BY HddFacts, MachineFacts, StorageAssumption, WordFacts DEF SafeInv, BootedInv, TypeInv, DiskRecords
  <1>2. ASSUME NEW x \in Nat, NEW n \in Nat, x + n <= hdd.total PROVE InRange(x, n)
    <2>1. x + n \in 0 .. Word - 1
      BY <1>1, <1>2, WordFacts
    <2>2. (x + n) % Word = x + n
      BY <2>1, WordFacts, ModSmall
    <2> QED
      BY <1>2, <2>2 DEF InRange
  <1>3. CASE r.fn = "ext"
    <2>1. r.lba \in Nat /\ r.n \in Nat /\ r.n > 0 /\ r.lba + r.n <= hdd.total
      BY <1>3, RequestFacts DEF Served
    <2> QED
      BY <1>1, <1>2, <1>3, <2>1
  <1>4. CASE r.fn = "chs"
    <2>1. /\ r.c \in Nat /\ r.h \in 0 .. hdd.heads - 1 /\ r.s \in 1 .. Spt /\ r.n \in Nat /\ r.n > 0
          /\ r.h < hdd.heads /\ r.c < hdd.cylinders /\ Begins(r) + r.n <= hdd.total
      BY <1>1, <1>4, RequestFacts DEF Served
    <2>2. Begins(r) = ChsFirst(r)
      BY <1>1, <1>4, <2>1, CountedByGeometry DEF Begins, ChsFirst
    <2>3. ChsFirst(r) \in Nat /\ r.s # 0
      BY <1>1, <1>4, <2>1, ChsType
    <2>4. InRange(ChsFirst(r), r.n)
      BY <1>2, <2>1, <2>2, <2>3
    <2> QED
      BY <1>1, <1>4, <2>1, <2>2, <2>3, <2>4
  <1>5. CASE r.fn = "floppy"
    <2>1. /\ r.c \in Nat /\ r.h \in 0 .. FloppyHeads - 1 /\ r.s \in 1 .. FloppySpt /\ r.n \in Nat /\ r.n > 0
          /\ r.h < FloppyHeads /\ Begins(r) + r.n <= machine.floppy
      BY <1>1, <1>5, RequestFacts DEF Served
    <2>2. Begins(r) = FloppyFirst(r)
      BY <1>1, <1>5, <2>1, CountedByGeometry DEF Begins, FloppyFirst
    <2>3. FloppyFirst(r) \in Nat
      <3>1. r.c * FloppyHeads + r.h \in Nat
        BY <1>1, <2>1
      <3>2. (r.c * FloppyHeads + r.h) * FloppySpt \in Nat
        BY <1>1, <3>1
      <3> QED
        BY <2>1, <3>2 DEF FloppyFirst
    <2>4. PICK x \in Nat : x = FloppyFirst(r)
      BY <2>3
    <2>5. x <= machine.floppy /\ r.n <= machine.floppy - x /\ machine.floppy # 0
      BY <1>1, <2>1, <2>2, <2>4
    <2> QED
      BY <1>1, <1>5, <2>1, <2>4, <2>5 DEF FloppyHolds
  <1>6. CASE r.fn = "other"
    BY <1>1, <1>6
  <1> QED
    BY <1>3, <1>4, <1>5, <1>6, RequestFacts

LEMMA SameServed ==
  ASSUME UNCHANGED <<machine, hdd>>, NEW r
  PROVE  Served(r)' <=> Served(r)
PROOF
  BY DEF Served, Begins, Before

(* Where a read of the booted program is.                                  *)
LEMMA WithinDisk ==
  ASSUME SafeInv, boot.from = "disk", Reading, rd.ok, Served(req)
  PROVE  rd.lba \in Nat /\ rd.left \in Nat /\ rd.lba + rd.left <= hdd.total
PROOF
  <1>1. /\ TypeInv /\ PlaceInv /\ Numbers /\ Sound(Got) /\ Asked = req.n /\ req \in Requests
        /\ req.fn \in {"ext", "chs"} /\ First = (IF req.fn = "ext" THEN req.lba ELSE ChsFirst(req))
    BY DEF SafeInv, ReadInv, PlaceInv, Asked, First
  <1>2. First + Asked <= hdd.total /\ hdd.total \in 0 .. Word - 1
    BY <1>1, ServedFacts
  <1>3. First \in Nat /\ Asked \in Nat /\ rd.left \in 0 .. Asked /\ hdd.total \in Nat /\ Word \in Nat
    BY <1>1, <1>2, StorageAssumption DEF Numbers
  <1>4. PICK x \in Nat : x = First + Asked - rd.left
    BY <1>3
  <1>5. x \in 0 .. Word - 1 /\ x + rd.left <= hdd.total
    BY <1>2, <1>3, <1>4
  <1>6. rd.lba = x % Word
    BY <1>1, <1>4 DEF Sound
  <1>7. rd.lba = x
    BY <1>3, <1>5, <1>6, ModSmall
  <1> QED
    BY <1>3, <1>5, <1>7

LEMMA UsbServes ==
  ASSUME SafeInv, Clean', [Next]_vars, boot.from = "disk", ReadUsb, Served(req)
  PROVE  rd'.ok
PROOF
  <1>1. /\ TypeInv /\ ReadType /\ PlaceInv /\ UsbInv /\ ~Fault /\ machine \in Machines
        /\ pc = "chunk" /\ rd.ok /\ Reading /\ hdd.kind = "usb" /\ app # "stage3"
    BY NothingFailed DEF SafeInv, TypeInv, ReadUsb, Reading, PlaceInv
  <1>2. PICK p \in Ports2 : Answering = {p} /\ hdd.total = machine.usb[p].size
    BY <1>1 DEF UsbInv, UsbFound, Disk
  <1>3. Cardinality(Answering) = 1
    BY <1>2, FS_Singleton
  <1>4. \A n \in Nat : n <= rd.left => \A q \in Answering : ~(rd.lba + n > machine.usb[q].size)
    <2>1. machine.usb[p].size \in Nat
      BY <1>1, MachineFacts, StorageAssumption
    <2> QED
      BY <1>1, <1>2, <2>1, WithinDisk
  <1>5. (IF rd.left > UsbBatch THEN UsbBatch ELSE rd.left) \in Nat
        /\ (IF rd.left > UsbBatch THEN UsbBatch ELSE rd.left) <= rd.left
    BY <1>1, WithinDisk, StorageAssumption
  <1>6. rd' = [rd EXCEPT !.lba = (@ + (IF rd.left > UsbBatch THEN UsbBatch ELSE rd.left)) % Word,
                         !.left = @ - (IF rd.left > UsbBatch THEN UsbBatch ELSE rd.left)]
    BY <1>1, <1>3, <1>4, <1>5 DEF ReadUsb
  <1> QED
    BY <1>1, <1>6 DEF ReadType

LEMMA Int13Serves ==
  ASSUME SafeInv, boot.from = "disk", NEW r \in Requests, Int13(r), Served(r)
  PROVE  rd'.ok
PROOF
  <1>1. /\ r.fn = "ext" => r.n # 0 /\ InRange(r.lba, r.n)
        /\ r.fn = "chs" => r.s # 0 /\ r.n # 0 /\ r.h < hdd.heads /\ r.c < hdd.cylinders /\ InRange(ChsFirst(r), r.n)
        /\ r.fn = "floppy" => /\ machine.floppy # 0 /\ r.s \in 1 .. FloppySpt /\ r.n # 0 /\ r.h < FloppyHeads
                              /\ FloppyHolds(FloppyFirst(r), r.n)
        /\ hdd.kind # "none"
    BY ServedFacts
  <1>2. ASSUME NEW lba, NEW n, Read(lba, n), n # 0, InRange(lba, n) PROVE rd'.ok
    <2>1. rd'.ok = (hdd.kind # "none" /\ n # 0 /\ InRange(lba, n))
      BY <1>2 DEF Read
    <2> QED
      BY <1>1, <1>2, <2>1, Zenon
  <1>3. ASSUME NEW sectors, Answer(TRUE, sectors) PROVE rd'.ok
    BY <1>3 DEF Answer, NoRead
  <1>4. CASE ExtRead(r)
    <2>1. Read(r.lba, r.n)
      BY <1>1, <1>4 DEF ExtRead
    <2> QED
      BY <1>1, <1>2, <1>4, <2>1 DEF ExtRead
  <1>5. CASE ChsRead(r)
    <2>1. Read(ChsFirst(r), r.n)
      BY <1>1, <1>5 DEF ChsRead
    <2> QED
      BY <1>1, <1>2, <1>5, <2>1 DEF ChsRead
  <1>6. CASE FloppyRead(r)
    BY <1>1, <1>3, <1>6 DEF FloppyRead
  <1>7. CASE Parameters(r)
    <2>1. rd' = [NoRead EXCEPT !.ok = (hdd.kind # "none")]
      BY <1>7 DEF Parameters, Answer
    <2>2. rd'.ok = (hdd.kind # "none")
      BY <2>1 DEF NoRead
    <2> QED
      BY <1>1, <2>2, Zenon
  <1> QED
    BY <1>4, <1>5, <1>6, <1>7 DEF Int13

LEMMA ServedStep ==
  ASSUME SafeInv, Quietly, ServedInv, Clean', [Next]_vars
  PROVE  ServedInv'
PROOF
  <1>0. /\ TypeInv /\ ReadType /\ PlaceInv /\ DriveInv /\ ReadInv /\ ~Fault /\ UNCHANGED faults
        /\ drive \in [Slots -> Status]
        /\ hdd.kind = "ide" => hdd.slot \in Slots /\ machine.ide[hdd.slot].kind = "ata"
    BY NothingFailed, HddFacts DEF SafeInv, TypeInv
  <1> SUFFICES ASSUME boot'.from = "disk" PROVE ServedInv'
    BY DEF ServedInv
  <1>1. CASE boot.from # "disk"
    <2>1. ReadEnds /\ boot.from = "none" /\ pc' = "guest"
      <3>1. boot' # boot
        BY <1>1
      <3>2. Import \/ ReadEnds
        BY <3>1 DEF Next, Program, vars, scan, DriveProceeds, Identify, Register, ScanMbr, Send, Receive, Ports,
           PortFails, PortFound, Export, Select, Selected, ReadIde, ReadUsb, NoneLeft, Answered, Int13
      <3>3. ~Import
        BY <3>1 DEF Import
      <3> QED
        BY <3>1, <3>2, <3>3 DEF ReadEnds
    <2>2. UNCHANGED <<hdd, drive, machine>> /\ pc = "chunk"
      BY <2>1 DEF ReadEnds
    <2>3. hdd.kind = "ide" => drive[hdd.slot].st = "ready"
      BY <1>0, <2>1, <2>2 DEF Quietly
    <2> QED
      BY <2>1, <2>2, <2>3 DEF ServedInv
  <1>2. CASE boot.from = "disk"
    <2>1. /\ Reading \/ pc \in {"guest", "answer"}
          /\ hdd.kind = "ide" => IF pc = "drq" THEN drive[hdd.slot].st \in {"seek", "data", "error"}
                                 ELSE drive[hdd.slot].st \in {"ready", "error"}
          /\ pc = "chunk" /\ ~rd.ok /\ Served(req) => hdd.kind = "ide" /\ drive[hdd.slot].st = "error"
      BY <1>0, <1>2 DEF PlaceInv, ServedInv
    <2>2. CASE Send
      <3>1. /\ pc = "send" /\ hdd.kind = "ide" /\ rd.slot = hdd.slot /\ rd.back = "chunk" /\ UNCHANGED hdd
            /\ drive[hdd.slot].st \in {"ready", "error"}
        BY <1>0, <2>1, <2>2 DEF Send, PlaceInv, Reading
      <3>2. CASE drive[hdd.slot].st = "ready"
        <4>1. pc' = "drq" /\ drive' = [drive EXCEPT ![hdd.slot] = Command(rd.lba, Chunk)]
          BY <2>2, <3>1, <3>2 DEF Send, CmdReadyFails
        <4>2. drive'[hdd.slot].st = "seek"
          BY <1>0, <3>1, <4>1 DEF Command
        <4> QED
          BY <3>1, <4>1, <4>2 DEF ServedInv
      <3>3. CASE drive[hdd.slot].st = "error"
        <4>1. pc' = "chunk" /\ UNCHANGED drive
          BY <2>2, <3>1, <3>3 DEF Send, CmdReadyFails
        <4> QED
          BY <3>1, <3>3, <4>1 DEF ServedInv
      <3> QED
        BY <3>1, <3>2, <3>3
    <2>3. CASE Receive
      <3>1. /\ pc = "drq" /\ hdd.kind = "ide" /\ rd.slot = hdd.slot /\ rd.back = "chunk" /\ UNCHANGED hdd
            /\ drive[hdd.slot].st \in {"seek", "data", "error"} /\ rd.ok
        BY <1>0, <2>1, <2>3 DEF Receive, PlaceInv, Reading, ReadInv
      <3>2. CASE drive[hdd.slot].st = "data"
        <4>1. drive[hdd.slot].left = togo /\ togo \in Nat /\ togo >= 1
          <5>1. togo \in 1 .. Chunk /\ Chunk \in Nat
            BY <1>0, <3>1, StorageAssumption DEF DriveInv, Chunk, ReadType
          <5> QED
            BY <1>0, <3>1, <3>2, <5>1 DEF DriveInv
        <4>2. drive' = [drive EXCEPT ![hdd.slot] = Delay([st |-> "settle", at |-> drive[hdd.slot].at + 1,
                                                          left |-> drive[hdd.slot].left - 1])]
          BY <2>3, <3>1, <3>2 DEF Receive, DrqFails
        <4>3. drive'[hdd.slot].st = IF togo = 1 THEN "ready" ELSE "seek"
          BY <1>0, <3>1, <4>1, <4>2 DEF Delay, Quiet
        <4>4. CASE togo > 1
          <5>1. pc' = "drq"
            BY <2>3, <3>1, <3>2, <4>4 DEF Receive, DrqFails
          <5> QED
            BY <3>1, <4>3, <4>4, <5>1 DEF ServedInv
        <4>5. CASE ~(togo > 1)
          <5>1. pc' = "chunk" /\ rd' = [rd EXCEPT !.lba = (@ + Chunk) % Word, !.left = @ - Chunk]
            BY <2>3, <3>1, <3>2, <4>5 DEF Receive, DrqFails
          <5>2. rd'.ok
            BY <1>0, <3>1, <5>1 DEF ReadType
          <5> QED
            BY <3>1, <4>1, <4>3, <4>5, <5>1, <5>2 DEF ServedInv
        <4> QED
          BY <4>4, <4>5
      <3>3. CASE drive[hdd.slot].st = "error"
        <4>1. pc' = "chunk" /\ UNCHANGED drive
          BY <2>3, <3>1, <3>3 DEF Receive, DrqFails
        <4> QED
          BY <3>1, <3>3, <4>1 DEF ServedInv
      <3>4. CASE drive[hdd.slot].st = "seek"
        BY <1>0, <2>3, <3>1, <3>4 DEF Receive, DrqFails
      <3> QED
        BY <3>1, <3>2, <3>3, <3>4
    <2>4. CASE ReadUsb
      <3>1. hdd.kind = "usb" /\ UNCHANGED <<hdd, machine, req>>
        BY <2>4 DEF ReadUsb, scan
      <3>2. Served(req) => rd'.ok
        BY <1>2, <2>4, UsbServes
      <3>3. Served(req)' => Served(req)
        BY <3>1, SameServed
      <3> QED
        BY <3>1, <3>2, <3>3 DEF ServedInv
    <2>5. CASE ReadIde \/ ReadEnds \/ Answered
      <3>1. UNCHANGED <<hdd, drive>> /\ pc # "drq" /\ pc' # "drq" /\ pc' # "chunk"
        BY <1>2, <2>1, <2>5 DEF ReadIde, ReadEnds, Answered
      <3> QED
        BY <2>1, <3>1 DEF ServedInv
    <2>6. ASSUME NEW r \in Requests, Int13(r) PROVE ServedInv'
      <3>1. UNCHANGED <<hdd, drive, machine>> /\ pc = "guest" /\ pc' \in {"chunk", "answer"} /\ req' = r
        BY <2>6 DEF Int13, scan, FloppyRead, ExtRead, ChsRead, Parameters, Read, Answer
      <3>2. Served(r) => rd'.ok
        BY <1>2, <2>6, Int13Serves
      <3>3. Served(req)' => Served(r)
        <4>1. Served(r)' <=> Served(r)
          BY <3>1, SameServed
        <4>2. Served(req)' <=> Served(r)'
          BY <3>1 DEF Served, Begins, Before
        <4> QED
          BY <4>1, <4>2
      <3> QED
        BY <2>1, <3>1, <3>2, <3>3 DEF ServedInv
    <2>7. ASSUME NEW s \in Slots, DriveProceeds(s) PROVE ServedInv'
      <3>1. UNCHANGED <<hdd, pc, rd, req, machine, faults>> /\ drive[s].st \in {"slow", "seek", "settle"}
        BY <1>0, <2>7 DEF DriveProceeds, scan
      <3>2. CASE hdd.kind = "ide" /\ s = hdd.slot
        <4>1. pc = "drq" /\ drive[s].st = "seek"
          BY <1>0, <2>1, <3>1, <3>2
        <4>2. rd.slot = hdd.slot
          BY <1>0, <2>1, <3>2, <4>1 DEF PlaceInv, Reading
        <4>3. drive[s].left = togo /\ togo \in Nat /\ togo # 0
          <5>1. togo \in 1 .. Chunk /\ Chunk \in Nat
            BY <1>0, <4>1, StorageAssumption DEF DriveInv, Chunk, ReadType
          <5> QED
            BY <1>0, <3>2, <4>1, <4>2, <5>1 DEF DriveInv
        <4>4. drive'[s].st \in {"data", "error"}
          BY <1>0, <2>7, <4>1, <4>3 DEF DriveProceeds, Quiet, Status
        <4> QED
          BY <3>1, <3>2, <4>1, <4>4 DEF ServedInv
      <3>3. CASE ~(hdd.kind = "ide" /\ s = hdd.slot)
        <4>1. hdd.kind = "ide" => drive'[hdd.slot] = drive[hdd.slot]
          BY <1>0, <2>7, <3>3 DEF DriveProceeds
        <4>2. Served(req)' <=> Served(req)
          BY <3>1, SameServed
        <4> QED
          BY <2>1, <3>1, <4>1, <4>2 DEF ServedInv
      <3> QED
        BY <3>2, <3>3
    <2>8. CASE UNCHANGED vars
      <3>1. UNCHANGED <<hdd, drive, pc, rd, req, machine>>
        BY <2>8 DEF vars, scan
      <3>2. Served(req)' <=> Served(req)
        BY <3>1, SameServed
      <3> QED
        BY <2>1, <3>1, <3>2 DEF ServedInv
    <2> QED
      BY <2>1, <2>2, <2>3, <2>4, <2>5, <2>6, <2>7, <2>8
      DEF Next, Program, Slots, Reading, Identify, Register, ScanMbr, Ports, PortFails, PortFound, Export, Import,
          Select, Selected, NoneLeft
  <1> QED
    BY <1>1, <1>2

LEMMA RefusalStep ==
  ASSUME SafeInv, ServedInv, RefusalsHaveCause, Clean', [Next]_vars
  PROVE  RefusalsHaveCause'
PROOF
  <1>0. /\ TypeInv /\ ReadType /\ PlaceInv /\ Clean /\ drive \in [Slots -> Status]
        /\ hdd.kind = "ide" => hdd.slot \in Slots
    BY NothingFailed, HddFacts DEF SafeInv, TypeInv
  <1> SUFFICES ASSUME pc' = "answer", ~rd'.ok, Served(req)', boot'.from = "disk"
               PROVE  hdd'.kind = "ide" /\ drive'[hdd'.slot].st = "error"
    BY DEF RefusalsHaveCause
  <1>1. CASE ReadEnds
    <2>1. pc = "chunk" /\ UNCHANGED <<machine, hdd, rd, req, drive, boot>>
      BY <1>1 DEF ReadEnds
    <2>2. Served(req)
      BY <2>1, SameServed
    <2> QED
      BY <2>1, <2>2 DEF ServedInv
  <1>2. ASSUME NEW r \in Requests, Int13(r) PROVE FALSE
    <2>1. UNCHANGED <<machine, hdd, boot>> /\ req' = r
      BY <1>2 DEF Int13, scan
    <2>2. Served(r)
      <3>1. Served(req)' <=> Served(r)'
        BY <2>1 DEF Served, Begins, Before
      <3> QED
        BY <2>1, <3>1, SameServed
    <2> QED
      BY <1>2, <2>1, <2>2, Int13Serves
  <1>3. ASSUME NEW s \in Slots, DriveProceeds(s)
        PROVE  hdd'.kind = "ide" /\ drive'[hdd'.slot].st = "error"
    <2>1. UNCHANGED <<machine, hdd, pc, rd, req, boot>> /\ drive[s].st \in {"slow", "seek", "settle"}
      BY <1>3 DEF DriveProceeds, scan
    <2>2. Served(req)
      BY <2>1, SameServed
    <2>3. hdd.kind = "ide" /\ drive[hdd.slot].st = "error"
      BY <1>0, <2>1, <2>2 DEF RefusalsHaveCause, Clean
    <2>4. drive'[hdd.slot] = drive[hdd.slot]
      BY <1>0, <1>3, <2>1, <2>3 DEF DriveProceeds
    <2> QED
      BY <2>1, <2>3, <2>4
  <1>4. CASE UNCHANGED vars
    <2>1. UNCHANGED <<machine, hdd, pc, rd, req, boot, drive>>
      BY <1>4 DEF vars, scan
    <2>2. Served(req)
      BY <2>1, SameServed
    <2> QED
      BY <1>0, <2>1, <2>2 DEF RefusalsHaveCause, Clean
  <1>5. ASSUME Send \/ Receive PROVE FALSE
    BY <1>0, <1>5 DEF Send, Receive, PlaceInv
  <1> QED
    BY <1>1, <1>2, <1>3, <1>4, <1>5
    DEF Next, Program, Slots, Identify, NextSlot, Register, ScanMbr, Ports, PortFails, NextPort, PortFound, Export, Import,
        Select, Selected, Read, ReadIde, ReadUsb, NoneLeft, Answered

LEMMA CleanInitial == Init => CleanInv /\ RefusalsHaveCause
PROOF
  <1> SUFFICES ASSUME Init PROVE CleanInv /\ RefusalsHaveCause
    OBVIOUS
  <1>1. Quietly
    BY DEF Init, Quietly, Quiet, Slots
  <1>2. ScanInv
    <2>1. PICK c : c = cand.ide
      OBVIOUS
    <2>2. c = NoDisk
      BY <2>1 DEF Init
    <2>3. Leads(cand.ide, at - 1, at - 1) /\ hdd = cand.ide
      BY <2>1, <2>2 DEF Init, Leads
    <2> QED
      BY <2>3 DEF Init, ScanInv
  <1>3. TurnInv /\ ServedInv /\ RefusalsHaveCause
    BY DEF Init, TurnInv, ServedInv, RefusalsHaveCause
  <1> QED
    BY <1>1, <1>2, <1>3 DEF CleanInv

LEMMA CleanStep ==
  ASSUME SafeInv, SafeInv', CleanInv, RefusalsHaveCause, [Next]_vars
  PROVE  CleanInv' /\ RefusalsHaveCause'
PROOF
  <1>1. ASSUME Clean' PROVE Quietly' /\ ScanInv' /\ TurnInv' /\ ServedInv' /\ RefusalsHaveCause'
    <2>1. TypeInv
      BY DEF SafeInv
    <2>2. Clean
      BY <1>1, <2>1, NothingFailed
    <2>3. Quietly /\ ScanInv /\ TurnInv /\ ServedInv
      BY <2>2 DEF CleanInv
    <2>4. Quietly'
      BY <1>1, <2>3, QuietStep
    <2>5. ScanInv'
      BY <1>1, <2>2, <2>3, ScanStep
    <2>6. TurnInv'
      BY <1>1, <2>2, <2>3, TurnStep
    <2>7. ServedInv' /\ RefusalsHaveCause'
      BY <1>1, <2>3, ServedStep, RefusalStep
    <2> QED
      BY <2>4, <2>5, <2>6, <2>7
  <1>2. ASSUME ~Clean' PROVE RefusalsHaveCause'
    BY <1>2 DEF Clean, RefusalsHaveCause
  <1> QED
    BY <1>1, <1>2 DEF CleanInv

(* While nothing has failed, the drives are ready between commands, the    *)
(* records are those of the disks that should be found, no kind of disk    *)
(* that can be booted is passed over, and refusals have their cause.       *)
THEOREM CleanRuns == Spec => [](SafeInv /\ CleanInv /\ RefusalsHaveCause)
PROOF
  <1>1. Init => SafeInv /\ CleanInv /\ RefusalsHaveCause
    BY SafeInitial, CleanInitial
  <1>2. SafeInv /\ [Next]_vars => SafeInv'
    BY SafeStep
  <1>3. SafeInv /\ CleanInv /\ RefusalsHaveCause /\ [Next]_vars => (SafeInv /\ CleanInv /\ RefusalsHaveCause)'
    BY <1>2, CleanStep
  <1> QED
    BY <1>1, <1>3, PTL DEF Spec

(* RefusalsHaveCause: while nothing has failed, INT 13h refuses a read     *)
(* within the disk only when the drive shows an earlier command's error.   *)
THEOREM RefusedForCause == Spec => []RefusalsHaveCause
PROOF
  BY CleanRuns, PTL

(* BootHonest: the disk booted is active, the record of the IDE disk tells *)
(* of that disk, and while nothing has failed the BIOS halts only if no    *)
(* disk it considers can be booted.                                        *)
THEOREM BootsHonestly == Spec => []BootHonest
PROOF
  <1>1. ASSUME SafeInv, CleanInv PROVE BootHonest
    <2>1. ASSUME pc = "halted", Clean, NEW i \in 1 .. Len(machine.prio), Bootable(machine.prio[i]) PROVE FALSE
      <3>1. PlaceInv /\ machine.prio \in Seq({"ide", "usb"}) /\ TurnInv /\ app = "legacy" /\ boot.from = "none"
        <4>1. TypeInv /\ PlaceInv /\ TurnInv
          BY <1>1, <2>1 DEF SafeInv, CleanInv
        <4> QED
          BY <2>1, <4>1, MachineFacts DEF PlaceInv, Reading, TypeInv
      <3>2. PICK kind \in {"ide", "usb"} : kind = machine.prio[i]
        BY <3>1
      <3>3. Turn(kind) /\ todo = << >>
        BY <2>1, <3>1, <3>2 DEF TurnInv, Ordered
      <3> QED
        BY <2>1, <3>3 DEF Turn, Waiting, OnTrack, Reading
    <2> QED
      BY <1>1, <2>1, BootedIsActive DEF BootHonest, Clean
  <1>2. SafeInv /\ CleanInv => BootHonest
    BY <1>1
  <1> QED
    BY CleanRuns, <1>2, PTL
=============================================================================
