---------------------------- MODULE LinuxProofs ----------------------------
(* The three safety properties of the Linux loader, for every size of the  *)
(* memory, every kernel on either disk and whatever fails: the invariant   *)
(* says of each unit that was loaded where its content is now.             *)
EXTENDS LinuxLoader, FiniteSetTheorems, SequenceTheorems, TLAPS

Kinds == {"ide", "usb"}
Orders == {<< "ide" >>, << "usb" >>, << "ide", "usb" >>}

Places ==
  {"select", "source", "headers", "setup", "initrd", "read_initrd", "buffer", "segment",
   "params", "video", "release", "apply", "kernel", "returned"}

(* The kernel's segments are known and have passed their checks.           *)
Known == pc \notin {"select", "source", "headers", "setup", "returned"}

Count == 1 .. Len(segments)

TypeInv ==
  /\ disks \in Machines /\ acpi \in Tables
  /\ prio \in Orders /\ pc \in Places
  /\ left \in Orders \cup {<< >>}
  /\ \A i \in 1 .. Len(left) : \E j \in 1 .. Len(prio) : left[i] = prio[j]
  /\ kind \in Kinds
  /\ seg \in Nat /\ unit \in Nat /\ cursor \in Nat
  /\ initrd \in [base : Nat, size : Nat]
  /\ deferred \in Seq([temp : Nat, at : Nat, file : Nat, mem : Nat])

(* The disk being tried, and what is known of its kernel.                  *)
DiskInv ==
  /\ pc \notin {"select", "returned"} =>
       Disk # Absent /\ \E j \in 1 .. Len(prio) : kind = prio[j]
  /\ pc = "setup" => Disk.format = "bzimage"
  /\ pc \in {"headers", "buffer"} => Elf
  /\ Known =>
       /\ Disk.format \in {"elf", "bzimage"}
       /\ segments = [i \in 1 .. Len(Disk.segs) |-> Resolved(Disk.segs[i])]
       /\ \A i \in Count : Loadable(segments[i])

(* How far the loading of the segments and the initrd is.                  *)
PlaceInv ==
  /\ pc \in {"source", "headers", "setup"} =>
       seg = 1 /\ unit = 0 /\ cursor = 0 /\ deferred = << >> /\ initrd = NoInitrd
  /\ pc \in {"initrd", "read_initrd", "buffer"} =>
       seg = (IF Elf THEN 1 ELSE 2) /\ deferred = << >>
  /\ pc \in {"initrd", "buffer"} => unit = 0
  /\ pc = "segment" => seg \in Count /\ unit <= Current.file
  /\ pc \in {"params", "video", "release", "apply", "kernel"} => seg = Len(segments) + 1
  /\ (pc = "initrd" \/ (pc = "segment" /\ ~Elf)) => initrd = NoInitrd
  /\ pc = "read_initrd" => unit < initrd.size
  /\ Known /\ ~Elf => deferred = << >>
  /\ pc = "kernel" => deferred = << >>
  /\ Known /\ initrd.size > 0 =>
       /\ Above(initrd.base) /\ initrd.base + initrd.size = UsableEnd
       /\ initrd.size = Disk.initrd

(* The buffer for the deferred segments is above all segments and below    *)
(* the initrd, and has room for those that are still to come.              *)
Bottom == BufferLimit - DeferTotal(segments)

Pending(k) == {p \in FileUnits(segments) : p[1] >= k /\ Defer(segments[p[1]])}

BufferInv ==
  pc = "segment" /\ Elf =>
    /\ cursor + Cardinality(Pending(seg)) <= BufferLimit
    /\ DeferTotal(segments) > 0 => Above(Bottom) /\ Bottom <= cursor

(* What was last put into a unit of memory, unless the USB controller has  *)
(* its buffers there.                                                      *)
Holds(u, what) == mem[u] = what \/ (kind = "usb" /\ u \in Scratch)

Spoilt == kind = "usb" /\ Loaded \cap Scratch # {}

InPlace(i) ==
  LET s == segments[i] IN
  /\ \A u \in Units(s.at, s.file) : Holds(u, <<kind, "kernel", i, u - s.at>>)
  /\ \A u \in Units(s.at + s.file, s.mem - s.file) : Holds(u, <<"zero">>)

Copied(i) ==
  LET s == segments[i] IN
  /\ \A u \in Units(s.at, s.file) : mem[u] = <<kind, "kernel", i, u - s.at>> \/ Spoilt
  /\ \A u \in Units(s.at + s.file, s.mem - s.file) : mem[u] = <<"zero">> \/ Spoilt

(* An entry has the place and the sizes of the i-th segment, and a part of *)
(* the buffer, where the segment is.                                       *)
Fits(e, i) ==
  /\ e.at = segments[i].at /\ e.file = segments[i].file /\ e.mem = segments[i].mem
  /\ e.file > 0 => Above(e.temp) /\ Bottom <= e.temp /\ e.temp + e.file <= BufferLimit

Keeps(e, i) == \A v \in 0 .. e.file - 1 : Holds(e.temp + v, <<kind, "kernel", i, v>>)

Kept(e, i) == Fits(e, i) /\ Keeps(e, i)

DoneInv ==
  Known => \A i \in 1 .. seg - 1 :
    IF ~Defer(segments[i]) THEN InPlace(i)
    ELSE \/ pc \in {"apply", "kernel"} /\ Copied(i)
         \/ \E k \in 1 .. Len(deferred) : Kept(deferred[k], i)

EntriesInv ==
  Known => \A k \in 1 .. Len(deferred) :
    /\ \E i \in Count : i < seg /\ Defer(segments[i]) /\ Kept(deferred[k], i)
    /\ pc = "segment" /\ deferred[k].file > 0 =>
         deferred[k].temp + deferred[k].file <= cursor

Target == IF Defer(Current) THEN cursor ELSE Current.at

HalfInv ==
  pc = "segment" =>
    \A v \in 0 .. unit - 1 : Holds(Target + v, <<kind, "kernel", seg, v>>)

InitrdInv ==
  Known =>
    \A v \in 0 .. (IF pc = "read_initrd" THEN unit ELSE initrd.size) - 1 :
      Holds(initrd.base + v, <<kind, "initrd", 1, v>>)

(* What the kernel is told.                                                *)
ParamsInv ==
  /\ Known => setup = [first |-> setup.first, rest |-> IF Elf THEN "none" ELSE kind]
  /\ pc \in {"source", "headers", "setup"} => setup = NoSetup
  /\ pc \notin {"release", "apply", "kernel"} => mode = "text"
  /\ pc \in {"video", "release", "apply", "kernel"} =>
       params = [usable |-> Usable, initrd |-> initrd, screen |-> mode, setup |-> setup]

(* No kernel that is tried can reach down to the BIOS.                     *)
OutOfReach ==
  \A i \in 1 .. Len(prio) :
    LET d == disks[prio[i]] IN
    d # Absent => d.format # "bzimage" /\ \A r \in Runtime : r < Lowest(d)

BiosInv ==
  pc \notin {"apply", "kernel"} =>
    /\ slot /\ learned = "none"
    /\ OutOfReach => \A u \in Runtime : mem[u] = <<"bios">>

IInv ==
  /\ TypeInv /\ DiskInv /\ PlaceInv /\ BufferInv
  /\ DoneInv /\ EntriesInv /\ HalfInv /\ InitrdInv
  /\ ParamsInv /\ BiosInv

-----------------------------------------------------------------------------
LEMMA Sizes ==
  /\ Total \in Nat /\ Reserved \in Nat /\ UsableEnd \in Nat
  /\ UsableEnd > 1 /\ UsableEnd <= Total
  /\ Runtime \subseteq 1 .. UsableEnd - 1 /\ Scratch \subseteq 1 .. Total - 1
  /\ Scratch \cap Runtime = {}
PROOF
  BY MemoryAssumption DEF UsableEnd

LEMMA SeqElements ==
  ASSUME NEW S, NEW s \in Seq(S)
  PROVE  Len(s) \in Nat /\ \A i \in 1 .. Len(s) : s[i] \in S
PROOF
  OBVIOUS

LEMMA SeqMade ==
  ASSUME NEW S, NEW n \in Nat, NEW s \in [1 .. n -> S]
  PROVE  s \in Seq(S) /\ Len(s) = n
PROOF
  OBVIOUS

(* What the checks of the headers leave of the kernel's segments.          *)
Shaped ==
  /\ segments \in Seq([at : Nat, file : Nat, mem : Nat])
  /\ \A i \in Count : /\ segments[i].at >= 1 /\ segments[i].file <= segments[i].mem
                      /\ segments[i].at + segments[i].mem <= UsableEnd
  /\ \A i, j \in Count : i # j =>
       \A u \in Units(segments[i].at, segments[i].mem) :
         u \notin Units(segments[j].at, segments[j].mem)

LEMMA DiskFacts ==
  ASSUME TypeInv, DiskInv, pc \notin {"select", "returned"}
  PROVE  /\ IsDisk(Disk) /\ Disk # Absent
         /\ Disk.initrd \in Nat
         /\ Disk.segs \in Seq([phys : Nat, virt : Nat, file : Nat, mem : Nat])
PROOF
  <1>1. Disk # Absent
    BY DEF DiskInv
  <1>2. disks \in Machines /\ kind \in {"ide", "usb"}
    BY DEF TypeInv, Kinds
  <1>3. DOMAIN disks = {"ide", "usb"} /\ \A k \in DOMAIN disks : IsDisk(disks[k])
    BY <1>2, MachineAssumption
  <1>4. IsDisk(Disk)
    BY <1>2, <1>3 DEF Disk
  <1> QED
    BY <1>1, <1>4 DEF IsDisk

LEMMA ResolvedType ==
  ASSUME NEW s \in [phys : Nat, virt : Nat, file : Nat, mem : Nat]
  PROVE  Resolved(s) \in [at : Nat, file : Nat, mem : Nat] /\ Resolved(s).file = s.file
PROOF
  <1> DEFINE at == IF s.phys >= 1 THEN s.phys
                   ELSE IF s.virt >= KernelSpace THEN s.virt - KernelSpace ELSE s.virt
  <1>1. s.phys \in Nat /\ s.virt \in Nat /\ s.file \in Nat /\ s.mem \in Nat
    OBVIOUS
  <1>2. KernelSpace \in Nat
    BY Sizes DEF KernelSpace
  <1>3. at \in Nat
    BY <1>1, <1>2
  <1>4. Resolved(s) = [at |-> at, file |-> s.file, mem |-> s.mem]
    BY DEF Resolved
  <1> HIDE DEF at
  <1> QED
    BY <1>1, <1>3, <1>4

LEMMA ShapedLemma ==
  ASSUME TypeInv, DiskInv, Known
  PROVE  /\ Shaped /\ Len(segments) \in Nat /\ Len(segments) = Len(Disk.segs)
         /\ (~Elf => Len(segments) = 1)
         /\ \A i \in Count : segments[i].file = Disk.segs[i].file
PROOF
  <1>1. pc \notin {"select", "returned"}
    BY DEF Known
  <1>2. /\ IsDisk(Disk) /\ Disk # Absent
        /\ Disk.segs \in Seq([phys : Nat, virt : Nat, file : Nat, mem : Nat])
    BY <1>1, DiskFacts
  <1>3. /\ Disk.format \in {"elf", "bzimage"}
        /\ segments = [i \in 1 .. Len(Disk.segs) |-> Resolved(Disk.segs[i])]
        /\ \A i \in Count : Loadable(segments[i])
    BY DEF DiskInv
  <1> DEFINE n == Len(Disk.segs)
  <1>4. n \in Nat /\ \A i \in 1 .. n : Disk.segs[i] \in [phys : Nat, virt : Nat, file : Nat, mem : Nat]
    BY <1>2, SeqElements
  <1>5. \A i \in 1 .. n : Resolved(Disk.segs[i]) \in [at : Nat, file : Nat, mem : Nat]
                          /\ Resolved(Disk.segs[i]).file = Disk.segs[i].file
    BY <1>4, ResolvedType
  <1>6. segments \in Seq([at : Nat, file : Nat, mem : Nat]) /\ Len(segments) = n
    <2>1. segments \in [1 .. n -> [at : Nat, file : Nat, mem : Nat]]
      BY <1>3, <1>5
    <2> QED
      BY <2>1, <1>4, SeqMade
  <1>7. Count = 1 .. n /\ \A i \in Count : segments[i] = Resolved(Disk.segs[i])
    BY <1>3, <1>6 DEF Count
  <1>8. \A i \in Count : /\ segments[i].at >= 1 /\ segments[i].file <= segments[i].mem
                         /\ segments[i].at + segments[i].mem <= UsableEnd
    <2> SUFFICES ASSUME NEW i \in Count
                 PROVE  /\ segments[i].at >= 1 /\ segments[i].file <= segments[i].mem
                        /\ segments[i].at + segments[i].mem <= UsableEnd
      OBVIOUS
    <2>1. segments[i] \in [at : Nat, file : Nat, mem : Nat]
      BY <1>6, <1>7, SeqElements
    <2>2. segments[i].at \in Nat /\ segments[i].mem \in Nat
      BY <2>1
    <2>3. Loadable(segments[i])
      BY <1>3
    <2> QED
      BY <2>2, <2>3, Sizes DEF Loadable
  <1>9. ~Elf => n = 1
    BY <1>2, <1>3 DEF Elf, IsDisk
  <1>10. \A i, j \in Count : i # j =>
           \A u \in Units(segments[i].at, segments[i].mem) :
             u \notin Units(segments[j].at, segments[j].mem)
    <2>1. CASE ~Elf
      BY <2>1, <1>7, <1>9
    <2>2. CASE Elf
      <3>1. \A i, j \in 1 .. n : i # j =>
              Units(Resolved(Disk.segs[i]).at, Resolved(Disk.segs[i]).mem)
                \cap Units(Resolved(Disk.segs[j]).at, Resolved(Disk.segs[j]).mem) = {}
        BY <2>2, <1>2 DEF IsDisk, Elf
      <3> QED
        BY <3>1, <1>7
    <2> QED
      BY <2>1, <2>2
  <1> HIDE DEF n
  <1>11. Shaped
    BY <1>6, <1>8, <1>10 DEF Shaped
  <1>12. \A i \in Count : segments[i].file = Disk.segs[i].file
    BY <1>5, <1>7
  <1> QED
    BY <1>4, <1>6, <1>9, <1>11, <1>12 DEF n

LEMMA SegmentFacts ==
  ASSUME Shaped, NEW i \in Count
  PROVE  /\ segments[i] \in [at : Nat, file : Nat, mem : Nat]
         /\ segments[i].at \in Nat /\ segments[i].file \in Nat /\ segments[i].mem \in Nat
         /\ Len(segments) \in Nat /\ i \in Nat
PROOF
  <1>1. segments[i] \in [at : Nat, file : Nat, mem : Nat] /\ Len(segments) \in Nat
    BY SeqElements DEF Shaped, Count
  <1> QED
    BY <1>1 DEF Count

-----------------------------------------------------------------------------
(* The buffer has one unit for each unit of a file that is kept aside: what *)
(* is still to come shrinks by a file when its segment is done.            *)
LEMMA Files ==
  ASSUME NEW segs, Len(segs) \in Nat
  PROVE  /\ IsFiniteSet(FileUnits(segs)) /\ Cardinality(FileUnits(segs)) \in Nat
         /\ \A S \in SUBSET FileUnits(segs) :
              /\ IsFiniteSet(S) /\ Cardinality(S) \in Nat
              /\ Cardinality(S) <= Cardinality(FileUnits(segs))
PROOF
  <1>1. IsFiniteSet(1 .. Len(segs)) /\ IsFiniteSet(1 .. Total)
    BY Sizes, FS_Interval
  <1>2. IsFiniteSet((1 .. Len(segs)) \X (1 .. Total))
    BY <1>1, FS_Product
  <1>3. FileUnits(segs) \in SUBSET ((1 .. Len(segs)) \X (1 .. Total))
    BY DEF FileUnits
  <1>4. IsFiniteSet(FileUnits(segs))
    BY <1>2, <1>3, FS_Subset
  <1> QED
    BY <1>4, FS_Subset, FS_CardinalityType

LEMMA TotalFacts ==
  ASSUME Shaped
  PROVE  /\ DeferTotal(segments) \in Nat /\ \A k : Cardinality(Pending(k)) \in Nat
         /\ DeferTotal(segments) <= Cardinality(FileUnits(segments))
         /\ DeferTotal(segments) = Cardinality(Pending(1))
         /\ \A k : Cardinality(Pending(k)) <= DeferTotal(segments)
PROOF
  <1>1. Len(segments) \in Nat
    BY SeqElements DEF Shaped
  <1> DEFINE D == {p \in FileUnits(segments) : Defer(segments[p[1]])}
  <1>2. D \in SUBSET FileUnits(segments)
    OBVIOUS
  <1>3. /\ IsFiniteSet(D) /\ Cardinality(D) \in Nat
        /\ Cardinality(D) <= Cardinality(FileUnits(segments))
    BY <1>1, <1>2, Files
  <1>4. \A k : Pending(k) \in SUBSET D
    BY DEF Pending
  <1>5. D = Pending(1)
    <2>1. \A p \in FileUnits(segments) : p[1] >= 1
      BY <1>1 DEF FileUnits
    <2> QED
      BY <2>1 DEF Pending
  <1>6. DeferTotal(segments) = Cardinality(D)
    BY DEF DeferTotal
  <1>7. \A k : IsFiniteSet(Pending(k)) /\ Cardinality(Pending(k)) <= Cardinality(D)
    BY <1>3, <1>4, FS_Subset
  <1>8. \A k : Cardinality(Pending(k)) \in Nat
    BY <1>7, FS_CardinalityType
  <1> QED
    BY <1>3, <1>5, <1>6, <1>7, <1>8

LEMMA PendingSplit ==
  ASSUME Shaped, NEW k \in Count
  PROVE  IF Defer(segments[k])
         THEN Cardinality(Pending(k)) = Cardinality(Pending(k + 1)) + segments[k].file
         ELSE Pending(k) = Pending(k + 1)
PROOF
  <1> DEFINE s == segments[k]
             here == {k} \X (1 .. s.file)
  <1>1. /\ s.at \in Nat /\ s.file \in Nat /\ s.mem \in Nat /\ k \in Nat
        /\ Len(segments) \in Nat
    BY SegmentFacts
  <1>2. s.file <= Total
    <2>1. s.at >= 1 /\ s.file <= s.mem /\ s.at + s.mem <= UsableEnd
      BY DEF Shaped
    <2> QED
      BY <2>1, <1>1, Sizes
  <1>3. \A p \in FileUnits(segments) : p[1] \in Nat
    BY <1>1 DEF FileUnits
  <1>4. CASE ~Defer(s)
    <2>1. Pending(k) = Pending(k + 1)
      <3>1. \A p \in FileUnits(segments) : p[1] >= k /\ p[1] # k => p[1] >= k + 1
        BY <1>1, <1>3
      <3>2. \A p \in FileUnits(segments) : p[1] >= k + 1 => p[1] >= k
        BY <1>1, <1>3
      <3> QED
        BY <3>1, <3>2, <1>4 DEF Pending
    <2> QED
      BY <2>1, <1>4
  <1>5. CASE Defer(s)
    <2>1. Pending(k) = Pending(k + 1) \cup here
      <3>1. \A p : p \in here <=> p \in FileUnits(segments) /\ p[1] = k
        <4>1. k \in 1 .. Len(segments)
          BY DEF Count
        <4>2. \A p : p \in FileUnits(segments) <=>
                p \in (1 .. Len(segments)) \X (1 .. Total) /\ p[2] <= segments[p[1]].file
          BY DEF FileUnits
        <4>3. ASSUME NEW p \in here PROVE p \in FileUnits(segments) /\ p[1] = k
          BY <4>1, <4>2, <1>1, <1>2, Sizes
        <4>4. ASSUME NEW p \in FileUnits(segments), p[1] = k PROVE p \in here
          BY <4>4, <4>2, <1>1
        <4> QED
          BY <4>3, <4>4
      <3>2. \A p \in FileUnits(segments) : p[1] >= k <=> p[1] >= k + 1 \/ p[1] = k
        BY <1>1, <1>3
      <3> HIDE DEF here
      <3>3. ASSUME NEW p PROVE p \in Pending(k) <=> p \in Pending(k + 1) \/ p \in here
        BY <3>1, <3>2, <1>5 DEF Pending
      <3> QED
        BY <3>3
    <2>2. Pending(k + 1) \cap here = {}
      <3>1. \A p \in Pending(k + 1) : p[1] >= k + 1
        BY DEF Pending
      <3>2. \A p \in here : p[1] = k
        OBVIOUS
      <3> QED
        BY <3>1, <3>2, <1>1
    <2>3. IsFiniteSet(here) /\ Cardinality(here) = s.file
      <3>1. IsFiniteSet({k}) /\ Cardinality({k}) = 1
        BY FS_Singleton
      <3>2. IsFiniteSet(1 .. s.file) /\ Cardinality(1 .. s.file) = s.file
        <4> DEFINE n == s.file
        <4>1. n \in Nat
          BY <1>1
        <4> HIDE DEF n
        <4>2. IsFiniteSet(1 .. n) /\ Cardinality(1 .. n) = IF 1 > n THEN 0 ELSE n - 1 + 1
          BY <4>1, FS_Interval
        <4>3. Cardinality(1 .. n) = n
          BY <4>1, <4>2
        <4> QED
          BY <4>2, <4>3 DEF n
      <3>3. IsFiniteSet(here) /\ Cardinality(here) = 1 * s.file
        BY <3>1, <3>2, FS_Product
      <3> QED
        BY <3>3, <1>1
    <2>4. IsFiniteSet(Pending(k + 1)) /\ Cardinality(Pending(k + 1)) \in Nat
      <3>1. Pending(k + 1) \in SUBSET FileUnits(segments)
        BY DEF Pending
      <3> QED
        BY <3>1, <1>1, Files
    <2>5. Cardinality(Pending(k) ) = Cardinality(Pending(k + 1)) + Cardinality(here) - 0
      <3>1. Cardinality(Pending(k + 1) \cap here) = 0
        BY <2>2, FS_EmptySet
      <3> HIDE DEF here
      <3> QED
        BY <3>1, <2>1, <2>3, <2>4, FS_Union
    <2> QED
      BY <2>3, <2>4, <2>5, <1>1, <1>5
  <1> QED
    BY <1>4, <1>5

-----------------------------------------------------------------------------
(* What depends on the kernel alone, and stays once that is known.         *)
LEMMA KernelStays ==
  ASSUME UNCHANGED <<disks, kind, segments>>
  PROVE  /\ Disk' = Disk /\ (Elf' <=> Elf) /\ Count' = Count
         /\ \A s : Defer(s)' <=> Defer(s)
         /\ \A b : Above(b)' <=> Above(b)
         /\ \A s : Loadable(s)' <=> Loadable(s)
         /\ DeferTotal(segments)' = DeferTotal(segments)
         /\ \A k : Pending(k)' = Pending(k)
PROOF
  <1>1. Disk' = Disk /\ (Elf' <=> Elf)
    BY DEF Disk, Elf
  <1>2. \A s : Defer(s)' <=> Defer(s)
    BY <1>1 DEF Defer
  <1>3. \A b : Above(b)' <=> Above(b)
    BY DEF Above
  <1>4. DeferTotal(segments)' = DeferTotal(segments)
    <2>1. {p \in FileUnits(segments) : Defer(segments[p[1]])}'
            = {p \in FileUnits(segments) : Defer(segments[p[1]])}
      BY <1>2 DEF FileUnits
    <2> QED
      BY <2>1 DEF DeferTotal
  <1>5. ASSUME NEW k PROVE Pending(k)' = Pending(k)
    BY <1>2 DEF Pending, FileUnits
  <1> QED
    BY <1>1, <1>2, <1>3, <1>4, <1>5 DEF Count, Loadable

LEMMA LoadedParts ==
  \A u : u \in Loaded <=>
    \/ \E i \in Count : u \in Units(segments[i].at, segments[i].mem)
    \/ u \in Units(BufferLimit - DeferTotal(segments), DeferTotal(segments))
    \/ u \in Units(initrd.base, initrd.size)
PROOF
  BY DEF Loaded, Count

LEMMA BufferStays ==
  ASSUME UNCHANGED <<disks, kind, segments, initrd>>
  PROVE  /\ BufferLimit' = BufferLimit /\ Bottom' = Bottom
         /\ \A e, i : Fits(e, i)' <=> Fits(e, i)
         /\ Loaded' = Loaded /\ (Spoilt' <=> Spoilt)
PROOF
  <1>1. BufferLimit' = BufferLimit
    BY DEF BufferLimit
  <1>2. Bottom' = Bottom
    BY <1>1, KernelStays DEF Bottom
  <1>3. Loaded' = Loaded
    BY <1>1, KernelStays DEF Loaded
  <1> QED
    BY <1>1, <1>2, <1>3, KernelStays DEF Fits, Spoilt

(* A unit with something else written to it: all others hold what they did.*)
LEMMA ReadLemma ==
  ASSUME NEW at, NEW what, mem' = Read(at, what), kind' = kind
  PROVE  /\ \A u \in 1 .. Total - 1 : \A x : u # at /\ Holds(u, x) => Holds(u, x)'
         /\ at \in 1 .. Total - 1 => Holds(at, what)'
         /\ \A r \in Runtime : r # at => mem'[r] = mem[r]
PROOF
  <1>1. \A u \in 1 .. Total - 1 :
          mem'[u] = IF kind = "usb" /\ u \in Scratch THEN <<"scratch">>
                    ELSE IF u = at THEN what ELSE mem[u]
    BY DEF Read
  <1>2. \A r \in Runtime : r \in 1 .. Total - 1 /\ r \notin Scratch
    BY Sizes
  <1> QED
    BY <1>1, <1>2 DEF Holds

LEMMA ZeroLemma ==
  ASSUME NEW m, NEW s, mem' = Zeroed(m, s), kind' = kind
  PROVE  \A u \in 1 .. Total - 1 :
           mem'[u] = IF u \in Units(s.at + s.file, s.mem - s.file) THEN <<"zero">> ELSE m[u]
PROOF
  BY DEF Zeroed

(* What was written to is W; a segment, an entry, the initrd and the BIOS   *)
(* outside of it are as they were.                                         *)
Outside(W) ==
  \A u \in 1 .. Total - 1 : u \notin W => \A x : Holds(u, x) => Holds(u, x)'

LEMMA InPlaceStays ==
  ASSUME Shaped, UNCHANGED <<disks, kind, segments>>, NEW W, Outside(W), NEW i \in Count,
         InPlace(i), \A u \in W : u \notin Units(segments[i].at, segments[i].mem)
  PROVE  InPlace(i)'
PROOF
  <1> DEFINE s == segments[i]
  <1>1. s.at \in Nat /\ s.file \in Nat /\ s.mem \in Nat
    BY SegmentFacts
  <1>2. s.at >= 1 /\ s.file <= s.mem /\ s.at + s.mem <= UsableEnd
    BY DEF Shaped
  <1>3. \A u : u \in Units(s.at, s.file) \/ u \in Units(s.at + s.file, s.mem - s.file)
           => u \in Units(s.at, s.mem)
    BY <1>1, <1>2 DEF Units
  <1>4. \A u \in Units(s.at, s.mem) : u \in 1 .. Total - 1
    BY <1>1, <1>2, Sizes DEF Units
  <1>5. \A u \in Units(s.at, s.mem) : \A x : Holds(u, x) => Holds(u, x)'
    BY <1>4 DEF Outside
  <1>6. \A u \in Units(s.at, s.file) : Holds(u, <<kind, "kernel", i, u - s.at>>)'
    BY <1>3, <1>5 DEF InPlace
  <1>7. \A u \in Units(s.at + s.file, s.mem - s.file) : Holds(u, <<"zero">>)'
    BY <1>3, <1>5 DEF InPlace
  <1> QED
    BY <1>6, <1>7 DEF InPlace

LEMMA AboveFacts ==
  ASSUME Shaped, NEW b \in Nat, Above(b), NEW i \in Count,
         NEW u \in Units(segments[i].at, segments[i].mem)
  PROVE  u < b
PROOF
  <1>1. segments[i].at \in Nat /\ segments[i].mem \in Nat
    BY SegmentFacts
  <1>2. segments[i].at + segments[i].mem <= b
    BY DEF Above, Count
  <1> QED
    BY <1>1, <1>2 DEF Units

LEMMA LimitFacts ==
  ASSUME TypeInv, PlaceInv, Known
  PROVE  /\ initrd.base \in Nat /\ initrd.size \in Nat
         /\ BufferLimit \in Nat /\ BufferLimit + initrd.size = UsableEnd
         /\ initrd.size > 0 => initrd.base = BufferLimit /\ Above(initrd.base)
PROOF
  <1>1. initrd.base \in Nat /\ initrd.size \in Nat
    BY DEF TypeInv
  <1>2. initrd.size > 0 => Above(initrd.base) /\ initrd.base + initrd.size = UsableEnd
    BY DEF PlaceInv
  <1> QED
    BY <1>1, <1>2, Sizes DEF BufferLimit

LEMMA KeepsStays ==
  ASSUME NEW W, Outside(W), UNCHANGED kind, NEW i, NEW e,
         e.temp \in Nat, e.file \in Nat, Fits(e, i), Keeps(e, i),
         BufferLimit \in Nat, BufferLimit <= UsableEnd,
         e.file > 0 => \A u \in W : u \notin Units(e.temp, e.file)
  PROVE  Keeps(e, i)'
PROOF
  <1> SUFFICES ASSUME NEW v \in 0 .. e.file - 1
               PROVE  Holds(e.temp + v, <<kind, "kernel", i, v>>)'
    BY DEF Keeps
  <1>1. e.file > 0 /\ v \in Nat /\ v < e.file
    OBVIOUS
  <1>2. e.temp >= 1 /\ e.temp + e.file <= BufferLimit
    BY <1>1 DEF Fits, Above
  <1>3. e.temp + v \in Units(e.temp, e.file)
    BY <1>1 DEF Units
  <1>4. e.temp + v \in 1 .. Total - 1
    BY <1>1, <1>2, Sizes
  <1>5. e.temp + v \notin W
    BY <1>1, <1>3
  <1>6. Holds(e.temp + v, <<kind, "kernel", i, v>>)
    BY DEF Keeps
  <1> QED
    BY <1>4, <1>5, <1>6 DEF Outside

LEMMA HoldStays ==
  ASSUME NEW W, Outside(W), UNCHANGED <<kind, initrd>>, NEW n,
         initrd.base \in Nat, initrd.size \in Nat, n \in Nat, n <= initrd.size,
         n > 0 => initrd.base >= 1 /\ initrd.base + initrd.size <= UsableEnd,
         \A u \in W : u \notin Units(initrd.base, n),
         \A v \in 0 .. n - 1 : Holds(initrd.base + v, <<kind, "initrd", 1, v>>)
  PROVE  \A v \in 0 .. n - 1 : Holds(initrd.base + v, <<kind, "initrd", 1, v>>)'
PROOF
  <1> SUFFICES ASSUME NEW v \in 0 .. n - 1
               PROVE  Holds(initrd.base + v, <<kind, "initrd", 1, v>>)'
    OBVIOUS
  <1>1. n > 0 /\ v \in Nat /\ v < n
    OBVIOUS
  <1>2. initrd.base + v \in Units(initrd.base, n) /\ initrd.base + v \in 1 .. Total - 1
    BY <1>1, Sizes DEF Units
  <1>3. initrd.base + v \notin W
    BY <1>2
  <1>4. Holds(initrd.base + v, <<kind, "initrd", 1, v>>)
    OBVIOUS
  <1> QED
    BY <1>2, <1>3, <1>4 DEF Outside

LEMMA BiosStays ==
  ASSUME BiosInv, UNCHANGED <<machine, slot, learned>>, pc \notin {"apply", "kernel"},
         OutOfReach => \A r \in Runtime : mem'[r] = mem[r]
  PROVE  BiosInv'
PROOF
  <1>1. OutOfReach' <=> OutOfReach
    BY DEF OutOfReach, machine
  <1> QED
    BY <1>1 DEF BiosInv

(* Whatever fails before the parameters are told, the loader can leave.    *)
LEMMA LeaveLemma ==
  ASSUME IInv, pc \notin {"video", "release", "apply", "kernel"}, pc' = "select",
         UNCHANGED <<machine, left, kind, seg, unit, cursor, deferred, initrd, outcome>>,
         \A r \in Runtime : mem'[r] = mem[r]
  PROVE  IInv'
PROOF
  <1>1. ~Known'
    BY DEF Known
  <1>2. TypeInv'
    BY DEF IInv, TypeInv, machine, outcome, Places
  <1>3. DiskInv' /\ PlaceInv' /\ BufferInv' /\ DoneInv' /\ EntriesInv' /\ HalfInv' /\ InitrdInv'
    BY <1>1 DEF DiskInv, PlaceInv, BufferInv, DoneInv, EntriesInv, HalfInv, InitrdInv
  <1>4. ParamsInv'
    BY <1>1 DEF IInv, ParamsInv, outcome
  <1>5. BiosInv'
    BY BiosStays DEF IInv, outcome
  <1> QED
    BY <1>2, <1>3, <1>4, <1>5 DEF IInv

LEMMA InitLemma ==
  ASSUME Init PROVE IInv
PROOF
  <1>1. ~Known /\ pc = "select"
    BY DEF Known, Init
  <1>2. TypeInv
    <2>1. prio \in Orders /\ left = prio
      BY DEF Init, Orders
    <2>2. deferred \in Seq([temp : Nat, at : Nat, file : Nat, mem : Nat])
      BY DEF Init
    <2>3. initrd \in [base : Nat, size : Nat]
      BY DEF Init, NoInitrd
    <2>4. \A i \in 1 .. Len(left) : \E j \in 1 .. Len(prio) : left[i] = prio[j]
      BY <2>1
    <2> QED
      BY <2>1, <2>2, <2>3, <2>4 DEF Init, TypeInv, Places, Kinds
  <1>3. DiskInv /\ PlaceInv /\ BufferInv /\ DoneInv /\ EntriesInv /\ HalfInv /\ InitrdInv
    BY <1>1 DEF DiskInv, PlaceInv, BufferInv, DoneInv, EntriesInv, HalfInv, InitrdInv
  <1>4. ParamsInv
    BY <1>1 DEF ParamsInv, Init
  <1>5. BiosInv
    <2>1. \A u \in Runtime : u \in 1 .. Total - 1
      BY Sizes
    <2> QED
      BY <2>1 DEF BiosInv, Init
  <1> QED
    BY <1>2, <1>3, <1>4, <1>5 DEF IInv

-----------------------------------------------------------------------------
LEMMA SelectLemma ==
  ASSUME IInv, Select PROVE IInv'
PROOF
  <1>1. /\ pc = "select" /\ left # << >> /\ kind' = Head(left) /\ left' = Tail(left)
        /\ seg' = 1 /\ unit' = 0 /\ cursor' = 0 /\ deferred' = << >>
        /\ initrd' = NoInitrd /\ setup' = NoSetup
        /\ pc' = "select" \/ (pc' = "source" /\ disks[kind'] # Absent)
        /\ UNCHANGED <<machine, mem, outcome>>
    BY DEF Select
  <1>2. TypeInv
    BY DEF IInv
  <1>3. \/ left = << "ide" >> \/ left = << "usb" >> \/ left = << "ide", "usb" >>
    BY <1>1, <1>2 DEF TypeInv, Orders
  <1>4. /\ kind' = left[1] /\ kind' \in Kinds /\ left' \in Orders \cup {<< >>}
        /\ Len(left) \in Nat /\ 1 \in 1 .. Len(left)
        /\ \A i \in 1 .. Len(left') : left'[i] = left[i + 1] /\ i + 1 \in 1 .. Len(left)
    <2>1. CASE left = << "ide" >>
      BY <1>1, <2>1 DEF Orders, Kinds
    <2>2. CASE left = << "usb" >>
      BY <1>1, <2>2 DEF Orders, Kinds
    <2>3. CASE left = << "ide", "usb" >>
      BY <1>1, <2>3 DEF Orders, Kinds
    <2> QED
      BY <1>3, <2>1, <2>2, <2>3
  <1>5. \E j \in 1 .. Len(prio) : kind' = prio[j]
    BY <1>2, <1>4 DEF TypeInv
  <1>6. \A i \in 1 .. Len(left') : \E j \in 1 .. Len(prio) : left'[i] = prio[j]
    BY <1>2, <1>4 DEF TypeInv
  <1>7. ~Known'
    BY <1>1 DEF Known
  <1>8. UNCHANGED <<disks, prio, acpi, mem, mode, params, slot, learned>>
    BY <1>1 DEF machine, outcome
  <1>9. TypeInv'
    <2>1. deferred' \in Seq([temp : Nat, at : Nat, file : Nat, mem : Nat])
      BY <1>1
    <2>2. initrd' \in [base : Nat, size : Nat]
      BY <1>1 DEF NoInitrd
    <2> QED
      BY <1>1, <1>2, <1>4, <1>6, <1>8, <2>1, <2>2 DEF TypeInv, Places
  <1>10. DiskInv'
    BY <1>1, <1>5, <1>7, <1>8 DEF DiskInv, Disk
  <1>11. PlaceInv'
    BY <1>1, <1>7 DEF PlaceInv
  <1>12. BufferInv' /\ DoneInv' /\ EntriesInv' /\ HalfInv' /\ InitrdInv'
    BY <1>1, <1>7 DEF BufferInv, DoneInv, EntriesInv, HalfInv, InitrdInv
  <1>13. ParamsInv'
    BY <1>1, <1>7, <1>8 DEF IInv, ParamsInv
  <1>14. BiosInv'
    BY <1>1, <1>8, BiosStays DEF IInv
  <1> QED
    BY <1>9, <1>10, <1>11, <1>12, <1>13, <1>14 DEF IInv

LEMMA ReturnLemma ==
  ASSUME IInv, Return PROVE IInv'
PROOF
  <1>1. /\ pc = "select" /\ pc' = "returned"
        /\ UNCHANGED <<machine, left, kind, loading, mem, outcome>>
    BY DEF Return
  <1>2. ~Known'
    BY <1>1 DEF Known
  <1>3. TypeInv'
    BY <1>1 DEF IInv, TypeInv, machine, loading, Places
  <1>4. DiskInv' /\ PlaceInv' /\ BufferInv' /\ DoneInv' /\ EntriesInv' /\ HalfInv' /\ InitrdInv'
    BY <1>1, <1>2 DEF DiskInv, PlaceInv, BufferInv, DoneInv, EntriesInv, HalfInv, InitrdInv
  <1>5. ParamsInv'
    BY <1>1, <1>2 DEF IInv, ParamsInv, outcome
  <1>6. BiosInv'
    BY <1>1, BiosStays DEF IInv, outcome
  <1> QED
    BY <1>3, <1>4, <1>5, <1>6 DEF IInv

(* What is read below 1 MB changes no unit above it but the buffers'.      *)
LEMMA ReadBelow ==
  ASSUME NEW what, mem' = Read(0, what), UNCHANGED kind
  PROVE  Outside({}) /\ \A r \in Runtime : mem'[r] = mem[r]
PROOF
  <1>1. \A u \in 1 .. Total - 1 : u # 0
    BY Sizes
  <1>2. \A r \in Runtime : r # 0
    BY Sizes
  <1>3. 0 \in Nat
    OBVIOUS
  <1> QED
    BY <1>1, <1>2, ReadLemma DEF Outside

LEMMA SourceLemma ==
  ASSUME IInv, Source PROVE IInv'
PROOF
  <1>1. /\ pc = "source"
        /\ UNCHANGED <<machine, left, kind, loading, outcome>>
        /\ mem' = Read(0, << >>) \/ mem' = mem
    BY DEF Source
  <1>2. \A r \in Runtime : mem'[r] = mem[r]
    BY <1>1, ReadBelow
  <1>3. UNCHANGED <<disks, prio, acpi, segments, seg, unit, cursor, deferred, initrd, setup,
                    mode, params, slot, learned>>
    BY <1>1 DEF machine, loading, outcome
  <1>4. CASE pc' = "select"
    BY <1>1, <1>2, <1>3, <1>4, LeaveLemma
  <1>5. ASSUME pc' \in {"headers", "setup"} PROVE IInv'
    <2>1. ~Known'
      BY <1>5 DEF Known
    <2>2. TypeInv'
      BY <1>1, <1>3, <1>5 DEF IInv, TypeInv, Places
    <2>3. DiskInv'
      <3>1. Disk' = Disk /\ (Elf' <=> Elf)
        BY <1>1, <1>3 DEF Disk, Elf
      <3>2. CASE Disk.format = "elf"
        <4>1. pc' = "headers"
          BY <3>2, <1>5 DEF Source, GiveUp
        <4> QED
          BY <4>1, <3>1, <3>2, <2>1, <1>1, <1>3 DEF IInv, DiskInv, Elf
      <3>3. CASE Disk.format = "bzimage"
        <4>1. pc' = "setup"
          BY <3>3, <1>5 DEF Source, GiveUp
        <4> QED
          BY <4>1, <3>1, <3>3, <2>1, <1>1, <1>3 DEF IInv, DiskInv, Elf
      <3>4. CASE Disk.format \notin {"elf", "bzimage"}
        <4>1. pc' = "select"
          BY <3>4 DEF Source, GiveUp
        <4> QED
          BY <4>1, <1>5
      <3> QED
        BY <3>2, <3>3, <3>4
    <2>4. PlaceInv'
      <3>1. seg = 1 /\ unit = 0 /\ cursor = 0 /\ deferred = << >> /\ initrd = NoInitrd
        BY <1>1 DEF IInv, PlaceInv
      <3> QED
        BY <3>1, <2>1, <1>3, <1>5 DEF PlaceInv
    <2>5. BufferInv' /\ DoneInv' /\ EntriesInv' /\ HalfInv' /\ InitrdInv'
      BY <2>1, <1>5 DEF BufferInv, DoneInv, EntriesInv, HalfInv, InitrdInv
    <2>6. ParamsInv'
      <3>1. setup = NoSetup /\ mode = "text"
        BY <1>1 DEF IInv, ParamsInv
      <3> QED
        BY <3>1, <2>1, <1>3, <1>5 DEF ParamsInv
    <2>7. BiosInv'
      BY <1>1, <1>2, <1>3, BiosStays DEF IInv
    <2> QED
      BY <2>2, <2>3, <2>4, <2>5, <2>6, <2>7 DEF IInv
  <1>6. pc' \in {"headers", "setup", "select"}
    BY DEF Source, GiveUp
  <1> QED
    BY <1>4, <1>5, <1>6

LEMMA HeadersLemma ==
  ASSUME IInv, Headers PROVE IInv'
PROOF
  <1>1. /\ pc = "headers"
        /\ UNCHANGED <<machine, left, kind, seg, unit, cursor, deferred, initrd, setup, outcome>>
        /\ mem' = Read(0, << >>) \/ mem' = mem
    BY DEF Headers
  <1>2. \A r \in Runtime : mem'[r] = mem[r]
    BY <1>1, ReadBelow
  <1>3. UNCHANGED <<disks, prio, acpi, mode, params, slot, learned>>
    BY <1>1 DEF machine, outcome
  <1>4. CASE pc' = "select"
    BY <1>1, <1>2, <1>4, LeaveLemma
  <1>5. ASSUME pc' = "initrd" PROVE IInv'
    <2>1. /\ segments' = [i \in 1 .. Len(Disk.segs) |-> Resolved(Disk.segs[i])]
          /\ \A i \in 1 .. Len(segments') : Loadable(segments'[i])
      BY <1>5 DEF Headers, GiveUp
    <2>2. Disk' = Disk /\ (Elf' <=> Elf) /\ Elf /\ Known'
      BY <1>1, <1>3, <1>5 DEF Disk, Elf, Known, IInv, DiskInv
    <2>3. seg = 1 /\ unit = 0 /\ cursor = 0 /\ deferred = << >> /\ initrd = NoInitrd
          /\ setup = NoSetup /\ mode = "text"
      BY <1>1 DEF IInv, PlaceInv, ParamsInv
    <2>4. TypeInv'
      BY <1>1, <1>3, <1>5 DEF IInv, TypeInv, Places
    <2>5. DiskInv'
      <3>1. Disk # Absent /\ \E j \in 1 .. Len(prio) : kind = prio[j]
        BY <1>1 DEF IInv, DiskInv
      <3>2. \A i \in Count' : Loadable(segments[i])'
        BY <2>1 DEF Count, Loadable
      <3> QED
        BY <3>1, <3>2, <2>1, <2>2, <1>1, <1>3, <1>5 DEF DiskInv, Elf
    <2>6. PlaceInv'
      BY <2>2, <2>3, <1>1, <1>5 DEF PlaceInv, NoInitrd
    <2>7. BufferInv' /\ HalfInv' /\ DoneInv' /\ EntriesInv'
      BY <2>3, <1>1, <1>5 DEF BufferInv, DoneInv, EntriesInv, HalfInv
    <2>8. InitrdInv'
      BY <2>3, <1>1, <1>5 DEF InitrdInv, NoInitrd
    <2>9. ParamsInv'
      BY <2>2, <2>3, <1>1, <1>3, <1>5 DEF ParamsInv, NoSetup
    <2>10. BiosInv'
      BY <1>1, <1>2, <1>3, BiosStays DEF IInv
    <2> QED
      BY <2>4, <2>5, <2>6, <2>7, <2>8, <2>9, <2>10 DEF IInv
  <1>6. pc' \in {"initrd", "select"}
    BY DEF Headers, GiveUp
  <1> QED
    BY <1>4, <1>5, <1>6

LEMMA SetupLemma ==
  ASSUME IInv, Setup PROVE IInv'
PROOF
  <1>1. /\ pc = "setup"
        /\ UNCHANGED <<machine, left, kind, seg, unit, cursor, deferred, initrd, outcome>>
        /\ mem' = Read(0, << >>) \/ mem' = mem
    BY DEF Setup
  <1>2. \A r \in Runtime : mem'[r] = mem[r]
    BY <1>1, ReadBelow
  <1>3. UNCHANGED <<disks, prio, acpi, mode, params, slot, learned>>
    BY <1>1 DEF machine, outcome
  <1>4. CASE pc' = "select"
    BY <1>1, <1>2, <1>4, LeaveLemma
  <1>5. ASSUME pc' = "segment" PROVE IInv'
    <2>1. /\ segments' = << Resolved(Disk.segs[1]) >> /\ Loadable(segments'[1])
          /\ setup' = [first |-> kind, rest |-> kind]
      BY <1>5 DEF Setup, GiveUp
    <2>2. Disk' = Disk /\ (Elf' <=> Elf) /\ ~Elf /\ Known' /\ Disk.format = "bzimage"
      BY <1>1, <1>3, <1>5 DEF Disk, Elf, Known, IInv, DiskInv
    <2>3. seg = 1 /\ unit = 0 /\ cursor = 0 /\ deferred = << >> /\ initrd = NoInitrd
          /\ mode = "text"
      BY <1>1 DEF IInv, PlaceInv, ParamsInv
    <2>4. TypeInv'
      BY <1>1, <1>3, <1>5 DEF IInv, TypeInv, Places
    <2>5. IsDisk(Disk) /\ Disk # Absent
          /\ Disk.segs \in Seq([phys : Nat, virt : Nat, file : Nat, mem : Nat])
      BY <1>1, DiskFacts DEF IInv
    <2>6. Len(Disk.segs) = 1
      BY <2>2, <2>5 DEF IsDisk
    <2>7. segments' = [i \in 1 .. Len(Disk.segs) |-> Resolved(Disk.segs[i])]
      BY <2>1, <2>6
    <2>8. DiskInv'
      <3>1. Disk # Absent /\ \E j \in 1 .. Len(prio) : kind = prio[j]
        BY <1>1 DEF IInv, DiskInv
      <3>2. \A i \in Count' : Loadable(segments[i])'
        <4>1. Count' = {1}
          BY <2>1 DEF Count
        <4>2. Loadable(segments[1])'
          BY <2>1 DEF Loadable
        <4> QED
          BY <4>1, <4>2
      <3> QED
        BY <3>1, <3>2, <2>2, <2>7, <1>1, <1>3, <1>5 DEF DiskInv
    <2>9. PlaceInv'
      <3>1. seg' \in Count' /\ seg' = 1
        BY <2>1, <2>3, <1>1 DEF Count
      <3>2. unit' <= Current'.file
        <4>1. Current' = Resolved(Disk.segs[1])
          BY <3>1, <2>1 DEF Current
        <4>2. Disk.segs[1] \in [phys : Nat, virt : Nat, file : Nat, mem : Nat]
          <5>1. \A i \in 1 .. Len(Disk.segs) :
                  Disk.segs[i] \in [phys : Nat, virt : Nat, file : Nat, mem : Nat]
            BY <2>5, SeqElements
          <5>2. 1 \in 1 .. Len(Disk.segs)
            BY <2>6
          <5> QED
            BY <5>1, <5>2
        <4>3. Resolved(Disk.segs[1]) \in [at : Nat, file : Nat, mem : Nat]
          BY <4>2, ResolvedType
        <4>4. Resolved(Disk.segs[1]).file \in Nat
          BY <4>3
        <4> QED
          BY <4>1, <4>4, <2>3, <1>1
      <3> QED
        BY <3>1, <3>2, <2>2, <2>3, <1>1, <1>5 DEF PlaceInv, NoInitrd
    <2>10. BufferInv' /\ HalfInv' /\ DoneInv' /\ EntriesInv'
      BY <2>2, <2>3, <1>1, <1>5 DEF BufferInv, DoneInv, EntriesInv, HalfInv
    <2>11. InitrdInv'
      BY <2>3, <1>1, <1>5 DEF InitrdInv, NoInitrd
    <2>12. ParamsInv'
      BY <2>1, <2>2, <2>3, <1>1, <1>3, <1>5 DEF ParamsInv
    <2>13. BiosInv'
      BY <1>1, <1>2, <1>3, BiosStays DEF IInv
    <2> QED
      BY <2>4, <2>8, <2>9, <2>10, <2>11, <2>12, <2>13 DEF IInv
  <1>6. pc' \in {"segment", "select"}
    BY DEF Setup, GiveUp
  <1> QED
    BY <1>4, <1>5, <1>6

(* From the buffer to the jump nothing that was loaded is touched, but by  *)
(* the copying of what was kept aside.                                     *)
LEMMA QuietLemma ==
  ASSUME IInv, Known, UNCHANGED <<disks, kind, segments, seg, deferred, initrd, mem>>,
         pc # "read_initrd", pc' \in {"params", "video", "release", "apply", "kernel"},
         pc = "apply" => pc' = "kernel", pc # "kernel"
  PROVE  BufferInv' /\ DoneInv' /\ EntriesInv' /\ HalfInv' /\ InitrdInv'
PROOF
  <1>1. Known'
    BY DEF Known
  <1>2. \A u, x : Holds(u, x)' <=> Holds(u, x)
    BY DEF Holds
  <1>3. BufferInv' /\ HalfInv'
    BY DEF BufferInv, HalfInv
  <1>4. InitrdInv'
    BY <1>1, <1>2 DEF IInv, InitrdInv
  <1>5. \A e, i : Kept(e, i)' <=> Kept(e, i)
    BY <1>2, BufferStays DEF Kept, Keeps
  <1>6. \A i : InPlace(i)' <=> InPlace(i)
    BY <1>2 DEF InPlace
  <1>7. \A i : Copied(i)' <=> Copied(i)
    BY BufferStays DEF Copied
  <1>8. \A s : Defer(s)' <=> Defer(s)
    BY KernelStays
  <1>9. DoneInv'
    <2> SUFFICES ASSUME NEW i \in 1 .. seg - 1
                 PROVE  IF ~Defer(segments[i]) THEN InPlace(i)
                        ELSE \/ pc' \in {"apply", "kernel"} /\ Copied(i)
                             \/ \E k \in 1 .. Len(deferred) : Kept(deferred[k], i)
      BY <1>5, <1>6, <1>7, <1>8 DEF DoneInv
    <2> QED
      BY DEF IInv, DoneInv
  <1>10. EntriesInv'
    <2> SUFFICES ASSUME NEW k \in 1 .. Len(deferred)
                 PROVE  \E i \in Count : i < seg /\ Defer(segments[i]) /\ Kept(deferred[k], i)
      BY <1>5, <1>8 DEF EntriesInv, Count
    <2> QED
      BY DEF IInv, EntriesInv
  <1> QED
    BY <1>3, <1>4, <1>9, <1>10

LEMMA PrepareLemma ==
  ASSUME IInv, Prepare PROVE IInv'
PROOF
  <1>1. /\ pc = "params" /\ pc' = "video"
        /\ params' = [usable |-> Usable, initrd |-> initrd, screen |-> "text", setup |-> setup]
        /\ UNCHANGED <<machine, left, kind, loading, mem, mode, slot, learned>>
    BY DEF Prepare
  <1>2. UNCHANGED <<disks, prio, acpi, segments, seg, unit, cursor, deferred, initrd, setup>>
    BY <1>1 DEF machine, loading
  <1>3. Known /\ Known'
    BY <1>1 DEF Known
  <1>4. TypeInv'
    BY <1>1, <1>2 DEF IInv, TypeInv, Places
  <1>5. DiskInv'
    BY <1>1, <1>2, <1>3, KernelStays DEF IInv, DiskInv
  <1>6. PlaceInv'
    BY <1>1, <1>2, <1>3, KernelStays DEF IInv, PlaceInv, UsableEnd
  <1>7. BufferInv' /\ DoneInv' /\ EntriesInv' /\ HalfInv' /\ InitrdInv'
    BY <1>1, <1>2, <1>3, QuietLemma
  <1>8. ParamsInv'
    <2>1. setup = [first |-> setup.first, rest |-> IF Elf THEN "none" ELSE kind] /\ mode = "text"
      BY <1>1, <1>3 DEF IInv, ParamsInv
    <2>2. Usable' = Usable /\ (Elf' <=> Elf)
      BY <1>1, <1>2, KernelStays DEF Usable
    <2> QED
      BY <2>1, <2>2, <1>1, <1>2 DEF ParamsInv
  <1>9. BiosInv'
    BY <1>1, BiosStays DEF IInv
  <1> QED
    BY <1>4, <1>5, <1>6, <1>7, <1>8, <1>9 DEF IInv

LEMMA VideoLemma ==
  ASSUME IInv, Video PROVE IInv'
PROOF
  <1>1. /\ pc = "video" /\ pc' = "release"
        /\ \/ UNCHANGED <<mode, params>>
           \/ mode' = "lfb" /\ params' = [params EXCEPT !.screen = "lfb"]
        /\ UNCHANGED <<machine, left, kind, loading, mem, slot, learned>>
    BY DEF Video
  <1>2. UNCHANGED <<disks, prio, acpi, segments, seg, unit, cursor, deferred, initrd, setup>>
    BY <1>1 DEF machine, loading
  <1>3. Known /\ Known'
    BY <1>1 DEF Known
  <1>4. TypeInv'
    BY <1>1, <1>2 DEF IInv, TypeInv, Places
  <1>5. DiskInv'
    BY <1>1, <1>2, <1>3, KernelStays DEF IInv, DiskInv
  <1>6. PlaceInv'
    BY <1>1, <1>2, <1>3, KernelStays DEF IInv, PlaceInv, UsableEnd
  <1>7. BufferInv' /\ DoneInv' /\ EntriesInv' /\ HalfInv' /\ InitrdInv'
    BY <1>1, <1>2, <1>3, QuietLemma
  <1>8. ParamsInv'
    <2>1. /\ setup = [first |-> setup.first, rest |-> IF Elf THEN "none" ELSE kind]
          /\ params = [usable |-> Usable, initrd |-> initrd, screen |-> mode, setup |-> setup]
      BY <1>1, <1>3 DEF IInv, ParamsInv
    <2>2. Usable' = Usable /\ (Elf' <=> Elf)
      BY <1>1, <1>2, KernelStays DEF Usable
    <2>3. params' = [usable |-> Usable, initrd |-> initrd, screen |-> mode', setup |-> setup]
      BY <1>1, <2>1
    <2> QED
      BY <2>1, <2>2, <2>3, <1>1, <1>2 DEF ParamsInv
  <1>9. BiosInv'
    BY <1>1, BiosStays DEF IInv
  <1> QED
    BY <1>4, <1>5, <1>6, <1>7, <1>8, <1>9 DEF IInv

LEMMA ReleaseLemma ==
  ASSUME IInv, Release PROVE IInv'
PROOF
  <1>1. /\ pc = "release" /\ pc' = "apply"
        /\ UNCHANGED <<machine, left, kind, loading, mem, mode, params>>
    BY DEF Release
  <1>2. UNCHANGED <<disks, prio, acpi, segments, seg, unit, cursor, deferred, initrd, setup>>
    BY <1>1 DEF machine, loading
  <1>3. Known /\ Known'
    BY <1>1 DEF Known
  <1>4. TypeInv'
    BY <1>1, <1>2 DEF IInv, TypeInv, Places
  <1>5. DiskInv'
    BY <1>1, <1>2, <1>3, KernelStays DEF IInv, DiskInv
  <1>6. PlaceInv'
    BY <1>1, <1>2, <1>3, KernelStays DEF IInv, PlaceInv, UsableEnd
  <1>7. BufferInv' /\ DoneInv' /\ EntriesInv' /\ HalfInv' /\ InitrdInv'
    BY <1>1, <1>2, <1>3, QuietLemma
  <1>8. ParamsInv'
    <2>1. Usable' = Usable /\ (Elf' <=> Elf)
      BY <1>1, <1>2, KernelStays DEF Usable
    <2> QED
      BY <2>1, <1>1, <1>2, <1>3 DEF IInv, ParamsInv
  <1>9. BiosInv'
    BY <1>1 DEF BiosInv
  <1> QED
    BY <1>4, <1>5, <1>6, <1>7, <1>8, <1>9 DEF IInv

LEMMA JumpLemma ==
  ASSUME IInv, Jump PROVE IInv'
PROOF
  <1>1. /\ pc = "apply" /\ deferred = << >> /\ pc' = "kernel"
        /\ UNCHANGED <<machine, left, kind, loading, mem, outcome>>
    BY DEF Jump
  <1>2. UNCHANGED <<disks, prio, acpi, segments, seg, unit, cursor, deferred, initrd, setup,
                    mode, params>>
    BY <1>1 DEF machine, loading, outcome
  <1>3. Known /\ Known'
    BY <1>1 DEF Known
  <1>4. TypeInv'
    BY <1>1, <1>2 DEF IInv, TypeInv, Places
  <1>5. DiskInv'
    BY <1>1, <1>2, <1>3, KernelStays DEF IInv, DiskInv
  <1>6. PlaceInv'
    BY <1>1, <1>2, <1>3, KernelStays DEF IInv, PlaceInv, UsableEnd
  <1>7. BufferInv' /\ DoneInv' /\ EntriesInv' /\ HalfInv' /\ InitrdInv'
    BY <1>1, <1>2, <1>3, QuietLemma
  <1>8. ParamsInv'
    <2>1. Usable' = Usable /\ (Elf' <=> Elf)
      BY <1>1, <1>2, KernelStays DEF Usable
    <2> QED
      BY <2>1, <1>1, <1>2, <1>3 DEF IInv, ParamsInv
  <1>9. BiosInv'
    BY <1>1 DEF BiosInv
  <1> QED
    BY <1>4, <1>5, <1>6, <1>7, <1>8, <1>9 DEF IInv

LEMMA OneSegment ==
  ASSUME NEW s, NEW k, Len(s) = 1, k = 2 PROVE k = Len(s) + 1
PROOF
  <1> DEFINE n == Len(s)
  <1>1. n = 1
    OBVIOUS
  <1> HIDE DEF n
  <1>2. k = n + 1
    BY <1>1
  <1> QED
    BY <1>2 DEF n

LEMMA EarlyLemma ==
  ASSUME IInv, pc \in {"initrd", "read_initrd"}, pc' \in {"read_initrd", "buffer", "params"},
         UNCHANGED <<disks, kind, segments, seg, deferred>>, NEW W, Outside(W),
         \A i \in Count : \A u \in W : u \notin Units(segments[i].at, segments[i].mem)
  PROVE  BufferInv' /\ DoneInv' /\ EntriesInv' /\ HalfInv'
PROOF
  <1>1. Known /\ Known'
    BY DEF Known
  <1>2. deferred = << >> /\ seg = IF Elf THEN 1 ELSE 2
    BY DEF IInv, PlaceInv
  <1>3. BufferInv' /\ HalfInv' /\ EntriesInv'
    BY <1>2 DEF BufferInv, HalfInv, EntriesInv
  <1>4. Shaped /\ (~Elf => Len(segments) = 1)
    BY <1>1, ShapedLemma DEF IInv
  <1>5. DoneInv'
    <2>1. CASE Elf
      BY <2>1, <1>2 DEF DoneInv
    <2>2. CASE ~Elf
      <3>0. seg = 2 /\ Len(segments) = 1 /\ 1 .. 1 = {1}
        BY <2>2, <1>2, <1>4
      <3>1. Count = {1} /\ 1 .. seg - 1 = {1}
        BY <3>0 DEF Count
      <3>2. ~Defer(segments[1]) /\ ~Defer(segments[1])'
        BY <2>2, KernelStays DEF Defer
      <3>3. InPlace(1)
        BY <1>1, <3>1, <3>2 DEF IInv, DoneInv
      <3>4. InPlace(1)'
        BY <3>1, <3>3, <1>4, InPlaceStays
      <3>5. (1 .. seg - 1)' = {1}
        BY <3>1
      <3> QED
        BY <3>2, <3>4, <3>5 DEF DoneInv
    <2> QED
      BY <2>1, <2>2
  <1> QED
    BY <1>3, <1>5

LEMMA FindInitrdLemma ==
  ASSUME IInv, FindInitrd PROVE IInv'
PROOF
  <1> DEFINE base == UsableEnd - Disk.initrd
  <1>1. /\ pc = "initrd"
        /\ UNCHANGED <<machine, left, kind, segments, seg, cursor, deferred, outcome>>
        /\ mem' = Read(0, << >>) \/ mem' = mem
        /\ unit' = unit \/ unit' = 0
        /\ setup' = setup \/ setup' = [setup EXCEPT !.first = "mbr"]
        /\ \/ initrd' = initrd /\ Continue
           \/ /\ Disk.initrd \in 1 .. UsableEnd - 1 /\ Above(base)
              /\ initrd' = [base |-> base, size |-> Disk.initrd] /\ pc' = "read_initrd"
              /\ unit' = 0
    BY DEF FindInitrd
  <1>2. UNCHANGED <<disks, prio, acpi, mode, params, slot, learned>>
    BY <1>1 DEF machine, outcome
  <1>3. unit = 0 /\ initrd = NoInitrd /\ deferred = << >> /\ (seg = IF Elf THEN 1 ELSE 2)
    BY <1>1 DEF IInv, PlaceInv
  <1>4. pc' = "read_initrd" \/ pc' = IF Elf THEN "buffer" ELSE "params"
    BY <1>1 DEF Continue
  <1>5. Known /\ Known'
    BY <1>1, <1>4 DEF Known
  <1>6. Shaped /\ (~Elf => Len(segments) = 1) /\ Disk.initrd \in Nat
    BY <1>1, <1>5, ShapedLemma, DiskFacts DEF IInv
  <1>7. Outside({}) /\ \A r \in Runtime : mem'[r] = mem[r]
    <2>1. CASE mem' = Read(0, << >>)
      BY <2>1, <1>1, ReadBelow
    <2>2. CASE mem' = mem
      BY <2>2, <1>1 DEF Outside, Holds
    <2> QED
      BY <1>1, <2>1, <2>2
  <1>8. /\ initrd' \in [base : Nat, size : Nat] /\ unit' = 0
        /\ initrd'.size > 0 => /\ Above(initrd'.base) /\ initrd'.base + initrd'.size = UsableEnd
                               /\ initrd'.size = Disk.initrd /\ pc' = "read_initrd"
        /\ pc' = "read_initrd" => initrd'.size > 0
        /\ pc' # "read_initrd" => initrd'.size = 0
    <2>1. CASE initrd' = initrd /\ Continue
      <3>1. pc' # "read_initrd" /\ initrd'.size = 0
        BY <2>1, <1>3 DEF Continue, NoInitrd
      <3> QED
        BY <3>1, <2>1, <1>1, <1>3 DEF NoInitrd
    <2>2. CASE /\ Disk.initrd \in 1 .. UsableEnd - 1 /\ Above(base)
               /\ initrd' = [base |-> base, size |-> Disk.initrd] /\ pc' = "read_initrd"
               /\ unit' = 0
      <3>1. base \in Nat /\ base + Disk.initrd = UsableEnd /\ Disk.initrd > 0
        BY <2>2, Sizes
      <3> HIDE DEF base
      <3> QED
        BY <3>1, <2>2, <1>6
    <2> QED
      BY <1>1, <2>1, <2>2
  <1> HIDE DEF base
  <1>9. TypeInv'
    BY <1>1, <1>2, <1>4, <1>8 DEF IInv, TypeInv, Places
  <1>10. DiskInv'
    BY <1>1, <1>2, <1>4, <1>5, KernelStays DEF IInv, DiskInv
  <1>11. PlaceInv'
    <2>1. (Elf' <=> Elf) /\ Disk' = Disk
      BY <1>1, <1>2, KernelStays
    <2>2. Above(initrd.base)' <=> Above(initrd'.base)
      BY <1>1 DEF Above
    <2>3. ASSUME ~Elf PROVE seg' = Len(segments') + 1
      <3>1. Len(segments) = 1 /\ segments' = segments /\ seg' = seg
        BY <2>3, <1>1, <1>6
      <3>2. seg = 2
        BY <2>3, <1>3
      <3>3. Len(segments') = 1 /\ seg' = 2
        BY <3>1, <3>2
      <3> QED
        BY <3>3, OneSegment
    <2> QED
      BY <2>1, <2>2, <2>3, <1>1, <1>3, <1>4, <1>5, <1>8 DEF PlaceInv, UsableEnd
  <1>12. BufferInv' /\ DoneInv' /\ EntriesInv' /\ HalfInv'
    <2>1. pc' \in {"read_initrd", "buffer", "params"}
      BY <1>4
    <2> QED
      BY <2>1, <1>1, <1>2, <1>7, EarlyLemma
  <1>13. InitrdInv'
    <2>1. CASE pc' = "read_initrd"
      BY <2>1, <1>8 DEF InitrdInv
    <2>2. CASE pc' # "read_initrd"
      BY <2>2, <1>8 DEF InitrdInv
    <2> QED
      BY <2>1, <2>2
  <1>14. ParamsInv'
    <2>1. setup = [first |-> setup.first, rest |-> IF Elf THEN "none" ELSE kind] /\ mode = "text"
      BY <1>1, <1>5 DEF IInv, ParamsInv
    <2>2. setup' = [first |-> setup'.first, rest |-> IF Elf THEN "none" ELSE kind]
      BY <1>1, <2>1
    <2>3. Elf' <=> Elf
      BY <1>1, <1>2, KernelStays
    <2> QED
      BY <2>1, <2>2, <2>3, <1>1, <1>2, <1>4 DEF ParamsInv
  <1>15. BiosInv'
    BY <1>1, <1>2, <1>7, BiosStays DEF IInv
  <1> QED
    BY <1>9, <1>10, <1>11, <1>12, <1>13, <1>14, <1>15 DEF IInv

LEMMA ReachLemma ==
  ASSUME IInv, Known, OutOfReach, NEW r \in Runtime
  PROVE  /\ Elf /\ r \in Nat /\ Disk.initrd \in Nat
         /\ Cardinality(FileUnits(segments)) \in Nat
         /\ r < UsableEnd - Disk.initrd - Cardinality(FileUnits(segments))
PROOF
  <1>1. pc \notin {"select", "returned"}
    BY DEF Known
  <1>2. Disk # Absent /\ Disk.initrd \in Nat
    BY <1>1, DiskFacts DEF IInv
  <1>3. Disk.format \in {"elf", "bzimage"} /\ \E j \in 1 .. Len(prio) : kind = prio[j]
    BY <1>1 DEF IInv, DiskInv
  <1>4. Disk.format # "bzimage" /\ r < Lowest(Disk)
    BY <1>2, <1>3 DEF OutOfReach, Disk
  <1>5. /\ Len(segments) \in Nat /\ Len(segments) = Len(Disk.segs)
        /\ \A i \in Count : segments[i].file = Disk.segs[i].file
    BY ShapedLemma DEF IInv
  <1>6. FileUnits(segments) = FileUnits(Disk.segs)
    <2>1. \A p \in (1 .. Len(segments)) \X (1 .. Total) :
            segments[p[1]].file = Disk.segs[p[1]].file
      BY <1>5 DEF Count
    <2> QED
      BY <2>1, <1>5 DEF FileUnits
  <1>7. Cardinality(FileUnits(segments)) \in Nat
    BY <1>5, Files
  <1>8. r \in Nat
    BY Sizes
  <1> QED
    BY <1>2, <1>3, <1>4, <1>6, <1>7, <1>8 DEF Lowest, Elf

LEMMA ReadInitrdLemma ==
  ASSUME IInv, ReadInitrd PROVE IInv'
PROOF
  <1>1. /\ pc = "read_initrd"
        /\ UNCHANGED <<machine, left, kind, segments, seg, cursor, deferred, setup, outcome>>
        /\ \/ /\ mem' = Read(initrd.base + unit, <<kind, "initrd", 1, unit>>) /\ initrd' = initrd
              /\ \/ unit + 1 < initrd.size /\ unit' = unit + 1 /\ pc' = pc
                 \/ ~(unit + 1 < initrd.size) /\ unit' = 0 /\ Continue
           \/ initrd' = NoInitrd /\ unit' = 0 /\ Continue /\ mem' = mem
    BY DEF ReadInitrd
  <1>2. UNCHANGED <<disks, prio, acpi, mode, params, slot, learned>>
    BY <1>1 DEF machine, outcome
  <1>3. /\ unit \in Nat /\ initrd.base \in Nat /\ initrd.size \in Nat /\ unit < initrd.size
        /\ deferred = << >> /\ (seg = IF Elf THEN 1 ELSE 2)
    BY <1>1 DEF IInv, PlaceInv, TypeInv
  <1>4. pc' = "read_initrd" \/ pc' = IF Elf THEN "buffer" ELSE "params"
    BY <1>1 DEF Continue
  <1>5. Known /\ Known'
    BY <1>1, <1>4 DEF Known
  <1>6. Shaped /\ (~Elf => Len(segments) = 1) /\ Disk.initrd \in Nat
    BY <1>1, <1>5, ShapedLemma, DiskFacts DEF IInv
  <1>7. /\ initrd.size > 0 /\ Above(initrd.base) /\ initrd.base + initrd.size = UsableEnd
        /\ initrd.size = Disk.initrd /\ initrd.base >= 1
    <2>1. initrd.size > 0
      BY <1>3
    <2> QED
      BY <2>1, <1>5 DEF IInv, PlaceInv, Above
  <1>a. PICK n : n = unit
    OBVIOUS
  <1>b. PICK at : at = initrd.base + n
    OBVIOUS
  <1>c. PICK what : what = <<kind, "initrd", 1, n>>
    OBVIOUS
  <1> DEFINE W  == {at}
  <1>8. at \in 1 .. Total - 1 /\ at >= initrd.base
    BY <1>3, <1>7, <1>a, <1>b, Sizes
  <1>9. Outside(W)
    <2>1. CASE mem' = Read(at, what)
      BY <2>1, <1>1, ReadLemma DEF Outside
    <2>2. CASE mem' = mem
      BY <2>2, <1>1 DEF Outside, Holds
    <2> QED
      BY <1>1, <1>a, <1>b, <1>c, <2>1, <2>2
  <1>10. \A i \in Count : \A u \in W : u \notin Units(segments[i].at, segments[i].mem)
    <2> SUFFICES ASSUME NEW i \in Count, at \in Units(segments[i].at, segments[i].mem)
                 PROVE  FALSE
      OBVIOUS
    <2>1. at < initrd.base
      BY <1>3, <1>6, <1>7, AboveFacts
    <2> QED
      BY <2>1, <1>3, <1>8
  <1>11. OutOfReach => \A r \in Runtime : mem'[r] = mem[r]
    <2> SUFFICES ASSUME OutOfReach, NEW r \in Runtime PROVE mem'[r] = mem[r]
      OBVIOUS
    <2> DEFINE c == Cardinality(FileUnits(segments))
    <2>1. r \in Nat /\ c \in Nat /\ r < UsableEnd - Disk.initrd - c
      BY <1>5, ReachLemma
    <2> HIDE DEF c
    <2>2. r # at
      BY <2>1, <1>3, <1>7, <1>8, Sizes
    <2>3. CASE mem' = Read(at, what)
      BY <2>2, <2>3, <1>1, ReadLemma
    <2> QED
      BY <2>3, <1>1, <1>a, <1>b, <1>c
  <1> HIDE DEF W
  <1>12. /\ initrd' \in [base : Nat, size : Nat] /\ unit' \in Nat
         /\ initrd'.size > 0 => initrd' = initrd
         /\ pc' = "read_initrd" => initrd' = initrd /\ unit' < initrd'.size /\ unit' = unit + 1
         /\ pc' # "read_initrd" => unit' = 0
    <2>1. CASE initrd' = initrd
      BY <2>1, <1>1, <1>3 DEF Continue, IInv, TypeInv, NoInitrd
    <2>2. CASE initrd' = NoInitrd /\ unit' = 0 /\ Continue
      BY <2>2 DEF Continue, NoInitrd
    <2> QED
      BY <1>1, <2>1, <2>2
  <1>13. TypeInv'
    BY <1>1, <1>2, <1>4, <1>12 DEF IInv, TypeInv, Places
  <1>14. DiskInv'
    BY <1>1, <1>2, <1>4, <1>5, KernelStays DEF IInv, DiskInv
  <1>15. PlaceInv'
    <2>1. (Elf' <=> Elf) /\ Disk' = Disk
      BY <1>1, <1>2, KernelStays
    <2>2. initrd' = initrd => Above(initrd.base)'
      BY <1>1, <1>7 DEF Above
    <2>3. ASSUME ~Elf PROVE seg' = Len(segments') + 1
      <3>1. Len(segments) = 1 /\ segments' = segments /\ seg' = seg
        BY <2>3, <1>1, <1>6
      <3>2. seg = 2
        BY <2>3, <1>3
      <3>3. Len(segments') = 1 /\ seg' = 2
        BY <3>1, <3>2
      <3> QED
        BY <3>3, OneSegment
    <2> QED
      BY <2>1, <2>2, <2>3, <1>1, <1>3, <1>4, <1>5, <1>7, <1>12 DEF PlaceInv, UsableEnd
  <1>16. BufferInv' /\ DoneInv' /\ EntriesInv' /\ HalfInv'
    <2>1. pc' \in {"read_initrd", "buffer", "params"}
      BY <1>4
    <2> QED
      BY <2>1, <1>1, <1>2, <1>9, <1>10, EarlyLemma
  <1>17. InitrdInv'
    <2>1. CASE initrd' = NoInitrd /\ pc' # "read_initrd"
      BY <2>1 DEF InitrdInv, NoInitrd
    <2>2. CASE initrd' = initrd /\ mem' = Read(at, what)
      <3>1. \A v \in 0 .. n - 1 : Holds(initrd.base + v, <<kind, "initrd", 1, v>>)
        BY <1>1, <1>5, <1>a DEF IInv, InitrdInv
      <3>2. \A u \in W : u \notin Units(initrd.base, n)
        BY <1>3, <1>a, <1>b DEF W, Units
      <3>3. \A v \in 0 .. n - 1 : Holds(initrd.base + v, <<kind, "initrd", 1, v>>)'
        BY <3>1, <3>2, <1>1, <1>3, <1>7, <1>9, <1>a, <2>2, HoldStays
      <3>4. Holds(at, what)'
        BY <2>2, <1>1, <1>8, ReadLemma
      <3>5. \A v \in 0 .. n : Holds(initrd.base + v, <<kind, "initrd", 1, v>>)'
        <4> SUFFICES ASSUME NEW v \in 0 .. n
                     PROVE  Holds(initrd.base + v, <<kind, "initrd", 1, v>>)'
          OBVIOUS
        <4>1. CASE v = n
          <5>1. at = initrd'.base + v /\ what = <<kind', "initrd", 1, v>>
            BY <4>1, <2>2, <1>1, <1>b, <1>c
          <5> QED
            BY <5>1, <3>4 DEF Holds
        <4>2. CASE v # n
          BY <4>2, <3>3, <1>3, <1>a
        <4> QED
          BY <4>1, <4>2
      <3>6. (IF pc = "read_initrd" THEN unit ELSE initrd.size)' \in 0 .. n + 1
        <4>1. CASE pc' = "read_initrd"
          BY <4>1, <1>3, <1>12, <1>a
        <4>2. CASE pc' # "read_initrd"
          <5>1. ~(unit + 1 < initrd.size)
            BY <4>2, <2>2, <1>1, <1>7 DEF NoInitrd
          <5> QED
            BY <5>1, <4>2, <2>2, <1>3, <1>a
        <4> QED
          BY <4>1, <4>2
      <3>7. PICK m : m = (IF pc = "read_initrd" THEN unit ELSE initrd.size)'
        OBVIOUS
      <3>8. m \in 0 .. n + 1 /\ n \in Nat
        BY <3>6, <3>7, <1>3, <1>a
      <3>9. \A v \in 0 .. m - 1 : v \in 0 .. n
        BY <3>8
      <3>10. \A v \in 0 .. m - 1 : Holds(initrd.base + v, <<kind, "initrd", 1, v>>)'
        BY <3>5, <3>9
      <3> QED
        BY <3>7, <3>10 DEF InitrdInv
    <2> QED
      BY <2>1, <2>2, <1>1, <1>a, <1>b, <1>c DEF Continue
  <1>18. ParamsInv'
    <2>1. setup = [first |-> setup.first, rest |-> IF Elf THEN "none" ELSE kind] /\ mode = "text"
      BY <1>1, <1>5 DEF IInv, ParamsInv
    <2>2. Elf' <=> Elf
      BY <1>1, <1>2, KernelStays
    <2> QED
      BY <2>1, <2>2, <1>1, <1>2, <1>4 DEF ParamsInv
  <1>19. BiosInv'
    BY <1>1, <1>2, <1>11, BiosStays DEF IInv
  <1> QED
    BY <1>13, <1>14, <1>15, <1>16, <1>17, <1>18, <1>19 DEF IInv

LEMMA BufferLemma ==
  ASSUME IInv, Buffer PROVE IInv'
PROOF
  <1> DEFINE total == DeferTotal(segments)
  <1>1. /\ pc = "buffer"
        /\ UNCHANGED <<machine, left, kind, segments, seg, unit, deferred, initrd, setup,
                       mem, outcome>>
    BY DEF Buffer
  <1>2. \/ total = 0 /\ cursor' = 0 /\ segments = << >> /\ pc' = "params"
        \/ total = 0 /\ cursor' = 0 /\ segments # << >> /\ pc' = "segment"
        \/ total # 0 /\ pc' = "select" /\ cursor' = cursor
        \/ /\ total # 0 /\ total <= BufferLimit /\ Above(BufferLimit - total)
           /\ cursor' = BufferLimit - total /\ pc' = "segment"
    <2>1. CASE total = 0
      BY <2>1 DEF Buffer
    <2>2. CASE total # 0 /\ (total > BufferLimit \/ ~Above(BufferLimit - total))
      BY <2>2 DEF Buffer, GiveUp
    <2>3. CASE total # 0 /\ ~(total > BufferLimit) /\ Above(BufferLimit - total)
      <3>1. Known
        BY <1>1 DEF Known
      <3>2. BufferLimit \in Nat
        BY <3>1, LimitFacts DEF IInv
      <3>3. total \in Nat
        BY <3>1, ShapedLemma, TotalFacts DEF IInv
      <3>4. cursor' = BufferLimit - total /\ pc' = "segment"
        BY <2>3 DEF Buffer
      <3> HIDE DEF total
      <3> QED
        BY <2>3, <3>2, <3>3, <3>4
    <2> QED
      BY <2>1, <2>2, <2>3
  <1>3. UNCHANGED <<disks, prio, acpi, mode, params, slot, learned>>
    BY <1>1 DEF machine, outcome
  <1>4. Known /\ Elf /\ seg = 1 /\ unit = 0 /\ deferred = << >>
    BY <1>1 DEF Known, IInv, DiskInv, PlaceInv
  <1>5. Shaped /\ Len(segments) \in Nat
    BY <1>4, ShapedLemma DEF IInv
  <1>6. total \in Nat /\ BufferLimit \in Nat
    BY <1>4, <1>5, TotalFacts, LimitFacts DEF IInv
  <1>7. CASE pc' = "select"
    BY <1>1, <1>2, <1>7, LeaveLemma
  <1>8. ASSUME pc' \in {"params", "segment"} PROVE IInv'
    <2>1. cursor' \in Nat /\ Known' /\ (Elf' <=> Elf)
      <3>1. cursor' \in Nat
        <4> HIDE DEF total
        <4> QED
          BY <1>2, <1>6, <1>8
      <3> QED
        BY <3>1, <1>1, <1>3, <1>8, KernelStays DEF Known
    <2>2. segments = << >> => total = 0
      <3> SUFFICES ASSUME segments = << >> PROVE total = 0
        OBVIOUS
      <3>1. FileUnits(segments) = {}
        <4>1. 1 .. Len(segments) = {}
          OBVIOUS
        <4> QED
          BY <4>1 DEF FileUnits
      <3>2. {p \in FileUnits(segments) : Defer(segments[p[1]])} = {}
        BY <3>1
      <3> QED
        BY <3>2, FS_EmptySet DEF DeferTotal
    <2>3. TypeInv'
      BY <1>1, <1>3, <1>8, <2>1 DEF IInv, TypeInv, Places
    <2>4. DiskInv'
      BY <1>1, <1>3, <1>4, <1>8, <2>1, KernelStays DEF IInv, DiskInv
    <2>5. ASSUME pc' = "segment" PROVE seg' \in Count' /\ unit' <= Current'.file
      <3>1. segments # << >>
        BY <1>2, <2>2, <2>5
      <3>2. Len(segments) >= 1
        BY <3>1, <1>5, EmptySeq DEF Shaped
      <3>3. 1 \in Count
        BY <3>2, <1>5 DEF Count
      <3>4. segments[1].file \in Nat
        BY <3>3, <1>5, SegmentFacts
      <3>5. Current' = segments[1] /\ Count' = Count
        BY <1>1, <1>4 DEF Current, Count
      <3> QED
        BY <3>3, <3>4, <3>5, <1>1, <1>4
    <2>6. ASSUME pc' = "params" PROVE seg' = Len(segments') + 1
      <3>1. segments = << >>
        BY <1>2, <2>6
      <3> QED
        BY <3>1, <1>1, <1>4
    <2>7. PlaceInv'
      <3>1. /\ Disk' = Disk /\ (Above(initrd.base)' <=> Above(initrd.base))
        BY <1>1, <1>3, KernelStays DEF Above
      <3>2. /\ pc' = "segment" => seg' \in Count' /\ unit' <= Current'.file
            /\ pc' = "params" => seg' = Len(segments') + 1
        BY <2>5, <2>6
      <3> QED
        BY <3>1, <3>2, <1>1, <1>4, <1>8, <2>1 DEF IInv, PlaceInv, UsableEnd
    <2>8. BufferInv'
      <3> SUFFICES ASSUME pc' = "segment" PROVE BufferInv'
        BY <1>8 DEF BufferInv
      <3>1. /\ BufferLimit' = BufferLimit /\ DeferTotal(segments)' = total /\ Bottom' = Bottom
            /\ Cardinality(Pending(1))' = Cardinality(Pending(1))
        BY <1>1, <1>3, KernelStays, BufferStays
      <3>2. Cardinality(Pending(seg))' = total
        BY <3>1, <1>1, <1>4, <1>5, TotalFacts
      <3>3. Above(Bottom)' <=> Above(Bottom)
        BY <3>1, <1>1 DEF Above
      <3> HIDE DEF total
      <3>4. CASE total = 0
        <4>1. cursor' = 0
          BY <3>4, <1>2
        <4> QED
          BY <4>1, <3>1, <3>2, <3>4, <1>6 DEF BufferInv
      <3>5. CASE total # 0
        <4>1. total <= BufferLimit /\ Above(BufferLimit - total) /\ cursor' = BufferLimit - total
          BY <3>5, <1>2
        <4>2. Bottom = BufferLimit - total
          BY DEF Bottom, total
        <4> QED
          BY <4>1, <4>2, <3>1, <3>2, <3>3, <1>6 DEF BufferInv
      <3> QED
        BY <3>4, <3>5
    <2>9. DoneInv' /\ EntriesInv' /\ HalfInv'
      BY <1>1, <1>4 DEF DoneInv, EntriesInv, HalfInv
    <2>10. InitrdInv'
      <3>1. \A u, x : Holds(u, x)' <=> Holds(u, x)
        BY <1>1 DEF Holds
      <3> QED
        BY <3>1, <1>1, <1>4, <1>8 DEF IInv, InitrdInv
    <2>11. ParamsInv'
      BY <1>1, <1>3, <1>4, <1>8, <2>1 DEF IInv, ParamsInv
    <2>12. BiosInv'
      BY <1>1, <1>3, BiosStays DEF IInv
    <2> QED
      BY <2>3, <2>4, <2>7, <2>8, <2>9, <2>10, <2>11, <2>12 DEF IInv
  <1>9. pc' \in {"params", "segment", "select"}
    BY <1>2
  <1> QED
    BY <1>7, <1>8, <1>9

-----------------------------------------------------------------------------
(* The loading of a segment.  What it writes to, W, is nothing that was    *)
(* loaded before.                                                          *)
LEMMA LoadedStays ==
  ASSUME IInv, pc = "segment", UNCHANGED <<disks, kind, segments, initrd>>,
         NEW d, d = deferred, NEW W, Outside(W),
         \A i \in Count : i < seg =>
           \A u \in W : u \notin Units(segments[i].at, segments[i].mem),
         \A k \in 1 .. Len(d) : d[k].file > 0 => \A u \in W : u \notin Units(d[k].temp, d[k].file),
         \A u \in W : u \notin Units(initrd.base, initrd.size)
  PROVE  /\ \A i \in 1 .. seg - 1 :
              IF ~Defer(segments[i]) THEN InPlace(i)'
              ELSE \E k \in 1 .. Len(d) : Kept(d[k], i)'
         /\ \A k \in 1 .. Len(d) :
              \E i \in Count : i < seg /\ Defer(segments[i]) /\ Kept(d[k], i)'
         /\ \A v \in 0 .. initrd.size - 1 : Holds(initrd.base + v, <<kind, "initrd", 1, v>>)'
PROOF
  <1>1. Known /\ seg \in Count
    BY DEF Known, IInv, PlaceInv
  <1>2. Shaped /\ Len(segments) \in Nat /\ seg \in Nat
    BY <1>1, ShapedLemma DEF IInv, TypeInv
  <1>3. BufferLimit \in Nat /\ BufferLimit <= UsableEnd /\ initrd.base \in Nat /\ initrd.size \in Nat
        /\ (initrd.size > 0 => initrd.base >= 1 /\ initrd.base + initrd.size <= UsableEnd)
    BY <1>1, LimitFacts, Sizes DEF IInv, Above
  <1>4. \A i \in 1 .. seg - 1 : i \in Count /\ i < seg
    BY <1>1, <1>2 DEF Count
  <1>5. ASSUME NEW k \in 1 .. Len(d), NEW i, Kept(d[k], i) PROVE Kept(d[k], i)'
    <2>1. d \in Seq([temp : Nat, at : Nat, file : Nat, mem : Nat])
      BY DEF IInv, TypeInv
    <2>2. d[k] \in [temp : Nat, at : Nat, file : Nat, mem : Nat]
      BY <2>1, SeqElements
    <2>3. d[k].temp \in Nat /\ d[k].file \in Nat
      BY <2>2
    <2>4. Fits(d[k], i) /\ Keeps(d[k], i)
      BY <1>5 DEF Kept
    <2>5. Keeps(d[k], i)'
      BY <2>3, <2>4, <1>3, KeepsStays
    <2>6. Fits(d[k], i)'
      BY <2>4, BufferStays
    <2> QED
      BY <2>5, <2>6 DEF Kept
  <1>6. ASSUME NEW i \in 1 .. seg - 1
        PROVE  IF ~Defer(segments[i]) THEN InPlace(i)'
               ELSE \E k \in 1 .. Len(d) : Kept(d[k], i)'
    <2>1. CASE ~Defer(segments[i])
      <3>1. InPlace(i)
        BY <2>1, <1>1 DEF IInv, DoneInv
      <3> QED
        BY <2>1, <3>1, <1>2, <1>4, InPlaceStays
    <2>2. CASE Defer(segments[i])
      <3>1. \E k \in 1 .. Len(d) : Kept(d[k], i)
        BY <2>2, <1>1 DEF IInv, DoneInv
      <3> QED
        BY <2>2, <3>1, <1>5
    <2> QED
      BY <2>1, <2>2
  <1>7. ASSUME NEW k \in 1 .. Len(d)
        PROVE  \E i \in Count : i < seg /\ Defer(segments[i]) /\ Kept(d[k], i)'
    <2>1. \E i \in Count : i < seg /\ Defer(segments[i]) /\ Kept(d[k], i)
      BY <1>1 DEF IInv, EntriesInv
    <2> QED
      BY <2>1, <1>5
  <1>8. \A v \in 0 .. initrd.size - 1 : Holds(initrd.base + v, <<kind, "initrd", 1, v>>)'
    <2>1. PICK n : n = initrd.size
      OBVIOUS
    <2>2. \A v \in 0 .. n - 1 : Holds(initrd.base + v, <<kind, "initrd", 1, v>>)
      BY <2>1, <1>1 DEF IInv, InitrdInv
    <2>3. \A v \in 0 .. n - 1 : Holds(initrd.base + v, <<kind, "initrd", 1, v>>)'
      BY <2>1, <2>2, <1>3, HoldStays
    <2> QED
      BY <2>1, <2>3
  <1> QED
    BY <1>6, <1>7, <1>8

(* Where the chunk of a segment that is read next goes.                    *)
LEMMA TargetLemma ==
  ASSUME IInv, pc = "segment", NEW n \in Nat, n < Current.file, NEW a, a = Target + n
  PROVE  /\ a \in 1 .. Total - 1 /\ Target \in Nat
         /\ \A i \in Count : i # seg \/ Defer(Current) =>
              a \notin Units(segments[i].at, segments[i].mem)
         /\ \A k \in 1 .. Len(deferred) : deferred[k].file > 0 =>
              a \notin Units(deferred[k].temp, deferred[k].file)
         /\ a \notin Units(initrd.base, initrd.size)
         /\ OutOfReach => a \notin Runtime
PROOF
  <1>1. Known /\ seg \in Count
    BY DEF Known, IInv, PlaceInv
  <1>2. Shaped /\ Len(segments) \in Nat /\ seg \in Nat /\ cursor \in Nat
    BY <1>1, ShapedLemma DEF IInv, TypeInv
  <1>3. /\ BufferLimit \in Nat /\ BufferLimit + initrd.size = UsableEnd
        /\ initrd.base \in Nat /\ initrd.size \in Nat
        /\ initrd.size > 0 => initrd.base = BufferLimit /\ Above(initrd.base)
    BY <1>1, LimitFacts DEF IInv
  <1>4. /\ Current.at \in Nat /\ Current.file \in Nat /\ Current.mem \in Nat
        /\ Current.at >= 1 /\ Current.file <= Current.mem /\ Current.at + Current.mem <= UsableEnd
    BY <1>1, <1>2, SegmentFacts DEF Current, Shaped
  <1>5. \A k \in 1 .. Len(deferred) :
          /\ deferred[k].temp \in Nat /\ deferred[k].file \in Nat
          /\ deferred[k].file > 0 =>
               Above(deferred[k].temp) /\ deferred[k].temp + deferred[k].file <= cursor
    <2> SUFFICES ASSUME NEW k \in 1 .. Len(deferred)
                 PROVE  /\ deferred[k].temp \in Nat /\ deferred[k].file \in Nat
                        /\ deferred[k].file > 0 =>
                             Above(deferred[k].temp) /\ deferred[k].temp + deferred[k].file <= cursor
      OBVIOUS
    <2>1. deferred \in Seq([temp : Nat, at : Nat, file : Nat, mem : Nat])
      BY DEF IInv, TypeInv
    <2>2. deferred[k] \in [temp : Nat, at : Nat, file : Nat, mem : Nat]
      BY <2>1, SeqElements
    <2>3. PICK i \in Count : Kept(deferred[k], i)
      BY <1>1 DEF IInv, EntriesInv
    <2>4. deferred[k].file > 0 => Above(deferred[k].temp)
      BY <2>3 DEF Kept, Fits
    <2>5. deferred[k].file > 0 => deferred[k].temp + deferred[k].file <= cursor
      BY <1>1 DEF IInv, EntriesInv
    <2> QED
      BY <2>2, <2>4, <2>5
  <1>6. CASE ~Defer(Current)
    <2>1. a = Current.at + n /\ Target \in Nat /\ a \in Nat
      BY <1>4, <1>6 DEF Target
    <2>2. a \in Units(Current.at, Current.mem) /\ a \in 1 .. Total - 1
      BY <2>1, <1>4, Sizes DEF Units
    <2>3. \A i \in Count : i # seg => a \notin Units(segments[i].at, segments[i].mem)
      BY <2>2, <1>1, <1>2 DEF Shaped, Current
    <2>4. ASSUME NEW b \in Nat, Above(b) PROVE a < b
      BY <2>2, <2>4, <1>1, <1>2, AboveFacts DEF Current
    <2>5. \A k \in 1 .. Len(deferred) : deferred[k].file > 0 =>
              a \notin Units(deferred[k].temp, deferred[k].file)
      <3> SUFFICES ASSUME NEW k \in 1 .. Len(deferred), deferred[k].file > 0
                   PROVE  a \notin Units(deferred[k].temp, deferred[k].file)
        OBVIOUS
      <3>1. a < deferred[k].temp /\ deferred[k].temp \in Nat /\ deferred[k].file \in Nat
        BY <2>4, <1>5
      <3> QED
        BY <3>1, <2>1 DEF Units
    <2>6. a \notin Units(initrd.base, initrd.size)
      <3>1. CASE initrd.size > 0
        <4>1. a < initrd.base
          BY <3>1, <2>4, <1>3
        <4> QED
          BY <4>1, <2>1, <1>3 DEF Units
      <3>2. CASE ~(initrd.size > 0)
        BY <3>2, <2>1, <1>3 DEF Units
      <3> QED
        BY <3>1, <3>2
    <2>7. ASSUME OutOfReach, a \in Runtime PROVE FALSE
      <3>1. Elf
        BY <2>7, <1>1, ReachLemma
      <3>2. Units(Current.at, Current.mem) \cap Runtime = {}
        BY <3>1, <1>6 DEF Defer
      <3> QED
        BY <2>2, <2>7, <3>2
    <2> QED
      BY <1>6, <2>1, <2>2, <2>3, <2>5, <2>6, <2>7
  <1>7. CASE Defer(Current)
    <2> DEFINE total == DeferTotal(segments)
               here  == Cardinality(Pending(seg))
               later == Cardinality(Pending(seg + 1))
               all   == Cardinality(FileUnits(segments))
    <2>1. a = cursor + n /\ Target \in Nat /\ a \in Nat /\ Elf
      BY <1>2, <1>7 DEF Target, Defer
    <2>2. /\ total \in Nat /\ here \in Nat /\ later \in Nat /\ all \in Nat
          /\ total <= all /\ here <= total
      <3>1. all \in Nat
        BY <1>2, Files
      <3> QED
        BY <3>1, <1>2, TotalFacts
    <2>3. here = later + Current.file
      BY <1>1, <1>2, <1>7, PendingSplit DEF Current
    <2>4. cursor + here <= BufferLimit /\ (total > 0 => Above(Bottom) /\ Bottom <= cursor)
      BY <2>1 DEF IInv, BufferInv
    <2>5. Bottom = BufferLimit - total
      BY DEF Bottom
    <2> HIDE DEF total, here, later, all
    <2>6. total > 0 /\ Above(Bottom) /\ Bottom <= cursor /\ Bottom \in Int
      BY <2>2, <2>3, <2>4, <2>5, <1>3, <1>4
    <2>7. a < BufferLimit /\ a >= cursor
      BY <2>1, <2>2, <2>3, <2>4, <1>2, <1>3, <1>4
    <2>8. Bottom >= 1
      BY <2>6 DEF Above
    <2>9. a \in 1 .. Total - 1
      BY <2>1, <2>6, <2>7, <2>8, <1>2, <1>3, Sizes
    <2>10. \A i \in Count : a \notin Units(segments[i].at, segments[i].mem)
      <3> SUFFICES ASSUME NEW i \in Count, a \in Units(segments[i].at, segments[i].mem)
                   PROVE  FALSE
        OBVIOUS
      <3>1. a < Bottom
        BY <2>6, <2>8, <1>2, AboveFacts
      <3> QED
        BY <3>1, <2>1, <2>6, <2>7, <1>2
    <2>11. \A k \in 1 .. Len(deferred) : deferred[k].file > 0 =>
              a \notin Units(deferred[k].temp, deferred[k].file)
      <3> SUFFICES ASSUME NEW k \in 1 .. Len(deferred), deferred[k].file > 0
                   PROVE  a \notin Units(deferred[k].temp, deferred[k].file)
        OBVIOUS
      <3>1. /\ deferred[k].temp \in Nat /\ deferred[k].file \in Nat
            /\ deferred[k].temp + deferred[k].file <= cursor
        BY <1>5
      <3> QED
        BY <3>1, <2>1, <2>7, <1>2 DEF Units
    <2>12. a \notin Units(initrd.base, initrd.size)
      <3>1. CASE initrd.size > 0
        BY <3>1, <2>1, <2>7, <1>3 DEF Units
      <3>2. CASE ~(initrd.size > 0)
        BY <3>2, <2>1, <1>3 DEF Units
      <3> QED
        BY <3>1, <3>2
    <2>13. ASSUME OutOfReach, a \in Runtime PROVE FALSE
      <3>1. Disk.initrd \in Nat /\ a < UsableEnd - Disk.initrd - all
        BY <2>13, <1>1, ReachLemma DEF all
      <3>2. initrd.size = 0 \/ initrd.size = Disk.initrd
        BY <1>1, <1>3 DEF IInv, PlaceInv
      <3>3. initrd.size <= Disk.initrd
        BY <3>1, <3>2
      <3>4. PICK e \in Nat : e = Disk.initrd
        BY <3>1
      <3>5. a < UsableEnd - e - all /\ initrd.size <= e
        BY <3>1, <3>3, <3>4
      <3> QED
        BY <3>5, <2>1, <2>2, <2>5, <2>6, <2>7, <1>2, <1>3, Sizes
    <2> QED
      BY <2>1, <2>9, <2>10, <2>11, <2>12, <2>13
  <1> QED
    BY <1>6, <1>7

LEMMA ReadSegmentLemma ==
  ASSUME IInv, ReadSegment PROVE IInv'
PROOF
  <1>1. /\ pc = "segment" /\ unit < Current.file
        /\ UNCHANGED <<machine, left, kind, segments, seg, cursor, deferred, initrd, setup, outcome>>
        /\ \/ /\ mem' = Read(Target + unit, <<kind, "kernel", seg, unit>>)
              /\ unit' = unit + 1 /\ pc' = pc
           \/ pc' = "select" /\ unit' = unit /\ mem' = mem
    BY DEF ReadSegment, Target, GiveUp
  <1>2. UNCHANGED <<disks, prio, acpi, mode, params, slot, learned>>
    BY <1>1 DEF machine, outcome
  <1>3. Known /\ seg \in Count /\ unit \in Nat
    BY <1>1 DEF Known, IInv, PlaceInv, TypeInv
  <1>4. CASE pc' = "select"
    <2>1. mem' = mem /\ unit' = unit
      BY <1>1, <1>4
    <2> QED
      BY <2>1, <1>1, <1>4, LeaveLemma
  <1>5. ASSUME pc' # "select" PROVE IInv'
    <2>1. /\ mem' = Read(Target + unit, <<kind, "kernel", seg, unit>>)
          /\ unit' = unit + 1 /\ pc' = "segment"
      BY <1>1, <1>5
    <2>2. PICK n \in Nat : n = unit
      BY <1>3
    <2>3. PICK t : t = Target
      OBVIOUS
    <2>4. PICK a : a = t + n
      OBVIOUS
    <2>5. PICK what : what = <<kind, "kernel", seg, n>>
      OBVIOUS
    <2>6. PICK d : d = deferred
      OBVIOUS
    <2> DEFINE W == {a}
    <2>7. mem' = Read(a, what)
      BY <2>1, <2>2, <2>3, <2>4, <2>5
    <2>8. /\ a \in 1 .. Total - 1 /\ t \in Nat
          /\ \A i \in Count : i # seg \/ Defer(Current) =>
               a \notin Units(segments[i].at, segments[i].mem)
          /\ \A k \in 1 .. Len(deferred) : deferred[k].file > 0 =>
               a \notin Units(deferred[k].temp, deferred[k].file)
          /\ a \notin Units(initrd.base, initrd.size)
          /\ OutOfReach => a \notin Runtime
      BY <1>1, <2>2, <2>3, <2>4, TargetLemma
    <2>9. Outside(W) /\ Holds(a, what)'
      BY <2>7, <2>8, <1>1, ReadLemma DEF Outside
    <2>10. /\ \A i \in 1 .. seg - 1 :
                IF ~Defer(segments[i]) THEN InPlace(i)'
                ELSE \E k \in 1 .. Len(d) : Kept(d[k], i)'
           /\ \A k \in 1 .. Len(d) :
                \E i \in Count : i < seg /\ Defer(segments[i]) /\ Kept(d[k], i)'
           /\ \A v \in 0 .. initrd.size - 1 : Holds(initrd.base + v, <<kind, "initrd", 1, v>>)'
      <3>1. \A i \in Count : i < seg =>
              \A u \in W : u \notin Units(segments[i].at, segments[i].mem)
        <4>1. \A i \in Count : i < seg => i # seg
          BY <1>3 DEF Count
        <4> QED
          BY <4>1, <2>8
      <3>2. \A k \in 1 .. Len(d) : d[k].file > 0 =>
              \A u \in W : u \notin Units(d[k].temp, d[k].file)
        BY <2>6, <2>8
      <3>3. \A u \in W : u \notin Units(initrd.base, initrd.size)
        BY <2>8
      <3> HIDE DEF W
      <3> QED
        BY <3>1, <3>2, <3>3, <2>6, <2>9, <1>1, <1>2, LoadedStays
    <2>11. Known' /\ (Elf' <=> Elf) /\ Current' = Current
      BY <1>1, <1>2, <2>1, KernelStays DEF Known, Current
    <2>12. \A s : Defer(s)' <=> Defer(s)
      BY <1>1, <1>2, KernelStays
    <2>13. TypeInv'
      BY <1>1, <1>2, <1>3, <2>1 DEF IInv, TypeInv, Places
    <2>14. DiskInv'
      BY <1>1, <1>2, <1>3, <2>1, <2>11, KernelStays DEF IInv, DiskInv
    <2>15. PlaceInv'
      <3>1. Disk' = Disk /\ Count' = Count /\ (Above(initrd.base)' <=> Above(initrd.base))
        BY <1>1, <1>2, KernelStays DEF Above
      <3>2. Current.file \in Nat
        BY <1>3, ShapedLemma, SegmentFacts DEF IInv, Current
      <3>3. unit' <= Current.file
        BY <3>2, <2>1, <1>1, <1>3
      <3> QED
        BY <3>1, <3>3, <1>1, <1>3, <2>1, <2>11 DEF IInv, PlaceInv, UsableEnd
    <2>16. BufferInv'
      <3>1. /\ BufferLimit' = BufferLimit /\ Bottom' = Bottom
            /\ DeferTotal(segments)' = DeferTotal(segments)
        BY <1>1, <1>2, KernelStays, BufferStays
      <3>2. Pending(seg)' = Pending(seg)
        BY <1>1, <2>12 DEF Pending, FileUnits
      <3>3. Above(Bottom)' <=> Above(Bottom)
        BY <3>1, <1>1 DEF Above
      <3> QED
        BY <3>1, <3>2, <3>3, <1>1, <2>11 DEF IInv, BufferInv
    <2>17. DoneInv'
      <3> SUFFICES ASSUME NEW i \in (1 .. seg - 1)'
                   PROVE  IF ~Defer(segments[i])' THEN InPlace(i)'
                          ELSE \E k \in 1 .. Len(deferred') : Kept(deferred[k], i)'
        BY DEF DoneInv
      <3>1. i \in 1 .. seg - 1 /\ (Defer(segments[i])' <=> Defer(segments[i])) /\ deferred' = d
        BY <1>1, <2>6, <2>12
      <3> QED
        BY <3>1, <2>10
    <2>18. EntriesInv'
      <3> SUFFICES ASSUME NEW k \in (1 .. Len(deferred))'
                   PROVE  /\ \E i \in Count' : i < seg' /\ Defer(segments[i])' /\ Kept(deferred[k], i)'
                          /\ deferred'[k].file > 0 =>
                               deferred'[k].temp + deferred'[k].file <= cursor'
        BY DEF EntriesInv
      <3>1. k \in 1 .. Len(d) /\ deferred' = d /\ cursor' = cursor
        BY <1>1, <2>6
      <3>2. \E i \in Count : i < seg /\ Defer(segments[i]) /\ Kept(d[k], i)'
        BY <3>1, <2>10
      <3>3. PICK i \in Count : i < seg /\ Defer(segments[i]) /\ Kept(d[k], i)'
        BY <3>2
      <3>4. i \in Count' /\ i < seg' /\ Defer(segments[i])' /\ Kept(deferred[k], i)'
        BY <3>1, <3>3, <2>12, <1>1 DEF Count
      <3>5. d[k].file > 0 => d[k].temp + d[k].file <= cursor
        BY <3>1, <2>6, <1>1, <1>3 DEF IInv, EntriesInv
      <3> QED
        BY <3>1, <3>4, <3>5
    <2>19. HalfInv'
      <3>1. Target' = t
        BY <2>3, <2>11, <2>12, <1>1 DEF Target, Current
      <3>2. \A v \in 0 .. n : Holds(t + v, <<kind, "kernel", seg, v>>)'
        <4> SUFFICES ASSUME NEW v \in 0 .. n
                     PROVE  Holds(t + v, <<kind, "kernel", seg, v>>)'
          OBVIOUS
        <4>1. CASE v = n
          BY <4>1, <2>4, <2>5, <2>9, <1>1 DEF Holds
        <4>2. CASE v # n
          <5>1. v \in 0 .. n - 1 /\ v \in Nat
            BY <4>2
          <5>2. Current.file \in Nat
            BY <1>3, ShapedLemma, SegmentFacts DEF IInv, Current
          <5>3. v < Current.file
            BY <5>1, <5>2, <2>2, <1>1
          <5>4. t + v \in 1 .. Total - 1
            <6>1. PICK b : b = t + v
              OBVIOUS
            <6>2. b \in 1 .. Total - 1
              BY <6>1, <5>1, <5>3, <2>3, <1>1, TargetLemma
            <6> QED
              BY <6>1, <6>2
          <5>5. t + v # a
            BY <4>2, <2>4, <2>8
          <5>6. Holds(t + v, <<kind, "kernel", seg, v>>)
            BY <5>1, <2>2, <2>3, <1>1 DEF IInv, HalfInv
          <5>7. PICK w : w = <<kind, "kernel", seg, v>>
            OBVIOUS
          <5>8. Holds(t + v, w)'
            BY <5>4, <5>5, <5>6, <5>7, <2>9 DEF Outside
          <5> QED
            BY <5>7, <5>8, <1>1 DEF Holds
        <4> QED
          BY <4>1, <4>2
      <3>3. (0 .. unit - 1)' = 0 .. n
        BY <2>1, <2>2
      <3> QED
        BY <3>1, <3>2, <3>3 DEF HalfInv
    <2>20. InitrdInv'
      BY <2>1, <2>10, <1>1 DEF InitrdInv
    <2>21. ParamsInv'
      BY <1>1, <1>2, <1>3, <2>1, <2>11 DEF IInv, ParamsInv
    <2>22. BiosInv'
      <3>1. OutOfReach => \A r \in Runtime : mem'[r] = mem[r]
        BY <2>7, <2>8, <1>1, ReadLemma
      <3> QED
        BY <3>1, <1>1, <1>2, BiosStays DEF IInv
    <2> QED
      BY <2>13, <2>14, <2>15, <2>16, <2>17, <2>18, <2>19, <2>20, <2>21, <2>22 DEF IInv
  <1> QED
    BY <1>4, <1>5

(* The end of a segment that is kept aside: nothing is written.            *)
LEMMA AsideLemma ==
  ASSUME IInv, EndSegment, Defer(Current)
  PROVE  /\ BufferInv' /\ DoneInv' /\ EntriesInv' /\ mem' = mem
         /\ deferred' \in Seq([temp : Nat, at : Nat, file : Nat, mem : Nat]) /\ cursor' \in Nat
PROOF
  <1>1. /\ pc = "segment" /\ unit = Current.file /\ mem' = mem
        /\ deferred' = Append(deferred, [temp |-> cursor, at |-> Current.at,
                                         file |-> Current.file, mem |-> Current.mem])
        /\ cursor' = cursor + Current.file /\ seg' = seg + 1
        /\ UNCHANGED <<disks, kind, segments, initrd>>
    BY DEF EndSegment, machine
  <1>2. Known /\ seg \in Count
    BY <1>1 DEF Known, IInv, PlaceInv
  <1>3. Shaped /\ Len(segments) \in Nat /\ seg \in Nat /\ cursor \in Nat
    BY <1>2, ShapedLemma DEF IInv, TypeInv
  <1>4. /\ Current.at \in Nat /\ Current.file \in Nat /\ Current.mem \in Nat
    BY <1>2, <1>3, SegmentFacts DEF Current
  <1>5. PICK d : d = deferred
    OBVIOUS
  <1>6. PICK e : e = [temp |-> cursor, at |-> Current.at,
                      file |-> Current.file, mem |-> Current.mem]
    OBVIOUS
  <1>7. PICK n : n = seg
    OBVIOUS
  <1>8. /\ e.temp = cursor /\ e.at = segments[n].at /\ e.file = segments[n].file
        /\ e.mem = segments[n].mem /\ e.file = Current.file
        /\ e \in [temp : Nat, at : Nat, file : Nat, mem : Nat]
    BY <1>3, <1>4, <1>6, <1>7 DEF Current
  <1>9. d \in Seq([temp : Nat, at : Nat, file : Nat, mem : Nat])
    BY <1>5 DEF IInv, TypeInv
  <1>10. /\ deferred' = Append(d, e) /\ Len(d) \in Nat /\ Len(deferred') = Len(d) + 1
         /\ \A k \in 1 .. Len(d) : deferred'[k] = d[k]
         /\ deferred'[Len(d) + 1] = e
         /\ deferred' \in Seq([temp : Nat, at : Nat, file : Nat, mem : Nat])
    <2>1. deferred' = Append(d, e)
      BY <1>1, <1>5, <1>6
    <2> QED
      BY <2>1, <1>8, <1>9, AppendProperties, LenProperties
  <1> DEFINE total == DeferTotal(segments)
             here  == Cardinality(Pending(seg))
             later == Cardinality(Pending(seg + 1))
  <1>11. total \in Nat /\ here \in Nat /\ later \in Nat /\ here <= total
    BY <1>3, TotalFacts
  <1>12. here = later + Current.file
    BY <1>2, <1>3, PendingSplit DEF Current
  <1>13. cursor + here <= BufferLimit /\ (total > 0 => Above(Bottom) /\ Bottom <= cursor)
    BY <1>1 DEF IInv, BufferInv, Defer
  <1>14. BufferLimit \in Nat /\ Bottom = BufferLimit - total
    BY <1>2, LimitFacts DEF IInv, Bottom
  <1>15. \A b : Above(b)' <=> Above(b)
    BY <1>1, KernelStays
  <1>16. BufferLimit' = BufferLimit /\ Bottom' = Bottom /\ DeferTotal(segments)' = total
    BY <1>1, KernelStays, BufferStays
  <1>17. \A s : Defer(s)' <=> Defer(s)
    BY <1>1, KernelStays
  <1>18. BufferInv'
    <2>1. Pending(seg)' = Pending(seg + 1)
      BY <1>1, <1>17 DEF Pending, FileUnits
    <2>2. Cardinality(Pending(seg))' = later
      BY <2>1
    <2>3. Above(Bottom)' <=> Above(Bottom)
      BY <1>1, <1>16 DEF Above
    <2> HIDE DEF total, here, later
    <2>4. cursor' + later <= BufferLimit
      BY <1>1, <1>3, <1>4, <1>11, <1>12, <1>13, <1>14
    <2>5. total > 0 => Bottom <= cursor'
      BY <1>1, <1>3, <1>4, <1>11, <1>13, <1>14
    <2> QED
      BY <2>2, <2>3, <2>4, <2>5, <1>13, <1>16 DEF BufferInv
  <1>19. Fits(e, n)
    <2> SUFFICES ASSUME e.file > 0
                 PROVE  Above(e.temp) /\ Bottom <= e.temp /\ e.temp + e.file <= BufferLimit
      BY <1>8 DEF Fits
    <2> HIDE DEF total, here, later
    <2>1. total > 0 /\ Current.file > 0
      BY <1>4, <1>8, <1>11, <1>12
    <2>2. Above(Bottom) /\ Bottom <= cursor /\ Bottom \in Int
      BY <2>1, <1>11, <1>13, <1>14
    <2>3. cursor + Current.file <= BufferLimit
      BY <1>3, <1>4, <1>11, <1>12, <1>13, <1>14
    <2>4. Above(cursor)
      <3>1. \A i \in 1 .. Len(segments) : segments[i].at \in Nat /\ segments[i].mem \in Nat
        BY <1>3, SegmentFacts DEF Count
      <3> QED
        BY <3>1, <2>2, <1>3 DEF Above
    <2> QED
      BY <2>2, <2>3, <2>4, <1>8
  <1>20. Kept(e, n)'
    <2>1. Fits(e, n)'
      BY <1>1, <1>19, BufferStays
    <2>2. Keeps(e, n)
      <3>1. Target = cursor
        BY DEF Target
      <3>2. \A v \in 0 .. unit - 1 : Holds(Target + v, <<kind, "kernel", seg, v>>)
        BY <1>1 DEF IInv, HalfInv
      <3> QED
        BY <3>1, <3>2, <1>1, <1>7, <1>8 DEF Keeps
    <2>3. Keeps(e, n)'
      BY <2>2, <1>1 DEF Keeps, Holds
    <2> QED
      BY <2>1, <2>3 DEF Kept
  <1>21. /\ \A i \in 1 .. seg - 1 :
              IF ~Defer(segments[i]) THEN InPlace(i)'
              ELSE \E k \in 1 .. Len(d) : Kept(d[k], i)'
         /\ \A k \in 1 .. Len(d) :
              \E i \in Count : i < seg /\ Defer(segments[i]) /\ Kept(d[k], i)'
    <2>1. Outside({})
      BY <1>1 DEF Outside, Holds
    <2> QED
      BY <2>1, <1>1, <1>5, LoadedStays
  <1> HIDE DEF total, here, later
  <1>22. DoneInv'
    <2> SUFFICES ASSUME NEW i \in (1 .. seg - 1)'
                 PROVE  IF ~Defer(segments[i])' THEN InPlace(i)'
                        ELSE \E k \in 1 .. Len(deferred') : Kept(deferred[k], i)'
      BY DEF DoneInv
    <2>1. i \in 1 .. seg /\ (Defer(segments[i])' <=> Defer(segments[i]))
      BY <1>1, <1>3, <1>17
    <2>2. CASE i = n
      <3>1. Len(d) + 1 \in 1 .. Len(deferred') /\ deferred'[Len(d) + 1] = e
        BY <1>10
      <3>2. PICK k \in 1 .. Len(deferred') : deferred'[k] = e
        BY <3>1
      <3>3. Kept(deferred[k], i)'
        BY <2>2, <3>2, <1>20
      <3>4. Defer(segments[i])
        BY <2>2, <1>7 DEF Current
      <3> QED
        BY <2>1, <3>3, <3>4
    <2>3. CASE i # n
      <3>1. i \in 1 .. seg - 1
        BY <2>1, <2>3, <1>3, <1>7
      <3>2. ASSUME NEW k \in 1 .. Len(d), Kept(d[k], i)'
            PROVE  \E m \in 1 .. Len(deferred') : Kept(deferred[m], i)'
        <4>1. k \in 1 .. Len(deferred') /\ deferred'[k] = d[k]
          BY <1>10
        <4> QED
          BY <4>1, <3>2
      <3> QED
        BY <2>1, <3>1, <3>2, <1>21
    <2> QED
      BY <2>2, <2>3
  <1>23. EntriesInv'
    <2> SUFFICES ASSUME NEW k \in (1 .. Len(deferred))'
                 PROVE  /\ \E i \in Count' : i < seg' /\ Defer(segments[i])' /\ Kept(deferred[k], i)'
                        /\ deferred'[k].file > 0 =>
                             deferred'[k].temp + deferred'[k].file <= cursor'
      BY DEF EntriesInv
    <2>1. k \in 1 .. Len(d) + 1
      BY <1>10
    <2>2. CASE k = Len(d) + 1
      <3>1. deferred'[k] = e
        BY <2>2, <1>10
      <3>2. n \in Count' /\ n < seg' /\ Defer(segments[n])' /\ Kept(deferred[k], n)'
        BY <3>1, <1>1, <1>2, <1>3, <1>7, <1>17, <1>20 DEF Count, Current
      <3>3. deferred'[k].temp + deferred'[k].file <= cursor'
        BY <3>1, <1>1, <1>3, <1>4, <1>8
      <3> QED
        BY <3>2, <3>3
    <2>3. CASE k # Len(d) + 1
      <3>1. k \in 1 .. Len(d)
        <4>1. PICK m \in Nat : m = Len(d)
          BY <1>10
        <4>2. k \in 1 .. m + 1 /\ k # m + 1
          BY <4>1, <2>1, <2>3
        <4>3. k \in 1 .. m
          BY <4>2
        <4> QED
          BY <4>1, <4>3
      <3>2. deferred'[k] = d[k]
        BY <3>1, <1>10
      <3>3. PICK i \in Count : i < seg /\ Defer(segments[i]) /\ Kept(d[k], i)'
        BY <3>1, <1>21
      <3>4. i \in Count' /\ i < seg' /\ Defer(segments[i])' /\ Kept(deferred[k], i)'
        BY <3>2, <3>3, <1>1, <1>3, <1>17 DEF Count
      <3>5. d[k].file > 0 => d[k].temp + d[k].file <= cursor
        BY <3>1, <1>1, <1>2, <1>5 DEF IInv, EntriesInv
      <3>6. d[k] \in [temp : Nat, at : Nat, file : Nat, mem : Nat]
        BY <3>1, <1>9, SeqElements
      <3>7. d[k].temp \in Nat /\ d[k].file \in Nat
        BY <3>6
      <3>8. d[k].file > 0 => d[k].temp + d[k].file <= cursor'
        BY <3>5, <3>7, <1>1, <1>3, <1>4
      <3> QED
        BY <3>2, <3>4, <3>8
    <2> QED
      BY <2>2, <2>3
  <1> QED
    BY <1>1, <1>3, <1>4, <1>10, <1>18, <1>22, <1>23

(* The end of a segment that is loaded to its place: its bss is cleared.   *)
LEMMA ClearLemma ==
  ASSUME IInv, EndSegment, ~Defer(Current)
  PROVE  /\ BufferInv' /\ DoneInv' /\ EntriesInv'
         /\ \A v \in 0 .. initrd.size - 1 : Holds(initrd.base + v, <<kind, "initrd", 1, v>>)'
         /\ OutOfReach => \A r \in Runtime : mem'[r] = mem[r]
PROOF
  <1>1. /\ pc = "segment" /\ unit = Current.file /\ mem' = Zeroed(mem, Current)
        /\ UNCHANGED <<deferred, cursor>> /\ seg' = seg + 1
        /\ UNCHANGED <<disks, kind, segments, initrd>>
    BY DEF EndSegment, machine
  <1>2. Known /\ seg \in Count
    BY <1>1 DEF Known, IInv, PlaceInv
  <1>3. Shaped /\ Len(segments) \in Nat /\ seg \in Nat /\ cursor \in Nat
    BY <1>2, ShapedLemma DEF IInv, TypeInv
  <1>4. PICK n : n = seg
    OBVIOUS
  <1>5. PICK s : s = Current
    OBVIOUS
  <1>6. PICK d : d = deferred
    OBVIOUS
  <1>7. /\ s = segments[n] /\ s.at \in Nat /\ s.file \in Nat /\ s.mem \in Nat
        /\ s.at >= 1 /\ s.file <= s.mem /\ s.at + s.mem <= UsableEnd
    BY <1>2, <1>3, <1>4, <1>5, SegmentFacts DEF Current, Shaped
  <1>8. PICK W : W = Units(s.at + s.file, s.mem - s.file)
    OBVIOUS
  <1>9. \A u \in W : u \in Units(s.at, s.mem) /\ u \in 1 .. Total - 1 /\ u \in Nat
    BY <1>7, <1>8, Sizes DEF Units
  <1>10. \A u \in 1 .. Total - 1 : mem'[u] = IF u \in W THEN <<"zero">> ELSE mem[u]
    <2>1. PICK m : m = mem
      OBVIOUS
    <2>2. mem' = Zeroed(m, s)
      BY <2>1, <1>1, <1>5
    <2> QED
      BY <2>1, <2>2, <1>1, <1>8, ZeroLemma
  <1>11. Outside(W)
    BY <1>1, <1>10 DEF Outside, Holds
  <1>12. \A i \in Count : i # n => \A u \in W : u \notin Units(segments[i].at, segments[i].mem)
    BY <1>2, <1>3, <1>4, <1>7, <1>9 DEF Shaped
  <1>13. ASSUME NEW b \in Nat, Above(b), NEW u \in W PROVE u < b
    BY <1>2, <1>3, <1>4, <1>7, <1>9, <1>13, AboveFacts
  <1>14. \A k \in 1 .. Len(d) : d[k].file > 0 =>
           \A u \in W : u \notin Units(d[k].temp, d[k].file)
    <2> SUFFICES ASSUME NEW k \in 1 .. Len(d), d[k].file > 0, NEW u \in W
                 PROVE  u \notin Units(d[k].temp, d[k].file)
      OBVIOUS
    <2>1. d \in Seq([temp : Nat, at : Nat, file : Nat, mem : Nat])
      BY <1>6 DEF IInv, TypeInv
    <2>2. d[k] \in [temp : Nat, at : Nat, file : Nat, mem : Nat]
      BY <2>1, SeqElements
    <2>3. PICK i \in Count : Kept(d[k], i)
      BY <1>2, <1>6 DEF IInv, EntriesInv
    <2>4. Above(d[k].temp) /\ d[k].temp \in Nat /\ d[k].file \in Nat
      BY <2>2, <2>3 DEF Kept, Fits
    <2>5. u < d[k].temp
      BY <2>4, <1>13
    <2> QED
      BY <2>4, <2>5, <1>9 DEF Units
  <1>15. \A u \in W : u \notin Units(initrd.base, initrd.size)
    <2> SUFFICES ASSUME NEW u \in W PROVE u \notin Units(initrd.base, initrd.size)
      OBVIOUS
    <2>1. /\ initrd.base \in Nat /\ initrd.size \in Nat
          /\ initrd.size > 0 => Above(initrd.base)
      BY <1>2, LimitFacts DEF IInv
    <2>2. initrd.size > 0 => u < initrd.base
      BY <2>1, <1>13
    <2> QED
      BY <2>1, <2>2, <1>9 DEF Units
  <1>16. /\ \A i \in 1 .. seg - 1 :
              IF ~Defer(segments[i]) THEN InPlace(i)'
              ELSE \E k \in 1 .. Len(d) : Kept(d[k], i)'
         /\ \A k \in 1 .. Len(d) :
              \E i \in Count : i < seg /\ Defer(segments[i]) /\ Kept(d[k], i)'
         /\ \A v \in 0 .. initrd.size - 1 : Holds(initrd.base + v, <<kind, "initrd", 1, v>>)'
    <2>1. \A i \in Count : i < seg => \A u \in W : u \notin Units(segments[i].at, segments[i].mem)
      <3>1. \A i \in Count : i < seg => i # n
        BY <1>3, <1>4 DEF Count
      <3> QED
        BY <3>1, <1>12
    <2> QED
      BY <2>1, <1>1, <1>6, <1>11, <1>14, <1>15, LoadedStays
  <1>17. InPlace(n)'
    <2>1. ASSUME NEW u \in Units(s.at, s.file) PROVE Holds(u, <<kind, "kernel", n, u - s.at>>)'
      <3>1. Target = s.at
        BY <1>5 DEF Target
      <3>2. PICK v \in 0 .. s.file - 1 : u = s.at + v /\ v = u - s.at
        <4>1. u - s.at \in 0 .. s.file - 1 /\ u = s.at + (u - s.at)
          BY <1>7 DEF Units
        <4> QED
          BY <4>1
      <3>3. Holds(u, <<kind, "kernel", n, v>>)
        BY <3>1, <3>2, <1>1, <1>4, <1>5 DEF IInv, HalfInv
      <3>4. u \in 1 .. Total - 1 /\ u \notin W
        BY <1>7, <1>8, Sizes DEF Units
      <3>5. PICK w : w = <<kind, "kernel", n, v>>
        OBVIOUS
      <3>6. Holds(u, w)'
        BY <3>3, <3>4, <3>5, <1>11 DEF Outside
      <3> QED
        BY <3>2, <3>5, <3>6, <1>1 DEF Holds
    <2>2. ASSUME NEW u \in W PROVE Holds(u, <<"zero">>)'
      BY <1>9, <1>10 DEF Holds
    <2>3. segments'[n] = s
      BY <1>1, <1>7
    <2> QED
      BY <2>1, <2>2, <2>3, <1>8 DEF InPlace
  <1>18. \A x : Defer(x)' <=> Defer(x)
    BY <1>1, KernelStays
  <1>19. DoneInv'
    <2> SUFFICES ASSUME NEW i \in (1 .. seg - 1)'
                 PROVE  IF ~Defer(segments[i])' THEN InPlace(i)'
                        ELSE \E k \in 1 .. Len(deferred') : Kept(deferred[k], i)'
      BY DEF DoneInv
    <2>1. i \in 1 .. seg /\ (Defer(segments[i])' <=> Defer(segments[i])) /\ deferred' = d
      BY <1>1, <1>3, <1>6, <1>18
    <2>2. CASE i = n
      <3>1. ~Defer(segments[i])
        BY <2>2, <1>5, <1>7
      <3> QED
        BY <2>1, <2>2, <3>1, <1>17
    <2>3. CASE i # n
      <3>1. i \in 1 .. seg - 1
        BY <2>1, <2>3, <1>3, <1>4
      <3> QED
        BY <2>1, <3>1, <1>16
    <2> QED
      BY <2>2, <2>3
  <1>20. EntriesInv'
    <2> SUFFICES ASSUME NEW k \in (1 .. Len(deferred))'
                 PROVE  /\ \E i \in Count' : i < seg' /\ Defer(segments[i])' /\ Kept(deferred[k], i)'
                        /\ deferred'[k].file > 0 =>
                             deferred'[k].temp + deferred'[k].file <= cursor'
      BY DEF EntriesInv
    <2>1. k \in 1 .. Len(d) /\ deferred' = d /\ cursor' = cursor
      BY <1>1, <1>6
    <2>2. \E i \in Count : i < seg /\ Defer(segments[i]) /\ Kept(d[k], i)'
      BY <2>1, <1>16
    <2>3. PICK i \in Count : i < seg /\ Defer(segments[i]) /\ Kept(d[k], i)'
      BY <2>2
    <2>4. i \in Count' /\ i < seg' /\ Defer(segments[i])' /\ Kept(deferred[k], i)'
      BY <2>1, <2>3, <1>1, <1>3, <1>18 DEF Count
    <2>5. d[k].file > 0 => d[k].temp + d[k].file <= cursor
      BY <2>1, <1>1, <1>2, <1>6 DEF IInv, EntriesInv
    <2> QED
      BY <2>1, <2>4, <2>5
  <1>21. BufferInv'
    <2>1. Pending(seg)' = Pending(seg + 1)
      BY <1>1, <1>18 DEF Pending, FileUnits
    <2>2. Pending(seg + 1) = Pending(seg)
      BY <1>2, <1>3, <1>5, <1>7, <1>4, PendingSplit
    <2>3. BufferLimit' = BufferLimit /\ Bottom' = Bottom
          /\ DeferTotal(segments)' = DeferTotal(segments) /\ (Elf' <=> Elf)
      BY <1>1, KernelStays, BufferStays
    <2>4. Above(Bottom)' <=> Above(Bottom)
      BY <2>3, <1>1 DEF Above
    <2> QED
      BY <2>1, <2>2, <2>3, <2>4, <1>1 DEF IInv, BufferInv
  <1>22. OutOfReach => \A r \in Runtime : mem'[r] = mem[r]
    <2> SUFFICES ASSUME OutOfReach, NEW r \in Runtime PROVE mem'[r] = mem[r]
      OBVIOUS
    <2>1. Elf
      BY <1>2, ReachLemma
    <2>2. Units(s.at, s.mem) \cap Runtime = {}
      BY <2>1, <1>5 DEF Defer
    <2>3. r \notin W /\ r \in 1 .. Total - 1
      BY <2>2, <1>9, Sizes
    <2> QED
      BY <2>3, <1>10
  <1> QED
    BY <1>16, <1>19, <1>20, <1>21, <1>22

LEMMA EndSegmentLemma ==
  ASSUME IInv, EndSegment PROVE IInv'
PROOF
  <1>1. /\ pc = "segment" /\ unit = Current.file /\ seg' = seg + 1 /\ unit' = 0
        /\ pc' = (IF seg < Len(segments) THEN "segment" ELSE IF Elf THEN "params" ELSE "initrd")
        /\ UNCHANGED <<machine, left, kind, segments, initrd, setup, outcome>>
    BY DEF EndSegment
  <1>2. UNCHANGED <<disks, prio, acpi, mode, params, slot, learned>>
    BY <1>1 DEF machine, outcome
  <1>3. Known /\ Known' /\ seg \in Count
    BY <1>1 DEF Known, IInv, PlaceInv
  <1>4. /\ Shaped /\ Len(segments) \in Nat /\ seg \in Nat /\ (~Elf => Len(segments) = 1)
        /\ cursor \in Nat
    BY <1>3, ShapedLemma DEF IInv, TypeInv
  <1>5. Count' = Count /\ (Elf' <=> Elf) /\ Disk' = Disk
    BY <1>1, <1>2, KernelStays
  <1>6. BufferInv' /\ DoneInv' /\ EntriesInv'
    BY AsideLemma, ClearLemma
  <1>7. /\ deferred' \in Seq([temp : Nat, at : Nat, file : Nat, mem : Nat]) /\ cursor' \in Nat
        /\ ~Elf => deferred' = << >>
    <2>1. CASE Defer(Current)
      BY <2>1, AsideLemma DEF Defer
    <2>2. CASE ~Defer(Current)
      <3>1. deferred' = deferred /\ cursor' = cursor
        BY <2>2 DEF EndSegment
      <3> QED
        BY <3>1, <1>3, <1>4 DEF IInv, TypeInv, PlaceInv
    <2> QED
      BY <2>1, <2>2
  <1>8. TypeInv'
    BY <1>1, <1>2, <1>4, <1>7 DEF IInv, TypeInv, Places
  <1>9. DiskInv'
    BY <1>1, <1>2, <1>3, <1>5, KernelStays DEF IInv, DiskInv
  <1>10. PlaceInv'
    <2>1. Above(initrd.base)' <=> Above(initrd.base)
      BY <1>1 DEF Above
    <2>2. ASSUME pc' = "segment" PROVE seg' \in Count' /\ unit' <= Current'.file
      <3>1. seg' \in Count
        BY <2>2, <1>1, <1>4 DEF Count
      <3>2. segments[seg'].file \in Nat
        <4>1. PICK i \in Count : i = seg'
          BY <3>1
        <4> QED
          BY <4>1, <1>4, SegmentFacts
      <3>3. Current' = segments[seg']
        BY <1>1 DEF Current
      <3> QED
        BY <3>1, <3>2, <3>3, <1>1, <1>5
    <2>3. pc' # "segment" => seg' = Len(segments') + 1
      BY <1>1, <1>3, <1>4 DEF Count
    <2>4. pc' = "initrd" => ~Elf /\ seg' = 2 /\ deferred' = << >> /\ initrd = NoInitrd
      <3> SUFFICES ASSUME pc' = "initrd"
                   PROVE  ~Elf /\ seg' = 2 /\ deferred' = << >> /\ initrd = NoInitrd
        OBVIOUS
      <3>1. ~Elf /\ Len(segments) = 1
        BY <1>1, <1>4
      <3>2. seg = 1
        BY <3>1, <1>3 DEF Count
      <3> QED
        BY <3>1, <3>2, <1>1, <1>7 DEF IInv, PlaceInv
    <2> QED
      BY <2>1, <2>2, <2>3, <2>4, <1>1, <1>3, <1>5, <1>7 DEF IInv, PlaceInv, UsableEnd
  <1>11. HalfInv'
    BY <1>1 DEF HalfInv
  <1>12. InitrdInv'
    <2>1. \A v \in 0 .. initrd.size - 1 : Holds(initrd.base + v, <<kind, "initrd", 1, v>>)'
      <3>1. CASE Defer(Current)
        <4>1. mem' = mem
          BY <3>1, AsideLemma
        <4> QED
          BY <4>1, <1>1, <1>3 DEF IInv, InitrdInv, Holds
      <3>2. CASE ~Defer(Current)
        BY <3>2, ClearLemma
      <3> QED
        BY <3>1, <3>2
    <2> QED
      BY <2>1, <1>1 DEF InitrdInv
  <1>13. ParamsInv'
    BY <1>1, <1>2, <1>3, <1>5 DEF IInv, ParamsInv
  <1>14. BiosInv'
    <2>1. OutOfReach => \A r \in Runtime : mem'[r] = mem[r]
      BY AsideLemma, ClearLemma
    <2> QED
      BY <2>1, <1>1, <1>2, BiosStays DEF IInv
  <1> QED
    BY <1>6, <1>8, <1>9, <1>10, <1>11, <1>12, <1>13, <1>14 DEF IInv

-----------------------------------------------------------------------------
(* A segment that was kept aside is copied to its place, over whatever the *)
(* BIOS had there: neither the other segments nor what is still kept nor   *)
(* the initrd is in its way.                                               *)
LEMMA ApplyLemma ==
  ASSUME IInv, Apply PROVE IInv'
PROOF
  <1>1. /\ pc = "apply" /\ pc' = "apply" /\ deferred # << >> /\ deferred' = Tail(deferred)
        /\ UNCHANGED <<machine, left, kind, segments, seg, unit, cursor, initrd, setup, outcome>>
    BY DEF Apply
  <1>2. UNCHANGED <<disks, prio, acpi, mode, params, slot, learned>>
    BY <1>1 DEF machine, outcome
  <1>3. Known /\ Known'
    BY <1>1 DEF Known
  <1>4. Shaped /\ Len(segments) \in Nat /\ seg = Len(segments) + 1
    BY <1>1, <1>3, ShapedLemma DEF IInv, PlaceInv
  <1>5. PICK d : d = deferred
    OBVIOUS
  <1>6. d \in Seq([temp : Nat, at : Nat, file : Nat, mem : Nat]) /\ d # << >>
    BY <1>1, <1>5 DEF IInv, TypeInv
  <1>7. /\ Len(d) \in Nat /\ Len(d) >= 1 /\ Head(d) = d[1] /\ deferred' = Tail(d)
        /\ Tail(d) \in Seq([temp : Nat, at : Nat, file : Nat, mem : Nat])
        /\ Len(Tail(d)) = Len(d) - 1
        /\ \A k \in 1 .. Len(d) - 1 : Tail(d)[k] = d[k + 1]
    <2>1. Len(d) \in Nat \ {0}
      BY <1>6, EmptySeq
    <2> QED
      BY <2>1, <1>1, <1>5, <1>6, HeadTailProperties
  <1>8. PICK s : s = d[1]
    OBVIOUS
  <1>9. PICK n \in Count : Defer(segments[n]) /\ Kept(s, n)
    <2>1. 1 \in 1 .. Len(deferred)
      BY <1>5, <1>7
    <2> QED
      BY <2>1, <1>3, <1>5, <1>8 DEF IInv, EntriesInv
  <1>10. /\ s.temp \in Nat /\ s.at \in Nat /\ s.file \in Nat /\ s.mem \in Nat
         /\ s.at = segments[n].at /\ s.file = segments[n].file /\ s.mem = segments[n].mem
         /\ s.at >= 1 /\ s.file <= s.mem /\ s.at + s.mem <= UsableEnd
    <2>1. 1 \in 1 .. Len(d)
      BY <1>7
    <2>2. s \in [temp : Nat, at : Nat, file : Nat, mem : Nat]
      BY <2>1, <1>6, <1>8, SeqElements
    <2>3. s.at = segments[n].at /\ s.file = segments[n].file /\ s.mem = segments[n].mem
      BY <1>9 DEF Kept, Fits
    <2> QED
      BY <2>2, <2>3, <1>4, <1>9 DEF Shaped
  <1>11. PICK m : m = [u \in 1 .. Total - 1 |->
                         IF u \in Units(s.at, s.file) THEN mem[s.temp + u - s.at] ELSE mem[u]]
    OBVIOUS
  <1>12. mem' = Zeroed(m, s)
    <2>1. Head(deferred) = s
      BY <1>5, <1>7, <1>8
    <2> QED
      BY <2>1, <1>11 DEF Apply
  <1>13. \A u \in 1 .. Total - 1 :
           mem'[u] = IF u \in Units(s.at + s.file, s.mem - s.file) THEN <<"zero">>
                     ELSE IF u \in Units(s.at, s.file) THEN mem[s.temp + u - s.at] ELSE mem[u]
    <2>1. \A u \in 1 .. Total - 1 :
            m[u] = IF u \in Units(s.at, s.file) THEN mem[s.temp + u - s.at] ELSE mem[u]
      BY <1>11
    <2>2. \A u \in 1 .. Total - 1 :
            mem'[u] = IF u \in Units(s.at + s.file, s.mem - s.file) THEN <<"zero">> ELSE m[u]
      BY <1>1, <1>12, ZeroLemma
    <2> QED
      BY <2>1, <2>2
  <1>14. PICK W : W = Units(s.at, s.mem)
    OBVIOUS
  <1>15. /\ \A u \in W : u \in 1 .. Total - 1 /\ u \in Nat
         /\ \A u \in Units(s.at, s.file) : u \in W
         /\ \A u \in Units(s.at + s.file, s.mem - s.file) : u \in W /\ u \notin Units(s.at, s.file)
    <2>1. ASSUME NEW u \in W PROVE u \in 1 .. Total - 1 /\ u \in Nat
      <3>1. u \in s.at .. s.at + s.mem - 1
        BY <1>14 DEF Units
      <3> QED
        BY <3>1, <1>10, Sizes
    <2>2. ASSUME NEW u \in Units(s.at, s.file) PROVE u \in W
      BY <1>10, <1>14 DEF Units
    <2>3. ASSUME NEW u \in Units(s.at + s.file, s.mem - s.file)
          PROVE  u \in W /\ u \notin Units(s.at, s.file)
      BY <1>10, <1>14 DEF Units
    <2> QED
      BY <2>1, <2>2, <2>3
  <1>16. Outside(W) /\ \A u \in 1 .. Total - 1 : u \notin W => mem'[u] = mem[u]
    BY <1>1, <1>13, <1>15 DEF Outside, Holds
  <1>17. ASSUME NEW b \in Nat, Above(b), NEW u \in W PROVE u < b
    BY <1>4, <1>9, <1>10, <1>14, <1>17, AboveFacts
  <1>18. /\ BufferLimit \in Nat /\ BufferLimit <= UsableEnd
         /\ initrd.base \in Nat /\ initrd.size \in Nat
         /\ initrd.size > 0 => /\ Above(initrd.base) /\ initrd.base >= 1
                               /\ initrd.base + initrd.size <= UsableEnd
    BY <1>3, LimitFacts, Sizes DEF IInv, Above
  <1>19. (Spoilt' <=> Spoilt) /\ \A x : Defer(x)' <=> Defer(x)
    BY <1>1, <1>2, KernelStays, BufferStays
  <1>20. ASSUME NEW i \in Count, Kept(s, i) PROVE Copied(i)'
    <2>1. segments[i].at = s.at /\ segments[i].file = s.file /\ segments[i].mem = s.mem
      BY <1>20 DEF Kept, Fits
    <2>2. ASSUME NEW u \in Units(s.at, s.file)
          PROVE  mem'[u] = <<kind, "kernel", i, u - s.at>> \/ Spoilt
      <3>1. PICK v \in 0 .. s.file - 1 : u = s.at + v /\ v = u - s.at /\ s.temp + u - s.at = s.temp + v
        <4>1. u - s.at \in 0 .. s.file - 1 /\ u = s.at + (u - s.at)
              /\ s.temp + u - s.at = s.temp + (u - s.at)
          BY <1>10 DEF Units
        <4> QED
          BY <4>1
      <3>2. Holds(s.temp + v, <<kind, "kernel", i, v>>)
        BY <1>20 DEF Kept, Keeps
      <3>3. mem'[u] = mem[s.temp + v]
        BY <3>1, <1>13, <1>15
      <3>4. CASE mem[s.temp + v] = <<kind, "kernel", i, v>>
        BY <3>1, <3>3, <3>4
      <3>5. CASE kind = "usb" /\ s.temp + v \in Scratch
        <4>1. Bottom <= s.temp /\ s.temp + s.file <= BufferLimit
          BY <3>1, <1>10, <1>20 DEF Kept, Fits
        <4>2. DeferTotal(segments) \in Nat
          BY <1>4, TotalFacts
        <4> DEFINE total == DeferTotal(segments)
        <4>3. s.temp + v \in Units(BufferLimit - total, total)
          <5>1. total \in Nat /\ Bottom = BufferLimit - total
            BY <4>2 DEF Bottom
          <5> HIDE DEF total
          <5> QED
            BY <5>1, <4>1, <1>10, <1>18 DEF Units
        <4> HIDE DEF total
        <4>4. s.temp + v \in Loaded
          <5>1. s.temp + v \in Units(BufferLimit - DeferTotal(segments), DeferTotal(segments))
            BY <4>3 DEF total
          <5> QED
            BY <5>1, LoadedParts
        <4> QED
          BY <3>5, <4>4 DEF Spoilt
      <3> QED
        BY <3>2, <3>4, <3>5 DEF Holds
    <2>3. ASSUME NEW u \in Units(s.at + s.file, s.mem - s.file) PROVE mem'[u] = <<"zero">>
      BY <1>13, <1>15
    <2> QED
      BY <2>1, <2>2, <2>3, <1>1, <1>19 DEF Copied
  <1>21. ASSUME NEW i \in Count, i # n, Copied(i) PROVE Copied(i)'
    <2>1. /\ segments[i].at \in Nat /\ segments[i].file \in Nat /\ segments[i].mem \in Nat
          /\ segments[i].at >= 1 /\ segments[i].file <= segments[i].mem
          /\ segments[i].at + segments[i].mem <= UsableEnd
      BY <1>4, SegmentFacts DEF Shaped
    <2>2. \A u \in Units(segments[i].at, segments[i].mem) : u \notin W
      BY <1>4, <1>9, <1>10, <1>14, <1>21 DEF Shaped
    <2>3. \A u \in Units(segments[i].at, segments[i].file) : mem'[u] = mem[u]
      <3> SUFFICES ASSUME NEW u \in Units(segments[i].at, segments[i].file) PROVE mem'[u] = mem[u]
        OBVIOUS
      <3>1. u \in Units(segments[i].at, segments[i].mem) /\ u \in 1 .. Total - 1
        BY <2>1, Sizes DEF Units
      <3> QED
        BY <3>1, <2>2, <1>16
    <2>4. \A u \in Units(segments[i].at + segments[i].file, segments[i].mem - segments[i].file) :
            mem'[u] = mem[u]
      <3> SUFFICES ASSUME NEW u \in Units(segments[i].at + segments[i].file,
                                          segments[i].mem - segments[i].file)
                   PROVE  mem'[u] = mem[u]
        OBVIOUS
      <3>1. u \in Units(segments[i].at, segments[i].mem) /\ u \in 1 .. Total - 1
        BY <2>1, Sizes DEF Units
      <3> QED
        BY <3>1, <2>2, <1>16
    <2> QED
      BY <2>3, <2>4, <1>1, <1>19, <1>21 DEF Copied
  <1>22. ASSUME NEW k \in 1 .. Len(d), NEW i, Kept(d[k], i) PROVE Kept(d[k], i)'
    <2>1. d[k] \in [temp : Nat, at : Nat, file : Nat, mem : Nat]
      BY <1>6, SeqElements
    <2>2. d[k].temp \in Nat /\ d[k].file \in Nat
      BY <2>1
    <2>3. Fits(d[k], i) /\ Keeps(d[k], i)
      BY <1>22 DEF Kept
    <2>4. d[k].file > 0 => \A u \in W : u \notin Units(d[k].temp, d[k].file)
      <3> SUFFICES ASSUME d[k].file > 0, NEW u \in W PROVE u \notin Units(d[k].temp, d[k].file)
        OBVIOUS
      <3>1. Above(d[k].temp)
        BY <2>3 DEF Fits
      <3>2. u < d[k].temp
        BY <3>1, <2>2, <1>17
      <3> QED
        BY <3>2, <2>2, <1>15 DEF Units
    <2>5. Keeps(d[k], i)'
      BY <2>2, <2>3, <2>4, <1>1, <1>16, <1>18, KeepsStays
    <2>6. Fits(d[k], i)'
      BY <2>3, <1>1, <1>2, BufferStays
    <2> QED
      BY <2>5, <2>6 DEF Kept
  <1>23. \A k \in 1 .. Len(d) : k # 1 =>
           \E j \in 1 .. Len(deferred') : deferred'[j] = d[k]
    <2> SUFFICES ASSUME NEW k \in 1 .. Len(d), k # 1
                 PROVE  \E j \in 1 .. Len(deferred') : deferred'[j] = d[k]
      OBVIOUS
    <2>1. PICK l \in Nat : l = Len(d)
      BY <1>7
    <2>2. k - 1 \in 1 .. l - 1 /\ k - 1 + 1 = k
      BY <2>1
    <2>3. deferred'[k - 1] = d[k - 1 + 1]
      BY <2>1, <2>2, <1>7
    <2> QED
      BY <2>1, <2>2, <2>3, <1>7
  <1>24. \A k \in 1 .. Len(deferred') : \E j \in 1 .. Len(d) : deferred'[k] = d[j]
    <2> SUFFICES ASSUME NEW k \in 1 .. Len(deferred')
                 PROVE  \E j \in 1 .. Len(d) : deferred'[k] = d[j]
      OBVIOUS
    <2>1. PICK l \in Nat : l = Len(d)
      BY <1>7
    <2>2. k \in 1 .. l - 1 /\ k + 1 \in 1 .. l
      BY <2>1, <1>7
    <2> QED
      BY <2>1, <2>2, <1>7
  <1>25. DoneInv'
    <2> SUFFICES ASSUME NEW i \in (1 .. seg - 1)'
                 PROVE  IF ~Defer(segments[i])' THEN InPlace(i)'
                        ELSE \/ Copied(i)'
                             \/ \E k \in 1 .. Len(deferred') : Kept(deferred[k], i)'
      BY <1>1 DEF DoneInv
    <2>1. i \in 1 .. seg - 1 /\ i \in Count /\ (Defer(segments[i])' <=> Defer(segments[i]))
      BY <1>1, <1>4, <1>19 DEF Count
    <2>2. CASE ~Defer(segments[i])
      <3>1. i # n
        BY <2>2, <1>9
      <3>2. InPlace(i)
        BY <2>1, <2>2, <1>3 DEF IInv, DoneInv
      <3>3. \A u \in W : u \notin Units(segments[i].at, segments[i].mem)
        BY <2>1, <3>1, <1>4, <1>9, <1>10, <1>14 DEF Shaped
      <3>4. InPlace(i)'
        BY <2>1, <3>2, <3>3, <1>1, <1>2, <1>4, <1>16, InPlaceStays
      <3> QED
        BY <2>1, <2>2, <3>4
    <2>3. CASE Defer(segments[i])
      <3>1. Copied(i) \/ \E k \in 1 .. Len(d) : Kept(d[k], i)
        BY <2>1, <2>3, <1>3, <1>5 DEF IInv, DoneInv
      <3>2. CASE Copied(i)
        BY <2>1, <2>3, <3>2, <1>9, <1>20, <1>21
      <3>3. ASSUME NEW k \in 1 .. Len(d), Kept(d[k], i)
            PROVE  Copied(i)' \/ \E j \in 1 .. Len(deferred') : Kept(deferred[j], i)'
        <4>1. CASE k = 1
          BY <4>1, <3>3, <2>1, <1>8, <1>20
        <4>2. CASE k # 1
          <5>1. PICK j \in 1 .. Len(deferred') : deferred'[j] = d[k]
            BY <4>2, <1>23
          <5>2. Kept(d[k], i)'
            BY <3>3, <1>22
          <5>3. Kept(deferred[j], i)'
            BY <5>1, <5>2
          <5> QED
            BY <5>3
        <4> QED
          BY <4>1, <4>2
      <3> QED
        BY <2>1, <2>3, <3>1, <3>2, <3>3
    <2> QED
      BY <2>2, <2>3
  <1>26. EntriesInv'
    <2> SUFFICES ASSUME NEW k \in (1 .. Len(deferred))'
                 PROVE  \E i \in Count' : i < seg' /\ Defer(segments[i])' /\ Kept(deferred[k], i)'
      BY <1>1 DEF EntriesInv
    <2>1. PICK j \in 1 .. Len(d) : deferred'[k] = d[j]
      BY <1>24
    <2>2. PICK i \in Count : i < seg /\ Defer(segments[i]) /\ Kept(d[j], i)
      BY <1>3, <1>5 DEF IInv, EntriesInv
    <2>3. Kept(d[j], i)'
      BY <2>2, <1>22
    <2>4. Kept(deferred[k], i)'
      BY <2>1, <2>3
    <2>5. i \in Count' /\ i < seg' /\ Defer(segments[i])'
      BY <2>2, <1>1, <1>19 DEF Count
    <2> QED
      BY <2>4, <2>5
  <1>27. InitrdInv'
    <2>1. PICK l : l = initrd.size
      OBVIOUS
    <2>2. \A v \in 0 .. l - 1 : Holds(initrd.base + v, <<kind, "initrd", 1, v>>)
      BY <2>1, <1>1, <1>3 DEF IInv, InitrdInv
    <2>3. \A u \in W : u \notin Units(initrd.base, l)
      <3> SUFFICES ASSUME NEW u \in W PROVE u \notin Units(initrd.base, l)
        OBVIOUS
      <3>1. l > 0 => u < initrd.base
        BY <2>1, <1>17, <1>18
      <3> QED
        BY <3>1, <2>1, <1>15, <1>18 DEF Units
    <2>4. \A v \in 0 .. l - 1 : Holds(initrd.base + v, <<kind, "initrd", 1, v>>)'
      <3>1. l \in Nat /\ l <= initrd.size
            /\ (l > 0 => initrd.base >= 1 /\ initrd.base + initrd.size <= UsableEnd)
        BY <2>1, <1>18
      <3> QED
        BY <3>1, <2>2, <2>3, <1>1, <1>16, <1>18, HoldStays
    <2> QED
      BY <2>1, <2>4, <1>1 DEF InitrdInv
  <1>28. TypeInv'
    BY <1>1, <1>2, <1>7 DEF IInv, TypeInv
  <1>29. DiskInv'
    BY <1>1, <1>2, <1>3, KernelStays DEF IInv, DiskInv
  <1>30. PlaceInv'
    <2>1. ~Elf => deferred = << >>
      BY <1>3 DEF IInv, PlaceInv
    <2>2. Elf
      BY <2>1, <1>1
    <2>3. /\ (Elf' <=> Elf) /\ Disk' = Disk /\ (Above(initrd.base)' <=> Above(initrd.base))
      BY <1>1, <1>2, KernelStays DEF Above
    <2> QED
      BY <2>2, <2>3, <1>1, <1>3 DEF IInv, PlaceInv, UsableEnd
  <1>31. ParamsInv'
    <2>1. Usable' = Usable /\ (Elf' <=> Elf)
      BY <1>1, <1>2, KernelStays DEF Usable
    <2> QED
      BY <2>1, <1>1, <1>2, <1>3 DEF IInv, ParamsInv
  <1>32. BufferInv' /\ HalfInv' /\ BiosInv'
    BY <1>1 DEF BufferInv, HalfInv, BiosInv
  <1> QED
    BY <1>25, <1>26, <1>27, <1>28, <1>29, <1>30, <1>31, <1>32 DEF IInv

-----------------------------------------------------------------------------
LEMMA StepLemma ==
  ASSUME IInv, [Next]_vars PROVE IInv'
PROOF
  <1>1. CASE UNCHANGED vars
    <2>1. UNCHANGED <<disks, prio, acpi, pc, left, kind, segments, seg, unit, cursor, deferred,
                      initrd, setup, mem, mode, params, slot, learned>>
      BY <1>1 DEF vars, machine, loading, outcome
    <2>2. (Known' <=> Known) /\ Count' = Count /\ (Elf' <=> Elf) /\ Disk' = Disk
          /\ \A s : Defer(s)' <=> Defer(s)
      BY <2>1, KernelStays DEF Known
    <2>3. TypeInv' /\ DiskInv'
      BY <2>1, <2>2, KernelStays DEF IInv, TypeInv, DiskInv
    <2>4. PlaceInv'
      BY <2>1, <2>2, KernelStays DEF IInv, PlaceInv, UsableEnd, Current
    <2>5. BufferLimit' = BufferLimit /\ Bottom' = Bottom /\ (Above(Bottom)' <=> Above(Bottom))
          /\ DeferTotal(segments)' = DeferTotal(segments)
      <3>1. BufferLimit' = BufferLimit /\ Bottom' = Bottom
        BY <2>1, BufferStays
      <3> QED
        BY <3>1, <2>1, KernelStays DEF Above
    <2>6. Pending(seg)' = Pending(seg)
      BY <2>1, <2>2 DEF Pending, FileUnits
    <2>7. BufferInv'
      BY <2>1, <2>2, <2>5, <2>6 DEF IInv, BufferInv
    <2>8. \A u, x : Holds(u, x)' <=> Holds(u, x)
      BY <2>1 DEF Holds
    <2>9. \A e, i : Kept(e, i)' <=> Kept(e, i)
      BY <2>1, <2>8, BufferStays DEF Kept, Keeps
    <2>10. \A i : (InPlace(i)' <=> InPlace(i)) /\ (Copied(i)' <=> Copied(i))
      BY <2>1, <2>8, BufferStays DEF InPlace, Copied
    <2>11. DoneInv'
      BY <2>1, <2>2, <2>9, <2>10 DEF IInv, DoneInv
    <2>12. EntriesInv'
      BY <2>1, <2>2, <2>9 DEF IInv, EntriesInv
    <2>13. HalfInv' /\ InitrdInv'
      <3>1. Target' = Target
        BY <2>1, <2>2 DEF Target, Current
      <3> QED
        BY <3>1, <2>1, <2>2, <2>8 DEF IInv, HalfInv, InitrdInv
    <2>14. Usable' = Usable /\ (OutOfReach' <=> OutOfReach)
      BY <2>1 DEF Usable, UsableEnd, OutOfReach
    <2>15. ParamsInv' /\ BiosInv'
      BY <2>1, <2>2, <2>14 DEF IInv, ParamsInv, BiosInv
    <2> QED
      BY <2>3, <2>4, <2>7, <2>11, <2>12, <2>13, <2>15 DEF IInv
  <1>2. CASE Next
    BY <1>2, SelectLemma, ReturnLemma, SourceLemma, HeadersLemma, SetupLemma, FindInitrdLemma,
       ReadInitrdLemma, BufferLemma, ReadSegmentLemma, EndSegmentLemma, PrepareLemma,
       VideoLemma, ReleaseLemma, ApplyLemma, JumpLemma DEF Next
  <1> QED
    BY <1>1, <1>2

THEOREM Invariance == Spec => []IInv
PROOF
  <1>1. Init => IInv
    BY InitLemma
  <1>2. IInv /\ [Next]_vars => IInv'
    BY StepLemma
  <1> QED
    BY <1>1, <1>2, PTL DEF Spec

(* try_boot_linux_current: when the kernel is started, its segments, their *)
(* bss and the initrd are in memory as the files say, and the parameters   *)
(* tell the mode of the card, for every kernel whose segments do not       *)
(* overlap and any number of reads and selections that failed before.      *)
THEOREM KernelIntact == Spec => []JumpIntact
PROOF
  <1>1. ASSUME IInv PROVE JumpIntact
    <2> SUFFICES ASSUME pc = "kernel", kind = "usb" => Loaded \cap Scratch = {}
                 PROVE  /\ \A i \in 1 .. Len(segments), u \in 1 .. Total - 1 :
                             LET s == segments[i] IN
                             /\ u \in Units(s.at, s.file) =>
                                  mem[u] = <<kind, "kernel", i, u - s.at>>
                             /\ u \in Units(s.at + s.file, s.mem - s.file) => mem[u] = <<"zero">>
                        /\ \A u \in Units(params.initrd.base, params.initrd.size) :
                             mem[u] = <<kind, "initrd", 1, u - params.initrd.base>>
                        /\ params.screen = mode
                        /\ params.setup.rest = (IF Elf THEN "none" ELSE kind)
      BY DEF JumpIntact
    <2>1. Known /\ deferred = << >> /\ seg = Len(segments) + 1
      BY <1>1 DEF Known, IInv, PlaceInv
    <2>2. Shaped /\ Len(segments) \in Nat
      BY <1>1, <2>1, ShapedLemma DEF IInv
    <2>3. ~Spoilt
      BY DEF Spoilt
    <2>4. ASSUME NEW u, NEW x, Holds(u, x),
                 \/ u \in Units(initrd.base, initrd.size)
                 \/ \E i \in Count : u \in Units(segments[i].at, segments[i].mem)
          PROVE  mem[u] = x
      BY <2>4, LoadedParts DEF Holds
    <2>7. ASSUME NEW i \in Count
          PROVE  /\ \A u \in Units(segments[i].at, segments[i].file) :
                      mem[u] = <<kind, "kernel", i, u - segments[i].at>>
                 /\ \A u \in Units(segments[i].at + segments[i].file,
                                   segments[i].mem - segments[i].file) : mem[u] = <<"zero">>
      <3>1. i \in 1 .. seg - 1
        BY <2>1, <2>2 DEF Count
      <3>2. CASE Defer(segments[i])
        <4>1. Copied(i) \/ \E k \in 1 .. Len(deferred) : Kept(deferred[k], i)
          BY <1>1, <2>1, <3>1, <3>2 DEF IInv, DoneInv
        <4>2. ~\E k \in 1 .. Len(deferred) : TRUE
          BY <2>1
        <4>3. Copied(i)
          BY <4>1, <4>2
        <4> QED
          BY <4>3, <2>3 DEF Copied
      <3>3. CASE ~Defer(segments[i])
        <4>1. InPlace(i)
          BY <1>1, <2>1, <3>1, <3>3 DEF IInv, DoneInv
        <4>2. /\ segments[i].at \in Nat /\ segments[i].file \in Nat /\ segments[i].mem \in Nat
              /\ segments[i].file <= segments[i].mem
          BY <2>2, SegmentFacts DEF Shaped
        <4>3. \A u : \/ u \in Units(segments[i].at, segments[i].file)
                     \/ u \in Units(segments[i].at + segments[i].file,
                                    segments[i].mem - segments[i].file)
                     => u \in Units(segments[i].at, segments[i].mem)
          BY <4>2 DEF Units
        <4> QED
          BY <4>1, <4>3, <2>4 DEF InPlace
      <3> QED
        BY <3>2, <3>3
    <2>8. params = [usable |-> Usable, initrd |-> initrd, screen |-> mode, setup |-> setup]
          /\ setup = [first |-> setup.first, rest |-> IF Elf THEN "none" ELSE kind]
      BY <1>1, <2>1 DEF IInv, ParamsInv
    <2>9. ASSUME NEW u \in Units(initrd.base, initrd.size)
          PROVE  mem[u] = <<kind, "initrd", 1, u - initrd.base>>
      <3>1. initrd.base \in Nat /\ initrd.size \in Nat
        BY <1>1 DEF IInv, TypeInv
      <3>2. PICK v \in 0 .. initrd.size - 1 : u = initrd.base + v /\ v = u - initrd.base
        <4>1. u - initrd.base \in 0 .. initrd.size - 1 /\ u = initrd.base + (u - initrd.base)
          BY <3>1 DEF Units
        <4> QED
          BY <4>1
      <3>3. Holds(u, <<kind, "initrd", 1, v>>)
        BY <1>1, <2>1, <3>2 DEF IInv, InitrdInv
      <3> QED
        BY <3>2, <3>3, <2>4
    <2>10. params.initrd = initrd /\ params.screen = mode
           /\ params.setup.rest = (IF Elf THEN "none" ELSE kind)
      BY <2>8
    <2> QED
      BY <2>7, <2>9, <2>10 DEF Count
  <1> QED
    BY <1>1, Invariance, PTL

(* linux_loader_try_boot: when it returns to the BIOS, that BIOS is in     *)
(* memory, its services can be found and no priority has been learned.     *)
THEOREM ReturnsSafely == Spec => []ReturnSafe
PROOF
  <1>1. ASSUME IInv PROVE ReturnSafe
    <2>1. pc = "returned" => slot /\ learned = "none" /\ (OutOfReach => \A u \in Runtime : mem[u] = <<"bios">>)
      BY <1>1 DEF IInv, BiosInv
    <2> QED
      BY <2>1 DEF ReturnSafe, OutOfReach
  <1> QED
    BY <1>1, Invariance, PTL

(* linux_memory_e820_get_entry: the memory the kernel is told it may use   *)
(* holds all that was loaded for it and none of the ACPI tables.           *)
THEOREM MapTold == Spec => []MapHonest
PROOF
  <1>1. ASSUME IInv PROVE MapHonest
    <2> SUFFICES ASSUME pc = "kernel"
                 PROVE  /\ acpi.base >= 1 => params.usable \cap Units(acpi.base, acpi.size) = {}
                        /\ Units(params.initrd.base, params.initrd.size) \subseteq params.usable
                        /\ \A i \in 1 .. Len(segments) :
                             Units(segments[i].at, segments[i].mem) \subseteq params.usable
      BY DEF MapHonest
    <2>1. Known
      BY DEF Known
    <2>2. Shaped /\ Len(segments) \in Nat
      BY <1>1, <2>1, ShapedLemma DEF IInv
    <2>3. params.usable = Usable /\ params.initrd = initrd
      BY <1>1 DEF IInv, ParamsInv
    <2>4. /\ acpi.base \in Nat /\ acpi.size \in Nat
          /\ acpi.base < 1 \/ acpi.base >= UsableEnd
      BY <1>1, MachineAssumption DEF IInv, TypeInv
    <2>5. 1 .. UsableEnd - 1 \subseteq Usable
      BY <2>4, Sizes DEF Usable, Units
    <2>6. acpi.base >= 1 => Usable \cap Units(acpi.base, acpi.size) = {}
      BY <2>4, Sizes DEF Usable, Units
    <2>7. Units(initrd.base, initrd.size) \subseteq 1 .. UsableEnd - 1
      <3>1. /\ initrd.base \in Nat /\ initrd.size \in Nat
            /\ initrd.size > 0 => initrd.base >= 1 /\ initrd.base + initrd.size = UsableEnd
        BY <1>1, <2>1, LimitFacts DEF IInv, Above
      <3> QED
        BY <3>1, Sizes DEF Units
    <2>8. ASSUME NEW i \in 1 .. Len(segments)
          PROVE  Units(segments[i].at, segments[i].mem) \subseteq 1 .. UsableEnd - 1
      <3>1. i \in Count
        BY DEF Count
      <3>2. /\ segments[i].at \in Nat /\ segments[i].mem \in Nat
            /\ segments[i].at >= 1 /\ segments[i].at + segments[i].mem <= UsableEnd
        BY <2>2, <3>1, SegmentFacts DEF Shaped
      <3> QED
        BY <3>2, Sizes DEF Units
    <2> QED
      BY <2>3, <2>5, <2>6, <2>7, <2>8
  <1> QED
    BY <1>1, Invariance, PTL
=============================================================================
