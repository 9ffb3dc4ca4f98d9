--------------------------- MODULE MCLinuxLoader ---------------------------
(* Seven usable units, two reserved; stage 3 in the second; ELF kernels of *)
(* one segment anywhere, or of two apart; bzImages; initrds of up to three.*)
EXTENDS LinuxLoader

Segment(at, file, size) == [phys |-> at, virt |-> 0, file |-> file, mem |-> size]

One == { << Segment(at, file, file + bss) >> : at \in {1, 2, 6, 8}, file \in 1 .. 2, bss \in 0 .. 1 }
Two == { << Segment(1, f, f), Segment(at, file, file + bss) >> :
           f \in 1 .. 2, at \in {3, 4}, file \in 0 .. 2, bss \in 0 .. 1 }
More == { << Segment(1, 1, 2), Segment(4, 1, 1) >>,
          << Segment(2, 1, 1), Segment(4, 1, 1), Segment(1, 1, 1) >>,
          << [phys |-> 0, virt |-> KernelSpace + 2, file |-> 1, mem |-> 2] >>,
          << [phys |-> 0, virt |-> 0, file |-> 1, mem |-> 1] >> }

Kernel(format, whole, sound, segs, size) ==
  [format |-> format, whole |-> whole, sound |-> sound, segs |-> segs, initrd |-> size]

Small == Kernel("elf", FALSE, TRUE, << Segment(1, 2, 2) >>, 1)

Disk1 ==
  { Absent, Small, Kernel("elf", FALSE, FALSE, << Segment(1, 1, 1) >>, 0),
    Kernel("elf", TRUE, TRUE, << Segment(1, 1, 2) >>, 1),
    Kernel("elf", FALSE, TRUE, << >>, 1),
    Kernel("other", TRUE, TRUE, << >>, 0) }
  \cup { Kernel("elf", FALSE, TRUE, s, i) : s \in One \cup Two \cup More, i \in {0, 2, 3} }
  \cup { Kernel("bzimage", w, TRUE, << Segment(1, f, f) >>, i) :
           w \in BOOLEAN, f \in {1, 3}, i \in {0, 2} }

MCMachines ==
  { m \in [{"ide", "usb"} -> Disk1] : \E k \in {"ide", "usb"} : m[k] \in {Absent, Small} }

MCTables == { [base |-> 0, size |-> 0], [base |-> 8, size |-> 1], [base |-> 8, size |-> 2] }
=============================================================================
