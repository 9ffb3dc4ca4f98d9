------------------------------ MODULE MCPciBus ------------------------------
(* All trees of up to five functions over a few kinds of device.  A unit   *)
(* of memory is 512 KB, one of I/O space 1 KB; no BAR is larger than a     *)
(* window's alignment.                                                     *)
EXTENDS PciBus

Bar(space, size) == [space |-> space, size |-> size]

Fn(parent, bridge, vga, bars) ==
  [parent |-> parent, bridge |-> bridge, vga |-> vga, bars |-> bars]

WellFormed(t) ==
  \A k \in DOMAIN t :
    /\ t[k].parent # 0 => t[t[k].parent].bridge
    /\ \A j \in t[k].parent + 1 .. k - 1 : t[j].parent >= t[k].parent

TreesOver(n, kinds) ==
  {t \in [1 .. n -> {Fn(p, k.bridge, k.vga, k.bars) : p \in 0 .. n - 1, k \in kinds}] :
     /\ \A k \in 1 .. n : t[k].parent < k
     /\ WellFormed(t)}

Kind(bridge, vga, bars) == [bridge |-> bridge, vga |-> vga, bars |-> bars]

Kinds ==
  { Kind(TRUE, FALSE, << >>),
    Kind(FALSE, FALSE, <<Bar("io", 1), Bar("mem", 1)>>),
    Kind(FALSE, FALSE, <<Bar("io", 2), Bar("mem", 2)>>),
    Kind(FALSE, TRUE, <<Bar("pref", 2), Bar("mem", 1)>>) }

MCTrees == UNION {TreesOver(n, Kinds) : n \in 1 .. 5}
MCRams  == {100, 200}

(* A graphics card with n units of memory behind a bridge: the AGP bridge  *)
(* at 00:01.0, or one behind a device that takes the first addresses.      *)
AgpTrees ==
  { << Fn(0, TRUE, FALSE, << >>),
       Fn(1, FALSE, TRUE, <<Bar("mem", n), Bar("io", 1)>>) >> : n \in {2, 32, 64} }
  \cup
  { << Fn(0, FALSE, FALSE, <<Bar("mem", 1)>>),
       Fn(0, TRUE, FALSE, << >>),
       Fn(2, FALSE, TRUE, <<Bar("mem", n), Bar("io", 1)>>) >> : n \in {2, 32} }
AgpRams == {128, 160}
=============================================================================
