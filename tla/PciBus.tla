------------------------------- MODULE PciBus -------------------------------
(***************************************************************************)
(* PCI enumeration (bios_pci_bus.c): a first pass over the tree numbers    *)
(* the buses and measures what the functions on each bus ask for, a second *)
(* one assigns addresses to the base address registers (BARs) and windows  *)
(* to the bridges.                                                         *)
(*                                                                         *)
(* The recursion over buses is a walk over the functions in the order in   *)
(* which it meets them: a bridge comes right before what is behind it.     *)
(* Addresses stay far below 2^32, where the code would wrap.               *)
(***************************************************************************)
EXTENDS Naturals, Sequences, FiniteSets

CONSTANTS
  Trees,       \* sequences of functions [parent, bridge, vga, bars]
  Rams,        \* what total_bytes may be
  MaxBus,      \* PCI_MAX_BUS
  MaxBridges,  \* PCI_MAX_BRIDGES
  IoBase,      \* PCI_ROOT_IO_BASE
  MemMin,      \* PCI_ROOT_MEM_MIN_BASE
  RootAlign,   \* PCI_ROOT_MEM_ALIGN
  IoAlign,     \* PCI_BRIDGE_IO_ALIGN
  MemAlign     \* PCI_BRIDGE_MEM_ALIGN

Spaces == {"io", "mem", "pref"}

(* What configuration space tells of a function; a class code is that of a *)
(* bridge or of a VGA card.                                                *)
IsFunction(f) ==
  /\ f \in [parent : Nat, bridge : BOOLEAN, vga : BOOLEAN,
            bars : Seq([space : Spaces, size : Nat \ {0}])]
  /\ ~(f.bridge /\ f.vga)

(* In a tree, function k is on the bus behind its parent bridge, or on bus *)
(* 0 when its parent is 0.                                                 *)
IsTree(t) ==
  /\ DOMAIN t = 1 .. Len(t) /\ Len(t) \in Nat
  /\ \A k \in 1 .. Len(t) :
       /\ IsFunction(t[k]) /\ t[k].parent < k
       /\ t[k].parent # 0 => t[t[k].parent].bridge
       /\ \A j \in t[k].parent + 1 .. k - 1 : t[j].parent >= t[k].parent

(* The bases are multiples of the alignments, as in bios_pci_bus.c:11-15.  *)
ASSUME PciAssumption ==
  /\ \A t \in Trees : IsTree(t)
  /\ MaxBus \in Nat \ {0} /\ MaxBridges \in Nat /\ IoBase \in Nat
  /\ MemMin \in Nat /\ Rams \subseteq Nat
  /\ RootAlign \in Nat \ {0} /\ IoAlign \in Nat \ {0} /\ MemAlign \in Nat \ {0}
  /\ IoBase % IoAlign = 0 /\ MemMin % RootAlign = 0 /\ RootAlign % MemAlign = 0

VARIABLES
  fns, ram,   \* the machine
  pass,       \* "measure", "assign" or "done"
  at, bar,    \* the next function, and the next of its BARs
  bus,        \* the bus the walk is on: the bridge in front of it, or 0
  req,        \* bus -> what was asked for on it, by address space, and
              \*   whether there is a VGA card
  nextBus,    \* the next bus number
  secondary, subordinate,  \* bridge -> its bus numbers
  need,       \* bridge -> the sizes of its windows; its domain is the
              \*   table of bridges
  alloc,      \* bus -> the next free address of each space
  ranges,     \* the BARs assigned: [fn, space, base, size]
  windows,    \* the windows of the bridges, likewise
  forward     \* the bridges that pass VGA cycles on

measuring == <<req, nextBus, secondary, subordinate, need>>
assigning == <<alloc, ranges, windows, forward>>
vars == <<fns, ram, pass, at, bar, bus, measuring, assigning>>

-----------------------------------------------------------------------------
Nothing == [io |-> 0, mem |-> 0, pref |-> 0, vga |-> FALSE]

With(f, k, value) ==
  [j \in DOMAIN f \cup {k} |-> IF j = k THEN value ELSE f[j]]

AlignUp(value, align) == ((value + align - 1) \div align) * align

WindowAlign(space) == IF space = "io" THEN IoAlign ELSE MemAlign

WindowSize(size, space) == AlignUp(size, WindowAlign(space))

(* The first function behind the k-th that is not below it.                *)
After(k) ==
  CHOOSE j \in k + 1 .. Len(fns) + 1 :
    /\ j = Len(fns) + 1 \/ fns[j].parent < k
    /\ \A i \in k + 1 .. j - 1 : fns[i].parent >= k

(* Is the next function on the bus the walk is on?                         *)
Here == at <= Len(fns) /\ fns[at].parent = bus

FaultAdded(cursor, size, align) == cursor + size

(* pci_req_add, which asks for nothing when the size is 0.                 *)
Added(cursor, size, align) ==
  IF size = 0 THEN cursor ELSE AlignUp(cursor, align) + size

FaultWithWindows(r, w) ==
  [s \in Spaces \cup {"vga"} |->
     IF s = "vga" THEN r.vga ELSE Added(r[s], w[s], WindowAlign(s))]

(* What is asked for on a bus with a bridge that needs these windows.      *)
WithWindows(r, w) ==
  [s \in Spaces \cup {"vga"} |->
     IF s = "vga" THEN r.vga \/ w.vga
     ELSE Added(r[s], w[s], WindowAlign(s))]

TableFull ==
  Cardinality(DOMAIN need) >= MaxBridges \/ nextBus >= MaxBus

-----------------------------------------------------------------------------
Init ==
  /\ fns \in Trees /\ ram \in Rams
  /\ pass = "measure" /\ at = 1 /\ bar = 1 /\ bus = 0
  /\ req = [b \in {0} |-> Nothing] /\ nextBus = 1
  /\ secondary = << >> /\ subordinate = << >> /\ need = << >>
  /\ alloc = << >> /\ ranges = {} /\ windows = {} /\ forward = {}

(* pci_measure_bus: one BAR of the next function,                          *)
MeasureBar ==
  /\ pass = "measure" /\ Here /\ bar <= Len(fns[at].bars)
  /\ LET b == fns[at].bars[bar]
     IN  req' = [req EXCEPT ![bus][b.space] = Added(@, b.size, b.size)]
  /\ bar' = bar + 1
  /\ UNCHANGED <<fns, ram, pass, at, bus, nextBus, secondary, subordinate, need,
                 assigning>>

(* a device, after its BARs,                                               *)
MeasureDevice ==
  /\ pass = "measure" /\ Here /\ bar > Len(fns[at].bars) /\ ~fns[at].bridge
  /\ req' = [req EXCEPT ![bus].vga = @ \/ fns[at].vga]
  /\ at' = at + 1 /\ bar' = 1
  /\ UNCHANGED <<fns, ram, pass, bus, nextBus, secondary, subordinate, need,
                 assigning>>

(* a bridge: it gets an entry in the table and a bus number, and the walk  *)
(* goes on behind it,                                                      *)
EnterBridge ==
  /\ pass = "measure" /\ Here /\ bar > Len(fns[at].bars) /\ fns[at].bridge
  /\ ~TableFull
  /\ need' = With(need, at, Nothing) /\ req' = With(req, at, Nothing)
  /\ secondary' = With(secondary, at, nextBus) /\ nextBus' = nextBus + 1
  /\ bus' = at /\ at' = at + 1 /\ bar' = 1
  /\ UNCHANGED <<fns, ram, pass, subordinate, assigning>>

(* a bridge too many, passed over with all there is behind it,             *)
SkipBridge ==
  /\ pass = "measure" /\ Here /\ bar > Len(fns[at].bars) /\ fns[at].bridge
  /\ TableFull
  /\ at' = After(at) /\ bar' = 1
  /\ UNCHANGED <<fns, ram, pass, bus, measuring, assigning>>

FaultLeaveBus ==
  /\ pass = "measure" /\ ~Here /\ bus # 0
  /\ LET windowed == [s \in Spaces \cup {"vga"} |->
                        IF s = "vga" THEN req[bus].vga ELSE WindowSize(req[bus][s], s)]
         up == fns[bus].parent
     IN  /\ need' = [need EXCEPT ![bus] = windowed]
         /\ req' = [req EXCEPT ![up] = WithWindows(req[up], windowed)]
         /\ bus' = up
  /\ subordinate' = With(subordinate, bus, secondary[bus])
  /\ UNCHANGED <<fns, ram, pass, at, bar, nextBus, secondary, assigning>>

(* and the end of a bus behind a bridge: its windows are known, rounded up *)
(* to what a bridge can decode, and asked for on the bus in front of it.   *)
LeaveBus ==
  /\ pass = "measure" /\ ~Here /\ bus # 0
  /\ LET windowed == [s \in Spaces \cup {"vga"} |->
                        IF s = "vga" THEN req[bus].vga ELSE WindowSize(req[bus][s], s)]
         up == fns[bus].parent
     IN  /\ need' = [need EXCEPT ![bus] = windowed]
         /\ req' = [req EXCEPT ![up] = WithWindows(req[up], windowed)]
         /\ bus' = up
  /\ subordinate' = With(subordinate, bus, nextBus - 1)
  /\ UNCHANGED <<fns, ram, pass, at, bar, nextBus, secondary, assigning>>
-----------------------------------------------------------------------------
(* Where PCI memory begins: behind the DRAM.                               *)
MemBase ==
  LET aligned == AlignUp(ram, RootAlign)
  IN  IF aligned < MemMin THEN MemMin ELSE aligned

(* Prefetchable memory follows what was measured for the other.            *)
PrefBase ==
  AlignUp(MemBase + (IF req[0].mem = 0 THEN 0 ELSE AlignUp(req[0].mem, RootAlign)),
          RootAlign)

Root == [io |-> IoBase, mem |-> MemBase, pref |-> PrefBase]

(* pci_bus_enumerate_and_assign between its passes.                        *)
StartAssigning ==
  /\ pass = "measure" /\ at > Len(fns) /\ bus = 0
  /\ pass' = "assign" /\ at' = 1 /\ bar' = 1
  /\ alloc' = [b \in {0} |-> Root]
  /\ UNCHANGED <<fns, ram, bus, measuring, ranges, windows, forward>>

Range(fn, space, base, size) ==
  [fn |-> fn, space |-> space, base |-> base, size |-> size]

FaultAssignBar ==
  /\ pass = "assign" /\ Here /\ bar <= Len(fns[at].bars)
  /\ LET b    == fns[at].bars[bar]
         base == AlignUp(alloc[bus][b.space], b.size)
     IN  /\ ranges' = ranges \cup {Range(at, b.space, base, b.size)}
         /\ alloc' = [alloc EXCEPT ![bus][b.space] = base]
  /\ bar' = bar + 1
  /\ UNCHANGED <<fns, ram, pass, at, bus, measuring, windows, forward>>

(* pci_assign_bus: one BAR, at the next address its size is aligned at,    *)
AssignBar ==
  /\ pass = "assign" /\ Here /\ bar <= Len(fns[at].bars)
  /\ LET b    == fns[at].bars[bar]
         base == AlignUp(alloc[bus][b.space], b.size)
     IN  /\ ranges' = ranges \cup {Range(at, b.space, base, b.size)}
         /\ alloc' = [alloc EXCEPT ![bus][b.space] = base + b.size]
  /\ bar' = bar + 1
  /\ UNCHANGED <<fns, ram, pass, at, bus, measuring, windows, forward>>

(* a bridge of the table: its windows, and what is behind it inside them,  *)
OpenBridge ==
  /\ pass = "assign" /\ Here /\ bar > Len(fns[at].bars) /\ at \in DOMAIN need
  /\ LET Base(s) == IF need[at][s] = 0 THEN 0
                    ELSE AlignUp(alloc[bus][s], WindowAlign(s))
         rest == [s \in Spaces |-> IF need[at][s] = 0 THEN alloc[bus][s]
                                   ELSE Base(s) + need[at][s]]
     IN  /\ windows' = windows \cup
              {Range(at, s, Base(s), need[at][s]) : s \in {t \in Spaces : need[at][t] # 0}}
         /\ alloc' = With([alloc EXCEPT ![bus] = rest], at, [s \in Spaces |-> Base(s)])
  /\ forward' = (IF need[at].vga THEN forward \cup {at} ELSE forward)
  /\ bus' = at /\ at' = at + 1 /\ bar' = 1
  /\ UNCHANGED <<fns, ram, pass, measuring, ranges>>

(* a device after its BARs, or a bridge that is not in the table,          *)
PassOver ==
  /\ pass = "assign" /\ Here /\ bar > Len(fns[at].bars) /\ at \notin DOMAIN need
  /\ at' = After(at) /\ bar' = 1
  /\ UNCHANGED <<fns, ram, pass, bus, measuring, assigning>>

(* and the end of a bus.                                                   *)
CloseBridge ==
  /\ pass = "assign" /\ ~Here /\ bus # 0
  /\ bus' = fns[bus].parent
  /\ UNCHANGED <<fns, ram, pass, at, bar, measuring, assigning>>

Finish ==
  /\ pass = "assign" /\ at > Len(fns) /\ bus = 0
  /\ pass' = "done"
  /\ UNCHANGED <<fns, ram, at, bar, bus, measuring, assigning>>

Next ==
  \/ MeasureBar \/ MeasureDevice \/ EnterBridge \/ SkipBridge \/ LeaveBus
  \/ StartAssigning
  \/ AssignBar \/ OpenBridge \/ PassOver \/ CloseBridge \/ Finish

Spec == Init /\ [][Next]_vars
-----------------------------------------------------------------------------
Bridges == DOMAIN need

(* Is function k behind bridge b?                                          *)
Behind(k, b) == b < k /\ \A j \in b + 1 .. k : fns[j].parent >= b

(* Configuration cycles find their way: the bus numbers a bridge passes on *)
(* are those of exactly the bridges behind it, and below the limit.        *)
BusNumbersNest ==
  pass = "done" =>
    /\ nextBus <= MaxBus
    /\ \A a, b \in Bridges :
         secondary[b] \in secondary[a] .. subordinate[a] <=> b = a \/ Behind(b, a)

Inside(r, w) ==
  /\ r.space = w.space
  /\ w.base <= r.base /\ r.base + r.size <= w.base + w.size

(* specs/440bx.md, "PCI resource assignment": endpoint allocation is not   *)
(* enough, the bridges must have windows for what is behind them.  Every   *)
(* BAR and window behind a bridge is inside a window of that bridge.       *)
WindowsCover ==
  \A r \in ranges \cup windows :
    fns[r.fn].parent # 0 =>
      \E w \in windows : w.fn = fns[r.fn].parent /\ Inside(r, w)

Memory(r) == r.space # "io"

Collide(r, s) ==
  /\ Memory(r) = Memory(s)
  /\ r.base < s.base + s.size /\ s.base < r.base + r.size

(* No address is given out twice, in I/O space or in memory, prefetchable  *)
(* or not; a window holds no BAR of a function that is not behind its      *)
(* bridge; and low RAM is not used for PCI memory (specs/440bx.md).        *)
NoConflict ==
  /\ \A r, s \in ranges : r # s => ~Collide(r, s)
  /\ \A w \in windows, r \in ranges : Collide(w, r) => Behind(r.fn, w.fn)
  /\ \A r \in ranges \cup windows : Memory(r) => r.base >= ram

(* VGA cycles reach a VGA card: every bridge on the way passes them on,    *)
(* and no bridge without a card behind it does.                            *)
VgaForwarded ==
  pass = "done" =>
    \A b \in Bridges :
      b \in forward <=>
        \E k \in 1 .. Len(fns) :
          /\ fns[k].vga /\ Behind(k, b)
          /\ \A a \in 1 .. k - 1 : Behind(k, a) => a \in Bridges
=============================================================================
