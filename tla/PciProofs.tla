----------------------------- MODULE PciProofs -----------------------------
(* Theorems about the enumeration of the PCI buses, for every tree of      *)
(* bridges and functions, every set of BARs and every amount of memory.    *)
(* First where the walks are and what they number and forward, by the      *)
(* invariants WalkInv, NumberInv and VgaInv.  Then what they measure and   *)
(* assign: WindowInv says that what is measured is what Trace adds up in   *)
(* the order of the walk, Placed that the second pass puts it in the same  *)
(* places, only moved by a multiple of the alignment.  From these follow   *)
(* the two theorems on addresses, where Fits holds.                        *)
EXTENDS PciBus, TLAPS, WellFoundedInduction

N == Len(fns)
Parent(k) == fns[k].parent

(* The bridges whose buses the walk is on.                                 *)
Open == {b \in 1 .. N : b = bus \/ Behind(bus, b)}

(* A function that the walks get to.                                       *)
Visible(k) == Parent(k) = 0 \/ Parent(k) \in Bridges

(* Between two steps: the functions behind an open bridge, up to where the *)
(* walk is, are the ones that follow it; those still to come are on open   *)
(* buses or behind functions still to come.                                *)
SpotInv ==
  /\ at \in 1 .. N + 1 /\ bus \in 0 .. N /\ bus < at
  /\ \A b \in Open : \A j \in b + 1 .. at - 1 : Parent(j) >= b
  /\ \A j \in at .. N : Parent(j) >= at \/ Parent(j) \in {0} \cup Open

(* The tree: functions are listed in the order a full walk visits them.    *)
LEMMA TreeFacts ==
  ASSUME fns \in Trees
  PROVE  /\ N \in Nat /\ DOMAIN fns = 1 .. N
         /\ \A k \in 1 .. N :
              /\ Parent(k) \in 0 .. k - 1 /\ IsFunction(fns[k])
              /\ Parent(k) # 0 => fns[Parent(k)].bridge
              /\ \A j \in Parent(k) + 1 .. k - 1 : Parent(j) >= Parent(k)
PROOF
  <1>1. IsTree(fns)
    BY PciAssumption
  <1>2. \A k \in 1 .. N : Parent(k) \in Nat
    BY <1>1 DEF IsTree, IsFunction, N, Parent
  <1> QED
    BY <1>1, <1>2 DEF IsTree, N, Parent

(* Behind is the closure of Parent, ...                                    *)
LEMMA Chain ==
  ASSUME fns \in Trees, NEW k \in 1 .. N, NEW b \in 1 .. N
  PROVE  Behind(k, b) <=> Parent(k) = b \/ (Parent(k) \in 1 .. N /\ Behind(Parent(k), b))
PROOF
  <1> DEFINE p == Parent(k)
  <1>1. /\ N \in Nat /\ p \in 0 .. k - 1
        /\ \A j \in p + 1 .. k - 1 : Parent(j) >= p
        /\ \A j \in 1 .. N : Parent(j) \in 0 .. j - 1
    BY TreeFacts
  <1>2. ASSUME Behind(k, b) PROVE p = b \/ (p \in 1 .. N /\ Behind(p, b))
    <2>1. b < k /\ \A j \in b + 1 .. k : Parent(j) >= b
      BY <1>2 DEF Behind, Parent
    <2>2. p >= b
      BY <2>1
    <2>3. CASE p > b
      BY <1>1, <2>1, <2>3 DEF Behind, Parent
    <2> QED
      BY <1>1, <2>2, <2>3
  <1>3. ASSUME p = b PROVE Behind(k, b)
    <2>1. \A j \in b + 1 .. k : Parent(j) >= b
      BY <1>1, <1>3
    <2> QED
      BY <1>1, <1>3, <2>1 DEF Behind, Parent
  <1>4. ASSUME p \in 1 .. N, Behind(p, b) PROVE Behind(k, b)
    <2>1. b < p /\ \A j \in b + 1 .. p : Parent(j) >= b
      BY <1>4 DEF Behind, Parent
    <2>2. \A j \in p + 1 .. k : Parent(j) >= p
      BY <1>1
    <2>3. \A j \in b + 1 .. k : Parent(j) >= b
      <3> TAKE j \in b + 1 .. k
      <3>1. j \in b + 1 .. p \/ j \in p + 1 .. k
        BY <1>1
      <3>2. j \in 1 .. N
        BY <1>1
      <3> QED
        BY <1>1, <2>1, <2>2, <3>1, <3>2
    <2> QED
      BY <1>1, <2>1, <2>3 DEF Behind, Parent
  <1> QED
    BY <1>2, <1>3, <1>4

(* ... and so is transitive (by induction on the path to k).               *)
LEMMA Transitive ==
  ASSUME fns \in Trees, NEW k \in 1 .. N, NEW b \in 1 .. N, NEW a \in 1 .. N,
         Behind(k, b), Behind(b, a)
  PROVE  Behind(k, a)
PROOF
  <1>1. \A j \in 1 .. N : Parent(j) \in Nat /\ N \in Nat
    BY TreeFacts
  <1>2. a < b /\ b < k /\ \A j \in a + 1 .. b : Parent(j) >= a
    BY DEF Behind, Parent
  <1>3. \A j \in b + 1 .. k : Parent(j) >= b
    BY DEF Behind, Parent
  <1>4. \A j \in a + 1 .. k : Parent(j) >= a
    <2> TAKE j \in a + 1 .. k
    <2>1. j \in 1 .. N /\ (j \in a + 1 .. b \/ j \in b + 1 .. k)
      BY <1>1, <1>2
    <2> QED
      BY <1>1, <1>2, <1>3, <2>1
  <1> QED
    BY <1>2, <1>4 DEF Behind, Parent

(* A set of naturals has a smallest element.                               *)
LEMMA Smallest ==
  ASSUME NEW T \in SUBSET Nat, T # {}
  PROVE  \E m \in T : \A n \in T : m <= n
PROOF
  <1> DEFINE R == OpToRel(<, Nat)
  <1>1. IsWellFoundedOn(R, Nat)
    BY NatLessThanWellFounded
  <1>2. \A x, y \in Nat : y < x => <<y, x>> \in R
    BY DEF OpToRel
  <1> HIDE DEF R
  <1>3. PICK m \in T : \A n \in T : ~(<<n, m>> \in R)
    BY <1>1, WFMin
  <1>4. \A n \in T : ~(n < m) /\ n \in Nat /\ m \in Nat
    BY <1>2, <1>3
  <1> QED
    BY <1>4

(* After(k) is the first function that is not behind k.                    *)
LEMMA AfterLemma ==
  ASSUME fns \in Trees, NEW k \in 1 .. N
  PROVE  /\ After(k) \in k + 1 .. N + 1
         /\ After(k) = N + 1 \/ Parent(After(k)) < k
         /\ \A i \in k + 1 .. After(k) - 1 : Parent(i) >= k
         /\ ~fns[k].bridge => After(k) = k + 1
PROOF
  <1>0. N \in Nat /\ \A j \in 1 .. N : Parent(j) \in 0 .. j - 1
    BY TreeFacts
  <1> DEFINE T == {j \in k + 1 .. N + 1 : j = N + 1 \/ Parent(j) < k}
  <1>1. T \in SUBSET Nat /\ N + 1 \in T
    BY <1>0
  <1> HIDE DEF T
  <1>2. PICK m \in T : \A n \in T : m <= n
    BY <1>1, Smallest
  <1>3. m \in k + 1 .. N + 1 /\ (m = N + 1 \/ Parent(m) < k)
    BY DEF T
  <1>4. \A i \in k + 1 .. m - 1 : Parent(i) >= k
    <2> TAKE i \in k + 1 .. m - 1
    <2>1. i \in k + 1 .. N + 1 /\ i # N + 1 /\ i \in 1 .. N
      BY <1>0, <1>3
    <2>2. i \notin T
      BY <1>2, <1>3, <2>1
    <2> QED
      BY <1>0, <2>1, <2>2 DEF T
  <1>5. /\ After(k) \in k + 1 .. N + 1
        /\ After(k) = N + 1 \/ Parent(After(k)) < k
        /\ \A i \in k + 1 .. After(k) - 1 : Parent(i) >= k
    <2>1. \E j \in k + 1 .. Len(fns) + 1 :
            /\ j = Len(fns) + 1 \/ fns[j].parent < k
            /\ \A i \in k + 1 .. j - 1 : fns[i].parent >= k
      BY <1>3, <1>4 DEF N, Parent
    <2> QED
      BY <2>1 DEF After, N, Parent
  <1>6. ASSUME ~fns[k].bridge PROVE After(k) = k + 1
    <2>1. \A j \in 1 .. N : Parent(j) # k
      <3>1. ASSUME NEW j \in 1 .. N, Parent(j) = k PROVE FALSE
        <4>1. k # 0
          OBVIOUS
        <4> QED
          BY <1>6, <3>1, <4>1, TreeFacts
      <3> QED
        BY <3>1
    <2>2. CASE After(k) # k + 1
      <3>1. k + 1 \in k + 1 .. After(k) - 1 /\ k + 1 \in 1 .. N
        BY <1>0, <1>5, <2>2
      <3>2. Parent(k + 1) >= k /\ Parent(k + 1) \in 0 .. k
        BY <1>0, <1>5, <3>1
      <3> QED
        BY <2>1, <3>1, <3>2
    <2> QED
      BY <2>2
  <1> QED
    BY <1>5, <1>6
-----------------------------------------------------------------------------
(* The ways the walk moves.                                                *)

SameTree == UNCHANGED fns

LEMMA Same ==
  ASSUME SameTree
  PROVE  /\ N' = N
         /\ \A k : Parent(k)' = Parent(k)
         /\ \A k, b : Behind(k, b)' <=> Behind(k, b)
PROOF
  BY DEF SameTree, N, Parent, Behind

(* Of the open bridges, the bus of the walk is the innermost.              *)
LEMMA OpenFacts ==
  ASSUME fns \in Trees, bus \in 0 .. N
  PROVE  /\ bus # 0 => bus \in Open
         /\ \A b \in Open : b \in 1 .. N /\ b <= bus /\ (b # bus => b < bus /\ Behind(bus, b))
         /\ bus = 0 => Open = {}
PROOF
  <1>1. N \in Nat
    BY TreeFacts
  <1> QED
    BY <1>1 DEF Open, Behind

(* Over a function, with all that is behind it, ...                        *)
LEMMA PassSpot ==
  ASSUME fns \in Trees, SpotInv, Here, SameTree, at' = After(at), UNCHANGED bus
  PROVE  SpotInv' /\ Open' = Open
PROOF
  <1>0. /\ N \in Nat /\ N' = N /\ at \in 1 .. N /\ bus \in 0 .. N /\ bus < at
        /\ Parent(at) = bus
        /\ \A k : Parent(k)' = Parent(k)
        /\ \A k \in 1 .. N : Parent(k) \in 0 .. k - 1
    BY TreeFacts, Same DEF SpotInv, Here, N, Parent
  <1>1. Open' = Open
    BY Same, <1>0 DEF Open
  <1>2. /\ After(at) \in at + 1 .. N + 1
        /\ After(at) = N + 1 \/ Parent(After(at)) < at
        /\ \A i \in at + 1 .. After(at) - 1 : Parent(i) >= at
    BY <1>0, AfterLemma
  <1>3. ASSUME NEW b \in Open, NEW j \in b + 1 .. After(at) - 1 PROVE Parent(j) >= b
    <2>1. b \in 1 .. N /\ b <= bus
      BY <1>0, OpenFacts
    <2>2. CASE j < at
      BY <2>1, <2>2, <1>0 DEF SpotInv
    <2>3. CASE j = at
      BY <2>1, <2>3, <1>0
    <2>4. CASE j > at
      <3>1. j \in at + 1 .. After(at) - 1 /\ j \in 1 .. N
        BY <2>1, <2>4, <1>0, <1>2
      <3> QED
        BY <2>1, <3>1, <1>0, <1>2
    <2> QED
      BY <1>0, <1>2, <2>1, <2>2, <2>3, <2>4
  <1>4. ASSUME NEW j \in After(at) .. N, Parent(j) < After(at)
        PROVE  Parent(j) \in {0} \cup Open
    <2>1. j \in at .. N /\ j \in 1 .. N
      BY <1>0, <1>2
    <2>2. CASE Parent(j) >= at
      <3> DEFINE m == After(at)
      <3>1. m \in 1 .. N /\ Parent(m) < at
        BY <1>0, <1>2
      <3>2. j # m
        BY <1>0, <2>2, <3>1
      <3>3. m \in Parent(j) + 1 .. j - 1
        BY <1>0, <1>2, <1>4, <2>1, <3>1, <3>2
      <3>4. Parent(m) >= Parent(j)
        BY <2>1, <3>3, TreeFacts
      <3> QED
        BY <1>0, <2>1, <2>2, <3>1, <3>4
    <2> QED
      BY <1>0, <2>1, <2>2 DEF SpotInv
  <1>5. at' \in 1 .. N' + 1 /\ bus' \in 0 .. N' /\ bus' < at'
    BY <1>0, <1>2
  <1>6. \A b \in Open' : \A j \in b + 1 .. at' - 1 : Parent(j)' >= b
    BY <1>0, <1>1, <1>3
  <1>7. \A j \in at' .. N' : Parent(j)' >= at' \/ Parent(j)' \in {0} \cup Open'
    <2> TAKE j \in at' .. N'
    <2>1. j \in After(at) .. N /\ j \in 1 .. N
      BY <1>0, <1>2
    <2>2. Parent(j) < After(at) \/ Parent(j) >= After(at)
      BY <1>0, <1>2, <2>1
    <2> QED
      BY <1>0, <1>1, <1>4, <2>1, <2>2
  <1> QED
    BY <1>1, <1>5, <1>6, <1>7 DEF SpotInv

(* ... into the bus behind a bridge, ...                                   *)
LEMMA DescendSpot ==
  ASSUME fns \in Trees, SpotInv, Here, SameTree, at' = at + 1, bus' = at
  PROVE  SpotInv' /\ Open' = Open \cup {at}
PROOF
  <1>0. /\ N \in Nat /\ N' = N /\ at \in 1 .. N /\ bus \in 0 .. N /\ bus < at
        /\ Parent(at) = bus
        /\ \A k : Parent(k)' = Parent(k)
        /\ \A k \in 1 .. N : Parent(k) \in 0 .. k - 1
    BY TreeFacts, Same DEF SpotInv, Here, N, Parent
  <1>1. Open' = Open \cup {at}
    <2>1. \A b \in 1 .. N : Behind(at, b) <=> b = bus \/ Behind(bus, b)
      <3> TAKE b \in 1 .. N
      <3>1. bus \notin 1 .. N => bus = 0 /\ b # bus /\ ~Behind(bus, b)
        BY <1>0 DEF Behind
      <3> QED
        BY <1>0, <3>1, Chain
    <2>2. Open' = {b \in 1 .. N : b = at \/ Behind(at, b)}
      BY <1>0, Same DEF Open
    <2> QED
      BY <1>0, <2>1, <2>2 DEF Open
  <1>2. at' \in 1 .. N' + 1 /\ bus' \in 0 .. N' /\ bus' < at'
    BY <1>0
  <1>3. \A b \in Open' : \A j \in b + 1 .. at' - 1 : Parent(j)' >= b
    <2> TAKE b \in Open'
    <2> TAKE j \in b + 1 .. at' - 1
    <2>1. CASE b = at
      BY <1>0, <2>1
    <2>2. CASE b \in Open
      <3>1. b \in 1 .. N /\ b <= bus
        BY <1>0, <2>2, OpenFacts
      <3>2. CASE j = at
        BY <1>0, <3>1, <3>2
      <3>3. CASE j # at
        <4>1. j \in b + 1 .. at - 1
          BY <1>0, <3>1, <3>3
        <4> QED
          BY <1>0, <2>2, <4>1 DEF SpotInv
      <3> QED
        BY <3>2, <3>3
    <2> QED
      BY <1>1, <2>1, <2>2
  <1>4. \A j \in at' .. N' : Parent(j)' >= at' \/ Parent(j)' \in {0} \cup Open'
    <2> TAKE j \in at' .. N'
    <2>1. j \in at .. N /\ j \in 1 .. N
      BY <1>0
    <2>2. Parent(j) >= at \/ Parent(j) \in {0} \cup Open
      BY <2>1 DEF SpotInv
    <2>3. Parent(j) >= at + 1 \/ Parent(j) = at \/ Parent(j) \in {0} \cup Open
      BY <1>0, <2>1, <2>2
    <2> QED
      BY <1>0, <1>1, <2>3
  <1> QED
    BY <1>1, <1>2, <1>3, <1>4 DEF SpotInv

(* ... and back: then nothing behind that bridge is left to visit.         *)
LEMMA LeaveSpot ==
  ASSUME fns \in Trees, SpotInv, ~Here, bus # 0, SameTree, UNCHANGED at, bus' = Parent(bus)
  PROVE  /\ SpotInv' /\ Open' = Open \ {bus}
         /\ \A j \in at .. N : ~Behind(j, bus)
PROOF
  <1>0. /\ N \in Nat /\ N' = N /\ at \in 1 .. N + 1 /\ bus \in 1 .. N /\ bus < at
        /\ at <= N => Parent(at) # bus
        /\ \A k : Parent(k)' = Parent(k)
        /\ \A k \in 1 .. N : Parent(k) \in 0 .. k - 1
    BY TreeFacts, Same DEF SpotInv, Here, N, Parent
  <1>1. Open' = Open \ {bus}
    <2>1. \A b \in 1 .. N : Behind(bus, b) <=> b = Parent(bus) \/ Behind(Parent(bus), b)
      <3> TAKE b \in 1 .. N
      <3>1. Parent(bus) \notin 1 .. N => Parent(bus) = 0 /\ b # Parent(bus) /\ ~Behind(Parent(bus), b)
        BY <1>0 DEF Behind
      <3> QED
        BY <1>0, <3>1, Chain
    <2>2. Open' = {b \in 1 .. N : b = Parent(bus) \/ Behind(Parent(bus), b)}
      BY <1>0, Same DEF Open
    <2>3. ~Behind(bus, bus)
      BY <1>0 DEF Behind
    <2> QED
      BY <1>0, <2>1, <2>2, <2>3 DEF Open
  <1>2. at <= N => Parent(at) < bus
    <2>1. CASE at <= N
      <3>1. at \in at .. N /\ at \in 1 .. N
        BY <1>0, <2>1
      <3>2. Parent(at) \in {0} \cup Open
        BY <1>0, <3>1 DEF SpotInv
      <3>3. Parent(at) \in Open => Parent(at) < bus
        BY <1>0, <2>1, OpenFacts
      <3> QED
        BY <1>0, <3>2, <3>3
    <2> QED
      BY <2>1
  <1>3. \A j \in at .. N : ~Behind(j, bus)
    <2> SUFFICES ASSUME NEW j \in at .. N, Behind(j, bus) PROVE FALSE
      OBVIOUS
    <2>1. at \in bus + 1 .. j
      BY <1>0
    <2>2. Parent(at) >= bus
      BY <2>1 DEF Behind, Parent
    <2> QED
      BY <1>0, <1>2, <2>2
  <1>4. bus' \in 0 .. N' /\ bus' < at'
    BY <1>0
  <1>5. \A b \in Open' : \A j \in b + 1 .. at' - 1 : Parent(j)' >= b
    BY <1>0, <1>1 DEF SpotInv
  <1>6. \A j \in at' .. N' : Parent(j)' >= at' \/ Parent(j)' \in {0} \cup Open'
    <2> TAKE j \in at' .. N'
    <2>1. j \in at .. N /\ j \in 1 .. N
      BY <1>0
    <2>2. Parent(j) >= at \/ Parent(j) \in {0} \cup Open
      BY <2>1 DEF SpotInv
    <2>3. Parent(j) # bus
      BY <1>0, <1>3, <2>1, Chain
    <2> QED
      BY <1>0, <1>1, <2>2, <2>3
  <1> QED
    BY <1>0, <1>1, <1>3, <1>4, <1>5, <1>6 DEF SpotInv
-----------------------------------------------------------------------------
(* Functions that grow by an entry.                                        *)

LEMMA Grown ==
  ASSUME NEW f, NEW k, NEW v, k \notin DOMAIN f
  PROVE  /\ DOMAIN With(f, k, v) = DOMAIN f \cup {k}
         /\ \A j \in DOMAIN f : With(f, k, v)[j] = f[j]
         /\ With(f, k, v)[k] = v
PROOF
  BY DEF With

LEMMA Void == DOMAIN << >> = {}
PROOF
  OBVIOUS

-----------------------------------------------------------------------------
(* Where the walks are, and which bridges are in the table.                *)

(* Buses are entered in both passes through bridges that have an entry,    *)
(* and only behind bridges that have one; in the first pass these are      *)
(* behind the walk.                                                        *)
WalkInv ==
  /\ fns \in Trees /\ ram \in Rams
  /\ pass \in {"measure", "assign", "done"}
  /\ bar \in Nat \ {0} /\ (bar # 1 => Here)
  /\ at <= N => bar <= Len(fns[at].bars) + 1
  /\ SpotInv
  /\ Bridges \subseteq {b \in 1 .. N : fns[b].bridge}
  /\ pass = "measure" => \A b \in Bridges : b < at
  /\ Open \subseteq Bridges
  /\ \A b \in Bridges, a \in 1 .. N : Behind(b, a) => a \in Bridges
  /\ pass = "done" => at = N + 1 /\ bus = 0

Restarted == bar' = 1 /\ UNCHANGED <<fns, ram, pass>>

LEMMA BarCount ==
  ASSUME fns \in Trees, NEW k \in 1 .. N
  PROVE  Len(fns[k].bars) \in Nat
PROOF
  BY TreeFacts DEF IsFunction

LEMMA StartLemma ==
  ASSUME fns \in Trees, at = 1, bus = 0
  PROVE  SpotInv /\ Open = {}
PROOF
  <1>1. N \in Nat /\ \A k \in 1 .. N : Parent(k) \in 0 .. k - 1
    BY TreeFacts
  <1>2. Open = {}
    BY <1>1, OpenFacts
  <1> QED
    BY <1>1, <1>2 DEF SpotInv

LEMMA WalkInitial == Init => WalkInv
PROOF
  <1> SUFFICES ASSUME Init PROVE WalkInv
    OBVIOUS
  <1>1. /\ fns \in Trees /\ at = 1 /\ bus = 0 /\ bar = 1 /\ ram \in Rams
        /\ pass = "measure" /\ Bridges = {}
    BY Void DEF Init, Bridges
  <1>2. SpotInv /\ Open = {} /\ N \in Nat
    BY <1>1, StartLemma, TreeFacts
  <1>3. 1 <= N => 1 <= Len(fns[1].bars) + 1
    BY <1>1, <1>2, BarCount
  <1> QED
    BY <1>1, <1>2, <1>3 DEF WalkInv

(* The four moves of the walks: to the next BAR, over a function, into a   *)
(* bus and out of it.                                                      *)
LEMMA WalkStay ==
  ASSUME WalkInv, Here, bar <= Len(fns[at].bars), bar' = bar + 1,
         UNCHANGED <<fns, ram, pass, at, bus, need>>
  PROVE  WalkInv' /\ Open' = Open
PROOF
  <1>1. N' = N /\ Open' = Open /\ SpotInv' /\ Bridges' = Bridges /\ Here'
    BY DEF WalkInv, N, Open, Behind, SpotInv, Parent, Bridges, Here
  <1>2. /\ fns' \in Trees /\ ram' \in Rams /\ pass' \in {"measure", "assign", "done"}
        /\ bar' \in Nat \ {0} /\ at \in 1 .. N
    BY DEF WalkInv, SpotInv, Here, N
  <1>3. bar' <= Len(fns'[at'].bars) + 1
    BY <1>2, BarCount DEF WalkInv
  <1>4. /\ Bridges' \subseteq {b \in 1 .. N' : fns'[b].bridge}
        /\ pass' = "measure" => \A b \in Bridges' : b < at'
        /\ Open' \subseteq Bridges'
        /\ \A b \in Bridges', a \in 1 .. N' : Behind(b, a)' => a \in Bridges'
        /\ pass' = "done" => at' = N' + 1 /\ bus' = 0
    BY <1>1 DEF WalkInv, Behind
  <1> QED
    BY <1>1, <1>2, <1>3, <1>4 DEF WalkInv

LEMMA WalkPass ==
  ASSUME WalkInv, pass # "done", Here, at' = After(at), UNCHANGED <<bus, need>>, Restarted
  PROVE  WalkInv' /\ Open' = Open /\ N' = N
PROOF
  <1>1. fns \in Trees /\ SpotInv /\ SameTree
    BY DEF WalkInv, SameTree, Restarted
  <1>2. SpotInv' /\ Open' = Open
    BY <1>1, PassSpot
  <1>3. N' = N /\ Bridges' = Bridges /\ N \in Nat /\ at \in 1 .. N
    BY <1>1, Same, TreeFacts DEF Bridges, SpotInv, Here, N
  <1>4. After(at) \in at + 1 .. N + 1
    BY <1>1, <1>3, AfterLemma
  <1>5. at' <= N' => bar' <= Len(fns'[at'].bars) + 1
    <2> SUFFICES ASSUME at' <= N' PROVE bar' <= Len(fns'[at'].bars) + 1
      OBVIOUS
    <2>1. After(at) \in 1 .. N
      BY <1>3, <1>4
    <2>2. Len(fns[After(at)].bars) \in Nat
      BY <1>1, <2>1, BarCount
    <2> QED
      BY <2>2 DEF Restarted
  <1>6. pass' = "measure" => \A b \in Bridges' : b < at'
    <2> SUFFICES ASSUME pass = "measure", NEW b \in Bridges PROVE b < After(at)
      BY <1>3 DEF Restarted
    <2>1. b < at /\ b \in 1 .. N
      BY DEF WalkInv
    <2> QED
      BY <1>3, <1>4, <2>1
  <1>7. \A b \in Bridges', a \in 1 .. N' : Behind(b, a)' => a \in Bridges'
    BY <1>1, <1>3, Same DEF WalkInv
  <1> QED
    BY <1>1, <1>2, <1>3, <1>5, <1>6, <1>7 DEF WalkInv, Restarted

LEMMA WalkDescend ==
  ASSUME WalkInv, Here, fns[at].bridge, at' = at + 1, bus' = at, Restarted,
         Bridges' = Bridges \cup {at}, pass # "done"
  PROVE  WalkInv' /\ Open' = Open \cup {at} /\ N' = N
PROOF
  <1>1. fns \in Trees /\ SpotInv /\ SameTree
    BY DEF WalkInv, SameTree, Restarted
  <1>2. SpotInv' /\ Open' = Open \cup {at}
    BY <1>1, DescendSpot
  <1>3. N' = N /\ N \in Nat /\ at \in 1 .. N /\ Parent(at) = bus
    BY <1>1, Same, TreeFacts DEF SpotInv, Here, N, Parent
  <1>5. at' <= N' => bar' <= Len(fns'[at'].bars) + 1
    <2> SUFFICES ASSUME at' <= N' PROVE bar' <= Len(fns'[at'].bars) + 1
      OBVIOUS
    <2>1. at + 1 \in 1 .. N
      BY <1>3
    <2>2. Len(fns[at + 1].bars) \in Nat
      BY <1>1, <2>1, BarCount
    <2> QED
      BY <2>2 DEF Restarted
  <1>6. pass' = "measure" => \A b \in Bridges' : b < at'
    <2> SUFFICES ASSUME pass = "measure", NEW b \in Bridges PROVE b < at
      BY <1>3 DEF Restarted, WalkInv
    <2> QED
      BY DEF WalkInv
  <1>7. \A b \in Bridges', a \in 1 .. N' : Behind(b, a)' => a \in Bridges'
    <2> SUFFICES ASSUME NEW b \in Bridges \cup {at}, NEW a \in 1 .. N, Behind(b, a)
                 PROVE  a \in Bridges
      BY <1>1, <1>3, Same
    <2>1. CASE b \in Bridges
      BY <2>1 DEF WalkInv
    <2>2. CASE b = at
      <3>1. a = bus \/ (bus \in 1 .. N /\ Behind(bus, a))
        BY <1>1, <1>3, <2>2, Chain
      <3>2. a \in Open
        BY <3>1 DEF Open
      <3> QED
        BY <3>2 DEF WalkInv
    <2> QED
      BY <2>1, <2>2
  <1>8. Bridges' \subseteq {b \in 1 .. N' : fns'[b].bridge}
    BY <1>3 DEF WalkInv, Restarted
  <1> QED
    BY <1>1, <1>2, <1>3, <1>5, <1>6, <1>7, <1>8 DEF WalkInv, Restarted

LEMMA WalkLeave ==
  ASSUME WalkInv, ~Here, bus # 0, bus' = fns[bus].parent,
         UNCHANGED <<fns, ram, pass, at, bar>>, Bridges' = Bridges, pass # "done"
  PROVE  /\ WalkInv' /\ Open' = Open \ {bus} /\ N' = N
         /\ \A j \in at .. N : ~Behind(j, bus)
PROOF
  <1>1. fns \in Trees /\ SpotInv /\ SameTree /\ bus' = Parent(bus)
    BY DEF WalkInv, SameTree, Parent
  <1>2. SpotInv' /\ Open' = Open \ {bus} /\ \A j \in at .. N : ~Behind(j, bus)
    BY <1>1, LeaveSpot
  <1>3. N' = N /\ \A b, a : Behind(b, a)' <=> Behind(b, a)
    BY <1>1, Same
  <1>4. bar' = 1
    BY DEF WalkInv
  <1> QED
    BY <1>2, <1>3, <1>4 DEF WalkInv

LEMMA WalkStep == WalkInv /\ [Next]_vars => WalkInv'
PROOF
  <1> SUFFICES ASSUME WalkInv, [Next]_vars PROVE WalkInv'
    OBVIOUS
  <1>0. fns \in Trees /\ SpotInv /\ (Here => at \in 1 .. N)
    BY DEF WalkInv, SpotInv, Here, N
  <1>1. CASE MeasureBar
    BY <1>1, WalkStay DEF MeasureBar
  <1>2. CASE MeasureDevice
    <2>1. After(at) = at + 1
      BY <1>0, <1>2, AfterLemma DEF MeasureDevice
    <2> QED
      BY <1>2, <2>1, WalkPass DEF MeasureDevice, Restarted
  <1>3. CASE EnterBridge
    <2>1. at \notin DOMAIN need
      BY <1>0, <1>3 DEF EnterBridge, WalkInv, Bridges
    <2>2. need' = With(need, at, Nothing)
      BY <1>3 DEF EnterBridge
    <2>3. Bridges' = Bridges \cup {at}
      BY <2>1, <2>2, Grown DEF Bridges
    <2> QED
      BY <1>3, <2>3, WalkDescend DEF EnterBridge, Restarted
  <1>4. CASE SkipBridge
    BY <1>4, WalkPass DEF SkipBridge, Restarted, measuring
  <1>5. CASE LeaveBus
    BY <1>5, WalkLeave DEF LeaveBus, Bridges
  <1>6. CASE StartAssigning
    <2>1. /\ fns' \in Trees /\ at' = 1 /\ bus' = 0 /\ bar' = 1 /\ pass' = "assign"
          /\ UNCHANGED <<fns, ram, need>>
      BY <1>6, <1>0 DEF StartAssigning, measuring
    <2>2. SpotInv' /\ Open' = {} /\ N' = N /\ N \in Nat
      <3>1. N \in Nat /\ \A k \in 1 .. N : Parent(k) \in 0 .. k - 1
        BY <1>0, TreeFacts
      <3>2. N' = N /\ \A k : Parent(k)' = Parent(k)
        BY <2>1, Same DEF SameTree
      <3>3. Open' = {}
        BY <2>1, <3>1, <3>2 DEF Open, Behind
      <3> QED
        BY <2>1, <3>1, <3>2, <3>3 DEF SpotInv
    <2>3. at' <= N' => bar' <= Len(fns'[at'].bars) + 1
      <3> SUFFICES ASSUME 1 <= N PROVE Len(fns[1].bars) \in Nat
        BY <2>1, <2>2
      <3> QED
        BY <1>0, <2>2, BarCount
    <2>4. \A b, a : Behind(b, a)' <=> Behind(b, a)
      BY <2>1, Same DEF SameTree
    <2> QED
      BY <2>1, <2>2, <2>3, <2>4 DEF WalkInv, Bridges
  <1>7. CASE AssignBar
    BY <1>7, WalkStay DEF AssignBar, measuring
  <1>8. CASE OpenBridge
    <2>1. Bridges' = Bridges \cup {at} /\ fns[at].bridge
      BY <1>8 DEF OpenBridge, Bridges, measuring, WalkInv
    <2> QED
      BY <1>8, <2>1, WalkDescend DEF OpenBridge, Restarted
  <1>9. CASE PassOver
    BY <1>9, WalkPass DEF PassOver, Restarted, measuring
  <1>10. CASE CloseBridge
    BY <1>10, WalkLeave DEF CloseBridge, Bridges, measuring
  <1>11. CASE Finish
    <2>1. /\ UNCHANGED <<fns, ram, at, bar, bus, need>> /\ at > N /\ bus = 0
          /\ pass' = "done"
      BY <1>11 DEF Finish, measuring, N
    <2>2. N' = N /\ Open' = Open /\ SpotInv' /\ Bridges' = Bridges /\ (Here' <=> Here)
      BY <2>1, <1>0 DEF N, Open, Behind, SpotInv, Parent, Bridges, Here
    <2>3. at = N + 1
      BY <1>0, <2>1, TreeFacts DEF SpotInv
    <2> QED
      BY <2>1, <2>2, <2>3 DEF WalkInv, Behind
  <1>12. CASE UNCHANGED vars
    <2>1. UNCHANGED <<fns, ram, pass, at, bar, bus, need>>
      BY <1>12 DEF vars, measuring
    <2>2. N' = N /\ Open' = Open /\ SpotInv' /\ Bridges' = Bridges /\ (Here' <=> Here)
      BY <2>1, <1>0 DEF N, Open, Behind, SpotInv, Parent, Bridges, Here
    <2> QED
      BY <2>1, <2>2 DEF WalkInv, Behind
  <1> QED
    BY <1>1, <1>2, <1>3, <1>4, <1>5, <1>6, <1>7, <1>8, <1>9, <1>10, <1>11, <1>12 DEF Next
-----------------------------------------------------------------------------
(* The bus numbers.                                                        *)

(* A bridge whose bus was left in the first pass.                          *)
Closed(b) == b \in Bridges /\ (pass # "measure" \/ b \notin Open)

(* Numbers are given in the order of the walk; a bridge whose bus was left *)
(* passes on those from its own to the last one given behind it.           *)
NumberInv ==
  /\ nextBus \in 1 .. MaxBus
  /\ DOMAIN secondary = Bridges /\ DOMAIN subordinate = {b \in Bridges : Closed(b)}
  /\ \A b \in Bridges : secondary[b] \in 1 .. nextBus - 1
  /\ \A a, b \in Bridges : a < b => secondary[a] < secondary[b]
  /\ \A a \in Bridges : Closed(a) =>
       /\ subordinate[a] \in secondary[a] .. nextBus - 1
       /\ pass = "measure" => \A j \in at .. N : ~Behind(j, a)
       /\ \A b \in Bridges : a < b => (secondary[b] <= subordinate[a] <=> Behind(b, a))

LEMMA NumbersInitial == Init => NumberInv
PROOF
  <1> SUFFICES ASSUME Init PROVE NumberInv
    OBVIOUS
  <1>1. Bridges = {} /\ DOMAIN secondary = {} /\ DOMAIN subordinate = {} /\ nextBus = 1
    BY Void DEF Init, Bridges
  <1> QED
    BY <1>1, PciAssumption DEF NumberInv

(* As long as the walk goes forward among the same bridges.                *)
LEMMA NumbersStay ==
  ASSUME WalkInv, NumberInv, WalkInv', N' = N, SameTree, Open' = Open, at' >= at,
         UNCHANGED <<pass, nextBus, secondary, subordinate, need>>
  PROVE  NumberInv'
PROOF
  <1>1. Bridges' = Bridges /\ (\A b, a : Behind(b, a)' <=> Behind(b, a))
        /\ \A b : Closed(b)' <=> Closed(b)
    BY Same DEF Bridges, Closed
  <1>2. at \in Nat /\ at' \in Nat /\ N \in Nat
    BY TreeFacts DEF WalkInv, SpotInv
  <1>3. \A j \in at' .. N : j \in at .. N
    BY <1>2
  <1> HIDE DEF Closed
  <1>4. \A a \in Bridges : Closed(a) =>
          /\ subordinate[a] \in secondary[a] .. nextBus - 1
          /\ pass = "measure" => \A j \in at' .. N : ~Behind(j, a)
          /\ \A b \in Bridges : a < b => (secondary[b] <= subordinate[a] <=> Behind(b, a))
    BY <1>3 DEF NumberInv
  <1>5. /\ nextBus' \in 1 .. MaxBus
        /\ DOMAIN secondary' = Bridges' /\ DOMAIN subordinate' = {b \in Bridges' : Closed(b)'}
        /\ \A b \in Bridges' : secondary'[b] \in 1 .. nextBus' - 1
        /\ \A a, b \in Bridges' : a < b => secondary'[a] < secondary'[b]
    BY <1>1 DEF NumberInv
  <1>6. \A a \in Bridges' : Closed(a)' =>
       /\ subordinate'[a] \in secondary'[a] .. nextBus' - 1
       /\ pass' = "measure" => \A j \in at' .. N' : ~Behind(j, a)'
       /\ \A b \in Bridges' : a < b => (secondary'[b] <= subordinate'[a] <=> Behind(b, a)')
    BY <1>1, <1>4
  <1> QED
    BY <1>5, <1>6 DEF NumberInv

LEMMA NumbersEnter ==
  ASSUME WalkInv, NumberInv, EnterBridge
  PROVE  NumberInv'
PROOF
  <1>0. /\ fns \in Trees /\ SameTree /\ N \in Nat /\ N' = N /\ Here
        /\ at \in 1 .. N /\ Parent(at) = bus /\ pass = "measure" /\ pass' = pass
    BY TreeFacts, Same DEF WalkInv, SpotInv, EnterBridge, Here, N, Parent, SameTree
  <1>1. at \notin Bridges /\ \A b \in Bridges : b < at /\ b \in 1 .. N
    BY <1>0 DEF WalkInv
  <1>2. /\ need' = With(need, at, Nothing) /\ secondary' = With(secondary, at, nextBus)
        /\ UNCHANGED subordinate /\ nextBus' = nextBus + 1 /\ ~TableFull
        /\ at' = at + 1
    BY DEF EnterBridge
  <1>3. Bridges' = Bridges \cup {at} /\ DOMAIN secondary' = Bridges'
        /\ secondary'[at] = nextBus /\ \A b \in Bridges : secondary'[b] = secondary[b]
    <2>1. at \notin DOMAIN need /\ at \notin DOMAIN secondary /\ DOMAIN secondary = Bridges
      BY <1>1 DEF Bridges, NumberInv
    <2>2. DOMAIN With(need, at, Nothing) = DOMAIN need \cup {at}
      BY <2>1, Grown
    <2>3. /\ DOMAIN With(secondary, at, nextBus) = Bridges \cup {at}
          /\ With(secondary, at, nextBus)[at] = nextBus
          /\ \A b \in Bridges : With(secondary, at, nextBus)[b] = secondary[b]
      BY <2>1 DEF With
    <2> QED
      BY <1>2, <2>2, <2>3 DEF Bridges
  <1>4. Open' = Open \cup {at}
    BY <1>0, <1>3, WalkDescend DEF EnterBridge, Restarted
  <1>5. \A b \in Bridges' : Closed(b)' <=> b # at /\ Closed(b)
    BY <1>0, <1>1, <1>3, <1>4 DEF Closed
  <1>6. \A b, a : Behind(b, a)' <=> Behind(b, a)
    BY <1>0, Same
  <1> HIDE DEF Closed
  <1>7. nextBus' \in 1 .. MaxBus
    BY <1>2, PciAssumption DEF TableFull, NumberInv
  <1>8. \A b \in Bridges' : secondary'[b] \in 1 .. nextBus' - 1
    BY <1>2, <1>3 DEF NumberInv
  <1>9. ASSUME NEW a \in Bridges', NEW b \in Bridges', a < b
        PROVE  secondary'[a] < secondary'[b]
    <2>1. a \in 1 .. N /\ b \in 1 .. N /\ a \in Bridges
      BY <1>0, <1>1, <1>3, <1>9
    <2>2. secondary[a] \in 1 .. nextBus - 1 /\ nextBus \in Nat
      BY <2>1 DEF NumberInv
    <2>3. CASE b = at
      BY <1>1, <1>3, <2>1, <2>2, <2>3
    <2>4. CASE b \in Bridges
      BY <1>3, <1>9, <2>1, <2>4 DEF NumberInv
    <2> QED
      BY <1>3, <2>3, <2>4
  <1>10. DOMAIN subordinate' = {b \in Bridges' : Closed(b)'}
    BY <1>1, <1>2, <1>3, <1>5 DEF NumberInv
  <1>11. ASSUME NEW a \in Bridges', Closed(a)'
         PROVE  /\ subordinate'[a] \in secondary'[a] .. nextBus' - 1
                /\ pass' = "measure" => \A j \in at' .. N' : ~Behind(j, a)'
                /\ \A b \in Bridges' : a < b => (secondary'[b] <= subordinate'[a] <=> Behind(b, a)')
    <2>1. a \in Bridges /\ Closed(a) /\ a # at
      BY <1>3, <1>5, <1>11
    <2>2. /\ subordinate[a] \in secondary[a] .. nextBus - 1
          /\ \A j \in at .. N : ~Behind(j, a)
          /\ \A b \in Bridges : a < b => (secondary[b] <= subordinate[a] <=> Behind(b, a))
          /\ nextBus \in Nat /\ secondary[a] \in Nat
      BY <1>0, <2>1 DEF NumberInv
    <2>3. \A j \in at' .. N' : ~Behind(j, a)'
      BY <1>0, <1>2, <1>6, <2>2
    <2>4. ASSUME NEW b \in Bridges', a < b
          PROVE  secondary'[b] <= subordinate'[a] <=> Behind(b, a)'
      <3>1. CASE b = at
        BY <1>0, <1>2, <1>3, <1>6, <2>2, <3>1
      <3>2. CASE b \in Bridges
        BY <1>2, <1>3, <1>6, <2>2, <2>4, <3>2
      <3> QED
        BY <1>3, <3>1, <3>2
    <2> QED
      BY <1>2, <1>3, <2>1, <2>2, <2>3, <2>4
  <1> QED
    BY <1>3, <1>7, <1>8, <1>9, <1>10, <1>11 DEF NumberInv

LEMMA NumbersLeave ==
  ASSUME WalkInv, NumberInv, LeaveBus
  PROVE  NumberInv'
PROOF
  <1>0. /\ fns \in Trees /\ SameTree /\ N \in Nat /\ ~Here /\ bus # 0
        /\ bus \in Open /\ bus \in Bridges /\ at \in 1 .. N + 1 /\ bus < at /\ bus \in Nat
        /\ pass = "measure" /\ pass' = pass /\ at' = at
    BY TreeFacts, OpenFacts DEF WalkInv, SpotInv, LeaveBus, SameTree
  <1>1. Bridges' = Bridges
    BY DEF LeaveBus, Bridges
  <1>2. N' = N /\ Open' = Open \ {bus} /\ \A j \in at .. N : ~Behind(j, bus)
    BY <1>0, <1>1, WalkLeave DEF LeaveBus
  <1>3. /\ subordinate' = With(subordinate, bus, nextBus - 1)
        /\ UNCHANGED <<secondary, nextBus>>
    BY DEF LeaveBus
  <1>4. ~Closed(bus) /\ bus \notin DOMAIN subordinate
    BY <1>0 DEF Closed, NumberInv
  <1>5. /\ DOMAIN subordinate' = DOMAIN subordinate \cup {bus}
        /\ subordinate'[bus] = nextBus - 1
        /\ \A a \in DOMAIN subordinate : subordinate'[a] = subordinate[a]
    <2>1. /\ DOMAIN With(subordinate, bus, nextBus - 1) = DOMAIN subordinate \cup {bus}
          /\ With(subordinate, bus, nextBus - 1)[bus] = nextBus - 1
          /\ \A a \in DOMAIN subordinate :
               With(subordinate, bus, nextBus - 1)[a] = subordinate[a]
      BY <1>4 DEF With
    <2> QED
      BY <1>3, <2>1
  <1>6. \A b : Closed(b)' <=> Closed(b) \/ b = bus
    BY <1>0, <1>1, <1>2 DEF Closed
  <1>7. \A b, a : Behind(b, a)' <=> Behind(b, a)
    BY <1>0, Same
  <1> HIDE DEF Closed
  <1>8. ASSUME NEW a \in Bridges, Closed(a)'
        PROVE  /\ subordinate'[a] \in secondary[a] .. nextBus - 1
               /\ \A j \in at .. N : ~Behind(j, a)
               /\ \A b \in Bridges : a < b => (secondary[b] <= subordinate'[a] <=> Behind(b, a))
    <2>1. CASE Closed(a)
      <3>1. a \in DOMAIN subordinate
        BY <2>1 DEF NumberInv
      <3> QED
        BY <1>0, <1>5, <2>1, <3>1 DEF NumberInv
    <2>2. CASE a = bus
      <3>1. \A b \in Bridges : secondary[b] \in 1 .. nextBus - 1 /\ nextBus \in Nat
        BY DEF NumberInv
      <3>2. ASSUME NEW b \in Bridges, bus < b PROVE Behind(b, bus)
        <4>1. b \in bus + 1 .. at - 1 /\ b \in 1 .. N
          BY <1>0, <3>2 DEF WalkInv
        <4>2. \A j \in bus + 1 .. b : j \in bus + 1 .. at - 1
          BY <1>0, <4>1
        <4>3. \A j \in bus + 1 .. b : Parent(j) >= bus
          BY <1>0, <4>2 DEF WalkInv, SpotInv
        <4> QED
          BY <3>2, <4>3 DEF Behind, Parent
      <3> QED
        BY <1>0, <1>2, <1>5, <2>2, <3>1, <3>2
    <2> QED
      BY <1>6, <1>8, <2>1, <2>2
  <1>9. DOMAIN subordinate' = {b \in Bridges' : Closed(b)'}
    BY <1>0, <1>1, <1>5, <1>6 DEF NumberInv
  <1>10. /\ nextBus' \in 1 .. MaxBus /\ DOMAIN secondary' = Bridges'
         /\ \A b \in Bridges' : secondary'[b] \in 1 .. nextBus' - 1
         /\ \A a, b \in Bridges' : a < b => secondary'[a] < secondary'[b]
    BY <1>1, <1>3 DEF NumberInv
  <1>11. \A a \in Bridges' : Closed(a)' =>
       /\ subordinate'[a] \in secondary'[a] .. nextBus' - 1
       /\ pass' = "measure" => \A j \in at' .. N' : ~Behind(j, a)'
       /\ \A b \in Bridges' : a < b => (secondary'[b] <= subordinate'[a] <=> Behind(b, a)')
    BY <1>0, <1>1, <1>2, <1>3, <1>7, <1>8
  <1> QED
    BY <1>9, <1>10, <1>11 DEF NumberInv

(* Whatever else a step does.                                              *)
LEMMA NumbersElse ==
  ASSUME WalkInv, NumberInv, UNCHANGED <<fns, at, bus, nextBus, secondary, subordinate, need>>,
         pass' = pass \/ (pass \in {"measure", "assign"} /\ pass' # "measure" /\ bus = 0)
  PROVE  NumberInv'
PROOF
  <1>1. /\ Bridges' = Bridges /\ N' = N /\ Open' = Open
        /\ \A b, a : Behind(b, a)' <=> Behind(b, a)
    BY Same DEF Bridges, SameTree, Open
  <1>2. \A b : Closed(b)' <=> Closed(b)
    <2>1. bus = 0 => Open = {}
      BY OpenFacts DEF WalkInv, SpotInv
    <2> QED
      BY <1>1, <2>1 DEF Closed
  <1>3. pass' = "measure" => pass = "measure"
    OBVIOUS
  <1> HIDE DEF Closed
  <1> QED
    BY <1>1, <1>2, <1>3 DEF NumberInv

LEMMA NumbersStep == WalkInv /\ NumberInv /\ [Next]_vars => NumberInv'
PROOF
  <1> SUFFICES ASSUME WalkInv, NumberInv, [Next]_vars PROVE NumberInv'
    OBVIOUS
  <1>0. /\ fns \in Trees /\ WalkInv' /\ (Here => at \in 1 .. N)
        /\ (at \in 1 .. N => After(at) >= at /\ at + 1 >= at)
    <2>1. at \in 1 .. N => After(at) \in at + 1 .. N + 1 /\ N \in Nat
      BY AfterLemma, TreeFacts DEF WalkInv
    <2> QED
      BY <2>1, WalkStep DEF WalkInv, SpotInv, Here, N
  <1>1. CASE MeasureBar
    BY <1>1, NumbersElse DEF MeasureBar
  <1>2. CASE MeasureDevice
    <2>1. After(at) = at + 1
      BY <1>0, <1>2, AfterLemma DEF MeasureDevice
    <2>2. Open' = Open /\ N' = N
      BY <1>2, <2>1, WalkPass DEF MeasureDevice, Restarted
    <2> QED
      BY <1>0, <1>2, <2>1, <2>2, NumbersStay DEF MeasureDevice, SameTree
  <1>3. CASE EnterBridge
    BY <1>3, NumbersEnter
  <1>4. CASE SkipBridge
    <2>2. Open' = Open /\ N' = N
      BY <1>4, WalkPass DEF SkipBridge, Restarted, measuring
    <2> QED
      BY <1>0, <1>4, <2>2, NumbersStay DEF SkipBridge, SameTree, measuring
  <1>5. CASE LeaveBus
    BY <1>5, NumbersLeave
  <1>6. ASSUME pass # "measure", pass' # "measure",
               UNCHANGED <<fns, nextBus, secondary, subordinate, need>>
        PROVE  NumberInv'
    <2>1. /\ Bridges' = Bridges /\ N' = N /\ \A b, a : Behind(b, a)' <=> Behind(b, a)
      BY <1>6, Same DEF Bridges, SameTree
    <2>2. \A b : (Closed(b)' <=> b \in Bridges) /\ (Closed(b) <=> b \in Bridges)
      BY <1>6, <2>1 DEF Closed
    <2> HIDE DEF Closed
    <2> QED
      BY <1>6, <2>1, <2>2 DEF NumberInv
  <1>7. CASE StartAssigning
    <2>1. /\ Bridges' = Bridges /\ N' = N /\ \A b, a : Behind(b, a)' <=> Behind(b, a)
          /\ Open = {}
      BY <1>7, <1>0, Same, OpenFacts DEF Bridges, SameTree, StartAssigning, measuring, WalkInv, SpotInv
    <2>2. \A b : (Closed(b)' <=> b \in Bridges) /\ (Closed(b) <=> b \in Bridges)
      BY <1>7, <2>1 DEF Closed, StartAssigning
    <2>3. UNCHANGED <<nextBus, secondary, subordinate>> /\ pass' # "measure"
      BY <1>7 DEF StartAssigning, measuring
    <2> HIDE DEF Closed
    <2> QED
      BY <2>1, <2>2, <2>3 DEF NumberInv
  <1>8. CASE AssignBar
    BY <1>6, <1>8 DEF AssignBar, measuring
  <1>9. CASE OpenBridge
    BY <1>6, <1>9 DEF OpenBridge, measuring
  <1>10. CASE PassOver
    BY <1>6, <1>10 DEF PassOver, measuring
  <1>11. CASE CloseBridge
    BY <1>6, <1>11 DEF CloseBridge, measuring
  <1>12. CASE Finish
    BY <1>6, <1>12 DEF Finish, measuring
  <1>13. CASE UNCHANGED vars
    BY <1>13, NumbersElse DEF vars, measuring
  <1> QED
    BY <1>1, <1>2, <1>3, <1>4, <1>5, <1>7, <1>8, <1>9, <1>10, <1>11, <1>12, <1>13 DEF Next

(* A bridge passes on the bus numbers of exactly the bridges behind it.    *)
THEOREM NumbersNested == Spec => []BusNumbersNest
PROOF
  <1>1. Init => WalkInv /\ NumberInv
    BY WalkInitial, NumbersInitial
  <1>2. WalkInv /\ NumberInv /\ [Next]_vars => WalkInv' /\ NumberInv'
    BY WalkStep, NumbersStep
  <1>3. ASSUME WalkInv, NumberInv PROVE BusNumbersNest
    <2> SUFFICES ASSUME pass = "done", NEW a \in Bridges, NEW b \in Bridges
                 PROVE  secondary[b] \in secondary[a] .. subordinate[a] <=> b = a \/ Behind(b, a)
      BY <1>3, PciAssumption DEF BusNumbersNest, NumberInv
    <2>1. /\ Closed(a) /\ a \in Nat /\ b \in Nat /\ nextBus \in Nat
          /\ secondary[a] \in Nat /\ secondary[b] \in Nat
      BY <1>3, TreeFacts DEF Closed, WalkInv, NumberInv
    <2>2. subordinate[a] \in secondary[a] .. nextBus - 1
      BY <1>3, <2>1 DEF NumberInv
    <2>3. CASE b = a
      BY <2>1, <2>2, <2>3
    <2>4. CASE a < b
      BY <1>3, <2>1, <2>2, <2>4 DEF NumberInv
    <2>5. CASE b < a
      <3>1. secondary[b] < secondary[a]
        BY <1>3, <2>5 DEF NumberInv
      <3> QED
        BY <2>1, <2>2, <2>5, <3>1 DEF Behind
    <2> QED
      BY <2>1, <2>3, <2>4, <2>5
  <1> QED
    BY <1>1, <1>2, <1>3, PTL DEF Spec
-----------------------------------------------------------------------------
(* What is asked for, and what each step makes of it.                      *)

IsReq(r) ==
  /\ DOMAIN r = Spaces \cup {"vga"}
  /\ \A s \in Spaces : r[s] \in Nat
  /\ r["vga"] \in BOOLEAN

Buses == {0} \cup Bridges

(* The entries of the table are complete: what is asked for on each bus,   *)
(* and the windows of each bridge.                                         *)
ReqInv ==
  /\ DOMAIN req = Buses
  /\ \A b \in Buses : IsReq(req[b])
  /\ \A b \in Bridges : IsReq(need[b])

LEMMA AlignType ==
  ASSUME NEW x \in Nat, NEW a \in Nat \ {0}
  PROVE  AlignUp(x, a) \in Nat
PROOF
  <1>1. (x + a - 1) \div a \in Nat
    OBVIOUS
  <1> HIDE DEF AlignUp
  <1>2. \A d \in Nat : d * a \in Nat
    OBVIOUS
  <1> QED
    BY <1>1, <1>2 DEF AlignUp

LEMMA WindowType ==
  ASSUME NEW s \in Spaces
  PROVE  WindowAlign(s) \in Nat \ {0} /\ \A x \in Nat : WindowSize(x, s) \in Nat
PROOF
  <1>1. WindowAlign(s) \in Nat \ {0}
    BY PciAssumption DEF WindowAlign
  <1> QED
    BY <1>1, AlignType DEF WindowSize

LEMMA AddedType ==
  ASSUME NEW c \in Nat, NEW n \in Nat, NEW a \in Nat \ {0}
  PROVE  Added(c, n, a) \in Nat
PROOF
  BY AlignType DEF Added

LEMMA SeqElement ==
  ASSUME NEW S, NEW q \in Seq(S), NEW i \in 1 .. Len(q)
  PROVE  q[i] \in S
PROOF
  OBVIOUS

(* The BAR that is next.                                                   *)
LEMMA BarType ==
  ASSUME WalkInv, Here, bar <= Len(fns[at].bars)
  PROVE  /\ fns[at].bars[bar].space \in Spaces
         /\ fns[at].bars[bar].size \in Nat \ {0}
PROOF
  <1>1. at \in 1 .. N /\ fns \in Trees /\ bar \in Nat \ {0}
    BY DEF WalkInv, SpotInv, Here, N
  <1>2. fns[at].bars \in Seq([space : Spaces, size : Nat \ {0}])
    BY <1>1, TreeFacts DEF IsFunction
  <1>3. bar \in 1 .. Len(fns[at].bars) /\ Len(fns[at].bars) \in Nat
    BY <1>1, <1>2
  <1>4. fns[at].bars[bar] \in [space : Spaces, size : Nat \ {0}]
    BY <1>2, <1>3, SeqElement
  <1> QED
    BY <1>4

LEMMA BusIn ==
  ASSUME WalkInv
  PROVE  /\ bus \in Buses /\ (bus # 0 => bus \in Bridges /\ Parent(bus) \in Buses)
         /\ \A b \in Open : b \in Bridges
         /\ \A b \in Bridges : b \in 1 .. N
PROOF
  <1>0. fns \in Trees /\ bus \in 0 .. N /\ N \in Nat
    BY TreeFacts DEF WalkInv, SpotInv
  <1>1. bus # 0 => bus \in Bridges
    BY <1>0, OpenFacts DEF WalkInv
  <1>2. ASSUME bus # 0, Parent(bus) # 0 PROVE Parent(bus) \in Bridges
    <2>1. bus \in 1 .. N /\ Parent(bus) \in 1 .. N
      BY <1>0, <1>2, TreeFacts
    <2>2. Behind(bus, Parent(bus))
      BY <1>0, <2>1, Chain
    <2> QED
      BY <1>1, <1>2, <2>1, <2>2 DEF WalkInv
  <1> QED
    BY <1>1, <1>2 DEF Buses, WalkInv

(* What the steps of the first pass change in what is asked for: a BAR, a  *)
(* device, entering a bridge and leaving its bus.                          *)
LEMMA MeasuredBar ==
  ASSUME WalkInv, ReqInv, MeasureBar
  PROVE  /\ DOMAIN req' = DOMAIN req /\ IsReq(req'[bus])
         /\ \A b \in Buses : b # bus => req'[b] = req[b]
         /\ req'[bus].vga = req[bus].vga
         /\ \A s \in Spaces :
              req'[bus][s] = IF s = fns[at].bars[bar].space
                             THEN Added(req[bus][s], fns[at].bars[bar].size, fns[at].bars[bar].size)
                             ELSE req[bus][s]
PROOF
  <1> DEFINE b == fns[at].bars[bar]
             v == Added(req[bus][b.space], b.size, b.size)
  <1>1. b.space \in Spaces /\ b.size \in Nat \ {0} /\ bus \in Buses
    BY BarType, BusIn DEF MeasureBar
  <1>2. IsReq(req[bus]) /\ bus \in DOMAIN req
    BY <1>1 DEF ReqInv
  <1>3. req' = [req EXCEPT ![bus][b.space] = v]
    BY DEF MeasureBar
  <1>4. v \in Nat
    BY <1>1, <1>2, AddedType DEF IsReq
  <1>5. b.space # "vga" /\ b.space \in DOMAIN req[bus] /\ "vga" \in DOMAIN req[bus]
    BY <1>1, <1>2 DEF IsReq, Spaces
  <1> HIDE DEF v
  <1>6. req'[bus] = [req[bus] EXCEPT ![b.space] = v] /\ DOMAIN req' = DOMAIN req
    BY <1>2, <1>3
  <1>7. IsReq(req'[bus])
    BY <1>2, <1>4, <1>5, <1>6 DEF IsReq
  <1>8. \A s \in Spaces : req'[bus][s] = IF s = b.space THEN v ELSE req[bus][s]
    BY <1>2, <1>6 DEF IsReq
  <1>9. req'[bus].vga = req[bus].vga
    BY <1>5, <1>6
  <1>10. \A c \in Buses : c # bus => req'[c] = req[c]
    BY <1>3 DEF ReqInv
  <1> QED
    BY <1>6, <1>7, <1>8, <1>9, <1>10 DEF v

LEMMA MeasuredDevice ==
  ASSUME WalkInv, ReqInv, MeasureDevice
  PROVE  /\ DOMAIN req' = DOMAIN req /\ IsReq(req'[bus])
         /\ \A b \in Buses : b # bus => req'[b] = req[b]
         /\ req'[bus].vga <=> req[bus].vga \/ fns[at].vga
         /\ \A s \in Spaces : req'[bus][s] = req[bus][s]
PROOF
  <1> DEFINE v == req[bus].vga \/ fns[at].vga
  <1>1. bus \in Buses
    BY BusIn
  <1>2. IsReq(req[bus]) /\ bus \in DOMAIN req
    BY <1>1 DEF ReqInv
  <1>3. req' = [req EXCEPT ![bus].vga = v]
    BY DEF MeasureDevice
  <1>4. v \in BOOLEAN
    OBVIOUS
  <1>5. "vga" \notin Spaces /\ "vga" \in DOMAIN req[bus]
    BY <1>2 DEF IsReq, Spaces
  <1> HIDE DEF v
  <1>6. req'[bus] = [req[bus] EXCEPT !["vga"] = v] /\ DOMAIN req' = DOMAIN req
    BY <1>2, <1>3
  <1>7. IsReq(req'[bus])
    BY <1>2, <1>4, <1>5, <1>6 DEF IsReq
  <1>8. \A s \in Spaces : req'[bus][s] = req[bus][s]
    BY <1>2, <1>5, <1>6 DEF IsReq
  <1>9. req'[bus].vga = v
    BY <1>5, <1>6
  <1>10. \A c \in Buses : c # bus => req'[c] = req[c]
    BY <1>3 DEF ReqInv
  <1> QED
    BY <1>6, <1>7, <1>8, <1>9, <1>10 DEF v

LEMMA Entered ==
  ASSUME WalkInv, ReqInv, EnterBridge
  PROVE  /\ at \notin Bridges /\ at \in 1 .. N
         /\ Bridges' = Bridges \cup {at} /\ DOMAIN req' = Buses \cup {at}
         /\ req'[at] = Nothing /\ need'[at] = Nothing
         /\ \A b \in Buses : req'[b] = req[b]
         /\ \A b \in Bridges : need'[b] = need[b]
PROOF
  <1>1. at \in 1 .. N /\ \A b \in Bridges : b < at /\ b \in Nat
    BY TreeFacts DEF EnterBridge, WalkInv, SpotInv, Here, N
  <1>2. at \notin DOMAIN need /\ at \notin DOMAIN req
    BY <1>1 DEF Bridges, ReqInv, Buses
  <1>3. need' = With(need, at, Nothing) /\ req' = With(req, at, Nothing)
    BY DEF EnterBridge
  <1>4. /\ DOMAIN need' = DOMAIN need \cup {at} /\ need'[at] = Nothing
        /\ \A b \in DOMAIN need : need'[b] = need[b]
    BY <1>2, <1>3 DEF With
  <1>5. /\ DOMAIN req' = DOMAIN req \cup {at} /\ req'[at] = Nothing
        /\ \A b \in DOMAIN req : req'[b] = req[b]
    BY <1>2, <1>3 DEF With
  <1> QED
    BY <1>1, <1>2, <1>4, <1>5 DEF Bridges, ReqInv

LEMMA Left ==
  ASSUME WalkInv, ReqInv, LeaveBus
  PROVE  /\ Bridges' = Bridges /\ DOMAIN req' = DOMAIN req
         /\ IsReq(need'[bus]) /\ IsReq(req'[Parent(bus)])
         /\ \A b \in Bridges : b # bus => need'[b] = need[b]
         /\ \A b \in Buses : b # Parent(bus) => req'[b] = req[b]
         /\ need'[bus].vga <=> req[bus].vga
         /\ req'[Parent(bus)].vga <=> req[Parent(bus)].vga \/ req[bus].vga
         /\ \A s \in Spaces :
              /\ need'[bus][s] = WindowSize(req[bus][s], s)
              /\ req'[Parent(bus)][s] =
                   Added(req[Parent(bus)][s], need'[bus][s], WindowAlign(s))
PROOF
  <1> DEFINE up == Parent(bus)
             w == [s \in Spaces \cup {"vga"} |->
                     IF s = "vga" THEN req[bus].vga ELSE WindowSize(req[bus][s], s)]
  <1>1. bus \in Bridges /\ bus \in Buses /\ up \in Buses
    BY BusIn DEF LeaveBus
  <1>2. /\ IsReq(req[bus]) /\ IsReq(req[up]) /\ bus \in DOMAIN need /\ up \in DOMAIN req
    BY <1>1 DEF ReqInv, Bridges
  <1>3. need' = [need EXCEPT ![bus] = w] /\ req' = [req EXCEPT ![up] = WithWindows(req[up], w)]
    BY DEF LeaveBus, Parent
  <1>4. "vga" \notin Spaces
    BY DEF Spaces
  <1>5. w["vga"] = req[bus]["vga"] /\ \A s \in Spaces : w[s] = WindowSize(req[bus][s], s)
    BY <1>4
  <1>6. IsReq(w)
    BY <1>2, <1>4, WindowType DEF IsReq
  <1> HIDE DEF w
  <1> DEFINE r == WithWindows(req[up], w)
  <1>7. /\ DOMAIN r = Spaces \cup {"vga"}
        /\ r["vga"] = (req[up]["vga"] \/ w["vga"])
        /\ \A s \in Spaces : r[s] = Added(req[up][s], w[s], WindowAlign(s))
    BY <1>4 DEF WithWindows
  <1>8. IsReq(r)
    <2>1. \A s \in Spaces : r[s] \in Nat
      <3> TAKE s \in Spaces
      <3>1. req[up][s] \in Nat /\ w[s] \in Nat /\ WindowAlign(s) \in Nat \ {0}
        BY <1>2, <1>6, WindowType DEF IsReq
      <3> QED
        BY <1>7, <3>1, AddedType
    <2>2. r["vga"] \in BOOLEAN
      BY <1>7
    <2> QED
      BY <1>7, <2>1, <2>2 DEF IsReq
  <1> HIDE DEF r
  <1>9. need'[bus] = w /\ req'[up] = r /\ DOMAIN need' = DOMAIN need /\ DOMAIN req' = DOMAIN req
    BY <1>2, <1>3 DEF r
  <1>10. /\ \A b \in Bridges : b # bus => need'[b] = need[b]
         /\ \A b \in Buses : b # up => req'[b] = req[b]
    BY <1>3 DEF Bridges, ReqInv
  <1>11. (need'[bus].vga <=> req[bus].vga)
         /\ (req'[up].vga <=> req[up].vga \/ req[bus].vga)
    BY <1>5, <1>7, <1>9
  <1>12. \A s \in Spaces :
           /\ need'[bus][s] = WindowSize(req[bus][s], s)
           /\ req'[up][s] = Added(req[up][s], need'[bus][s], WindowAlign(s))
    BY <1>5, <1>7, <1>9
  <1> QED
    BY <1>6, <1>8, <1>9, <1>10, <1>11, <1>12 DEF Bridges

LEMMA ReqInitial == Init => ReqInv
PROOF
  <1> SUFFICES ASSUME Init PROVE ReqInv
    OBVIOUS
  <1>1. Bridges = {} /\ req = [b \in {0} |-> Nothing]
    BY Void DEF Init, Bridges
  <1>2. IsReq(Nothing)
    BY DEF IsReq, Nothing, Spaces
  <1> QED
    BY <1>1, <1>2 DEF ReqInv, Buses

LEMMA ReqStep == WalkInv /\ ReqInv /\ [Next]_vars => ReqInv'
PROOF
  <1> SUFFICES ASSUME WalkInv, ReqInv, [Next]_vars PROVE ReqInv'
    OBVIOUS
  <1>0. ASSUME UNCHANGED <<req, need>> PROVE ReqInv'
    BY <1>0 DEF ReqInv, Buses, Bridges
  <1>1. CASE MeasureBar
    <2>1. UNCHANGED need
      BY <1>1 DEF MeasureBar
    <2> QED
      BY <1>1, <2>1, MeasuredBar DEF ReqInv, Buses, Bridges
  <1>2. CASE MeasureDevice
    <2>1. UNCHANGED need
      BY <1>2 DEF MeasureDevice
    <2> QED
      BY <1>2, <2>1, MeasuredDevice DEF ReqInv, Buses, Bridges
  <1>3. CASE EnterBridge
    <2>1. IsReq(Nothing)
      BY DEF IsReq, Nothing, Spaces
    <2> QED
      BY <1>3, <2>1, Entered DEF ReqInv, Buses
  <1>4. CASE LeaveBus
    BY <1>4, Left DEF ReqInv, Buses
  <1> QED
    BY <1>0, <1>1, <1>2, <1>3, <1>4
    DEF Next, SkipBridge, StartAssigning, AssignBar, OpenBridge, PassOver, CloseBridge,
        Finish, vars, measuring
-----------------------------------------------------------------------------
(* What the walks get to.                                                  *)

(* A function is visible when every bridge in front of it has an entry.    *)
LEMMA VisibleLemma ==
  ASSUME WalkInv, NEW k \in 1 .. N
  PROVE  Visible(k) <=> \A a \in 1 .. N : Behind(k, a) => a \in Bridges
PROOF
  <1>1. fns \in Trees /\ N \in Nat /\ Parent(k) \in 0 .. k - 1
    BY TreeFacts DEF WalkInv
  <1>2. ASSUME Visible(k), NEW a \in 1 .. N, Behind(k, a) PROVE a \in Bridges
    <2>1. Parent(k) = a \/ (Parent(k) \in 1 .. N /\ Behind(Parent(k), a))
      BY <1>1, <1>2, Chain
    <2>2. Parent(k) \in Bridges
      BY <1>2, <2>1 DEF Visible
    <2> QED
      BY <1>1, <2>1, <2>2 DEF WalkInv
  <1>3. ASSUME \A a \in 1 .. N : Behind(k, a) => a \in Bridges PROVE Visible(k)
    <2>1. CASE Parent(k) # 0
      <3>1. Parent(k) \in 1 .. N
        BY <1>1, <2>1
      <3>2. Behind(k, Parent(k))
        BY <1>1, <3>1, Chain
      <3> QED
        BY <1>3, <3>1, <3>2 DEF Visible
    <2> QED
      BY <2>1 DEF Visible
  <1> QED
    BY <1>2, <1>3

(* Nothing behind a bridge that is passed over is visible.                 *)
LEMMA Hidden ==
  ASSUME WalkInv, at \in 1 .. N, at \notin Bridges, NEW k \in at + 1 .. After(at) - 1
  PROVE  k \in 1 .. N /\ ~Visible(k) /\ k \notin Bridges
PROOF
  <1>1. /\ fns \in Trees /\ N \in Nat /\ After(at) \in at + 1 .. N + 1
        /\ \A i \in at + 1 .. After(at) - 1 : Parent(i) >= at
    BY TreeFacts, AfterLemma DEF WalkInv
  <1>2. k \in 1 .. N
    BY <1>1
  <1>3. Behind(k, at)
    <2>1. at < k
      BY <1>1
    <2>2. \A j \in at + 1 .. k : Parent(j) >= at
      BY <1>1
    <2> QED
      BY <2>1, <2>2 DEF Behind, Parent
  <1>4. ~Visible(k)
    BY <1>2, <1>3, VisibleLemma
  <1> QED
    BY <1>2, <1>3, <1>4 DEF WalkInv

(* The function the walk is at is behind the bridges whose buses it is on. *)
LEMMA HereBehind ==
  ASSUME WalkInv, Here
  PROVE  /\ at \in 1 .. N /\ Parent(at) = bus /\ Visible(at)
         /\ \A b \in 1 .. N : Behind(at, b) <=> b \in Open
PROOF
  <1>1. fns \in Trees /\ at \in 1 .. N /\ Parent(at) = bus /\ bus \in 0 .. N /\ N \in Nat
    BY TreeFacts DEF WalkInv, SpotInv, Here, N, Parent
  <1>2. ASSUME NEW b \in 1 .. N PROVE Behind(at, b) <=> b \in Open
    <2>1. bus \notin 1 .. N => bus = 0 /\ b # bus /\ ~Behind(bus, b)
      BY <1>1 DEF Behind
    <2> QED
      BY <1>1, <2>1, Chain DEF Open
  <1> QED
    BY <1>1, <1>2, BusIn DEF Visible, Buses
-----------------------------------------------------------------------------
(* VGA cards.                                                              *)

(* A card behind b that the walks get to.                                  *)
Card(k, b) == fns[k].vga /\ Visible(k) /\ Behind(k, b)

(* In the first pass, has a card been found behind b, but for those on     *)
(* buses that are not left yet?                                            *)
Found(b) ==
  \E k \in 1 .. at - 1 : Card(k, b) /\ \A a \in Open : b < a => ~Behind(k, a)

(* The mark of a bus that was left tells of a card behind its bridge; the  *)
(* mark of an open bus, of those the walk has come by.                     *)
VgaInv ==
  /\ \A b \in Bridges : Closed(b) => (need[b].vga <=> \E k \in 1 .. N : Card(k, b))
  /\ pass = "measure" =>
       /\ \A b \in Open : req[b].vga <=> Found(b)
       /\ forward = {}
  /\ pass # "measure" => forward = {b \in Bridges : b < at /\ need[b].vga}

LEMMA VgaInitial == Init => VgaInv
PROOF
  <1> SUFFICES ASSUME Init PROVE VgaInv
    OBVIOUS
  <1>1. Bridges = {} /\ fns \in Trees /\ bus = 0 /\ forward = {} /\ pass = "measure"
    BY Void DEF Init, Bridges
  <1>2. Open = {}
    BY <1>1, OpenFacts, TreeFacts
  <1> QED
    BY <1>1, <1>2 DEF VgaInv

LEMMA Between ==
  ASSUME NEW i \in Nat, NEW j \in Nat, 1 <= i, i + 1 <= j
  PROVE  /\ \A k \in 1 .. j - 1 : k \in 1 .. i - 1 \/ k = i \/ k \in i + 1 .. j - 1
         /\ i \in 1 .. j - 1 /\ \A k \in 1 .. i - 1 : k \in 1 .. j - 1
PROOF
  OBVIOUS

(* A step in the first pass to another function among the same buses.      *)
LEMMA VgaForth ==
  ASSUME WalkInv, VgaInv, pass = "measure", UNCHANGED <<fns, pass, need, forward>>,
         Open' = Open, at \in 1 .. N, at' \in at + 1 .. N + 1,
         \A k \in at + 1 .. at' - 1 : ~Visible(k),
         \A b \in Open :
           req'[b].vga <=> req[b].vga \/ (Card(at, b) /\ \A a \in Open : b < a => ~Behind(at, a))
  PROVE  VgaInv'
PROOF
  <1>1. /\ N' = N /\ Bridges' = Bridges /\ N \in Nat
        /\ \A k, b : Card(k, b)' <=> Card(k, b)
    BY Same, TreeFacts DEF Bridges, SameTree, Card, Visible, Parent, Behind, WalkInv
  <1>2. \A b : Closed(b)' <=> Closed(b)
    BY <1>1 DEF Closed
  <1>3. ASSUME NEW b \in Open PROVE req'[b].vga <=> Found(b)'
    <2>1. req[b].vga <=> Found(b)
      BY <1>3 DEF VgaInv
    <2>2. Found(b)' <=> \E k \in 1 .. at' - 1 : Card(k, b) /\ \A a \in Open : b < a => ~Behind(k, a)
      BY <1>1, Same DEF Found, SameTree
    <2>0. at \in Nat /\ at' \in Nat /\ 1 <= at /\ at + 1 <= at'
      BY <1>1
    <2>3. \A k \in 1 .. at' - 1 : k \in 1 .. at - 1 \/ k = at \/ k \in at + 1 .. at' - 1
      BY <2>0, Between
    <2>4. \A k \in at + 1 .. at' - 1 : ~Card(k, b)
      BY DEF Card
    <2>5. at \in 1 .. at' - 1 /\ \A k \in 1 .. at - 1 : k \in 1 .. at' - 1
      BY <2>0, Between
    <2> QED
      BY <2>1, <2>2, <2>3, <2>4, <2>5 DEF Found
  <1> HIDE DEF Closed
  <1> QED
    BY <1>1, <1>2, <1>3 DEF VgaInv

(* A bus that is entered has no card yet, ...                              *)
LEMMA VgaEnter ==
  ASSUME WalkInv, NumberInv, ReqInv, VgaInv, EnterBridge
  PROVE  VgaInv'
PROOF
  <1>0. /\ fns \in Trees /\ SameTree /\ N' = N /\ N \in Nat /\ pass = "measure"
        /\ UNCHANGED <<fns, pass, forward>> /\ at' = at + 1 /\ fns[at].bridge
    BY Same, TreeFacts DEF WalkInv, SameTree, EnterBridge, assigning
  <1>1. /\ at \notin Bridges /\ at \in 1 .. N
        /\ Bridges' = Bridges \cup {at} /\ req'[at] = Nothing
        /\ \A b \in Buses : req'[b] = req[b]
        /\ \A b \in Bridges : need'[b] = need[b]
    BY Entered
  <1>2. Open' = Open \cup {at}
    BY <1>0, <1>1, WalkDescend DEF EnterBridge, Restarted
  <1>3. \A k, b : Behind(k, b)' <=> Behind(k, b)
    BY <1>0, Same
  <1>4. \A k \in 1 .. at : \A b : Card(k, b)' <=> Card(k, b)
    <2>1. \A k \in 1 .. at : Visible(k)' <=> Visible(k)
      <3> TAKE k \in 1 .. at
      <3>1. Parent(k) \in 0 .. k - 1 /\ Parent(k)' = Parent(k)
        BY <1>0, <1>1, TreeFacts, Same
      <3>2. Parent(k) # at
        BY <1>1, <3>1
      <3> QED
        BY <1>1, <3>1, <3>2 DEF Visible
    <2> QED
      BY <1>0, <1>3, <2>1 DEF Card
  <1>5. ~fns[at].vga
    BY <1>0, <1>1, TreeFacts DEF IsFunction
  <1>6. \A b \in Bridges' : Closed(b)' <=> b # at /\ Closed(b)
    BY <1>0, <1>1, <1>2 DEF Closed
  <1>7. ASSUME NEW b \in Bridges, Closed(b)
        PROVE  need'[b].vga <=> \E k \in 1 .. N : Card(k, b)'
    <2>1. \A k \in at .. N : ~Behind(k, b)
      BY <1>0, <1>7 DEF NumberInv
    <2>2. \A k \in 1 .. N : k \in 1 .. at \/ k \in at .. N
      BY <1>0, <1>1
    <2>3. \A k \in 1 .. N : Card(k, b)' <=> Card(k, b)
      <3> TAKE k \in 1 .. N
      <3>1. CASE k \in 1 .. at
        BY <1>4, <3>1
      <3>2. CASE k \in at .. N
        BY <1>3, <2>1, <3>2 DEF Card
      <3> QED
        BY <2>2, <3>1, <3>2
    <2> QED
      BY <1>1, <1>7, <2>3 DEF VgaInv
  <1>8. ASSUME NEW b \in Open' PROVE req'[b].vga <=> Found(b)'
    <2>1. Found(b)' <=> \E k \in 1 .. at : Card(k, b)' /\ \A a \in Open' : b < a => ~Behind(k, a)'
      BY <1>0, <1>1 DEF Found
    <2>2. Found(b)' <=>
            \E k \in 1 .. at - 1 : Card(k, b) /\ \A a \in Open \cup {at} : b < a => ~Behind(k, a)
      <3>1. \A k \in 1 .. at : k = at \/ k \in 1 .. at - 1
        BY <1>1
      <3>2. \A k \in 1 .. at - 1 : k \in 1 .. at
        BY <1>1
      <3>3. ~Card(at, b)
        BY <1>5 DEF Card
      <3>4. at \in 1 .. at
        BY <1>1
      <3> QED
        BY <1>2, <1>3, <1>4, <2>1, <3>1, <3>2, <3>3, <3>4
    <2>3. \A k \in 1 .. at - 1 : ~Behind(k, at)
      BY <1>1 DEF Behind
    <2>4. CASE b = at
      BY <1>1, <2>2, <2>3, <2>4 DEF Card, Nothing
    <2>5. CASE b \in Open
      <3>1. b \in Bridges /\ b \in Buses
        BY <2>5, BusIn DEF Buses
      <3>2. req[b].vga <=> Found(b)
        BY <1>0, <2>5 DEF VgaInv
      <3>3. Found(b)' <=> Found(b)
        BY <2>2, <2>3 DEF Found
      <3> QED
        BY <1>1, <3>1, <3>2, <3>3
    <2> QED
      BY <1>2, <2>4, <2>5
  <1> HIDE DEF Closed
  <1>9. \A b \in Bridges' : Closed(b)' => (need'[b].vga <=> \E k \in 1 .. N' : Card(k, b)')
    BY <1>0, <1>1, <1>6, <1>7
  <1> QED
    BY <1>0, <1>8, <1>9 DEF VgaInv

(* ... and one that is left hands its mark on.                             *)
LEMMA VgaLeave ==
  ASSUME WalkInv, ReqInv, VgaInv, LeaveBus
  PROVE  VgaInv'
PROOF
  <1>0. /\ fns \in Trees /\ SameTree /\ N' = N /\ N \in Nat /\ pass = "measure"
        /\ UNCHANGED <<fns, pass, at, forward>> /\ ~Here /\ bus # 0
        /\ bus \in Open /\ bus \in Bridges /\ bus \in 1 .. N /\ Parent(bus) \in 0 .. bus - 1
        /\ at \in 1 .. N + 1
    BY Same, TreeFacts, OpenFacts DEF WalkInv, SameTree, LeaveBus, SpotInv, assigning
  <1> DEFINE up == Parent(bus)
  <1>1. /\ Bridges' = Bridges /\ (need'[bus].vga <=> req[bus].vga)
        /\ \A b \in Bridges : b # bus => need'[b] = need[b]
        /\ \A b \in Buses : b # up => req'[b] = req[b]
        /\ req'[up].vga <=> req[up].vga \/ req[bus].vga
    BY Left
  <1>2. Open' = Open \ {bus} /\ \A j \in at .. N : ~Behind(j, bus)
    BY <1>0, <1>1, WalkLeave DEF LeaveBus
  <1>3. /\ \A k, b : Behind(k, b)' <=> Behind(k, b)
        /\ \A k, b : Card(k, b)' <=> Card(k, b)
    BY <1>0, <1>1, Same DEF Card, Visible
  <1>4. \A b : Closed(b)' <=> Closed(b) \/ b = bus
    BY <1>0, <1>1, <1>2 DEF Closed
  <1>5. \A b \in Open : b \in 1 .. N /\ b <= bus /\ (b # bus => b < bus /\ Behind(bus, b))
    BY <1>0, OpenFacts
  <1>6. \A b \in Open : b # bus => b = up \/ (up \in 1 .. N /\ b < up /\ Behind(up, b))
    <2> TAKE b \in Open
    <2>1. b # bus => b = up \/ (up \in 1 .. N /\ Behind(up, b))
      BY <1>0, <1>5, Chain
    <2> QED
      BY <2>1 DEF Behind
  <1>7. req[bus].vga <=> \E k \in 1 .. N : Card(k, bus)
    <2>0. \A a \in Open : ~(bus < a)
      BY <1>0, <1>5
    <2>1. Found(bus) <=> \E k \in 1 .. at - 1 : Card(k, bus)
      BY <2>0 DEF Found
    <2>2. \A k \in 1 .. N : k \in 1 .. at - 1 \/ k \in at .. N
      BY <1>0
    <2>3. \A k \in 1 .. at - 1 : k \in 1 .. N
      BY <1>0
    <2>4. \A k \in at .. N : ~Card(k, bus)
      BY <1>2 DEF Card
    <2>5. req[bus].vga <=> Found(bus)
      BY <1>0 DEF VgaInv
    <2> QED
      BY <2>1, <2>2, <2>3, <2>4, <2>5
  <1>8. ASSUME NEW b \in Bridges, Closed(b)'
        PROVE  need'[b].vga <=> \E k \in 1 .. N : Card(k, b)'
    <2>1. CASE b = bus
      BY <1>1, <1>3, <1>7, <2>1
    <2>2. CASE b # bus
      BY <1>1, <1>3, <1>4, <1>8, <2>2 DEF VgaInv
    <2> QED
      BY <2>1, <2>2
  <1>9. ASSUME NEW b \in Open' PROVE req'[b].vga <=> Found(b)'
    <2>0. b \in Open /\ b # bus /\ b \in Bridges /\ b \in Buses /\ b \in 1 .. N /\ b < bus
          /\ Behind(bus, b)
      BY <1>2, <1>5, <1>9, BusIn DEF Buses
    <2>1. Found(b)' <=>
            \E k \in 1 .. at - 1 : Card(k, b) /\ \A a \in Open \ {bus} : b < a => ~Behind(k, a)
      BY <1>0, <1>2, <1>3 DEF Found
    <2>2. req[b].vga <=> Found(b)
      BY <1>0, <2>0 DEF VgaInv
    <2>3. CASE b = up
      <3>1. \A a \in Open \ {bus} : ~(b < a)
        <4> TAKE a \in Open \ {bus}
        <4>1. a = up \/ a < up
          BY <1>6
        <4>2. a \in 1 .. N
          BY <1>5
        <4> QED
          BY <1>0, <2>3, <4>1, <4>2
      <3>2. Found(b)' <=> \E k \in 1 .. at - 1 : Card(k, b)
        BY <2>1, <3>1
      <3>3. Found(b) <=> \E k \in 1 .. at - 1 : Card(k, b) /\ ~Behind(k, bus)
        BY <1>0, <2>0, <3>1 DEF Found
      <3>4. ASSUME NEW k \in 1 .. N PROVE Card(k, b) /\ Behind(k, bus) <=> Card(k, bus)
        BY <1>0, <2>0, Transitive DEF Card
      <3>5. \A k \in 1 .. N : Card(k, bus) => k \in 1 .. at - 1
        <4> TAKE k \in 1 .. N
        <4>1. k \in 1 .. at - 1 \/ k \in at .. N
          BY <1>0
        <4> QED
          BY <1>2, <4>1 DEF Card
      <3>6. \A k \in 1 .. at - 1 : k \in 1 .. N
        BY <1>0
      <3> QED
        BY <1>1, <1>7, <2>2, <2>3, <3>2, <3>3, <3>4, <3>5, <3>6
    <2>4. CASE b # up
      <3>1. up \in 1 .. N /\ b < up
        BY <1>6, <2>0, <2>4
      <3>2. up \in Open \ {bus} /\ Behind(bus, up)
        <4>1. Behind(bus, up)
          BY <1>0, <3>1, Chain
        <4> QED
          BY <1>0, <3>1, <4>1 DEF Open
      <3>3. \A k \in 1 .. at - 1 : Behind(k, bus) => Behind(k, up)
        <4>1. \A k \in 1 .. at - 1 : k \in 1 .. N
          BY <1>0
        <4> QED
          BY <1>0, <3>1, <3>2, <4>1, Transitive
      <3>4. Found(b)' <=> Found(b)
        BY <2>1, <3>1, <3>2, <3>3 DEF Found
      <3>5. req'[b] = req[b]
        BY <1>1, <2>0, <2>4
      <3> QED
        BY <2>2, <3>4, <3>5
    <2> QED
      BY <2>3, <2>4
  <1> HIDE DEF Closed
  <1> QED
    BY <1>0, <1>1, <1>8, <1>9 DEF VgaInv

(* A step in the second pass.                                              *)
LEMMA VgaElse ==
  ASSUME WalkInv, VgaInv, pass # "measure", pass' # "measure", UNCHANGED <<fns, need>>,
         forward' = {b \in Bridges : b < at' /\ need[b].vga}
  PROVE  VgaInv'
PROOF
  <1>1. /\ N' = N /\ Bridges' = Bridges
        /\ \A k, b : Card(k, b)' <=> Card(k, b)
    BY Same DEF Bridges, SameTree, Card, Visible
  <1>2. \A b \in Bridges : need[b].vga <=> \E k \in 1 .. N : Card(k, b)
    BY DEF VgaInv, Closed
  <1> QED
    BY <1>1, <1>2 DEF VgaInv

LEMMA VgaStep == WalkInv /\ NumberInv /\ ReqInv /\ VgaInv /\ [Next]_vars => VgaInv'
PROOF
  <1> SUFFICES ASSUME WalkInv, NumberInv, ReqInv, VgaInv, [Next]_vars PROVE VgaInv'
    OBVIOUS
  <1>0. /\ fns \in Trees /\ N \in Nat /\ at \in 1 .. N + 1
        /\ (Here => at \in 1 .. N) /\ (\A b \in Bridges : b \in 1 .. N)
        /\ (\A b \in Open : b \in Buses /\ b \in 1 .. N)
    BY TreeFacts, BusIn DEF WalkInv, SpotInv, Here, N, Open, Buses
  <1>00. pass # "measure" => forward = {b \in Bridges : b < at /\ need[b].vga}
    BY DEF VgaInv
  <1>1. CASE MeasureBar
    <2>1. UNCHANGED <<fns, pass, at, bus, need, forward>> /\ pass = "measure"
      BY <1>1 DEF MeasureBar, assigning
    <2>2. /\ N' = N /\ Bridges' = Bridges /\ Open' = Open
          /\ \A k, b : Card(k, b)' <=> Card(k, b)
          /\ \A k, b : Behind(k, b)' <=> Behind(k, b)
      BY <2>1, Same DEF Bridges, SameTree, Card, Visible, Open
    <2>3. \A b : (Closed(b)' <=> Closed(b)) /\ (Found(b)' <=> Found(b))
      BY <2>1, <2>2 DEF Closed, Found
    <2>4. \A b \in Open : req'[b].vga = req[b].vga
      BY <1>0, <1>1, MeasuredBar
    <2> HIDE DEF Closed
    <2> QED
      BY <2>1, <2>2, <2>3, <2>4 DEF VgaInv
  <1>2. CASE MeasureDevice
    <2>1. UNCHANGED <<fns, pass, bus, need, forward>> /\ pass = "measure" /\ at' = at + 1 /\ Here
      BY <1>2 DEF MeasureDevice, assigning
    <2>2. Open' = Open
      BY <2>1, Same DEF Open, SameTree
    <2>3. ASSUME NEW b \in Open
          PROVE  req'[b].vga <=>
                   req[b].vga \/ (Card(at, b) /\ \A a \in Open : b < a => ~Behind(at, a))
      <3>1. \A a \in Open : Behind(at, a) /\ a \in 1 .. N
        BY <1>0, <2>1, HereBehind
      <3>2. Card(at, b) <=> fns[at].vga
        BY <2>1, <2>3, <3>1, HereBehind DEF Card
      <3>3. bus \in Open /\ \A a \in Open : a <= bus
        BY <1>0, <2>3, OpenFacts DEF WalkInv, SpotInv
      <3>4. (\A a \in Open : b < a => ~Behind(at, a)) <=> b = bus
        BY <2>3, <3>1, <3>3
      <3>5. CASE b = bus
        BY <1>2, <3>2, <3>4, <3>5, MeasuredDevice
      <3>6. CASE b # bus
        BY <1>0, <1>2, <3>4, <3>6, MeasuredDevice
      <3> QED
        BY <3>5, <3>6
    <2>4. at' \in at + 1 .. N + 1 /\ \A k \in at + 1 .. at' - 1 : ~Visible(k)
      BY <1>0, <2>1
    <2> QED
      BY <1>0, <2>1, <2>2, <2>3, <2>4, VgaForth
  <1>3. CASE EnterBridge
    BY <1>3, VgaEnter
  <1>4. CASE SkipBridge
    <2>1. UNCHANGED <<fns, pass, bus, need, forward, req>> /\ pass = "measure" /\ Here
          /\ at' = After(at) /\ fns[at].bridge
      BY <1>4 DEF SkipBridge, assigning, measuring
    <2>2. Open' = Open
      BY <2>1, Same DEF Open, SameTree
    <2>3. at \notin Bridges
      BY <1>0, <2>1 DEF WalkInv
    <2>4. at' \in at + 1 .. N + 1 /\ \A k \in at + 1 .. at' - 1 : ~Visible(k)
      BY <1>0, <2>1, <2>3, AfterLemma, Hidden
    <2>5. \A b : ~Card(at, b)
      BY <1>0, <2>1, TreeFacts DEF IsFunction, Card
    <2> QED
      BY <1>0, <2>1, <2>2, <2>4, <2>5, VgaForth
  <1>5. CASE LeaveBus
    BY <1>5, VgaLeave
  <1>6. CASE StartAssigning
    <2>1. /\ UNCHANGED <<fns, bus, need, forward>> /\ pass = "measure" /\ bus = 0
          /\ pass' = "assign" /\ at' = 1
      BY <1>6 DEF StartAssigning, measuring
    <2>2. /\ N' = N /\ Bridges' = Bridges
          /\ \A k, b : Card(k, b)' <=> Card(k, b)
      BY <2>1, Same DEF Bridges, SameTree, Card, Visible
    <2>3. Open = {}
      BY <1>0, <2>1, OpenFacts
    <2>4. \A b \in Bridges : need[b].vga <=> \E k \in 1 .. N : Card(k, b)
      BY <2>3 DEF VgaInv, Closed
    <2>5. forward' = {} /\ \A b \in Bridges : ~(b < at')
      BY <1>0, <2>1 DEF VgaInv
    <2> QED
      BY <2>1, <2>2, <2>4, <2>5 DEF VgaInv
  <1>7. CASE AssignBar
    BY <1>7, <1>00, VgaElse DEF AssignBar, measuring
  <1>8. CASE OpenBridge
    <2>1. /\ at \in Bridges /\ at' = at + 1 /\ pass = "assign" /\ pass' = pass
          /\ UNCHANGED <<fns, need>> /\ Here
          /\ forward' = (IF need[at].vga THEN forward \cup {at} ELSE forward)
      BY <1>8 DEF OpenBridge, measuring, Bridges
    <2>2. \A b \in Bridges : b < at + 1 <=> b < at \/ b = at
      BY <1>0
    <2>3. forward' = {b \in Bridges : b < at' /\ need[b].vga}
      BY <1>00, <2>1, <2>2
    <2> QED
      BY <2>1, <2>3, VgaElse
  <1>9. CASE PassOver
    <2>1. /\ at \notin Bridges /\ at' = After(at) /\ pass = "assign" /\ pass' = pass
          /\ UNCHANGED <<fns, need, forward>> /\ Here
      BY <1>9 DEF PassOver, measuring, assigning, Bridges
    <2>2. After(at) \in at + 1 .. N + 1 /\ \A k \in at + 1 .. After(at) - 1 : k \notin Bridges
      BY <1>0, <2>1, AfterLemma, Hidden
    <2>3. \A b \in Bridges : b < After(at) <=> b < at
      <3> TAKE b \in Bridges
      <3>1. b < at \/ b = at \/ b \in at + 1 .. After(at) - 1 \/ b >= After(at)
        BY <1>0, <2>2
      <3> QED
        BY <1>0, <2>1, <2>2, <3>1
    <2>4. forward' = {b \in Bridges : b < at' /\ need[b].vga}
      BY <1>00, <2>1, <2>3
    <2> QED
      BY <2>1, <2>4, VgaElse
  <1>10. CASE CloseBridge
    BY <1>10, <1>00, VgaElse DEF CloseBridge, measuring, assigning
  <1>11. CASE Finish
    BY <1>11, <1>00, VgaElse DEF Finish, measuring, assigning
  <1>12. CASE UNCHANGED vars
    <2>1. UNCHANGED <<fns, pass, at, bus, need, forward, req>>
      BY <1>12 DEF vars, measuring, assigning
    <2>2. /\ N' = N /\ Bridges' = Bridges /\ Open' = Open
          /\ \A k, b : Card(k, b)' <=> Card(k, b)
          /\ \A k, b : Behind(k, b)' <=> Behind(k, b)
      BY <2>1, Same DEF Bridges, SameTree, Card, Visible, Open
    <2>3. \A b : (Closed(b)' <=> Closed(b)) /\ (Found(b)' <=> Found(b))
      BY <2>1, <2>2 DEF Closed, Found
    <2> HIDE DEF Closed
    <2> QED
      BY <2>1, <2>2, <2>3 DEF VgaInv
  <1> QED
    BY <1>1, <1>2, <1>3, <1>4, <1>5, <1>6, <1>7, <1>8, <1>9, <1>10, <1>11, <1>12 DEF Next

(* VGA cycles are passed on by the bridges in front of a card that the     *)
(* enumeration reaches, and by no others.                                  *)
THEOREM CardsReached == Spec => []VgaForwarded
PROOF
  <1> DEFINE I == WalkInv /\ NumberInv /\ ReqInv /\ VgaInv
  <1>1. Init => I
    BY WalkInitial, NumbersInitial, ReqInitial, VgaInitial
  <1>2. I /\ [Next]_vars => I'
    BY WalkStep, NumbersStep, ReqStep, VgaStep
  <1>3. ASSUME I PROVE VgaForwarded
    <2> SUFFICES ASSUME pass = "done", NEW b \in Bridges
                 PROVE  b \in forward <=>
                          \E k \in 1 .. N : fns[k].vga /\ Behind(k, b)
                            /\ \A a \in 1 .. k - 1 : Behind(k, a) => a \in Bridges
      BY DEF VgaForwarded, N
    <2>1. at = N + 1 /\ b \in 1 .. N /\ N \in Nat
      BY <1>3, TreeFacts DEF WalkInv
    <2>2. b \in forward <=> need[b].vga
      BY <1>3, <2>1 DEF VgaInv
    <2>3. need[b].vga <=> \E k \in 1 .. N : Card(k, b)
      BY <1>3 DEF VgaInv, Closed
    <2>4. ASSUME NEW k \in 1 .. N
          PROVE  Visible(k) <=> \A a \in 1 .. k - 1 : Behind(k, a) => a \in Bridges
      <3>1. Visible(k) <=> \A a \in 1 .. N : Behind(k, a) => a \in Bridges
        BY <1>3, VisibleLemma
      <3>2. \A a \in 1 .. k - 1 : a \in 1 .. N
        BY <2>1
      <3>3. \A a \in 1 .. N : Behind(k, a) => a \in 1 .. k - 1
        BY <2>1 DEF Behind
      <3> QED
        BY <3>1, <3>2, <3>3
    <2> QED
      BY <2>2, <2>3, <2>4 DEF Card
  <1> HIDE DEF I
  <1> QED
    BY <1>1, <1>2, <1>3, PTL DEF Spec
-----------------------------------------------------------------------------
(* Alignment.                                                              *)

Multiple(x, a) == \E q \in Nat : x = q * a

(* Products that the prover is told about one by one.                      *)
LEMMA Products ==
  ASSUME NEW q \in Nat, NEW d \in Nat, NEW a \in Nat
  PROVE  /\ q * a \in Nat
         /\ d <= q => d * a <= q * a
         /\ d < q => d * a + a <= q * a
PROOF
  <1>1. d <= q => d * a <= q * a
    <2> SUFFICES ASSUME d <= q PROVE d * a <= q * a
      OBVIOUS
    <2>1. PICK e \in Nat : q = d + e
      BY (q - d) + d = q
    <2>2. q * a = d * a + e * a /\ e * a \in Nat /\ d * a \in Nat
      BY <2>1
    <2> QED
      BY <2>2
  <1>2. d < q => d * a + a <= q * a
    <2> SUFFICES ASSUME d < q PROVE d * a + a <= q * a
      OBVIOUS
    <2>1. PICK e \in Nat : q = d + e + 1
      <3>1. q - d - 1 \in Nat /\ q = d + (q - d - 1) + 1
        OBVIOUS
      <3> QED
        BY <3>1
    <2>2. q * a = d * a + e * a + a /\ e * a \in Nat /\ d * a \in Nat
      BY <2>1
    <2> QED
      BY <2>2
  <1> QED
    BY <1>1, <1>2

(* The aligned address is the first multiple not in front of x.            *)
LEMMA AlignFacts ==
  ASSUME NEW x \in Nat, NEW a \in Nat \ {0}
  PROVE  /\ AlignUp(x, a) \in Nat /\ x <= AlignUp(x, a) /\ Multiple(AlignUp(x, a), a)
         /\ \A q \in Nat : x <= q * a => AlignUp(x, a) <= q * a
PROOF
  <1> DEFINE d == (x + a - 1) \div a
  <1>1. d \in Nat
    OBVIOUS
  <1>2. d * a <= x + a - 1 /\ x + a - 1 < d * a + a
    OBVIOUS
  <1>3. AlignUp(x, a) = d * a
    BY DEF AlignUp
  <1> HIDE DEF d
  <1>4. d * a \in Nat /\ a \in Nat
    BY <1>1, Products
  <1>5. ASSUME NEW q \in Nat, x <= q * a PROVE d * a <= q * a
    <2>1. q * a \in Nat
      BY <1>4, Products
    <2>2. CASE q < d
      <3>1. q * a + a <= d * a
        BY <1>1, <1>4, <2>2, Products
      <3> QED
        BY <1>2, <1>4, <1>5, <2>1, <3>1
    <2>3. CASE d <= q
      BY <1>1, <1>4, <2>3, Products
    <2> QED
      BY <1>1, <2>2, <2>3
  <1> QED
    BY <1>1, <1>2, <1>3, <1>4, <1>5 DEF Multiple

(* What is in front of an aligned address stays in front of it.            *)
LEMMA AlignShift ==
  ASSUME NEW x \in Nat, NEW a \in Nat \ {0}, NEW base \in Nat, NEW c \in Nat,
         Multiple(base, a), x <= base + c
  PROVE  AlignUp(x, a) <= base + AlignUp(c, a)
PROOF
  <1>1. PICK p \in Nat : base = p * a
    BY DEF Multiple
  <1>2. PICK q \in Nat : AlignUp(c, a) = q * a
    BY AlignFacts DEF Multiple
  <1>3. c <= q * a /\ q * a \in Nat /\ p * a \in Nat /\ (p + q) * a = p * a + q * a
    BY <1>2, AlignFacts, Products
  <1>4. x <= (p + q) * a /\ p + q \in Nat
    BY <1>1, <1>3
  <1> QED
    BY <1>1, <1>2, <1>3, <1>4, AlignFacts

(* What is added to more is more.                                          *)
LEMMA AddedMonotone ==
  ASSUME NEW x \in Nat, NEW y \in Nat, x <= y, NEW n \in Nat, NEW a \in Nat \ {0}
  PROVE  /\ Added(x, n, a) <= Added(y, n, a) /\ x <= Added(x, n, a)
         /\ Added(x, 0, a) = x /\ Added(x, n, a) \in Nat
PROOF
  <1>1. PICK q \in Nat : AlignUp(y, a) = q * a
    BY AlignFacts DEF Multiple
  <1>2. y <= q * a /\ q * a \in Nat
    BY <1>1, AlignFacts, Products
  <1>3. AlignUp(x, a) <= AlignUp(y, a)
    <2>1. x <= q * a
      BY <1>2
    <2>2. AlignUp(x, a) <= q * a
      BY <2>1, AlignFacts
    <2> QED
      BY <1>1, <2>2
  <1>4. AlignUp(x, a) \in Nat /\ AlignUp(y, a) \in Nat /\ x <= AlignUp(x, a)
    BY AlignFacts
  <1> QED
    BY <1>3, <1>4 DEF Added

LEMMA MultipleOf ==
  ASSUME NEW x \in Nat, NEW a \in Nat \ {0}
  PROVE  /\ x % a = 0 => Multiple(x, a)
         /\ \A y \in Nat : Multiple(y, x) /\ Multiple(x, a) => Multiple(y, a)
         /\ \A y \in Nat : Multiple(x, a) /\ Multiple(y, a) => Multiple(x + y, a)
PROOF
  <1>1. x % a = 0 => x = (x \div a) * a /\ x \div a \in Nat
    OBVIOUS
  <1>2. ASSUME NEW y \in Nat, Multiple(y, x), Multiple(x, a) PROVE Multiple(y, a)
    <2>1. PICK p \in Nat : y = p * x
      BY <1>2 DEF Multiple
    <2>2. PICK q \in Nat : x = q * a
      BY <1>2 DEF Multiple
    <2>3. y = (p * q) * a /\ p * q \in Nat
      BY <2>1, <2>2
    <2> QED
      BY <2>3 DEF Multiple
  <1>3. ASSUME NEW y \in Nat, Multiple(x, a), Multiple(y, a) PROVE Multiple(x + y, a)
    <2>1. PICK p \in Nat : x = p * a
      BY <1>3 DEF Multiple
    <2>2. PICK q \in Nat : y = q * a
      BY <1>3 DEF Multiple
    <2>3. x + y = (p + q) * a /\ p + q \in Nat
      BY <2>1, <2>2
    <2> QED
      BY <2>3 DEF Multiple
  <1> QED
    BY <1>1, <1>2, <1>3 DEF Multiple
-----------------------------------------------------------------------------
(* The first pass, seen from its end: C[k][i][s] is what had been asked    *)
(* for on the bus of function k when it came to its i-th BAR.              *)

Bars(k) == Len(fns[k].bars)

(* What BAR b makes of what was asked for in space s.                      *)
Raised(c, b, s) == IF s = b.space THEN Added(c, b.size, b.size) ELSE c

(* ... and behind function k, with its windows when it is a bridge.        *)
Out(C, k, s) ==
  LET end == C[k][Bars(k) + 1][s]
  IN  IF k \in Bridges THEN Added(end, need[k][s], WindowAlign(s)) ELSE end

(* All that is asked for on the bus of k, up to behind k, stays below x.   *)
Below(C, k, s, x) == (\A i \in 1 .. Bars(k) + 1 : C[k][i][s] <= x) /\ Out(C, k, s) <= x

(* An earlier function on the same bus.                                    *)
Before(j, k) == j \in 1 .. k - 1 /\ Visible(j) /\ Parent(j) = Parent(k)

(* The trace of k goes up from BAR to BAR, ends below what its bus has     *)
(* now, and begins above what the functions before it left.                *)
Measured(C, k, s) ==
  /\ \A i \in 1 .. Bars(k) : Raised(C[k][i][s], fns[k].bars[i], s) <= C[k][i + 1][s]
  /\ Below(C, k, s, req[Parent(k)][s])
  /\ \A j \in 1 .. N : Before(j, k) => Below(C, j, s, C[k][1][s])

(* The function the walk is at, of which some BARs are measured.           *)
Started(C, s) ==
  bar > 1 =>
    /\ \A i \in 1 .. bar - 1 :
         /\ C[at][i][s] <= req[bus][s]
         /\ Raised(C[at][i][s], fns[at].bars[i], s) <=
              IF i = bar - 1 THEN req[bus][s] ELSE C[at][i + 1][s]
    /\ \A j \in 1 .. N : Before(j, at) => Below(C, j, s, C[at][1][s])

(* Functions the first pass is done with.                                  *)
Past(k) == Visible(k) /\ (k < at \/ pass # "measure")

Traces == [Nat -> [Nat -> [Spaces -> Nat]]]

(* The trace of all that was measured, to where the walk is.               *)
Trace(C) ==
  /\ C \in Traces
  /\ \A s \in Spaces :
       /\ \A k \in 1 .. N : Past(k) => Measured(C, k, s)
       /\ pass = "measure" => Started(C, s)

(* The windows of a bus that was left are what is asked for there, made a  *)
(* multiple of their alignment.                                            *)
WindowInv ==
  \A b \in Bridges, s \in Spaces :
    need[b][s] = IF Closed(b) THEN WindowSize(req[b][s], s) ELSE 0

LEMMA ParentIn ==
  ASSUME WalkInv, NEW k \in 1 .. N, Visible(k)
  PROVE  Parent(k) \in Buses /\ Parent(k) \in 0 .. k - 1
PROOF
  BY TreeFacts DEF WalkInv, Visible, Buses

LEMMA OutType ==
  ASSUME WalkInv, ReqInv, NEW C \in Traces, NEW k \in 1 .. N, NEW s \in Spaces
  PROVE  Out(C, k, s) \in Nat /\ \A i \in 1 .. Bars(k) + 1 : C[k][i][s] \in Nat
PROOF
  <1>1. Bars(k) \in Nat /\ N \in Nat
    BY BarCount, TreeFacts DEF WalkInv, Bars
  <1>2. \A i \in Nat : C[k][i][s] \in Nat
    BY <1>1 DEF Traces
  <1>3. k \in Bridges => need[k][s] \in Nat
    BY DEF ReqInv, IsReq
  <1>4. WindowAlign(s) \in Nat \ {0}
    BY WindowType
  <1> DEFINE end == C[k][Bars(k) + 1][s]
  <1>5. end \in Nat
    BY <1>1, <1>2
  <1>6. k \in Bridges => Added(end, need[k][s], WindowAlign(s)) \in Nat
    BY <1>3, <1>4, <1>5, AddedType
  <1>7. Out(C, k, s) \in Nat
    BY <1>5, <1>6 DEF Out
  <1> QED
    BY <1>1, <1>2, <1>7

LEMMA BelowMonotone ==
  ASSUME WalkInv, ReqInv, NEW C \in Traces, NEW k \in 1 .. N, NEW s \in Spaces,
         NEW x \in Nat, NEW y \in Nat, x <= y, Below(C, k, s, x)
  PROVE  Below(C, k, s, y)
PROOF
  BY OutType DEF Below

(* Of a function that was measured nothing changes when others are.        *)
LEMMA BelowSame ==
  ASSUME WalkInv, ReqInv, NEW C \in Traces, NEW D \in Traces, NEW k \in 1 .. N, NEW s \in Spaces,
         NEW x, Below(C, k, s, x),
         \A i \in 1 .. Bars(k) + 1 : D[k][i][s] = C[k][i][s],
         UNCHANGED fns,
         k \in Bridges <=> k \in Bridges', k \in Bridges => need'[k][s] = need[k][s]
  PROVE  Below(D, k, s, x)'
PROOF
  <1>1. Bars(k) \in Nat /\ Bars(k)' = Bars(k)
    BY BarCount DEF WalkInv, Bars
  <1>2. Bars(k) + 1 \in 1 .. Bars(k) + 1
    BY <1>1
  <1>3. Out(D, k, s)' = Out(C, k, s)
    BY <1>1, <1>2 DEF Out
  <1> QED
    BY <1>1, <1>3 DEF Below

LEMMA TraceInitial == Init => WindowInv /\ \E C : Trace(C)
PROOF
  <1> SUFFICES ASSUME Init PROVE WindowInv /\ \E C : Trace(C)
    OBVIOUS
  <1>1. WindowInv
    BY Void DEF Init, WindowInv, Bridges
  <1> DEFINE C == [k \in Nat |-> [i \in Nat |-> [s \in Spaces |-> 0]]]
  <1>2. C \in Traces
    BY DEF Traces
  <1>3. \A k \in 1 .. N : ~Past(k)
    BY TreeFacts DEF Init, Past
  <1>4. \A s \in Spaces : Started(C, s)
    BY DEF Init, Started
  <1> QED
    BY <1>1, <1>2, <1>3, <1>4 DEF Trace

(* A measured function stays so when what its bus asks for only grows.     *)
LEMMA MeasuredStays ==
  ASSUME WalkInv, ReqInv, NEW C \in Traces, NEW D \in Traces, NEW s \in Spaces,
         NEW k \in 1 .. N, Visible(k), Measured(C, k, s), UNCHANGED fns,
         \A j \in 1 .. k : j \in Bridges' <=> j \in Bridges,
         \A j \in 1 .. k : j = k \/ Before(j, k) =>
           /\ \A i \in 1 .. Bars(j) + 1 : D[j][i][s] = C[j][i][s]
           /\ j \in Bridges => need'[j][s] = need[j][s],
         req'[Parent(k)][s] \in Nat, req[Parent(k)][s] <= req'[Parent(k)][s]
  PROVE  Measured(D, k, s)'
PROOF
  <1>1. /\ Bars(k) \in Nat /\ N \in Nat /\ N' = N
        /\ \A j : Parent(j)' = Parent(j) /\ Bars(j)' = Bars(j)
        /\ \A j \in 1 .. N : Parent(j) \in 0 .. j - 1
    BY BarCount, TreeFacts, Same DEF WalkInv, Bars, SameTree
  <1>2. Parent(k) \in Buses /\ req[Parent(k)][s] \in Nat
    BY ParentIn DEF ReqInv, IsReq
  <1>3. \A i \in 1 .. Bars(k)' : Raised(D[k][i][s], fns[k].bars[i], s)' <= D[k][i + 1][s]
    <2> SUFFICES ASSUME NEW i \in 1 .. Bars(k)
                 PROVE  Raised(D[k][i][s], fns[k].bars[i], s)' <= D[k][i + 1][s]
      BY <1>1
    <2>1. i \in 1 .. Bars(k) + 1 /\ i + 1 \in 1 .. Bars(k) + 1
      BY <1>1
    <2>2. D[k][i][s] = C[k][i][s] /\ D[k][i + 1][s] = C[k][i + 1][s]
      BY <1>1, <2>1
    <2>3. Raised(C[k][i][s], fns[k].bars[i], s) <= C[k][i + 1][s]
      BY DEF Measured
    <2> QED
      BY <2>2, <2>3 DEF Raised
  <1>4. Below(D, k, s, req[Parent(k)][s])'
    <2>1. Below(C, k, s, req[Parent(k)][s])
      BY DEF Measured
    <2>2. Below(C, k, s, req'[Parent(k)][s])
      BY <1>2, <2>1, BelowMonotone
    <2>3. PICK x : x = req'[Parent(k)][s]
      OBVIOUS
    <2>4. Below(D, k, s, x)'
      <3>1. Below(C, k, s, x)
        BY <2>2, <2>3
      <3>2. k \in 1 .. k
        BY <1>1
      <3>3. /\ \A i \in 1 .. Bars(k) + 1 : D[k][i][s] = C[k][i][s]
            /\ k \in Bridges <=> k \in Bridges'
            /\ k \in Bridges => need'[k][s] = need[k][s]
        BY <3>2
      <3> QED
        BY <3>1, <3>3, BelowSame
    <2>5. x = req'[Parent(k)'][s]
      BY <1>1, <2>3
    <2> QED
      BY <2>4, <2>5 DEF Below
  <1>5. ASSUME NEW j \in 1 .. N, Before(j, k)' PROVE Below(D, j, s, D[k][1][s])'
    <2>1. j \in 1 .. k - 1 /\ Visible(j)' /\ Parent(j) = Parent(k)
      BY <1>1, <1>5 DEF Before
    <2>2. Parent(j) \in 0 .. j - 1 /\ (Parent(j) = 0 \/ Parent(j) \in Bridges')
      BY <1>1, <2>1 DEF Visible
    <2>3. Parent(j) = 0 \/ Parent(j) \in Bridges
      BY <1>1, <2>1, <2>2
    <2>4. Before(j, k) /\ j \in 1 .. k
      BY <2>1, <2>3 DEF Before, Visible
    <2>5. Below(C, j, s, C[k][1][s])
      BY <2>4 DEF Measured
    <2>6. D[k][1][s] = C[k][1][s]
      BY <1>1
    <2>7. Below(C, j, s, D[k][1][s])
      BY <2>5, <2>6
    <2>8. /\ \A i \in 1 .. Bars(j) + 1 : D[j][i][s] = C[j][i][s]
          /\ j \in Bridges <=> j \in Bridges'
          /\ j \in Bridges => need'[j][s] = need[j][s]
      BY <2>4
    <2> QED
      BY <2>7, <2>8, BelowSame
  <1> QED
    BY <1>1, <1>3, <1>4, <1>5 DEF Measured

(* The trace with what is asked for before the next BAR.                   *)
Recorded(C) ==
  [k \in Nat |-> [i \in Nat |-> [s \in Spaces |->
     IF k = at /\ i = bar THEN req[bus][s] ELSE C[k][i][s]]]]

LEMMA RecordedFacts ==
  ASSUME WalkInv, ReqInv, Here, NEW C \in Traces, NEW D, D = Recorded(C)
  PROVE  /\ D \in Traces /\ at \in 1 .. N /\ N \in Nat /\ bar \in Nat \ {0}
         /\ \A k \in 1 .. N, i \in Nat, s \in Spaces :
              D[k][i][s] = IF k = at /\ i = bar THEN req[bus][s] ELSE C[k][i][s]
PROOF
  <1>1. bus \in Buses /\ \A s \in Spaces : req[bus][s] \in Nat
    BY BusIn DEF ReqInv, IsReq
  <1>2. at \in 1 .. N /\ N \in Nat /\ bar \in Nat \ {0}
    BY TreeFacts DEF WalkInv, SpotInv, Here, N
  <1>3. \A k \in Nat, i \in Nat, s \in Spaces :
          D[k][i][s] = IF k = at /\ i = bar THEN req[bus][s] ELSE C[k][i][s]
    BY DEF Recorded
  <1>4. \A k \in Nat, i \in Nat, s \in Spaces :
          (IF k = at /\ i = bar THEN req[bus][s] ELSE C[k][i][s]) \in Nat
    BY <1>1 DEF Traces
  <1>5. D \in Traces
    BY <1>4 DEF Recorded, Traces
  <1> QED
    BY <1>2, <1>3, <1>5

(* With the next BAR recorded, the function is measured up to there.       *)
LEMMA RecordedChain ==
  ASSUME WalkInv, ReqInv, Here, pass = "measure", NEW C \in Traces, Trace(C), NEW D, D = Recorded(C),
         NEW s \in Spaces
  PROVE  /\ \A i \in 1 .. bar : D[at][i][s] <= req[bus][s] /\ D[at][i][s] \in Nat
         /\ \A i \in 1 .. bar - 1 : Raised(D[at][i][s], fns[at].bars[i], s) <= D[at][i + 1][s]
         /\ \A j \in 1 .. N : Before(j, at) => Below(D, j, s, D[at][1][s])
PROOF
  <1>1. /\ D \in Traces /\ at \in 1 .. N /\ N \in Nat /\ bar \in Nat \ {0}
        /\ \A k \in 1 .. N, i \in Nat :
              D[k][i][s] = IF k = at /\ i = bar THEN req[bus][s] ELSE C[k][i][s]
    BY RecordedFacts
  <1>2. req[bus][s] \in Nat /\ Parent(at) = bus
    BY BusIn, HereBehind DEF ReqInv, IsReq
  <1>3. Started(C, s)
    BY DEF Trace
  <1>4. D[at][bar][s] = req[bus][s] /\ \A i \in 1 .. bar - 1 : D[at][i][s] = C[at][i][s]
    BY <1>1
  <1>5. \A i \in 1 .. bar : D[at][i][s] <= req[bus][s] /\ D[at][i][s] \in Nat
    <2> TAKE i \in 1 .. bar
    <2>1. CASE i = bar
      BY <1>2, <1>4, <2>1
    <2>2. CASE i # bar
      <3>1. i \in 1 .. bar - 1 /\ bar > 1 /\ i \in Nat /\ at \in Nat
        BY <1>1, <2>2
      <3>2. C[at][i][s] <= req[bus][s]
        BY <1>3, <3>1 DEF Started
      <3>3. C[at][i][s] \in Nat
        BY <3>1 DEF Traces
      <3> QED
        BY <1>4, <3>1, <3>2, <3>3
    <2> QED
      BY <2>1, <2>2
  <1>6. \A i \in 1 .. bar - 1 : Raised(D[at][i][s], fns[at].bars[i], s) <= D[at][i + 1][s]
    <2> TAKE i \in 1 .. bar - 1
    <2>1. bar > 1
      BY <1>1
    <2>2. Raised(C[at][i][s], fns[at].bars[i], s) <=
            IF i = bar - 1 THEN req[bus][s] ELSE C[at][i + 1][s]
      BY <1>3, <2>1 DEF Started
    <2>3. CASE i = bar - 1
      <3>1. i + 1 = bar
        BY <1>1, <2>3
      <3> QED
        BY <1>4, <2>2, <2>3, <3>1
    <2>4. CASE i # bar - 1
      <3>1. i + 1 \in 1 .. bar - 1
        BY <1>1, <2>4
      <3> QED
        BY <1>4, <2>2, <2>4, <3>1
    <2> QED
      BY <2>3, <2>4
  <1>7. ASSUME NEW j \in 1 .. N, Before(j, at) PROVE Below(D, j, s, D[at][1][s])
    <2>1. j \in 1 .. at - 1 /\ Visible(j) /\ Parent(j) = bus
      BY <1>2, <1>7 DEF Before
    <2>2. Below(C, j, s, D[at][1][s])
      <3>1. CASE bar = 1
        <4>1. Measured(C, j, s)
          BY <1>1, <2>1 DEF Trace, Past
        <4> QED
          BY <1>4, <2>1, <3>1, <4>1 DEF Measured
      <3>2. CASE bar # 1
        <4>1. bar > 1 /\ 1 \in 1 .. bar - 1
          BY <1>1, <3>2
        <4> QED
          BY <1>3, <1>4, <1>7, <4>1 DEF Started
      <3> QED
        BY <3>1, <3>2
    <2>3. Bars(j) \in Nat
      BY BarCount DEF WalkInv, Bars
    <2>4. \A i \in 1 .. Bars(j) + 1 : D[j][i][s] = C[j][i][s]
      BY <1>1, <2>1, <2>3
    <2>5. Bars(j) + 1 \in 1 .. Bars(j) + 1
      BY <2>3
    <2> QED
      BY <2>2, <2>4, <2>5 DEF Below, Out
  <1> QED
    BY <1>5, <1>6, <1>7

(* In the first pass what is asked for never shrinks.                      *)
LEMMA Growth ==
  ASSUME WalkInv, ReqInv, NEW s \in Spaces, MeasureBar
  PROVE  /\ \A b \in Buses : req[b][s] <= req'[b][s] /\ req'[b][s] \in Nat /\ req[b][s] \in Nat
         /\ Raised(req[bus][s], fns[at].bars[bar], s) = req'[bus][s]
PROOF
  <1> DEFINE b == fns[at].bars[bar]
  <1>1. b.space \in Spaces /\ b.size \in Nat \ {0} /\ bus \in Buses
    BY BarType, BusIn DEF MeasureBar
  <1>2. /\ \A c \in Buses : req[c][s] \in Nat
        /\ \A c \in Buses : c # bus => req'[c] = req[c]
    BY MeasuredBar DEF ReqInv, IsReq
  <1>3. req'[bus][s] = IF s = b.space THEN Added(req[bus][s], b.size, b.size) ELSE req[bus][s]
    BY MeasuredBar
  <1>4. /\ Added(req[bus][s], b.size, b.size) \in Nat
        /\ req[bus][s] <= Added(req[bus][s], b.size, b.size)
    <2>1. PICK x \in Nat : x = req[bus][s]
      BY <1>1, <1>2
    <2>2. PICK n \in Nat \ {0} : n = b.size
      BY <1>1
    <2>3. Added(x, n, n) \in Nat /\ x <= Added(x, n, n)
      BY AddedMonotone
    <2> QED
      BY <2>1, <2>2, <2>3
  <1>5. ASSUME NEW c \in Buses
        PROVE  req[c][s] <= req'[c][s] /\ req'[c][s] \in Nat /\ req[c][s] \in Nat
    BY <1>2, <1>3, <1>4
  <1> QED
    BY <1>3, <1>5 DEF Raised

(* Each step of the first pass extends the trace.                          *)
LEMMA TraceBar ==
  ASSUME WalkInv, ReqInv, MeasureBar, NEW C \in Traces, Trace(C)
  PROVE  \E D : Trace(D)'
PROOF
  <1>0. PICK D : D = Recorded(C)
    OBVIOUS
  <1>1. /\ Here /\ pass = "measure" /\ bar' = bar + 1
        /\ UNCHANGED <<fns, pass, at, bus, need>>
    BY DEF MeasureBar
  <1>2. /\ D \in Traces /\ at \in 1 .. N /\ N \in Nat /\ bar \in Nat \ {0}
        /\ \A k \in 1 .. N, i \in Nat, s \in Spaces :
              D[k][i][s] = IF k = at /\ i = bar THEN req[bus][s] ELSE C[k][i][s]
    BY <1>0, <1>1, RecordedFacts
  <1>3. N' = N /\ Bridges' = Bridges /\ Parent(at) = bus /\ bus \in Buses
    BY <1>1, BusIn, HereBehind DEF N, Bridges
  <1>4. ASSUME NEW s \in Spaces, NEW k \in 1 .. N, Past(k)' PROVE Measured(D, k, s)'
    <2>1. k < at /\ Visible(k)
      BY <1>1, <1>3, <1>4 DEF Past, Visible, Parent
    <2>2. Measured(C, k, s)
      BY <1>2, <2>1 DEF Trace, Past
    <2>3. Parent(k) \in Buses
      BY <2>1, ParentIn
    <2>4. req'[Parent(k)][s] \in Nat /\ req[Parent(k)][s] <= req'[Parent(k)][s]
      BY <2>3, Growth
    <2>5. \A j \in 1 .. k : j \in Bridges' <=> j \in Bridges
      BY <1>3
    <2>6. \A j \in 1 .. k : j = k \/ Before(j, k) =>
           /\ \A i \in 1 .. Bars(j) + 1 : D[j][i][s] = C[j][i][s]
           /\ j \in Bridges => need'[j][s] = need[j][s]
      <3> TAKE j \in 1 .. k
      <3>1. j \in 1 .. N /\ j # at
        BY <1>2, <2>1
      <3>2. Bars(j) \in Nat
        BY <3>1, BarCount DEF Bars, WalkInv
      <3> QED
        BY <1>1, <1>2, <3>1, <3>2
    <2> QED
      BY <1>1, <1>2, <2>1, <2>2, <2>4, <2>5, <2>6, MeasuredStays
  <1>5. ASSUME NEW s \in Spaces PROVE Started(D, s)'
    <2>1. /\ \A i \in 1 .. bar : D[at][i][s] <= req[bus][s] /\ D[at][i][s] \in Nat
          /\ \A i \in 1 .. bar - 1 : Raised(D[at][i][s], fns[at].bars[i], s) <= D[at][i + 1][s]
          /\ \A j \in 1 .. N : Before(j, at) => Below(D, j, s, D[at][1][s])
      BY <1>0, <1>1, RecordedChain
    <2>2. /\ req[bus][s] <= req'[bus][s] /\ req'[bus][s] \in Nat /\ req[bus][s] \in Nat
          /\ Raised(req[bus][s], fns[at].bars[bar], s) = req'[bus][s]
      BY <1>3, Growth
    <2>3. \A i \in 1 .. bar : D[at][i][s] <= req'[bus][s]
      BY <2>1, <2>2
    <2>4. ASSUME NEW i \in 1 .. bar
          PROVE  Raised(D[at][i][s], fns[at].bars[i], s) <=
                   IF i = bar THEN req'[bus][s] ELSE D[at][i + 1][s]
      <3>1. CASE i = bar
        BY <1>2, <2>2, <3>1
      <3>2. CASE i # bar
        <4>1. i \in 1 .. bar - 1
          BY <1>2, <3>2
        <4> QED
          BY <2>1, <3>2, <4>1
      <3> QED
        BY <3>1, <3>2
    <2>5. ASSUME NEW j \in 1 .. N, Before(j, at)' PROVE Below(D, j, s, D[at][1][s])'
      <3>1. Before(j, at)
        BY <1>1, <1>3, <2>5 DEF Before, Visible, Parent
      <3>2. Below(D, j, s, D[at][1][s])
        BY <2>1, <3>1
      <3>3. PICK x : x = D[at][1][s]
        OBVIOUS
      <3>4. Below(D, j, s, x)'
        BY <1>1, <1>2, <1>3, <3>2, <3>3, BelowSame
      <3> QED
        BY <1>1, <3>3, <3>4 DEF Below
    <2>6. /\ \A i \in 1 .. bar' - 1 : D[at'][i][s] <= req'[bus'][s]
          /\ \A i \in 1 .. bar' - 1 : Raised(D[at'][i][s], fns'[at'].bars[i], s) <=
               IF i = bar' - 1 THEN req'[bus'][s] ELSE D[at'][i + 1][s]
      <3>1. bar' - 1 = bar
        BY <1>1, <1>2
      <3> QED
        BY <1>1, <2>3, <2>4, <3>1
    <2>7. \A j \in 1 .. N' : Before(j, at)' => Below(D, j, s, D[at][1][s])'
      BY <1>3, <2>5
    <2> QED
      BY <2>6, <2>7 DEF Started, Raised
  <1>6. Trace(D)'
    BY <1>2, <1>3, <1>4, <1>5 DEF Trace, Traces, Spaces
  <1> QED
    BY <1>6

(* The function is done with: a device, a bridge that gets an entry, or    *)
(* one that does not.                                                      *)
LEMMA TraceFinished ==
  ASSUME WalkInv, ReqInv, Here, pass = "measure", bar > Bars(at),
         NEW C \in Traces, Trace(C),
         UNCHANGED <<fns, pass>>, bar' = 1, at' \in Nat, at' > at,
         \A k \in 1 .. N : k > at /\ k < at' => ~Visible(k)',
         \A j \in 1 .. N : j # at => (j \in Bridges' <=> j \in Bridges),
         \A s \in Spaces : at \in Bridges' => need'[at][s] = 0,
         \A j \in Bridges : j # at => need'[j] = need[j],
         \A b \in Buses, s \in Spaces : req'[b][s] = req[b][s]
  PROVE  \E D : Trace(D)'
PROOF
  <1>0. PICK D : D = Recorded(C)
    OBVIOUS
  <1>2. /\ D \in Traces /\ at \in 1 .. N /\ N \in Nat /\ bar \in Nat \ {0}
        /\ \A k \in 1 .. N, i \in Nat, s \in Spaces :
              D[k][i][s] = IF k = at /\ i = bar THEN req[bus][s] ELSE C[k][i][s]
    BY <1>0, RecordedFacts
  <1>3. /\ N' = N /\ Parent(at) = bus /\ bus \in Buses /\ Visible(at) /\ fns \in Trees
        /\ \A k : Parent(k)' = Parent(k) /\ Bars(k)' = Bars(k)
        /\ \A k \in 1 .. N : Parent(k) \in 0 .. k - 1
        /\ Bars(at) \in Nat
    BY <1>2, BusIn, HereBehind, TreeFacts, BarCount DEF N, Parent, Bars, WalkInv
  <1>4. bar = Bars(at) + 1 /\ at \notin Bridges
    <2>1. bar <= Bars(at) + 1
      BY <1>2 DEF WalkInv, Bars
    <2>2. \A b \in Bridges : b < at
      BY DEF WalkInv
    <2> QED
      BY <1>2, <1>3, <2>1, <2>2
  <1>5. ASSUME NEW k \in 1 .. N, k <= at, Visible(k)' PROVE Visible(k)
    BY <1>2, <1>3, <1>5 DEF Visible
  <1>6. ASSUME NEW k \in 1 .. N, NEW s \in Spaces, Visible(k)
        PROVE  req'[Parent(k)][s] \in Nat /\ req[Parent(k)][s] = req'[Parent(k)][s]
    <2>1. Parent(k) \in Buses
      BY <1>6, ParentIn
    <2> QED
      BY <2>1 DEF ReqInv, IsReq
  <1>7. ASSUME NEW s \in Spaces, NEW k \in 1 .. N, k < at, Visible(k) PROVE Measured(D, k, s)'
    <2>1. Measured(C, k, s)
      BY <1>2, <1>7 DEF Trace, Past
    <2>2. \A j \in 1 .. k : j \in Bridges' <=> j \in Bridges
      BY <1>2, <1>7
    <2>3. \A j \in 1 .. k : j = k \/ Before(j, k) =>
           /\ \A i \in 1 .. Bars(j) + 1 : D[j][i][s] = C[j][i][s]
           /\ j \in Bridges => need'[j][s] = need[j][s]
      <3> TAKE j \in 1 .. k
      <3>1. j \in 1 .. N /\ j # at
        BY <1>2, <1>7
      <3>2. Bars(j) \in Nat
        BY <1>3, <3>1, BarCount DEF Bars
      <3> QED
        BY <1>2, <3>1, <3>2
    <2>4. req'[Parent(k)][s] \in Nat /\ req[Parent(k)][s] <= req'[Parent(k)][s]
      BY <1>6, <1>7
    <2> QED
      BY <1>2, <1>7, <2>1, <2>2, <2>3, <2>4, MeasuredStays
  <1>8. PICK a : a = at
    OBVIOUS
  <1>9. ASSUME NEW s \in Spaces PROVE Measured(D, a, s)'
    <2>1. /\ \A i \in 1 .. bar : D[at][i][s] <= req[bus][s] /\ D[at][i][s] \in Nat
          /\ \A i \in 1 .. bar - 1 : Raised(D[at][i][s], fns[at].bars[i], s) <= D[at][i + 1][s]
          /\ \A j \in 1 .. N : Before(j, at) => Below(D, j, s, D[at][1][s])
      BY <1>0, RecordedChain
    <2>2. req'[bus][s] = req[bus][s] /\ req[bus][s] \in Nat
      BY <1>2, <1>3, <1>6
    <2>3. \A i \in 1 .. Bars(a)' : Raised(D[a][i][s], fns[a].bars[i], s)' <= D[a][i + 1][s]
      <3>1. \A i \in 1 .. Bars(a) : Raised(D[a][i][s], fns[a].bars[i], s) <= D[a][i + 1][s]
        BY <1>3, <1>4, <1>8, <2>1
      <3>2. Bars(a)' = Bars(a)
        BY <1>3
      <3> QED
        BY <3>1, <3>2 DEF Raised
    <2>4. Below(D, a, s, req[Parent(a)][s])'
      <3>1. Parent(a)' = bus
        BY <1>3, <1>8
      <3>2. \A i \in 1 .. Bars(a)' + 1 : D[a][i][s] <= req'[bus][s]
        BY <1>3, <1>4, <1>8, <2>1, <2>2
      <3>3. D[a][Bars(a)' + 1][s] = req[bus][s]
        BY <1>2, <1>3, <1>4, <1>8
      <3>4. Out(D, a, s)' = req[bus][s]
        <4>1. CASE a \in Bridges'
          <5>1. Out(D, a, s)' = Added(req[bus][s], 0, WindowAlign(s))
            BY <1>8, <3>3, <4>1 DEF Out, Added, WindowAlign
          <5> QED
            BY <5>1 DEF Added
        <4>2. CASE a \notin Bridges'
          BY <3>3, <4>2 DEF Out
        <4> QED
          BY <4>1, <4>2
      <3> QED
        BY <2>2, <3>1, <3>2, <3>4 DEF Below
    <2>5. ASSUME NEW j \in 1 .. N, Before(j, a)' PROVE Below(D, j, s, D[a][1][s])'
      <3>1. j \in 1 .. N /\ j < at /\ Visible(j)' /\ Parent(j) = Parent(a)
        BY <1>2, <1>3, <1>8, <2>5 DEF Before
      <3>2. Before(j, at)
        BY <1>2, <1>5, <1>8, <3>1 DEF Before
      <3>3. Below(D, j, s, D[a][1][s])
        BY <1>8, <2>1, <3>2
      <3>4. (j \in Bridges' <=> j \in Bridges) /\ (j \in Bridges => need'[j] = need[j])
        BY <1>2, <3>1
      <3> QED
        BY <1>2, <3>3, <3>4, BelowSame
    <2>6. \A j \in 1 .. N' : Before(j, a)' => Below(D, j, s, D[a][1][s])'
      BY <1>3, <2>5
    <2> QED
      BY <2>3, <2>4, <2>6 DEF Measured
  <1>10. ASSUME NEW s \in Spaces, NEW k \in 1 .. N, Past(k)' PROVE Measured(D, k, s)'
    <2>1. Visible(k)' /\ k < at' /\ k <= at
      BY <1>2, <1>10 DEF Past
    <2>2. CASE k < at
      BY <1>2, <1>5, <1>7, <2>1, <2>2
    <2>3. CASE k = at
      BY <1>8, <1>9, <2>3
    <2> QED
      BY <1>2, <2>1, <2>2, <2>3
  <1>11. \A s \in Spaces : Started(D, s)'
    BY DEF Started
  <1>12. Trace(D)'
    BY <1>2, <1>3, <1>10, <1>11 DEF Trace, Traces, Spaces
  <1> QED
    BY <1>12

(* On the way back, the window of the bus that is left is added in front.  *)
LEMMA TraceLeave ==
  ASSUME WalkInv, ReqInv, WindowInv, LeaveBus, NEW C \in Traces, Trace(C)
  PROVE  Trace(C)'
PROOF
  <1>1. /\ ~Here /\ bus # 0 /\ pass = "measure" /\ bar = 1
        /\ UNCHANGED <<fns, pass, at, bar>>
    BY DEF LeaveBus, WalkInv
  <1>2. /\ N \in Nat /\ bus \in 1 .. N /\ bus \in Bridges /\ Parent(bus) \in Buses /\ bus < at
        /\ Bridges' = Bridges /\ N' = N
        /\ at \in 1 .. N + 1 /\ fns \in Trees
        /\ \A k : Parent(k)' = Parent(k) /\ Bars(k)' = Bars(k)
        /\ \A k \in 1 .. N : Parent(k) \in 0 .. k - 1
        /\ \A j \in bus + 1 .. at - 1 : Parent(j) >= bus
    BY <1>1, BusIn, Left, TreeFacts, OpenFacts DEF WalkInv, SpotInv, N, Parent, Bars
  <1>3. ASSUME NEW s \in Spaces
        PROVE  /\ req[Parent(bus)][s] \in Nat /\ need'[bus][s] \in Nat
               /\ req'[Parent(bus)][s] = Added(req[Parent(bus)][s], need'[bus][s], WindowAlign(s))
               /\ WindowAlign(s) \in Nat \ {0}
    BY <1>2, Left, WindowType DEF ReqInv, IsReq
  <1>4. ASSUME NEW s \in Spaces, NEW b \in Buses
        PROVE  req[b][s] \in Nat /\ req'[b][s] \in Nat /\ req[b][s] <= req'[b][s]
    <2>1. req[b][s] \in Nat
      BY DEF ReqInv, IsReq
    <2>2. CASE b = Parent(bus)
      <3>1. PICK x \in Nat, n \in Nat, a \in Nat \ {0} :
              x = req[Parent(bus)][s] /\ n = need'[bus][s] /\ a = WindowAlign(s)
        BY <1>3
      <3>2. Added(x, n, a) \in Nat /\ x <= Added(x, n, a)
        BY AddedMonotone
      <3> QED
        BY <1>3, <2>2, <3>1, <3>2
    <2>3. CASE b # Parent(bus)
      BY <2>1, <2>3, Left
    <2> QED
      BY <2>2, <2>3
  <1>5. PICK c : c = bus
    OBVIOUS
  <1>6. ASSUME NEW s \in Spaces, NEW k \in 1 .. N, k < at, Visible(k), k # c
        PROVE  Measured(C, k, s)'
    <2>1. Measured(C, k, s)
      BY <1>1, <1>6 DEF Trace, Past
    <2>2. ~Before(bus, k)
      <3>1. ASSUME Before(bus, k) PROVE FALSE
        <4>1. k \in bus + 1 .. at - 1 /\ Parent(k) = Parent(bus)
          BY <1>2, <1>6, <3>1 DEF Before
        <4> QED
          BY <1>2, <4>1
      <3> QED
        BY <3>1
    <2>3. \A j \in 1 .. k : j = k \/ Before(j, k) =>
           /\ \A i \in 1 .. Bars(j) + 1 : C[j][i][s] = C[j][i][s]
           /\ j \in Bridges => need'[j][s] = need[j][s]
      BY <1>5, <1>6, <2>2, Left
    <2>4. \A j \in 1 .. k : j \in Bridges' <=> j \in Bridges
      BY <1>2
    <2>5. req'[Parent(k)][s] \in Nat /\ req[Parent(k)][s] <= req'[Parent(k)][s]
      BY <1>4, <1>6, ParentIn
    <2> QED
      BY <1>1, <1>6, <2>1, <2>3, <2>4, <2>5, MeasuredStays
  <1>7. ASSUME NEW s \in Spaces PROVE Measured(C, c, s)'
    <2>1. Measured(C, c, s)
      BY <1>1, <1>2, <1>5 DEF Trace, Past, Visible, Buses
    <2>2. \A i \in 1 .. Bars(c)' : Raised(C[c][i][s], fns[c].bars[i], s)' <= C[c][i + 1][s]
      BY <1>1, <1>2, <2>1 DEF Measured, Raised
    <2>3. PICK x \in Nat, n \in Nat, a \in Nat \ {0} :
            x = req[Parent(bus)][s] /\ n = need'[bus][s] /\ a = WindowAlign(s)
      BY <1>3
    <2>4. req'[Parent(bus)][s] = Added(x, n, a) /\ Added(x, n, a) \in Nat /\ x <= Added(x, n, a)
      <3>1. Added(x, n, a) \in Nat /\ x <= Added(x, n, a)
        BY AddedMonotone
      <3> QED
        BY <1>3, <2>3, <3>1
    <2>5. /\ Bars(c) \in Nat
          /\ \A i \in 1 .. Bars(c) + 1 : C[c][i][s] <= x /\ C[c][i][s] \in Nat
      <3>1. Bars(c) \in Nat
        BY <1>2, <1>5, BarCount DEF Bars
      <3>2. Below(C, c, s, x)
        BY <1>5, <2>1, <2>3 DEF Measured
      <3> QED
        BY <1>2, <1>5, <3>1, <3>2, OutType DEF Below
    <2>6. Out(C, c, s)' <= Added(x, n, a)
      <3>1. PICK e \in Nat : e = C[c][Bars(c) + 1][s] /\ e <= x
        BY <2>5
      <3>2. Added(e, n, a) <= Added(x, n, a)
        BY <3>1, AddedMonotone
      <3>3. Out(C, c, s)' = Added(e, n, a)
        BY <1>2, <1>5, <2>3, <3>1 DEF Out, Added, WindowAlign
      <3> QED
        BY <3>2, <3>3
    <2>7. \A i \in 1 .. Bars(c)' + 1 : C[c][i][s] <= Added(x, n, a)
      BY <1>2, <2>4, <2>5
    <2>8. req'[Parent(c)'][s] = Added(x, n, a)
      BY <1>2, <1>5, <2>4
    <2>9. Below(C, c, s, req[Parent(c)][s])'
      BY <2>6, <2>7, <2>8 DEF Below
    <2>10. ASSUME NEW j \in 1 .. N, Before(j, c)' PROVE Below(C, j, s, C[c][1][s])'
      <3>1. Before(j, c) /\ j # c
        BY <1>2, <1>5, <2>10 DEF Before, Visible
      <3>2. Below(C, j, s, C[c][1][s])
        BY <2>1, <3>1 DEF Measured
      <3>3. (j \in Bridges' <=> j \in Bridges) /\ (j \in Bridges => need'[j] = need[j])
        BY <1>2, <1>5, <3>1, Left
      <3> QED
        BY <1>1, <3>2, <3>3, BelowSame
    <2>11. \A j \in 1 .. N' : Before(j, c)' => Below(C, j, s, C[c][1][s])'
      BY <1>2, <2>10
    <2> QED
      BY <2>2, <2>9, <2>11 DEF Measured
  <1>8. ASSUME NEW s \in Spaces, NEW k \in 1 .. N, Past(k)' PROVE Measured(C, k, s)'
    <2>1. Visible(k) /\ k < at
      BY <1>1, <1>2, <1>8 DEF Past, Visible
    <2> QED
      BY <1>6, <1>7, <2>1
  <1>9. \A s \in Spaces : Started(C, s)'
    BY <1>1 DEF Started
  <1> QED
    BY <1>2, <1>8, <1>9 DEF Trace, Traces, Spaces

(* The second pass leaves it alone.                                        *)
LEMMA TraceElse ==
  ASSUME WalkInv, UNCHANGED <<fns, req, need>>, pass' # "measure",
         pass = "measure" => at > N, NEW C \in Traces, Trace(C)
  PROVE  Trace(C)'
PROOF
  <1>1. /\ N' = N /\ Bridges' = Bridges /\ N \in Nat
        /\ \A k : Visible(k)' <=> Visible(k)
        /\ \A k, s : Measured(C, k, s)' <=> Measured(C, k, s)
    BY TreeFacts
    DEF WalkInv, N, Bridges, Visible, Parent, Measured, Raised, Below, Before, Out, Bars,
        Added, AlignUp, WindowAlign
  <1>2. ASSUME NEW s \in Spaces, NEW k \in 1 .. N, Past(k)' PROVE Measured(C, k, s)'
    <2>1. Past(k)
      BY <1>1, <1>2 DEF Past, WalkInv, SpotInv
    <2> QED
      BY <1>1, <2>1 DEF Trace
  <1> QED
    BY <1>1, <1>2 DEF Trace, Traces, Spaces

LEMMA TraceStep ==
  WalkInv /\ ReqInv /\ WindowInv /\ [Next]_vars =>
    \A C : Trace(C) => \E D : Trace(D)'
PROOF
  <1> SUFFICES ASSUME WalkInv, ReqInv, WindowInv, [Next]_vars, NEW C, Trace(C)
               PROVE  \E D : Trace(D)'
    OBVIOUS
  <1>1. C \in Traces
    BY DEF Trace
  <1>2. CASE MeasureBar
    BY <1>1, <1>2, TraceBar
  <1>3. CASE MeasureDevice
    <2>1. /\ Here /\ pass = "measure" /\ bar > Bars(at) /\ UNCHANGED <<fns, pass, need>>
          /\ bar' = 1 /\ at' = at + 1 /\ Bridges' = Bridges
      BY <1>3 DEF MeasureDevice, Bars, Bridges
    <2>2. at \in Nat /\ \A b \in Bridges : b < at
      BY <2>1 DEF WalkInv, SpotInv
    <2>3. N \in Nat /\ \A k \in 1 .. N : ~(k > at /\ k < at')
      BY <2>1, <2>2, TreeFacts DEF WalkInv
    <2>4. \A b \in Buses, s \in Spaces : req'[b][s] = req[b][s]
      BY <1>3, MeasuredDevice
    <2>5. at \notin Bridges /\ at' > at /\ at' \in Nat
      BY <2>1, <2>2
    <2> QED
      BY <1>1, <2>1, <2>3, <2>4, <2>5, TraceFinished
  <1>4. CASE EnterBridge
    <2>1. /\ Here /\ pass = "measure" /\ bar > Bars(at) /\ UNCHANGED <<fns, pass>>
          /\ bar' = 1 /\ at' = at + 1
      BY <1>4 DEF EnterBridge, Bars
    <2>2. at \in Nat
      BY DEF WalkInv, SpotInv
    <2>3. N \in Nat /\ \A k \in 1 .. N : ~(k > at /\ k < at')
      BY <2>1, <2>2, TreeFacts DEF WalkInv
    <2>4. /\ \A b \in Buses, s \in Spaces : req'[b][s] = req[b][s]
          /\ \A b \in Bridges : need'[b] = need[b]
          /\ Bridges' = Bridges \cup {at} /\ need'[at] = Nothing
      BY <1>4, Entered
    <2>5. \A s \in Spaces : need'[at][s] = 0
      BY <2>4 DEF Nothing, Spaces
    <2>6. at' > at /\ at' \in Nat
      BY <2>1, <2>2
    <2>7. \A j \in 1 .. N : j # at => (j \in Bridges' <=> j \in Bridges)
      BY <2>4
    <2> QED
      BY <1>1, <2>1, <2>3, <2>4, <2>5, <2>6, <2>7, TraceFinished
  <1>5. CASE SkipBridge
    <2>1. /\ Here /\ pass = "measure" /\ bar > Bars(at) /\ UNCHANGED <<fns, pass, need, req>>
          /\ bar' = 1 /\ at' = After(at) /\ Bridges' = Bridges
      BY <1>5 DEF SkipBridge, Bars, Bridges, measuring
    <2>2. /\ at \in 1 .. N /\ N \in Nat /\ fns \in Trees /\ \A b \in Bridges : b < at
      BY <2>1, HereBehind, TreeFacts DEF WalkInv
    <2>3. at' \in Nat /\ at' > at /\ at \notin Bridges
      BY <2>1, <2>2, AfterLemma
    <2>4. \A k \in 1 .. N : k > at /\ k < at' => ~Visible(k)'
      <3> SUFFICES ASSUME NEW k \in 1 .. N, k > at, k < at' PROVE ~Visible(k)'
        OBVIOUS
      <3>1. k \in at + 1 .. After(at) - 1
        BY <2>1, <2>2, <2>3
      <3>2. ~Visible(k)
        BY <2>2, <2>3, <3>1, Hidden
      <3> QED
        BY <2>1, <3>2 DEF Visible, Parent
    <2> QED
      BY <1>1, <2>1, <2>3, <2>4, TraceFinished
  <1>6. CASE LeaveBus
    BY <1>1, <1>6, TraceLeave
  <1>7. CASE StartAssigning
    BY <1>1, <1>7, TraceElse DEF StartAssigning, measuring, N
  <1>8. CASE AssignBar
    BY <1>1, <1>8, TraceElse DEF AssignBar, measuring
  <1>9. CASE OpenBridge
    BY <1>1, <1>9, TraceElse DEF OpenBridge, measuring
  <1>10. CASE PassOver
    BY <1>1, <1>10, TraceElse DEF PassOver, measuring
  <1>11. CASE CloseBridge
    BY <1>1, <1>11, TraceElse DEF CloseBridge, measuring
  <1>12. CASE Finish
    BY <1>1, <1>12, TraceElse DEF Finish, measuring
  <1>13. CASE UNCHANGED vars
    <2>1. /\ UNCHANGED <<fns, req, need, pass, at, bus, bar>> /\ N' = N /\ Bridges' = Bridges
          /\ \A k : (Visible(k)' <=> Visible(k)) /\ (Past(k)' <=> Past(k))
      BY <1>13 DEF vars, measuring, N, Bridges, Visible, Parent, Past
    <2>2. \A k, s : Measured(C, k, s)' <=> Measured(C, k, s)
      BY <2>1 DEF Measured, Raised, Below, Before, Out, Bars, Parent, Added, AlignUp, WindowAlign
    <2>3. \A s : Started(C, s)' <=> Started(C, s)
      BY <2>1 DEF Started, Raised, Below, Before, Out, Bars, Parent, Added, AlignUp, WindowAlign
    <2>4. Trace(C)'
      BY <2>1, <2>2, <2>3 DEF Trace, Traces, Spaces
    <2> QED
      BY <2>4
  <1> QED
    BY <1>2, <1>3, <1>4, <1>5, <1>6, <1>7, <1>8, <1>9, <1>10, <1>11, <1>12, <1>13 DEF Next

(* Closed buses keep what was asked for on them, and their windows.        *)
LEMMA WindowStep == WalkInv /\ ReqInv /\ WindowInv /\ [Next]_vars => WindowInv'
PROOF
  <1> SUFFICES ASSUME WalkInv, ReqInv, WindowInv, [Next]_vars PROVE WindowInv'
    OBVIOUS
  <1>0. ASSUME UNCHANGED <<req, need>>, \A b \in Bridges : Closed(b)' <=> Closed(b)
        PROVE  WindowInv'
    BY <1>0 DEF WindowInv, Bridges, WindowSize, AlignUp, WindowAlign, Spaces
  <1>1. ASSUME UNCHANGED <<fns, bus, need, pass>>
        PROVE  Bridges' = Bridges /\ \A b : Closed(b)' <=> Closed(b)
    BY <1>1 DEF Closed, Bridges, Open, N, Behind
  <1>2. bus # 0 => bus \in Open
    BY OpenFacts DEF WalkInv, SpotInv
  <1>3. ASSUME pass = "measure", Here, UNCHANGED <<fns, bus, need, pass>>,
               \A b \in Buses : b # bus => req'[b] = req[b]
        PROVE  WindowInv'
    <2> SUFFICES ASSUME NEW b \in Bridges, NEW s \in Spaces
                 PROVE  need[b][s] = IF Closed(b) THEN WindowSize(req'[b][s], s) ELSE 0
      BY <1>1, <1>3 DEF WindowInv, WindowSize, AlignUp, WindowAlign, Spaces
    <2>1. need[b][s] = IF Closed(b) THEN WindowSize(req[b][s], s) ELSE 0
      BY DEF WindowInv
    <2>2. CASE b = bus
      <3>1. b # 0
        BY BusIn, TreeFacts DEF WalkInv
      <3>2. ~Closed(b)
        BY <1>2, <1>3, <2>2, <3>1 DEF Closed
      <3> QED
        BY <2>1, <3>2
    <2>3. CASE b # bus
      BY <1>3, <2>1, <2>3 DEF Buses
    <2> QED
      BY <2>2, <2>3
  <1>4. CASE MeasureBar
    BY <1>3, <1>4, MeasuredBar DEF MeasureBar
  <1>5. CASE MeasureDevice
    BY <1>3, <1>5, MeasuredDevice DEF MeasureDevice
  <1>6. CASE EnterBridge
    <2>1. Open' = Open \cup {at} /\ UNCHANGED <<fns, pass>> /\ pass = "measure"
      BY <1>6, DescendSpot DEF EnterBridge, WalkInv, SameTree
    <2>2. /\ at \notin Bridges /\ Bridges' = Bridges \cup {at}
          /\ req'[at] = Nothing /\ need'[at] = Nothing
          /\ \A b \in Buses : req'[b] = req[b]
          /\ \A b \in Bridges : need'[b] = need[b]
      BY <1>6, Entered
    <2> SUFFICES ASSUME NEW b \in Bridges', NEW s \in Spaces
                 PROVE  need'[b][s] = IF Closed(b)' THEN WindowSize(req'[b][s], s) ELSE 0
      BY DEF WindowInv, WindowSize, AlignUp, WindowAlign, Spaces
    <2>3. CASE b = at
      BY <2>1, <2>2, <2>3 DEF Closed, Nothing, Spaces
    <2>4. CASE b # at
      <3>1. b \in Bridges /\ (Closed(b)' <=> Closed(b))
        BY <2>1, <2>2, <2>4 DEF Closed
      <3>2. need'[b] = need[b] /\ req'[b] = req[b]
        BY <2>2, <3>1 DEF Buses
      <3> QED
        BY <3>1, <3>2 DEF WindowInv
    <2> QED
      BY <2>3, <2>4
  <1>7. CASE SkipBridge
    BY <1>0, <1>1, <1>7 DEF SkipBridge, measuring
  <1>8. CASE LeaveBus
    <2>1. /\ Open' = Open \ {bus} /\ UNCHANGED <<fns, pass>> /\ pass = "measure" /\ bus # 0
          /\ bus \in Open /\ bus \in 1 .. N /\ Parent(bus) \in 0 .. bus - 1
      BY <1>2, <1>8, LeaveSpot, TreeFacts DEF LeaveBus, WalkInv, SpotInv, SameTree, Parent
    <2>2. /\ Bridges' = Bridges
          /\ \A b \in Bridges : b # bus => need'[b] = need[b]
          /\ \A b \in Buses : b # Parent(bus) => req'[b] = req[b]
          /\ \A s \in Spaces : need'[bus][s] = WindowSize(req[bus][s], s)
      BY <1>8, Left
    <2>3. Parent(bus) # 0 => Parent(bus) \in Open
      <3>1. fns \in Trees /\ N \in Nat /\ \A k \in 1 .. N : Parent(k) \in 0 .. k - 1
        BY TreeFacts DEF WalkInv
      <3>2. ASSUME Parent(bus) # 0 PROVE Behind(bus, Parent(bus)) /\ Parent(bus) \in 1 .. N
        <4>1. Parent(bus) \in 1 .. N
          BY <2>1, <3>1, <3>2
        <4> QED
          BY <2>1, <3>1, <4>1, Chain
      <3> QED
        BY <3>2 DEF Open
    <2> SUFFICES ASSUME NEW b \in Bridges, NEW s \in Spaces
                 PROVE  need'[b][s] = IF Closed(b)' THEN WindowSize(req'[b][s], s) ELSE 0
      BY <2>2 DEF WindowInv, WindowSize, AlignUp, WindowAlign, Spaces
    <2>4. CASE b = bus
      <3>1. Closed(b)'
        BY <2>1, <2>2, <2>4 DEF Closed
      <3>2. req'[b] = req[b]
        BY <2>1, <2>2, <2>4 DEF Buses
      <3> QED
        BY <2>2, <2>4, <3>1, <3>2
    <2>5. CASE b # bus
      <3>1. Closed(b)' <=> Closed(b)
        BY <2>1, <2>2, <2>5 DEF Closed
      <3>2. need'[b] = need[b]
        BY <2>2, <2>5
      <3>3. CASE Closed(b)
        <4>1. b # Parent(bus)
          <5>1. b # 0
            BY BusIn, TreeFacts DEF WalkInv
          <5> QED
            BY <2>1, <2>3, <3>3, <5>1 DEF Closed
        <4>2. req'[b] = req[b]
          BY <2>2, <4>1 DEF Buses
        <4> QED
          BY <3>1, <3>2, <4>2 DEF WindowInv
      <3>4. CASE ~Closed(b)
        BY <3>1, <3>2, <3>4 DEF WindowInv
      <3> QED
        BY <3>3, <3>4
    <2> QED
      BY <2>4, <2>5
  <1>9. CASE StartAssigning
    <2>1. Open = {}
      BY <1>9, OpenFacts DEF StartAssigning, WalkInv, SpotInv
    <2>2. \A b \in Bridges : Closed(b) /\ Closed(b)'
      BY <1>9, <2>1 DEF StartAssigning, measuring, Closed, Bridges
    <2> QED
      BY <1>0, <1>9, <2>2 DEF StartAssigning, measuring
  <1>10. ASSUME UNCHANGED <<req, need>>, pass # "measure", pass' # "measure" PROVE WindowInv'
    <2>1. \A b \in Bridges : Closed(b) /\ Closed(b)'
      BY <1>10 DEF Closed, Bridges
    <2> QED
      BY <1>0, <1>10, <2>1
  <1>11. CASE AssignBar
    BY <1>10, <1>11 DEF AssignBar, measuring
  <1>12. CASE OpenBridge
    BY <1>10, <1>12 DEF OpenBridge, measuring
  <1>13. CASE PassOver
    BY <1>10, <1>13 DEF PassOver, measuring
  <1>14. CASE CloseBridge
    BY <1>10, <1>14 DEF CloseBridge, measuring
  <1>15. CASE Finish
    BY <1>10, <1>15 DEF Finish, measuring
  <1>16. CASE UNCHANGED vars
    BY <1>0, <1>1, <1>16 DEF vars, measuring
  <1> QED
    BY <1>4, <1>5, <1>6, <1>7, <1>8, <1>9, <1>11, <1>12, <1>13, <1>14, <1>15, <1>16 DEF Next
-----------------------------------------------------------------------------
(* The second pass: the types of what it assigns.                          *)

(* The buses the walk is on, with bus 0.                                   *)
Front == {0} \cup Open

(* Addresses given to a BAR or to a window.                                *)
Given == [fn : 1 .. N, space : Spaces, base : Nat, size : Nat \ {0}]

(* Each of these buses has a place to assign from.                         *)
AllocInv ==
  /\ ranges \subseteq Given /\ windows \subseteq Given
  /\ pass = "measure" => ranges = {} /\ windows = {}
  /\ pass # "measure" => \A b \in Front : b \in DOMAIN alloc /\ alloc[b] \in [Spaces -> Nat]

LEMMA FrontFacts ==
  ASSUME WalkInv
  PROVE  /\ bus \in Front /\ Front \subseteq Buses /\ N \in Nat /\ Front \subseteq 0 .. N
         /\ \A b \in Front : b <= bus /\ (b # 0 => b \in Bridges)
PROOF
  BY OpenFacts, BusIn, TreeFacts DEF Front, Buses, WalkInv, SpotInv

LEMMA RootFields ==
  /\ Root.io = IoBase /\ Root.mem = MemBase /\ Root.pref = PrefBase
  /\ Root["io"] = IoBase /\ Root["mem"] = MemBase /\ Root["pref"] = PrefBase
  /\ DOMAIN Root = Spaces
PROOF
  BY DEF Root, Spaces

(* Where the root windows are.                                             *)
LEMMA RootFacts ==
  ASSUME WalkInv, ReqInv
  PROVE  /\ IoBase \in Nat /\ MemBase \in Nat /\ PrefBase \in Nat
         /\ Multiple(IoBase, IoAlign) /\ Multiple(MemBase, RootAlign)
         /\ Multiple(PrefBase, RootAlign)
         /\ ram <= MemBase /\ MemBase + req[0]["mem"] <= PrefBase
         /\ Root \in [Spaces -> Nat]
PROOF
  <1>1. /\ ram \in Nat /\ IoBase \in Nat /\ MemMin \in Nat
        /\ RootAlign \in Nat \ {0} /\ IoAlign \in Nat \ {0}
        /\ IoBase % IoAlign = 0 /\ MemMin % RootAlign = 0
    BY PciAssumption DEF WalkInv
  <1>2. req[0]["mem"] \in Nat
    BY DEF ReqInv, Buses, IsReq, Spaces
  <1>3. /\ AlignUp(ram, RootAlign) \in Nat /\ ram <= AlignUp(ram, RootAlign)
        /\ Multiple(AlignUp(ram, RootAlign), RootAlign)
    BY <1>1, AlignFacts
  <1>4. Multiple(IoBase, IoAlign) /\ Multiple(MemMin, RootAlign)
    BY <1>1, MultipleOf
  <1>5. MemBase \in Nat /\ ram <= MemBase /\ Multiple(MemBase, RootAlign)
    BY <1>1, <1>3, <1>4 DEF MemBase
  <1> DEFINE m == IF req[0].mem = 0 THEN 0 ELSE AlignUp(req[0].mem, RootAlign)
  <1>6. m \in Nat /\ req[0].mem <= m
    BY <1>1, <1>2, AlignFacts
  <1>7. PrefBase = AlignUp(MemBase + m, RootAlign)
    BY DEF PrefBase
  <1> HIDE DEF m
  <1>8. MemBase + m \in Nat
    BY <1>5, <1>6
  <1>9. PrefBase \in Nat /\ MemBase + m <= PrefBase /\ Multiple(PrefBase, RootAlign)
    BY <1>1, <1>7, <1>8, AlignFacts
  <1>10. MemBase + req[0].mem <= PrefBase
    BY <1>2, <1>5, <1>6, <1>9
  <1>11. Root \in [Spaces -> Nat]
    BY <1>1, <1>5, <1>9 DEF Root, Spaces
  <1> QED
    BY <1>1, <1>4, <1>5, <1>9, <1>10, <1>11

(* One BAR of the second pass.                                             *)
LEMMA Assigned ==
  ASSUME WalkInv, AllocInv, AssignBar,
         NEW p, p = fns[at].bars[bar].space, NEW n, n = fns[at].bars[bar].size,
         NEW base, base = AlignUp(alloc[bus][p], n)
  PROVE  /\ p \in Spaces /\ n \in Nat \ {0} /\ base \in Nat /\ alloc[bus][p] <= base
         /\ alloc'[bus][p] = base + n
         /\ \A s \in Spaces : s # p => alloc'[bus][s] = alloc[bus][s]
         /\ \A b \in Front : b # bus => alloc'[b] = alloc[b]
         /\ \A b \in Front : b \in DOMAIN alloc' /\ alloc'[b] \in [Spaces -> Nat]
         /\ ranges' = ranges \cup {Range(at, p, base, n)}
         /\ at \in 1 .. N /\ Parent(at) = bus
PROOF
  <1>1. Here /\ pass = "assign" /\ bar <= Len(fns[at].bars)
    BY DEF AssignBar
  <1>2. p \in Spaces /\ n \in Nat \ {0}
    BY <1>1, BarType
  <1>3. bus \in Front /\ bus \in DOMAIN alloc /\ alloc[bus] \in [Spaces -> Nat]
    BY <1>1, FrontFacts DEF AllocInv
  <1>4. base \in Nat /\ alloc[bus][p] <= base
    BY <1>2, <1>3, AlignFacts
  <1>5. alloc' = [alloc EXCEPT ![bus][p] = base + n] /\ ranges' = ranges \cup {Range(at, p, base, n)}
    BY DEF AssignBar
  <1>6. base + n \in Nat
    BY <1>2, <1>4
  <1>7. alloc'[bus] = [alloc[bus] EXCEPT ![p] = base + n] /\ DOMAIN alloc' = DOMAIN alloc
    BY <1>3, <1>5
  <1>8. alloc'[bus] \in [Spaces -> Nat]
    BY <1>2, <1>3, <1>6, <1>7
  <1>9. \A b \in Front : b # bus => alloc'[b] = alloc[b]
    BY <1>1, <1>5 DEF AllocInv
  <1>10. \A b \in Front : b \in DOMAIN alloc' /\ alloc'[b] \in [Spaces -> Nat]
    BY <1>1, <1>7, <1>8, <1>9 DEF AllocInv
  <1>11. alloc'[bus][p] = base + n /\ \A s \in Spaces : s # p => alloc'[bus][s] = alloc[bus][s]
    BY <1>2, <1>3, <1>7
  <1> QED
    BY <1>1, <1>2, <1>4, <1>5, <1>9, <1>10, <1>11, HereBehind

(* The base of a window.                                                   *)
Opening(s) ==
  IF need[at][s] = 0 THEN 0 ELSE AlignUp(alloc[bus][s], WindowAlign(s))

(* The windows of one bridge of the second pass.                           *)
LEMMA Opened ==
  ASSUME WalkInv, ReqInv, AllocInv, OpenBridge
  PROVE  /\ at \in Bridges /\ at \in 1 .. N /\ Parent(at) = bus /\ bus \in Front
         /\ Open' = Open \cup {at} /\ UNCHANGED fns
         /\ \A s \in Spaces :
              /\ Opening(s) \in Nat /\ alloc'[at][s] = Opening(s)
              /\ need[at][s] \in Nat /\ alloc[bus][s] \in Nat
              /\ need[at][s] # 0 => Multiple(Opening(s), WindowAlign(s)) /\ alloc[bus][s] <= Opening(s)
              /\ alloc'[bus][s] = IF need[at][s] = 0 THEN alloc[bus][s]
                                  ELSE Opening(s) + need[at][s]
         /\ \A b \in Front : b # bus => alloc'[b] = alloc[b]
         /\ \A b \in Front' : b \in DOMAIN alloc' /\ alloc'[b] \in [Spaces -> Nat]
         /\ windows' = windows \cup {Range(at, s, Opening(s), need[at][s]) :
                                       s \in {t \in Spaces : need[at][t] # 0}}
PROOF
  <1>1. Here /\ pass = "assign" /\ at \in Bridges /\ UNCHANGED fns /\ at' = at + 1 /\ bus' = at
    BY DEF OpenBridge, Bridges
  <1>2. /\ at \in 1 .. N /\ Parent(at) = bus /\ bus \in Front /\ N \in Nat /\ bus \in Nat
        /\ Parent(at) \in 0 .. at - 1 /\ Front \subseteq 0 .. N /\ \A b \in Front : b <= bus
    BY <1>1, HereBehind, FrontFacts, TreeFacts DEF WalkInv
  <1>3. Open' = Open \cup {at}
    BY <1>1, DescendSpot DEF WalkInv, SameTree
  <1>4. bus \in DOMAIN alloc /\ alloc[bus] \in [Spaces -> Nat]
    BY <1>1, <1>2 DEF AllocInv
  <1>5. \A s \in Spaces : need[at][s] \in Nat /\ alloc[bus][s] \in Nat /\ WindowAlign(s) \in Nat \ {0}
    BY <1>1, <1>4, WindowType DEF ReqInv, IsReq
  <1>6. ASSUME NEW s \in Spaces
        PROVE  /\ Opening(s) \in Nat
               /\ need[at][s] # 0 => Multiple(Opening(s), WindowAlign(s)) /\ alloc[bus][s] <= Opening(s)
    <2>1. PICK x \in Nat, a \in Nat \ {0} : x = alloc[bus][s] /\ a = WindowAlign(s)
      BY <1>5
    <2>2. AlignUp(x, a) \in Nat /\ x <= AlignUp(x, a) /\ Multiple(AlignUp(x, a), a)
      BY AlignFacts
    <2> QED
      BY <2>1, <2>2 DEF Opening
  <1> DEFINE rest == [s \in Spaces |-> IF need[at][s] = 0 THEN alloc[bus][s]
                                       ELSE Opening(s) + need[at][s]]
             inside == [s \in Spaces |-> Opening(s)]
  <1>7. /\ alloc' = With([alloc EXCEPT ![bus] = rest], at, inside)
        /\ windows' = windows \cup {Range(at, s, Opening(s), need[at][s]) :
                                      s \in {t \in Spaces : need[at][t] # 0}}
    BY DEF OpenBridge, Opening
  <1>8. rest \in [Spaces -> Nat] /\ inside \in [Spaces -> Nat]
    BY <1>5, <1>6
  <1>9. /\ \A s \in Spaces : rest[s] = IF need[at][s] = 0 THEN alloc[bus][s]
                                       ELSE Opening(s) + need[at][s]
        /\ \A s \in Spaces : inside[s] = Opening(s)
    OBVIOUS
  <1> HIDE DEF rest, inside
  <1>10. at # bus /\ at \notin Front
    BY <1>2
  <1>11. /\ DOMAIN alloc' = DOMAIN alloc \cup {at} /\ alloc'[at] = inside /\ alloc'[bus] = rest
         /\ \A b \in DOMAIN alloc : b # bus /\ b # at => alloc'[b] = alloc[b]
    BY <1>4, <1>7, <1>10 DEF With
  <1>12. \A b \in Front : b \in DOMAIN alloc /\ b # at /\ alloc[b] \in [Spaces -> Nat]
    BY <1>1, <1>10 DEF AllocInv
  <1>13. \A b \in Front : b # bus => alloc'[b] = alloc[b]
    BY <1>11, <1>12
  <1>14. \A b \in Front' : b \in DOMAIN alloc' /\ alloc'[b] \in [Spaces -> Nat]
    BY <1>3, <1>8, <1>11, <1>12, <1>13 DEF Front
  <1> QED
    BY <1>1, <1>2, <1>3, <1>5, <1>6, <1>7, <1>9, <1>11, <1>13, <1>14

LEMMA AllocInitial == Init => AllocInv
PROOF
  BY DEF Init, AllocInv

LEMMA AllocStep == WalkInv /\ ReqInv /\ AllocInv /\ [Next]_vars => AllocInv'
PROOF
  <1> SUFFICES ASSUME WalkInv, ReqInv, AllocInv, [Next]_vars PROVE AllocInv'
    OBVIOUS
  <1>0. UNCHANGED fns => N' = N /\ Given' = Given
    BY DEF N, Given
  <1>1. ASSUME pass = "measure", UNCHANGED <<fns, pass, ranges, windows>> PROVE AllocInv'
    BY <1>0, <1>1 DEF AllocInv
  <1>2. CASE MeasureBar \/ MeasureDevice \/ EnterBridge \/ SkipBridge \/ LeaveBus
    BY <1>1, <1>2
    DEF MeasureBar, MeasureDevice, EnterBridge, SkipBridge, LeaveBus, assigning, measuring
  <1>3. CASE StartAssigning
    <2>1. /\ pass = "measure" /\ pass' = "assign" /\ bus = 0 /\ alloc' = [b \in {0} |-> Root]
          /\ UNCHANGED <<fns, ranges, windows, bus>>
      BY <1>3 DEF StartAssigning
    <2>2. Open' = {}
      <3>1. Open = {} /\ Open' = Open
        BY <2>1, OpenFacts DEF WalkInv, SpotInv, Open, N, Behind
      <3> QED
        BY <3>1
    <2>3. \A b \in Front' : b \in DOMAIN alloc' /\ alloc'[b] \in [Spaces -> Nat]
      BY <2>1, <2>2, RootFacts DEF Front
    <2> QED
      BY <1>0, <2>1, <2>3 DEF AllocInv
  <1>4. CASE AssignBar
    <2>1. /\ pass = "assign" /\ UNCHANGED <<fns, pass, windows, bus>>
      BY <1>4 DEF AssignBar
    <2>2. PICK p, n, base : /\ p = fns[at].bars[bar].space /\ n = fns[at].bars[bar].size
                            /\ base = AlignUp(alloc[bus][p], n)
      OBVIOUS
    <2>3. Front' = Front
      BY <2>1 DEF Front, Open, N, Behind
    <2>4. /\ \A b \in Front : b \in DOMAIN alloc' /\ alloc'[b] \in [Spaces -> Nat]
          /\ ranges' = ranges \cup {Range(at, p, base, n)}
          /\ Range(at, p, base, n) \in Given
      BY <1>4, <2>2, Assigned DEF Given, Range
    <2> QED
      BY <1>0, <2>1, <2>3, <2>4 DEF AllocInv
  <1>5. CASE OpenBridge
    <2>1. /\ pass = "assign" /\ UNCHANGED <<fns, pass, ranges>>
      BY <1>5 DEF OpenBridge, measuring
    <2>2. ASSUME NEW s \in Spaces, need[at][s] # 0
          PROVE  Range(at, s, Opening(s), need[at][s]) \in Given
      BY <1>5, <2>2, Opened DEF Given, Range
    <2>3. windows' \subseteq Given
      BY <1>5, <2>2, Opened DEF AllocInv
    <2> QED
      BY <1>0, <1>5, <2>1, <2>3, Opened DEF AllocInv
  <1>6. CASE PassOver
    BY <1>0, <1>6 DEF PassOver, AllocInv, assigning, Front, Open, Behind
  <1>7. CASE CloseBridge
    <2>1. /\ pass = "assign" /\ UNCHANGED <<fns, pass, alloc, ranges, windows>>
      BY <1>7 DEF CloseBridge, assigning
    <2>2. Open' = Open \ {bus}
      BY <1>7, LeaveSpot DEF CloseBridge, WalkInv, SameTree, Parent
    <2> QED
      BY <1>0, <2>1, <2>2 DEF AllocInv, Front
  <1>8. CASE Finish
    BY <1>0, <1>8 DEF Finish, AllocInv, assigning, Front, Open, Behind
  <1>9. CASE UNCHANGED vars
    BY <1>0, <1>9 DEF vars, AllocInv, assigning, Front, Open, Behind
  <1> QED
    BY <1>2, <1>3, <1>4, <1>5, <1>6, <1>7, <1>8, <1>9 DEF Next
-----------------------------------------------------------------------------
(* How the second pass keeps within what the first measured.               *)

(* What the free addresses of a bus begin at a multiple of.                *)
Unit(b, s) == IF b = 0 /\ s # "io" THEN RootAlign ELSE WindowAlign(s)

(* The size of each BAR divides it.                                        *)
Fits ==
  \A k \in 1 .. N : \A i \in 1 .. Bars(k) :
    Multiple(Unit(Parent(k), fns[k].bars[i].space), fns[k].bars[i].size)

Bases == [Nat -> [Spaces -> Nat]]

(* B[b][s] is where the free addresses of bus b began.                     *)
Room(C, B, b, s) ==
  /\ Multiple(B[b][s], Unit(b, s))
  /\ B[b][s] <= alloc[b][s] /\ alloc[b][s] <= B[b][s] + req[b][s]
  /\ b # 0 /\ need[b][s] # 0 => Range(b, s, B[b][s], need[b][s]) \in windows
  /\ \A k \in 1 .. N :
       k >= at /\ Visible(k) /\ Parent(k) = b /\ (k # at \/ bar = 1) =>
         alloc[b][s] <= B[b][s] + C[k][1][s]

(* On each open bus no more is assigned than the first pass had measured   *)
(* when it was at the same function and BAR.                               *)
Placed(C, B) ==
  /\ B \in Bases
  /\ pass # "measure" =>
       /\ \A s \in Spaces : B[0][s] = Root[s]
       /\ \A b \in Front, s \in Spaces : Room(C, B, b, s)
       /\ Here => \A s \in Spaces : alloc[bus][s] <= B[bus][s] + C[at][bar][s]

(* A unit is a multiple of the alignment of windows.                       *)
LEMMA UnitFacts ==
  ASSUME NEW b, NEW s \in Spaces
  PROVE  /\ Unit(b, s) \in Nat \ {0} /\ WindowAlign(s) \in Nat \ {0}
         /\ Multiple(Unit(b, s), WindowAlign(s))
         /\ b # 0 => Unit(b, s) = WindowAlign(s)
         /\ Multiple(0, Unit(b, s))
PROOF
  <1>1. /\ RootAlign \in Nat \ {0} /\ MemAlign \in Nat \ {0} /\ RootAlign % MemAlign = 0
        /\ WindowAlign(s) \in Nat \ {0}
    BY PciAssumption, WindowType
  <1>2. Multiple(RootAlign, MemAlign)
    BY <1>1, MultipleOf
  <1>3. Multiple(WindowAlign(s), WindowAlign(s))
    <2>1. PICK a \in Nat : a = WindowAlign(s)
      BY <1>1
    <2>2. a = 1 * a
      BY <2>1
    <2> QED
      BY <2>1, <2>2 DEF Multiple
  <1>4. Unit(b, s) \in Nat \ {0}
    BY <1>1 DEF Unit
  <1>5. Multiple(0, Unit(b, s))
    <2>1. PICK a \in Nat : a = Unit(b, s)
      BY <1>4
    <2>2. 0 = 0 * a
      BY <2>1
    <2> QED
      BY <2>1, <2>2 DEF Multiple
  <1> QED
    BY <1>1, <1>2, <1>3, <1>4, <1>5 DEF Unit, WindowAlign

(* A window has room for all that is asked for.                            *)
LEMMA WindowFacts ==
  ASSUME WalkInv, ReqInv, WindowInv, pass # "measure", NEW b \in Bridges, NEW s \in Spaces
  PROVE  /\ need[b][s] \in Nat /\ req[b][s] \in Nat
         /\ req[b][s] <= need[b][s]
PROOF
  <1>1. req[b][s] \in Nat /\ need[b][s] \in Nat
    BY DEF ReqInv, IsReq, Buses
  <1>2. need[b][s] = AlignUp(req[b][s], WindowAlign(s))
    BY DEF WindowInv, Closed, WindowSize
  <1> QED
    BY <1>1, <1>2, WindowType, AlignFacts

(* What comes after the function the walk is at.                           *)
LEMMA Later ==
  ASSUME WalkInv, ReqInv, Here, pass # "measure", NEW C, Trace(C), NEW s \in Spaces
  PROVE  /\ Below(C, at, s, req[bus][s]) /\ req[bus][s] \in Nat
         /\ \A k \in 1 .. N : k > at /\ Visible(k) /\ Parent(k) = bus =>
              Below(C, at, s, C[k][1][s]) /\ C[k][1][s] \in Nat
         /\ Out(C, at, s) \in Nat /\ Bars(at) \in Nat
         /\ \A i \in 1 .. Bars(at) : Raised(C[at][i][s], fns[at].bars[i], s) <= C[at][i + 1][s]
         /\ \A i \in 1 .. Bars(at) + 1 : C[at][i][s] \in Nat
PROOF
  <1>1. /\ C \in Traces /\ at \in 1 .. N /\ Parent(at) = bus /\ Visible(at) /\ N \in Nat
        /\ bus \in Buses /\ fns \in Trees
    BY HereBehind, BusIn, TreeFacts DEF Trace, WalkInv
  <1>2. Measured(C, at, s) /\ req[bus][s] \in Nat
    BY <1>1 DEF Trace, Past, ReqInv, IsReq
  <1>3. ASSUME NEW k \in 1 .. N, k > at, Visible(k), Parent(k) = bus
        PROVE  Below(C, at, s, C[k][1][s]) /\ C[k][1][s] \in Nat
    <2>1. Measured(C, k, s)
      BY <1>3 DEF Trace, Past
    <2>2. Before(at, k)
      BY <1>1, <1>3 DEF Before
    <2>3. C[k][1][s] \in Nat
      BY <1>1, <1>3 DEF Traces
    <2> QED
      BY <1>1, <2>1, <2>2, <2>3 DEF Measured
  <1> QED
    BY <1>1, <1>2, <1>3, OutType, BarCount DEF Measured, Bars

(* How far the bus is used once a BAR has its address.                     *)
LEMMA AssignedRoom ==
  ASSUME WalkInv, ReqInv, AllocInv, Fits, AssignBar, NEW C, Trace(C), NEW B, Placed(C, B),
         NEW s \in Spaces
  PROVE  /\ alloc[bus][s] <= alloc'[bus][s] /\ alloc'[bus][s] \in Nat /\ B[bus][s] \in Nat
         /\ alloc'[bus][s] <= B[bus][s] + C[at][bar + 1][s]
         /\ bar \in Nat \ {0} /\ bar <= Bars(at) /\ C[at][bar + 1][s] \in Nat
PROOF
  <1>1. PICK p, n, base : /\ p = fns[at].bars[bar].space /\ n = fns[at].bars[bar].size
                          /\ base = AlignUp(alloc[bus][p], n)
    OBVIOUS
  <1>2. /\ p \in Spaces /\ n \in Nat \ {0} /\ base \in Nat /\ alloc[bus][p] <= base
        /\ alloc'[bus][p] = base + n
        /\ s # p => alloc'[bus][s] = alloc[bus][s]
        /\ at \in 1 .. N /\ Parent(at) = bus
    BY <1>1, Assigned
  <1>3. Here /\ pass # "measure" /\ bar \in Nat \ {0} /\ bar <= Bars(at) /\ Bars(at) \in Nat
    BY <1>2, BarCount DEF AssignBar, WalkInv, Bars
  <1>4. /\ alloc[bus][s] <= B[bus][s] + C[at][bar][s] /\ Multiple(B[bus][s], Unit(bus, s))
        /\ B[bus][s] \in Nat
    BY <1>2, <1>3, FrontFacts DEF Placed, Room, Bases
  <1>5. bar \in 1 .. Bars(at) /\ bar + 1 \in 1 .. Bars(at) + 1 /\ bar \in 1 .. Bars(at) + 1
    BY <1>3
  <1>6. /\ C[at][bar][s] \in Nat /\ C[at][bar + 1][s] \in Nat
        /\ Raised(C[at][bar][s], fns[at].bars[bar], s) <= C[at][bar + 1][s]
    BY <1>3, <1>5, Later
  <1>7. alloc[bus][s] \in Nat
    BY <1>3, FrontFacts DEF AllocInv
  <1>8. CASE s = p
    <2>1. PICK x \in Nat, y \in Nat, c \in Nat, d \in Nat :
            x = alloc[bus][s] /\ y = B[bus][s] /\ c = C[at][bar][s] /\ d = C[at][bar + 1][s]
      BY <1>4, <1>6, <1>7
    <2>2. Multiple(Unit(bus, s), n)
      BY <1>1, <1>2, <1>5, <1>8 DEF Fits
    <2>3. Multiple(y, n)
      <3>1. PICK u \in Nat \ {0} : u = Unit(bus, s)
        BY UnitFacts
      <3> QED
        BY <1>2, <1>4, <2>1, <2>2, <3>1, MultipleOf
    <2>4. AlignUp(x, n) <= y + AlignUp(c, n) /\ AlignUp(c, n) \in Nat
      BY <1>2, <1>4, <2>1, <2>3, AlignShift, AlignFacts
    <2>5. AlignUp(c, n) + n <= d
      BY <1>1, <1>2, <1>6, <1>8, <2>1 DEF Raised, Added
    <2>6. base = AlignUp(x, n) /\ alloc'[bus][s] = base + n
      BY <1>1, <1>2, <1>8, <2>1
    <2>7. base + n <= y + d /\ x <= base + n
      BY <1>2, <1>8, <2>1, <2>4, <2>5, <2>6
    <2> QED
      BY <1>2, <1>3, <1>6, <1>4, <2>1, <2>6, <2>7
  <1>9. CASE s # p
    <2>1. C[at][bar][s] <= C[at][bar + 1][s]
      BY <1>1, <1>6, <1>9 DEF Raised
    <2> QED
      BY <1>2, <1>3, <1>4, <1>6, <1>7, <1>9, <2>1
  <1> QED
    BY <1>8, <1>9

(* How far it is used once a bridge has its windows.                       *)
LEMMA OpenedRoom ==
  ASSUME WalkInv, ReqInv, AllocInv, OpenBridge, NEW C, Trace(C), NEW B, Placed(C, B),
         NEW s \in Spaces
  PROVE  /\ alloc[bus][s] <= alloc'[bus][s] /\ alloc'[bus][s] \in Nat /\ B[bus][s] \in Nat
         /\ alloc'[bus][s] <= B[bus][s] + Out(C, at, s) /\ Out(C, at, s) \in Nat
PROOF
  <1>1. /\ at \in Bridges /\ at \in 1 .. N
        /\ Opening(s) \in Nat /\ need[at][s] \in Nat /\ alloc[bus][s] \in Nat
        /\ need[at][s] # 0 => alloc[bus][s] <= Opening(s)
        /\ alloc'[bus][s] = IF need[at][s] = 0 THEN alloc[bus][s]
                            ELSE Opening(s) + need[at][s]
    BY Opened
  <1>2. Here /\ pass # "measure" /\ bar > Bars(at) /\ bar <= Bars(at) + 1
    BY <1>1 DEF OpenBridge, WalkInv, Bars
  <1>3. bar = Bars(at) + 1 /\ Bars(at) \in Nat
    BY <1>1, <1>2, BarCount DEF Bars, WalkInv
  <1>4. /\ alloc[bus][s] <= B[bus][s] + C[at][bar][s] /\ Multiple(B[bus][s], Unit(bus, s))
        /\ B[bus][s] \in Nat
    BY <1>1, <1>2, FrontFacts DEF Placed, Room, Bases
  <1>5. C[at][bar][s] \in Nat /\ Out(C, at, s) \in Nat
    BY <1>2, <1>3, Later
  <1>6. Out(C, at, s) = Added(C[at][bar][s], need[at][s], WindowAlign(s))
    BY <1>1, <1>3 DEF Out
  <1>7. PICK x \in Nat, y \in Nat, c \in Nat, a \in Nat \ {0}, n \in Nat :
          /\ x = alloc[bus][s] /\ y = B[bus][s] /\ c = C[at][bar][s] /\ a = WindowAlign(s)
          /\ n = need[at][s]
    BY <1>1, <1>4, <1>5, WindowType
  <1>8. Multiple(y, a)
    <2>1. PICK u \in Nat \ {0} : u = Unit(bus, s) /\ Multiple(u, a)
      BY <1>7, UnitFacts
    <2> QED
      BY <1>4, <1>7, <2>1, MultipleOf
  <1>9. AlignUp(x, a) <= y + AlignUp(c, a) /\ AlignUp(c, a) \in Nat
    BY <1>4, <1>7, <1>8, AlignShift, AlignFacts
  <1>10. CASE n = 0
    BY <1>1, <1>4, <1>5, <1>6, <1>7, <1>10 DEF Added
  <1>11. CASE n # 0
    <2>1. Opening(s) = AlignUp(x, a) /\ Out(C, at, s) = AlignUp(c, a) + n
      BY <1>6, <1>7, <1>11 DEF Opening, Added
    <2> QED
      BY <1>1, <1>5, <1>7, <1>9, <1>11, <2>1
  <1> QED
    BY <1>10, <1>11

(* A bus keeps its room when a step takes no more than was measured.       *)
LEMMA RoomStep ==
  ASSUME NEW C, NEW B, NEW D, NEW b, NEW s, Room(C, B, b, s), D[b][s] = B[b][s],
         UNCHANGED <<fns, req, need>>, windows \subseteq windows',
         B[b][s] \in Nat, alloc[b][s] \in Nat, alloc'[b][s] \in Nat,
         alloc[b][s] <= alloc'[b][s], alloc'[b][s] <= B[b][s] + req[b][s],
         \A k \in 1 .. N :
           k >= at' /\ Visible(k) /\ Parent(k) = b /\ (k # at' \/ bar' = 1) =>
             alloc'[b][s] <= B[b][s] + C[k][1][s]
  PROVE  Room(C, D, b, s)'
PROOF
  <1>1. Multiple(D[b][s], Unit(b, s))'
    BY DEF Room, Multiple, Unit, WindowAlign
  <1>2. D[b][s] <= alloc'[b][s] /\ alloc'[b][s] <= D[b][s] + req'[b][s]
    BY DEF Room
  <1>3. b # 0 /\ need'[b][s] # 0 => Range(b, s, D[b][s], need'[b][s]) \in windows'
    BY DEF Room, Range
  <1>4. N' = N /\ \A k : (Visible(k)' <=> Visible(k)) /\ Parent(k)' = Parent(k)
    BY DEF N, Visible, Parent, Bridges
  <1>5. \A k \in 1 .. N' :
          k >= at' /\ Visible(k)' /\ Parent(k)' = b /\ (k # at' \/ bar' = 1) =>
            alloc'[b][s] <= D[b][s] + C[k][1][s]
    BY <1>4
  <1> QED
    BY <1>1, <1>2, <1>3, <1>5 DEF Room, Range
-----------------------------------------------------------------------------
(* The steps of the second pass keep within the measure.                   *)
LEMMA PlacedStart ==
  ASSUME WalkInv, ReqInv, StartAssigning, NEW C \in Traces
  PROVE  \E B : Placed(C, B)'
PROOF
  <1>0. /\ UNCHANGED <<fns, ram, req, need, bus, windows>> /\ bus = 0 /\ at' = 1 /\ bar' = 1
        /\ alloc' = [b \in {0} |-> Root] /\ Root' = Root
    BY DEF StartAssigning, measuring, Root, MemBase, PrefBase, AlignUp
  <1>1. Root \in [Spaces -> Nat] /\ \A s \in Spaces : Multiple(Root[s], Unit(0, s))
    BY RootFacts, RootFields DEF Unit, WindowAlign, Spaces
  <1>2. PICK B : B = [k \in Nat |-> IF k = 0 THEN Root ELSE [s \in Spaces |-> 0]]
    OBVIOUS
  <1>11. B \in Bases /\ B[0] = Root
    <2>1. [s \in Spaces |-> 0] \in [Spaces -> Nat]
      OBVIOUS
    <2> QED
      BY <1>1, <1>2, <2>1 DEF Bases
  <1>3. Front' = {0} /\ N' = N
    BY <1>0, OpenFacts DEF WalkInv, SpotInv, Open, N, Behind, Front
  <1>4. alloc'[0] = Root
    BY <1>0
  <1>5. ASSUME NEW k \in Nat, NEW s \in Spaces
        PROVE  Root[s] \in Nat /\ C[k][1][s] \in Nat /\ Root[s] <= Root[s] + C[k][1][s]
    <2>1. Root[s] \in Nat
      BY <1>1
    <2>2. C[k][1][s] \in Nat
      BY DEF Traces
    <2> QED
      BY <2>1, <2>2
  <1>6. N \in Nat
    BY TreeFacts DEF WalkInv
  <1>7. ASSUME NEW s \in Spaces PROVE Room(C, B, 0, s)'
    <2>1. req[0][s] \in Nat
      BY DEF ReqInv, Buses, IsReq
    <2>2. Multiple(B[0][s], Unit(0, s))'
      BY <1>1, <1>11 DEF Multiple, Unit, WindowAlign
    <2>3. B[0][s] <= alloc'[0][s] /\ alloc'[0][s] <= B[0][s] + req'[0][s]
      BY <1>0, <1>1, <1>11, <1>4, <2>1
    <2>4. \A k \in 1 .. N' : alloc'[0][s] <= B[0][s] + C[k][1][s]
      BY <1>11, <1>3, <1>4, <1>5, <1>6
    <2> QED
      BY <2>2, <2>3, <2>4 DEF Room
  <1>8. ASSUME NEW s \in Spaces PROVE alloc'[bus'][s] <= B[bus'][s] + C[at'][bar'][s]
    BY <1>0, <1>11, <1>4, <1>5
  <1>9. \A s \in Spaces : B[0][s] = Root'[s]
    BY <1>0, <1>11
  <1>10. Placed(C, B)'
    BY <1>11, <1>3, <1>7, <1>8, <1>9 DEF Placed, Bases, Spaces
  <1> QED
    BY <1>10

LEMMA PlacedAssign ==
  ASSUME WalkInv, ReqInv, AllocInv, Fits, AssignBar, NEW C, Trace(C), NEW B, Placed(C, B)
  PROVE  Placed(C, B)'
PROOF
  <1>0. /\ UNCHANGED <<fns, ram, req, need, at, bus, pass, windows>> /\ bar' = bar + 1
        /\ pass = "assign" /\ Here /\ Here' /\ Root' = Root /\ N' = N /\ Front' = Front
    BY DEF AssignBar, measuring, Root, MemBase, PrefBase, AlignUp, Here, N, Front, Open, Behind
  <1>1. /\ at \in 1 .. N /\ N \in Nat /\ bus \in Front /\ Front \subseteq 0 .. N /\ Parent(at) = bus
        /\ bar \in Nat \ {0}
    BY <1>0, HereBehind, FrontFacts DEF WalkInv
  <1>2. \A b \in Front : b # bus => alloc'[b] = alloc[b]
    <2>1. PICK p, n, base : /\ p = fns[at].bars[bar].space /\ n = fns[at].bars[bar].size
                            /\ base = AlignUp(alloc[bus][p], n)
      OBVIOUS
    <2> QED
      BY <2>1, Assigned
  <1>3. ASSUME NEW s \in Spaces PROVE Room(C, B, bus, s)'
    <2>1. /\ alloc[bus][s] <= alloc'[bus][s] /\ alloc'[bus][s] \in Nat /\ B[bus][s] \in Nat
          /\ alloc'[bus][s] <= B[bus][s] + C[at][bar + 1][s]
          /\ bar \in Nat \ {0} /\ bar <= Bars(at) /\ C[at][bar + 1][s] \in Nat
      BY AssignedRoom
    <2>2. alloc[bus][s] \in Nat /\ Room(C, B, bus, s)
      BY <1>0, <1>1 DEF AllocInv, Placed
    <2>3. /\ Below(C, at, s, req[bus][s]) /\ req[bus][s] \in Nat /\ Bars(at) \in Nat
          /\ \A k \in 1 .. N : k > at /\ Visible(k) /\ Parent(k) = bus =>
               Below(C, at, s, C[k][1][s]) /\ C[k][1][s] \in Nat
      BY <1>0, Later
    <2>4. bar + 1 \in 1 .. Bars(at) + 1
      BY <2>1, <2>3
    <2>5. \A x : Below(C, at, s, x) => C[at][bar + 1][s] <= x
      BY <2>4 DEF Below
    <2>6. alloc'[bus][s] <= B[bus][s] + req[bus][s]
      <3>1. C[at][bar + 1][s] <= req[bus][s]
        BY <2>3, <2>5
      <3> QED
        BY <2>1, <2>3, <3>1
    <2>7. ASSUME NEW k \in 1 .. N, k >= at', Visible(k), Parent(k) = bus, k # at' \/ bar' = 1
          PROVE  alloc'[bus][s] <= B[bus][s] + C[k][1][s]
      <3>1. k > at
        BY <1>0, <1>1, <2>7
      <3>2. C[at][bar + 1][s] <= C[k][1][s] /\ C[k][1][s] \in Nat
        BY <2>3, <2>5, <2>7, <3>1
      <3> QED
        BY <2>1, <3>2
    <2>8. PICK b : b = bus
      OBVIOUS
    <2>9. bus' = b
      BY <1>0, <2>8
    <2>10. Room(C, B, b, s)'
      BY <1>0, <2>1, <2>2, <2>6, <2>7, <2>8, RoomStep
    <2> QED
      BY <2>9, <2>10 DEF Room
  <1>4. ASSUME NEW b \in Front, b # bus, NEW s \in Spaces PROVE Room(C, B, b, s)'
    <2>1. Room(C, B, b, s) /\ alloc[b][s] \in Nat /\ B[b][s] \in Nat
      BY <1>0, <1>1, <1>4 DEF AllocInv, Placed, Bases
    <2>2. alloc'[b] = alloc[b]
      BY <1>2, <1>4
    <2>3. alloc'[b][s] <= B[b][s] + req[b][s]
      BY <2>1, <2>2 DEF Room
    <2>4. \A k \in 1 .. N :
           k >= at' /\ Visible(k) /\ Parent(k) = b /\ (k # at' \/ bar' = 1) =>
             alloc'[b][s] <= B[b][s] + C[k][1][s]
      BY <1>0, <1>1, <1>4, <2>1, <2>2 DEF Room
    <2> QED
      BY <1>0, <2>1, <2>2, <2>3, <2>4, RoomStep
  <1>5. ASSUME NEW b \in Front', NEW s \in Spaces PROVE Room(C, B, b, s)'
    <2>1. CASE b = bus
      BY <1>0, <1>3, <2>1 DEF Room
    <2> QED
      BY <1>0, <1>4, <2>1
  <1>6. \A s \in Spaces : alloc'[bus'][s] <= B[bus'][s] + C[at'][bar'][s]
    BY <1>0, AssignedRoom
  <1> QED
    BY <1>0, <1>5, <1>6 DEF Placed, Bases, Spaces

LEMMA PlacedOpen ==
  ASSUME WalkInv, ReqInv, AllocInv, OpenBridge, NEW C, Trace(C), NEW B, Placed(C, B)
  PROVE  \E D : Placed(C, D)'
PROOF
  <1>0. /\ UNCHANGED <<fns, ram, req, need, pass>> /\ bar' = 1 /\ at' = at + 1 /\ bus' = at
        /\ pass = "assign" /\ Here /\ Root' = Root /\ N' = N
    BY DEF OpenBridge, measuring, Root, MemBase, PrefBase, AlignUp, N
  <1>1. /\ at \in Bridges /\ at \in 1 .. N /\ Parent(at) = bus /\ bus \in Front
        /\ Open' = Open \cup {at}
        /\ \A b \in Front : b # bus => alloc'[b] = alloc[b]
        /\ \A s \in Spaces :
              /\ Opening(s) \in Nat /\ alloc'[at][s] = Opening(s) /\ need[at][s] \in Nat
              /\ need[at][s] # 0 => Multiple(Opening(s), WindowAlign(s))
        /\ windows' = windows \cup {Range(at, s, Opening(s), need[at][s]) :
                                       s \in {t \in Spaces : need[at][t] # 0}}
    BY Opened
  <1>2. /\ N \in Nat /\ Front \subseteq 0 .. N /\ Parent(at) \in 0 .. at - 1
        /\ \A b \in Front : b <= bus
    BY <1>1, FrontFacts, TreeFacts DEF WalkInv
  <1>3. PICK a : a = at
    OBVIOUS
  <1>4. PICK D : D = [k \in Nat |-> IF k = at THEN [s \in Spaces |-> Opening(s)] ELSE B[k]]
    OBVIOUS
  <1>5. D \in Bases
    <2>1. [s \in Spaces |-> Opening(s)] \in [Spaces -> Nat]
      BY <1>1
    <2> QED
      BY <1>4, <2>1 DEF Placed, Bases
  <1>6. /\ \A s \in Spaces : D[a][s] = Opening(s)
        /\ \A b \in Nat : b # a => D[b] = B[b]
    BY <1>1, <1>3, <1>4
  <1>7. ASSUME NEW s \in Spaces PROVE Room(C, D, a, s)'
    <2>1. D[a][s] = alloc'[a][s] /\ D[a][s] \in Nat /\ a # 0 /\ a \in Nat
      BY <1>1, <1>3, <1>6
    <2>2. Multiple(D[a][s], Unit(a, s))
      <3>1. Unit(a, s) = WindowAlign(s) /\ Multiple(0, Unit(a, s))
        BY <2>1, UnitFacts
      <3>2. Opening(s) = 0 \/ need[at][s] # 0
        BY DEF Opening
      <3> QED
        BY <1>1, <1>6, <3>1, <3>2
    <2>3. Multiple(D[a][s], Unit(a, s))'
      BY <2>2 DEF Multiple, Unit, WindowAlign
    <2>4. req'[a][s] \in Nat
      BY <1>0, <1>1, <1>3 DEF ReqInv, Buses, IsReq
    <2>5. need'[a][s] # 0 => Range(a, s, D[a][s], need'[a][s]) \in windows'
      BY <1>0, <1>1, <1>3, <1>6
    <2>6. \A k \in 1 .. N' : C[k][1][s] \in Nat
      BY <1>0, <1>2 DEF Trace, Traces
    <2>7. \A k \in 1 .. N' : alloc'[a][s] <= D[a][s] + C[k][1][s]
      BY <2>1, <2>6
    <2>8. D[a][s] <= alloc'[a][s] /\ alloc'[a][s] <= D[a][s] + req'[a][s]
      BY <2>1, <2>4
    <2> QED
      BY <2>3, <2>5, <2>7, <2>8 DEF Room, Range
  <1>8. ASSUME NEW b \in Front, NEW s \in Spaces PROVE Room(C, D, b, s)'
    <2>1. /\ Room(C, B, b, s) /\ alloc[b][s] \in Nat /\ B[b][s] \in Nat /\ b # a
          /\ D[b][s] = B[b][s] /\ windows \subseteq windows'
      <3>1. b \in Nat /\ b # a
        BY <1>1, <1>2, <1>3
      <3>2. Room(C, B, b, s)
        BY <1>0 DEF Placed
      <3>3. alloc[b][s] \in Nat
        BY <1>0 DEF AllocInv
      <3>4. B[b][s] \in Nat
        BY <3>1 DEF Placed, Bases
      <3> QED
        BY <1>1, <1>6, <3>1, <3>2, <3>3, <3>4
    <2>2. CASE b = bus
      <3>1. /\ alloc[bus][s] <= alloc'[bus][s] /\ alloc'[bus][s] \in Nat /\ B[bus][s] \in Nat
            /\ alloc'[bus][s] <= B[bus][s] + Out(C, at, s) /\ Out(C, at, s) \in Nat
        BY OpenedRoom
      <3>2. /\ Below(C, at, s, req[bus][s]) /\ req[bus][s] \in Nat
            /\ \A k \in 1 .. N : k > at /\ Visible(k) /\ Parent(k) = bus =>
                 Below(C, at, s, C[k][1][s]) /\ C[k][1][s] \in Nat
        BY <1>0, Later
      <3>3. \A x : Below(C, at, s, x) => Out(C, at, s) <= x
        BY DEF Below
      <3>4. alloc'[bus][s] <= B[bus][s] + req[bus][s]
        <4>1. Out(C, at, s) <= req[bus][s]
          BY <3>2, <3>3
        <4> QED
          BY <3>1, <3>2, <4>1
      <3>5. ASSUME NEW k \in 1 .. N, k >= at', Visible(k), Parent(k) = bus
            PROVE  alloc'[bus][s] <= B[bus][s] + C[k][1][s]
        <4>1. k > at
          BY <1>0, <1>1, <3>5
        <4>2. Out(C, at, s) <= C[k][1][s] /\ C[k][1][s] \in Nat
          BY <3>2, <3>3, <3>5, <4>1
        <4> QED
          BY <3>1, <4>2
      <3> QED
        BY <1>0, <2>1, <2>2, <3>1, <3>4, <3>5, RoomStep
    <2>3. CASE b # bus
      <3>1. alloc'[b] = alloc[b]
        BY <1>1, <2>3
      <3>2. alloc'[b][s] <= B[b][s] + req[b][s]
        BY <2>1, <3>1 DEF Room
      <3>3. \A k \in 1 .. N :
             k >= at' /\ Visible(k) /\ Parent(k) = b /\ (k # at' \/ bar' = 1) =>
               alloc'[b][s] <= B[b][s] + C[k][1][s]
        <4> SUFFICES ASSUME NEW k \in 1 .. N, k >= at', Visible(k), Parent(k) = b
                     PROVE  alloc'[b][s] <= B[b][s] + C[k][1][s]
          OBVIOUS
        <4>1. k > at
          BY <1>0, <1>1
        <4> QED
          BY <1>1, <2>1, <3>1, <4>1 DEF Room
      <3> QED
        BY <1>0, <2>1, <3>1, <3>2, <3>3, RoomStep
    <2> QED
      BY <2>2, <2>3
  <1>9. \A b \in Front', s \in Spaces : Room(C, D, b, s)'
    <2>1. Front' = Front \cup {a}
      BY <1>1, <1>3 DEF Front
    <2> QED
      BY <1>7, <1>8, <2>1
  <1>10. \A s \in Spaces : D[0][s] = Root'[s]
    BY <1>0, <1>1, <1>3, <1>6 DEF Placed
  <1>11. ASSUME NEW s \in Spaces PROVE alloc'[bus'][s] <= D[bus'][s] + C[at'][bar'][s]
    <2>1. C[at + 1][1][s] \in Nat
      BY <1>1 DEF Trace, Traces
    <2> QED
      BY <1>0, <1>1, <1>3, <1>6, <2>1
  <1>12. Placed(C, D)'
    BY <1>5, <1>9, <1>10, <1>11 DEF Placed, Bases, Spaces
  <1> QED
    BY <1>12

(* The walk goes on without an assignment.                                 *)
LEMMA PlacedMove ==
  ASSUME WalkInv, AllocInv, NEW C, NEW B, Placed(C, B),
         UNCHANGED <<fns, ram, req, need, alloc, windows>>,
         pass # "measure", Front' \subseteq Front, Front \subseteq 0 .. N,
         \A b \in Front', s \in Spaces, k \in 1 .. N :
           k >= at' /\ Visible(k) /\ Parent(k) = b /\ (k # at' \/ bar' = 1) =>
             alloc[b][s] <= B[b][s] + C[k][1][s],
         Here' => \A s \in Spaces : alloc[bus'][s] <= B[bus'][s] + C[at'][bar'][s]
  PROVE  Placed(C, B)'
PROOF
  <1>1. Root' = Root
    BY DEF Root, MemBase, PrefBase, AlignUp
  <1>2. N \in Nat
    BY TreeFacts DEF WalkInv
  <1>3. ASSUME NEW b \in Front', NEW s \in Spaces PROVE Room(C, B, b, s)'
    <2>1. /\ Room(C, B, b, s) /\ alloc[b][s] \in Nat /\ B[b][s] \in Nat
      <3>1. b \in Front /\ b \in Nat
        <4>1. b \in Front
          OBVIOUS
        <4>2. b \in 0 .. N
          BY <4>1
        <4> QED
          BY <1>2, <4>1, <4>2
      <3>2. Room(C, B, b, s)
        BY <3>1 DEF Placed
      <3>3. alloc[b][s] \in Nat
        BY <3>1 DEF AllocInv
      <3>4. B[b][s] \in Nat
        BY <3>1 DEF Placed, Bases
      <3> QED
        BY <3>2, <3>3, <3>4
    <2>2. alloc'[b][s] \in Nat /\ alloc[b][s] <= alloc'[b][s]
      BY <2>1
    <2>3. alloc'[b][s] <= B[b][s] + req[b][s]
      BY <2>1 DEF Room
    <2>4. \A k \in 1 .. N :
           k >= at' /\ Visible(k) /\ Parent(k) = b /\ (k # at' \/ bar' = 1) =>
             alloc'[b][s] <= B[b][s] + C[k][1][s]
      OBVIOUS
    <2> QED
      BY <2>1, <2>2, <2>3, <2>4, RoomStep
  <1> QED
    BY <1>1, <1>3 DEF Placed, Bases, Spaces

LEMMA PlacedPass ==
  ASSUME WalkInv, ReqInv, AllocInv, PassOver, NEW C, Trace(C), NEW B, Placed(C, B)
  PROVE  Placed(C, B)'
PROOF
  <1>0. /\ UNCHANGED <<fns, ram, req, need, pass, bus, alloc, windows>> /\ bar' = 1
        /\ at' = After(at) /\ pass = "assign" /\ Here /\ N' = N /\ bar > Bars(at)
        /\ at \notin Bridges /\ Front' = Front
    BY DEF PassOver, measuring, assigning, N, Bars, Bridges, Front, Open, Behind
  <1>1. /\ at \in 1 .. N /\ Parent(at) = bus /\ bus \in Front /\ N \in Nat
        /\ Front \subseteq 0 .. N /\ bar = Bars(at) + 1
        /\ at' \in Nat /\ at' > at
    <2>1. at \in 1 .. N /\ Parent(at) = bus /\ bus \in Front /\ N \in Nat
          /\ Front \subseteq 0 .. N
      BY <1>0, HereBehind, FrontFacts
    <2>2. Bars(at) \in Nat /\ bar <= Bars(at) + 1 /\ bar \in Nat
      BY <2>1, BarCount DEF WalkInv, Bars
    <2>3. at' \in Nat /\ at' > at
      BY <1>0, <2>1, AfterLemma DEF WalkInv
    <2> QED
      BY <1>0, <2>1, <2>2, <2>3
  <1>2. ASSUME NEW s \in Spaces, NEW k \in 1 .. N, k >= at', Visible(k), Parent(k) = bus
        PROVE  alloc[bus][s] <= B[bus][s] + C[k][1][s]
    <2>1. /\ Below(C, at, s, C[k][1][s]) /\ C[k][1][s] \in Nat
          /\ Bars(at) \in Nat /\ \A i \in 1 .. Bars(at) + 1 : C[at][i][s] \in Nat
      BY <1>0, <1>1, <1>2, Later
    <2>2. bar \in 1 .. Bars(at) + 1
      BY <1>1, <2>1
    <2>3. C[at][bar][s] <= C[k][1][s] /\ C[at][bar][s] \in Nat
      BY <2>1, <2>2 DEF Below
    <2>4. alloc[bus][s] <= B[bus][s] + C[at][bar][s] /\ B[bus][s] \in Nat /\ alloc[bus][s] \in Nat
      BY <1>0, <1>1 DEF Placed, Bases, AllocInv
    <2> QED
      BY <2>1, <2>3, <2>4
  <1>3. ASSUME NEW b \in Front, NEW s \in Spaces, NEW k \in 1 .. N,
               k >= at', Visible(k), Parent(k) = b
        PROVE  alloc[b][s] <= B[b][s] + C[k][1][s]
    <2>1. CASE b = bus
      BY <1>2, <1>3, <2>1
    <2>2. CASE b # bus
      <3>1. k >= at /\ k # at
        BY <1>1, <1>3
      <3>2. Room(C, B, b, s)
        BY <1>0, <1>3 DEF Placed
      <3> QED
        BY <1>3, <3>1, <3>2 DEF Room
    <2> QED
      BY <2>1, <2>2
  <1>4. ASSUME Here', NEW s \in Spaces PROVE alloc[bus'][s] <= B[bus'][s] + C[at'][bar'][s]
    <2>1. PICK k : k = at'
      OBVIOUS
    <2>2. k \in 1 .. N /\ Parent(k) = bus /\ Visible(k)
      <3>1. k \in 1 .. N /\ Parent(k) = bus
        BY <1>0, <1>1, <1>4, <2>1 DEF Here, Parent, N
      <3>2. bus \in Buses
        BY BusIn
      <3> QED
        BY <3>1, <3>2 DEF Visible, Buses
    <2>3. alloc[bus][s] <= B[bus][s] + C[k][1][s]
      BY <1>1, <1>2, <2>1, <2>2
    <2> QED
      BY <1>0, <2>1, <2>3
  <1>5. /\ \A b \in Front', s \in Spaces, k \in 1 .. N :
             k >= at' /\ Visible(k) /\ Parent(k) = b /\ (k # at' \/ bar' = 1) =>
               alloc[b][s] <= B[b][s] + C[k][1][s]
    BY <1>0, <1>3
  <1> QED
    BY <1>0, <1>1, <1>4, <1>5, PlacedMove

LEMMA PlacedClose ==
  ASSUME WalkInv, ReqInv, AllocInv, CloseBridge, NEW C, NEW B, Placed(C, B)
  PROVE  Placed(C, B)'
PROOF
  <1>0. /\ UNCHANGED <<fns, ram, req, need, pass, at, bar, alloc, windows>>
        /\ bus' = Parent(bus) /\ pass = "assign" /\ ~Here /\ bus # 0 /\ bar = 1 /\ N' = N
    BY DEF CloseBridge, measuring, assigning, N, Parent, WalkInv
  <1>1. Open' = Open \ {bus} /\ Front' \subseteq Front /\ Front \subseteq 0 .. N /\ N \in Nat
    BY <1>0, LeaveSpot, FrontFacts DEF WalkInv, SameTree, Front
  <1>2. /\ \A b \in Front', s \in Spaces, k \in 1 .. N :
             k >= at' /\ Visible(k) /\ Parent(k) = b /\ (k # at' \/ bar' = 1) =>
               alloc[b][s] <= B[b][s] + C[k][1][s]
    BY <1>0, <1>1 DEF Placed, Room
  <1>3. ASSUME Here', NEW s \in Spaces PROVE alloc[bus'][s] <= B[bus'][s] + C[at'][bar'][s]
    <2>1. at \in 1 .. N /\ Parent(at) = bus'
      BY <1>0, <1>3 DEF Here, Parent, WalkInv, SpotInv, N
    <2>2. bus' \in Front'
      <3>1. bus' \in Buses /\ Parent(bus) \in 0 .. bus - 1 /\ bus \in 1 .. N
        BY <1>0, <1>1, BusIn, TreeFacts DEF WalkInv, SpotInv
      <3>2. Parent(bus) # 0 => Behind(bus, Parent(bus)) /\ Parent(bus) \in 1 .. N
        BY <1>1, <3>1, Chain DEF WalkInv
      <3>3. Parent(bus) # 0 => Parent(bus) \in Open'
        BY <1>1, <3>1, <3>2 DEF Open
      <3> QED
        BY <1>0, <3>3 DEF Front
    <2>3. Visible(at)
      <3>1. bus' \in Buses
        BY <1>1, <2>2, FrontFacts
      <3> QED
        BY <2>1, <3>1 DEF Visible, Buses
    <2>4. at' \in 1 .. N /\ at' >= at' /\ Visible(at') /\ Parent(at') = bus'
      BY <1>0, <1>1, <2>1, <2>3 DEF Visible, Parent
    <2> QED
      BY <1>0, <1>2, <2>2, <2>4
  <1> QED
    BY <1>0, <1>1, <1>2, <1>3, PlacedMove

LEMMA PlacedStep ==
  WalkInv /\ ReqInv /\ WindowInv /\ AllocInv /\ Fits /\ [Next]_vars =>
    \A C, B : Trace(C) /\ Placed(C, B) => \E D, E : Trace(D)' /\ Placed(D, E)'
PROOF
  <1> SUFFICES ASSUME WalkInv, ReqInv, WindowInv, AllocInv, Fits, [Next]_vars,
                      NEW C, NEW B, Trace(C), Placed(C, B)
               PROVE  \E D, E : Trace(D)' /\ Placed(D, E)'
    OBVIOUS
  <1>1. CASE pass' = "measure"
    <2>1. PICK D : Trace(D)'
      BY TraceStep
    <2>2. Placed(D, B)'
      BY <1>1 DEF Placed, Bases, Spaces
    <2> QED
      BY <2>1, <2>2
  <1>2. CASE StartAssigning
    <2>1. C \in Traces /\ Trace(C)'
      BY <1>2, TraceElse DEF StartAssigning, measuring, N, Trace
    <2>2. \E E : Placed(C, E)'
      BY <1>2, <2>1, PlacedStart
    <2> QED
      BY <2>1, <2>2
  <1>3. ASSUME pass # "measure", pass' # "measure", UNCHANGED <<fns, req, need>>
        PROVE  Trace(C)'
    BY <1>3, TraceElse DEF Trace
  <1>4. CASE AssignBar
    <2>1. Trace(C)'
      BY <1>3, <1>4 DEF AssignBar, measuring
    <2>2. Placed(C, B)'
      BY <1>4, PlacedAssign
    <2> QED
      BY <2>1, <2>2
  <1>5. CASE OpenBridge
    <2>1. Trace(C)'
      BY <1>3, <1>5 DEF OpenBridge, measuring
    <2>2. \E E : Placed(C, E)'
      BY <1>5, PlacedOpen
    <2> QED
      BY <2>1, <2>2
  <1>6. CASE PassOver
    <2>1. Trace(C)'
      BY <1>3, <1>6 DEF PassOver, measuring
    <2>2. Placed(C, B)'
      BY <1>6, PlacedPass
    <2> QED
      BY <2>1, <2>2
  <1>7. CASE CloseBridge
    <2>1. Trace(C)'
      BY <1>3, <1>7 DEF CloseBridge, measuring
    <2>2. Placed(C, B)'
      BY <1>7, PlacedClose
    <2> QED
      BY <2>1, <2>2
  <1>8. ASSUME pass # "measure", pass' # "measure",
               UNCHANGED <<fns, ram, req, need, at, bar, bus, alloc, windows>>
        PROVE  Trace(C)' /\ Placed(C, B)'
    <2>1. Trace(C)'
      BY <1>3, <1>8
    <2>2. Front' = Front /\ Here' = Here /\ Front \subseteq 0 .. N
      BY <1>8, FrontFacts DEF Front, Open, N, Behind, Here
    <2>3. \A b \in Front', s \in Spaces, k \in 1 .. N :
             k >= at' /\ Visible(k) /\ Parent(k) = b /\ (k # at' \/ bar' = 1) =>
               alloc[b][s] <= B[b][s] + C[k][1][s]
      BY <1>8, <2>2 DEF Placed, Room
    <2>4. Here' => \A s \in Spaces : alloc[bus'][s] <= B[bus'][s] + C[at'][bar'][s]
      BY <1>8, <2>2 DEF Placed
    <2> QED
      BY <1>8, <2>1, <2>2, <2>3, <2>4, PlacedMove
  <1>9. CASE Finish
    <2>1. Trace(C)' /\ Placed(C, B)'
      BY <1>8, <1>9 DEF Finish, measuring, assigning
    <2> QED
      BY <2>1
  <1>10. CASE UNCHANGED vars
    <2>1. CASE pass # "measure"
      <3>1. Trace(C)' /\ Placed(C, B)'
        BY <1>8, <1>10, <2>1 DEF vars, measuring, assigning
      <3> QED
        BY <3>1
    <2> QED
      BY <1>1, <1>10, <2>1 DEF vars
  <1>11. CASE MeasureBar \/ MeasureDevice \/ EnterBridge \/ SkipBridge \/ LeaveBus
    BY <1>1, <1>11 DEF MeasureBar, MeasureDevice, EnterBridge, SkipBridge, LeaveBus
  <1> QED
    BY <1>2, <1>4, <1>5, <1>6, <1>7, <1>9, <1>10, <1>11 DEF Next
-----------------------------------------------------------------------------
(* What lies between the free addresses of a bus and what was measured for *)
(* it is inside the window of its bridge.                                  *)
LEMMA Covered ==
  ASSUME WalkInv, ReqInv, WindowInv, pass # "measure", NEW C, NEW B, Placed(C, B), bus # 0,
         NEW r \in Given, alloc[bus][r.space] <= r.base, alloc[bus][r.space] \in Nat,
         r.base + r.size <= B[bus][r.space] + req[bus][r.space]
  PROVE  \E w \in windows : w.fn = bus /\ Inside(r, w)
PROOF
  <1> DEFINE s == r.space
  <1>1. s \in Spaces /\ r.base \in Nat /\ r.size \in Nat \ {0}
    BY DEF Given
  <1>2. bus \in Bridges /\ bus \in Front /\ bus \in Nat
    BY BusIn, FrontFacts
  <1>3. /\ Room(C, B, bus, s) /\ B[bus][s] \in Nat
    BY <1>1, <1>2 DEF Placed, Bases
  <1>4. need[bus][s] \in Nat /\ req[bus][s] \in Nat /\ req[bus][s] <= need[bus][s]
    BY <1>1, <1>2, WindowFacts
  <1> HIDE DEF s
  <1>5. B[bus][s] <= r.base /\ r.base + r.size <= B[bus][s] + need[bus][s]
    <2>1. B[bus][s] <= alloc[bus][s]
      BY <1>3 DEF Room
    <2> QED
      BY <1>1, <1>3, <1>4, <2>1 DEF s
  <1>6. need[bus][s] # 0
    BY <1>1, <1>3, <1>4, <1>5
  <1> DEFINE w == Range(bus, s, B[bus][s], need[bus][s])
  <1>7. w \in windows
    BY <1>3, <1>6 DEF Room
  <1>8. w.fn = bus /\ w.space = s /\ w.base = B[bus][s] /\ w.size = need[bus][s]
    BY DEF Range
  <1> QED
    BY <1>5, <1>7, <1>8 DEF Inside, s

(* A BAR that is assigned, and a window that is opened.                    *)
LEMMA AssignedInside ==
  ASSUME WalkInv, ReqInv, AllocInv, Fits, AssignBar, NEW C, Trace(C), NEW B, Placed(C, B)
  PROVE  \E r \in Given :
           /\ ranges' = ranges \cup {r} /\ r.fn = at /\ alloc[bus][r.space] <= r.base
           /\ r.base + r.size <= B[bus][r.space] + req[bus][r.space]
           /\ r.base + r.size = alloc'[bus][r.space]
           /\ \A s \in Spaces : s # r.space => alloc'[bus][s] = alloc[bus][s]
           /\ \A b \in Front : b # bus => alloc'[b] = alloc[b]
PROOF
  <1>1. PICK p, n, base : /\ p = fns[at].bars[bar].space /\ n = fns[at].bars[bar].size
                          /\ base = AlignUp(alloc[bus][p], n)
    OBVIOUS
  <1>2. /\ p \in Spaces /\ n \in Nat \ {0} /\ base \in Nat /\ alloc[bus][p] <= base
        /\ alloc'[bus][p] = base + n
        /\ \A s \in Spaces : s # p => alloc'[bus][s] = alloc[bus][s]
        /\ \A b \in Front : b # bus => alloc'[b] = alloc[b]
        /\ ranges' = ranges \cup {Range(at, p, base, n)}
        /\ at \in 1 .. N /\ Parent(at) = bus
    BY <1>1, Assigned
  <1>3. PICK r : r = Range(at, p, base, n)
    OBVIOUS
  <1>4. /\ r \in Given /\ r.fn = at /\ r.space = p /\ r.base = base /\ r.size = n
    BY <1>2, <1>3 DEF Range, Given
  <1>5. /\ alloc'[bus][p] \in Nat /\ B[bus][p] \in Nat
        /\ alloc'[bus][p] <= B[bus][p] + C[at][bar + 1][p]
        /\ bar \in Nat \ {0} /\ bar <= Bars(at) /\ C[at][bar + 1][p] \in Nat
    BY <1>2, AssignedRoom
  <1>6. /\ Below(C, at, p, req[bus][p]) /\ req[bus][p] \in Nat /\ Bars(at) \in Nat
    BY <1>2, Later DEF AssignBar
  <1>7. C[at][bar + 1][p] <= req[bus][p]
    <2>1. bar + 1 \in 1 .. Bars(at) + 1
      BY <1>5, <1>6
    <2> QED
      BY <1>6, <2>1 DEF Below
  <1>8. base + n <= B[bus][p] + req[bus][p]
    BY <1>2, <1>5, <1>6, <1>7
  <1> QED
    BY <1>2, <1>3, <1>4, <1>8

LEMMA OpenedInside ==
  ASSUME WalkInv, ReqInv, AllocInv, OpenBridge, NEW C, Trace(C), NEW B, Placed(C, B),
         NEW s \in Spaces, need[at][s] # 0,
         NEW r, r = Range(at, s, Opening(s), need[at][s])
  PROVE  /\ r \in Given /\ r.fn = at /\ r.space = s /\ alloc[bus][s] <= r.base
         /\ r.base + r.size <= B[bus][s] + req[bus][s]
         /\ r.base = alloc'[at][s] /\ r.base + r.size = alloc'[bus][s]
PROOF
  <1>1. /\ at \in Bridges /\ at \in 1 .. N
        /\ Opening(s) \in Nat /\ need[at][s] \in Nat /\ alloc[bus][s] \in Nat
        /\ alloc[bus][s] <= Opening(s) /\ alloc'[at][s] = Opening(s)
        /\ alloc'[bus][s] = Opening(s) + need[at][s]
    BY Opened
  <1>2. r \in Given /\ r.fn = at /\ r.space = s /\ r.base = Opening(s) /\ r.size = need[at][s]
    BY <1>1 DEF Range, Given
  <1>3. /\ alloc'[bus][s] \in Nat /\ B[bus][s] \in Nat
        /\ alloc'[bus][s] <= B[bus][s] + Out(C, at, s) /\ Out(C, at, s) \in Nat
    BY OpenedRoom
  <1>4. Below(C, at, s, req[bus][s]) /\ req[bus][s] \in Nat
    BY Later DEF OpenBridge
  <1>5. Out(C, at, s) <= req[bus][s]
    BY <1>4 DEF Below
  <1>6. alloc'[bus][s] <= B[bus][s] + req[bus][s]
    BY <1>3, <1>4, <1>5
  <1> QED
    BY <1>1, <1>2, <1>6

LEMMA CoverStep ==
  ASSUME WalkInv, ReqInv, WindowInv, AllocInv, Fits, [Next]_vars,
         NEW C, NEW B, Trace(C), Placed(C, B), WindowsCover
  PROVE  WindowsCover'
PROOF
  <1>1. CASE AssignBar
    <2>1. PICK r \in Given :
           /\ ranges' = ranges \cup {r} /\ r.fn = at /\ alloc[bus][r.space] <= r.base
           /\ r.base + r.size <= B[bus][r.space] + req[bus][r.space]
      BY <1>1, AssignedInside
    <2>2. UNCHANGED <<fns, windows>> /\ Here /\ Parent(at) = bus /\ pass # "measure"
      BY <1>1, HereBehind DEF AssignBar
    <2>3. alloc[bus][r.space] \in Nat
      BY <2>2, FrontFacts DEF AllocInv, Given
    <2>4. fns[r.fn].parent # 0 =>
            \E w \in windows : w.fn = fns[r.fn].parent /\ Inside(r, w)
      BY <2>1, <2>2, <2>3, Covered DEF Parent
    <2> QED
      BY <2>1, <2>2, <2>4 DEF WindowsCover, Inside
  <1>2. CASE OpenBridge
    <2>1. /\ windows' = windows \cup {Range(at, s, Opening(s), need[at][s]) :
                                       s \in {t \in Spaces : need[at][t] # 0}}
          /\ UNCHANGED <<fns, ranges>> /\ Here /\ Parent(at) = bus /\ pass # "measure"
      BY <1>2, Opened DEF OpenBridge
    <2>2. ASSUME NEW s \in Spaces, need[at][s] # 0, bus # 0
          PROVE  \E w \in windows : w.fn = bus /\ Inside(Range(at, s, Opening(s), need[at][s]), w)
      <3>1. PICK r : r = Range(at, s, Opening(s), need[at][s])
        OBVIOUS
      <3>2. /\ r \in Given /\ r.fn = at /\ r.space = s /\ alloc[bus][s] <= r.base
            /\ r.base + r.size <= B[bus][s] + req[bus][s]
        BY <1>2, <2>2, <3>1, OpenedInside
      <3>3. alloc[bus][s] \in Nat
        BY <2>1, FrontFacts DEF AllocInv
      <3>4. \E w \in windows : w.fn = bus /\ Inside(r, w)
        BY <2>1, <2>2, <3>2, <3>3, Covered
      <3> QED
        BY <3>1, <3>4
    <2>3. ASSUME NEW s \in Spaces PROVE Range(at, s, Opening(s), need[at][s]).fn = at
      BY DEF Range
    <2>4. ASSUME NEW r \in ranges' \cup windows', fns[r.fn].parent # 0
          PROVE  \E w \in windows : w.fn = fns[r.fn].parent /\ Inside(r, w)
      <3>1. CASE r \in ranges \cup windows
        BY <2>4, <3>1 DEF WindowsCover
      <3>2. CASE r \notin ranges \cup windows
        <4>1. PICK s \in Spaces : need[at][s] # 0 /\ r = Range(at, s, Opening(s), need[at][s])
          BY <2>1, <3>2
        <4>2. r.fn = at /\ fns[at].parent = bus
          BY <2>1, <2>3, <4>1 DEF Parent
        <4> QED
          BY <2>2, <2>4, <4>1, <4>2
      <3> QED
        BY <3>1, <3>2
    <2> QED
      BY <2>1, <2>4 DEF WindowsCover, Inside
  <1>3. ASSUME UNCHANGED <<fns, ranges, windows>> PROVE WindowsCover'
    BY <1>3 DEF WindowsCover, Inside
  <1> QED
    BY <1>1, <1>2, <1>3
    DEF Next, MeasureBar, MeasureDevice, EnterBridge, SkipBridge, LeaveBus, StartAssigning,
        PassOver, CloseBridge, Finish, vars, assigning

-----------------------------------------------------------------------------
(* Addresses that are given out, and those that are still free.            *)

(* Is address x in range r?                                                *)
Hit(x, r) == r.base <= x /\ x < r.base + r.size

(* I/O addresses are apart from those of the two memory spaces.            *)
SameKind(s, t) == s = "io" <=> t = "io"

(* Is x one of the free addresses of a bus?  Behind a bridge they end with *)
(* its window; memory of bus 0 ends where prefetchable memory begins.      *)
InFree(x, b, s) ==
  /\ alloc[b][s] <= x
  /\ b # 0 => \E w \in windows : w.fn = b /\ w.space = s /\ x < w.base + w.size
  /\ b = 0 /\ s = "mem" => x < PrefBase

(* A free address is free on one bus only, was given to no BAR, and to no  *)
(* window but those of the bridges in front of that bus.                   *)
FreeApart(x) ==
  /\ \A b, c \in Front, s, t \in Spaces :
       SameKind(s, t) /\ InFree(x, b, s) /\ InFree(x, c, t) => b = c /\ s = t
  /\ \A r \in ranges, b \in Front, s \in Spaces :
       SameKind(r.space, s) /\ Hit(x, r) => ~InFree(x, b, s)
  /\ \A w \in windows, b \in Front, s \in Spaces :
       SameKind(w.space, s) /\ Hit(x, w) /\ InFree(x, b, s) => w.fn \in Open /\ w.fn <= b
  /\ \A b \in Front, s \in Spaces : s # "io" /\ InFree(x, b, s) => x >= ram

(* An address given to two is in a window and in what is behind it.        *)
UsedApart(x) ==
  /\ \A r, q \in ranges : SameKind(r.space, q.space) /\ Hit(x, r) /\ Hit(x, q) => r = q
  /\ \A w \in windows, r \in ranges :
       SameKind(w.space, r.space) /\ Hit(x, w) /\ Hit(x, r) => Behind(r.fn, w.fn)
  /\ \A r \in ranges \cup windows : r.space # "io" /\ Hit(x, r) => x >= ram

AreasInv ==
  pass # "measure" =>
    /\ \A w \in windows : w.fn < at
    /\ \A x \in Nat : FreeApart(x) /\ UsedApart(x)

(* What was taken from a bus was free.                                     *)
LEMMA Taken ==
  ASSUME WalkInv, ReqInv, WindowInv, AllocInv, pass # "measure", NEW C, NEW B, Placed(C, B),
         NEW r \in Given, alloc[bus][r.space] <= r.base,
         r.base + r.size <= B[bus][r.space] + req[bus][r.space],
         NEW x \in Nat, Hit(x, r)
  PROVE  InFree(x, bus, r.space)
PROOF
  <1>1. r.space \in Spaces /\ r.base \in Nat /\ r.size \in Nat /\ bus \in Front
    BY FrontFacts DEF Given
  <1>2. alloc[bus][r.space] \in Nat
    BY <1>1 DEF AllocInv
  <1>3. alloc[bus][r.space] <= x
    BY <1>1, <1>2 DEF Hit
  <1>4. ASSUME bus # 0
        PROVE  \E w \in windows : w.fn = bus /\ w.space = r.space /\ x < w.base + w.size
    <2>1. PICK w \in windows : w.fn = bus /\ Inside(r, w)
      BY <1>2, <1>4, Covered
    <2>2. w.base \in Nat /\ w.size \in Nat
      BY DEF AllocInv, Given
    <2>3. w.space = r.space /\ x < w.base + w.size
      BY <1>1, <2>1, <2>2 DEF Inside, Hit
    <2> QED
      BY <2>1, <2>3
  <1>5. ASSUME bus = 0, r.space = "mem" PROVE x < PrefBase
    <2>1. B[0]["mem"] = MemBase /\ MemBase \in Nat /\ PrefBase \in Nat
          /\ MemBase + req[0]["mem"] <= PrefBase
      BY RootFacts, RootFields DEF Placed, Spaces
    <2>2. req[0]["mem"] \in Nat
      BY DEF ReqInv, IsReq, Buses, Spaces
    <2> QED
      BY <1>1, <1>5, <2>1, <2>2 DEF Hit
  <1> QED
    BY <1>3, <1>4, <1>5 DEF InFree

(* At first everything is free, and bus 0 has what is above the memory.    *)
LEMMA AreasStart == WalkInv /\ ReqInv /\ AllocInv /\ StartAssigning => AreasInv'
PROOF
  <1> SUFFICES ASSUME WalkInv, ReqInv, AllocInv, StartAssigning PROVE AreasInv'
    OBVIOUS
  <1>1. /\ alloc' = [b \in {0} |-> Root] /\ ranges' = {} /\ windows' = {} /\ bus' = 0
        /\ UNCHANGED <<fns, ram>> /\ PrefBase' = PrefBase
    BY DEF StartAssigning, AllocInv, measuring, PrefBase, MemBase, AlignUp
  <1>2. Front' = {0}
    BY <1>1, OpenFacts DEF StartAssigning, WalkInv, SpotInv, Open, N, Behind, Front
  <1>3. alloc'[0] = Root
    BY <1>1
  <1>4. /\ MemBase \in Nat /\ PrefBase \in Nat /\ ram \in Nat /\ ram <= MemBase
        /\ MemBase + req[0]["mem"] <= PrefBase /\ req[0]["mem"] \in Nat
    BY RootFacts, PciAssumption DEF ReqInv, IsReq, Buses, Spaces, WalkInv
  <1>5. ASSUME NEW x \in Nat PROVE FreeApart(x)' /\ UsedApart(x)'
    <2>1. ASSUME NEW s \in Spaces, InFree(x, 0, s)'
          PROVE  Root[s] <= x /\ (s = "mem" => x < PrefBase)
      BY <1>1, <1>3, <2>1 DEF InFree
    <2>2. ASSUME NEW s \in Spaces, NEW t \in Spaces, SameKind(s, t),
                 InFree(x, 0, s)', InFree(x, 0, t)'
          PROVE  s = t
      <3>1. Root[s] <= x /\ Root[t] <= x /\ (s = "mem" \/ t = "mem" => x < PrefBase)
        BY <2>1, <2>2
      <3>2. ~(PrefBase <= x /\ x < PrefBase)
        BY <1>4
      <3>3. ~(s = "mem" /\ t = "pref") /\ ~(s = "pref" /\ t = "mem")
        BY <3>1, <3>2, RootFields
      <3> QED
        BY <2>2, <3>3 DEF Spaces, SameKind
    <2>3. ASSUME NEW s \in Spaces, s # "io", InFree(x, 0, s)' PROVE x >= ram
      <3>1. Root[s] = MemBase \/ Root[s] = PrefBase
        BY <2>3, RootFields DEF Spaces
      <3> QED
        BY <1>4, <2>1, <2>3, <3>1
    <2>4. \A b, c \in Front', s, t \in Spaces :
             SameKind(s, t) /\ InFree(x, b, s)' /\ InFree(x, c, t)' => b = c /\ s = t
      BY <1>2, <2>2
    <2>5. \A b \in Front', s \in Spaces : s # "io" /\ InFree(x, b, s)' => x >= ram'
      BY <1>1, <1>2, <2>3
    <2> QED
      BY <1>1, <2>4, <2>5 DEF FreeApart, UsedApart, SameKind, Spaces
  <1> QED
    BY <1>1, <1>5 DEF AreasInv

(* A step that gives nothing out, and opens no bus.                        *)
LEMMA AreasMove ==
  ASSUME AllocInv, AreasInv, pass # "measure", N \in Nat, UNCHANGED <<fns, ram, req, alloc, ranges, windows>>,
         at \in Nat, at' \in Nat, at <= at', Front' \subseteq Front,
         \A b \in Front', c \in Open : c <= b => c \in Open'
  PROVE  AreasInv'
PROOF
  <1>1. PrefBase' = PrefBase /\ \A x, b, s : InFree(x, b, s)' <=> InFree(x, b, s)
    BY DEF PrefBase, MemBase, AlignUp, InFree
  <1>2. ASSUME NEW x \in Nat PROVE FreeApart(x)' /\ UsedApart(x)'
    <2>1. FreeApart(x) /\ UsedApart(x)
      BY DEF AreasInv
    <2>2. UsedApart(x)'
      BY <2>1 DEF UsedApart, SameKind, Hit, Behind
    <2>3. /\ \A b, c \in Front', s, t \in Spaces :
               SameKind(s, t) /\ InFree(x, b, s) /\ InFree(x, c, t) => b = c /\ s = t
          /\ \A r \in ranges, b \in Front', s \in Spaces :
               SameKind(r.space, s) /\ Hit(x, r) => ~InFree(x, b, s)
          /\ \A b \in Front', s \in Spaces : s # "io" /\ InFree(x, b, s) => x >= ram
      BY <2>1 DEF FreeApart
    <2>4. \A w \in windows, b \in Front', s \in Spaces :
            SameKind(w.space, s) /\ Hit(x, w) /\ InFree(x, b, s) => w.fn \in Open' /\ w.fn <= b
      BY <2>1 DEF FreeApart
    <2> QED
      BY <1>1, <2>2, <2>3, <2>4 DEF FreeApart, SameKind, Hit, Spaces
  <1>3. \A w \in windows' : w.fn < at'
    <2>1. \A w \in windows : w.fn \in Nat /\ w.fn < at
      BY DEF AreasInv, AllocInv, Given
    <2> QED
      BY <2>1
  <1> QED
    BY <1>2, <1>3 DEF AreasInv

(* A BAR takes what was free, ...                                          *)
LEMMA AreasAssign ==
  ASSUME WalkInv, ReqInv, WindowInv, AllocInv, AreasInv, Fits, AssignBar,
         NEW C, Trace(C), NEW B, Placed(C, B)
  PROVE  AreasInv'
PROOF
  <1>0. /\ UNCHANGED <<fns, ram, at, bus, windows>> /\ pass = "assign" /\ Here
        /\ PrefBase' = PrefBase /\ Front' = Front /\ Open' = Open /\ bus \in Front
    BY FrontFacts
    DEF AssignBar, measuring, PrefBase, MemBase, AlignUp, Front, Open, N, Behind
  <1>1. PICK r \in Given :
           /\ ranges' = ranges \cup {r} /\ r.fn = at /\ alloc[bus][r.space] <= r.base
           /\ r.base + r.size <= B[bus][r.space] + req[bus][r.space]
           /\ r.base + r.size = alloc'[bus][r.space]
           /\ \A s \in Spaces : s # r.space => alloc'[bus][s] = alloc[bus][s]
           /\ \A b \in Front : b # bus => alloc'[b] = alloc[b]
    BY AssignedInside
  <1>2. /\ r.space \in Spaces /\ r.base \in Nat /\ r.size \in Nat \ {0}
        /\ alloc[bus][r.space] \in Nat
    BY <1>0 DEF Given, AllocInv
  <1>3. ASSUME NEW x \in Nat PROVE FreeApart(x)' /\ UsedApart(x)'
    <2>1. FreeApart(x) /\ UsedApart(x)
      BY <1>0 DEF AreasInv
    <2>2. Hit(x, r) => InFree(x, bus, r.space)
      BY <1>0, <1>1, Taken
    <2>3. ASSUME NEW b \in Front, NEW s \in Spaces, InFree(x, b, s)'
          PROVE  InFree(x, b, s) /\ (b = bus /\ s = r.space => ~Hit(x, r))
      <3>1. CASE b = bus /\ s = r.space
        <4>1. r.base + r.size <= x
          BY <1>1, <2>3, <3>1 DEF InFree
        <4>2. alloc[b][s] <= x /\ ~Hit(x, r)
          BY <1>1, <1>2, <3>1, <4>1 DEF Hit
        <4> QED
          BY <1>0, <2>3, <4>2 DEF InFree
      <3>2. CASE ~(b = bus /\ s = r.space)
        <4>1. alloc'[b][s] = alloc[b][s]
          BY <1>1, <3>2
        <4> QED
          BY <1>0, <2>3, <3>2, <4>1 DEF InFree
      <3> QED
        BY <3>1, <3>2
    <2>4. \A b, c \in Front, s, t \in Spaces :
            SameKind(s, t) /\ InFree(x, b, s)' /\ InFree(x, c, t)' => b = c /\ s = t
      BY <2>1, <2>3 DEF FreeApart
    <2>5. \A q \in ranges', b \in Front, s \in Spaces :
            SameKind(q.space, s) /\ Hit(x, q) => ~InFree(x, b, s)'
      <3> SUFFICES ASSUME NEW q \in ranges', NEW b \in Front, NEW s \in Spaces,
                          SameKind(q.space, s), Hit(x, q), InFree(x, b, s)'
                   PROVE  FALSE
        OBVIOUS
      <3>1. CASE q \in ranges
        BY <2>1, <2>3, <3>1 DEF FreeApart
      <3>2. CASE q = r
        <4>1. b = bus /\ s = r.space
          BY <1>0, <1>2, <2>1, <2>2, <2>3, <3>2 DEF FreeApart
        <4> QED
          BY <2>3, <3>2, <4>1
      <3> QED
        BY <1>1, <3>1, <3>2
    <2>6. \A w \in windows, b \in Front, s \in Spaces :
            SameKind(w.space, s) /\ Hit(x, w) /\ InFree(x, b, s)' => w.fn \in Open /\ w.fn <= b
      BY <2>1, <2>3 DEF FreeApart
    <2>7. \A b \in Front, s \in Spaces : s # "io" /\ InFree(x, b, s)' => x >= ram
      BY <2>1, <2>3 DEF FreeApart
    <2>8. FreeApart(x)'
      BY <1>0, <2>4, <2>5, <2>6, <2>7 DEF FreeApart, SameKind, Hit, Spaces
    <2>9. \A p, q \in ranges' : SameKind(p.space, q.space) /\ Hit(x, p) /\ Hit(x, q) => p = q
      <3>1. ASSUME NEW q \in ranges, SameKind(q.space, r.space), Hit(x, q), Hit(x, r) PROVE FALSE
        BY <1>0, <1>2, <2>1, <2>2, <3>1 DEF FreeApart
      <3>2. \A q : SameKind(r.space, q.space) => SameKind(q.space, r.space)
        BY DEF SameKind
      <3> QED
        BY <1>1, <2>1, <3>1, <3>2 DEF UsedApart
    <2>10. \A w \in windows, q \in ranges' :
             SameKind(w.space, q.space) /\ Hit(x, w) /\ Hit(x, q) => Behind(q.fn, w.fn)
      <3>1. ASSUME NEW w \in windows, SameKind(w.space, r.space), Hit(x, w), Hit(x, r)
            PROVE  Behind(r.fn, w.fn)
        <4>1. w.fn \in Open
          BY <1>0, <1>2, <2>1, <2>2, <3>1 DEF FreeApart
        <4>2. w.fn \in 1 .. N
          BY <4>1 DEF Open
        <4> QED
          BY <1>0, <1>1, <4>1, <4>2, HereBehind
      <3> QED
        BY <1>1, <2>1, <3>1 DEF UsedApart
    <2>11. \A q \in ranges' \cup windows : q.space # "io" /\ Hit(x, q) => x >= ram
      BY <1>0, <1>1, <1>2, <2>1, <2>2 DEF UsedApart, FreeApart
    <2>12. UsedApart(x)'
      BY <1>0, <2>9, <2>10, <2>11 DEF UsedApart, SameKind, Hit, Behind
    <2> QED
      BY <2>8, <2>12
  <1> QED
    BY <1>0, <1>3 DEF AreasInv

(* ... and a bus takes what is in the windows of its bridge.               *)
LEMMA AreasOpen ==
  ASSUME WalkInv, ReqInv, WindowInv, AllocInv, AreasInv, OpenBridge,
         NEW C, Trace(C), NEW B, Placed(C, B)
  PROVE  AreasInv'
PROOF
  <1> DEFINE W(s) == Range(at, s, Opening(s), need[at][s])
             T == {t \in Spaces : need[at][t] # 0}
  <1>0. /\ UNCHANGED <<fns, ram, ranges>> /\ pass = "assign" /\ Here /\ at' = at + 1
        /\ PrefBase' = PrefBase
    BY DEF OpenBridge, measuring, PrefBase, MemBase, AlignUp
  <1>1. /\ at \in 1 .. N /\ bus \in Front /\ Open' = Open \cup {at}
        /\ \A s \in Spaces :
             /\ alloc'[at][s] = Opening(s) /\ need[at][s] \in Nat /\ alloc[bus][s] \in Nat
             /\ alloc'[bus][s] = IF need[at][s] = 0 THEN alloc[bus][s]
                                 ELSE Opening(s) + need[at][s]
        /\ \A b \in Front : b # bus => alloc'[b] = alloc[b]
        /\ windows' = windows \cup {W(s) : s \in T}
    BY Opened
  <1>2. /\ N \in Nat /\ Front \subseteq 0 .. N /\ bus < at /\ \A b \in Front : b <= bus
    BY FrontFacts DEF WalkInv, SpotInv
  <1>3. PICK a : a = at
    OBVIOUS
  <1>4. Front' = Front \cup {a} /\ a \notin Front /\ a # 0 /\ a # bus /\ a \in Nat /\ bus \in Nat
    BY <1>1, <1>2, <1>3 DEF Front
  <1>5. ASSUME NEW s \in T
        PROVE  /\ W(s) \in Given /\ W(s).fn = a /\ W(s).space = s /\ alloc[bus][s] <= W(s).base
               /\ W(s).base + W(s).size <= B[bus][s] + req[bus][s]
               /\ W(s).base = alloc'[a][s] /\ W(s).base + W(s).size = alloc'[bus][s]
    <2>1. s \in Spaces /\ need[at][s] # 0
      OBVIOUS
    <2> QED
      BY <1>3, <2>1, OpenedInside
  <1>6. \A w \in windows : w.fn < a /\ w.fn \in Nat
    BY <1>0, <1>3 DEF AreasInv, AllocInv, Given
  <1> HIDE DEF W, T
  <1>7. T \subseteq Spaces /\ \A s \in Spaces : s \notin T => need[at][s] = 0
    BY DEF T
  <1>8. ASSUME NEW x \in Nat PROVE FreeApart(x)' /\ UsedApart(x)'
    <2>1. FreeApart(x) /\ UsedApart(x)
      BY <1>0 DEF AreasInv
    <2>2. ASSUME NEW s \in T, Hit(x, W(s)) PROVE InFree(x, bus, s)
      <3>1. PICK r : r = W(s)
        OBVIOUS
      <3>2. /\ r \in Given /\ r.space = s /\ alloc[bus][s] <= r.base
            /\ r.base + r.size <= B[bus][s] + req[bus][s] /\ Hit(x, r)
        BY <1>5, <2>2, <3>1
      <3> QED
        BY <1>0, <3>2, Taken
    <2>3. ASSUME NEW b \in Front, NEW s \in Spaces, InFree(x, b, s)'
          PROVE  /\ InFree(x, b, s)
                 /\ b = bus /\ s \in T => ~Hit(x, W(s))
      <3>1. b # 0 => \E w \in windows : w.fn = b /\ w.space = s /\ x < w.base + w.size
        <4> SUFFICES ASSUME b # 0
                     PROVE  \E w \in windows : w.fn = b /\ w.space = s /\ x < w.base + w.size
          OBVIOUS
        <4>1. PICK w \in windows' : w.fn = b /\ w.space = s /\ x < w.base + w.size
          BY <2>3 DEF InFree
        <4>2. b # a
          BY <1>4
        <4>3. w \in windows
          BY <1>1, <1>5, <4>1, <4>2
        <4> QED
          BY <4>1, <4>3
      <3>2. alloc'[b][s] <= x /\ (b = 0 /\ s = "mem" => x < PrefBase)
        BY <1>0, <2>3 DEF InFree
      <3>3. CASE b = bus /\ s \in T
        <4>1. W(s).base \in Nat /\ W(s).size \in Nat /\ alloc[b][s] \in Nat
          BY <1>1, <1>5, <3>3 DEF Given
        <4>2. W(s).base + W(s).size <= x /\ alloc[b][s] <= W(s).base
          BY <1>5, <3>2, <3>3
        <4>3. alloc[b][s] <= x /\ ~Hit(x, W(s))
          BY <4>1, <4>2 DEF Hit
        <4> QED
          BY <3>1, <3>2, <4>3 DEF InFree
      <3>4. CASE ~(b = bus /\ s \in T)
        <4>1. alloc'[b][s] = alloc[b][s]
          BY <1>1, <1>7, <3>4
        <4> QED
          BY <3>1, <3>2, <3>4, <4>1 DEF InFree
      <3> QED
        BY <3>3, <3>4
    <2>4. ASSUME NEW s \in Spaces, InFree(x, a, s)'
          PROVE  s \in T /\ Hit(x, W(s)) /\ InFree(x, bus, s)
      <3>1. PICK w \in windows' : w.fn = a /\ w.space = s /\ x < w.base + w.size
        BY <1>4, <2>4 DEF InFree
      <3>2. w \notin windows
        <4>1. ASSUME w \in windows PROVE FALSE
          BY <1>4, <1>6, <3>1, <4>1
        <4> QED
          BY <4>1
      <3>3. PICK t \in T : w = W(t)
        BY <1>1, <3>1, <3>2
      <3>4. t = s
        BY <1>5, <3>1, <3>3
      <3>5. alloc'[a][s] <= x
        BY <2>4 DEF InFree
      <3>6. Hit(x, W(s))
        BY <1>5, <3>1, <3>3, <3>4, <3>5 DEF Hit
      <3> QED
        BY <2>2, <3>3, <3>4, <3>6
    <2> DEFINE Up(b) == IF b = a THEN bus ELSE b
    <2>5. ASSUME NEW b \in Front', NEW s \in Spaces, InFree(x, b, s)'
          PROVE  Up(b) \in Front /\ InFree(x, Up(b), s)
      BY <1>1, <1>4, <2>3, <2>4, <2>5
    <2>6. ASSUME NEW b \in Front', NEW c \in Front', NEW s \in Spaces, NEW t \in Spaces,
                 SameKind(s, t), InFree(x, b, s)', InFree(x, c, t)'
          PROVE  b = c /\ s = t
      <3>1. Up(b) = Up(c) /\ s = t
        <4>1. InFree(x, Up(b), s) /\ InFree(x, Up(c), t) /\ Up(b) \in Front /\ Up(c) \in Front
          BY <2>5, <2>6
        <4> HIDE DEF Up
        <4> QED
          BY <2>1, <2>6, <4>1 DEF FreeApart
      <3>2. ~(b = a /\ c = bus) /\ ~(c = a /\ b = bus)
        BY <1>1, <2>3, <2>4, <2>6, <3>1
      <3> QED
        BY <3>1, <3>2
    <2>7. ASSUME NEW r \in ranges, NEW b \in Front', NEW s \in Spaces,
                 SameKind(r.space, s), Hit(x, r), InFree(x, b, s)'
          PROVE  FALSE
      <3>1. Up(b) \in Front /\ InFree(x, Up(b), s)
        BY <2>5, <2>7
      <3> HIDE DEF Up
      <3> QED
        BY <2>1, <2>7, <3>1 DEF FreeApart
    <2>8. ASSUME NEW w \in windows', NEW b \in Front', NEW s \in Spaces,
                 SameKind(w.space, s), Hit(x, w), InFree(x, b, s)'
          PROVE  w.fn \in Open' /\ w.fn <= b
      <3>1. Up(b) \in Front /\ InFree(x, Up(b), s)
        BY <2>5, <2>8
      <3>2. CASE w \in windows
        <4>1. w.fn \in Open /\ w.fn <= Up(b)
          <5> HIDE DEF Up
          <5> QED
            BY <2>1, <2>8, <3>1, <3>2 DEF FreeApart
        <4>2. w.fn <= b
          BY <1>2, <1>3, <1>4, <1>6, <3>2, <4>1
        <4> QED
          BY <1>1, <4>1, <4>2
      <3>3. CASE w \notin windows
        <4>1. PICK t \in T : w = W(t)
          BY <1>1, <3>3
        <4>2. w.fn = a /\ w.space = t /\ t \in Spaces /\ InFree(x, bus, t)
          BY <1>5, <1>7, <2>2, <2>8, <4>1
        <4>3. Up(b) = bus /\ s = t
          <5> HIDE DEF Up
          <5> QED
            BY <1>1, <2>1, <2>8, <3>1, <4>2 DEF FreeApart
        <4>4. b # bus
          BY <1>1, <2>3, <2>8, <4>1, <4>3
        <4>5. b = a
          BY <4>3, <4>4
        <4> QED
          BY <1>1, <1>3, <1>4, <4>2, <4>5
      <3> QED
        BY <3>2, <3>3
    <2>9. ASSUME NEW b \in Front', NEW s \in Spaces, s # "io", InFree(x, b, s)' PROVE x >= ram
      <3>1. Up(b) \in Front /\ InFree(x, Up(b), s)
        BY <2>5, <2>9
      <3> HIDE DEF Up
      <3> QED
        BY <2>1, <2>9, <3>1 DEF FreeApart
    <2>10. FreeApart(x)'
      BY <1>0, <2>6, <2>7, <2>8, <2>9 DEF FreeApart, SameKind, Hit, Spaces
    <2>11. \A w \in windows', r \in ranges :
             SameKind(w.space, r.space) /\ Hit(x, w) /\ Hit(x, r) => Behind(r.fn, w.fn)
      <3> SUFFICES ASSUME NEW w \in windows', NEW r \in ranges,
                          SameKind(w.space, r.space), Hit(x, w), Hit(x, r)
                   PROVE  Behind(r.fn, w.fn)
        OBVIOUS
      <3>1. CASE w \in windows
        BY <2>1, <3>1 DEF UsedApart
      <3>2. CASE w \notin windows
        <4>1. PICK t \in T : w = W(t)
          BY <1>1, <3>2
        <4>2. w.space = t /\ t \in Spaces /\ InFree(x, bus, t)
          BY <1>5, <1>7, <2>2, <4>1
        <4>3. SameKind(r.space, t)
          BY <4>2 DEF SameKind
        <4> QED
          BY <1>1, <2>1, <4>2, <4>3 DEF FreeApart
      <3> QED
        BY <3>1, <3>2
    <2>12. \A r \in ranges \cup windows' : r.space # "io" /\ Hit(x, r) => x >= ram
      <3> SUFFICES ASSUME NEW r \in ranges \cup windows', r.space # "io", Hit(x, r) PROVE x >= ram
        OBVIOUS
      <3>1. CASE r \in ranges \cup windows
        BY <2>1, <3>1 DEF UsedApart
      <3>2. CASE r \notin ranges \cup windows
        <4>1. PICK t \in T : r = W(t)
          BY <1>1, <3>2
        <4>2. r.space = t /\ t \in Spaces /\ InFree(x, bus, t)
          BY <1>5, <1>7, <2>2, <4>1
        <4> QED
          BY <1>1, <2>1, <4>2 DEF FreeApart
      <3> QED
        BY <3>1, <3>2
    <2>13. UsedApart(x)'
      <3>1. \A r, q \in ranges : SameKind(r.space, q.space) /\ Hit(x, r) /\ Hit(x, q) => r = q
        BY <2>1 DEF UsedApart
      <3> QED
        BY <1>0, <2>11, <2>12, <3>1 DEF UsedApart, SameKind, Hit, Behind
    <2> QED
      BY <2>10, <2>13
  <1>9. \A w \in windows' : w.fn < at'
    <2>1. ASSUME NEW w \in windows' PROVE w.fn < at'
      <3>1. CASE w \in windows
        BY <1>0, <1>3, <1>4, <1>6, <3>1
      <3>2. CASE w \notin windows
        <4>1. w.fn = a
          BY <1>1, <1>5, <3>2
        <4> QED
          BY <1>0, <1>3, <1>4, <4>1
      <3> QED
        BY <3>1, <3>2
    <2> QED
      BY <2>1
  <1> QED
    BY <1>8, <1>9 DEF AreasInv

LEMMA AreasStep ==
  ASSUME WalkInv, ReqInv, WindowInv, AllocInv, AreasInv, Fits, [Next]_vars,
         NEW C, NEW B, Trace(C), Placed(C, B)
  PROVE  AreasInv'
PROOF
  <1>1. CASE pass' = "measure"
    BY <1>1 DEF AreasInv
  <1>2. CASE StartAssigning
    BY <1>2, AreasStart
  <1>3. CASE AssignBar
    BY <1>3, AreasAssign
  <1>4. CASE OpenBridge
    BY <1>4, AreasOpen
  <1>5. /\ N \in Nat /\ at \in Nat /\ fns \in Trees
        /\ \A b \in Front : b <= bus /\ b \in Nat /\ bus \in Nat
    BY FrontFacts DEF WalkInv, SpotInv
  <1>6. CASE PassOver
    <2>1. /\ UNCHANGED <<fns, ram, req, alloc, ranges, windows, bus>> /\ pass # "measure"
          /\ at' = After(at) /\ Open' = Open /\ Front' = Front /\ Here
      BY <1>6 DEF PassOver, measuring, assigning, Open, Front, N, Behind
    <2>2. at' \in Nat /\ at <= at'
      BY <1>5, <2>1, HereBehind, AfterLemma
    <2> QED
      BY <1>5, <2>1, <2>2, AreasMove
  <1>7. CASE CloseBridge
    <2>1. /\ UNCHANGED <<fns, ram, req, alloc, ranges, windows, at>> /\ pass # "measure"
          /\ Open' = Open \ {bus}
      BY <1>7, LeaveSpot DEF CloseBridge, measuring, assigning, WalkInv, SameTree, Parent
    <2>2. bus # 0 /\ bus \in Open
      BY <1>7, OpenFacts DEF CloseBridge, WalkInv, SpotInv
    <2>3. Front' \subseteq Front
      BY <2>1 DEF Front
    <2>4. \A b \in Front', c \in Open : c <= b => c \in Open'
      <3> SUFFICES ASSUME NEW b \in Front', NEW c \in Open, c <= b PROVE c # bus
        BY <2>1
      <3>1. b # bus /\ b <= bus /\ b \in Nat /\ bus \in Nat
        BY <1>5, <2>1, <2>2, <2>3 DEF Front
      <3> QED
        BY <3>1
    <2> QED
      BY <1>5, <2>1, <2>3, <2>4, AreasMove
  <1>8. ASSUME UNCHANGED <<fns, ram, req, alloc, ranges, windows, at, bus>>, pass # "measure"
        PROVE  AreasInv'
    <2>1. Open' = Open /\ Front' = Front
      BY <1>8 DEF Open, Front, N, Behind
    <2> QED
      BY <1>5, <1>8, <2>1, AreasMove
  <1>9. CASE Finish
    BY <1>8, <1>9 DEF Finish, measuring, assigning
  <1>10. CASE UNCHANGED vars
    BY <1>1, <1>8, <1>10 DEF vars, measuring, assigning
  <1>11. CASE MeasureBar \/ MeasureDevice \/ EnterBridge \/ SkipBridge \/ LeaveBus
    BY <1>1, <1>11 DEF MeasureBar, MeasureDevice, EnterBridge, SkipBridge, LeaveBus
  <1> QED
    BY <1>2, <1>3, <1>4, <1>6, <1>7, <1>9, <1>10, <1>11 DEF Next

(* That is what no conflict means.                                         *)
LEMMA Apart ==
  ASSUME AllocInv, AreasInv, ram \in Nat
  PROVE  NoConflict
PROOF
  <1>1. CASE pass = "measure"
    BY <1>1 DEF AllocInv, NoConflict
  <1>2. CASE pass # "measure"
    <2>1. ASSUME NEW r \in Given, NEW s \in Given, Collide(r, s)
          PROVE  SameKind(r.space, s.space) /\ \E x \in Nat : Hit(x, r) /\ Hit(x, s)
      <3>1. /\ r.base \in Nat /\ r.size \in Nat \ {0} /\ s.base \in Nat /\ s.size \in Nat \ {0}
        BY DEF Given
      <3>2. r.base < s.base + s.size /\ s.base < r.base + r.size /\ SameKind(r.space, s.space)
        BY <2>1 DEF Collide, Memory, SameKind
      <3>3. CASE r.base < s.base
        BY <3>1, <3>2, <3>3 DEF Hit
      <3>4. CASE ~(r.base < s.base)
        BY <3>1, <3>2, <3>4 DEF Hit
      <3> QED
        BY <3>2, <3>3, <3>4
    <2>2. \A x \in Nat : UsedApart(x)
      BY <1>2 DEF AreasInv
    <2>3. ranges \subseteq Given /\ windows \subseteq Given
      BY DEF AllocInv
    <2>4. \A r, s \in ranges : r # s => ~Collide(r, s)
      BY <2>1, <2>2, <2>3 DEF UsedApart
    <2>5. \A w \in windows, r \in ranges : Collide(w, r) => Behind(r.fn, w.fn)
      BY <2>1, <2>2, <2>3 DEF UsedApart
    <2>6. ASSUME NEW r \in ranges \cup windows, Memory(r) PROVE r.base >= ram
      <3>1. r.base \in Nat /\ r.size \in Nat \ {0}
        BY <2>3 DEF Given
      <3>2. Hit(r.base, r)
        BY <3>1 DEF Hit
      <3> QED
        BY <2>2, <2>6, <3>1, <3>2 DEF UsedApart, Memory
    <2> QED
      BY <2>4, <2>5, <2>6 DEF NoConflict
  <1> QED
    BY <1>1, <1>2

(* What holds of the addresses where Fits holds.                           *)
Filled == WindowsCover /\ AreasInv /\ \E C, B : Trace(C) /\ Placed(C, B)

PlanInv == WalkInv /\ ReqInv /\ WindowInv /\ AllocInv /\ (Fits => Filled)

LEMMA PlanInitial == Init => PlanInv
PROOF
  <1> SUFFICES ASSUME Init PROVE PlanInv
    OBVIOUS
  <1>1. WalkInv /\ ReqInv /\ WindowInv /\ AllocInv
    BY WalkInitial, ReqInitial, TraceInitial, AllocInitial
  <1>2. WindowsCover /\ AreasInv
    BY DEF Init, WindowsCover, AreasInv
  <1>3. PICK C : Trace(C)
    BY TraceInitial
  <1>4. PICK B : B = [k \in Nat |-> [s \in Spaces |-> 0]]
    OBVIOUS
  <1>5. Placed(C, B)
    BY <1>4 DEF Init, Placed, Bases
  <1> QED
    BY <1>1, <1>2, <1>3, <1>5 DEF PlanInv, Filled

LEMMA PlanStep == PlanInv /\ [Next]_vars => PlanInv'
PROOF
  <1> SUFFICES ASSUME PlanInv, [Next]_vars PROVE PlanInv'
    OBVIOUS
  <1>1. WalkInv /\ ReqInv /\ WindowInv /\ AllocInv
    BY DEF PlanInv
  <1>2. WalkInv' /\ ReqInv' /\ WindowInv' /\ AllocInv'
    BY <1>1, WalkStep, ReqStep, WindowStep, AllocStep
  <1>3. UNCHANGED fns
    BY DEF Next, MeasureBar, MeasureDevice, EnterBridge, SkipBridge, LeaveBus, StartAssigning,
           AssignBar, OpenBridge, PassOver, CloseBridge, Finish, vars
  <1>4. Fits' <=> Fits
    BY <1>3 DEF Fits, N, Bars, Multiple, Unit, WindowAlign, Parent
  <1>5. ASSUME Fits PROVE Filled'
    <2>1. WindowsCover /\ AreasInv
      BY <1>5 DEF PlanInv, Filled
    <2>2. PICK C, B : Trace(C) /\ Placed(C, B)
      BY <1>5 DEF PlanInv, Filled
    <2>3. WindowsCover' /\ AreasInv'
      BY <1>1, <1>5, <2>1, <2>2, CoverStep, AreasStep
    <2>4. \E D, E : Trace(D)' /\ Placed(D, E)'
      BY <1>1, <1>5, <2>2, PlacedStep
    <2> QED
      BY <2>3, <2>4 DEF Filled
  <1> QED
    BY <1>2, <1>4, <1>5 DEF PlanInv

(* When no BAR asks for a coarser alignment than the windows of its bus    *)
(* have, what is behind a bridge is inside the windows of the bridge.      *)
THEOREM BehindWindows == Spec => [](Fits => WindowsCover)
PROOF
  <1>1. PlanInv => (Fits => WindowsCover)
    BY DEF PlanInv, Filled
  <1> QED
    BY <1>1, PlanInitial, PlanStep, PTL DEF Spec

(* And no address is given out twice, nor below the end of the DRAM.       *)
THEOREM AddressesApart == Spec => [](Fits => NoConflict)
PROOF
  <1>1. PlanInv => (Fits => NoConflict)
    BY Apart, PciAssumption DEF PlanInv, Filled, WalkInv
  <1> QED
    BY <1>1, PlanInitial, PlanStep, PTL DEF Spec
=============================================================================
