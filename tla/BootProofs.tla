----------------------------- MODULE BootProofs -----------------------------
(* Theorems about the boot, for every set of ROMs and media and any number *)
(* of resets, failing loads and presses of the key; then about what comes  *)
(* before the ROMs: the memory and the maps of it.                         *)
EXTENDS BootFlow, Memtest, TLAPS

Prios  == {PrioAuto, PrioIde, PrioUsb}
Stored == [prio : Prios, test : BOOLEAN]

(* Where the boot is, in the order it gets there.                          *)
First  == {"load_stage2", "stage2", "load_dsdt", "load_stage3", "stage3"}
Scan   == {"pci", "storage", "pci_again", "choose"}
InApp  == {"load_app", "load_vgabios", "run", "returned"}
Late   == Scan \cup {"prompt", "start"} \cup InApp
Ended  == {"os", "halted"}

LoadPoints ==
  {"load_stage2", "load_dsdt", "load_stage3", "load_app", "load_vgabios"}

TypeInv ==
  /\ pc \in {"reset"} \cup First \cup Late \cup Ended
  /\ loading \in BOOLEAN /\ (loading => pc \in LoadPoints)
  /\ app \in {"none", "selftest", "linux", "legacy"}
  /\ pc \in {"reset"} \cup First \cup Scan => app = "none"
  /\ cmos \in Stored /\ settings \in Stored

(* A request is in the flags until stage 3 takes it into its own flag,     *)
(* and from there it leads to the prompt.                                  *)
MaintInv ==
  /\ asked /\ pc \in First => "maintenance" \in flags
  /\ asked /\ pc \in Scan => maint
  /\ pc = "prompt" => prompted
  /\ MaintenanceHonoured

(* Stage 3 and the app it runs have the priority that is stored.           *)
PrioInv ==
  /\ nvram /\ pc \in Late => cmos.prio = settings.prio
  /\ pc \in {"load_app", "load_vgabios", "run"} => ctx.prio = settings.prio

(* What the requests take, in granules.                                    *)
StageRoom   == 513
PciRoom     == 194
StorageRoom == 11
ContextRoom == 14

(* What may be taken for good at a point of the boot: the snapshots, and   *)
(* a context for each app that was started.                                *)
Exported == 2 * PciRoom + StorageRoom
Earlier  == IF app = "legacy" THEN ContextRoom ELSE 0

Taken(n) ==
  /\ n \in Nat
  /\ pc \in First \cup {"pci"} => n = 0
  /\ pc = "storage" => n <= PciRoom
  /\ pc = "pci_again" => n <= PciRoom + StorageRoom
  /\ pc \in {"choose", "prompt"} => n <= Exported
  /\ pc = "start" => n <= Exported + Earlier
  /\ pc \in InApp => n <= Exported + Earlier + ContextRoom

(* All that is free is one block at the end of the heap.                   *)
FreeFrom(n) == << [at |-> HeapBase + n, size |-> HeapLimit - HeapBase - n] >>

Stage(n) == [at |-> HeapBase + n, size |-> StageRoom, want |-> StageBytes]

(* The heap is a stack: what is taken for good, then perhaps the staging   *)
(* buffer, then one free block.                                            *)
StackAt(n) ==
  /\ Taken(n)
  /\ free = FreeFrom(IF loading THEN n + StageRoom ELSE n)
  /\ \A b \in live : b.want = StageBytes => loading /\ b = Stage(n)

HeapInv == pc \in First \cup Late => \E n : StackAt(n)

IInv == TypeInv /\ MaintInv /\ PrioInv /\ HeapInv

-----------------------------------------------------------------------------
(* What the allocator grants for each request.                             *)
LEMMA RoomLemma ==
  /\ Heap!Needed(StageBytes) = StageRoom
  /\ Heap!Needed(PciBytes) = PciRoom
  /\ Heap!Needed(StorageBytes) = StorageRoom
  /\ Heap!Needed(ContextBytes) = ContextRoom
PROOF
  BY SMT DEF Heap!Needed, Heap!Align, Heap!Header, Heap!MinBlock, StageBytes,
             PciBytes, StorageBytes, ContextBytes, StageRoom, PciRoom,
             StorageRoom, ContextRoom

(* The one free block grants every request that leaves a block behind.     *)
LEMMA FitsLemma ==
  ASSUME NEW bytes, NEW n \in Nat, NEW need \in Nat, Heap!Needed(bytes) = need,
         free = FreeFrom(n), n + need <= HeapLimit - HeapBase
  PROVE  Fits(bytes)
PROOF
  BY DEF Fits, FreeFrom, HeapBase, HeapLimit

LEMMA AllocLemma ==
  ASSUME NEW bytes, NEW n \in Nat, NEW need \in Nat, Heap!Needed(bytes) = need,
         free = FreeFrom(n), n + need + 2 <= HeapLimit - HeapBase,
         Heap!Alloc(bytes)
  PROVE  /\ free' = FreeFrom(n + need)
         /\ live' = live \cup {[at |-> HeapBase + n, size |-> need, want |-> bytes]}
PROOF
  <1>1. PICK i \in 1 .. Len(free) :
          /\ free' = Heap!Remaining(free, i, need)
          /\ live' = live \cup {Heap!Held(Heap!Taken(free, i, need), bytes)}
    BY DEF Heap!Alloc
  <1>2. /\ Len(free) = 1 /\ i = 1
        /\ free[1] = [at |-> HeapBase + n, size |-> HeapLimit - HeapBase - n]
    BY <1>1 DEF FreeFrom
  <1>3. Heap!Splits(free, 1, need)
    BY <1>2 DEF Heap!Splits, Heap!MinBlock, HeapBase, HeapLimit
  <1>4. Heap!Taken(free, 1, need) = [at |-> HeapBase + n, size |-> need]
    BY <1>2, <1>3 DEF Heap!Taken
  <1>5. Heap!Remaining(free, 1, need) = FreeFrom(n + need)
    BY <1>2, <1>3 DEF Heap!Remaining, FreeFrom, HeapBase, HeapLimit
  <1> QED
    BY <1>1, <1>2, <1>4, <1>5 DEF Heap!Held

(* Giving back the staging buffer brings the free block back to where it   *)
(* was before.                                                             *)
LEMMA FreeLemma ==
  ASSUME NEW n \in Nat, n + StageRoom + 2 <= HeapLimit - HeapBase,
         free = FreeFrom(n + StageRoom), Heap!Free(Stage(n))
  PROVE  free' = FreeFrom(n) /\ live' = live \ {Stage(n)}
PROOF
  <1> DEFINE b    == [at |-> HeapBase + n, size |-> StageRoom]
             rest == [at |-> HeapBase + n + StageRoom,
                      size |-> HeapLimit - HeapBase - (n + StageRoom)]
             new  == Heap!InsertBlock(free, 1, b)
  <1>1. Heap!Accepted(Stage(n)) /\ Heap!Unheld(Stage(n)) = b
    BY DEF Heap!Accepted, Heap!Unheld, Heap!Header, Heap!MinBlock, Stage,
           StageRoom, HeapBase, HeapLimit
  <1>2. PICK i \in 1 .. Len(free) + 1 :
          Heap!IsPlace(free, i, Stage(n)) /\ free' = Heap!Linked(free, i, b)
    BY <1>1 DEF Heap!Free
  <1>3. Len(free) = 1 /\ free = << rest >>
    BY DEF FreeFrom, StageRoom, HeapBase
  <1>4. i = 1
    BY <1>2, <1>3 DEF Heap!IsPlace, Stage, StageRoom, HeapBase
  <1>5. /\ new \in Seq({b, rest}) /\ Len(new) = 2
        /\ new[1] = b /\ new[2] = rest
    BY <1>3 DEF Heap!InsertBlock
  <1>6. Heap!CoalesceNext(new, 1) = FreeFrom(n)
    <2> DEFINE whole   == [at |-> HeapBase + n, size |-> HeapLimit - HeapBase - n]
               dropped == Heap!DropBlock(new, 2)
    <2> HIDE DEF new
    <2>1. 1 < Len(new) /\ new[1].at + new[1].size = new[2].at
      BY <1>5 DEF StageRoom, HeapBase
    <2>2. [at |-> new[1].at, size |-> new[1].size + new[2].size] = whole
      BY <1>5 DEF StageRoom, HeapBase, HeapLimit
    <2>3. Heap!CoalesceNext(new, 1) = [dropped EXCEPT ![1] = whole]
      BY <2>1, <2>2 DEF Heap!CoalesceNext
    <2>4. dropped = [j \in 1 .. 1 |-> b]
      BY <1>5 DEF Heap!DropBlock
    <2>5. [dropped EXCEPT ![1] = whole] = [j \in 1 .. 1 |-> whole]
      BY <2>4
    <2>6. << whole >> = [j \in 1 .. 1 |-> whole]
      OBVIOUS
    <2> QED
      BY <2>3, <2>5, <2>6 DEF FreeFrom
  <1>7. Heap!Linked(free, 1, b) = Heap!CoalesceNext(new, 1)
    BY DEF Heap!Linked
  <1> QED
    BY <1>2, <1>4, <1>6, <1>7 DEF Heap!Free

-----------------------------------------------------------------------------
(* The points where something is loaded, and what follows each.            *)
LEMMA LoadsLemma == Loads = LoadPoints
PROOF
  BY DEF Loads, LoadPoints, Payload

LEMMA SuccessLemma ==
  /\ OnSuccess["load_stage2"] = "stage2"
  /\ OnSuccess["load_dsdt"] = "load_stage3"
  /\ OnSuccess["load_stage3"] = "stage3"
  /\ OnSuccess["load_app"] \in {"run", "load_vgabios"}
  /\ OnSuccess["load_vgabios"] = "run"
PROOF
  BY DEF OnSuccess

LEMMA FailureLemma ==
  /\ OnFailure["load_stage2"] = "halted"
  /\ OnFailure["load_dsdt"] = "load_stage3"
  /\ OnFailure["load_stage3"] = "halted"
  /\ OnFailure["load_app"] = "returned"
  /\ OnFailure["load_vgabios"] = "run"
PROOF
  BY DEF OnFailure

(* Where a load ends.                                                      *)
LoadEnds ==
  /\ pc \in LoadPoints
  /\ pc = "load_stage2" => pc' \in {"stage2", "halted"}
  /\ pc = "load_dsdt" => pc' = "load_stage3"
  /\ pc = "load_stage3" => pc' \in {"stage3", "halted"}
  /\ pc = "load_app" => pc' \in {"load_vgabios", "run", "returned"}
  /\ pc = "load_vgabios" => pc' = "run"

LEMMA LoadEndsLemma == TypeInv /\ (RefuseLoad \/ EndLoad) => LoadEnds
PROOF
  <1> SUFFICES ASSUME TypeInv, RefuseLoad \/ EndLoad PROVE LoadEnds
    OBVIOUS
  <1>1. pc \in LoadPoints /\ (pc' = OnSuccess[pc] \/ pc' = OnFailure[pc])
    BY LoadsLemma DEF RefuseLoad, EndLoad, TypeInv
  <1>2. CASE pc = "load_stage2"
    BY <1>1, <1>2, SuccessLemma, FailureLemma DEF LoadEnds
  <1>3. CASE pc = "load_dsdt"
    BY <1>1, <1>3, SuccessLemma, FailureLemma DEF LoadEnds
  <1>4. CASE pc = "load_stage3"
    BY <1>1, <1>4, SuccessLemma, FailureLemma DEF LoadEnds
  <1>5. CASE pc = "load_app"
    BY <1>1, <1>5, SuccessLemma, FailureLemma DEF LoadEnds
  <1>6. CASE pc = "load_vgabios"
    BY <1>1, <1>6, SuccessLemma, FailureLemma DEF LoadEnds
  <1> QED
    BY <1>1, <1>2, <1>3, <1>4, <1>5, <1>6 DEF LoadPoints, LoadEnds

LEMMA InitLemma == Init => IInv
PROOF
  <1> SUFFICES ASSUME Init PROVE IInv
    OBVIOUS
  <1>1. Defaults \in Stored
    BY DEF Defaults, Stored, Prios
  <1>2. TypeInv
    BY <1>1 DEF Init, TypeInv, First, Scan, Late, InApp, Ended
  <1>3. MaintInv
    BY DEF Init, MaintInv, MaintenanceHonoured
  <1>4. PrioInv
    BY DEF Init, PrioInv, Late, Scan, InApp
  <1>5. HeapInv
    BY DEF Init, HeapInv, Late, First, Scan, InApp
  <1> QED
    BY <1>2, <1>3, <1>4, <1>5 DEF IInv

(* Every step keeps the types.                                             *)
LEMMA TypeNext == IInv /\ [Next]_vars => TypeInv'
PROOF
  <1> SUFFICES ASSUME IInv, [Next]_vars PROVE TypeInv'
    OBVIOUS
  <1>0. RefuseLoad \/ EndLoad => LoadEnds
    BY LoadEndsLemma DEF IInv
  <1> USE DEF IInv, TypeInv, LoadPoints, First, Scan, InApp, Late, Ended, Stored, Prios
  <1>1. CASE FirstStage
    BY <1>1 DEF machine, FirstStage, InstallTable, heap, stage3, bounds
  <1>2. CASE Stage2
    BY <1>2 DEF machine, Stage2, InstallTable, heap, stage3, bounds
  <1>3. CASE StartLoad
    BY <1>3, LoadsLemma DEF machine, StartLoad, heap, stage3, bounds
  <1>4. CASE RefuseLoad
    BY <1>0, <1>4 DEF LoadEnds, machine, RefuseLoad, heap, stage3, bounds
  <1>5. CASE EndLoad
    BY <1>0, <1>5 DEF LoadEnds, machine, EndLoad, heap, stage3, bounds
  <1>6. CASE PollKey
    BY <1>6 DEF machine, PollKey, heap, stage3, bounds
  <1>7. CASE Stage3
    BY <1>7 DEF machine, Stage3, Defaults, heap, stage3, bounds
  <1>8. CASE PciSnapshot
    BY <1>8 DEF machine, PciSnapshot, Export, heap, stage3, bounds
  <1>9. CASE StorageSnapshot
    BY <1>9 DEF machine, StorageSnapshot, Export, heap, stage3, bounds
  <1>10. CASE PciSnapshotAgain
    BY <1>10 DEF machine, PciSnapshotAgain, Export, heap, stage3, bounds
  <1>11. CASE ChooseSelftest
    BY <1>11 DEF machine, ChooseSelftest, heap, stage3, bounds
  <1>12. CASE ChooseBoot
    BY <1>12 DEF machine, ChooseBoot, heap, stage3, bounds
  <1>13. CASE Edit
    BY <1>13 DEF machine, Edit, heap, stage3, bounds
  <1>14. CASE Quit
    BY <1>14 DEF machine, Quit, heap, stage3, bounds
  <1>15. CASE StartApp
    BY <1>15 DEF machine, StartApp, heap, stage3, bounds
  <1>16. CASE RefuseApp
    BY <1>16 DEF machine, RefuseApp, heap, stage3, bounds
  <1>17. CASE RunLinux
    BY <1>17 DEF machine, RunLinux, BootsFrom, heap, stage3, bounds
  <1>18. CASE RunLegacy
    BY <1>18 DEF machine, RunLegacy, BootsFrom, heap, stage3, bounds
  <1>19. CASE RunSelftest
    BY <1>19 DEF machine, RunSelftest, heap, stage3, bounds
  <1>20. CASE Returned
    BY <1>20 DEF machine, Returned, heap, stage3, bounds
  <1>21. CASE Reset
    BY <1>21 DEF Reset, Defaults, heap, stage3, bounds
  <1>22. CASE UNCHANGED vars
    BY <1>22 DEF vars, machine, heap, stage3, bounds
  <1> QED
    BY <1>1, <1>2, <1>3, <1>4, <1>5, <1>6, <1>7, <1>8, <1>9, <1>10, <1>11, <1>12, <1>13, <1>14, <1>15, <1>16, <1>17, <1>18, <1>19, <1>20, <1>21, <1>22 DEF Next, Boot

(* Every step carries a request on.                                        *)
LEMMA MaintNext == IInv /\ [Next]_vars => MaintInv'
PROOF
  <1> SUFFICES ASSUME IInv, [Next]_vars PROVE MaintInv'
    OBVIOUS
  <1>0. RefuseLoad \/ EndLoad => LoadEnds
    BY LoadEndsLemma DEF IInv
  <1> USE DEF IInv, TypeInv, MaintInv, MaintenanceHonoured, First, Scan, InApp, Late, Ended
  <1>1. CASE FirstStage
    BY <1>1 DEF machine, FirstStage, InstallTable, heap, stage3, bounds
  <1>2. CASE Stage2
    BY <1>2 DEF machine, Stage2, InstallTable, heap, stage3, bounds
  <1>3. CASE StartLoad
    BY <1>3, LoadsLemma DEF machine, StartLoad, heap, stage3, bounds
  <1>4. CASE RefuseLoad
    BY <1>0, <1>4 DEF LoadEnds, LoadPoints, machine, RefuseLoad
  <1>5. CASE EndLoad
    BY <1>0, <1>5 DEF LoadEnds, LoadPoints, machine, EndLoad
  <1>6. CASE PollKey
    BY <1>6 DEF machine, PollKey, heap, stage3, bounds
  <1>7. CASE Stage3
    BY <1>7 DEF machine, Stage3, Defaults, heap, stage3, bounds
  <1>8. CASE PciSnapshot
    BY <1>8 DEF machine, PciSnapshot, Export, heap, stage3, bounds
  <1>9. CASE StorageSnapshot
    BY <1>9 DEF machine, StorageSnapshot, Export, heap, stage3, bounds
  <1>10. CASE PciSnapshotAgain
    BY <1>10 DEF machine, PciSnapshotAgain, Export, heap, stage3, bounds
  <1>11. CASE ChooseSelftest
    BY <1>11 DEF machine, ChooseSelftest, heap, stage3, bounds
  <1>12. CASE ChooseBoot
    BY <1>12 DEF machine, ChooseBoot, heap, stage3, bounds
  <1>13. CASE Edit
    BY <1>13 DEF machine, Edit, heap, stage3, bounds
  <1>14. CASE Quit
    BY <1>14 DEF machine, Quit, heap, stage3, bounds
  <1>15. CASE StartApp
    BY <1>15 DEF machine, StartApp, heap, stage3, bounds
  <1>16. CASE RefuseApp
    BY <1>16 DEF machine, RefuseApp, heap, stage3, bounds
  <1>17. CASE RunLinux
    BY <1>17 DEF machine, RunLinux, BootsFrom, heap, stage3, bounds
  <1>18. CASE RunLegacy
    BY <1>18 DEF machine, RunLegacy, BootsFrom, heap, stage3, bounds
  <1>19. CASE RunSelftest
    BY <1>19 DEF machine, RunSelftest, heap, stage3, bounds
  <1>20. CASE Returned
    BY <1>20 DEF machine, Returned, heap, stage3, bounds
  <1>21. CASE Reset
    BY <1>21 DEF Reset, Defaults, heap, stage3, bounds
  <1>22. CASE UNCHANGED vars
    BY <1>22 DEF vars, machine, heap, stage3, bounds
  <1> QED
    BY <1>1, <1>2, <1>3, <1>4, <1>5, <1>6, <1>7, <1>8, <1>9, <1>10, <1>11, <1>12, <1>13, <1>14, <1>15, <1>16, <1>17, <1>18, <1>19, <1>20, <1>21, <1>22 DEF Next, Boot

(* Every step keeps the stored priority and the one in use together.      *)
LEMMA PrioNext == IInv /\ [Next]_vars => PrioInv'
PROOF
  <1> SUFFICES ASSUME IInv, [Next]_vars PROVE PrioInv'
    OBVIOUS
  <1>0. RefuseLoad \/ EndLoad => LoadEnds
    BY LoadEndsLemma DEF IInv
  <1> USE DEF IInv, TypeInv, PrioInv, First, Scan, InApp, Late, Ended, Stored, Prios
  <1>1. CASE FirstStage
    BY <1>1 DEF machine, FirstStage, InstallTable, heap, stage3, bounds
  <1>2. CASE Stage2
    BY <1>2 DEF machine, Stage2, InstallTable, heap, stage3, bounds
  <1>3. CASE StartLoad
    BY <1>3, LoadsLemma DEF machine, StartLoad, heap, stage3, bounds
  <1>4. CASE RefuseLoad
    BY <1>0, <1>4 DEF LoadEnds, LoadPoints, machine, RefuseLoad
  <1>5. CASE EndLoad
    BY <1>0, <1>5 DEF LoadEnds, LoadPoints, machine, EndLoad
  <1>6. CASE PollKey
    BY <1>6 DEF machine, PollKey, heap, stage3, bounds
  <1>7. CASE Stage3
    BY <1>7 DEF machine, Stage3, Defaults, heap, stage3, bounds
  <1>8. CASE PciSnapshot
    BY <1>8 DEF machine, PciSnapshot, Export, heap, stage3, bounds
  <1>9. CASE StorageSnapshot
    BY <1>9 DEF machine, StorageSnapshot, Export, heap, stage3, bounds
  <1>10. CASE PciSnapshotAgain
    BY <1>10 DEF machine, PciSnapshotAgain, Export, heap, stage3, bounds
  <1>11. CASE ChooseSelftest
    BY <1>11 DEF machine, ChooseSelftest, heap, stage3, bounds
  <1>12. CASE ChooseBoot
    BY <1>12 DEF machine, ChooseBoot, heap, stage3, bounds
  <1>13. CASE Edit
    BY <1>13 DEF machine, Edit, heap, stage3, bounds
  <1>14. CASE Quit
    BY <1>14 DEF machine, Quit, heap, stage3, bounds
  <1>15. CASE StartApp
    BY <1>15 DEF machine, StartApp, heap, stage3, bounds
  <1>16. CASE RefuseApp
    BY <1>16 DEF machine, RefuseApp, heap, stage3, bounds
  <1>17. CASE RunLinux
    BY <1>17 DEF machine, RunLinux, BootsFrom, heap, stage3, bounds
  <1>18. CASE RunLegacy
    BY <1>18 DEF machine, RunLegacy, BootsFrom, heap, stage3, bounds
  <1>19. CASE RunSelftest
    BY <1>19 DEF machine, RunSelftest, heap, stage3, bounds
  <1>20. CASE Returned
    BY <1>20 DEF machine, Returned, heap, stage3, bounds
  <1>21. CASE Reset
    BY <1>21 DEF Reset, Defaults, heap, stage3, bounds
  <1>22. CASE UNCHANGED vars
    BY <1>22 DEF vars, machine, heap, stage3, bounds
  <1> QED
    BY <1>1, <1>2, <1>3, <1>4, <1>5, <1>6, <1>7, <1>8, <1>9, <1>10, <1>11, <1>12, <1>13, <1>14, <1>15, <1>16, <1>17, <1>18, <1>19, <1>20, <1>21, <1>22 DEF Next, Boot

-----------------------------------------------------------------------------

(* At most two snapshots, the candidates and two contexts are taken for    *)
(* good, and the staging buffer fits behind them.                          *)
LEMMA StackLemma ==
  ASSUME TypeInv, pc \in First \cup Late, NEW n, StackAt(n)
  PROVE  /\ n \in Nat /\ n + StageRoom + 2 <= HeapLimit - HeapBase
         /\ ~loading => free = FreeFrom(n)
         /\ loading => free = FreeFrom(n + StageRoom)
         /\ pc \in {"pci", "pci_again", "storage", "start"} => ~loading
PROOF
  <1>1. n \in Nat /\ n <= Exported + 2 * ContextRoom
    <2>1. Earlier \in {0, ContextRoom}
      BY DEF Earlier
    <2> QED
      BY <2>1 DEF StackAt, Taken, Exported, PciRoom, StorageRoom, ContextRoom,
                  First, Late, Scan, InApp
  <1>2. n + StageRoom + 2 <= HeapLimit - HeapBase
    BY <1>1 DEF Exported, PciRoom, StorageRoom, ContextRoom, StageRoom, HeapBase,
                HeapLimit
  <1>3. pc \in {"pci", "pci_again", "storage", "start"} => ~loading
    BY DEF TypeInv, LoadPoints
  <1> QED
    BY <1>1, <1>2, <1>3 DEF StackAt

(* So every request finds its block.                                       *)
LEMMA SufficesLemma == IInv => HeapSuffices
PROOF
  <1> SUFFICES ASSUME IInv PROVE HeapSuffices
    OBVIOUS
  <1>1. CASE pc \in First \cup Late
    <2>1. PICK n : StackAt(n)
      BY <1>1 DEF IInv, HeapInv
    <2>2. /\ n \in Nat /\ n + StageRoom + 2 <= HeapLimit - HeapBase
          /\ ~loading => free = FreeFrom(n)
          /\ pc \in {"pci", "pci_again", "storage", "start"} => ~loading
      BY <1>1, <2>1, StackLemma DEF IInv
    <2>3. ASSUME NEW bytes \in {StageBytes, PciBytes, StorageBytes, ContextBytes},
                 ~loading
          PROVE  Fits(bytes)
      <3>1. PICK need \in Nat : Heap!Needed(bytes) = need /\ need <= StageRoom
        BY RoomLemma DEF StageRoom, PciRoom, StorageRoom, ContextRoom
      <3>2. n + need <= HeapLimit - HeapBase
        BY <2>2, <3>1 DEF StageRoom, HeapLimit, HeapBase
      <3> QED
        BY <2>2, <2>3, <3>1, <3>2, FitsLemma
    <2> QED
      BY <2>2, <2>3 DEF HeapSuffices
  <1>2. CASE pc \notin First \cup Late
    BY <1>2, LoadsLemma DEF HeapSuffices, First, Late, Scan, InApp, LoadPoints
  <1> QED
    BY <1>1, <1>2

(* What the steps that leave the heap alone do: no request is granted, and *)
(* what may be taken does not shrink.                                      *)
LEMMA QuietLemma ==
  ASSUME IInv, pc \in First \cup Late, UNCHANGED <<free, live, loading>>,
         \A n : Taken(n) => Taken(n)'
  PROVE  HeapInv'
PROOF
  <1>1. PICK n : StackAt(n)
    BY DEF IInv, HeapInv
  <1>2. StackAt(n)'
    BY <1>1 DEF StackAt
  <1> QED
    BY <1>2 DEF HeapInv

LEMMA ExportLemma ==
  ASSUME IInv, NEW from \in {"pci", "storage", "pci_again"}, NEW to,
         NEW bytes \in {PciBytes, StorageBytes}, Export(from, to, bytes),
         \A n : Taken(n) => Taken(n + Heap!Needed(bytes))'
  PROVE  HeapInv'
PROOF
  <1>1. pc = from /\ pc \in Late /\ loading' = loading
    BY DEF Export, Late, Scan
  <1>2. PICK n : StackAt(n)
    BY <1>1 DEF IInv, HeapInv
  <1>3. /\ n \in Nat /\ n + StageRoom + 2 <= HeapLimit - HeapBase
        /\ ~loading /\ free = FreeFrom(n)
    BY <1>1, <1>2, StackLemma DEF IInv
  <1>4. PICK need \in Nat : Heap!Needed(bytes) = need /\ need <= StageRoom
    BY RoomLemma DEF StageRoom, PciRoom, StorageRoom
  <1>5. n + need + 2 <= HeapLimit - HeapBase
    BY <1>3, <1>4 DEF StageRoom, HeapLimit, HeapBase
  <1>6. Fits(bytes)
    BY <1>3, <1>4, <1>5, FitsLemma DEF HeapLimit, HeapBase
  <1>7. Heap!Alloc(bytes)
    BY <1>6 DEF Export
  <1>8. /\ free' = FreeFrom(n + need)
        /\ live' = live \cup {[at |-> HeapBase + n, size |-> need, want |-> bytes]}
    BY <1>3, <1>4, <1>5, <1>7, AllocLemma
  <1>9. bytes # StageBytes
    BY SMT DEF PciBytes, StorageBytes, StageBytes
  <1>10. StackAt(n + need)'
    BY <1>1, <1>2, <1>3, <1>4, <1>8, <1>9 DEF StackAt
  <1> QED
    BY <1>10 DEF HeapInv

(* Every step keeps the heap a stack.                                      *)
LEMMA HeapNext == IInv /\ [Next]_vars => HeapInv'
PROOF
  <1> SUFFICES ASSUME IInv, [Next]_vars PROVE HeapInv'
    OBVIOUS
  <1>0. RefuseLoad \/ EndLoad => LoadEnds
    BY LoadEndsLemma DEF IInv
  <1> USE DEF First, Late, Scan, InApp, Ended, LoadPoints
  <1>1. CASE FirstStage
    <2>1. /\ pc' = "load_stage2" /\ free' = FreeFrom(0) /\ live' = {}
          /\ ~loading'
      BY <1>1 DEF FirstStage, InstallTable, FreeFrom, HeapBase,
           HeapLimit, IInv, TypeInv
    <2>2. StackAt(0)'
      BY <2>1 DEF StackAt, Taken
    <2> QED
      BY <2>2 DEF HeapInv
  <1>2. CASE Stage2
    <2>1. CASE UNCHANGED heap
      <3>1. pc \in First /\ pc' \in First /\ UNCHANGED <<free, live, loading>>
        BY <1>2, <2>1 DEF Stage2, heap
      <3>2. \A n : Taken(n) => Taken(n)'
        BY <3>1 DEF Taken
      <3> QED
        BY <3>1, <3>2, QuietLemma
    <2>2. CASE InstallTable({"shadow"})
      <3>1. /\ pc' \in {"load_dsdt", "load_stage3"} /\ free' = FreeFrom(0) /\ live' = {}
            /\ ~loading'
        BY <1>2, <2>2 DEF Stage2, InstallTable, FreeFrom, HeapBase,
           HeapLimit, IInv, TypeInv
      <3>2. StackAt(0)'
        BY <3>1 DEF StackAt, Taken
      <3> QED
        BY <3>2 DEF HeapInv
    <2> QED
      BY <1>2, <2>1, <2>2 DEF Stage2, heap
  <1>3. CASE RefuseLoad
    <2>1. pc \in First \cup Late /\ UNCHANGED <<free, live, loading>>
      BY <1>0, <1>3 DEF LoadEnds, RefuseLoad, heap, IInv, TypeInv
    <2>2. \A n : Taken(n) => Taken(n)'
      BY <1>0, <1>3 DEF LoadEnds, RefuseLoad, Taken, Exported, Earlier, PciRoom, StorageRoom,
         ContextRoom, IInv, TypeInv
    <2> QED
      BY <2>1, <2>2, QuietLemma
  <1>4. CASE PollKey
    <2>1. pc \in First \cup Late /\ UNCHANGED <<free, live, loading>>
      BY <1>4 DEF PollKey, heap, IInv, TypeInv
    <2>2. \A n : Taken(n) => Taken(n)'
      BY <1>4 DEF PollKey, stage3, Taken, Exported, Earlier, PciRoom, StorageRoom,
         ContextRoom, IInv, TypeInv
    <2> QED
      BY <2>1, <2>2, QuietLemma
  <1>5. CASE Stage3
    <2>1. pc \in First \cup Late /\ UNCHANGED <<free, live, loading>>
      BY <1>5 DEF Stage3, heap, IInv, TypeInv
    <2>2. \A n : Taken(n) => Taken(n)'
      BY <1>5 DEF Stage3, Taken, Exported, Earlier, PciRoom, StorageRoom,
         ContextRoom, IInv, TypeInv
    <2> QED
      BY <2>1, <2>2, QuietLemma
  <1>6. CASE ChooseSelftest
    <2>1. pc \in First \cup Late /\ UNCHANGED <<free, live, loading>>
      BY <1>6 DEF ChooseSelftest, heap, IInv, TypeInv
    <2>2. \A n : Taken(n) => Taken(n)'
      BY <1>6 DEF ChooseSelftest, Taken, Exported, Earlier, PciRoom, StorageRoom,
         ContextRoom, IInv, TypeInv
    <2> QED
      BY <2>1, <2>2, QuietLemma
  <1>7. CASE ChooseBoot
    <2>1. pc \in First \cup Late /\ UNCHANGED <<free, live, loading>>
      BY <1>7 DEF ChooseBoot, heap, IInv, TypeInv
    <2>2. \A n : Taken(n) => Taken(n)'
      BY <1>7 DEF ChooseBoot, Taken, Exported, Earlier, PciRoom, StorageRoom,
         ContextRoom, IInv, TypeInv
    <2> QED
      BY <2>1, <2>2, QuietLemma
  <1>8. CASE Edit
    <2>1. pc \in First \cup Late /\ UNCHANGED <<free, live, loading>>
      BY <1>8 DEF Edit, heap, IInv, TypeInv
    <2>2. \A n : Taken(n) => Taken(n)'
      BY <1>8 DEF Edit, Taken, Exported, Earlier, PciRoom, StorageRoom,
         ContextRoom, IInv, TypeInv
    <2> QED
      BY <2>1, <2>2, QuietLemma
  <1>9. CASE Quit
    <2>1. pc \in First \cup Late /\ UNCHANGED <<free, live, loading>>
      BY <1>9 DEF Quit, heap, IInv, TypeInv
    <2>2. \A n : Taken(n) => Taken(n)'
      BY <1>9 DEF Quit, Taken, Exported, Earlier, PciRoom, StorageRoom,
         ContextRoom, IInv, TypeInv
    <2> QED
      BY <2>1, <2>2, QuietLemma
  <1>10. CASE RefuseApp
    <2>1. pc \in First \cup Late /\ UNCHANGED <<free, live, loading>>
      BY <1>10 DEF RefuseApp, heap, IInv, TypeInv
    <2>2. \A n : Taken(n) => Taken(n)'
      BY <1>10 DEF RefuseApp, Taken, Exported, Earlier, PciRoom, StorageRoom,
         ContextRoom, IInv, TypeInv
    <2> QED
      BY <2>1, <2>2, QuietLemma
  <1>11. CASE RunLinux
    <2>1. pc \in First \cup Late /\ UNCHANGED <<free, live, loading>>
      BY <1>11 DEF RunLinux, heap, IInv, TypeInv
    <2>2. \A n : Taken(n) => Taken(n)'
      BY <1>11 DEF RunLinux, BootsFrom, Taken, Exported, Earlier, PciRoom, StorageRoom,
         ContextRoom, IInv, TypeInv
    <2> QED
      BY <2>1, <2>2, QuietLemma
  <1>12. CASE RunLegacy
    <2>1. pc \in First \cup Late /\ UNCHANGED <<free, live, loading>>
      BY <1>12 DEF RunLegacy, heap, IInv, TypeInv
    <2>2. \A n : Taken(n) => Taken(n)'
      BY <1>12 DEF RunLegacy, BootsFrom, Taken, Exported, Earlier, PciRoom, StorageRoom,
         ContextRoom, IInv, TypeInv
    <2> QED
      BY <2>1, <2>2, QuietLemma
  <1>13. CASE RunSelftest
    <2>1. pc \in First \cup Late /\ UNCHANGED <<free, live, loading>>
      BY <1>13 DEF RunSelftest, heap, IInv, TypeInv
    <2>2. \A n : Taken(n) => Taken(n)'
      BY <1>13 DEF RunSelftest, Taken, Exported, Earlier, PciRoom, StorageRoom,
         ContextRoom, IInv, TypeInv
    <2> QED
      BY <2>1, <2>2, QuietLemma
  <1>14. CASE Returned
    <2>1. pc \in First \cup Late /\ UNCHANGED <<free, live, loading>>
      BY <1>14 DEF Returned, heap, IInv, TypeInv
    <2>2. \A n : Taken(n) => Taken(n)'
      BY <1>14 DEF Returned, Taken, Exported, Earlier, PciRoom, StorageRoom,
         ContextRoom, IInv, TypeInv
    <2> QED
      BY <2>1, <2>2, QuietLemma
  <1>15. CASE StartLoad
    <2>1. pc \in LoadPoints /\ ~loading /\ loading' /\ pc' = pc /\ app' = app
      BY <1>15, LoadsLemma DEF StartLoad, stage3
    <2>2. PICK n : StackAt(n)
      BY <2>1 DEF IInv, HeapInv
    <2>3. /\ n \in Nat /\ n + StageRoom + 2 <= HeapLimit - HeapBase
          /\ free = FreeFrom(n)
      BY <2>1, <2>2, StackLemma DEF IInv
    <2>4. Heap!Alloc(StageBytes) /\ StageRoom \in Nat
      BY <1>15 DEF StartLoad, StageRoom
    <2>5. free' = FreeFrom(n + StageRoom) /\ live' = live \cup {Stage(n)}
      BY <2>3, <2>4, RoomLemma, AllocLemma DEF Stage
    <2>6. Taken(n)'
      BY <2>1, <2>2 DEF StackAt, Taken, Exported, Earlier
    <2>7. \A b \in live' : b.want = StageBytes => b = Stage(n)
      BY <2>1, <2>2, <2>5 DEF StackAt
    <2>8. StackAt(n)'
      BY <2>1, <2>5, <2>6, <2>7 DEF StackAt
    <2> QED
      BY <2>8 DEF HeapInv
  <1>16. CASE EndLoad
    <2>1. pc \in LoadPoints /\ loading /\ ~loading' /\ app' = app
      BY <1>0, <1>16 DEF EndLoad, LoadEnds
    <2>2. PICK n : StackAt(n)
      BY <2>1 DEF IInv, HeapInv
    <2>3. /\ n \in Nat /\ n + StageRoom + 2 <= HeapLimit - HeapBase
          /\ free = FreeFrom(n + StageRoom)
      BY <2>1, <2>2, StackLemma DEF IInv
    <2>4. Heap!Free(Stage(n))
      BY <1>16, <2>2 DEF EndLoad, StackAt
    <2>5. free' = FreeFrom(n) /\ live' = live \ {Stage(n)}
      BY <2>3, <2>4, FreeLemma
    <2>6. CASE pc' \in Ended
      BY <2>6 DEF HeapInv
    <2>7. CASE pc' \notin Ended
      <3>1. Taken(n)'
        BY <1>0, <1>16, <2>1, <2>2, <2>7
           DEF StackAt, Taken, LoadEnds, Exported, Earlier, IInv, TypeInv
      <3>2. StackAt(n)'
        BY <2>1, <2>2, <2>5, <3>1 DEF StackAt
      <3> QED
        BY <3>2 DEF HeapInv
    <2> QED
      BY <2>6, <2>7
  <1>17. CASE PciSnapshot
    <2>1. Export("pci", "storage", PciBytes)
      BY <1>17 DEF PciSnapshot
    <2>2. \A n : Taken(n) => Taken(n + PciRoom)'
      BY <2>1 DEF Export, Taken, PciRoom
    <2> QED
      BY <2>1, <2>2, RoomLemma, ExportLemma
  <1>18. CASE StorageSnapshot
    <2>1. Export("storage", "pci_again", StorageBytes)
      BY <1>18 DEF StorageSnapshot
    <2>2. \A n : Taken(n) => Taken(n + StorageRoom)'
      BY <2>1 DEF Export, Taken, PciRoom, StorageRoom
    <2> QED
      BY <2>1, <2>2, RoomLemma, ExportLemma
  <1>19. CASE PciSnapshotAgain
    <2>1. Export("pci_again", "choose", PciBytes)
      BY <1>19 DEF PciSnapshotAgain
    <2>2. \A n : Taken(n) => Taken(n + PciRoom)'
      BY <2>1 DEF Export, Taken, PciRoom, StorageRoom, Exported
    <2> QED
      BY <2>1, <2>2, RoomLemma, ExportLemma
  <1>20. CASE StartApp
    <2>1. /\ pc = "start" /\ pc' = "load_app" /\ loading' = loading
          /\ app' = app /\ Heap!Alloc(ContextBytes) /\ ContextRoom \in Nat
      BY <1>20 DEF StartApp, ContextRoom
    <2>2. PICK n : StackAt(n)
      BY <2>1 DEF IInv, HeapInv
    <2>3. /\ n \in Nat /\ n + StageRoom + 2 <= HeapLimit - HeapBase
          /\ ~loading /\ free = FreeFrom(n)
      BY <2>1, <2>2, StackLemma DEF IInv
    <2>4. n + ContextRoom + 2 <= HeapLimit - HeapBase
      BY <2>3 DEF StageRoom, ContextRoom, HeapLimit, HeapBase
    <2>5. /\ free' = FreeFrom(n + ContextRoom)
          /\ live' = live \cup {[at |-> HeapBase + n, size |-> ContextRoom,
                                 want |-> ContextBytes]}
      BY <2>1, <2>3, <2>4, RoomLemma, AllocLemma
    <2>6. Taken(n + ContextRoom)'
      <3>1. n \in Nat /\ n <= Exported + Earlier /\ Earlier' = Earlier
        BY <2>1, <2>2 DEF StackAt, Taken, Earlier
      <3>2. Exported \in Nat /\ Earlier \in Nat /\ ContextRoom \in Nat
        BY DEF Exported, Earlier, PciRoom, StorageRoom, ContextRoom
      <3> QED
        BY <2>1, <3>1, <3>2 DEF Taken
    <2>7. ContextBytes # StageBytes
      BY SMT DEF ContextBytes, StageBytes
    <2>8. StackAt(n + ContextRoom)'
      BY <2>1, <2>2, <2>3, <2>5, <2>6, <2>7 DEF StackAt
    <2> QED
      BY <2>8 DEF HeapInv
  <1>21. CASE Reset
    BY <1>21 DEF Reset, HeapInv
  <1>22. CASE UNCHANGED vars
    <2>1. CASE pc \in First \cup Late
      <3>1. UNCHANGED <<pc, app, free, live, loading>>
        BY <1>22 DEF vars, heap, stage3
      <3>2. \A n : Taken(n) => Taken(n)'
        BY <3>1 DEF Taken, Exported, Earlier
      <3> QED
        BY <2>1, <3>1, <3>2, QuietLemma
    <2>2. CASE pc \notin First \cup Late
      BY <1>22, <2>2 DEF vars, HeapInv
    <2> QED
      BY <2>1, <2>2
  <1> QED
    BY <1>1, <1>2, <1>3, <1>4, <1>5, <1>6, <1>7, <1>8, <1>9, <1>10, <1>11, <1>12, <1>13, <1>14, <1>15, <1>16, <1>17, <1>18, <1>19, <1>20, <1>21, <1>22 DEF Next, Boot

(* The invariant holds throughout.                                         *)
LEMMA Inductive == Spec => []IInv
PROOF
  <1>1. IInv /\ [Next]_vars => IInv'
    BY TypeNext, MaintNext, PrioNext, HeapNext DEF IInv
  <1> QED
    BY InitLemma, <1>1, PTL DEF Spec

-----------------------------------------------------------------------------
(* HeapSuffices: in every boot, whatever the ROM has, whatever fails and    *)
(* falls back, each request that is made finds a block, although stage 3   *)
(* gives neither snapshots nor contexts back.                              *)
THEOREM EveryRequestFits == Spec => []HeapSuffices
PROOF
  BY Inductive, SufficesLemma, PTL

(* MaintenanceHonoured: a request noted in the table that stage 3 finds    *)
(* leads to the prompt before Linux or legacy starts, for every number of  *)
(* resets, keys and failures.                                              *)
THEOREM PromptComes == Spec => []MaintenanceHonoured
PROOF
  <1>1. IInv => MaintenanceHonoured
    BY DEF IInv, MaintInv
  <1> QED
    BY Inductive, <1>1, PTL

(* A stored priority changes only at the prompt, unless it is AUTO.        *)
LEMMA StepKeepsPrio ==
  IInv /\ [Next]_vars /\ cmos.prio # PrioAuto /\ cmos'.prio # cmos.prio
    => pc = "prompt"
PROOF
  <1> SUFFICES ASSUME IInv, [Next]_vars, cmos.prio # PrioAuto,
                      cmos'.prio # cmos.prio
               PROVE  pc = "prompt"
    OBVIOUS
  <1> USE DEF machine
  <1>1. CASE ChooseSelftest
    BY <1>1 DEF ChooseSelftest, IInv, TypeInv, Stored
  <1>2. CASE Edit
    BY <1>2 DEF Edit
  <1>3. CASE RunLinux \/ RunLegacy
    <2>1. ctx.prio = cmos.prio \/ ~nvram
      BY <1>3 DEF RunLinux, RunLegacy, IInv, PrioInv, Late, InApp
    <2>2. cmos' = cmos
      BY <1>3, <2>1 DEF RunLinux, RunLegacy, BootsFrom
    <2> QED
      BY <2>2
  <1>4. CASE \/ FirstStage \/ Stage2 \/ StartLoad \/ RefuseLoad \/ EndLoad
             \/ PollKey \/ Stage3
    BY <1>4 DEF FirstStage, Stage2, StartLoad, RefuseLoad, EndLoad, PollKey, Stage3
  <1>5. CASE \/ PciSnapshot \/ StorageSnapshot \/ PciSnapshotAgain
             \/ ChooseBoot \/ Quit
    BY <1>5 DEF PciSnapshot, StorageSnapshot, PciSnapshotAgain, Export,
                ChooseBoot, Quit
  <1>6. CASE StartApp \/ RefuseApp \/ RunSelftest \/ Returned \/ Reset
    BY <1>6 DEF StartApp, RefuseApp, RunSelftest, Returned, Reset
  <1>7. CASE UNCHANGED vars
    BY <1>7 DEF vars
  <1> QED
    BY <1>1, <1>2, <1>3, <1>4, <1>5, <1>6, <1>7 DEF Next, Boot

(* NeverRelearned: an app never overwrites a priority that is set, also    *)
(* when it was set at the prompt of the same boot.                         *)
THEOREM SetPriorityStays == Spec => NeverRelearned
PROOF
  <1>1. IInv /\ [Next]_vars
          => [cmos.prio # PrioAuto /\ cmos'.prio # cmos.prio => pc = "prompt"]_vars
    BY StepKeepsPrio
  <1> QED
    BY Inductive, <1>1, PTL DEF Spec, NeverRelearned
-----------------------------------------------------------------------------
(* What the bring-up of the memory leads to, for every module it accepts,  *)
(* what the memory test then overwrites, and the memory map that programs  *)
(* are told, for every amount of memory.                                   *)
LEMMA Powers ==
  /\ Bit[0] = 1 /\ Bit[1] = 2 /\ Bit[2] = 4 /\ Bit[3] = 8
  /\ Bit[4] = 16 /\ Bit[5] = 32 /\ Bit[6] = 64 /\ Bit[7] = 128
  /\ Bit[8] = 256 /\ Bit[9] = 512 /\ Bit[10] = 1024 /\ Bit[11] = 2048
  /\ Bit[12] = 4096 /\ Bit[13] = 8192 /\ Bit[14] = 16384 /\ Bit[15] = 32768
  /\ Bit[16] = 65536 /\ Bit[17] = 131072 /\ Bit[18] = 262144 /\ Bit[19] = 524288
  /\ Bit[20] = 1048576 /\ Bit[21] = 2097152 /\ Bit[22] = 4194304 /\ Bit[23] = 8388608
  /\ Bit[24] = 16777216 /\ Bit[25] = 33554432 /\ Bit[26] = 67108864 /\ Bit[27] = 134217728
  /\ Bit[28] = 268435456 /\ Bit[29] = 536870912 /\ Bit[30] = 1073741824 /\ Bit[31] = 2147483648
PROOF
  BY SMT DEF Bit

(* The accepted rows have 16 to 256 MB each, a power of two.               *)
LEMMA RowSizes ==
  ASSUME NEW spd, NEW slot, Accepted(spd, slot)
  PROVE  /\ DrbVal(spd) \in {2, 4, 8, 16, 32}
         /\ RowBytes(spd) = DrbVal(spd) * 8 * MB
         /\ Sides(spd) \in {1, 2}
         /\ StartRow(slot) \in {0, 2, 4}
         /\ PageBytes(spd) \in {2048, 4096, 8192}
PROOF
  <1>1. /\ Width(spd) = 64 /\ Banks(spd) = 4
        /\ RowBits(spd) \in {11, 12, 13} /\ ColBits(spd) \in {8, 9, 10, 11}
        /\ Sides(spd) \in {1, 2} /\ StartRow(slot) \in {0, 2, 4}
        /\ PageBytes(spd) \in {2048, 4096, 8192}
    BY DEF Accepted, StartRow
  <1>2. PageBytes(spd) = (Bit[ColBits(spd)] * 64) \div 8
    BY <1>1 DEF PageBytes
  <1>3. ColBits(spd) \in {8, 9, 10}
    BY <1>1, <1>2, Powers
  <1>4. RowBytes(spd) \in {16 * MB, 32 * MB, 64 * MB, 128 * MB, 256 * MB}
    BY <1>1, <1>3, Powers, SMT DEF RowBytes, MB
  <1>5. DrbVal(spd) \in {2, 4, 8, 16, 32} /\ RowBytes(spd) = DrbVal(spd) * 8 * MB
    BY <1>4, SMT DEF DrbVal, MB
  <1> QED
    BY <1>1, <1>5

(* dram_init_from_spd: a row that is populated answers for as many bytes   *)
(* as it has, with its page size in RPS, an empty one for none, and the    *)
(* boundaries end with the memory that the later stages are told of; none  *)
(* of them is cut to eight bits.                                           *)
THEOREM BoundariesFit ==
  ASSUME NEW spd, NEW slot, Accepted(spd, slot)
  PROVE  /\ \A row \in Rows :
              /\ RowEnd(spd, slot, row) - RowBase(spd, slot, row)
                   = IF Populated(spd, slot, row) THEN RowBytes(spd) ELSE 0
              /\ Populated(spd, slot, row) => 2048 * Bit[Rps(spd, slot, row)] = PageBytes(spd)
         /\ RowEnd(spd, slot, 7) = TotalBytes(spd)
PROOF
  <1> DEFINE d     == DrbVal(spd)
             sides == Sides(spd)
             start == StartRow(slot)
  <1>1. /\ d \in {2, 4, 8, 16, 32} /\ RowBytes(spd) = d * 8 * MB
        /\ sides \in {1, 2} /\ start \in {0, 2, 4}
        /\ EndRow(spd, slot) = start + sides
    BY RowSizes DEF EndRow
  <1>2. \A row \in Rows :
          Drb(spd, slot, row) = IF row < start THEN 0 ELSE IF row = start THEN d ELSE sides * d
    <2> HIDE DEF d, sides, start
    <2>1. TAKE row \in Rows
    <2>2. CASE row < start
      BY <2>2 DEF Drb, start
    <2>3. CASE row = start
      <3>1. Drb(spd, slot, row) = (1 * d) % 256
        BY <1>1, <2>3 DEF Drb, Rows, start, d
      <3>2. (1 * d) % 256 = d /\ ~(row < start)
        BY <1>1, <2>3
      <3> QED
        BY <2>3, <3>1, <3>2
    <2>4. CASE row > start
      <3>1. Drb(spd, slot, row) = (sides * d) % 256
        BY <1>1, <2>4 DEF Drb, Rows, start, d, sides
      <3>2. (sides * d) % 256 = sides * d
        BY <1>1
      <3>3. ~(row < start) /\ row # start
        BY <1>1, <2>4 DEF Rows
      <3> QED
        BY <3>1, <3>2, <3>3
    <2> QED
      BY <1>1, <2>2, <2>3, <2>4 DEF Rows
  <1>3. ASSUME NEW row \in Rows
        PROVE  /\ RowEnd(spd, slot, row) - RowBase(spd, slot, row)
                    = IF Populated(spd, slot, row) THEN RowBytes(spd) ELSE 0
               /\ Populated(spd, slot, row) => 2048 * Bit[Rps(spd, slot, row)] = PageBytes(spd)
    <2>1. Populated(spd, slot, row) <=> (row = start \/ (sides = 2 /\ row = start + 1))
      BY <1>1 DEF Populated, Rows
    <2>2. row # 0 => row - 1 \in Rows
      BY DEF Rows
    <2>3. Populated(spd, slot, row) => 2048 * Bit[Rps(spd, slot, row)] = PageBytes(spd)
      <3>1. Bit[0] = 1 /\ Bit[1] = 2 /\ Bit[2] = 4
        BY SMT DEF Bit
      <3> QED
        BY <3>1, RowSizes DEF Rps
    <2>4. RowEnd(spd, slot, row) - RowBase(spd, slot, row)
            = IF Populated(spd, slot, row) THEN RowBytes(spd) ELSE 0
      <3> HIDE DEF d, sides, start
      <3>1. RowEnd(spd, slot, row) = (IF row < start THEN 0 ELSE IF row = start THEN d ELSE sides * d) * 8 * MB
        BY <1>2 DEF RowEnd
      <3>2. RowBase(spd, slot, row) = (IF row <= start THEN 0 ELSE IF row = start + 1 THEN d ELSE sides * d) * 8 * MB
        BY <1>1, <1>2, <2>2, SMT DEF RowBase, Rows, MB
      <3> QED
        BY <1>1, <2>1, <3>1, <3>2, SMT DEF Rows, MB
    <2> QED
      BY <2>3, <2>4
  <1>4. RowEnd(spd, slot, 7) = TotalBytes(spd)
    <2> HIDE DEF d, sides, start
    <2>1. Drb(spd, slot, 7) = sides * d
      BY <1>1, <1>2 DEF Rows
    <2> QED
      BY <1>1, <2>1, SMT DEF RowEnd, TotalBytes, sides, MB
  <1> QED
    BY <1>3, <1>4

(* dram_init_from_spd: every access that makes the chipset send a command  *)
(* to the memory, the mode among them, is to the first row of the module;  *)
(* where it has a second one, no command is sent by an access to that.     *)
THEOREM CommandsToFirstRow ==
  ASSUME NEW spd, NEW slot, Accepted(spd, slot)
  PROVE  \A n \in 1 .. 11 : InRow(spd, slot, StartRow(slot), CommandAddress(spd, slot, n))
PROOF
  <1> DEFINE start == StartRow(slot)
  <1>1. start \in {0, 2, 4} /\ start \in Rows /\ Populated(spd, slot, start)
    BY RowSizes DEF Populated, EndRow, Rows
  <1>2. RowBase(spd, slot, start) = 0
    BY <1>1, SMT DEF RowBase, Drb, MB
  <1>3. RowBytes(spd) >= 16 * MB /\ RowBytes(spd) \in Nat
    BY RowSizes, SMT DEF MB
  <1>4. RowEnd(spd, slot, start) \in Int
    <2>1. Drb(spd, slot, start) \in Int
      BY <1>1, RowSizes DEF Drb, Populated
    <2> QED
      BY <2>1, SMT DEF RowEnd, MB
  <1>5. RowEnd(spd, slot, start) >= 16 * MB
    BY <1>1, <1>2, <1>3, <1>4, BoundariesFit, SMT DEF MB
  <1>6. ASSUME NEW n \in 1 .. 11
        PROVE  InRow(spd, slot, start, CommandAddress(spd, slot, n))
    <2> HIDE DEF start
    <2> QED
      BY <1>2, <1>4, <1>5, SMT DEF CommandAddress, ModeAddress, InRow, MB
  <1> QED
    BY <1>6

(* dram_mtrr_mask: the one range that is cached is all of the memory.      *)
THEOREM CachedWhole ==
  ASSUME NEW spd, NEW slot, Accepted(spd, slot)
  PROVE  WriteBack(TotalBytes(spd)) = 0 .. TotalBytes(spd) - 1
PROOF
  <1> DEFINE total == TotalBytes(spd)
             n == CHOOSE n \in 0 .. 31 : Bit[n] <= total /\ total < 2 * Bit[n]
  <1>1. total \in {16 * MB, 32 * MB, 64 * MB, 128 * MB, 256 * MB, 512 * MB}
    BY RowSizes, SMT DEF TotalBytes, MB
  <1>2. /\ Bit[24] = 16 * MB /\ Bit[25] = 32 * MB /\ Bit[26] = 64 * MB
        /\ Bit[27] = 128 * MB /\ Bit[28] = 256 * MB /\ Bit[29] = 512 * MB
    BY Powers, SMT DEF MB
  <1>3. \A k \in 0 .. 31 : Bit[k] <= total /\ total < 2 * Bit[k] => Bit[k] = total
    <2> HIDE DEF total
    <2>1. TAKE k \in 0 .. 31
    <2>2. CASE k < 24
      <3>1. Bit[k] \in Nat /\ Bit[k] <= 8 * MB
        BY <2>2, Powers, SMT DEF MB
      <3> QED
        BY <1>1, <3>1, SMT DEF MB
    <2>3. CASE k > 29
      <3>1. Bit[k] \in Nat /\ Bit[k] >= 1024 * MB
        BY <2>3, Powers, SMT DEF MB
      <3> QED
        BY <1>1, <3>1, SMT DEF MB
    <2>4. CASE k \in {24, 25, 26, 27, 28, 29}
      BY <1>1, <1>2, <2>4, SMT DEF MB
    <2> QED
      BY <2>2, <2>3, <2>4
  <1>4. \E k \in 0 .. 31 : Bit[k] <= total /\ total < 2 * Bit[k]
    <2> HIDE DEF total
    <2>1. \E k \in 24 .. 29 : Bit[k] = total
      BY <1>1, <1>2, SMT
    <2> QED
      BY <1>1, <2>1, SMT DEF MB
  <1>5. n \in 0 .. 31 /\ Bit[n] <= total /\ total < 2 * Bit[n]
    BY <1>4
  <1>6. Bit[n] = total
    <2> HIDE DEF n
    <2> QED
      BY <1>3, <1>5
  <1> QED
    BY <1>6 DEF WriteBack, LargestPowerOfTwo

(* dram_stack_top, shared_table_base_from_total: with the memory of every  *)
(* accepted module the stack of the stages ends at the shared table, which *)
(* ends with the memory and holds the slot of the pointer to itself, and a *)
(* megabyte less the table lies between what programs get and its top.     *)
THEOREM StackApart ==
  ASSUME NEW spd, NEW slot, Accepted(spd, slot)
  PROVE  LET total == TotalBytes(spd) IN
         /\ StackTop(total) = TableBase(total)
         /\ TableBase(total) + TableBytes = total
         /\ TableBase(total) <= PointerSlot(total) /\ PointerSlot(total) + 4 = total
         /\ StackTop(total) - UsableEnd(total) = MB - TableBytes
PROOF
  <1> DEFINE total == TotalBytes(spd)
  <1>1. total \in {16 * MB, 32 * MB, 64 * MB, 128 * MB, 256 * MB, 512 * MB}
    BY RowSizes, SMT DEF TotalBytes, MB
  <1> HIDE DEF total
  <1>2. TableBase(total) = total - TableBytes /\ PointerSlot(total) = total - 4
    BY <1>1, SMT DEF TableBase, PointerSlot, TableBytes, MB
  <1>3. UsableEnd(total) = total - MB
    BY <1>1, SMT DEF UsableEnd, TopReservedBase, MB
  <1>4. StackTop(total) = TableBase(total)
    BY <1>1, SMT DEF StackTop, MB
  <1> QED
    BY <1>1, <1>2, <1>3, <1>4, SMT DEF TableBytes, MB, total

(* c_entry: whatever the reads of the SMBus bring, stage 1.5 is entered    *)
(* with one module, and what it is told is the memory that the rows of     *)
(* that module answer for, all of it cached, with a stack in its last      *)
(* megabyte.                                                               *)
THEOREM EnteredWithOneModule ==
  ASSUME NEW bus, NEW slot, Enters(bus, slot)
  PROVE  LET spd == Spd(bus, slot) IN
         /\ \A other : Enters(bus, other) => other = slot
         /\ Handed(spd).total = RowEnd(spd, slot, 7)
         /\ Handed(spd).writeBack = 0 .. RowEnd(spd, slot, 7) - 1
         /\ Handed(spd).stack = RowEnd(spd, slot, 7) - TableBytes
PROOF
  <1> DEFINE spd == Spd(bus, slot)
  <1>1. Accepted(spd, slot) /\ Found(bus, slot)
    BY DEF Enters
  <1>2. \A other : Enters(bus, other) => other = slot
    BY <1>1 DEF Enters, Found, Slots
  <1> HIDE DEF spd
  <1>3. RowEnd(spd, slot, 7) = TotalBytes(spd)
    BY <1>1, BoundariesFit
  <1>4. WriteBack(TotalBytes(spd)) = 0 .. TotalBytes(spd) - 1
    BY <1>1, CachedWhole
  <1>5. StackTop(TotalBytes(spd)) = TotalBytes(spd) - TableBytes
    <2>1. TotalBytes(spd) \in {16 * MB, 32 * MB, 64 * MB, 128 * MB, 256 * MB, 512 * MB}
      BY <1>1, RowSizes, SMT DEF TotalBytes, MB
    <2> QED
      BY <2>1, SMT DEF StackTop, TableBase, TableBytes, MB
  <1> QED
    BY <1>2, <1>3, <1>4, <1>5 DEF Handed, spd

(* bios_memtest_run_optional: where the services are below 1 MB the test   *)
(* overwrites only memory that programs get: no service, no byte of the    *)
(* shared table and none of the stack.                                     *)
THEOREM MemtestSpares ==
  ASSUME NEW spd, NEW slot, Accepted(spd, slot),
         NEW base \in Nat, NEW size \in Nat, base + size <= MB, NEW enable \in BOOLEAN
  PROVE  LET total == TotalBytes(spd) IN
         \A byte \in Overwritten(enable, Installed(total, base, size), total) :
           MB <= byte /\ byte < UsableEnd(total)
PROOF
  <1> DEFINE total == TotalBytes(spd)
             tested == Tested(Installed(total, base, size), total)
  <1>1. UsableEnd(total) \in Int
    BY RowSizes, SMT DEF TotalBytes, UsableEnd, TopReservedBase, MB
  <1>2. \A addr \in tested : addr \in Int /\ MB <= addr /\ addr <= UsableEnd(total) - 4
    <2> HIDE DEF total
    <2> QED
      BY <1>1, SMT DEF Tested, MB
  <1> HIDE DEF total
  <1>3. ASSUME NEW byte \in Overwritten(enable, Installed(total, base, size), total)
        PROVE  MB <= byte /\ byte < UsableEnd(total)
    <2>1. PICK addr \in tested : byte \in Int /\ addr <= byte /\ byte < addr + 4
      BY <1>3, SMT DEF Overwritten
    <2> HIDE DEF tested
    <2> QED
      BY <1>1, <1>2, <2>1, SMT DEF MB
  <1> QED
    BY <1>3 DEF total

(* stage3.c runs bios_memtest_run_optional from where the test writes:     *)
(* with the setting on, whatever module is fitted, it overwrites all of    *)
(* the stage that is executing it.                                         *)
THEOREM MemtestOverwritesStage3 ==
  ASSUME NEW spd, NEW slot, Accepted(spd, slot),
         NEW base \in Nat, NEW size \in Nat, base + size <= MB
  PROVE  LET total == TotalBytes(spd) IN
         Stage3Image \subseteq Overwritten(TRUE, Installed(total, base, size), total)
PROOF
  <1> DEFINE total   == TotalBytes(spd)
             service == Installed(total, base, size)
  <1>1. /\ total \in Int /\ total >= 16 * MB
        /\ UsableEnd(total) = total - MB /\ TableBase(total) = total - 16384
    <2>1. total \in {16 * MB, 32 * MB, 64 * MB, 128 * MB, 256 * MB, 512 * MB}
      BY RowSizes, SMT DEF TotalBytes, MB
    <2> HIDE DEF total
    <2> QED
      BY <2>1, SMT DEF UsableEnd, TopReservedBase, TableBase, TableBytes, MB
  <1> HIDE DEF total
  <1>2. ASSUME NEW byte \in Stage3Image
        PROVE  byte \in Overwritten(TRUE, service, total)
    <2> DEFINE addr == (byte \div 4) * 4
    <2>1. byte \in Nat /\ 2 * MB <= byte /\ byte < 3 * MB
      BY <1>2, SMT DEF Stage3Image, MB
    <2>2. addr \in Nat /\ addr % 4 = 0 /\ addr <= byte /\ byte < addr + 4 /\ 2 * MB <= addr
      BY <2>1, SMT DEF MB
    <2> HIDE DEF addr
    <2>3. ~InServices(service, addr) /\ ~InTable(service, addr)
      BY <1>1, <2>1, <2>2, SMT DEF InServices, InTable, Installed, Service, MB
    <2>4. addr \in Tested(service, total)
      BY <1>1, <2>1, <2>2, <2>3, SMT DEF Tested, SkipEnd, MB
    <2> HIDE DEF service
    <2> QED
      BY <1>1, <2>1, <2>2, <2>4, SMT DEF Overwritten, MB
  <1> QED
    BY <1>2 DEF total

-----------------------------------------------------------------------------
(* The reported memory map. *)

End(total, index) == Entry(total, index).base + Entry(total, index).length

Usable(total) == Entry(total, 2).usable

(* What is kept for the BIOS begins inside the memory, on a page, and at   *)
(* least a megabyte before the end where there are two.                    *)
LEMMA TopReserved ==
  ASSUME NEW total \in Nat
  PROVE  /\ TopReservedBase(total) \in Nat
         /\ TopReservedBase(total) <= total
         /\ total > MB => TopReservedBase(total) >= MB
         /\ total > 2 * MB =>
              /\ TopReservedBase(total) + MB <= total
              /\ total < TopReservedBase(total) + MB + 4096
PROOF
  <1> DEFINE q == (total - MB) \div 4096
  <1>1. CASE total <= 2 * MB
    BY <1>1 DEF TopReservedBase, MB
  <1>2. CASE total > 2 * MB
    <2>1. total - MB \in Nat /\ total - MB >= MB
      BY <1>2 DEF MB
    <2>2. q \in Nat /\ q * 4096 <= total - MB /\ total - MB < q * 4096 + 4096
      BY <2>1
    <2>3. q >= 256
      BY <2>1, <2>2 DEF MB
    <2>4. TopReservedBase(total) = q * 4096
      BY <1>2 DEF TopReservedBase, MB
    <2> QED
      BY <2>1, <2>2, <2>3, <2>4, <1>2 DEF MB
  <1> QED
    BY <1>1, <1>2 DEF MB

(* bios_memory_e820_get_entry: from 0 to the end of the memory, or of the  *)
(* first megabyte, every byte is in exactly one entry: each has a length   *)
(* and begins where the one before it ends, and every index below the      *)
(* count that int15_e820 compares with has an entry.                       *)
THEOREM MapWhole ==
  ASSUME NEW total \in Nat
  PROVE  LET last == EntryCount(total) - 1 IN
         /\ \A index \in 0 .. last :
              /\ Entry(total, index).length > 0
              /\ Entry(total, index).base = IF index = 0 THEN 0 ELSE End(total, index - 1)
         /\ End(total, last) = IF total > MB THEN total ELSE MB
PROOF
  <1>1. CASE total <= MB
    <2>1. EntryCount(total) = 2 /\ 0 .. 1 = {0, 1}
      BY <1>1 DEF EntryCount
    <2> QED
      BY <1>1, <2>1 DEF Entry, EntryAt, End, Low, MB
  <1>2. CASE total > MB /\ total <= 2 * MB
    <2>1. TopReservedBase(total) = MB /\ UsableEnd(total) = MB
      BY <1>2 DEF TopReservedBase, UsableEnd, MB
    <2>2. EntryCount(total) = 3 /\ 0 .. 2 = {0, 1, 2}
      BY <1>2, <2>1 DEF EntryCount, MB
    <2> QED
      BY <1>2, <2>1, <2>2 DEF Entry, EntryAt, End, Low, MB
  <1>3. CASE total > 2 * MB
    <2> DEFINE top == TopReservedBase(total)
    <2>1. top \in Nat /\ top <= total /\ top >= MB /\ top + MB <= total
      BY <1>3, TopReserved DEF MB
    <2>2. UsableEnd(total) = top
      BY <2>1 DEF UsableEnd
    <2>3. CASE top > MB
      <3>1. EntryCount(total) = 4 /\ 0 .. 3 = {0, 1, 2, 3}
        BY <1>3, <2>3 DEF EntryCount, MB
      <3> HIDE DEF top
      <3>2. /\ Entry(total, 0) = EntryAt(0, Low, TRUE)
            /\ Entry(total, 1) = EntryAt(Low, MB - Low, FALSE)
            /\ Entry(total, 2) = EntryAt(MB, top - MB, TRUE)
            /\ Entry(total, 3) = EntryAt(top, total - top, FALSE)
        BY <1>3, <2>1, <2>2, <2>3 DEF Entry, EntryAt, Low, MB, top
      <3> QED
        BY <1>3, <2>1, <2>3, <3>1, <3>2 DEF EntryAt, End, Low, MB
    <2>4. CASE top = MB
      <3>1. EntryCount(total) = 3 /\ 0 .. 2 = {0, 1, 2}
        BY <1>3, <2>4 DEF EntryCount, MB
      <3> QED
        BY <1>3, <2>2, <2>4, <3>1 DEF Entry, EntryAt, End, Low, MB
    <2>5. top > MB \/ top = MB
      BY <2>1 DEF MB
    <2> HIDE DEF top
    <2> QED
      BY <2>3, <2>4, <2>5
  <1> QED
    BY <1>1, <1>2, <1>3 DEF MB

(* legacy_int15_service: what INT 15h AH=88 and AX=E801 tell of memory     *)
(* above a megabyte lies in what E820 calls usable, all but its last 64 KB *)
(* at the most; where E820 has no such memory, both tell of none.          *)
THEOREM SizesAgree ==
  ASSUME NEW total \in Nat
  PROVE  /\ ~(total > MB /\ Usable(total)) =>
              Extended88(total) = 0 /\ Below16(total) = 0 /\ Above16(total) = 0
         /\ total > MB /\ Usable(total) =>
              LET end == End(total, 2) IN
              /\ MB + Extended88(total) * 1024 <= end
              /\ MB + Below16(total) * 1024 + Above16(total) * 65536 <= end
              /\ end < MB + Below16(total) * 1024 + Above16(total) * 65536 + 65536
PROOF
  <1> DEFINE end == UsableEnd(total)
  <1>1. end = TopReservedBase(total) /\ end \in Nat
    BY TopReserved DEF UsableEnd
  <1>2. CASE ~(total > MB /\ Usable(total))
    <2>1. end <= MB
      <3>1. CASE total <= MB
        BY <1>1, <3>1, TopReserved DEF MB
      <3>2. CASE total > MB
        <4>1. ~Usable(total)
          BY <1>2, <3>2
        <4> QED
          BY <1>1, <3>2, <4>1 DEF Usable, Entry, EntryAt, MB
      <3> QED
        BY <3>1, <3>2 DEF MB
    <2> QED
      BY <1>1, <1>2, <2>1 DEF Extended88, Below16, Above16, MB
  <1>3. CASE total > MB /\ Usable(total)
    <2>1. end > MB /\ End(total, 2) = end
      BY <1>1, <1>3 DEF Usable, Entry, EntryAt, End, MB
    <2>2. MB + Extended88(total) * 1024 <= end
      <3> HIDE DEF end
      <3>1. (end - MB) \div 1024 \in Nat /\ ((end - MB) \div 1024) * 1024 <= end - MB
        BY <1>1, <2>1 DEF MB
      <3>2. Extended88(total) \in Nat /\ Extended88(total) <= (end - MB) \div 1024
        BY <1>1, <2>1, <3>1 DEF Extended88, MB, end
      <3> QED
        BY <1>1, <2>1, <3>1, <3>2 DEF MB
    <2>3. CASE end <= 16 * MB
      <3> HIDE DEF end
      <3>1. Above16(total) = 0 /\ Below16(total) = (end - MB) \div 1024
        BY <1>1, <2>1, <2>3 DEF Above16, Below16, MB, end
      <3>2. /\ ((end - MB) \div 1024) * 1024 <= end - MB
            /\ end - MB < ((end - MB) \div 1024) * 1024 + 1024
        BY <1>1, <2>1 DEF MB
      <3> QED
        BY <1>1, <1>3, <2>1, <2>2, <3>1, <3>2 DEF MB
    <2>4. CASE end > 16 * MB
      <3> HIDE DEF end
      <3>1. Above16(total) = (end - 16 * MB) \div 65536 /\ Below16(total) = 15360
        BY <1>1, <2>1, <2>4 DEF Above16, Below16, MB, end
      <3>2. /\ ((end - 16 * MB) \div 65536) * 65536 <= end - 16 * MB
            /\ end - 16 * MB < ((end - 16 * MB) \div 65536) * 65536 + 65536
        BY <1>1, <2>4 DEF MB
      <3> QED
        BY <1>1, <1>3, <2>1, <2>2, <3>1, <3>2 DEF MB
    <2> QED
      BY <1>1, <2>3, <2>4 DEF MB
  <1> QED
    BY <1>2, <1>3
=============================================================================
