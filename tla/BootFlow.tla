----------------------------- MODULE BootFlow ------------------------------
(***************************************************************************)
(* From reset to an operating system: the stages that load one another,    *)
(* the shared service table they hand over (boot context and heap), and    *)
(* stage 3's choice between the selftest, Linux and legacy apps.           *)
(*                                                                         *)
(* Composes the allocator of SharedHeap, with its real size and the real   *)
(* sizes of the requests.  A blob_load is two steps, taking the staging    *)
(* buffer and giving it back; BlobLoad has its inside.  Of the settings    *)
(* only the boot priority and the request for the test blob matter here;   *)
(* NvramSettings has them all, and shows that a boot loads what the last   *)
(* one stored.                                                             *)
(***************************************************************************)
EXTENDS Integers, Sequences

CONSTANTS
  Platforms,   \* "p2b98_xv" and "qemu"
  Roms,        \* the optional payloads a ROM may have: sets of their names
  Media,       \* what may be attached: records [floppy, disk]
  MaxResets,   \* bound: resets
  MaxFailures, \* bound: loads that fail
  MaxKeys      \* bound: times the key for maintenance mode is pressed

VARIABLES
  platform, rom, media,   \* the machine
  nvram,     \* is there a PIIX4, and with it a CMOS bank for settings?
  cmos,      \* the settings in it: [prio, test]
  pc,        \* where the boot is
  loading,   \* does a blob_load hold the staging buffer?
  flags,     \* shared_boot_context.flags
  snapshot,  \* shared_boot_context.nvram
  free, live, \* the heap in the shared service table
  settings,  \* stage 3's settings
  maint,     \* bios_stage.maintenance_requested
  app,       \* the app being started or run
  ctx,       \* the settings in the app's context
  rc,        \* what the app returned
  resets, failures, keys,
  asked,     \* history: was the key seen since the table was installed, in
             \*   time for stage 3?
  prompted   \* history: has this boot been at the prompt?

machine == <<platform, rom, media, nvram>>
heap    == <<free, live>>
stage3  == <<settings, maint, app, ctx, rc>>
bounds  == <<resets, failures, keys>>
vars == <<machine, cmos, pc, loading, flags, snapshot, heap, stage3, bounds,
          asked, prompted>>

-----------------------------------------------------------------------------
PrioAuto == 0
PrioIde  == 1
PrioUsb  == 2

Defaults == [prio |-> PrioAuto, test |-> FALSE]

(* The heap is what the 16 KB of the table leave: behind the table, the    *)
(* manifest and the boot context, 800 bytes with their alignment, and in   *)
(* front of the pointer slot.  In granules of 16 bytes: 973.               *)
HeapBase  == 1
HeapLimit == HeapBase + 973

(* The requests, in bytes: BLOB_STAGE_CAPACITY and the structures of       *)
(* stage 3.                                                                *)
StageBytes    == 8192
PciBytes      == 3088
StorageBytes  == 156
ContextBytes  == 204

Heap == INSTANCE SharedHeap WITH
          Base <- HeapBase, Limit <- HeapLimit,
          Requests <- {StageBytes, PciBytes, StorageBytes, ContextBytes}

Fits(bytes) == \E i \in 1 .. Len(free) : free[i].size >= Heap!Needed(bytes)

(* What a load at a point of the boot loads, and where the boot goes.      *)
Payload ==
  [load_stage2 |-> "stage2", load_dsdt |-> "dsdt", load_stage3 |-> "stage3",
   load_app |-> app, load_vgabios |-> "vgabios"]

Loads == DOMAIN Payload

OnSuccess ==
  [load_stage2 |-> "stage2", load_dsdt |-> "load_stage3",
   load_stage3 |-> "stage3",
   load_app |-> IF app = "selftest" THEN "run" ELSE "load_vgabios",
   load_vgabios |-> "run"]

(* Stages stop the boot; a DSDT and a VGA BIOS are done without; an app    *)
(* that is not there returns APP_BOOT_RESULT_FALLBACK.                     *)
OnFailure ==
  [load_stage2 |-> "halted", load_dsdt |-> "load_stage3",
   load_stage3 |-> "halted", load_app |-> "returned", load_vgabios |-> "run"]

InRom(name) == name \in {"stage2", "stage3"} \cup rom

-----------------------------------------------------------------------------
Init ==
  /\ platform \in Platforms /\ rom \in Roms /\ media \in Media
  /\ nvram \in BOOLEAN /\ cmos = Defaults
  /\ pc = "reset" /\ loading = FALSE /\ flags = {} /\ snapshot = Defaults
  /\ free = << >> /\ live = {}
  /\ settings = Defaults /\ maint = FALSE /\ app = "none" /\ ctx = Defaults
  /\ rc = 0 /\ resets = 0 /\ failures = 0 /\ keys = 0
  /\ asked = FALSE /\ prompted = FALSE

(* install_shared_service_table: the table, the heap and the boot context  *)
(* are zeroed and set up again.                                            *)
InstallTable(initial) ==
  /\ flags' = initial /\ snapshot' = Defaults /\ asked' = FALSE
  /\ free' = << [at |-> HeapBase, size |-> HeapLimit - HeapBase] >>
  /\ live' = {}

(* Stage 1.5, or QEMU's stage 1.                                           *)
FirstStage ==
  /\ pc = "reset" /\ pc' = "load_stage2"
  /\ InstallTable({})
  /\ UNCHANGED <<machine, cmos, loading, stage3, bounds, prompted>>

FaultStage2 ==
  /\ pc = "stage2"
  /\ pc' = (IF platform = "qemu" THEN "load_stage3" ELSE "load_dsdt")
  /\ flags' = {"shadow"}
  /\ UNCHANGED <<machine, cmos, loading, snapshot, heap, stage3, bounds, asked,
                 prompted>>

(* Stage 2.  On the P2B98-XV it installs the table a second time, and what *)
(* stage 1.5 put there is gone: a request for maintenance mode, too.       *)
Stage2 ==
  /\ pc = "stage2"
  /\ \/ /\ platform = "qemu" /\ pc' = "load_stage3"
        /\ flags' = flags \cup {"shadow"}
        /\ UNCHANGED <<snapshot, heap, asked>>
     \/ /\ platform = "p2b98_xv" /\ pc' = "load_dsdt"
        /\ InstallTable({"shadow"})
  /\ UNCHANGED <<machine, cmos, loading, stage3, bounds, prompted>>

-----------------------------------------------------------------------------
(* blob_load_service. *)

StartLoad ==
  /\ pc \in Loads /\ ~loading /\ InRom(Payload[pc])
  /\ Heap!Alloc(StageBytes)
  /\ loading' = TRUE
  /\ UNCHANGED <<machine, cmos, pc, flags, snapshot, stage3, bounds, asked,
                 prompted>>

(* Nothing to load, or nowhere to stage it.                                *)
RefuseLoad ==
  /\ pc \in Loads /\ ~loading
  /\ ~InRom(Payload[pc]) \/ ~Fits(StageBytes)
  /\ pc' = OnFailure[pc]
  /\ rc' = (IF pc = "load_app" THEN -1 ELSE rc)
  /\ UNCHANGED <<machine, cmos, loading, flags, snapshot, heap, settings,
                 maint, app, ctx, bounds, asked, prompted>>

FaultEndLoad ==
  /\ loading /\ loading' = FALSE
  /\ pc' = OnSuccess[pc]
  /\ UNCHANGED <<machine, cmos, flags, snapshot, heap, stage3, bounds, asked,
                 prompted>>

EndLoad ==
  /\ loading /\ loading' = FALSE
  /\ \E stage \in live : stage.want = StageBytes /\ Heap!Free(stage)
  /\ \/ pc' = OnSuccess[pc] /\ UNCHANGED <<failures, rc>>
     \/ /\ failures < MaxFailures /\ failures' = failures + 1
        /\ pc' = OnFailure[pc]
        /\ rc' = (IF pc = "load_app" THEN -1 ELSE rc)
  /\ UNCHANGED <<machine, cmos, flags, snapshot, settings, maint, app, ctx,
                 resets, keys, asked, prompted>>

(* The key for maintenance mode, polled once a block.  A key that came     *)
(* before waits in the serial port for the first poll.                     *)
PollKey ==
  /\ loading /\ keys < MaxKeys /\ keys' = keys + 1
  /\ flags' = flags \cup {"maintenance"}
  /\ asked' = (asked \/ pc \in {"load_stage2", "load_dsdt", "load_stage3"})
  /\ UNCHANGED <<machine, cmos, pc, loading, snapshot, heap, stage3, resets,
                 failures, prompted>>

-----------------------------------------------------------------------------
(* Stage 3. *)

(* bios_stage_context_load and bios_settings_load.                         *)
Stage3 ==
  /\ pc = "stage3" /\ pc' = "pci"
  /\ maint' = ("maintenance" \in flags)
  /\ settings' = (IF nvram THEN cmos ELSE Defaults)
  /\ snapshot' = settings'
  /\ UNCHANGED <<machine, cmos, loading, flags, heap, app, ctx, rc, bounds,
                 asked, prompted>>

(* Stage 3 takes what it shows the apps from the heap, and never gives it  *)
(* back.  Without room the apps go without.                                *)
Export(from, to, bytes) ==
  /\ pc = from /\ pc' = to
  /\ Heap!Alloc(bytes) \/ (~Fits(bytes) /\ UNCHANGED heap)
  /\ UNCHANGED <<machine, cmos, loading, flags, snapshot, stage3, bounds,
                 asked, prompted>>

(* stage3_pci_snapshot_build before and after storage_scan.                *)
PciSnapshot     == Export("pci", "storage", PciBytes)
StorageSnapshot == Export("storage", "pci_again", StorageBytes)
PciSnapshotAgain == Export("pci_again", "choose", PciBytes)

SelftestOnly == rom \cap {"selftest", "linux", "legacy"} = {"selftest"}

(* The test blob, when the settings or the ROM ask for it; the request is  *)
(* dropped first.                                                          *)
ChooseSelftest ==
  /\ pc = "choose" /\ pc' = "start" /\ app' = "selftest"
  /\ settings.test \/ SelftestOnly
  /\ settings' = [settings EXCEPT !.test = FALSE]
  /\ cmos' = (IF nvram /\ settings.test THEN [cmos EXCEPT !.test = FALSE]
              ELSE cmos)
  /\ UNCHANGED <<machine, loading, flags, snapshot, heap, maint, ctx, rc,
                 bounds, asked, prompted>>

ChooseBoot ==
  /\ pc = "choose" /\ ~settings.test /\ ~SelftestOnly
  /\ IF maint THEN pc' = "prompt" /\ app' = app /\ prompted' = TRUE
     ELSE pc' = "start" /\ app' = "linux" /\ prompted' = prompted
  /\ UNCHANGED <<machine, cmos, loading, flags, snapshot, heap, settings, maint,
                 ctx, rc, bounds, asked>>

(* The commands "o" and "t" of the prompt, each stored at once; "d" is     *)
(* both.                                                                   *)
Edit ==
  /\ pc = "prompt"
  /\ \/ \E p \in {PrioAuto, PrioIde, PrioUsb} : settings' = [settings EXCEPT !.prio = p]
     \/ \E t \in BOOLEAN : settings' = [settings EXCEPT !.test = t]
  /\ cmos' = (IF nvram THEN settings' ELSE cmos)
  /\ UNCHANGED <<machine, pc, loading, flags, snapshot, heap, maint, app, ctx,
                 rc, bounds, asked, prompted>>

Quit ==
  /\ pc = "prompt" /\ pc' = "start" /\ app' = "linux"
  /\ UNCHANGED <<machine, cmos, loading, flags, snapshot, heap, settings, maint,
                 ctx, rc, bounds, asked, prompted>>

FaultStartApp ==
  /\ pc = "start" /\ app \in rom /\ pc' = "load_app"
  /\ Heap!Alloc(ContextBytes) /\ ctx' = snapshot
  /\ UNCHANGED <<machine, cmos, loading, flags, snapshot, settings, maint, app,
                 rc, bounds, asked, prompted>>

(* run_app_payload: a context with a copy of the settings, then the load.  *)
StartApp ==
  /\ pc = "start" /\ app \in rom /\ pc' = "load_app"
  /\ Heap!Alloc(ContextBytes) /\ ctx' = settings
  /\ UNCHANGED <<machine, cmos, loading, flags, snapshot, settings, maint, app,
                 rc, bounds, asked, prompted>>

RefuseApp ==
  /\ pc = "start" /\ (app \notin rom \/ ~Fits(ContextBytes))
  /\ pc' = "returned" /\ rc' = -1
  /\ UNCHANGED <<machine, cmos, loading, flags, snapshot, heap, settings, maint,
                 app, ctx, bounds, asked, prompted>>

-----------------------------------------------------------------------------
(* The apps. *)

(* The kinds of disk an app tries, and the one it stops at.  A disk is the *)
(* set of what it has: "drive", and then perhaps "mbr" or "kernel".        *)
Tried(prio) == IF prio = PrioAuto THEN {PrioIde, PrioUsb} ELSE {prio}

FirstWith(what, kind) ==
  /\ kind \in Tried(ctx.prio) /\ what \in media.disk[kind]
  /\ \A k \in Tried(ctx.prio) : k < kind => what \notin media.disk[k]

BootsFrom(what) ==
  \E kind \in {PrioIde, PrioUsb} :
    /\ FirstWith(what, kind)
    /\ cmos' = (IF nvram /\ ctx.prio = PrioAuto THEN [cmos EXCEPT !.prio = kind]
                ELSE cmos)
    /\ pc' = "os" /\ rc' = rc

NoneHas(what) == \A kind \in Tried(ctx.prio) : what \notin media.disk[kind]

(* linux_loader_try_boot; it does not return when it boots.                *)
RunLinux ==
  /\ pc = "run" /\ app = "linux"
  /\ \/ BootsFrom("kernel")
     \/ NoneHas("kernel") /\ pc' = "returned" /\ rc' = 0 /\ UNCHANGED cmos
  /\ UNCHANGED <<machine, loading, flags, snapshot, heap, settings, maint, app,
                 ctx, bounds, asked, prompted>>

(* legacy_prepare_boot_sector: the floppy first.  With nothing to boot it  *)
(* halts.                                                                  *)
RunLegacy ==
  /\ pc = "run" /\ app = "legacy"
  /\ \/ media.floppy /\ pc' = "os" /\ UNCHANGED <<cmos, rc>>
     \/ ~media.floppy /\ BootsFrom("mbr")
     \/ ~media.floppy /\ NoneHas("mbr") /\ pc' = "halted" /\ UNCHANGED <<cmos, rc>>
  /\ UNCHANGED <<machine, loading, flags, snapshot, heap, settings, maint, app,
                 ctx, bounds, asked, prompted>>

RunSelftest ==
  /\ pc = "run" /\ app = "selftest" /\ pc' = "returned"
  /\ rc' \in {-1, 0, 1}
  /\ UNCHANGED <<machine, cmos, loading, flags, snapshot, heap, settings, maint,
                 app, ctx, bounds, asked, prompted>>

FaultReturned ==
  /\ pc = "returned"
  /\ IF app # "selftest" /\ rc <= 0
     THEN pc' = "start" /\ app' = (IF app = "linux" THEN "legacy" ELSE "linux")
     ELSE pc' = "halted" /\ app' = app
  /\ UNCHANGED <<machine, cmos, loading, flags, snapshot, heap, settings, maint,
                 ctx, rc, bounds, asked, prompted>>

(* Back in bios_stage3_run: after Linux comes legacy, after anything else  *)
(* the end.                                                                *)
Returned ==
  /\ pc = "returned"
  /\ IF app = "linux" /\ rc <= 0 THEN pc' = "start" /\ app' = "legacy"
     ELSE pc' = "halted" /\ app' = app
  /\ UNCHANGED <<machine, cmos, loading, flags, snapshot, heap, settings, maint,
                 ctx, rc, bounds, asked, prompted>>

(* Reset, at any moment: the next boot starts from zero but for the CMOS,  *)
(* and someone may have changed what is attached.                          *)
Reset ==
  /\ pc # "reset" /\ resets < MaxResets /\ resets' = resets + 1
  /\ pc' = "reset" /\ media' \in Media
  /\ loading' = FALSE /\ flags' = {} /\ snapshot' = Defaults
  /\ free' = << >> /\ live' = {}
  /\ settings' = Defaults /\ maint' = FALSE /\ app' = "none" /\ ctx' = Defaults
  /\ rc' = 0 /\ asked' = FALSE /\ prompted' = FALSE
  /\ UNCHANGED <<platform, rom, nvram, cmos, failures, keys>>

Boot ==
  \/ FirstStage \/ Stage2 \/ StartLoad \/ RefuseLoad \/ EndLoad
  \/ Stage3 \/ PciSnapshot \/ StorageSnapshot \/ PciSnapshotAgain
  \/ ChooseSelftest \/ ChooseBoot \/ StartApp \/ RefuseApp
  \/ RunLinux \/ RunLegacy \/ RunSelftest \/ Returned

Next == Boot \/ PollKey \/ Edit \/ Quit \/ Reset

(* One processor runs the boot, and nothing blocks it but the prompt.      *)
Spec == Init /\ [][Next]_vars /\ WF_vars(Boot)
-----------------------------------------------------------------------------
(* The heap of the shared table is large enough for every boot: whatever   *)
(* was loaded, failed or fell back before, the block that is asked for     *)
(* next is there, though neither the snapshots nor the contexts are ever   *)
(* given back.                                                             *)
HeapSuffices ==
  /\ pc \in Loads /\ ~loading => Fits(StageBytes)
  /\ pc \in {"pci", "pci_again"} => Fits(PciBytes)
  /\ pc = "storage" => Fits(StorageBytes)
  /\ pc = "start" => Fits(ContextBytes)

(* A request for maintenance mode that was noted in the table stage 3      *)
(* finds leads to the prompt before Linux or legacy is started.            *)
MaintenanceHonoured ==
  asked /\ app \in {"linux", "legacy"} => prompted

(* Learning a boot priority never overwrites one that is set: the apps     *)
(* learn only over AUTO, also when it was set at the prompt of this boot.  *)
NeverRelearned ==
  [][cmos.prio # PrioAuto /\ cmos'.prio # cmos.prio => pc = "prompt"]_vars

(* Every boot ends: in an operating system, with the processor halted, or  *)
(* at the prompt, when no more resets come.                                *)
BootEnds == <>[](pc \in {"os", "halted", "prompt"})

=============================================================================
