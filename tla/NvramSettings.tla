--------------------------- MODULE NvramSettings ---------------------------
(***************************************************************************)
(* The settings of the BIOS: their copy in the upper bank of the CMOS RAM  *)
(* (bios_nvram.c), the copy stage 3 works with (bios_settings.c), and the  *)
(* maintenance prompt that edits both (bios_maintenance.c).  The CMOS is   *)
(* written a byte at a time and power may fail between two bytes.          *)
(*                                                                         *)
(* The boot context is freshly zeroed when stage 3 starts, so              *)
(* bios_settings_load always takes the settings from the CMOS, never from  *)
(* the snapshot in the boot context.                                       *)
(***************************************************************************)
EXTENDS Naturals, Sequences

CONSTANTS
  CmdlineMax,  \* BIOS_NVRAM_CMDLINE_MAX, the bytes of the command line
  Images,      \* what the CMOS may hold when the machine is first started
  Commands,    \* what the user may type at the prompt: records [key, arg]
  MaxCommands, \* bound: lines typed
  MaxCuts      \* bound: power failures

ASSUME SettingsAssumption ==
  /\ CmdlineMax \in Nat \ {0}
  /\ MaxCommands \in Nat /\ MaxCuts \in Nat

VARIABLES
  piix4,     \* is there a PIIX4, and with it an upper bank?
  cmos,      \* offset -> byte
  writes,    \* the bytes the running handler has still to write, in order
  settings,  \* the copy in memory
  pc,        \* "off", "load", "ready", "prompt", "boot", "consumed",
             \* "selftest" or "running"
  typed,     \* lines typed so far
  cuts,      \* power failures so far
  before,    \* history: what a boot would have loaded when the handler began,
  after,     \*   what it is to load when the handler is done,
  sound,     \*   and whether the magic was right when it began
  asked,     \* history: requests for the test blob
  ran        \* history: times the test blob was started


history == <<before, after, sound, asked, ran>>
vars    == <<piix4, cmos, writes, settings, pc, typed, cuts, history>>

-----------------------------------------------------------------------------
(* The layout.  The magic number is one cell here, 1 standing for the      *)
(* right one; flags0 is the set of its bits, "junk" standing for the bits  *)
(* outside the known mask.                                                 *)
Magic        == 0
Partition    == 4
Flags0       == 5
BootPriority == 6
Cmdline      == 7

Nul           == 0   \* characters are their codes
MagicNumber   == 1

Known         == {"memtest", "serial", "vesa", "test"}
DefaultFlags  == {"serial"}
PrioAuto      == 0
PrioIde       == 1
PrioUsb       == 2

Set(off, value) == [off |-> off, value |-> value]

Field(image, i) == image[Cmdline + i]

(* Every cell holds something, right or wrong.                             *)
Offsets == {Magic, Partition, Flags0, BootPriority}
           \cup (Cmdline .. Cmdline + CmdlineMax - 1)

IsImage(image) ==
  /\ DOMAIN image = Offsets
  /\ image[Magic] \in Nat /\ image[Partition] \in Nat
  /\ image[BootPriority] \in Nat
  /\ \A i \in 0 .. CmdlineMax - 1 : Field(image, i) \in Nat

ASSUME ImageAssumption == \A image \in Images : IsImage(image)

(* maintenance_read_line takes printable characters only.                  *)
ASSUME TextAssumption ==
  \A c \in Commands : c.key = "a" => c.arg \in Seq(Nat \ {Nul})

(* The text up to its end, or none when the field has no end.              *)
TextOf(image) ==
  LET ends == {i \in 0 .. CmdlineMax - 1 : Field(image, i) = Nul}
  IN  IF ends = {} THEN << >>
      ELSE LET end == CHOOSE e \in ends : \A i \in ends : e <= i
           IN  [i \in 1 .. end |-> Field(image, i - 1)]

Defaults == [part |-> 0, flags |-> DefaultFlags, prio |-> PrioAuto, cmd |-> << >>]

(* bios_nvram_load_settings: what it returns, field by field, a field out  *)
(* of range giving its default.                                            *)
Sanitised(image) ==
  [part  |-> IF image[Partition] > 1 THEN 0 ELSE image[Partition],
   flags |-> IF image[Flags0] \subseteq Known THEN image[Flags0] ELSE DefaultFlags,
   prio  |-> IF image[BootPriority] > PrioUsb THEN PrioAuto ELSE image[BootPriority],
   cmd   |-> TextOf(image)]

Loaded(image) ==
  IF piix4 /\ image[Magic] = MagicNumber THEN Sanitised(image) ELSE Defaults

(* bios_nvram_init_defaults, in its order.                                 *)
InitDefaults ==
  << Set(Magic, MagicNumber), Set(Partition, 0), Set(Flags0, DefaultFlags),
     Set(BootPriority, PrioAuto) >>
  \o [i \in 1 .. CmdlineMax |-> Set(Cmdline + i - 1, Nul)]

FaultRepairAll(image) ==
  IF image[Magic] = MagicNumber /\ image[Partition] <= 1 /\ image[Flags0] \subseteq Known
  THEN << >> ELSE InitDefaults

(* What it writes back: the defaults when the magic is wrong, and          *)
(* otherwise each field it found out of range.                             *)
Repairs(image) ==
  IF image[Magic] # MagicNumber THEN InitDefaults
  ELSE LET loaded == Sanitised(image) IN
       (IF image[Partition] > 1 THEN << Set(Partition, 0) >> ELSE << >>)
       \o (IF image[Flags0] \subseteq Known THEN << >>
           ELSE << Set(Flags0, DefaultFlags) >>)
       \o (IF image[BootPriority] > PrioUsb THEN << Set(BootPriority, PrioAuto) >>
           ELSE << >>)
       \o (IF \A i \in 0 .. CmdlineMax - 1 : Field(image, i) # Nul
           THEN << Set(Cmdline, Nul) >> ELSE << >>)

FaultOffset(text) ==
  [i \in 1 .. CmdlineMax |->
     Set(Cmdline + i - 2, IF i <= Len(text) THEN text[i] ELSE Nul)]

(* bios_nvram_save_cmdline_suffix: the text, its end, and the rest of the  *)
(* field cleared.                                                          *)
SaveCmdline(text) ==
  [i \in 1 .. CmdlineMax |->
     Set(Cmdline + i - 1, IF i <= Len(text) THEN text[i] ELSE Nul)]

(* Every save gives up, silently, without the upper bank.                  *)
Saving(list) == IF piix4 THEN list ELSE << >>

-----------------------------------------------------------------------------
Init ==
  /\ piix4 \in BOOLEAN /\ cmos \in Images /\ writes = << >>
  /\ settings = Defaults /\ pc = "off" /\ typed = 0 /\ cuts = 0
  /\ before = Defaults /\ after = Defaults /\ sound = FALSE
  /\ asked = (IF "test" \in cmos[Flags0] THEN 1 ELSE 0) /\ ran = 0

(* A handler changes the copy in memory, then starts to write.             *)
Handle(new, list) ==
  /\ settings' = new
  /\ writes' = Saving(list)
  /\ before' = Loaded(cmos)
  /\ after' = (IF piix4 THEN new ELSE Defaults)
  /\ sound' = (cmos[Magic] = MagicNumber)
  /\ UNCHANGED <<piix4, cmos>>

(* bios_settings_load.                                                     *)
PowerOn ==
  /\ pc = "off" /\ pc' = "load"
  /\ Handle(Loaded(cmos), Repairs(cmos))
  /\ UNCHANGED <<typed, cuts, asked, ran>>

(* One outb to the data port.                                              *)
Write ==
  /\ writes # << >>
  /\ cmos' = [cmos EXCEPT ![Head(writes).off] = Head(writes).value]
  /\ writes' = Tail(writes)
  /\ UNCHANGED <<piix4, settings, pc, typed, cuts, history>>

(* The handler has returned, and stage 3 goes on.                          *)
GoTo(from, to) == pc = from /\ writes = << >> /\ pc' = to

LoadDone == GoTo("load", "ready")
            /\ UNCHANGED <<piix4, cmos, writes, settings, typed, cuts, history>>

FaultConsume ==
  /\ GoTo("ready", "consumed") /\ "test" \in settings.flags
  /\ Handle([settings EXCEPT !.flags = @ \ {"test"}], << >>)
  /\ UNCHANGED <<typed, cuts, asked, ran>>

(* bios_settings_consume_test_blob_request, and only then the test blob.   *)
Consume ==
  /\ GoTo("ready", "consumed") /\ "test" \in settings.flags
  /\ LET flags == settings.flags \ {"test"}
     IN  Handle([settings EXCEPT !.flags = flags], << Set(Flags0, flags) >>)
  /\ UNCHANGED <<typed, cuts, asked, ran>>

RunTestBlob ==
  /\ GoTo("consumed", "selftest") /\ ran' = ran + 1
  /\ UNCHANGED <<piix4, cmos, writes, settings, typed, cuts, before, after,
                 sound, asked>>

(* The prompt is entered when the user asked for it in time.               *)
Proceed ==
  /\ "test" \notin settings.flags
  /\ GoTo("ready", "prompt") \/ GoTo("ready", "boot")
  /\ UNCHANGED <<piix4, cmos, writes, settings, typed, cuts, history>>
-----------------------------------------------------------------------------
(* The commands of the prompt.  c.arg is the rest of the line: a text for  *)
(* "a", otherwise one character, a digit being its value.                  *)
SetCmdline(c) ==
  /\ c.key = "a"
  /\ LET text == IF Len(c.arg) < CmdlineMax THEN c.arg
                 ELSE SubSeq(c.arg, 1, CmdlineMax - 1)
     IN  Handle([settings EXCEPT !.cmd = text], SaveCmdline(text))
  /\ UNCHANGED asked

SetPartition(c) ==
  /\ c.key = "b" /\ c.arg \in 0 .. 1
  /\ Handle([settings EXCEPT !.part = c.arg], << Set(Partition, c.arg) >>)
  /\ UNCHANGED asked

(* The commands that set one bit of flags0, and the bit.                   *)
Bit == [m |-> "memtest", t |-> "test", s |-> "serial", v |-> "vesa"]

SetFlag(c) ==
  /\ c.key \in DOMAIN Bit /\ c.arg \in 0 .. 1
  /\ LET flags == IF c.arg = 1 THEN settings.flags \cup {Bit[c.key]}
                  ELSE settings.flags \ {Bit[c.key]}
     IN  Handle([settings EXCEPT !.flags = flags], << Set(Flags0, flags) >>)
  /\ asked' = asked + (IF c.key = "t" THEN c.arg ELSE 0)

SetBootPriority(c) ==
  /\ c.key = "o" /\ c.arg \in PrioAuto .. PrioUsb
  /\ Handle([settings EXCEPT !.prio = c.arg], << Set(BootPriority, c.arg) >>)
  /\ UNCHANGED asked

ResetDefaults(c) ==
  /\ c.key = "d"
  /\ Handle(Defaults, InitDefaults)
  /\ UNCHANGED asked

(* A command with a wrong argument changes nothing.                        *)
BadArgument(c) ==
  /\ \/ c.key \in {"b"} \cup DOMAIN Bit /\ c.arg \notin 0 .. 1
     \/ c.key = "o" /\ c.arg \notin PrioAuto .. PrioUsb
  /\ UNCHANGED <<piix4, cmos, writes, settings, before, after, sound, asked>>

Command ==
  /\ pc = "prompt" /\ writes = << >> /\ typed < MaxCommands
  /\ typed' = typed + 1
  /\ \E c \in Commands :
       \/ SetCmdline(c)      \/ SetPartition(c)  \/ SetFlag(c)
       \/ SetBootPriority(c) \/ ResetDefaults(c) \/ BadArgument(c)
  /\ UNCHANGED <<pc, cuts, ran>>

Quit == GoTo("prompt", "boot")
        /\ UNCHANGED <<piix4, cmos, writes, settings, typed, cuts, history>>

-----------------------------------------------------------------------------
(* linux_record_boot_success and prepare_boot_sector_current: an app that  *)
(* boots from a disk with the priority on AUTO stores the disk's kind.  It *)
(* has a copy of the settings; stage 3's own copy no longer matters.       *)
Learn ==
  /\ GoTo("boot", "running")
  /\ \E kind \in {PrioIde, PrioUsb} :
       IF settings.prio = PrioAuto
       THEN Handle([settings EXCEPT !.prio = kind], << Set(BootPriority, kind) >>)
       ELSE Handle(settings, << >>)
  /\ UNCHANGED <<typed, cuts, asked, ran>>

(* Power fails, or someone presses reset: memory is lost, the CMOS stays.  *)
PowerCut ==
  /\ pc # "off" /\ cuts < MaxCuts
  /\ cuts' = cuts + 1 /\ pc' = "off"
  /\ writes' = << >> /\ settings' = Defaults
  /\ UNCHANGED <<piix4, cmos, typed, history>>

Next ==
  \/ PowerOn \/ Write \/ LoadDone \/ Consume \/ RunTestBlob \/ Proceed
  \/ Command \/ Quit \/ Learn \/ PowerCut

Spec == Init /\ [][Next]_vars
-----------------------------------------------------------------------------
(* Settings the rest of the BIOS can take: in range, no unknown flag, a    *)
(* command line with an end.                                               *)
Usable(s) ==
  /\ s.part \in 0 .. 1 /\ s.flags \subseteq Known
  /\ s.prio \in {PrioAuto, PrioIde, PrioUsb} /\ Len(s.cmd) < CmdlineMax

(* Whatever the CMOS held, the settings in use are usable ones; and when   *)
(* no handler is at work, the CMOS says what the copy in memory says,      *)
(* field for field: the next boot starts from the settings this one shows, *)
(* with every repair and every edit in it.                                 *)
Persisted ==
  /\ Usable(settings)
  /\ piix4 /\ pc # "off" /\ writes = << >>
       => cmos[Magic] = MagicNumber /\ Loaded(cmos) = settings

(* A power failure in the middle of a handler, at whichever byte, leaves   *)
(* CMOS contents from which the next boot loads, for each field, the value *)
(* from before the handler or the one it was writing; and a command line   *)
(* the handler was not to change is whole.  Where the magic was wrong to   *)
(* begin with this does not hold: it is written first, and contents that   *)
(* were never settings then count as such.                                 *)
CutLeavesOldOrNew ==
  sound =>
    LET now == Loaded(cmos) IN
    /\ now.part \in {before.part, after.part}
    /\ now.flags \in {before.flags, after.flags}
    /\ now.prio \in {before.prio, after.prio}
    /\ before.cmd = after.cmd => now.cmd = after.cmd

(* The test blob is one-shot (TESTING.md, "ROM Test ELF"): however often   *)
(* power fails, it is started at most once for each time it was asked for, *)
(* at the prompt or by whoever set the bit before.                         *)
AtMostOnce == ran <= asked
=============================================================================
