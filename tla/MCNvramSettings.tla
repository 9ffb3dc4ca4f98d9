-------------------------- MODULE MCNvramSettings --------------------------
(* A command line field of three bytes.  The CMOS starts with: a wrong     *)
(* magic over garbage, fields out of range, a command line without an end, *)
(* a stored request for the test blob, or settings as the BIOS left them.  *)
EXTENDS NvramSettings

Image(magic, part, flags, prio, text) ==
  [off \in {Magic, Partition, Flags0, BootPriority}
           \cup (Cmdline .. Cmdline + CmdlineMax - 1) |->
     CASE off = Magic -> IF magic THEN MagicNumber ELSE 0
       [] off = Partition -> part
       [] off = Flags0 -> flags
       [] off = BootPriority -> prio
       [] OTHER -> text[off - Cmdline + 1]]

MCImages ==
  { Image(FALSE, 9, {"test"}, 9, <<65, 66, 65>>),
    Image(TRUE, 9, {"junk", "test"}, 9, <<65, 66, 65>>),
    Image(TRUE, 1, {"junk"}, PrioUsb, <<65, Nul, 66>>),
    Image(TRUE, 1, {"serial", "test"}, PrioUsb, <<65, Nul, 66>>),
    Image(TRUE, 0, {"serial", "vesa"}, PrioAuto, <<66, 65, Nul>>) }

MCCommands ==
  {[key |-> "a", arg |-> t] : t \in {<< >>, <<66>>, <<66, 66, 66, 66>>}}
  \cup {[key |-> "b", arg |-> d] : d \in {0, 1, 5}}
  \cup {[key |-> k, arg |-> d] : k \in {"m", "t"}, d \in {0, 1}}
  \cup {[key |-> k, arg |-> 1] : k \in {"s", "v"}}
  \cup {[key |-> "o", arg |-> d] : d \in {0, 2, 3}}
  \cup {[key |-> "d", arg |-> << >>]}
=============================================================================
