----------------------------- MODULE MCBootFlow -----------------------------
(* The heap and its requests have their real sizes.  ROMs: the builds of   *)
(* platform/p2b98_xv with legacy, with Linux and with the selftest, QEMU's *)
(* with legacy, and one with all the apps stage 3 knows how to start.      *)
EXTENDS BootFlow, TLC

MCPlatforms == {"p2b98_xv", "qemu"}

MCRoms ==
  { {"dsdt", "vgabios", "linux", "legacy", "selftest"},
    {"dsdt", "vgabios", "legacy"}, {"dsdt", "vgabios", "linux"},
    {"dsdt", "selftest"}, {"legacy"} }

Machine(floppy, ide, usb) ==
  [floppy |-> floppy, disk |-> PrioIde :> ide @@ PrioUsb :> usb]

MCMedia ==
  { Machine(FALSE, {}, {}), Machine(TRUE, {"drive"}, {}),
    Machine(FALSE, {"drive", "mbr"}, {"drive", "kernel"}),
    Machine(FALSE, {"drive"}, {"drive", "mbr"}) }
=============================================================================
