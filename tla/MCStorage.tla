----------------------------- MODULE MCStorage -----------------------------
(* Sector numbers of 5 bits, of which a drive gets 3; two sectors a        *)
(* command; geometries of one or two heads with two sectors a track.       *)
EXTENDS Storage

Ata(name, n, active) == [id |-> name, kind |-> "ata", size |-> n, mbr |-> active]
Msd(name, n, active) == [id |-> name, kind |-> "msd", size |-> n, mbr |-> active]
Hub   == [id |-> "hub", kind |-> "other", size |-> 0, mbr |-> FALSE]
Cd    == [id |-> "cd", kind |-> "atapi", size |-> 0, mbr |-> FALSE]
Dead  == [id |-> "dead", kind |-> "dead", size |-> 0, mbr |-> FALSE]

Machine(slots, ports, image, order) ==
  [ide |-> slots, usb |-> ports, floppy |-> image, prio |-> order]

Auto == <<"ide", "usb">>

MCMachines ==
  { Machine(<<Ata("a", 7, TRUE), None, None, None>>, <<None, None>>, 0, <<"ide">>),
    Machine(<<Ata("a", 4, FALSE), Ata("b", 7, TRUE), None, None>>, <<None, Msd("u", 5, TRUE)>>, 0, Auto),
    Machine(<<Cd, Dead, Ata("a", 3, TRUE), None>>, <<Msd("u", 6, TRUE), None>>, 5, Auto),
    Machine(<<None, None, None, Ata("a", 1, TRUE)>>, <<Msd("u", 6, TRUE), Msd("v", 7, TRUE)>>, 0, <<"usb">>),
    Machine(<<None, None, None, None>>, <<Hub, Msd("u", 5, TRUE)>>, 0, Auto),
    Machine(<<Dead, Ata("a", 0, FALSE), Ata("b", 5, TRUE), Ata("c", 7, FALSE)>>, <<None, None>>, 4, Auto) }
=============================================================================
