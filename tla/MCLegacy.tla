------------------------------ MODULE MCLegacy ------------------------------
(* Programs that try one kind of service each, under the interrupts, keys  *)
(* or seconds that matter to it.                                           *)
EXTENDS LegacyServices

Ask(int, ah, ch, cl, dh, dl) ==
  [int |-> int, regs |-> [ah |-> ah, ch |-> ch, cl |-> cl, dh |-> dh, dl |-> dl], jump |-> FALSE, by |-> 0]
Jump(r) == [r EXCEPT !.jump = TRUE]
Moment(h, mi, s, d, mo, y) == [sec |-> s, min |-> mi, hour |-> h, day |-> d, mon |-> mo, year |-> y]
MCTimes == { Moment(23, 59, 59, 31, 12, 99), Moment(12, 59, 58, 31, 5, 26), Moment(0, 10, 0, 9, 10, 26), Moment(11, 59, 59, 8, 8, 8) }
MCModes == [set : {FALSE}, binary : BOOLEAN, h24 : BOOLEAN] \union {[set |-> TRUE, binary |-> FALSE, h24 |-> FALSE]}

Ticks == Ask(26, 0, 0, 0, 0, 0)
Set1 == Ask(26, 1, 0, 0, 0, 1)
Peek  == Ask(22, 1, 0, 0, 0, 0)
Get   == Ask(22, 0, 0, 0, 0, 0)
Other == Ask(16, 14, 0, 0, 0, 0)

Program(app, n, main, hook, t, k, clock) ==
  [app |-> app, calls |-> n, main |-> main, hook |-> hook, ticks |-> t, keys |-> k, clock |-> clock]

MCPrograms ==
  { Program("legacy", 4, {Ticks, Set1, Ask(26, 1, 0, 0, 0, 3)}, {Ticks}, 5, 0, FALSE),
    Program("legacy", 4, {Peek, Get, Other}, {Peek}, 1, 4, FALSE),
    Program("legacy", 3, {Jump(Ticks), Jump(Set1), Get}, {Peek, Jump(Get)}, 2, 2, FALSE),
    Program("legacy", 4,
      {Ask(26, 2, 0, 0, 0, 0), Ask(26, 4, 0, 0, 0, 0),
       Ask(26, 3, 19, 89, 88, 0), Ask(26, 3, 36, 0, 0, 0), Ask(26, 3, 26, 0, 0, 0),
       Ask(26, 5, 32, 38, 18, 49), Ask(26, 5, 32, 38, 19, 1)}, {}, 0, 0, TRUE),
    Program("linux", 0, {}, {}, 0, 0, TRUE) }
=============================================================================
