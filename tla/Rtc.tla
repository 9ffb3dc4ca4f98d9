-------------------------------- MODULE Rtc --------------------------------
(***************************************************************************)
(* The battery-backed clock and its driver (bios_rtc.c): its registers     *)
(* hold the time in 24-hour or 12-hour form, in BCD or binary, as status   *)
(* register B says; the last system that ran may have chosen any of them.  *)
(*                                                                         *)
(* An operation is one step: it runs with interrupts off, waits for the    *)
(* end of an update where the code waits for it, and is done long before   *)
(* the next one (the chip announces an update 244 microseconds ahead).     *)
(***************************************************************************)
EXTENDS Naturals

CONSTANTS
  Times,      \* times the clock shows when the machine starts
  Modes,      \* forms its registers have then
  MaxUpdates  \* bound: seconds that pass

\* what a clock shows; months have 31 days here
Moments ==
  [sec : 0 .. 59, min : 0 .. 59, hour : 0 .. 23,
   day : 1 .. 31, mon : 1 .. 12, year : 0 .. 99]

ASSUME ClockAssumption ==
  /\ Times \subseteq Moments
  /\ Modes \subseteq [set : BOOLEAN, binary : BOOLEAN, h24 : BOOLEAN]

VARIABLES
  reg,        \* the registers: a byte for each field
  mode,       \* status register B: [set, binary, h24]
  inUpdate,   \* bit 7 of status register A
  broken,     \* a clock whose bit 7 stays set
  (* history *)
  now,        \* the time the clock was told to keep
  sure,       \* parts of it, "time" and "date", set or left in the form read here
  heard,      \* the last answer: [part, said, truth, sure]
  updates
chip == <<reg, mode, inUpdate, broken, now, sure, heard, updates>>

Part == [time |-> {"sec", "min", "hour"}, date |-> {"day", "mon", "year"}]
Fields == Part.time \union Part.date
Pick(t, part) == [f \in Part[part] |-> t[f]]
Sane == [set |-> FALSE, binary |-> FALSE, h24 |-> TRUE]
Start == [sec |-> 0, min |-> 0, hour |-> 0, day |-> 1, mon |-> 1, year |-> 26]
Silence == [part |-> {}, said |-> Start, truth |-> Start, sure |-> FALSE]
-----------------------------------------------------------------------------
(* The chip. *)
BinToBcd(v) == (v \div 10) * 16 + (v % 10)

\* what a register holds for a value
Encode(f, v, m) ==
  LET digits(n) == IF m.binary THEN n ELSE BinToBcd(n)
  IN  IF f = "hour" /\ ~m.h24
      THEN digits(IF v % 12 = 0 THEN 12 ELSE v % 12) + (IF v >= 12 THEN 128 ELSE 0)
      ELSE digits(v)

Holds(f) == reg[f] = Encode(f, now[f], mode)

\* one second later; the times used are in months of 31 days
Advance(t) ==
  LET s == t.sec = 59
      m == s /\ t.min = 59
      h == m /\ t.hour = 23
      d == h /\ t.day = 31
      o == d /\ t.mon = 12
  IN  [sec  |-> (t.sec + 1) % 60,
       min  |-> IF s THEN (t.min + 1) % 60 ELSE t.min,
       hour |-> IF m THEN (t.hour + 1) % 24 ELSE t.hour,
       day  |-> IF d THEN 1 ELSE IF h THEN t.day + 1 ELSE t.day,
       mon  |-> IF o THEN 1 ELSE IF d THEN t.mon + 1 ELSE t.mon,
       year |-> IF o THEN (t.year + 1) % 100 ELSE t.year]

Advanced(f) == IF Holds(f) THEN Encode(f, Advance(now)[f], mode) ELSE reg[f]

UpdateBegins ==
  /\ ~inUpdate /\ ~mode.set /\ updates < MaxUpdates
  /\ inUpdate' = TRUE /\ updates' = updates + 1
  /\ UNCHANGED <<reg, mode, broken, now, sure, heard>>

UpdateEnds ==
  /\ inUpdate
  /\ inUpdate' = FALSE
  /\ reg' = [f \in Fields |-> Advanced(f)]
  /\ now' = Advance(now)
  /\ UNCHANGED <<mode, broken, sure, heard, updates>>

\* what the registers may show: in an update, each its old value or its new one
Shown ==
  {[f \in Fields |-> IF f \in S THEN Advanced(f) ELSE reg[f]] : S \in IF inUpdate THEN SUBSET Fields ELSE {{}}}
-----------------------------------------------------------------------------
(* Decoding. *)
BcdToBin(v) == (v \div 16) * 10 + (v % 16)
Bad == 255

\* rtc_decode
RtcDecode(v, m) ==
  IF m.binary THEN v ELSE IF v % 16 > 9 \/ v \div 16 > 9 THEN Bad ELSE BcdToBin(v)

\* rtc_decode without the bit for the afternoon
FaultDecodeHour(v, m) ==
  LET h == RtcDecode(v % 128, m) IN IF h = 12 /\ ~m.h24 THEN 0 ELSE h

\* rtc_decode_hour
RtcDecodeHour(v, m) ==
  LET h   == RtcDecode(v % 128, m)
      h12 == IF h = 12 THEN 0 ELSE h
  IN  IF h = Bad \/ m.h24 THEN h
      ELSE IF v >= 128 /\ h12 < 12 THEN h12 + 12 ELSE h12

Decoded(r, m) == [f \in Fields |-> IF f = "hour" THEN RtcDecodeHour(r[f], m) ELSE RtcDecode(r[f], m)]

\* rtc_raw_datetime_valid
DatetimeValid(t) ==
  /\ t.sec <= 59 /\ t.min <= 59 /\ t.hour <= 23
  /\ t.day \in 1 .. 31 /\ t.mon \in 1 .. 12 /\ t.year <= 99
-----------------------------------------------------------------------------
(* The driver. *)
Ready == ~inUpdate \/ broken

\* rtc_force_sane_mode: 24-hour BCD from now on; the registers stay as they are
ForceSaneMode == mode' = Sane

\* bios_rtc_prepare_for_linux: stops the clock, rewrites it in 24-hour BCD and
\* starts it again, without waiting for an update to end
PrepareForLinux ==
  \E r \in Shown :
    LET t    == Decoded(r, mode)
        kept == IF DatetimeValid(t) THEN t ELSE Start
        asIs == \A f \in Fields : Holds(f)
    IN  /\ reg' = [f \in Fields |-> BinToBcd(kept[f])]
        /\ mode' = Sane
        /\ inUpdate' = FALSE
        /\ now' = IF asIs THEN now ELSE kept
        /\ heard' = [part |-> Fields, said |-> kept, truth |-> now', sure |-> ~inUpdate]
        /\ sure' = IF inUpdate THEN {} ELSE {"time", "date"}
        /\ UNCHANGED <<broken, updates>>

\* what the caller hears of one part of the clock
Hear(part, said) ==
  heard' = [part |-> Part[part], said |-> said, truth |-> Pick(now, part), sure |-> part \in sure /\ ~broken]

Noon == [hour |-> 12, min |-> 0, sec |-> 0]
EighthOfMay == [year |-> 26, mon |-> 5, day |-> 8]

\* bios_rtc_read_time_bcd and INT 1Ah AH=02, which answers noon when it fails
ReadTime ==
  /\ Ready
  /\ IF broken THEN UNCHANGED mode ELSE ForceSaneMode
  /\ LET t == [f \in Part.time |-> BcdToBin(IF f = "hour" THEN reg[f] % 128 ELSE reg[f])]
     IN  Hear("time", IF broken \/ t.sec > 59 \/ t.min > 59 \/ t.hour > 23 THEN Noon ELSE t)
  /\ UNCHANGED <<reg, inUpdate, broken, now, sure, updates>>

\* bios_rtc_read_date_bcd and INT 1Ah AH=04
ReadDate ==
  /\ Ready
  /\ IF broken THEN UNCHANGED mode ELSE ForceSaneMode
  /\ LET t == [f \in Part.date |-> BcdToBin(reg[f])]
     IN  Hear("date", IF broken \/ t.day \notin 1 .. 31 \/ t.mon \notin 1 .. 12 THEN EighthOfMay ELSE t)
  /\ UNCHANGED <<reg, inUpdate, broken, now, sure, updates>>

\* rtc_begin_set, the writes and rtc_end_set; only whole values are judged
Write(part, bytes) ==
  /\ ForceSaneMode
  /\ reg' = [f \in Fields |-> IF f \in Part[part] THEN bytes[f] ELSE reg[f]]
  /\ now' = [f \in Fields |-> IF f \in Part[part] THEN BcdToBin(bytes[f]) ELSE now[f]]
  /\ sure' = IF \A f \in Part[part] : RtcDecode(bytes[f], Sane) # Bad
             THEN sure \union {part} ELSE sure \ {part}
  /\ UNCHANGED <<inUpdate, broken, heard, updates>>

\* bios_rtc_set_time_bcd
SetTime(bytes) ==
  LET b == [bytes EXCEPT !.hour = @ % 128]
  IN  IF BcdToBin(b.hour) > 23 \/ BcdToBin(b.min) > 59 \/ BcdToBin(b.sec) > 59 THEN UNCHANGED chip
      ELSE Ready /\ IF broken THEN UNCHANGED chip ELSE Write("time", b)

\* bios_rtc_set_date_bcd
SetDate(bytes) ==
  IF BcdToBin(bytes.mon) \notin 1 .. 12 \/ BcdToBin(bytes.day) \notin 1 .. 31 THEN UNCHANGED chip
  ELSE Ready /\ IF broken THEN UNCHANGED chip ELSE Write("date", bytes)

\* The clock as the last system left it: kept in any form, stopped, or after
\* the battery was changed.
ChipInit ==
  /\ mode \in Modes
  /\ now \in Times
  /\ \/ reg = [f \in Fields |-> Encode(f, now[f], mode)] /\ broken = FALSE
     \/ reg = [f \in Fields |-> 255] /\ broken \in BOOLEAN
  /\ inUpdate = FALSE
  /\ sure = IF mode = Sane /\ reg # [f \in Fields |-> 255] THEN {"time", "date"} ELSE {}
  /\ heard = Silence
  /\ updates = 0
-----------------------------------------------------------------------------
(* What the clock tells is the time it keeps: an answer of INT 1Ah when    *)
(* the registers were left in 24-hour BCD or have been set since, and the  *)
(* clock Linux is given in any case, if no update was under way.           *)
ClockKept == heard.sure => \A f \in heard.part : heard.said[f] = heard.truth[f]

=============================================================================
