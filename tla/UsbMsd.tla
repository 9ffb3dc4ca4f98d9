------------------------------- MODULE UsbMsd -------------------------------
(***************************************************************************)
(* A USB disk (bios_storage.c): selecting it, and reading sectors by the   *)
(* Bulk-Only Transport over a UHCI controller.  A command is three chains  *)
(* of transfer descriptors (TDs): the command block (CBW), the data, and   *)
(* the status (CSW).  Host and device each keep a data toggle per          *)
(* direction, by which a packet sent again is told from a new one.         *)
(*                                                                         *)
(* Controller and device are modelled by what the USB standards ask of     *)
(* them: packets and acknowledgements are lost, the device answers late,   *)
(* fails a command or stalls.                                              *)
(***************************************************************************)
EXTENDS Naturals, Sequences

CONSTANTS
  Capacity,   \* sectors of the disk
  Word,       \* 2^32: a sum of two sector numbers is taken modulo Word
  MaxChunk,   \* usb_msd_max_read_sectors
  Packets,    \* packets of a sector
  Tries,      \* attempts of usb_msd_read_lba_count
  MaxCount,   \* bound: sectors asked for in one call
  MaxFaults   \* bound: packets and answers that go wrong

ASSUME UsbAssumption ==
  /\ Capacity \in 1 .. Word - 1 /\ MaxChunk \in Nat \ {0}
  /\ Packets \in Nat \ {0} /\ Tries \in Nat \ {0}
  /\ MaxCount \in Nat \ {0} /\ MaxFaults \in Nat

VARIABLES
  (* the program *)
  stage,        \* what it is doing: "idle", or the part of a call
  cmd,          \* the command sent last: [op, lba, n]
  phase,        \* the chain that is running, or "done" when it is over
  ok,           \* did the last command succeed?
  sensing,      \* is it the REQUEST SENSE after a failed command?
  attempt,
  lba, left,    \* what is still to read
  hostOut, hostIn,  \* bulk_out_toggle, bulk_in_toggle
  buffer,       \* the packets of this command: data, then status
  dest,         \* the data of the chunks read before
  (* the chain of TDs *)
  tds, toggle,  \* TDs not finished, the toggle in the next one
  (* the device *)
  work,         \* commands it has taken and not begun: at most one
  resp,         \* packets it has to send
  halted,       \* has its bulk-in endpoint stalled?
  devOut, devIn,
  eager,        \* does it take a command while its last CSW is not fetched?
  (* history *)
  call, request, outcome,  \* the last call, the sectors asked for, the result
  selected,     \* did the last selection succeed?
  faults,       \* faults so far,
  began, since  \*   when the call began, and when the device was enumerated

program == <<stage, cmd, phase, ok, sensing, attempt, lba, left, hostOut, hostIn, buffer, dest>>
chain   == <<tds, toggle>>
device  == <<work, resp, halted, devOut, devIn, eager>>
history == <<call, request, outcome, selected, faults, began, since>>
vars    == <<program, chain, device, history>>
-----------------------------------------------------------------------------
Flip(t) == 1 - t

Data(s, k) == [kind |-> "data", lba |-> s, part |-> k]
Padding    == [kind |-> "data", lba |-> Capacity, part |-> 0]
Answer(op) == [kind |-> op]
Csw(good)  == [kind |-> "csw", good |-> good]

(* Sizes in bytes, of what a packet holds and of what a TD has room for.   *)
Size(kind) ==
  CASE kind = "data" -> 64 [] kind = "sense" -> 18 [] kind = "csw" -> 13 [] kind = "capacity" -> 8

Sectors(s, n) == [k \in 1 .. n * Packets |-> Data(s + (k - 1) \div Packets, (k - 1) % Packets)]

(* How many packets, and of which kind, a command's data phase expects.    *)
DataTds(c) == CASE c.op = "ready" -> 0 [] c.op = "read" -> c.n * Packets [] OTHER -> 1
DataKind(c) == IF c.op = "read" THEN "data" ELSE c.op

Command(op)  == [op |-> op, lba |-> 0, n |-> 0]
ReadOf(s, n) == [op |-> "read", lba |-> s, n |-> n]

Chunk == IF left > MaxChunk THEN MaxChunk ELSE left
-----------------------------------------------------------------------------
(* What the device sends for a command: the data, then the status.         *)
Response(c, good) ==
  LET data == IF c.op = "read"
              THEN IF good THEN Sectors(c.lba, c.n)
                   ELSE [k \in 1 .. c.n * Packets |-> Padding]
              ELSE IF c.op = "ready" THEN << >> ELSE <<Answer(c.op)>>
  IN  Append(data, Csw(good))

Possible(c) == c.op = "read" => c.lba + c.n <= Capacity

Takes ==
  /\ work = << >> /\ ~halted
  /\ resp = << >> \/ (eager /\ Len(resp) = 1)

(* A fault is one of a bounded number.                                     *)
Fault == faults < MaxFaults /\ faults' = faults + 1

(* The device answers, fails the command or stalls.                        *)
Respond ==
  /\ work # << >>
  /\ work' = << >>
  /\ \/ /\ resp' = resp \o Response(Head(work), Possible(Head(work)))
        /\ UNCHANGED <<halted, faults>>
     \/ /\ Fault
        /\ \/ resp' = resp \o Response(Head(work), FALSE) /\ UNCHANGED halted
           \/ halted' = TRUE /\ UNCHANGED resp
  /\ UNCHANGED <<program, chain, devOut, devIn, eager, call, request, outcome, selected, began, since>>
-----------------------------------------------------------------------------
(* uhci_run_chain ends a chain at its first TD that fails, or by timeout   *)
(* while its last TD is active.                                            *)
BreakOff ==
  /\ phase' = "done" /\ ok' = FALSE /\ tds' = 0
  /\ UNCHANGED <<stage, cmd, sensing, attempt, lba, left, dest, hostOut, hostIn, buffer, toggle>>

TdDone == tds' = tds - 1 /\ toggle' = Flip(toggle)

Accept ==
  IF toggle = devOut THEN work' = <<cmd>> /\ devOut' = Flip(devOut)
  ELSE UNCHANGED <<work, devOut>>

Deliver ==
  /\ phase = "cbw" /\ tds > 0 /\ Takes
  /\ Accept /\ TdDone
  /\ UNCHANGED <<program, resp, halted, devIn, eager, history>>

(* The CBW, or each acknowledgement of it, is lost in all tries of the TD. *)
LoseOut ==
  /\ phase = "cbw" /\ tds > 0 /\ Takes
  /\ Fault /\ BreakOff
  /\ Accept \/ UNCHANGED <<work, devOut>>
  /\ UNCHANGED <<resp, halted, devIn, eager, call, request, outcome, selected, began, since>>

In == phase \in {"data", "csw"} /\ tds > 0

Room == Size(IF phase = "csw" THEN "csw" ELSE DataKind(cmd))

Receive ==
  /\ In /\ ~halted /\ resp # << >>
  /\ toggle = devIn /\ Size(Head(resp).kind) <= Room
  /\ buffer' = Append(buffer, Head(resp)) /\ TdDone
  /\ \/ resp' = Tail(resp) /\ devIn' = Flip(devIn) /\ UNCHANGED faults
     \/ Fault /\ UNCHANGED <<resp, devIn>>   \* the acknowledgement is lost
  /\ UNCHANGED <<stage, cmd, phase, ok, sensing, attempt, lba, left, dest, hostOut, hostIn,
                 work, halted, devOut, eager, call, request, outcome, selected, began, since>>

(* A packet with the other toggle is acknowledged and thrown away.         *)
Duplicate ==
  /\ In /\ ~halted /\ resp # << >> /\ toggle # devIn
  /\ resp' = Tail(resp) /\ devIn' = Flip(devIn)
  /\ UNCHANGED <<program, chain, work, halted, devOut, eager, history>>

(* A packet too long for its TD, or an endpoint that has stalled.          *)
Refuse ==
  /\ In
  /\ halted \/ (resp # << >> /\ toggle = devIn /\ Size(Head(resp).kind) > Room)
  /\ BreakOff /\ UNCHANGED <<device, history>>

LoseIn ==
  /\ In /\ ~halted /\ resp # << >>
  /\ Fault /\ BreakOff
  /\ UNCHANGED <<device, call, request, outcome, selected, began, since>>

(* Nothing comes, or it comes too late.                                    *)
TimeOut ==
  /\ tds > 0
  /\ IF phase = "cbw" THEN ~Takes ELSE ~halted /\ resp = << >>
  /\ IF work = << >> THEN UNCHANGED faults ELSE Fault
  /\ BreakOff
  /\ UNCHANGED <<device, call, request, outcome, selected, began, since>>
-----------------------------------------------------------------------------
(* usb_msd_command: its three chains, queued by uhci_bulk, which hands out *)
(* toggles as it queues and not as TDs succeed.                            *)
Issue(c, out) ==
  /\ cmd' = c /\ phase' = "cbw" /\ buffer' = << >>
  /\ tds' = 1 /\ toggle' = out /\ hostOut' = Flip(out)
  /\ UNCHANGED ok

QueueIn(n) == tds' = n /\ toggle' = hostIn /\ hostIn' = (hostIn + n) % 2

DataPhase ==
  /\ phase = "cbw" /\ tds = 0 /\ DataTds(cmd) > 0
  /\ phase' = "data" /\ QueueIn(DataTds(cmd))
  /\ UNCHANGED <<stage, cmd, ok, sensing, attempt, lba, left, dest, hostOut, buffer, device, history>>

StatusPhase ==
  /\ phase = "data" \/ (phase = "cbw" /\ DataTds(cmd) = 0)
  /\ tds = 0
  /\ phase' = "csw" /\ QueueIn(1)
  /\ UNCHANGED <<stage, cmd, ok, sensing, attempt, lba, left, dest, hostOut, buffer, device, history>>

FaultGood(packet) == packet.kind = "csw"

(* The signature, the tag, which is the same for every command, and the    *)
(* status.                                                                 *)
Good(packet) == packet.kind = "csw" /\ packet.good

FaultCheckStatus ==
  /\ phase = "csw" /\ tds = 0
  /\ phase' = "done" /\ ok' = Good(buffer[Len(buffer)])
  /\ hostIn' = (IF ok' THEN hostIn ELSE 0)
  /\ UNCHANGED <<stage, cmd, sensing, attempt, lba, left, dest, hostOut, buffer,
                 chain, device, history>>

CheckStatus ==
  /\ phase = "csw" /\ tds = 0
  /\ phase' = "done" /\ ok' = Good(buffer[Len(buffer)])
  /\ UNCHANGED <<stage, cmd, sensing, attempt, lba, left, dest, hostOut, hostIn, buffer,
                 chain, device, history>>

(* usb_msd_request_sense after a command that failed.                      *)
Sense ==
  /\ stage # "idle" /\ phase = "done" /\ ~ok /\ ~sensing
  /\ sensing' = TRUE /\ Issue(Command("sense"), hostOut)
  /\ UNCHANGED <<stage, attempt, lba, left, dest, hostIn, device, history>>

Settled(s) == stage = s /\ phase = "done" /\ (ok \/ sensing)

End(result) == stage' = "idle" /\ outcome' = result
-----------------------------------------------------------------------------
(* bios_hdd_select_kind: the disk is taken as the last scan found it, with *)
(* the toggles set to 0 on the program's side only, and told to get ready; *)
SelectUsb ==
  /\ stage = "idle"
  /\ stage' = "activate" /\ sensing' = FALSE
  /\ Issue(Command("ready"), 0) /\ hostIn' = 0
  /\ call' = "select" /\ selected' = FALSE /\ began' = faults
  /\ request' = <<0, 0>> /\ dest' = << >>
  /\ UNCHANGED <<attempt, lba, left, device, outcome, faults, since>>

DeviceReset ==
  /\ work' = << >> /\ resp' = << >> /\ halted' = FALSE
  /\ devOut' = 0 /\ devIn' = 0 /\ UNCHANGED eager

FaultEnumerated ==
  /\ stage' = "ready" /\ sensing' = FALSE
  /\ Issue(Command("ready"), hostOut) /\ UNCHANGED hostIn
  /\ DeviceReset
  /\ since' = faults /\ UNCHANGED <<faults, outcome>>

Enumerated ==
  /\ stage' = "ready" /\ sensing' = FALSE
  /\ Issue(Command("ready"), 0) /\ hostIn' = 0
  /\ DeviceReset
  /\ since' = faults /\ UNCHANGED <<faults, outcome>>

(* usb_refresh_boot_device then resets controller and device and           *)
(* enumerates it, which may fail,                                          *)
Enumerate ==
  /\ Settled("activate")
  /\ \/ Enumerated
     \/ /\ Fault /\ End("failed")
        /\ DeviceReset \/ UNCHANGED device
        /\ UNCHANGED <<cmd, phase, ok, sensing, hostOut, hostIn, buffer, chain, since>>
  /\ UNCHANGED <<attempt, lba, left, dest, call, request, selected, began>>

(* asks for the capacity,                                                  *)
AskCapacity ==
  /\ Settled("ready")
  /\ stage' = "capacity" /\ sensing' = FALSE /\ Issue(Command("capacity"), hostOut)
  /\ UNCHANGED <<attempt, lba, left, dest, hostIn, device, history>>

(* and reads the first sector.                                             *)
Probe ==
  /\ Settled("capacity") /\ ~sensing
  /\ stage' = "probe" /\ attempt' = 1 /\ lba' = 0 /\ left' = 1
  /\ Issue(ReadOf(0, 1), hostOut)
  /\ UNCHANGED <<sensing, dest, hostIn, device, history>>

NoCapacity ==
  /\ Settled("capacity") /\ sensing
  /\ End("failed")
  /\ UNCHANGED <<cmd, phase, ok, sensing, attempt, lba, left, dest, hostOut, hostIn, buffer,
                 chain, device, call, request, selected, faults, began, since>>

Registered ==
  /\ Settled("probe") /\ ~sensing
  /\ End("ok") /\ selected' = TRUE
  /\ UNCHANGED <<cmd, phase, ok, sensing, attempt, lba, left, dest, hostOut, hostIn, buffer,
                 chain, device, call, request, faults, began, since>>
-----------------------------------------------------------------------------
InRange(s, n) == n > 0 /\ (s + n) % Word <= Capacity

(* bios_hdd_read_sectors, in chunks, each of which is tried a few times.   *)
Read(s, n) ==
  /\ stage = "idle" /\ selected
  /\ call' = "read" /\ request' = <<s, n>> /\ began' = faults /\ dest' = << >>
  /\ IF InRange(s, n)
     THEN /\ stage' = "read" /\ lba' = s /\ left' = n /\ attempt' = 1 /\ sensing' = FALSE
          /\ Issue(ReadOf(s, IF n > MaxChunk THEN MaxChunk ELSE n), hostOut)
          /\ UNCHANGED outcome
     ELSE /\ outcome' = "refused"
          /\ UNCHANGED <<stage, lba, left, attempt, sensing, cmd, phase, buffer, chain,
                         hostOut, ok>>
  /\ UNCHANGED <<hostIn, device, selected, faults, since>>

FaultNextChunk ==
  /\ Settled("read") /\ ~sensing
  /\ lba' = lba + MaxChunk /\ left' = left - 1
  /\ dest' = dest \o SubSeq(buffer, 1, Len(buffer) - 1)
  /\ IF left' = 0
     THEN /\ End("ok")
          /\ UNCHANGED <<attempt, cmd, phase, buffer, chain, hostOut, ok>>
     ELSE /\ attempt' = 1
          /\ Issue(ReadOf(lba', IF left' > MaxChunk THEN MaxChunk ELSE left'), hostOut)
          /\ UNCHANGED <<stage, outcome>>
  /\ UNCHANGED <<sensing, hostIn, device, call, request, selected, faults, began, since>>

NextChunk ==
  /\ Settled("read") /\ ~sensing
  /\ lba' = lba + Chunk /\ left' = left - Chunk
  /\ dest' = dest \o SubSeq(buffer, 1, Len(buffer) - 1)
  /\ IF left' = 0
     THEN /\ End("ok")
          /\ UNCHANGED <<attempt, cmd, phase, buffer, chain, hostOut, ok>>
     ELSE /\ attempt' = 1
          /\ Issue(ReadOf(lba', IF left' > MaxChunk THEN MaxChunk ELSE left'), hostOut)
          /\ UNCHANGED <<stage, outcome>>
  /\ UNCHANGED <<sensing, hostIn, device, call, request, selected, faults, began, since>>

FaultRetry ==
  /\ Settled("probe") \/ Settled("read")
  /\ sensing
  /\ attempt' = attempt /\ sensing' = FALSE /\ Issue(ReadOf(lba, Chunk), hostOut)
  /\ UNCHANGED <<stage, lba, left, dest, hostIn, device, history>>

Retry ==
  /\ Settled("probe") \/ Settled("read")
  /\ sensing /\ attempt < Tries
  /\ attempt' = attempt + 1 /\ sensing' = FALSE /\ Issue(ReadOf(lba, Chunk), hostOut)
  /\ UNCHANGED <<stage, lba, left, dest, hostIn, device, history>>

GiveUp ==
  /\ Settled("probe") \/ Settled("read")
  /\ sensing /\ attempt = Tries
  /\ End("failed")
  /\ UNCHANGED <<cmd, phase, ok, sensing, attempt, lba, left, dest, hostOut, hostIn, buffer,
                 chain, device, call, request, selected, faults, began, since>>
-----------------------------------------------------------------------------
(* The device as an earlier program left it: this one has only the copy of *)
(* the state it got in the storage snapshot.                               *)
Init ==
  /\ stage = "idle" /\ cmd = Command("ready") /\ phase = "done"
  /\ ok = FALSE /\ sensing = FALSE /\ attempt = 1 /\ lba = 0 /\ left = 0
  /\ hostOut \in {0, 1} /\ hostIn \in {0, 1} /\ buffer = << >> /\ dest = << >>
  /\ tds = 0 /\ toggle = 0
  /\ work = << >> /\ resp \in {<< >>, <<Csw(TRUE)>>, Response(ReadOf(0, 1), TRUE)}
  /\ halted \in BOOLEAN /\ devOut \in {0, 1} /\ devIn \in {0, 1} /\ eager \in BOOLEAN
  /\ call = "none" /\ request = <<0, 0>> /\ outcome = "none" /\ selected = FALSE
  /\ faults = 0 /\ began = 0 /\ since = 0

Controller == Deliver \/ LoseOut \/ Receive \/ Duplicate \/ Refuse \/ LoseIn \/ TimeOut

Program ==
  \/ DataPhase \/ StatusPhase \/ CheckStatus \/ Sense
  \/ Enumerate \/ AskCapacity \/ Probe \/ NoCapacity \/ Registered
  \/ NextChunk \/ Retry \/ GiveUp

Next ==
  \/ Respond \/ Controller \/ Program
  \/ SelectUsb \/ \E s \in 0 .. Word - 1, n \in 1 .. MaxCount : Read(s, n)

(* The processor runs on, the controller serves its schedule, and a device *)
(* that has a command gets to it; nobody has to call.                      *)
Fairness == WF_vars(Program) /\ WF_vars(Controller) /\ WF_vars(Respond)

Spec == Init /\ [][Next]_vars /\ Fairness
-----------------------------------------------------------------------------
(* A read that returns success brought the sectors asked for, all of them  *)
(* and in order, whatever was lost or repeated on the bus or left over     *)
(* from the commands before it; and a capacity taken is a capacity sent.   *)
ReadsAreRight ==
  /\ stage = "idle" /\ call = "read" /\ outcome = "ok" =>
       dest = Sectors(request[1], request[2])
  /\ Settled("capacity") /\ ~sensing => buffer[1] = Answer("capacity")

(* As long as nothing has failed since the disk was enumerated, host and   *)
(* device agree on both toggles between calls, and nothing is left over.   *)
InStep ==
  stage = "idle" /\ selected /\ faults = since =>
    /\ hostOut = devOut /\ hostIn = devIn
    /\ work = << >> /\ resp = << >> /\ ~halted

(* Whatever state earlier failures left the device and the toggles in, a   *)
(* selection in which nothing fails anew makes the disk work again.        *)
SelectionRepairs ==
  stage = "idle" /\ call = "select" /\ outcome = "failed" => faults > began

(* A read of sectors the disk has fails only after something failed on the *)
(* bus or in the device.                                                   *)
ReadsSucceed ==
  stage = "idle" /\ call = "read" /\ outcome = "failed" =>
    faults > since \/ request[1] + request[2] > Capacity

(* Every call returns, also when the device does not answer.               *)
CallsReturn == stage # "idle" ~> stage = "idle"
=============================================================================
