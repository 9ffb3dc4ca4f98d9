------------------------------ MODULE UsbProofs ------------------------------
(* Theorems about reading from a USB disk, for every size of the disk, of  *)
(* a sector and of a chunk, every number of tries and any number of        *)
(* faults.                                                                 *)
EXTENDS UsbMsd, SequenceTheorems, TLAPS

Bits == {0, 1}

Ops == {"ready", "sense", "capacity", "read"}

Commands == [op : Ops, lba : Nat, n : Nat]

Stuff ==
  {Csw(good) : good \in BOOLEAN} \cup {Answer(op) : op \in {"sense", "capacity"}}
    \cup {Data(s, k) : s \in Nat, k \in Nat}

TypeInv ==
  /\ stage \in {"idle", "activate", "ready", "capacity", "probe", "read"}
  /\ cmd \in Commands /\ phase \in {"cbw", "data", "csw", "done"}
  /\ ok \in BOOLEAN /\ sensing \in BOOLEAN
  /\ lba \in Nat /\ left \in Nat
  /\ hostOut \in Bits /\ hostIn \in Bits /\ toggle \in Bits
  /\ devOut \in Bits /\ devIn \in Bits
  /\ buffer \in Seq(Stuff) /\ tds \in Nat
  /\ work = << >> \/ (\E c \in Commands : work = <<c>>)
  /\ resp \in Seq(Stuff)
  /\ halted \in BOOLEAN
  /\ faults \in Nat

(* What is under way.                                                      *)
Expected ==
  IF sensing THEN Command("sense")
  ELSE CASE stage = "capacity" -> Command("capacity")
         [] stage \in {"probe", "read"} -> ReadOf(lba, Chunk)
         [] OTHER -> Command("ready")

CallInv ==
  /\ stage = "idle" => phase = "done"
  /\ stage # "idle" => cmd = Expected
  /\ stage \in {"probe", "read"} => left > 0

(* The chains of a command, with the packets they bring.                   *)
ChainInv ==
  /\ phase = "cbw" => buffer = << >> /\ tds <= 1
  /\ phase = "data" =>
       /\ DataTds(cmd) > 0 /\ Len(buffer) + tds = DataTds(cmd)
       /\ hostIn = (toggle + tds) % 2
  /\ phase = "csw" => Len(buffer) + tds = DataTds(cmd) + 1 /\ tds <= 1
  /\ phase = "done" => tds = 0

-----------------------------------------------------------------------------
(* The device has the command in hand or has answered it.                  *)
Running == (phase = "cbw" /\ tds = 0) \/ phase \in {"data", "csw"}

(* Is the next packet of the device one that the program has already?      *)
Repeated == IF buffer # << >> /\ toggle # devIn THEN 1 ELSE 0

(* The packets of an answer, counted from 2: the first is a status that    *)
(* was left over from a command before.                                    *)
Is(c, packet, k, good) ==
  IF k = 1 THEN packet.kind = "csw"
  ELSE k \in 2 .. DataTds(c) + 2 /\ packet = Response(c, good)[k - 1]

Unanswered ==
  /\ work = << >> \/ work = <<cmd>>
  /\ Len(buffer) + Len(resp) <= 1 + Repeated /\ Repeated <= Len(resp)
  /\ \A j \in 1 .. Len(buffer) : buffer[j].kind = "csw"
  /\ \A i \in 1 .. Len(resp) : resp[i].kind = "csw"

(* The program and the device are at the same place of the answer, of      *)
(* which it missed the first skipped packets.                              *)
InFlow(good, skipped) ==
  /\ work = << >>
  /\ \A j \in 1 .. Len(buffer) : Is(cmd, buffer[j], j + skipped, good)
  /\ \A i \in 1 .. Len(resp) : Is(cmd, resp[i], i + Len(buffer) + skipped - Repeated, good)
  /\ Len(buffer) + Len(resp) + skipped = DataTds(cmd) + 2 + Repeated
  /\ skipped = 2 => phase # "cbw" /\ (toggle = devIn \/ buffer # << >>)

StreamInv ==
  /\ resp # << >> => resp[Len(resp)].kind = "csw"
  /\ Running => Unanswered \/ \E good \in BOOLEAN, skipped \in 0 .. 2 : InFlow(good, skipped)

(* What a command that succeeded has brought.                              *)
Brought ==
  phase = "done" /\ ok /\ DataTds(cmd) > 0 =>
    /\ Len(buffer) = DataTds(cmd) + 1
    /\ \A j \in 1 .. DataTds(cmd) : buffer[j] = Response(cmd, TRUE)[j]

(* What a read has brought so far.                                         *)
ReadInv ==
  /\ stage = "read" =>
       /\ call = "read" /\ request \in (0 .. Word - 1) \X (1 .. MaxCount)
       /\ lba >= request[1] /\ lba + left = request[1] + request[2]
       /\ dest = Sectors(request[1], lba - request[1])
  /\ stage \notin {"idle", "read"} => call = "select"
  /\ stage = "idle" /\ call = "read" /\ outcome = "ok" =>
       dest = Sectors(request[1], request[2])

IInv == TypeInv /\ CallInv /\ ChainInv /\ StreamInv /\ Brought /\ ReadInv

-----------------------------------------------------------------------------
(* From the enumeration on, as long as nothing has failed.                 *)
Smooth ==
  /\ stage \in {"ready", "capacity", "probe", "read"} \/ (stage = "idle" /\ selected)
  /\ faults = since

SmoothInv ==
  Smooth =>
    /\ ~halted
    /\ phase = "cbw" /\ tds = 1 =>
         /\ work = << >> /\ resp = << >>
         /\ toggle = devOut /\ hostOut = Flip(devOut) /\ hostIn = devIn
    /\ Running =>
         /\ hostOut = devOut
         /\ IF phase = "cbw" THEN hostIn = devIn
            ELSE toggle = devIn /\ hostIn = (toggle + tds) % 2
         /\ \/ work = <<cmd>> /\ resp = << >> /\ buffer = << >>
            \/ \E good \in BOOLEAN : (good <=> Possible(cmd)) /\ InFlow(good, 1)
    /\ phase = "done" =>
         /\ work = << >> /\ resp = << >> /\ hostOut = devOut /\ hostIn = devIn
         /\ stage # "idle" => (ok <=> Possible(cmd))

CauseInv ==
  /\ began \in Nat /\ since \in Nat /\ began <= faults /\ since <= faults
  /\ stage \in {"ready", "capacity", "probe"} => began <= since
  /\ stage \in {"capacity", "probe"} /\ sensing => faults > since
  /\ stage = "read" /\ sensing => faults > since \/ lba + Chunk > Capacity
  /\ stage = "probe" => lba = 0 /\ left = 1
  /\ SelectionRepairs /\ ReadsSucceed
  /\ selected => stage \in {"idle", "read"}

FullInv == IInv /\ SmoothInv /\ CauseInv

-----------------------------------------------------------------------------
(* Packets, sectors and answers. *)

LEMMA Quotient ==
  ASSUME NEW a \in Nat, NEW x \in Nat
  PROVE  /\ x \div Packets \in Nat /\ x % Packets \in Nat
         /\ (a * Packets + x) \div Packets = a + x \div Packets
         /\ (a * Packets + x) % Packets = x % Packets
PROOF
  <1> DEFINE q == x \div Packets
             r == x % Packets
             y == a * Packets + x
  <1>1. /\ q \in Nat /\ r \in 0 .. Packets - 1 /\ x = Packets * q + r
        /\ Packets \in Nat \ {0}
    BY UsbAssumption
  <1>2. a * Packets \in Nat /\ y \in Nat /\ y = Packets * (a + q) + r
    BY <1>1
  <1> DEFINE k == a + q
             d == y \div Packets
             m == y % Packets
  <1>3. k \in Nat /\ d \in Nat /\ m \in 0 .. Packets - 1 /\ y = Packets * d + m
    BY <1>1, <1>2
  <1>4. y = Packets * k + r
    BY <1>2
  <1> HIDE DEF k, d, m, y, q, r
  <1>5. \A i, j \in Nat : i < j => Packets * i + Packets <= Packets * j
    <2> SUFFICES ASSUME NEW i \in Nat, NEW j \in Nat, i < j
                 PROVE  Packets * i + Packets <= Packets * j
      OBVIOUS
    <2> DEFINE e == j - i - 1
    <2>1. e \in Nat /\ j = i + 1 + e
      OBVIOUS
    <2>2. Packets * e \in Nat
      BY <1>1, <2>1
    <2>3. Packets * j = Packets * i + Packets + Packets * e
      BY <1>1, <2>1
    <2>4. Packets * i \in Nat
      BY <1>1
    <2> HIDE DEF e
    <2> QED
      BY <1>1, <2>2, <2>3, <2>4
  <1>6. d = k
    <2>1. Packets * d \in Nat /\ Packets * k \in Nat
      BY <1>1, <1>3
    <2>2. ~(d < k) /\ ~(k < d)
      BY <1>1, <1>3, <1>4, <1>5, <2>1
    <2> QED
      BY <1>3, <2>2
  <1>7. m = r
    BY <1>1, <1>3, <1>4, <1>6
  <1> QED
    BY <1>1, <1>6, <1>7 DEF d, k, m, q, r, y

LEMMA PacketKinds ==
  /\ \A p \in Stuff : p.kind \in {"data", "csw", "sense", "capacity"}
  /\ \A good \in BOOLEAN : Csw(good) \in Stuff /\ Csw(good).kind = "csw"
  /\ \A op \in {"sense", "capacity"} : Answer(op) \in Stuff /\ Answer(op).kind = op
  /\ \A s, k \in Nat : Data(s, k) \in Stuff /\ Data(s, k).kind = "data"
  /\ Padding \in Stuff /\ Padding.kind = "data"
PROOF
  <1>1. \A good \in BOOLEAN : Csw(good) \in Stuff /\ Csw(good).kind = "csw"
    BY DEF Stuff, Csw
  <1>2. \A op \in {"sense", "capacity"} : Answer(op) \in Stuff /\ Answer(op).kind = op
    BY DEF Stuff, Answer
  <1>3. \A s, k \in Nat : Data(s, k) \in Stuff /\ Data(s, k).kind = "data"
    BY DEF Stuff, Data
  <1>4. Padding \in Stuff /\ Padding.kind = "data"
    <2>1. Capacity \in Nat /\ 0 \in Nat /\ Padding = Data(Capacity, 0)
      BY UsbAssumption DEF Padding, Data
    <2> QED
      BY <1>3, <2>1
  <1>5. \A p \in Stuff : p.kind \in {"data", "csw", "sense", "capacity"}
    BY <1>1, <1>2, <1>3 DEF Stuff
  <1> QED
    BY <1>1, <1>2, <1>3, <1>4, <1>5

LEMMA SectorList ==
  ASSUME NEW s \in Nat, NEW n \in Nat
  PROVE  /\ n * Packets \in Nat
         /\ Sectors(s, n) \in Seq(Stuff) /\ Len(Sectors(s, n)) = n * Packets
         /\ \A k \in 1 .. n * Packets :
              Sectors(s, n)[k] = Data(s + (k - 1) \div Packets, (k - 1) % Packets)
         /\ \A k \in 1 .. n * Packets : Sectors(s, n)[k].kind = "data"
PROOF
  <1> DEFINE len == n * Packets
             p(k) == Data(s + (k - 1) \div Packets, (k - 1) % Packets)
  <1>1. len \in Nat
    BY UsbAssumption
  <1>2. ASSUME NEW k \in 1 .. len
        PROVE  p(k) \in Stuff /\ p(k).kind = "data"
    <2>1. k - 1 \in Nat
      BY <1>1
    <2>2. (k - 1) \div Packets \in Nat /\ (k - 1) % Packets \in Nat
      BY <2>1, Quotient
    <2>3. s + (k - 1) \div Packets \in Nat
      BY <2>2
    <2> QED
      BY <2>2, <2>3, PacketKinds
  <1>3. Sectors(s, n) = [k \in 1 .. len |-> p(k)]
    BY DEF Sectors
  <1> HIDE DEF len, p
  <1>4. [k \in 1 .. len |-> p(k)] \in Seq(Stuff)
    BY <1>1, <1>2, IsASeq
  <1>5. Len([k \in 1 .. len |-> p(k)]) = len
    BY <1>1
  <1> QED
    BY <1>1, <1>2, <1>3, <1>4, <1>5 DEF len, p

(* Reading on where a read ended makes one longer read.                    *)
LEMMA SectorsJoin ==
  ASSUME NEW s \in Nat, NEW a \in Nat, NEW b \in Nat
  PROVE  Sectors(s, a) \o Sectors(s + a, b) = Sectors(s, a + b)
PROOF
  <1> DEFINE x == a * Packets
             y == b * Packets
             u == Sectors(s, a)
             v == Sectors(s + a, b)
             w == Sectors(s, a + b)
  <1>1. x \in Nat /\ y \in Nat /\ (a + b) * Packets = x + y /\ s + a \in Nat /\ a + b \in Nat
    BY UsbAssumption
  <1>2. /\ u \in Seq(Stuff) /\ Len(u) = x
        /\ \A k \in 1 .. x : u[k] = Data(s + (k - 1) \div Packets, (k - 1) % Packets)
    BY SectorList
  <1>3. /\ v \in Seq(Stuff) /\ Len(v) = y
        /\ \A k \in 1 .. y : v[k] = Data(s + a + (k - 1) \div Packets, (k - 1) % Packets)
    BY <1>1, SectorList
  <1>4. /\ w \in Seq(Stuff) /\ Len(w) = x + y
        /\ \A k \in 1 .. x + y : w[k] = Data(s + (k - 1) \div Packets, (k - 1) % Packets)
    BY <1>1, SectorList
  <1>5. ASSUME NEW k \in Nat, k > x, k <= x + y
        PROVE  v[k - x] = w[k]
    <2> DEFINE j == k - x - 1
    <2>1. j \in Nat /\ k - x \in 1 .. y /\ k \in 1 .. x + y /\ k - x - 1 = j /\ k - 1 = x + j
      BY <1>1, <1>5
    <2>2. /\ j \div Packets \in Nat
          /\ (x + j) \div Packets = a + j \div Packets
          /\ (x + j) % Packets = j % Packets
      BY <2>1, Quotient
    <2>3. s + a + j \div Packets = s + (a + j \div Packets)
      BY <2>2
    <2>4. v[k - x] = Data(s + a + j \div Packets, j % Packets)
      BY <1>3, <2>1
    <2>5. w[k] = Data(s + (x + j) \div Packets, (x + j) % Packets)
      BY <1>4, <2>1
    <2> QED
      BY <2>2, <2>3, <2>4, <2>5
  <1> HIDE DEF x, y, u, v, w
  <1>6. /\ u \o v \in Seq(Stuff) /\ Len(u \o v) = x + y
        /\ \A k \in 1 .. x + y : (u \o v)[k] = IF k <= x THEN u[k] ELSE v[k - x]
    BY <1>2, <1>3, ConcatProperties
  <1>7. \A k \in 1 .. x + y : (u \o v)[k] = w[k]
    <2> TAKE k \in 1 .. x + y
    <2>1. CASE k <= x
      <3>1. k \in 1 .. x
        BY <1>1, <2>1
      <3> QED
        BY <1>2, <1>4, <1>6, <2>1, <3>1
    <2>2. CASE ~(k <= x)
      <3>1. k \in Nat /\ k > x /\ k <= x + y
        BY <1>1, <2>2
      <3> QED
        BY <1>5, <1>6, <2>2, <3>1
    <2> QED
      BY <2>1, <2>2
  <1>8. u \o v = w
    BY <1>4, <1>6, <1>7, SeqEqual
  <1> QED
    BY <1>8 DEF u, v, w

LEMMA AnswerLength == \A c \in Commands : DataTds(c) \in Nat
PROOF
  BY UsbAssumption, SMT DEF Commands, Ops, DataTds

LEMMA Answers ==
  ASSUME NEW c \in Commands, NEW good \in BOOLEAN
  PROVE  /\ Response(c, good) \in Seq(Stuff)
         /\ Len(Response(c, good)) = DataTds(c) + 1
         /\ Response(c, good)[DataTds(c) + 1] = Csw(good)
         /\ \A j \in 1 .. DataTds(c) :
              Response(c, good)[j].kind = DataKind(c) /\ DataKind(c) # "csw"
         /\ c.op = "read" /\ good =>
              \A j \in 1 .. DataTds(c) : Response(c, good)[j] = Sectors(c.lba, c.n)[j]
PROOF
  <1> DEFINE data == IF c.op = "read"
                     THEN IF good THEN Sectors(c.lba, c.n)
                          ELSE [k \in 1 .. c.n * Packets |-> Padding]
                     ELSE IF c.op = "ready" THEN << >> ELSE <<Answer(c.op)>>
             len == DataTds(c)
  <1>1. c.op \in Ops /\ c.lba \in Nat /\ c.n \in Nat
    BY DEF Commands
  <1>2. len \in Nat
    BY AnswerLength
  <1>3. /\ data \in Seq(Stuff) /\ Len(data) = len
        /\ \A j \in 1 .. len : data[j].kind = DataKind(c) /\ DataKind(c) # "csw"
        /\ c.op = "read" /\ good => data = Sectors(c.lba, c.n)
    <2>1. CASE c.op = "read" /\ good
      <3>1. data = Sectors(c.lba, c.n) /\ len = c.n * Packets /\ DataKind(c) = "data"
        BY <2>1 DEF DataTds, DataKind
      <3>2. /\ Sectors(c.lba, c.n) \in Seq(Stuff) /\ Len(Sectors(c.lba, c.n)) = c.n * Packets
            /\ \A k \in 1 .. c.n * Packets : Sectors(c.lba, c.n)[k].kind = "data"
        BY <1>1, SectorList
      <3> HIDE DEF data, len
      <3> QED
        BY <3>1, <3>2
    <2>2. CASE c.op = "read" /\ ~good
      <3> DEFINE m == c.n * Packets
                 p == [k \in 1 .. m |-> Padding]
      <3>1. data = p /\ len = m /\ DataKind(c) = "data" /\ m \in Nat
        BY <1>1, <2>2, UsbAssumption DEF DataTds, DataKind
      <3> HIDE DEF m
      <3>2. p \in Seq(Stuff) /\ Len(p) = m
        BY <3>1, PacketKinds
      <3>3. \A j \in 1 .. m : p[j].kind = "data"
        BY PacketKinds
      <3> HIDE DEF p, data
      <3> QED
        BY <2>2, <3>1, <3>2, <3>3
    <2>3. CASE c.op = "ready"
      <3>1. data = << >> /\ len = 0
        BY <2>3 DEF DataTds
      <3> HIDE DEF data
      <3> QED
        BY <2>3, <3>1, EmptySeq
    <2>4. CASE c.op \in {"sense", "capacity"}
      <3>1. data = <<Answer(c.op)>> /\ len = 1 /\ DataKind(c) = c.op
        BY <2>4 DEF DataTds, DataKind
      <3>2. Answer(c.op) \in Stuff /\ Answer(c.op).kind = c.op
        BY <2>4, PacketKinds
      <3> HIDE DEF data
      <3> QED
        BY <2>4, <3>1, <3>2
    <2> QED
      BY <1>1, <2>1, <2>2, <2>3, <2>4 DEF Ops
  <1>4. Response(c, good) = Append(data, Csw(good))
    BY DEF Response
  <1>5. Csw(good) \in Stuff
    BY PacketKinds
  <1> HIDE DEF data
  <1>6. /\ Append(data, Csw(good)) \in Seq(Stuff)
        /\ Len(Append(data, Csw(good))) = len + 1
        /\ Append(data, Csw(good))[len + 1] = Csw(good)
        /\ \A j \in 1 .. len : Append(data, Csw(good))[j] = data[j]
    BY <1>2, <1>3, <1>5
  <1> QED
    BY <1>3, <1>4, <1>6

-----------------------------------------------------------------------------
(* Control: what is under way, and how far it is. *)

LEMMA CommandsIssued ==
  /\ \A op \in {"ready", "sense", "capacity"} :
       Command(op) \in Commands /\ Command(op).op = op
  /\ \A s, n \in Nat : ReadOf(s, n) \in Commands
PROOF
  BY DEF Command, ReadOf, Commands, Ops

LEMMA ChunkFits ==
  ASSUME NEW s \in Nat, NEW n \in Nat, n > 0
  PROVE  /\ (IF n > MaxChunk THEN MaxChunk ELSE n) \in 1 .. n
         /\ ReadOf(s, IF n > MaxChunk THEN MaxChunk ELSE n) \in Commands
PROOF
  <1>1. (IF n > MaxChunk THEN MaxChunk ELSE n) \in 1 .. n
    BY UsbAssumption
  <1> DEFINE m == IF n > MaxChunk THEN MaxChunk ELSE n
  <1>2. m \in Nat
    BY <1>1
  <1> QED
    BY <1>1, <1>2, CommandsIssued

LEMMA TypeInitial == Init => TypeInv
PROOF
  <1> SUFFICES ASSUME Init PROVE TypeInv
    OBVIOUS
  <1>1. cmd \in Commands
    BY CommandsIssued DEF Init
  <1>2. buffer \in Seq(Stuff)
    BY DEF Init
  <1>3. resp \in Seq(Stuff)
    <2>1. CASE resp = << >>
      BY <2>1
    <2>2. CASE resp = <<Csw(TRUE)>>
      <3> DEFINE p == Csw(TRUE)
      <3>1. p \in Stuff
        BY PacketKinds
      <3> HIDE DEF p
      <3>2. <<p>> \in Seq(Stuff)
        BY <3>1
      <3> QED
        BY <2>2, <3>2 DEF p
    <2>3. CASE resp = Response(ReadOf(0, 1), TRUE)
      <3>1. ReadOf(0, 1) \in Commands
        BY CommandsIssued
      <3> QED
        BY <2>3, <3>1, Answers
    <2> QED
      BY <2>1, <2>2, <2>3 DEF Init
  <1> QED
    BY <1>1, <1>2, <1>3 DEF Init, TypeInv, Bits

LEMMA IssueTypes ==
  ASSUME TypeInv, NEW c \in Commands, NEW out \in Bits, Issue(c, out)
  PROVE  /\ cmd' \in Commands /\ phase' = "cbw" /\ ok' \in BOOLEAN
         /\ hostOut' \in Bits /\ toggle' \in Bits
         /\ buffer' \in Seq(Stuff) /\ tds' \in Nat
PROOF
  BY DEF Issue, Flip, Bits, TypeInv

LEMMA TypeNext == TypeInv /\ CallInv /\ [Next]_vars => TypeInv'
PROOF
  <1> SUFFICES ASSUME TypeInv, CallInv, [Next]_vars PROVE TypeInv'
    OBVIOUS
  <1> USE DEF Bits
  <1>c. DataTds(cmd) \in Nat
    BY AnswerLength DEF TypeInv
  <1>f. ASSUME Fault PROVE faults' \in Nat
    BY <1>f DEF Fault, TypeInv
  <1>1. CASE Respond
    <2>1. PICK c \in Commands : work = <<c>>
      BY <1>1 DEF Respond, TypeInv
    <2>2. Head(work) = c
      BY <2>1
    <2>3. ASSUME NEW good \in BOOLEAN
          PROVE  resp \o Response(Head(work), good) \in Seq(Stuff)
      BY <2>2, Answers DEF TypeInv
    <2>4. resp' \in Seq(Stuff)
      <3>1. \/ resp' = resp \o Response(Head(work), Possible(Head(work)))
            \/ resp' = resp \o Response(Head(work), FALSE)
            \/ resp' = resp
        BY <1>1 DEF Respond
      <3>2. Possible(Head(work)) \in BOOLEAN /\ FALSE \in BOOLEAN
        BY DEF Possible
      <3> QED
        BY <2>3, <3>1, <3>2, Zenon DEF TypeInv
    <2>5. faults' \in Nat /\ halted' \in BOOLEAN
      BY <1>1, <1>f DEF Respond, TypeInv
    <2> QED
      BY <1>1, <2>4, <2>5 DEF Respond, TypeInv, program, chain
  <1>2. CASE Deliver
    BY <1>2 DEF Deliver, Accept, TdDone, Flip, TypeInv, program, history
  <1>3. CASE LoseOut
    <2>1. /\ work' = << >> \/ (\E c \in Commands : work' = <<c>>)
          /\ devOut' \in Bits
      BY <1>3 DEF LoseOut, Accept, Flip, TypeInv
    <2>2. faults' \in Nat
      BY <1>3, <1>f DEF LoseOut
    <2> QED
      BY <1>3, <2>1, <2>2 DEF LoseOut, BreakOff, TypeInv
  <1>4. CASE Receive
    <2>1. resp # << >> /\ resp \in Seq(Stuff) /\ buffer \in Seq(Stuff) /\ tds \in Nat /\ tds > 0
      BY <1>4 DEF Receive, In, TypeInv
    <2>2. Head(resp) \in Stuff /\ Tail(resp) \in Seq(Stuff)
      BY <2>1, HeadTailProperties
    <2>3. buffer' = Append(buffer, Head(resp)) /\ (resp' = Tail(resp) \/ resp' = resp)
      BY <1>4 DEF Receive
    <2>6. buffer' \in Seq(Stuff) /\ resp' \in Seq(Stuff)
      BY <2>1, <2>2, <2>3
    <2>4. toggle' \in Bits /\ tds' \in Nat /\ devIn' \in Bits
      BY <1>4, <2>1 DEF Receive, TdDone, Flip, TypeInv
    <2>5. faults' \in Nat
      BY <1>4, <1>f DEF Receive, TypeInv
    <2> QED
      BY <1>4, <2>4, <2>5, <2>6 DEF Receive, TypeInv
  <1>5. CASE Duplicate
    <2>1. resp # << >> /\ resp \in Seq(Stuff)
      BY <1>5 DEF Duplicate, TypeInv
    <2>2. resp' \in Seq(Stuff)
      BY <1>5, <2>1, HeadTailProperties DEF Duplicate
    <2> QED
      BY <1>5, <2>2 DEF Duplicate, Flip, TypeInv, program, chain, history
  <1>6. CASE Refuse
    BY <1>6 DEF Refuse, BreakOff, TypeInv, device, history
  <1>7. CASE LoseIn
    BY <1>7, <1>f DEF LoseIn, BreakOff, TypeInv, device
  <1>8. CASE TimeOut
    <2>1. faults' \in Nat
      BY <1>8, <1>f DEF TimeOut, TypeInv
    <2> QED
      BY <1>8, <2>1 DEF TimeOut, BreakOff, TypeInv, device
  <1>9. CASE DataPhase
    BY <1>9, <1>c DEF DataPhase, QueueIn, TypeInv, device, history
  <1>10. CASE StatusPhase
    BY <1>10 DEF StatusPhase, QueueIn, TypeInv, device, history
  <1>11. CASE CheckStatus
    BY <1>11 DEF CheckStatus, Good, TypeInv, chain, device, history
  <1>i. Command("ready") \in Commands /\ Command("sense") \in Commands
        /\ Command("capacity") \in Commands /\ ReadOf(0, 1) \in Commands
        /\ 0 \in Bits /\ hostOut \in Bits
    BY CommandsIssued DEF TypeInv
  <1>12. CASE Sense
    BY <1>12, <1>i, IssueTypes DEF Sense, TypeInv, device, history
  <1>13. CASE SelectUsb
    <2>1. Issue(Command("ready"), 0)
      BY <1>13 DEF SelectUsb
    <2> QED
      BY <1>13, <1>i, <2>1, IssueTypes DEF SelectUsb, TypeInv, device
  <1>d. ASSUME DeviceReset
        PROVE  /\ work' = << >> \/ (\E c \in Commands : work' = <<c>>)
               /\ resp' \in Seq(Stuff) /\ halted' \in BOOLEAN
               /\ devOut' \in Bits /\ devIn' \in Bits
    <2>1. resp' = << >> /\ work' = << >> /\ halted' = FALSE /\ devOut' = 0 /\ devIn' = 0
      BY <1>d DEF DeviceReset
    <2> QED
      BY <2>1, EmptySeq
  <1>14. CASE Enumerate
    <2>1. CASE Enumerated
      <3>1. DeviceReset /\ Issue(Command("ready"), 0)
        BY <2>1 DEF Enumerated
      <3>2. faults' \in Nat /\ stage' = "ready" /\ sensing' = FALSE /\ hostIn' = 0
            /\ UNCHANGED <<lba, left>>
        BY <1>14, <2>1 DEF Enumerate, Enumerated, TypeInv
      <3> QED
        BY <1>d, <1>i, <3>1, <3>2, IssueTypes DEF TypeInv
    <2>2. CASE ~Enumerated
      <3>1. /\ work' = << >> \/ (\E c \in Commands : work' = <<c>>)
            /\ resp' \in Seq(Stuff)
            /\ halted' \in BOOLEAN
            /\ devOut' \in Bits /\ devIn' \in Bits
        <4>1. DeviceReset \/ UNCHANGED device
          BY <1>14, <2>2 DEF Enumerate
        <4>2. CASE DeviceReset
          BY <1>d, <4>2
        <4>3. CASE UNCHANGED device
          BY <4>3 DEF device, TypeInv
        <4> QED
          BY <4>1, <4>2, <4>3
      <3>2. faults' \in Nat
        BY <1>14, <2>2, <1>f DEF Enumerate
      <3> QED
        BY <1>14, <2>2, <3>1, <3>2 DEF Enumerate, End, TypeInv, chain
    <2> QED
      BY <2>1, <2>2
  <1>15. CASE AskCapacity
    BY <1>15, <1>i, IssueTypes DEF AskCapacity, TypeInv, device, history
  <1>16. CASE Probe
    BY <1>16, <1>i, IssueTypes DEF Probe, TypeInv, device, history
  <1>17. CASE NoCapacity
    BY <1>17 DEF NoCapacity, End, TypeInv, chain, device
  <1>18. CASE Registered
    BY <1>18 DEF Registered, End, TypeInv, chain, device
  <1>19. CASE NextChunk
    <2>1. left \in Nat /\ left > 0 /\ lba \in Nat /\ Chunk \in 1 .. left
      BY <1>19, ChunkFits DEF NextChunk, Settled, CallInv, TypeInv, Chunk
    <2>2. left' \in Nat /\ lba' \in Nat
      BY <1>19, <2>1 DEF NextChunk
    <2>3. CASE left' = 0
      BY <1>19, <2>2, <2>3 DEF NextChunk, End, TypeInv, chain, device
    <2>4. CASE left' # 0
      <3>1. ReadOf(lba', IF left' > MaxChunk THEN MaxChunk ELSE left') \in Commands
        BY <2>2, <2>4, ChunkFits
      <3> QED
        BY <1>19, <1>i, <2>2, <2>4, <3>1, IssueTypes DEF NextChunk, TypeInv, device
    <2> QED
      BY <2>3, <2>4
  <1>20. CASE Retry
    <2>1. left \in Nat /\ left > 0 /\ lba \in Nat
      BY <1>20 DEF Retry, Settled, CallInv, TypeInv
    <2>2. ReadOf(lba, Chunk) \in Commands
      BY <2>1, ChunkFits DEF Chunk
    <2> QED
      BY <1>20, <1>i, <2>2, IssueTypes DEF Retry, TypeInv, device, history
  <1>21. CASE GiveUp
    BY <1>21 DEF GiveUp, End, TypeInv, chain, device
  <1>22. ASSUME NEW s \in 0 .. Word - 1, NEW n \in 1 .. MaxCount, Read(s, n)
         PROVE  TypeInv'
    <2>1. s \in Nat /\ n \in Nat /\ n > 0
      BY UsbAssumption
    <2>2. ReadOf(s, IF n > MaxChunk THEN MaxChunk ELSE n) \in Commands
      BY <2>1, ChunkFits
    <2>3. CASE InRange(s, n)
      BY <1>22, <1>i, <2>1, <2>2, <2>3, IssueTypes DEF Read, TypeInv, device
    <2>4. CASE ~InRange(s, n)
      BY <1>22, <2>4 DEF Read, TypeInv, chain, device
    <2> QED
      BY <2>3, <2>4
  <1>23. CASE UNCHANGED vars
    BY <1>23 DEF vars, program, chain, device, history, TypeInv
  <1> QED
    BY <1>1, <1>2, <1>3, <1>4, <1>5, <1>6, <1>7, <1>8, <1>9, <1>10, <1>11, <1>12, <1>13,
       <1>14, <1>15, <1>16, <1>17, <1>18, <1>19, <1>20, <1>21, <1>22, <1>23
       DEF Next, Controller, Program

(* The bus moves packets; what the program is doing stays.                 *)
Transfer == Respond \/ Controller \/ DataPhase \/ StatusPhase \/ CheckStatus

LEMMA TransferFrame ==
  ASSUME TypeInv, CallInv, Transfer
  PROVE  /\ UNCHANGED <<stage, cmd, sensing, attempt, lba, left, dest>>
         /\ UNCHANGED <<call, request, outcome, selected, began, since>>
         /\ stage = "idle" => phase' = "done"
         /\ faults' \in Nat /\ faults' >= faults
PROOF
  <1>f. Fault => faults' \in Nat /\ faults' >= faults
    BY DEF Fault, TypeInv
  <1>1. CASE Respond
    <2>1. UNCHANGED program /\ UNCHANGED <<call, request, outcome, selected, began, since>>
      BY <1>1 DEF Respond
    <2>2. faults' = faults \/ Fault
      BY <1>1 DEF Respond
    <2> QED
      BY <1>f, <2>1, <2>2 DEF program, TypeInv, CallInv
  <1>2. CASE Controller
    <2>1. CASE Deliver
      BY <2>1 DEF Deliver, program, history, TypeInv, CallInv
    <2>2. CASE LoseOut
      BY <1>f, <2>2 DEF LoseOut, BreakOff, CallInv
    <2>3. CASE Receive
      BY <1>f, <2>3 DEF Receive, TypeInv, CallInv
    <2>4. CASE Duplicate
      BY <2>4 DEF Duplicate, program, history, TypeInv, CallInv
    <2>5. CASE Refuse
      BY <2>5 DEF Refuse, BreakOff, history, TypeInv, CallInv
    <2>6. CASE LoseIn
      BY <1>f, <2>6 DEF LoseIn, BreakOff, CallInv
    <2>7. CASE TimeOut
      BY <1>f, <2>7 DEF TimeOut, BreakOff, TypeInv, CallInv
    <2> QED
      BY <1>2, <2>1, <2>2, <2>3, <2>4, <2>5, <2>6, <2>7 DEF Controller
  <1>3. CASE DataPhase
    BY <1>3 DEF DataPhase, history, TypeInv, CallInv
  <1>4. CASE StatusPhase
    BY <1>4 DEF StatusPhase, history, TypeInv, CallInv
  <1>5. CASE CheckStatus
    BY <1>5 DEF CheckStatus, history, TypeInv, CallInv
  <1> QED
    BY <1>1, <1>2, <1>3, <1>4, <1>5 DEF Transfer

LEMMA CallNext == TypeInv /\ CallInv /\ [Next]_vars => CallInv'
PROOF
  <1> SUFFICES ASSUME TypeInv, CallInv, [Next]_vars PROVE CallInv'
    OBVIOUS
  <1>1. CASE Transfer
    <2>1. /\ UNCHANGED <<stage, cmd, sensing, lba, left>>
          /\ stage = "idle" => phase' = "done"
      BY <1>1, TransferFrame
    <2> QED
      BY <2>1 DEF CallInv, Expected, Chunk
  <1>2. CASE Sense
    BY <1>2 DEF Sense, Issue, CallInv, Expected
  <1>3. CASE SelectUsb
    BY <1>3 DEF SelectUsb, Issue, CallInv, Expected
  <1>4. CASE Enumerate
    BY <1>4 DEF Enumerate, Enumerated, End, Settled, Issue, CallInv, Expected
  <1>5. CASE AskCapacity
    BY <1>5 DEF AskCapacity, Issue, CallInv, Expected
  <1>6. CASE Probe
    <2>1. Chunk' = 1
      BY <1>6, UsbAssumption DEF Probe, Chunk
    <2> QED
      BY <1>6, <2>1 DEF Probe, Settled, Issue, CallInv, Expected
  <1>7. CASE NoCapacity \/ Registered \/ GiveUp
    BY <1>7 DEF NoCapacity, Registered, GiveUp, Settled, End, CallInv
  <1>8. CASE NextChunk
    <2>1. left' \in Nat
      <3>1. left \in Nat /\ left > 0 /\ Chunk \in 1 .. left
        BY <1>8, ChunkFits DEF NextChunk, Settled, CallInv, TypeInv, Chunk
      <3> QED
        BY <1>8, <3>1 DEF NextChunk
    <2>2. CASE left' = 0
      BY <1>8, <2>2 DEF NextChunk, Settled, End, CallInv
    <2>3. CASE left' # 0
      <3>1. /\ stage' = "read" /\ ~sensing'
            /\ cmd' = ReadOf(lba', IF left' > MaxChunk THEN MaxChunk ELSE left')
        BY <1>8, <2>3 DEF NextChunk, Settled, Issue
      <3> QED
        BY <2>1, <2>3, <3>1 DEF CallInv, Expected, Chunk
    <2> QED
      BY <2>2, <2>3
  <1>9. CASE Retry
    <2>1. Chunk' = Chunk
      BY <1>9 DEF Retry, Chunk
    <2> QED
      BY <1>9, <2>1 DEF Retry, Settled, Issue, CallInv, Expected
  <1>10. ASSUME NEW s \in 0 .. Word - 1, NEW n \in 1 .. MaxCount, Read(s, n)
         PROVE  CallInv'
    <2>1. CASE InRange(s, n)
      <3>1. /\ stage' = "read" /\ ~sensing' /\ lba' = s /\ left' = n
            /\ cmd' = ReadOf(s, IF n > MaxChunk THEN MaxChunk ELSE n)
        BY <1>10, <2>1 DEF Read, Issue
      <3>2. n > 0
        BY UsbAssumption
      <3> QED
        BY <3>1, <3>2 DEF CallInv, Expected, Chunk
    <2>2. CASE ~InRange(s, n)
      BY <1>10, <2>2 DEF Read, CallInv
    <2> QED
      BY <2>1, <2>2
  <1>11. CASE UNCHANGED vars
    BY <1>11 DEF vars, program, CallInv, Expected, Chunk
  <1> QED
    BY <1>1, <1>2, <1>3, <1>4, <1>5, <1>6, <1>7, <1>8, <1>9, <1>10, <1>11
       DEF Next, Program, Transfer

LEMMA ChainNext == TypeInv /\ ChainInv /\ [Next]_vars => ChainInv'
PROOF
  <1> SUFFICES ASSUME TypeInv, ChainInv, [Next]_vars PROVE ChainInv'
    OBVIOUS
  <1> USE DEF Bits
  <1>c. DataTds(cmd) \in Nat /\ tds \in Nat /\ Len(buffer) \in Nat
    BY AnswerLength DEF TypeInv
  <1>i. ASSUME NEW c, NEW out, Issue(c, out)
        PROVE  ChainInv'
    BY <1>i DEF Issue, ChainInv
  <1>s. ASSUME UNCHANGED <<cmd, phase, buffer, chain, hostIn>>
        PROVE  ChainInv'
    BY <1>s DEF ChainInv, chain
  <1>e. ASSUME phase' = "done", tds' = 0
        PROVE  ChainInv'
    BY <1>e DEF ChainInv
  <1>1. CASE Respond
    BY <1>1, <1>s DEF Respond, program
  <1>2. CASE Deliver
    <2>1. phase = "cbw" /\ tds' = tds - 1 /\ tds > 0 /\ UNCHANGED <<phase, buffer, cmd>>
      BY <1>2 DEF Deliver, TdDone, program
    <2> QED
      BY <1>c, <2>1 DEF ChainInv
  <1>3. CASE LoseOut \/ Refuse \/ LoseIn \/ TimeOut
    BY <1>3, <1>e DEF LoseOut, Refuse, LoseIn, TimeOut, BreakOff
  <1>4. CASE Receive
    <2>1. /\ tds > 0 /\ tds' = tds - 1 /\ toggle' = 1 - toggle
          /\ phase \in {"data", "csw"} /\ UNCHANGED <<phase, cmd, hostIn>>
      BY <1>4 DEF Receive, In, TdDone, Flip
    <2>2. Len(buffer') = Len(buffer) + 1
      BY <1>4 DEF Receive, TypeInv
    <2>3. (toggle' + tds') % 2 = (toggle + tds) % 2
      BY <1>c, <2>1 DEF TypeInv
    <2> QED
      BY <1>c, <2>1, <2>2, <2>3 DEF ChainInv
  <1>5. CASE Duplicate
    BY <1>5, <1>s DEF Duplicate, program
  <1>6. CASE DataPhase
    <2>1. /\ phase = "cbw" /\ buffer = << >> /\ DataTds(cmd) > 0 /\ UNCHANGED <<buffer, cmd>>
          /\ phase' = "data" /\ tds' = DataTds(cmd) /\ toggle' = hostIn
          /\ hostIn' = (hostIn + DataTds(cmd)) % 2
      BY <1>6 DEF DataPhase, QueueIn, ChainInv
    <2>2. Len(buffer) = 0
      BY <2>1
    <2> QED
      BY <1>c, <2>1, <2>2 DEF ChainInv
  <1>7. CASE StatusPhase
    <2>1. /\ phase' = "csw" /\ tds = 0 /\ tds' = 1 /\ UNCHANGED <<buffer, cmd>>
          /\ phase = "data" \/ (phase = "cbw" /\ DataTds(cmd) = 0)
      BY <1>7 DEF StatusPhase, QueueIn
    <2>2. Len(buffer) = DataTds(cmd)
      BY <1>c, <2>1 DEF ChainInv
    <2> QED
      BY <1>c, <2>1, <2>2 DEF ChainInv
  <1>8. CASE CheckStatus
    BY <1>8, <1>e DEF CheckStatus, chain
  <1>9. CASE Sense \/ SelectUsb \/ AskCapacity \/ Probe \/ Retry
    BY <1>9, <1>i DEF Sense, SelectUsb, AskCapacity, Probe, Retry
  <1>10. CASE Enumerate
    BY <1>10, <1>i, <1>s DEF Enumerate, Enumerated
  <1>11. CASE NoCapacity \/ Registered \/ GiveUp
    BY <1>11, <1>s DEF NoCapacity, Registered, GiveUp
  <1>12. CASE NextChunk
    <2>1. CASE left' = 0
      <3>1. UNCHANGED <<cmd, phase, buffer, chain, hostIn>>
        BY <1>12, <2>1 DEF NextChunk
      <3> QED
        BY <1>s, <3>1
    <2>2. CASE left' # 0
      BY <1>12, <1>i, <2>2 DEF NextChunk
    <2> QED
      BY <2>1, <2>2
  <1>13. ASSUME NEW s \in 0 .. Word - 1, NEW n \in 1 .. MaxCount, Read(s, n)
         PROVE  ChainInv'
    <2>1. CASE InRange(s, n)
      BY <1>13, <1>i, <2>1 DEF Read
    <2>2. CASE ~InRange(s, n)
      <3>1. UNCHANGED <<cmd, phase, buffer, chain, hostIn>>
        BY <1>13, <2>2 DEF Read
      <3> QED
        BY <1>s, <3>1
    <2> QED
      BY <2>1, <2>2
  <1>14. CASE UNCHANGED vars
    BY <1>14, <1>s DEF vars, program
  <1> QED
    BY <1>1, <1>2, <1>3, <1>4, <1>5, <1>6, <1>7, <1>8, <1>9, <1>10, <1>11, <1>12, <1>13, <1>14
       DEF Next, Program, Controller

(* What a read that succeeded leaves in the buffer is what it asked for.   *)
LEMMA ReadBrought ==
  ASSUME TypeInv, CallInv, Brought, Settled("read") \/ Settled("probe"), ~sensing
  PROVE  /\ lba \in Nat /\ Chunk \in 1 .. left
         /\ SubSeq(buffer, 1, Len(buffer) - 1) = Sectors(lba, Chunk)
PROOF
  <1>1. stage \in {"read", "probe"} /\ phase = "done" /\ ok
    BY DEF Settled
  <1>2. lba \in Nat /\ left \in Nat /\ left > 0 /\ Chunk \in 1 .. left
    BY <1>1, ChunkFits DEF TypeInv, CallInv, Chunk
  <1>3. cmd = ReadOf(lba, Chunk)
    BY <1>1 DEF CallInv, Expected
  <1> DEFINE w == Sectors(lba, Chunk)
             len == DataTds(cmd)
             t == SubSeq(buffer, 1, Len(buffer) - 1)
  <1>4. /\ len = Chunk * Packets /\ cmd.op = "read" /\ cmd.lba = lba /\ cmd.n = Chunk
        /\ cmd \in Commands
    BY <1>3 DEF ReadOf, DataTds, TypeInv
  <1>5. len \in Nat /\ len > 0
    BY <1>2, <1>4, UsbAssumption
  <1>6. w \in Seq(Stuff) /\ Len(w) = len
    <2>1. Chunk \in Nat
      BY <1>2
    <2> QED
      BY <1>2, <1>4, <2>1, SectorList
  <1>7. \A j \in 1 .. len : Response(cmd, TRUE)[j] = w[j]
    BY <1>4, Answers
  <1>8. Len(buffer) = len + 1 /\ \A j \in 1 .. len : buffer[j] = Response(cmd, TRUE)[j]
    BY <1>1, <1>5 DEF Brought
  <1> HIDE DEF w, len
  <1>9. /\ t \in Seq(Stuff) /\ Len(t) = len
        /\ \A j \in 1 .. len : t[j] = buffer[j]
    <2>1. buffer \in Seq(Stuff) /\ Len(buffer) - 1 = len /\ 1 \in Int /\ len \in Int
      BY <1>5, <1>8 DEF TypeInv
    <2>2. \A i \in 1 .. len : buffer[i] \in Stuff
      BY <1>5, <1>8, <2>1
    <2>3. /\ SubSeq(buffer, 1, len) \in Seq(Stuff)
          /\ Len(SubSeq(buffer, 1, len)) = IF 1 <= len THEN len - 1 + 1 ELSE 0
          /\ \A i \in 1 .. len - 1 + 1 : SubSeq(buffer, 1, len)[i] = buffer[1 + i - 1]
      BY <2>1, <2>2, SubSeqProperties
    <2> QED
      BY <1>5, <2>1, <2>3
  <1> HIDE DEF t
  <1>10. \A j \in 1 .. len : t[j] = w[j]
    BY <1>7, <1>8, <1>9
  <1>11. t = w
    BY <1>6, <1>9, <1>10, SeqEqual
  <1> QED
    BY <1>2, <1>11 DEF t, w

LEMMA ReadNext == TypeInv /\ CallInv /\ Brought /\ ReadInv /\ [Next]_vars => ReadInv'
PROOF
  <1> SUFFICES ASSUME TypeInv, CallInv, Brought, ReadInv, [Next]_vars PROVE ReadInv'
    OBVIOUS
  <1>s. ASSUME UNCHANGED <<stage, lba, left, dest, call, request, outcome>>
        PROVE  ReadInv'
    BY <1>s DEF ReadInv
  <1>1. CASE Transfer
    BY <1>1, <1>s, TransferFrame
  <1>2. CASE Sense \/ Retry
    BY <1>2, <1>s DEF Sense, Retry, history
  <1>3. CASE SelectUsb
    BY <1>3 DEF SelectUsb, ReadInv
  <1>4. CASE Enumerate
    BY <1>4 DEF Enumerate, Enumerated, Settled, End, ReadInv
  <1>5. CASE AskCapacity \/ Probe \/ NoCapacity \/ Registered
    BY <1>5 DEF AskCapacity, Probe, NoCapacity, Registered, Settled, End, ReadInv, history
  <1>6. CASE GiveUp
    BY <1>6 DEF GiveUp, End, ReadInv
  <1>7. CASE NextChunk
    <2> DEFINE s == request[1]
               n == request[2]
    <2>1. /\ stage = "read" /\ call = "read" /\ request \in (0 .. Word - 1) \X (1 .. MaxCount)
          /\ lba >= s /\ lba + left = s + n /\ dest = Sectors(s, lba - s)
      BY <1>7 DEF NextChunk, Settled, ReadInv
    <2>2. s \in Nat /\ n \in Nat /\ lba \in Nat /\ left \in Nat /\ Chunk \in 1 .. left
      BY <1>7, <2>1, ReadBrought, UsbAssumption DEF NextChunk, TypeInv
    <2>3. /\ lba' = lba + Chunk /\ left' = left - Chunk
          /\ dest' = Sectors(s, lba - s) \o Sectors(lba, Chunk)
          /\ UNCHANGED <<call, request>>
      BY <1>7, <2>1, ReadBrought DEF NextChunk
    <2>4. dest' = Sectors(s, lba' - s)
      <3>1. lba - s \in Nat /\ Chunk \in Nat /\ s + (lba - s) = lba
            /\ lba - s + Chunk = lba' - s
        BY <2>1, <2>2, <2>3
      <3>2. Sectors(s, lba - s) \o Sectors(s + (lba - s), Chunk) = Sectors(s, lba - s + Chunk)
        BY <2>2, <3>1, SectorsJoin
      <3> QED
        BY <2>3, <3>1, <3>2
    <2>5. lba' >= s /\ lba' + left' = s + n
      BY <2>1, <2>2, <2>3
    <2>6. CASE left' = 0
      <3>1. stage' = "idle"
        BY <1>7, <2>6 DEF NextChunk, End
      <3>2. lba' - s = n
        BY <2>2, <2>3, <2>5, <2>6
      <3> QED
        BY <2>1, <2>3, <2>4, <3>1, <3>2 DEF ReadInv
    <2>7. CASE left' # 0
      <3>1. stage' = stage
        BY <1>7, <2>7 DEF NextChunk
      <3> QED
        BY <2>1, <2>3, <2>4, <2>5, <3>1 DEF ReadInv
    <2> QED
      BY <2>6, <2>7
  <1>8. ASSUME NEW s \in 0 .. Word - 1, NEW n \in 1 .. MaxCount, Read(s, n)
        PROVE  ReadInv'
    <2>0. s \in Nat /\ n \in Nat
      BY UsbAssumption
    <2>1. CASE InRange(s, n)
      <3>1. /\ stage' = "read" /\ call' = "read" /\ request' = <<s, n>>
            /\ lba' = s /\ left' = n /\ dest' = << >>
        BY <1>8, <2>1 DEF Read
      <3>2. Sectors(s, 0) = << >>
        <4>1. 0 \in Nat /\ 0 * Packets = 0
          BY UsbAssumption
        <4>2. Sectors(s, 0) \in Seq(Stuff) /\ Len(Sectors(s, 0)) = 0
          BY <2>0, <4>1, SectorList
        <4> QED
          BY <4>2, EmptySeq
      <3>3. s - s = 0 /\ s >= s
        BY <2>0
      <3> QED
        BY <2>0, <3>1, <3>2, <3>3 DEF ReadInv
    <2>2. CASE ~InRange(s, n)
      BY <1>8, <2>2 DEF Read, ReadInv
    <2> QED
      BY <2>1, <2>2
  <1>9. CASE UNCHANGED vars
    BY <1>9, <1>s DEF vars, program, history
  <1> QED
    BY <1>1, <1>2, <1>3, <1>4, <1>5, <1>6, <1>7, <1>8, <1>9 DEF Next, Program, Transfer

-----------------------------------------------------------------------------
(* The packets between device and program. *)

LEMMA StreamLast ==
  ASSUME NEW r \in Seq(Stuff), r # << >>, r[Len(r)].kind = "csw", Tail(r) # << >>
  PROVE  Tail(r)[Len(Tail(r))].kind = "csw"
PROOF
  <1>1. /\ Tail(r) \in Seq(Stuff) /\ Len(Tail(r)) = Len(r) - 1
        /\ \A i \in 1 .. Len(Tail(r)) : Tail(r)[i] = r[i + 1]
    BY HeadTailProperties
  <1>2. Len(Tail(r)) \in Nat \ {0}
    BY <1>1, EmptySeq
  <1>3. Tail(r)[Len(Tail(r))] = r[Len(Tail(r)) + 1] /\ Len(Tail(r)) + 1 = Len(r)
    BY <1>1, <1>2
  <1> QED
    BY <1>3

LEMMA TailOf ==
  ASSUME NEW r \in Seq(Stuff), r # << >>
  PROVE  /\ Len(r) \in Nat \ {0} /\ Head(r) = r[1]
         /\ Tail(r) \in Seq(Stuff) /\ Len(Tail(r)) = Len(r) - 1
         /\ \A i \in 1 .. Len(Tail(r)) : i + 1 \in 1 .. Len(r) /\ Tail(r)[i] = r[i + 1]
PROOF
  <1>1. /\ Tail(r) \in Seq(Stuff) /\ Len(Tail(r)) = Len(r) - 1
        /\ \A i \in 1 .. Len(Tail(r)) : Tail(r)[i] = r[i + 1]
    BY HeadTailProperties
  <1>2. Len(r) \in Nat \ {0}
    BY EmptySeq
  <1> QED
    BY <1>1, <1>2

LEMMA AppendOf ==
  ASSUME NEW b \in Seq(Stuff), NEW p \in Stuff
  PROVE  /\ Append(b, p) \in Seq(Stuff) /\ Append(b, p) # << >>
         /\ Len(b) \in Nat /\ Len(Append(b, p)) = Len(b) + 1
         /\ Append(b, p)[Len(b) + 1] = p
         /\ \A j \in 1 .. Len(b) : Append(b, p)[j] = b[j]
PROOF
  OBVIOUS

(* The answer is put behind what the device has still to send.             *)
LEMMA AnswerSent ==
  ASSUME TypeInv, ChainInv, StreamInv, Respond
  PROVE  StreamInv'
PROOF
  <1>1. PICK c \in Commands : work = <<c>>
    BY DEF Respond, TypeInv
  <1>2. /\ work' = << >> /\ Head(work) = c /\ work # << >>
        /\ UNCHANGED <<cmd, phase, buffer, tds, toggle, devIn>>
    BY <1>1 DEF Respond, program, chain
  <1>3. resp' = resp \/ \E good \in BOOLEAN : resp' = resp \o Response(c, good)
    <2>1. \/ resp' = resp \o Response(Head(work), Possible(Head(work)))
          \/ resp' = resp \o Response(Head(work), FALSE)
          \/ resp' = resp
      BY DEF Respond
    <2>2. Possible(Head(work)) \in BOOLEAN /\ FALSE \in BOOLEAN
      BY DEF Possible
    <2> QED
      BY <1>2, <2>1, <2>2, Zenon
  <1>4. Running => Unanswered /\ c = cmd
    <2> SUFFICES ASSUME Running PROVE Unanswered /\ c = cmd
      OBVIOUS
    <2>1. Unanswered
      BY <1>2 DEF StreamInv, InFlow
    <2>2. work = <<cmd>>
      BY <1>2, <2>1 DEF Unanswered
    <2> QED
      BY <1>1, <2>1, <2>2
  <1>5. CASE resp' = resp
    <2>1. (resp # << >> => resp[Len(resp)].kind = "csw")'
      BY <1>5 DEF StreamInv
    <2>2. Running' => Running
      BY <1>2 DEF Running
    <2>3. Running => Unanswered'
      BY <1>2, <1>4, <1>5 DEF Unanswered, Repeated
    <2> QED
      BY <2>1, <2>2, <2>3 DEF StreamInv
  <1>6. ASSUME NEW good \in BOOLEAN, resp' = resp \o Response(c, good)
        PROVE  StreamInv'
    <2> DEFINE w == Response(c, good)
               len == DataTds(c)
    <2>1. /\ w \in Seq(Stuff) /\ Len(w) = len + 1 /\ len \in Nat
          /\ w[len + 1].kind = "csw"
      BY Answers, AnswerLength, PacketKinds
    <2> HIDE DEF w
    <2>2. /\ resp \in Seq(Stuff) /\ Len(resp) \in Nat
          /\ resp' \in Seq(Stuff) /\ Len(resp') = Len(resp) + len + 1
          /\ \A i \in 1 .. Len(resp) : resp'[i] = resp[i]
          /\ \A i \in Len(resp) + 1 .. Len(resp') : resp'[i] = w[i - Len(resp)]
      <3>1. resp \in Seq(Stuff) /\ Len(resp) \in Nat
        BY DEF TypeInv
      <3>2. resp' = resp \o w
        BY <1>6 DEF w
      <3>3. /\ resp \o w \in Seq(Stuff) /\ Len(resp \o w) = Len(resp) + Len(w)
            /\ \A i \in 1 .. Len(resp) + Len(w) :
                 (resp \o w)[i] = IF i <= Len(resp) THEN resp[i] ELSE w[i - Len(resp)]
        BY <2>1, <3>1, ConcatProperties
      <3> QED
        BY <2>1, <3>1, <3>2, <3>3
    <2>3. resp'[Len(resp')].kind = "csw"
      <3>1. Len(resp') \in Len(resp) + 1 .. Len(resp') /\ Len(resp') - Len(resp) = len + 1
        BY <2>1, <2>2
      <3>2. resp'[Len(resp')] = w[len + 1]
        BY <2>2, <3>1
      <3> QED
        BY <2>1, <3>2
    <2>4. ASSUME Running'
          PROVE  \E skipped \in 0 .. 2 : InFlow(good, skipped)'
      <3>1. Running /\ Unanswered /\ c = cmd /\ c = cmd'
        BY <1>2, <1>4, <2>4 DEF Running
      <3>2. Len(buffer) \in Nat /\ Repeated \in {0, 1} /\ (Repeated = 1 => Len(buffer) > 0)
        BY EmptySeq DEF TypeInv, Repeated
      <3>3. /\ Len(buffer) + Len(resp) <= 1 + Repeated /\ Repeated <= Len(resp)
            /\ \A j \in 1 .. Len(buffer) : buffer[j].kind = "csw"
            /\ \A i \in 1 .. Len(resp) : resp[i].kind = "csw"
        BY <3>1 DEF Unanswered
      <3>0. ASSUME NEW b \in Nat, NEW r \in Nat, NEW d \in {0, 1}, d = 1 => b > 0,
                   b + r <= 1 + d, d <= r
            PROVE  \E e \in 0 .. 1 : e = 1 + d - r - b /\ (b # 0 => e = 0 /\ b = 1) /\ r <= 1
        <4> DEFINE e == 1 + d - r - b
        <4>1. e \in 0 .. 1 /\ (b # 0 => e = 0 /\ b = 1) /\ r <= 1
          BY <3>0
        <4> QED
          BY <4>1
      <3>4. PICK e \in 0 .. 1 :
              /\ e = 1 + Repeated - Len(resp) - Len(buffer)
              /\ Len(buffer) # 0 => e = 0 /\ Len(buffer) = 1
              /\ Len(resp) <= 1
        <4>1. /\ Len(buffer) \in Nat /\ Len(resp) \in Nat /\ Repeated \in {0, 1}
              /\ Repeated = 1 => Len(buffer) > 0
              /\ Len(buffer) + Len(resp) <= 1 + Repeated /\ Repeated <= Len(resp)
          BY <2>2, <3>2, <3>3
        <4> QED
          BY <3>0, <4>1
      <3>5. /\ Repeated' = Repeated /\ buffer' = buffer
            /\ Len(buffer') = Len(buffer) /\ Len(buffer') \in Nat
        BY <1>2, <3>2 DEF Repeated
      <3>6. \A j \in 1 .. Len(buffer') : Is(cmd', buffer'[j], j + e, good)
        <4> TAKE j \in 1 .. Len(buffer')
        <4>0. j \in 1 .. Len(buffer) /\ Len(buffer) # 0
          BY <3>2, <3>5
        <4>2. e = 0 /\ Len(buffer) = 1
          BY <3>4, <4>0
        <4>1. j = 1 /\ j + e = 1 /\ j \in 1 .. Len(buffer)
          BY <4>0, <4>2
        <4> QED
          BY <3>3, <3>5, <4>1 DEF Is
      <3>7. \A i \in 1 .. Len(resp') :
              Is(cmd', resp'[i], i + Len(buffer') + e - Repeated', good)
        <4> TAKE i \in 1 .. Len(resp')
        <4> DEFINE k == i + Len(buffer') + e - Repeated'
        <4>0. /\ e \in Int /\ i \in Int /\ Len(resp) \in Nat /\ Len(buffer) \in Nat
              /\ Repeated \in Int /\ e = 1 + Repeated - Len(resp) - Len(buffer)
          BY <2>2, <3>2, <3>4, <3>5
        <4>1. k = i + 1 - Len(resp)
          BY <3>5, <4>0
        <4> HIDE DEF k
        <4>2. ASSUME i <= Len(resp) PROVE Is(cmd', resp'[i], k, good)
          <5>0. i >= 1 /\ Len(resp) <= 1
            BY <3>4
          <5>1. k = 1 /\ i \in 1 .. Len(resp)
            BY <4>0, <4>1, <4>2, <5>0
          <5>2. resp'[i].kind = "csw"
            BY <2>2, <3>3, <5>1
          <5> QED
            BY <5>1, <5>2 DEF Is
        <4>3. ASSUME i > Len(resp) PROVE Is(cmd', resp'[i], k, good)
          <5>1. k \in 2 .. len + 2 /\ k - 1 = i - Len(resp) /\ i \in Len(resp) + 1 .. Len(resp')
            BY <2>1, <2>2, <4>1, <4>3
          <5>2. resp'[i] = Response(cmd', good)[k - 1]
            BY <2>2, <3>1, <5>1 DEF w
          <5>3. k # 1
            BY <5>1
          <5> QED
            BY <3>1, <5>1, <5>2, <5>3 DEF Is
        <4> QED
          BY <4>0, <4>2, <4>3 DEF k
      <3>8. Len(buffer') + Len(resp') + e = DataTds(cmd') + 2 + Repeated'
        <4>1. /\ e \in Int /\ Len(resp) \in Nat /\ Len(buffer) \in Nat /\ Repeated \in Int
              /\ e = 1 + Repeated - Len(resp) - Len(buffer)
          BY <2>2, <3>2, <3>4
        <4>2. Len(resp') = Len(resp) + len + 1 /\ len = DataTds(cmd') /\ len \in Nat
          BY <2>1, <2>2, <3>1
        <4> HIDE DEF len
        <4> QED
          BY <3>5, <4>1, <4>2
      <3>9. InFlow(good, e)'
        BY <1>2, <3>4, <3>6, <3>7, <3>8 DEF InFlow
      <3> QED
        BY <3>4, <3>9
    <2> QED
      BY <2>3, <2>4 DEF StreamInv
  <1> QED
    BY <1>3, <1>5, <1>6

(* A packet is taken, or thrown away as one the program has already.       *)
LEMMA Taken ==
  ASSUME TypeInv, Receive
  PROVE  /\ phase \in {"data", "csw"} /\ resp # << >> /\ toggle = devIn
         /\ toggle' = Flip(toggle) /\ UNCHANGED <<cmd, phase, work>>
         /\ Len(resp) \in Nat \ {0} /\ Len(Tail(resp)) = Len(resp) - 1
         /\ \A i \in 1 .. Len(Tail(resp)) :
              i + 1 \in 1 .. Len(resp) /\ Tail(resp)[i] = resp[i + 1]
         /\ buffer' # << >> /\ Len(buffer) \in Nat
         /\ Len(buffer') = Len(buffer) + 1 /\ buffer'[Len(buffer) + 1] = resp[1]
         /\ \A j \in 1 .. Len(buffer) : buffer'[j] = buffer[j]
         /\ Repeated = 0
         /\ \/ resp' = Tail(resp) /\ Repeated' = 0
            \/ resp' = resp /\ Repeated' = 1
PROOF
  <1> DEFINE p == Head(resp)
  <1>1. /\ phase \in {"data", "csw"} /\ resp # << >> /\ toggle = devIn
        /\ buffer' = Append(buffer, p) /\ toggle' = Flip(toggle)
        /\ UNCHANGED <<cmd, phase, work>>
    BY DEF Receive, In, TdDone
  <1>0. \/ resp' = Tail(resp) /\ devIn' = Flip(devIn)
        \/ resp' = resp /\ devIn' = devIn
    BY DEF Receive
  <1>2. /\ Len(resp) \in Nat \ {0} /\ p = resp[1] /\ p \in Stuff
        /\ Tail(resp) \in Seq(Stuff) /\ Len(Tail(resp)) = Len(resp) - 1
        /\ \A i \in 1 .. Len(Tail(resp)) : i + 1 \in 1 .. Len(resp) /\ Tail(resp)[i] = resp[i + 1]
    BY <1>1, TailOf, HeadTailProperties DEF TypeInv
  <1> HIDE DEF p
  <1>3. /\ buffer' \in Seq(Stuff) /\ buffer' # << >> /\ Len(buffer) \in Nat
        /\ Len(buffer') = Len(buffer) + 1 /\ buffer'[Len(buffer) + 1] = p
        /\ \A j \in 1 .. Len(buffer) : buffer'[j] = buffer[j]
    BY <1>1, <1>2, AppendOf DEF TypeInv
  <1>4. Repeated = 0
    BY <1>1 DEF Repeated
  <1>5. \/ resp' = Tail(resp) /\ Repeated' = 0
        \/ resp' = resp /\ Repeated' = 1
    BY <1>0, <1>1, <1>3 DEF Repeated, Flip, TypeInv, Bits
  <1> QED
    BY <1>1, <1>2, <1>3, <1>4, <1>5

LEMMA TakenInFlow ==
  ASSUME TypeInv, Receive, NEW good, NEW skipped \in 0 .. 2, InFlow(good, skipped)
  PROVE  InFlow(good, skipped)'
PROOF
  <1>1. /\ \A j \in 1 .. Len(buffer) : Is(cmd, buffer[j], j + skipped, good)
        /\ \A i \in 1 .. Len(resp) :
             Is(cmd, resp[i], i + Len(buffer) + skipped - Repeated, good)
        /\ Len(buffer) + Len(resp) + skipped = DataTds(cmd) + 2 + Repeated
        /\ DataTds(cmd) \in Nat /\ work = << >>
    BY AnswerLength DEF InFlow, TypeInv
  <1>2. \A j \in 1 .. Len(buffer') : Is(cmd, buffer'[j], j + skipped, good)
    <2> TAKE j \in 1 .. Len(buffer')
    <2>1. CASE j \in 1 .. Len(buffer)
      BY Taken, <1>1, <2>1
    <2>2. CASE j = Len(buffer) + 1
      <3>1. 1 \in 1 .. Len(resp) /\ 1 + Len(buffer) + skipped - Repeated = j + skipped
        BY Taken, <2>2
      <3>2. Is(cmd, resp[1], 1 + Len(buffer) + skipped - Repeated, good)
        BY <1>1, <3>1
      <3>3. buffer'[j] = resp[1]
        BY Taken, <2>2
      <3> QED
        BY <3>1, <3>2, <3>3
    <2> QED
      BY Taken, <2>1, <2>2
  <1>3. /\ \A i \in 1 .. Len(resp') :
             Is(cmd, resp'[i], i + Len(buffer') + skipped - Repeated', good)
        /\ Len(buffer') + Len(resp') + skipped = DataTds(cmd) + 2 + Repeated'
    <2>1. CASE resp' = Tail(resp) /\ Repeated' = 0
      <3>1. ASSUME NEW i \in 1 .. Len(resp')
            PROVE  Is(cmd, resp'[i], i + Len(buffer') + skipped - Repeated', good)
        <4>1. i + 1 \in 1 .. Len(resp) /\ resp'[i] = resp[i + 1]
          BY Taken, <2>1
        <4>2. Is(cmd, resp[i + 1], (i + 1) + Len(buffer) + skipped - Repeated, good)
          BY <1>1, <4>1
        <4>3. i + Len(buffer') + skipped - Repeated' = (i + 1) + Len(buffer) + skipped - Repeated
          BY Taken, <2>1
        <4> QED
          BY <4>1, <4>2, <4>3
      <3>2. Len(buffer') + Len(resp') + skipped = DataTds(cmd) + 2 + Repeated'
        BY Taken, <1>1, <2>1
      <3> QED
        BY <3>1, <3>2
    <2>2. CASE resp' = resp /\ Repeated' = 1
      <3>1. ASSUME NEW i \in 1 .. Len(resp')
            PROVE  Is(cmd, resp'[i], i + Len(buffer') + skipped - Repeated', good)
        <4>1. i \in 1 .. Len(resp) /\ resp'[i] = resp[i]
          BY <2>2
        <4>2. Is(cmd, resp[i], i + Len(buffer) + skipped - Repeated, good)
          BY <1>1, <4>1
        <4>3. i + Len(buffer') + skipped - Repeated' = i + Len(buffer) + skipped - Repeated
          BY Taken, <2>2
        <4> QED
          BY <4>1, <4>2, <4>3
      <3>2. Len(buffer') + Len(resp') + skipped = DataTds(cmd) + 2 + Repeated'
        BY Taken, <1>1, <2>2
      <3> QED
        BY <3>1, <3>2
    <2> QED
      BY Taken, <2>1, <2>2
  <1> QED
    BY Taken, <1>1, <1>2, <1>3 DEF InFlow

LEMMA PacketTaken ==
  ASSUME TypeInv, ChainInv, StreamInv, Receive
  PROVE  StreamInv'
PROOF
  <1>1. Running /\ resp # << >>
    BY Taken DEF Running
  <1>2. resp' # << >> => resp'[Len(resp')].kind = "csw"
    <2>1. resp[Len(resp)].kind = "csw" /\ resp \in Seq(Stuff)
      BY Taken DEF StreamInv, TypeInv
    <2> QED
      BY Taken, <2>1, StreamLast
  <1>3. CASE Unanswered
    <2>1. /\ Len(buffer) = 0 /\ Len(resp) = 1 /\ resp[1].kind = "csw"
          /\ \A i \in 1 .. Len(resp) : resp[i].kind = "csw"
      BY Taken, <1>3 DEF Unanswered
    <2>2. \A j \in 1 .. Len(buffer') : buffer'[j].kind = "csw"
      BY Taken, <2>1
    <2>3. CASE resp' = Tail(resp) /\ Repeated' = 0
      <3>1. Len(resp') = 0
        BY Taken, <2>1, <2>3
      <3>2. /\ Len(buffer') + Len(resp') <= 1 + Repeated' /\ Repeated' <= Len(resp')
            /\ \A i \in 1 .. Len(resp') : resp'[i].kind = "csw"
        <4>1. Len(buffer') = 1 /\ Repeated' = 0
          BY Taken, <2>1, <2>3
        <4> QED
          BY <3>1, <4>1
      <3> QED
        BY Taken, <1>2, <1>3, <2>2, <3>2 DEF StreamInv, Unanswered
    <2>4. CASE resp' = resp /\ Repeated' = 1
      <3>2. /\ Len(buffer') + Len(resp') <= 1 + Repeated' /\ Repeated' <= Len(resp')
            /\ \A i \in 1 .. Len(resp') : resp'[i].kind = "csw"
        BY Taken, <2>1, <2>4
      <3> QED
        BY Taken, <1>2, <1>3, <2>2, <3>2 DEF StreamInv, Unanswered
    <2> QED
      BY Taken, <2>3, <2>4
  <1>4. ASSUME NEW good \in BOOLEAN, NEW skipped \in 0 .. 2, InFlow(good, skipped)
        PROVE  StreamInv'
    BY <1>2, <1>4, TakenInFlow DEF StreamInv
  <1> QED
    BY <1>1, <1>3, <1>4 DEF StreamInv

LEMMA PacketDropped ==
  ASSUME TypeInv, ChainInv, StreamInv, Duplicate
  PROVE  StreamInv'
PROOF
  <1>1. /\ phase \in {"data", "csw"} /\ resp # << >> /\ toggle # devIn
        /\ resp' = Tail(resp) /\ devIn' = Flip(devIn)
        /\ UNCHANGED <<cmd, phase, work, buffer, toggle>>
    BY DEF Duplicate, In, program, chain
  <1>2. /\ Len(resp) \in Nat \ {0}
        /\ resp' \in Seq(Stuff) /\ Len(resp') = Len(resp) - 1
        /\ \A i \in 1 .. Len(resp') : i + 1 \in 1 .. Len(resp) /\ resp'[i] = resp[i + 1]
    BY <1>1, TailOf DEF TypeInv
  <1>3. Len(buffer) \in Nat /\ (buffer # << >> => Len(buffer) > 0)
    BY EmptySeq DEF TypeInv
  <1>4. /\ Repeated' = 0 /\ toggle' = devIn'
        /\ Repeated = IF buffer = << >> THEN 0 ELSE 1
    BY <1>1 DEF Repeated, Flip, TypeInv, Bits
  <1>5. resp' # << >> => resp'[Len(resp')].kind = "csw"
    <2>1. resp[Len(resp)].kind = "csw" /\ resp \in Seq(Stuff)
      BY <1>1 DEF StreamInv, TypeInv
    <2> QED
      BY <1>1, <2>1, StreamLast
  <1>6. CASE Unanswered
    <2>1. /\ Len(buffer) + Len(resp) <= 1 + Repeated
          /\ \A i \in 1 .. Len(resp) : resp[i].kind = "csw"
      BY <1>6 DEF Unanswered
    <2>2. /\ Len(buffer') + Len(resp') <= 1 + Repeated' /\ Repeated' <= Len(resp')
          /\ \A i \in 1 .. Len(resp') : resp'[i].kind = "csw"
      BY <1>1, <1>2, <1>3, <1>4, <2>1
    <2> QED
      BY <1>1, <1>5, <1>6, <2>2 DEF StreamInv, Unanswered
  <1>7. ASSUME NEW good \in BOOLEAN, NEW skipped \in 0 .. 2, InFlow(good, skipped)
        PROVE  StreamInv'
    <2>1. /\ \A j \in 1 .. Len(buffer) : Is(cmd, buffer[j], j + skipped, good)
          /\ \A i \in 1 .. Len(resp) :
               Is(cmd, resp[i], i + Len(buffer) + skipped - Repeated, good)
          /\ Len(buffer) + Len(resp) + skipped = DataTds(cmd) + 2 + Repeated
          /\ DataTds(cmd) \in Nat /\ work = << >>
          /\ skipped = 2 => toggle = devIn \/ buffer # << >>
      BY <1>7, AnswerLength DEF InFlow, TypeInv
    <2>2. PICK new \in 0 .. 2 :
            /\ new = skipped + 1 - Repeated
            /\ buffer # << >> => new = skipped
      <3>1. CASE buffer = << >>
        BY <1>1, <1>4, <2>1, <3>1
      <3>2. CASE buffer # << >>
        BY <1>4, <3>2
      <3> QED
        BY <3>1, <3>2
    <2>3. \A j \in 1 .. Len(buffer') : Is(cmd, buffer'[j], j + new, good)
      <3>1. CASE buffer = << >>
        BY <1>1, <3>1
      <3>2. CASE buffer # << >>
        BY <1>1, <2>1, <2>2, <3>2
      <3> QED
        BY <3>1, <3>2
    <2>4. ASSUME NEW i \in 1 .. Len(resp')
          PROVE  Is(cmd, resp'[i], i + Len(buffer') + new - Repeated', good)
      <3>1. i + 1 \in 1 .. Len(resp) /\ resp'[i] = resp[i + 1]
        BY <1>2
      <3>2. Is(cmd, resp[i + 1], (i + 1) + Len(buffer) + skipped - Repeated, good)
        BY <2>1, <3>1
      <3>3. i \in Int /\ Repeated \in Int /\ Len(buffer') = Len(buffer)
        BY <1>1, <1>2, <1>4
      <3>4. i + Len(buffer') + new - Repeated' = (i + 1) + Len(buffer) + skipped - Repeated
        BY <1>3, <1>4, <2>2, <3>3
      <3> QED
        BY <3>1, <3>2, <3>4
    <2>5. Len(buffer') + Len(resp') + new = DataTds(cmd) + 2 + Repeated'
      <3>1. Repeated \in Int /\ Len(buffer') = Len(buffer)
        BY <1>1, <1>4
      <3> QED
        BY <1>2, <1>3, <1>4, <2>1, <2>2, <3>1
    <2>6. InFlow(good, new)'
      BY <1>1, <1>4, <2>1, <2>3, <2>4, <2>5 DEF InFlow
    <2> QED
      BY <1>5, <2>6 DEF StreamInv
  <1>8. Running
    BY <1>1 DEF Running
  <1> QED
    BY <1>6, <1>7, <1>8 DEF StreamInv

LEMMA StreamNext ==
  TypeInv /\ CallInv /\ ChainInv /\ StreamInv /\ [Next]_vars => StreamInv'
PROOF
  <1> SUFFICES ASSUME TypeInv, CallInv, ChainInv, StreamInv, [Next]_vars PROVE StreamInv'
    OBVIOUS
  <1>s. ASSUME UNCHANGED <<cmd, phase, tds, toggle, buffer, work, resp, devIn>>
        PROVE  StreamInv'
    <2>1. Running' = Running /\ Repeated' = Repeated
      BY <1>s DEF Running, Repeated
    <2>2. Unanswered => Unanswered'
      BY <1>s, <2>1 DEF Unanswered
    <2>3. ASSUME NEW good \in BOOLEAN, NEW skipped \in 0 .. 2, InFlow(good, skipped)
          PROVE  InFlow(good, skipped)'
      BY <1>s, <2>1, <2>3 DEF InFlow
    <2> QED
      BY <1>s, <2>1, <2>2, <2>3 DEF StreamInv
  <1>r. ASSUME phase' = "done" \/ (phase' = "cbw" /\ tds' = 1), resp' = resp \/ resp' = << >>
        PROVE  StreamInv'
    <2>1. ~Running'
      BY <1>r DEF Running
    <2> QED
      BY <1>r, <2>1 DEF StreamInv
  <1>i. ASSUME NEW c, NEW out, Issue(c, out), UNCHANGED device
        PROVE  StreamInv'
    BY <1>i, <1>r DEF Issue, device
  <1>1. CASE Respond
    BY <1>1, AnswerSent
  <1>2. CASE Deliver
    <2>1. /\ phase = "cbw" /\ tds = 1 /\ tds' = 0 /\ buffer = << >>
          /\ UNCHANGED <<phase, cmd, buffer, resp>>
      BY <1>2 DEF Deliver, TdDone, program, ChainInv, TypeInv
    <2>2. work' = << >> \/ work' = <<cmd'>>
      BY <1>2, <2>1 DEF Deliver, Takes, Accept
    <2>3. resp = << >> \/ Len(resp) = 1
      BY <1>2 DEF Deliver, Takes
    <2>4. Repeated' = 0 /\ Len(buffer') = 0
      BY <2>1 DEF Repeated
    <2>5. /\ Len(buffer') + Len(resp') <= 1 + Repeated' /\ Repeated' <= Len(resp')
          /\ \A j \in 1 .. Len(buffer') : buffer'[j].kind = "csw"
          /\ \A i \in 1 .. Len(resp') : resp'[i].kind = "csw"
      BY <2>1, <2>3, <2>4 DEF StreamInv
    <2>6. Unanswered'
      BY <2>2, <2>5 DEF Unanswered
    <2> QED
      BY <2>1, <2>6 DEF StreamInv
  <1>3. CASE LoseOut \/ Refuse \/ LoseIn \/ TimeOut
    BY <1>3, <1>r DEF LoseOut, Refuse, LoseIn, TimeOut, BreakOff, device
  <1>4. CASE Receive
    BY <1>4, PacketTaken
  <1>5. CASE Duplicate
    BY <1>5, PacketDropped
  <1>6. CASE DataPhase \/ StatusPhase
    <2>1. /\ Running /\ tds = 0
          /\ \/ phase = "cbw" /\ buffer = << >>
             \/ phase = "data" /\ toggle' = toggle
      <3>1. CASE phase = "cbw"
        <4>1. tds = 0
          BY <1>6 DEF DataPhase, StatusPhase
        <4>2. buffer = << >>
          BY <3>1 DEF ChainInv
        <4> QED
          BY <3>1, <4>1, <4>2 DEF Running
      <3>2. CASE phase # "cbw"
        <4>1. phase = "data" /\ tds = 0 /\ toggle' = hostIn
          BY <1>6, <3>2 DEF DataPhase, StatusPhase, QueueIn
        <4>2. hostIn = (toggle + tds) % 2
          BY <4>1 DEF ChainInv
        <4>3. toggle' = toggle
          BY <4>1, <4>2 DEF TypeInv, Bits
        <4> QED
          BY <4>1, <4>3 DEF Running
      <3> QED
        BY <3>1, <3>2
    <2>2. phase' \in {"data", "csw"} /\ UNCHANGED <<cmd, buffer, work, resp, devIn>>
      BY <1>6 DEF DataPhase, StatusPhase, device
    <2>3. Repeated' = Repeated
      BY <2>1, <2>2 DEF Repeated
    <2>4. Unanswered => Unanswered'
      BY <2>2, <2>3 DEF Unanswered
    <2>5. ASSUME NEW good \in BOOLEAN, NEW skipped \in 0 .. 2, InFlow(good, skipped)
          PROVE  InFlow(good, skipped)'
      <3>1. skipped = 2 => phase' # "cbw" /\ (toggle' = devIn' \/ buffer' # << >>)
        BY <2>1, <2>2, <2>5 DEF InFlow
      <3> QED
        BY <2>2, <2>3, <2>5, <3>1 DEF InFlow
    <2> QED
      BY <2>1, <2>2, <2>4, <2>5 DEF StreamInv
  <1>7. CASE CheckStatus
    BY <1>7, <1>r DEF CheckStatus, device
  <1>8. CASE Sense \/ SelectUsb \/ AskCapacity \/ Probe \/ Retry
    BY <1>8, <1>i DEF Sense, SelectUsb, AskCapacity, Probe, Retry
  <1>9. CASE Enumerate
    <2>1. phase' = "done" \/ (phase' = "cbw" /\ tds' = 1)
      BY <1>9 DEF Enumerate, Enumerated, Settled, Issue
    <2>2. resp' = resp \/ resp' = << >>
      BY <1>9 DEF Enumerate, Enumerated, DeviceReset, device
    <2> QED
      BY <1>r, <2>1, <2>2
  <1>10. CASE NoCapacity \/ Registered \/ GiveUp
    BY <1>10, <1>s DEF NoCapacity, Registered, GiveUp, chain, device
  <1>11. CASE NextChunk
    <2>1. CASE left' = 0
      <3>1. UNCHANGED <<cmd, phase, tds, toggle, buffer, work, resp, devIn>>
        BY <1>11, <2>1 DEF NextChunk, chain, device
      <3> QED
        BY <1>s, <3>1
    <2>2. CASE left' # 0
      BY <1>11, <1>i, <2>2 DEF NextChunk
    <2> QED
      BY <2>1, <2>2
  <1>12. ASSUME NEW s \in 0 .. Word - 1, NEW n \in 1 .. MaxCount, Read(s, n)
         PROVE  StreamInv'
    <2>1. CASE InRange(s, n)
      BY <1>12, <1>i, <2>1 DEF Read
    <2>2. CASE ~InRange(s, n)
      <3>1. UNCHANGED <<cmd, phase, tds, toggle, buffer, work, resp, devIn>>
        BY <1>12, <2>2 DEF Read, chain, device
      <3> QED
        BY <1>s, <3>1
    <2> QED
      BY <2>1, <2>2
  <1>13. CASE UNCHANGED vars
    BY <1>13, <1>s DEF vars, program, chain, device
  <1> QED
    BY <1>1, <1>2, <1>3, <1>4, <1>5, <1>6, <1>7, <1>8, <1>9, <1>10, <1>11, <1>12, <1>13
       DEF Next, Program, Controller

(* A status that is good ends the answer to this very command.             *)
LEMMA StatusIsLast ==
  ASSUME TypeInv, ChainInv, StreamInv, phase = "csw", tds = 0, DataTds(cmd) > 0,
         Good(buffer[Len(buffer)])
  PROVE  /\ Len(buffer) = DataTds(cmd) + 1
         /\ \A j \in 1 .. DataTds(cmd) : buffer[j] = Response(cmd, TRUE)[j]
PROOF
  <1> DEFINE len == DataTds(cmd)
  <1>1. len \in Nat /\ len > 0 /\ Len(buffer) = len + 1 /\ cmd \in Commands
    BY AnswerLength DEF ChainInv, TypeInv
  <1> HIDE DEF len
  <1>2. buffer[len + 1].kind = "csw" /\ buffer[len + 1].good
    BY <1>1 DEF Good
  <1>3. ~Unanswered
    <2>1. Repeated \in {0, 1} /\ Len(resp) \in Nat
      BY DEF Repeated, TypeInv
    <2> QED
      BY <1>1, <2>1 DEF Unanswered
  <1>4. PICK good \in BOOLEAN, skipped \in 0 .. 2 : InFlow(good, skipped)
    BY <1>3 DEF StreamInv, Running
  <1>5. \A j \in 1 .. len + 1 : Is(cmd, buffer[j], j + skipped, good)
    BY <1>1, <1>4 DEF InFlow
  <1>6. \A j \in 1 .. len + 1 :
          j + skipped # 1 => /\ j + skipped <= len + 2
                             /\ buffer[j] = Response(cmd, good)[j + skipped - 1]
    BY <1>1, <1>5 DEF Is, len
  <1>7. skipped <= 1
    <2>1. len + 1 \in 1 .. len + 1 /\ len + 1 + skipped # 1
      BY <1>1
    <2>2. len + 1 + skipped <= len + 2
      BY <1>6, <2>1
    <2> QED
      BY <1>1, <2>2
  <1>8. skipped # 0
    <2> SUFFICES ASSUME skipped = 0 PROVE FALSE
      OBVIOUS
    <2>1. len + 1 \in 1 .. len + 1 /\ len + 1 + skipped # 1 /\ len + 1 + skipped - 1 = len
          /\ len \in 1 .. len
      BY <1>1
    <2>2. buffer[len + 1] = Response(cmd, good)[len]
      BY <1>6, <2>1
    <2>3. Response(cmd, good)[len].kind # "csw"
      BY <1>1, <2>1, Answers DEF len
    <2> QED
      BY <1>2, <2>2, <2>3
  <1>9. skipped = 1
    BY <1>7, <1>8
  <1>10. \A j \in 1 .. len + 1 : buffer[j] = Response(cmd, good)[j]
    <2> TAKE j \in 1 .. len + 1
    <2>1. j + skipped # 1 /\ j + skipped - 1 = j
      BY <1>1, <1>9
    <2> QED
      BY <1>6, <2>1
  <1>11. good = TRUE
    <2>1. len + 1 \in 1 .. len + 1
      BY <1>1
    <2>2. buffer[len + 1] = Csw(good)
      BY <1>1, <1>10, <2>1, Answers DEF len
    <2>3. Csw(good).good = good
      BY DEF Csw
    <2> QED
      BY <1>2, <2>2, <2>3
  <1>12. ASSUME NEW j \in 1 .. len PROVE buffer[j] = Response(cmd, TRUE)[j]
    <2>1. j \in 1 .. len + 1
      BY <1>1
    <2> QED
      BY <1>10, <1>11, <2>1, Zenon
  <1> QED
    BY <1>1, <1>12 DEF len

LEMMA BroughtNext ==
  TypeInv /\ ChainInv /\ StreamInv /\ Brought /\ [Next]_vars => Brought'
PROOF
  <1> SUFFICES ASSUME TypeInv, ChainInv, StreamInv, Brought, [Next]_vars PROVE Brought'
    OBVIOUS
  <1>s. ASSUME UNCHANGED <<cmd, phase, ok, buffer>>
        PROVE  Brought'
    BY <1>s DEF Brought
  <1>r. ASSUME phase' # "done" \/ ~ok'
        PROVE  Brought'
    BY <1>r DEF Brought
  <1>i. ASSUME NEW c, NEW out, Issue(c, out)
        PROVE  Brought'
    BY <1>i, <1>r DEF Issue
  <1>1. CASE Respond \/ Deliver \/ Duplicate
    BY <1>1, <1>s DEF Respond, Deliver, Duplicate, program
  <1>2. CASE LoseOut \/ Refuse \/ LoseIn \/ TimeOut
    BY <1>2, <1>r DEF LoseOut, Refuse, LoseIn, TimeOut, BreakOff
  <1>3. CASE Receive
    BY <1>3, <1>r DEF Receive, In
  <1>4. CASE DataPhase \/ StatusPhase
    BY <1>4, <1>r DEF DataPhase, StatusPhase
  <1>5. CASE CheckStatus
    <2>1. /\ phase = "csw" /\ tds = 0 /\ UNCHANGED <<cmd, buffer>>
          /\ ok' => Good(buffer[Len(buffer)])
      BY <1>5 DEF CheckStatus
    <2>2. ok' /\ DataTds(cmd) > 0 =>
            /\ Len(buffer) = DataTds(cmd) + 1
            /\ \A j \in 1 .. DataTds(cmd) : buffer[j] = Response(cmd, TRUE)[j]
      BY <2>1, StatusIsLast
    <2> QED
      BY <2>1, <2>2 DEF Brought
  <1>6. CASE Sense \/ SelectUsb \/ AskCapacity \/ Probe \/ Retry
    BY <1>6, <1>i DEF Sense, SelectUsb, AskCapacity, Probe, Retry
  <1>7. CASE Enumerate
    BY <1>7, <1>i, <1>s DEF Enumerate, Enumerated
  <1>8. CASE NoCapacity \/ Registered \/ GiveUp
    BY <1>8, <1>s DEF NoCapacity, Registered, GiveUp
  <1>9. CASE NextChunk
    <2>1. CASE left' = 0
      BY <1>9, <1>s, <2>1 DEF NextChunk
    <2>2. CASE left' # 0
      BY <1>9, <1>i, <2>2 DEF NextChunk
    <2> QED
      BY <2>1, <2>2
  <1>10. ASSUME NEW s \in 0 .. Word - 1, NEW n \in 1 .. MaxCount, Read(s, n)
         PROVE  Brought'
    <2>1. CASE InRange(s, n)
      BY <1>10, <1>i, <2>1 DEF Read
    <2>2. CASE ~InRange(s, n)
      BY <1>10, <1>s, <2>2 DEF Read
    <2> QED
      BY <2>1, <2>2
  <1>11. CASE UNCHANGED vars
    BY <1>11, <1>s DEF vars, program
  <1> QED
    BY <1>1, <1>2, <1>3, <1>4, <1>5, <1>6, <1>7, <1>8, <1>9, <1>10, <1>11
       DEF Next, Program, Controller

-----------------------------------------------------------------------------
LEMMA Initially == Init => IInv
PROOF
  <1> SUFFICES ASSUME Init PROVE IInv
    OBVIOUS
  <1>1. TypeInv
    BY TypeInitial
  <1>2. CallInv /\ ChainInv /\ Brought /\ ReadInv
    BY DEF Init, CallInv, ChainInv, Brought, ReadInv
  <1>3. resp # << >> => resp[Len(resp)].kind = "csw"
    <2>1. CASE resp = <<Csw(TRUE)>>
      <3>1. Csw(TRUE).kind = "csw"
        BY PacketKinds
      <3>2. resp[Len(resp)] = Csw(TRUE)
        BY <2>1
      <3> QED
        BY <3>1, <3>2
    <2>2. CASE resp = Response(ReadOf(0, 1), TRUE)
      <3> DEFINE c == ReadOf(0, 1)
      <3>1. c \in Commands
        BY CommandsIssued
      <3> HIDE DEF c
      <3>2. Len(Response(c, TRUE)) = DataTds(c) + 1
            /\ Response(c, TRUE)[DataTds(c) + 1] = Csw(TRUE) /\ Csw(TRUE).kind = "csw"
        BY <3>1, Answers, PacketKinds
      <3> QED
        BY <2>2, <3>2 DEF c
    <2> QED
      BY <2>1, <2>2 DEF Init
  <1>4. StreamInv
    BY <1>3 DEF Init, StreamInv, Running
  <1> QED
    BY <1>1, <1>2, <1>4 DEF IInv

LEMMA Invariance == Spec => []IInv
PROOF
  <1>1. IInv /\ [Next]_vars => IInv'
    BY TypeNext, CallNext, ChainNext, StreamNext, BroughtNext, ReadNext DEF IInv
  <1> QED
    BY <1>1, Initially, PTL DEF Spec

(* bios_hdd_read_sectors on a USB disk: a read that returns success        *)
(* brought the sectors asked for, in order, however often packets and      *)
(* acknowledgements were lost and whatever state of the toggles, and       *)
(* whatever unread answers, the commands before had left.                  *)
THEOREM DiskReadsRight == Spec => []ReadsAreRight
PROOF
  <1>1. IInv => ReadsAreRight
    <2> SUFFICES ASSUME IInv PROVE ReadsAreRight
      OBVIOUS
    <2>1. stage = "idle" /\ call = "read" /\ outcome = "ok" =>
            dest = Sectors(request[1], request[2])
      BY DEF IInv, ReadInv
    <2>2. ASSUME Settled("capacity"), ~sensing PROVE buffer[1] = Answer("capacity")
      <3>1. stage = "capacity" /\ phase = "done" /\ ok
        BY <2>2 DEF Settled
      <3>2. cmd = Command("capacity") /\ cmd.op = "capacity"
        BY <2>2, <3>1 DEF IInv, CallInv, Expected, Command
      <3>3. DataTds(cmd) = 1
        BY <3>2 DEF DataTds
      <3> DEFINE w == Response(cmd, TRUE)
      <3>4. buffer[1] = w[1]
        <4>1. Brought
          BY DEF IInv
        <4>2. \A j \in 1 .. DataTds(cmd) : buffer[j] = w[j]
          <5>1. DataTds(cmd) > 0
            BY <3>3
          <5> QED
            BY <3>1, <4>1, <5>1, Zenon DEF Brought
        <4>3. 1 \in 1 .. DataTds(cmd)
          BY <3>3
        <4> HIDE DEF w
        <4> QED
          BY <4>2, <4>3
      <3>5. w[1] = Answer("capacity")
        <4> DEFINE p == Answer(cmd.op)
                   q == Csw(TRUE)
        <4>1. w = Append(<<p>>, q)
          BY <3>2 DEF Response
        <4> HIDE DEF p, q, w
        <4>2. w[1] = p
          BY <4>1
        <4> QED
          BY <3>2, <4>2 DEF p
      <3> QED
        BY <3>4, <3>5
    <2> QED
      BY <2>1, <2>2 DEF ReadsAreRight
  <1> QED
    BY <1>1, Invariance, PTL

-----------------------------------------------------------------------------
(* The bus and the disk while nothing fails. *)

(* The packet the device sends next fits the TD that waits for it.         *)
LEMMA NextPacketFits ==
  ASSUME TypeInv, ChainInv, In, NEW good \in BOOLEAN, InFlow(good, 1), toggle = devIn
  PROVE  resp # << >> /\ Head(resp).kind = (IF phase = "csw" THEN "csw" ELSE DataKind(cmd))
PROOF
  <1> DEFINE len == DataTds(cmd)
             b == Len(buffer)
  <1>1. Repeated = 0 /\ tds \in Nat /\ tds > 0 /\ b \in Nat /\ Len(resp) \in Nat
    BY DEF Repeated, In, TypeInv
  <1>2. len \in Nat /\ cmd \in Commands
    BY AnswerLength DEF TypeInv
  <1>3. /\ \A i \in 1 .. Len(resp) : Is(cmd, resp[i], i + b + 1 - Repeated, good)
        /\ b + Len(resp) + 1 = len + 2 + Repeated
    BY DEF InFlow
  <1>4. /\ phase = "csw" => b = len
        /\ phase # "csw" => phase = "data" /\ b < len
    BY <1>1, <1>2 DEF In, ChainInv
  <1> HIDE DEF len, b
  <1>5. Len(resp) > 0 /\ 1 \in 1 .. Len(resp) /\ 1 + b + 1 - Repeated = b + 2
    BY <1>1, <1>2, <1>3, <1>4
  <1>6. Is(cmd, resp[1], b + 2, good)
    BY <1>3, <1>5
  <1>7. resp[1] = Response(cmd, good)[b + 1]
    <2>1. b + 2 # 1 /\ b + 2 - 1 = b + 1
      BY <1>1
    <2>2. resp[1] = Response(cmd, good)[b + 2 - 1]
      BY <1>1, <1>6, <2>1 DEF Is
    <2> QED
      BY <2>1, <2>2
  <1>8. resp # << >> /\ Head(resp) = resp[1]
    <2>1. resp # << >>
      BY <1>5
    <2> QED
      BY <2>1, TailOf DEF TypeInv
  <1>9. CASE phase = "csw"
    <2>1. Response(cmd, good)[b + 1] = Csw(good) /\ Csw(good).kind = "csw"
      BY <1>2, <1>4, <1>9, Answers, PacketKinds DEF len
    <2> QED
      BY <1>7, <1>8, <1>9, <2>1
  <1>10. CASE phase # "csw"
    <2>1. b + 1 \in 1 .. len
      BY <1>1, <1>2, <1>4, <1>10
    <2>2. Response(cmd, good)[b + 1].kind = DataKind(cmd)
      BY <1>2, <2>1, Answers DEF len
    <2> QED
      BY <1>7, <1>8, <1>10, <2>2
  <1> QED
    BY <1>9, <1>10

(* A command that the device takes while nothing is left over is answered. *)
LEMMA FirstAnswer ==
  ASSUME TypeInv, Running, work = <<cmd>>, resp = << >>, buffer = << >>,
         NEW good \in BOOLEAN, resp' = resp \o Response(cmd, good), work' = << >>,
         UNCHANGED <<cmd, phase, buffer, toggle, devIn>>
  PROVE  InFlow(good, 1)'
PROOF
  <1> DEFINE w == Response(cmd, good)
             len == DataTds(cmd)
  <1>1. w \in Seq(Stuff) /\ Len(w) = len + 1 /\ len \in Nat
    BY Answers, AnswerLength DEF TypeInv
  <1> HIDE DEF w
  <1>2. resp' = w
    <2>1. resp' = << >> \o w
      BY DEF w
    <2> QED
      BY <1>1, <2>1, ConcatEmptySeq
  <1>3. Repeated' = 0 /\ Len(buffer') = 0 /\ buffer' = << >>
    BY DEF Repeated
  <1>4. ASSUME NEW i \in 1 .. Len(resp')
        PROVE  Is(cmd', resp'[i], i + Len(buffer') + 1 - Repeated', good)
    <2> HIDE DEF len
    <2>1. i \in Nat /\ i >= 1 /\ i <= len + 1
      BY <1>1, <1>2
    <2>2. i + Len(buffer') + 1 - Repeated' = i + 1
      BY <1>3, <2>1
    <2>3. i + 1 # 1 /\ i + 1 \in 2 .. len + 2 /\ i + 1 - 1 = i
      BY <1>1, <2>1
    <2>4. resp'[i] = Response(cmd', good)[i + 1 - 1]
      BY <1>2, <2>3 DEF w
    <2>5. Is(cmd', resp'[i], i + 1, good)
      BY <2>3, <2>4 DEF Is, len
    <2> QED
      BY <2>2, <2>5
  <1>5. Len(buffer') + Len(resp') + 1 = DataTds(cmd') + 2 + Repeated'
    BY <1>1, <1>2, <1>3
  <1> QED
    BY <1>3, <1>4, <1>5 DEF InFlow

(* What SmoothInv says while something runs.                               *)
InStepNow ==
  /\ hostOut = devOut
  /\ IF phase = "cbw" THEN hostIn = devIn
     ELSE toggle = devIn /\ hostIn = (toggle + tds) % 2
  /\ \/ work = <<cmd>> /\ resp = << >> /\ buffer = << >>
     \/ \E good \in BOOLEAN : (good <=> Possible(cmd)) /\ InFlow(good, 1)

LEMMA SmoothTransfer ==
  ASSUME TypeInv, CallInv, ChainInv, SmoothInv, CauseInv, Transfer
  PROVE  SmoothInv'
PROOF
  <1> SUFFICES ASSUME Smooth' PROVE SmoothInv'
    BY DEF SmoothInv
  <1>0. Smooth /\ faults' = faults /\ UNCHANGED <<stage, cmd>>
    <2>1. /\ UNCHANGED <<stage, cmd, selected, since>>
          /\ faults' \in Nat /\ faults' >= faults
      BY TransferFrame
    <2>2. faults' = since /\ since <= faults /\ faults \in Nat
      BY <2>1 DEF Smooth, CauseInv, TypeInv
    <2>3. faults' = faults
      BY <2>1, <2>2
    <2> QED
      BY <2>1, <2>2, <2>3 DEF Smooth
  <1>f. ~Fault
    BY <1>0 DEF Fault, TypeInv
  <1>h. ~halted
    BY <1>0 DEF SmoothInv
  <1>c. phase = "cbw" /\ tds = 1 =>
          /\ work = << >> /\ resp = << >>
          /\ toggle = devOut /\ hostOut = Flip(devOut) /\ hostIn = devIn
    BY <1>0 DEF SmoothInv
  <1>r. Running => InStepNow
    BY <1>0 DEF SmoothInv, InStepNow
  <1>d. phase = "done" =>
          /\ work = << >> /\ resp = << >> /\ hostOut = devOut /\ hostIn = devIn
          /\ stage # "idle" => (ok <=> Possible(cmd))
    BY <1>0 DEF SmoothInv
  <1>g. ASSUME ~halted', Running', InStepNow'
        PROVE  SmoothInv'
    BY <1>g DEF SmoothInv, InStepNow, Running
  <1>1. CASE Respond
    <2>1. /\ work' = << >> /\ halted' = halted
          /\ resp' = resp \o Response(Head(work), Possible(Head(work)))
          /\ work # << >>
          /\ UNCHANGED <<phase, tds, hostOut, hostIn, buffer, toggle, devOut, devIn>>
      BY <1>1, <1>f DEF Respond, program, chain
    <2>2. phase = "cbw" => tds \in {0, 1}
      BY DEF ChainInv, TypeInv
    <2>3. Running /\ InStepNow
      BY <1>c, <1>d, <1>r, <2>1, <2>2 DEF Running, TypeInv
    <2>4. work = <<cmd>> /\ resp = << >> /\ buffer = << >>
      BY <2>1, <2>3 DEF InStepNow, InFlow
    <2>5. Head(work) = cmd
      BY <2>4
    <2>6. PICK good \in BOOLEAN : good <=> Possible(cmd)
      BY DEF Possible
    <2>7. resp' = resp \o Response(cmd, good)
      <3>1. good = Possible(cmd)
        BY <2>6 DEF Possible
      <3> QED
        BY <2>1, <2>5, <3>1
    <2>8. InFlow(good, 1)'
      BY <1>0, <2>1, <2>3, <2>4, <2>7, FirstAnswer
    <2>9. good <=> Possible(cmd')
      BY <1>0, <2>6
    <2> QED
      BY <1>g, <1>h, <2>1, <2>3, <2>8, <2>9 DEF InStepNow, Running
  <1>2. CASE Deliver
    <2>1. /\ phase = "cbw" /\ tds = 1 /\ tds' = 0 /\ buffer = << >>
          /\ UNCHANGED <<phase, hostOut, hostIn, buffer, resp, halted, devIn>>
      BY <1>2 DEF Deliver, TdDone, program, ChainInv, TypeInv
    <2>2. work' = <<cmd>> /\ devOut' = Flip(devOut)
      BY <1>2, <1>c, <2>1 DEF Deliver, Accept
    <2> QED
      BY <1>0, <1>c, <1>g, <1>h, <2>1, <2>2 DEF InStepNow, Running
  <1>3. CASE LoseOut \/ LoseIn
    BY <1>3, <1>f DEF LoseOut, LoseIn
  <1>4. CASE Receive
    <2>1. /\ phase \in {"data", "csw"} /\ Running /\ resp # << >>
          /\ UNCHANGED <<phase, halted, devOut, hostOut, hostIn>>
          /\ tds \in Nat /\ tds > 0 /\ tds' = tds - 1 /\ toggle' = Flip(toggle)
      BY <1>4 DEF Receive, In, TdDone, Running, TypeInv
    <2>2. devIn' = Flip(devIn)
      BY <1>4, <1>f DEF Receive
    <2>3. PICK good \in BOOLEAN : (good <=> Possible(cmd)) /\ InFlow(good, 1)
      BY <1>r, <2>1 DEF InStepNow
    <2>4. InFlow(good, 1)'
      BY <1>4, <2>3, TakenInFlow
    <2>5. toggle' = devIn' /\ hostIn' = (toggle' + tds') % 2
      BY <1>r, <2>1, <2>2 DEF InStepNow, Flip, TypeInv, Bits
    <2> QED
      BY <1>0, <1>g, <1>h, <1>r, <2>1, <2>3, <2>4, <2>5 DEF InStepNow, Running
  <1>5. CASE Duplicate
    BY <1>5, <1>r DEF Duplicate, In, Running, InStepNow
  <1>6. CASE Refuse
    <2>1. /\ In /\ Running /\ phase # "cbw" /\ resp # << >>
          /\ Size(Head(resp).kind) > Room
      BY <1>6, <1>h DEF Refuse, In, Running
    <2>2. PICK good \in BOOLEAN : InFlow(good, 1) /\ toggle = devIn
      BY <1>r, <2>1 DEF InStepNow
    <2>3. Head(resp).kind = (IF phase = "csw" THEN "csw" ELSE DataKind(cmd))
      BY <2>1, <2>2, NextPacketFits
    <2>4. Room = Size(Head(resp).kind)
      BY <2>3 DEF Room
    <2>5. Head(resp).kind \in {"data", "csw", "sense", "capacity"}
      BY <2>1, TailOf, HeadTailProperties, PacketKinds DEF TypeInv
    <2>6. Size(Head(resp).kind) \in Nat
      BY <2>5, SMT DEF Size
    <2> QED
      BY <2>1, <2>4, <2>6
  <1>7. CASE TimeOut
    <2>1. tds > 0 /\ work = << >>
      BY <1>7, <1>f DEF TimeOut
    <2>2. CASE phase = "cbw"
      <3>1. tds = 1
        BY <2>1, <2>2 DEF ChainInv, TypeInv
      <3> QED
        BY <1>7, <1>c, <1>h, <2>2, <3>1 DEF TimeOut, Takes
    <2>3. CASE phase # "cbw"
      <3>1. resp = << >> /\ In
        BY <1>7, <2>1, <2>3 DEF TimeOut, In, ChainInv, TypeInv
      <3>2. Running
        BY <3>1 DEF In, Running
      <3>3. PICK good \in BOOLEAN : InFlow(good, 1) /\ toggle = devIn
        BY <1>r, <2>1, <2>3, <3>2 DEF InStepNow
      <3> QED
        BY <3>1, <3>3, NextPacketFits
    <2> QED
      BY <2>2, <2>3
  <1>8. CASE DataPhase \/ StatusPhase
    <2>1. /\ Running /\ tds = 0 /\ phase \in {"cbw", "data"}
          /\ phase' \in {"data", "csw"} /\ Running' /\ toggle' = hostIn
          /\ tds' \in Nat /\ hostIn' = (hostIn + tds') % 2
          /\ UNCHANGED <<hostOut, buffer, work, resp, halted, devOut, devIn>>
      BY <1>8, AnswerLength DEF DataPhase, StatusPhase, QueueIn, Running, device, TypeInv
    <2>2. phase = "cbw" => buffer = << >>
      BY DEF ChainInv
    <2>3. hostIn = devIn /\ (phase # "cbw" => toggle = devIn)
      BY <1>r, <2>1 DEF InStepNow, TypeInv, Bits
    <2>4. Repeated = 0 /\ Repeated' = 0
      BY <2>1, <2>2, <2>3 DEF Repeated
    <2>5. ASSUME NEW good \in BOOLEAN, InFlow(good, 1)
          PROVE  InFlow(good, 1)'
      BY <1>0, <2>1, <2>4, <2>5 DEF InFlow
    <2> QED
      BY <1>0, <1>g, <1>h, <1>r, <2>1, <2>3, <2>5 DEF InStepNow
  <1>9. CASE CheckStatus
    <2>1. /\ phase = "csw" /\ tds = 0 /\ Running /\ phase' = "done"
          /\ ok' = Good(buffer[Len(buffer)])
          /\ UNCHANGED <<hostOut, hostIn, buffer, work, resp, halted, devOut, devIn>>
      BY <1>9 DEF CheckStatus, Running, device
    <2>2. /\ DataTds(cmd) \in Nat /\ Len(buffer) = DataTds(cmd) + 1 /\ Len(resp) \in Nat
          /\ cmd \in Commands
      BY <2>1, AnswerLength DEF ChainInv, TypeInv
    <2>3. PICK good \in BOOLEAN : (good <=> Possible(cmd)) /\ InFlow(good, 1)
      BY <1>r, <2>1, <2>2 DEF InStepNow
    <2>4. toggle = devIn /\ hostIn = devIn /\ Repeated = 0
      BY <1>r, <2>1 DEF InStepNow, Repeated, TypeInv, Bits
    <2>5. work = << >> /\ Len(resp) = 0
      BY <2>2, <2>3, <2>4 DEF InFlow
    <2>6. resp = << >>
      BY <2>5, EmptySeq DEF TypeInv
    <2>7. buffer[Len(buffer)] = Csw(good)
      <3>1. Len(buffer) \in 1 .. Len(buffer) /\ Len(buffer) + 1 # 1
            /\ Len(buffer) + 1 - 1 = DataTds(cmd) + 1
        BY <2>2
      <3>2. Is(cmd, buffer[Len(buffer)], Len(buffer) + 1, good)
        BY <2>3, <3>1 DEF InFlow
      <3>3. buffer[Len(buffer)] = Response(cmd, good)[DataTds(cmd) + 1]
        BY <3>1, <3>2 DEF Is
      <3> QED
        BY <2>2, <3>3, Answers
    <2>8. ok' <=> good
      <3>1. Csw(good).kind = "csw" /\ Csw(good).good = good
        BY DEF Csw
      <3> QED
        BY <2>1, <2>7, <3>1 DEF Good
    <2> QED
      BY <1>0, <1>h, <1>r, <2>1, <2>3, <2>4, <2>5, <2>6, <2>8
         DEF SmoothInv, InStepNow, Running
  <1> QED
    BY <1>1, <1>2, <1>3, <1>4, <1>5, <1>6, <1>7, <1>8, <1>9 DEF Transfer, Controller

(* The next command of a call finds nothing left over.                     *)
LEMMA SmoothIssue ==
  ASSUME TypeInv, SmoothInv, Smooth, phase = "done", NEW c, Issue(c, hostOut),
         UNCHANGED <<hostIn, device>>
  PROVE  SmoothInv'
PROOF
  <1>1. /\ ~halted /\ work = << >> /\ resp = << >>
        /\ hostOut = devOut /\ hostIn = devIn
    BY DEF SmoothInv
  <1>2. /\ phase' = "cbw" /\ tds' = 1 /\ toggle' = hostOut /\ hostOut' = Flip(hostOut)
        /\ UNCHANGED <<hostIn, work, resp, halted, devOut, devIn>>
    BY DEF Issue, device
  <1>3. ~Running'
    BY <1>2 DEF Running
  <1> QED
    BY <1>1, <1>2, <1>3 DEF SmoothInv

(* A call that ends leaves the bus as it is.                               *)
LEMMA SmoothEnd ==
  ASSUME SmoothInv, Smooth, phase = "done", stage' = "idle",
         UNCHANGED <<phase, tds, hostOut, hostIn, device>>
  PROVE  SmoothInv'
PROOF
  <1>1. /\ ~halted /\ work = << >> /\ resp = << >>
        /\ hostOut = devOut /\ hostIn = devIn
    BY DEF SmoothInv
  <1>2. phase' = "done" /\ UNCHANGED <<hostOut, hostIn, work, resp, halted, devOut, devIn>>
    BY DEF device
  <1>3. ~Running'
    BY <1>2 DEF Running
  <1> QED
    BY <1>1, <1>2, <1>3 DEF SmoothInv

LEMMA SmoothNext ==
  TypeInv /\ CallInv /\ ChainInv /\ SmoothInv /\ CauseInv /\ [Next]_vars => SmoothInv'
PROOF
  <1> SUFFICES ASSUME TypeInv, CallInv, ChainInv, SmoothInv, CauseInv, [Next]_vars, Smooth'
               PROVE  SmoothInv'
    BY DEF SmoothInv
  <1>1. CASE Transfer
    BY <1>1, SmoothTransfer
  <1>2. CASE Sense
    <2>1. Smooth
      BY <1>2 DEF Sense, Smooth, history
    <2>2. phase = "done" /\ Issue(Command("sense"), hostOut) /\ UNCHANGED <<hostIn, device>>
      BY <1>2 DEF Sense
    <2> QED
      BY <2>1, <2>2, SmoothIssue
  <1>3. CASE SelectUsb
    BY <1>3 DEF SelectUsb, Smooth
  <1>4. CASE Enumerate
    <2>1. CASE Enumerated
      <3>1. /\ phase' = "cbw" /\ tds' = 1 /\ toggle' = 0 /\ hostOut' = Flip(0) /\ hostIn' = 0
            /\ work' = << >> /\ resp' = << >> /\ halted' = FALSE
            /\ devOut' = 0 /\ devIn' = 0
        BY <2>1 DEF Enumerated, Issue, DeviceReset
      <3>2. ~Running'
        BY <3>1 DEF Running
      <3> QED
        BY <3>1, <3>2 DEF SmoothInv
    <2>2. CASE ~Enumerated
      <3>1. stage = "activate" /\ stage' = "idle" /\ selected' = selected
        BY <1>4, <2>2 DEF Enumerate, Settled, End
      <3> QED
        BY <3>1 DEF Smooth, CauseInv
    <2> QED
      BY <2>1, <2>2
  <1>5. CASE AskCapacity
    <2>1. Smooth /\ phase = "done"
      BY <1>5 DEF AskCapacity, Settled, Smooth, history
    <2>2. Issue(Command("capacity"), hostOut) /\ UNCHANGED <<hostIn, device>>
      BY <1>5 DEF AskCapacity
    <2> QED
      BY <2>1, <2>2, SmoothIssue
  <1>6. CASE Probe
    <2>1. Smooth /\ phase = "done"
      BY <1>6 DEF Probe, Settled, Smooth, history
    <2>2. Issue(ReadOf(0, 1), hostOut) /\ UNCHANGED <<hostIn, device>>
      BY <1>6 DEF Probe
    <2> QED
      BY <2>1, <2>2, SmoothIssue
  <1>7. CASE NoCapacity \/ Registered \/ GiveUp
    <2>1. /\ stage \in {"capacity", "probe", "read"} /\ phase = "done" /\ stage' = "idle"
          /\ UNCHANGED <<phase, tds, hostOut, hostIn, device, faults, since>>
      BY <1>7 DEF NoCapacity, Registered, GiveUp, Settled, End, chain
    <2>2. Smooth
      BY <2>1 DEF Smooth
    <2> QED
      BY <2>1, <2>2, SmoothEnd
  <1>8. CASE NextChunk
    <2>1. stage = "read" /\ phase = "done" /\ UNCHANGED <<hostIn, device, faults, since>>
      BY <1>8 DEF NextChunk, Settled
    <2>2. Smooth
      BY <2>1 DEF Smooth
    <2>3. CASE left' = 0
      <3>1. stage' = "idle" /\ UNCHANGED <<phase, tds, hostOut>>
        BY <1>8, <2>3 DEF NextChunk, End, chain
      <3> QED
        BY <2>1, <2>2, <3>1, SmoothEnd
    <2>4. CASE left' # 0
      <3>1. Issue(ReadOf(lba', IF left' > MaxChunk THEN MaxChunk ELSE left'), hostOut)
        BY <1>8, <2>4 DEF NextChunk
      <3>2. PICK c : Issue(c, hostOut)
        BY <3>1
      <3> QED
        BY <2>1, <2>2, <3>2, SmoothIssue
    <2> QED
      BY <2>3, <2>4
  <1>9. CASE Retry
    <2>1. /\ stage \in {"probe", "read"} /\ phase = "done"
          /\ UNCHANGED <<hostIn, device, faults, since>>
          /\ Issue(ReadOf(lba, Chunk), hostOut)
      BY <1>9 DEF Retry, Settled, history
    <2>2. Smooth
      BY <2>1 DEF Smooth
    <2> QED
      BY <2>1, <2>2, SmoothIssue
  <1>10. ASSUME NEW s \in 0 .. Word - 1, NEW n \in 1 .. MaxCount, Read(s, n)
         PROVE  SmoothInv'
    <2>1. /\ stage = "idle" /\ selected /\ phase = "done"
          /\ UNCHANGED <<hostIn, device, faults, since>>
      BY <1>10 DEF Read, CallInv
    <2>2. Smooth
      BY <2>1 DEF Smooth
    <2>3. CASE InRange(s, n)
      <3>1. Issue(ReadOf(s, IF n > MaxChunk THEN MaxChunk ELSE n), hostOut)
        BY <1>10, <2>3 DEF Read
      <3> QED
        BY <2>1, <2>2, <3>1, SmoothIssue
    <2>4. CASE ~InRange(s, n)
      <3>1. stage' = "idle" /\ UNCHANGED <<phase, tds, hostOut>>
        BY <1>10, <2>1, <2>4 DEF Read, chain
      <3> QED
        BY <2>1, <2>2, <3>1, SmoothEnd
    <2> QED
      BY <2>3, <2>4
  <1>11. CASE UNCHANGED vars
    BY <1>11 DEF vars, program, chain, device, history, Smooth, SmoothInv, Running,
         InFlow, Repeated
  <1> QED
    BY <1>1, <1>2, <1>3, <1>4, <1>5, <1>6, <1>7, <1>8, <1>9, <1>10, <1>11
       DEF Next, Program, Transfer

(* What a command that is refused shows while nothing has failed.          *)
LEMMA RefusedForCause ==
  ASSUME TypeInv, CallInv, SmoothInv, CauseInv, phase = "done", ~ok, ~sensing,
         stage \in {"capacity", "probe", "read"}
  PROVE  faults > since \/ (stage = "read" /\ lba + Chunk > Capacity)
PROOF
  <1> SUFFICES ASSUME ~(faults > since) PROVE stage = "read" /\ lba + Chunk > Capacity
    OBVIOUS
  <1>1. faults \in Nat /\ since \in Nat /\ since <= faults
    BY DEF TypeInv, CauseInv
  <1>2. faults = since
    BY <1>1
  <1>3. ~Possible(cmd)
    BY <1>2 DEF SmoothInv, Smooth
  <1>4. cmd = Expected
    BY DEF CallInv
  <1>5. CASE stage = "capacity"
    <2>1. cmd.op = "capacity"
      BY <1>4, <1>5 DEF Expected, Command
    <2> QED
      BY <1>3, <2>1 DEF Possible
  <1>6. CASE stage \in {"probe", "read"}
    <2>1. cmd = ReadOf(lba, Chunk)
      BY <1>4, <1>6 DEF Expected
    <2>2. cmd.lba = lba /\ cmd.n = Chunk
      BY <2>1 DEF ReadOf
    <2>3. lba \in Nat /\ left \in Nat /\ left > 0
      BY <1>6 DEF TypeInv, CallInv
    <2>4. Chunk \in 1 .. left
      BY <2>3, ChunkFits DEF Chunk
    <2>5. lba + Chunk > Capacity
      <3> HIDE DEF Chunk
      <3>1. ~(lba + Chunk <= Capacity)
        BY <1>3, <2>2 DEF Possible
      <3> QED
        BY <2>3, <2>4, <3>1, UsbAssumption
    <2>6. stage # "probe"
      <3> SUFFICES ASSUME stage = "probe" PROVE FALSE
        OBVIOUS
      <3>1. lba = 0 /\ left = 1
        BY DEF CauseInv
      <3> QED
        BY <2>4, <2>5, <3>1, UsbAssumption
    <2> QED
      BY <1>6, <2>5, <2>6
  <1> QED
    BY <1>5, <1>6

LEMMA CauseNext ==
  TypeInv /\ CallInv /\ ReadInv /\ SmoothInv /\ CauseInv /\ [Next]_vars => CauseInv'
PROOF
  <1> SUFFICES ASSUME TypeInv, CallInv, ReadInv, SmoothInv, CauseInv, [Next]_vars
               PROVE  CauseInv'
    OBVIOUS
  <1> USE DEF SelectionRepairs, ReadsSucceed
  <1>0. faults \in Nat /\ began \in Nat /\ since \in Nat /\ began <= faults /\ since <= faults
    BY DEF TypeInv, CauseInv
  <1>1. CASE Transfer
    <2>1. /\ UNCHANGED <<stage, sensing, lba, left, call, request, outcome, selected, began, since>>
          /\ faults' \in Nat /\ faults' >= faults
      BY <1>1, TransferFrame
    <2>2. Chunk' = Chunk
      BY <2>1 DEF Chunk
    <2> QED
      BY <1>0, <2>1, <2>2 DEF CauseInv
  <1>2. CASE Sense
    <2>1. /\ stage # "idle" /\ phase = "done" /\ ~ok /\ ~sensing
          /\ UNCHANGED <<stage, lba, left, faults, since, began, call, request, outcome, selected>>
      BY <1>2 DEF Sense, history
    <2>2. stage \in {"capacity", "probe", "read"} =>
            faults > since \/ (stage = "read" /\ lba + Chunk > Capacity)
      BY <2>1, RefusedForCause
    <2>3. Chunk' = Chunk
      BY <2>1 DEF Chunk
    <2> QED
      BY <2>1, <2>2, <2>3 DEF CauseInv
  <1>3. CASE SelectUsb
    BY <1>0, <1>3 DEF SelectUsb, CauseInv
  <1>4. CASE Enumerate
    <2>1. CASE Enumerated
      BY <1>0, <1>4, <2>1 DEF Enumerate, Enumerated, Settled, CauseInv
    <2>2. CASE ~Enumerated
      <3>1. /\ stage = "activate" /\ stage' = "idle" /\ faults' = faults + 1
            /\ UNCHANGED <<since, began, call, selected>>
        BY <1>4, <2>2 DEF Enumerate, Settled, End, Fault
      <3>2. call = "select"
        BY <3>1 DEF ReadInv
      <3> QED
        BY <1>0, <3>1, <3>2 DEF CauseInv
    <2> QED
      BY <2>1, <2>2
  <1>5. CASE AskCapacity
    BY <1>5 DEF AskCapacity, Settled, history, CauseInv
  <1>6. CASE Probe
    BY <1>6 DEF Probe, Settled, history, CauseInv
  <1>7. CASE NoCapacity
    <2>1. call = "select" /\ faults > began
      BY <1>0, <1>7 DEF NoCapacity, Settled, ReadInv, CauseInv
    <2> QED
      BY <1>0, <1>7, <2>1 DEF NoCapacity, Settled, End, CauseInv
  <1>8. CASE Registered
    <2>1. call = "select" /\ outcome' = "ok" /\ stage' = "idle"
      BY <1>8 DEF Registered, Settled, End, ReadInv
    <2> QED
      BY <1>0, <1>8, <2>1 DEF Registered, CauseInv
  <1>9. CASE GiveUp
    <2>0. /\ stage' = "idle" /\ sensing
          /\ UNCHANGED <<call, request, selected, faults, began, since>>
      BY <1>9 DEF GiveUp, End
    <2>1. CASE stage = "probe"
      <3>1. call = "select" /\ faults > began
        BY <1>0, <2>0, <2>1 DEF ReadInv, CauseInv
      <3> QED
        BY <1>0, <2>0, <3>1 DEF CauseInv
    <2>2. CASE stage = "read"
      <3>1. /\ call = "read" /\ request \in (0 .. Word - 1) \X (1 .. MaxCount)
            /\ lba + left = request[1] + request[2]
        BY <2>2 DEF ReadInv
      <3>2. lba \in Nat /\ left \in Nat /\ Chunk \in 1 .. left
        BY <2>2, ChunkFits DEF CallInv, TypeInv, Chunk
      <3>3. faults > since \/ lba + Chunk > Capacity
        BY <2>0, <2>2 DEF CauseInv
      <3>4. faults > since \/ request[1] + request[2] > Capacity
        <4> HIDE DEF Chunk
        <4>1. lba + Chunk <= lba + left
          BY <3>2
        <4> DEFINE sum == request[1] + request[2]
        <4>2. sum = lba + left
          BY <3>1
        <4> HIDE DEF sum
        <4>3. faults > since \/ sum > Capacity
          BY <3>2, <3>3, <4>1, <4>2, UsbAssumption
        <4> QED
          BY <4>3 DEF sum
      <3> QED
        BY <1>0, <2>0, <3>1, <3>4 DEF CauseInv
    <2> QED
      BY <1>9, <2>1, <2>2 DEF GiveUp, Settled
  <1>10. CASE NextChunk
    <2>1. /\ stage = "read" /\ call = "read" /\ ~sensing'
          /\ UNCHANGED <<call, request, selected, faults, began, since>>
      BY <1>10 DEF NextChunk, Settled, ReadInv
    <2>2. (stage' = "idle" /\ outcome' = "ok") \/ stage' = "read"
      BY <1>10, <2>1 DEF NextChunk, End
    <2> QED
      BY <1>0, <2>1, <2>2 DEF CauseInv
  <1>11. CASE Retry
    BY <1>11 DEF Retry, Settled, history, CauseInv
  <1>12. ASSUME NEW s \in 0 .. Word - 1, NEW n \in 1 .. MaxCount, Read(s, n)
         PROVE  CauseInv'
    <2>1. /\ selected /\ call' = "read" /\ began' = faults
          /\ UNCHANGED <<selected, faults, since>>
      BY <1>12 DEF Read
    <2>2. (stage' = "read" /\ ~sensing') \/ (stage' = "idle" /\ outcome' = "refused")
      BY <1>12 DEF Read
    <2> QED
      BY <1>0, <2>1, <2>2 DEF CauseInv
  <1>13. CASE UNCHANGED vars
    BY <1>13 DEF vars, program, history, CauseInv, Chunk
  <1> QED
    BY <1>1, <1>2, <1>3, <1>4, <1>5, <1>6, <1>7, <1>8, <1>9, <1>10, <1>11, <1>12, <1>13
       DEF Next, Program, Transfer

LEMMA FullInvariance == Spec => []FullInv
PROOF
  <1>1. Init => FullInv
    <2>1. Init => IInv
      BY Initially
    <2>2. Init => SmoothInv
      BY DEF Init, SmoothInv, Smooth
    <2>3. Init => CauseInv
      BY DEF Init, CauseInv, SelectionRepairs, ReadsSucceed
    <2> QED
      BY <2>1, <2>2, <2>3 DEF FullInv
  <1>2. FullInv /\ [Next]_vars => FullInv'
    <2>1. IInv /\ [Next]_vars => IInv'
      BY TypeNext, CallNext, ChainNext, StreamNext, BroughtNext, ReadNext DEF IInv
    <2> QED
      BY <2>1, SmoothNext, CauseNext DEF FullInv, IInv
  <1> QED
    BY <1>1, <1>2, PTL DEF Spec

(* uhci_bulk hands out the toggles as it queues the transfer descriptors:  *)
(* between calls the program's toggles are the device's, and nothing of an *)
(* answer is left over, until something fails after the enumeration.       *)
THEOREM StaysInStep == Spec => []InStep
PROOF
  <1>1. FullInv => InStep
    <2> SUFFICES ASSUME FullInv, stage = "idle", selected, faults = since
                 PROVE  /\ hostOut = devOut /\ hostIn = devIn
                        /\ work = << >> /\ resp = << >> /\ ~halted
      BY DEF InStep
    <2>1. Smooth /\ phase = "done"
      BY DEF FullInv, IInv, CallInv, Smooth
    <2> QED
      BY <2>1 DEF FullInv, SmoothInv
  <1> QED
    BY <1>1, FullInvariance, PTL

(* bios_hdd_select_kind enumerates the device anew: whatever toggles,      *)
(* stalls and unread answers it starts from, it fails only if something    *)
(* fails during the selection itself.                                      *)
THEOREM SelectionMends == Spec => []SelectionRepairs
PROOF
  <1>1. FullInv => SelectionRepairs
    BY DEF FullInv, CauseInv
  <1> QED
    BY <1>1, FullInvariance, PTL

(* bios_hdd_read_sectors reports a failure only of sectors the disk does   *)
(* not have, or after something failed since the enumeration.              *)
THEOREM ReadsFailForCause == Spec => []ReadsSucceed
PROOF
  <1>1. FullInv => ReadsSucceed
    BY DEF FullInv, CauseInv
  <1> QED
    BY <1>1, FullInvariance, PTL
=============================================================================
