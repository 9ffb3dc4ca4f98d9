--------------------------- MODULE LegacyServices ---------------------------
(***************************************************************************)
(* The BIOS services a DOS program gets (app/legacy, bios16.asm).  A call  *)
(* goes through a stub that stores its vector, a common part that saves    *)
(* the caller's registers in the one frame there is, the service itself    *)
(* in protected mode, and a return that loads the frame.  The timer        *)
(* interrupts whatever runs with interrupts on, counts a tick, and calls   *)
(* INT 1Ch, on which a program may have a routine that calls services too. *)
(***************************************************************************)
EXTENDS Rtc, Sequences

CONSTANTS
  Midnight,   \* ticks of a day: 0x1800b0
  Slots,      \* slots of the keyboard ring: 16
  Programs    \* what may run: [app, calls, main, hook, ticks, keys, clock]

\* a call: the vector, AH, and CX and DX; by INT, or by a jump to the stub,
\* which leaves interrupts as they are; and who makes it.  INT 19h, which
\* starts over, is not one.
Registers == [ah : 0 .. 255, ch : 0 .. 255, cl : 0 .. 255, dh : 0 .. 255, dl : 0 .. 255]
IsCall(r) ==
  /\ r = [int |-> r.int, regs |-> r.regs, jump |-> r.jump, by |-> r.by]
  /\ r.int # 25 /\ r.regs \in Registers /\ r.jump \in BOOLEAN

ASSUME LegacyAssumption ==
  /\ Midnight \in Nat \ {0}
  /\ Slots \in Nat \ {0, 1}
  /\ \A p \in Programs : \A r \in p.main \union p.hook : IsCall(r)

VARIABLES
  prog, calls,    \* the program, and the calls it has made
  cpu,            \* what runs, innermost last: [who, pc, req, ifl, ans, cut]
  iflag, irq,     \* interrupt flag; IRQ0 waiting in the interrupt controller
  vector, frame,  \* SERVICE_VECTOR_OFF, and the frame: [req, ifl, ans]
  ticks, midnight,   \* BIOS data area: tick count, midnight flag
  tickCounter,       \* tick_counter
  kb,             \* BIOS data area: [ring, head, tail]
  uart,           \* a key the serial port has received
  (* history *)
  fired, typed,   \* timer interrupts and keys so far
  elapsed, days, missed,  \* ticks since the clock was set; days heard of; was one lost?
  clockRead,      \* the last answer to AH=00 with no day lost: [days, ticks, elapsed]
  owed, given     \* keys not fetched yet; last key fetched or seen: [key, due]

cpuVars  == <<cpu, calls, iflag, irq, vector, frame>>
timeVars == <<ticks, midnight, tickCounter, elapsed, days, missed, clockRead>>
keyVars  == <<kb, uart, typed, owed, given>>
vars == <<prog, cpuVars, timeVars, keyVars, fired, chip>>

Zero == [ah |-> 0, ch |-> 0, cl |-> 0, dh |-> 0, dl |-> 0]
None == [int |-> 0, regs |-> Zero, jump |-> FALSE, by |-> 0]
NoAnswer == [int |-> 0, req |-> None]

\* cut is history: was its call interrupted after storing the vector?
Context(who, pc, ifl) ==
  [who |-> who, pc |-> pc, req |-> None, ifl |-> ifl, ans |-> NoAnswer, cut |-> FALSE]
Top == cpu[Len(cpu)]
Becomes(c) == cpu' = [cpu EXCEPT ![Len(cpu)] = c]
Goto(pc) == Becomes([Top EXCEPT !.pc = pc])
-----------------------------------------------------------------------------
(* bios16.asm *)
Calls == IF Top.who = "main" THEN prog.main ELSE prog.hook

\* INT n, which turns interrupts off; or a jump to a stub, with flags pushed
Call(r) ==
  /\ Top.pc = "run" /\ r \in Calls
  /\ calls < prog.calls
  /\ calls' = calls + 1
  /\ Becomes([who |-> Top.who, pc |-> "stub", req |-> [r EXCEPT !.by = Len(cpu)],
              ifl |-> iflag, ans |-> NoAnswer, cut |-> FALSE])
  /\ iflag' = (r.jump /\ iflag)
  /\ UNCHANGED <<prog, irq, vector, frame, timeVars, keyVars, fired, chip>>

\* bios16_intXX
StoreVector ==
  /\ Top.pc = "stub"
  /\ vector' = Top.req.int
  /\ Goto("save")
  /\ UNCHANGED <<prog, calls, iflag, irq, frame, timeVars, keyVars, fired, chip>>

\* bios16_common
SaveFrame ==
  /\ Top.pc = "save"
  /\ iflag' = FALSE
  /\ frame' = [req |-> Top.req, ifl |-> Top.ifl, ans |-> NoAnswer]
  /\ Goto("serve")
  /\ UNCHANGED <<prog, calls, irq, vector, timeVars, keyVars, fired, chip>>

\* interrupts back on before the frame is read
FaultFlag == frame.ifl

\* rm_service_return: interrupts stay off until IRET, after the registers
\* have been loaded from the frame
FlagBeforeIret == FALSE
Return ==
  /\ Top.pc = "return"
  /\ Goto("load")
  /\ iflag' = FlagBeforeIret
  /\ UNCHANGED <<prog, calls, irq, vector, frame, timeVars, keyVars, fired, chip>>

LoadFrame ==
  /\ Top.pc = "load"
  /\ Becomes([Top EXCEPT !.pc = "run", !.ans = frame.ans])
  /\ iflag' = frame.ifl
  /\ UNCHANGED <<prog, calls, irq, vector, frame, timeVars, keyVars, fired, chip>>

\* the timer: one interrupt waits at most, a second one is lost
TimerFires ==
  /\ fired < prog.ticks
  /\ fired' = fired + 1 /\ irq' = TRUE
  /\ UNCHANGED <<prog, cpu, calls, iflag, vector, frame, timeVars, keyVars, chip>>

Interrupt ==
  /\ iflag /\ irq
  /\ cpu' = Append([cpu EXCEPT ![Len(cpu)].cut = @ \/ Top.pc = "save"], Context("hook", "int08", TRUE))
  /\ iflag' = FALSE /\ irq' = FALSE
  /\ UNCHANGED <<prog, calls, vector, frame, timeVars, keyVars, fired, chip>>

\* bios16_int08, which ends the interrupt before INT 1Ch
CountTick(t) == IF t + 1 >= Midnight THEN 0 ELSE t + 1
Int08 ==
  /\ Top.pc = "int08"
  /\ ticks' = CountTick(ticks)
  /\ midnight' = (midnight \/ ticks' = 0)
  /\ elapsed' = elapsed + 1
  /\ missed' = (missed \/ (midnight /\ ticks + 1 = Midnight))
  /\ Goto("run")
  /\ UNCHANGED <<prog, calls, iflag, irq, vector, frame, tickCounter, days, clockRead>>
  /\ UNCHANGED <<keyVars, fired, chip>>

\* a routine on INT 1Ch lets interrupts in, and returns
HookEnables ==
  /\ Top.who = "hook" /\ Top.pc = "run" /\ prog.hook # {} /\ ~iflag
  /\ iflag' = TRUE
  /\ UNCHANGED <<prog, cpu, calls, irq, vector, frame, timeVars, keyVars, fired, chip>>

HookReturns ==
  /\ Top.who = "hook" /\ Top.pc = "run"
  /\ cpu' = SubSeq(cpu, 1, Len(cpu) - 1)
  /\ iflag' = TRUE
  /\ UNCHANGED <<prog, calls, irq, vector, frame, timeVars, keyVars, fired, chip>>
-----------------------------------------------------------------------------
(* The keyboard is the serial port, read only inside INT 16h. *)
Wrap(i) == i % Slots

InRing == [i \in 1 .. (kb.tail + Slots - kb.head) % Slots |-> kb.ring[(kb.head + i - 1) % Slots]]

\* legacy_keyboard_init
EmptyRing == [ring |-> [i \in 0 .. Slots - 1 |-> 0], head |-> 0, tail |-> 0]

\* kbd_enqueue
Enqueue(k, key) ==
  IF Wrap(k.tail + 1) = k.head THEN k
  ELSE [k EXCEPT !.ring[k.tail] = key, !.tail = Wrap(k.tail + 1)]

\* kbd_buf_nonempty
Nonempty(k) == k.head # k.tail

\* the serial port read although the ring holds keys
FaultFilled ==
  IF uart = <<>> THEN [kb |-> kb, uart |-> uart] ELSE [kb |-> Enqueue(kb, Head(uart)), uart |-> <<>>]

\* try_fill_keybuf: the serial port is read only when the ring is empty
Filled ==
  IF Nonempty(kb) \/ uart = <<>> THEN [kb |-> kb, uart |-> uart]
  ELSE [kb |-> Enqueue(kb, Head(uart)), uart |-> <<>>]

Due == IF owed = <<>> THEN 0 ELSE Head(owed)

\* kbd_dequeue
Dequeue(k) == [k EXCEPT !.head = Wrap(k.head + 1)]

\* INT 16h AH=00, and every function not named: it waits for a key
GetKey ==
  LET f == Filled
  IN  /\ Nonempty(f.kb)
      /\ kb' = Dequeue(f.kb) /\ uart' = f.uart
      /\ given' = [key |-> f.kb.ring[f.kb.head], due |-> Due]
      /\ owed' = IF owed = <<>> THEN owed ELSE Tail(owed)
      /\ UNCHANGED typed

\* INT 16h AH=01: looks at the next key
PeekKey ==
  LET f == Filled
  IN  /\ kb' = f.kb /\ uart' = f.uart
      /\ given' = [key |-> IF Nonempty(f.kb) THEN f.kb.ring[f.kb.head] ELSE 0, due |-> Due]
      /\ UNCHANGED <<owed, typed>>

\* The serial port keeps one byte: of two that nobody read, one is lost.
KeyArrives ==
  /\ typed < prog.keys
  /\ typed' = typed + 1
  /\ uart' = <<typed + 1>>
  /\ owed' = (IF uart = <<>> THEN owed ELSE SubSeq(owed, 1, Len(owed) - 1)) \o <<typed + 1>>
  /\ UNCHANGED <<prog, cpuVars, timeVars, kb, given, fired, chip>>

\* A program may write to the ring itself, at its tail, or drop what it holds.
ProgramStuffs ==
  /\ Top.who = "main" /\ Top.pc = "run" /\ typed < prog.keys
  /\ Wrap(kb.tail + 1) # kb.head
  /\ kb' = Enqueue(kb, typed + 1) /\ typed' = typed + 1
  /\ owed' = SubSeq(owed, 1, Len(owed) - Len(uart)) \o <<typed + 1>> \o uart
  /\ UNCHANGED <<prog, cpuVars, timeVars, uart, given, fired, chip>>

ProgramFlushes ==
  /\ Top.who = "main" /\ Top.pc = "run" /\ Nonempty(kb)
  /\ kb' = [kb EXCEPT !.head = kb.tail] /\ owed' = uart
  /\ UNCHANGED <<prog, cpuVars, timeVars, uart, typed, given, fired, chip>>
-----------------------------------------------------------------------------
(* INT 1Ah and INT 15h. *)
\* a tick count not taken over from the data area
FaultTimerUpdate == tickCounter

\* legacy_timer_update: interrupts keep the count, the service takes it over
TimerUpdate == ticks

ReadTicks ==
  /\ days' = IF midnight THEN days + 1 ELSE days
  /\ midnight' = FALSE
  /\ clockRead' = IF missed THEN clockRead
                  ELSE [days |-> days', ticks |-> TimerUpdate, elapsed |-> elapsed]
  /\ UNCHANGED <<ticks, elapsed, missed>>

\* A count beyond the end of the day counts for nothing until the next is set.
SetTicks(t) ==
  /\ ticks' = t /\ midnight' = FALSE
  /\ elapsed' = t /\ days' = 0 /\ missed' = (t >= Midnight)
  /\ UNCHANGED clockRead

\* what the service behind a vector does for AH
Function(int, ah) ==
  IF int = 22 THEN IF ah \in {1, 17} THEN "peek key" ELSE IF ah \in {2, 18} THEN "shifts" ELSE "get key"
  ELSE IF int = 26 /\ ah <= 5
  THEN [n \in 0 .. 5 |-> <<"ticks", "set ticks", "time", "set time", "date", "set date">>[n + 1]][ah]
  ELSE "other"

\* CX:DX
Number(g) == ((g.ch * 256 + g.cl) * 256 + g.dh) * 256 + g.dl

\* bios_rm_service: a function with no effect on the state here is left out
Perform(fn, g) ==
  /\ IF fn = "ticks" THEN ReadTicks
     ELSE IF fn = "set ticks" THEN SetTicks(Number(g))
     ELSE UNCHANGED <<ticks, midnight, elapsed, days, missed, clockRead>>
  /\ IF fn = "get key" THEN GetKey
     ELSE IF fn = "peek key" THEN PeekKey
     ELSE UNCHANGED keyVars
  /\ IF fn = "time" THEN ReadTime
     ELSE IF fn = "date" THEN ReadDate
     ELSE IF fn = "set time" THEN SetTime([hour |-> g.ch, min |-> g.cl, sec |-> g.dh])
     ELSE IF fn = "set date" THEN SetDate([year |-> g.cl, mon |-> g.dh, day |-> g.dl])
     ELSE UNCHANGED chip

\* The vector is the one stored last, the registers are those in the frame.
Service ==
  /\ Top.pc = "serve"
  /\ LET fn == Function(vector, frame.req.regs.ah)
     IN  /\ Perform(fn, frame.req.regs)
         /\ tickCounter' = IF fn = "set ticks" THEN Number(frame.req.regs) ELSE TimerUpdate
  /\ frame' = [frame EXCEPT !.ans = [int |-> vector, req |-> frame.req]]
  /\ Goto("return")
  /\ UNCHANGED <<prog, calls, iflag, irq, vector, fired>>
-----------------------------------------------------------------------------
(* The clock of the machine goes on; the Linux loader readies it once.     *)
Second ==
  /\ prog.clock
  /\ UpdateBegins \/ UpdateEnds
  /\ UNCHANGED <<prog, cpuVars, timeVars, keyVars, fired>>

LinuxTakesOver ==
  /\ prog.app = "linux" /\ calls = 0
  /\ PrepareForLinux
  /\ calls' = 1
  /\ UNCHANGED <<prog, cpu, iflag, irq, vector, frame, timeVars, keyVars, fired>>

\* legacy_timer_init, legacy_keyboard_init and the jump to the boot sector
Init ==
  /\ prog \in Programs /\ calls = 0
  /\ cpu = <<Context("main", "run", TRUE)>>
  /\ iflag = (prog.app = "legacy") /\ irq = FALSE
  /\ vector = 0 /\ frame = [req |-> None, ifl |-> FALSE, ans |-> NoAnswer]
  /\ ticks = 0 /\ midnight = FALSE /\ tickCounter = 0
  /\ elapsed = 0 /\ days = 0 /\ missed = FALSE
  /\ clockRead = [days |-> 0, ticks |-> 0, elapsed |-> 0]
  /\ kb = EmptyRing
  /\ uart = <<>> /\ typed = 0 /\ owed = <<>> /\ given = [key |-> 0, due |-> 0]
  /\ fired = 0
  /\ ChipInit /\ (prog.clock \/ (mode = Sane /\ ~broken /\ \A f \in Fields : Holds(f)))

Next ==
  \/ \E r \in Calls : Call(r)
  \/ StoreVector \/ SaveFrame \/ Service \/ Return \/ LoadFrame
  \/ TimerFires \/ Interrupt \/ Int08 \/ HookEnables \/ HookReturns
  \/ KeyArrives \/ ProgramStuffs \/ ProgramFlushes
  \/ Second \/ LinuxTakesOver

Spec == Init /\ [][Next]_vars
-----------------------------------------------------------------------------
(* A caller gets the answer to its own call, on its own registers, though  *)
(* a routine on the timer calls services between any two of its            *)
(* instructions and there is one frame.  Only a call that jumped to a stub *)
(* with interrupts on, and was interrupted just between storing its vector *)
(* and saving its registers, may have another function performed on them.  *)
AnswersReachCaller ==
  \A i \in DOMAIN cpu : cpu[i].ans # NoAnswer =>
    /\ cpu[i].ans.req = cpu[i].req
    /\ cpu[i].ans.int = cpu[i].req.int \/ (cpu[i].cut /\ cpu[i].req.jump)

(* Days counted by whoever reads the clock, and the ticks it is told, make *)
(* up the time that passed, whenever the interrupt comes: midnight is      *)
(* heard of once.  Two midnights that nobody reads are one.                *)
MidnightOnce ==
  clockRead.days * Midnight + clockRead.ticks = clockRead.elapsed

(* Keys are fetched in the order they came, none twice and none skipped,   *)
(* whatever programs do to the ring; a key looked at is the next fetched.  *)
KeysInOrder ==
  /\ InRing \o uart = owed
  /\ given.key \in {0, given.due}
=============================================================================
