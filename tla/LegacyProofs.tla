---------------------------- MODULE LegacyProofs ----------------------------
(* Every caller gets the answer to its own call, hears of each midnight    *)
(* once, gets the keys in the order they were pressed and reads the time   *)
(* that is kept: for every set of programs, size of the ring and length of *)
(* the day, with any number of timer interrupts, however deeply nested,    *)
(* and for calls that come by a jump with interrupts on as well.           *)
EXTENDS LegacyServices, SequenceTheorems, TLAPS

IsStack == \E S : cpu \in Seq(S)

IsContext(c) ==
  /\ c = [who |-> c.who, pc |-> c.pc, req |-> c.req, ifl |-> c.ifl, ans |-> c.ans, cut |-> c.cut]
  /\ c.cut \in BOOLEAN

(* A vector a call may find stored, and the answer it may get.             *)
Own(c, v)      == v = c.req.int \/ (c.cut /\ c.req.jump)
Right(c, a)    == a.req = c.req /\ Own(c, a.int)
Answered(c)    == c.ans # NoAnswer => Right(c, c.ans)

Calling == {"stub", "save", "serve", "return", "load"}
Stored  == {"save", "serve", "return", "load"}
Saved   == {"serve", "return", "load"}
Served  == {"return", "load"}

(* Interrupts come in only between two calls, or into one that jumped to   *)
(* its stub, before it has turned them off.                                *)
Exposed(c) == c.pc = "run" \/ (c.pc \in {"stub", "save"} /\ c.req.jump)
Waits(c)   == Exposed(c) /\ (c.pc = "save" => c.cut)

(* What runs is at the bottom the program and above it routines of the     *)
(* timer; all but the innermost wait where they were interrupted.          *)
Stack ==
  /\ IsStack /\ Len(cpu) >= 1 /\ calls \in Nat
  /\ cpu[1].who = "main"
  /\ \A i \in 1 .. Len(cpu) :
       IsContext(cpu[i]) /\ Answered(cpu[i]) /\ (cpu[i].pc \in Calling => calls > 0)
  /\ \A i \in 1 .. Len(cpu) - 1 : Waits(cpu[i])

(* The frame belongs to the innermost, and so does the vector unless it    *)
(* was cut; nothing can interrupt it from saving its registers until it    *)
(* has its answer.                                                         *)
InCall ==
  /\ prog \in Programs
  /\ frame = [req |-> frame.req, ifl |-> frame.ifl, ans |-> frame.ans]
  /\ ~Exposed(Top) => iflag = FALSE
  /\ Top.pc \in Stored => Own(Top, vector)
  /\ Top.pc \in Saved => frame.req = Top.req
  /\ Top.pc \in Served => Right(Top, frame.ans)

IInv == Stack /\ InCall

-----------------------------------------------------------------------------
LEMMA LastOrBefore ==
  ASSUME NEW n \in Nat, n >= 1
  PROVE  /\ n \in 1 .. n
         /\ \A i \in 1 .. n : i = n \/ i \in 1 .. n - 1
         /\ \A i \in 1 .. n - 1 : i \in 1 .. n /\ i # n
  OBVIOUS

LEMMA Resumed ==
  ASSUME NEW c, IsContext(c), NEW a
  PROVE  [c EXCEPT !.pc = "run", !.ans = a] =
           [who |-> c.who, pc |-> "run", req |-> c.req, ifl |-> c.ifl, ans |-> a, cut |-> c.cut]
PROOF
  <1> DEFINE d == [who |-> c.who, pc |-> "run", req |-> c.req, ifl |-> c.ifl, ans |-> c.ans, cut |-> c.cut]
  <1>1. [c EXCEPT !.pc = "run"] = d
    BY DEF IsContext
  <1>2. [d EXCEPT !.ans = a] =
          [who |-> c.who, pc |-> "run", req |-> c.req, ifl |-> c.ifl, ans |-> a, cut |-> c.cut]
    OBVIOUS
  <1> HIDE DEF d
  <1>3. [c EXCEPT !.pc = "run", !.ans = a] = [d EXCEPT !.ans = a]
    BY <1>1
  <1> QED
    BY <1>2, <1>3

LEMMA Moved ==
  ASSUME NEW c, IsContext(c), NEW pc
  PROVE  LET d == [c EXCEPT !.pc = pc]
         IN  /\ IsContext(d) /\ d.pc = pc
             /\ d.who = c.who /\ d.req = c.req /\ d.ifl = c.ifl /\ d.ans = c.ans /\ d.cut = c.cut
PROOF
  <1> DEFINE d == [c EXCEPT !.pc = pc]
  <1>1. d = [who |-> c.who, pc |-> pc, req |-> c.req, ifl |-> c.ifl, ans |-> c.ans, cut |-> c.cut]
    BY DEF IsContext
  <1> HIDE DEF d
  <1>2. IsContext(d) /\ d.pc = pc /\ d.who = c.who /\ d.req = c.req /\ d.ifl = c.ifl
        /\ d.ans = c.ans /\ d.cut = c.cut
    BY <1>1 DEF IsContext
  <1> QED
    BY <1>2 DEF d

(* A step of the innermost leaves the others alone.                        *)
LEMMA TopReplaced ==
  ASSUME Stack, NEW c, Becomes(c), c.who = Top.who, IsContext(c), Answered(c),
         calls' \in Nat, calls' >= calls, c.pc \in Calling => calls' > 0
  PROVE  Stack' /\ Top' = c /\ Len(cpu') = Len(cpu)
PROOF
  <1> DEFINE n == Len(cpu)
  <1>1. PICK S : cpu \in Seq(S)
    BY DEF Stack, IsStack
  <1>2. n \in Nat /\ n >= 1 /\ DOMAIN cpu = 1 .. n
    BY <1>1 DEF Stack
  <1>3. cpu \in Seq(S \union {c})
    BY <1>1, SeqMonotonic
  <1>4. cpu' \in Seq(S \union {c}) /\ Len(cpu') = n
    BY <1>2, <1>3, ExceptSeq DEF Becomes
  <1>5. cpu'[n] = c /\ \A i \in 1 .. n - 1 : cpu'[i] = cpu[i]
    <2>1. n \in 1 .. n /\ \A i \in 1 .. n - 1 : i \in 1 .. n /\ i # n
      BY <1>2, LastOrBefore
    <2> QED
      BY <1>2, <2>1, Zenon DEF Becomes
  <1>6. Top' = c
    BY <1>4, <1>5 DEF Top
  <1>7. \A i \in 1 .. n : i = n \/ i \in 1 .. n - 1
    BY <1>2, LastOrBefore
  <1>8. cpu'[1].who = "main"
    <2>1. CASE n = 1
      BY <1>5, <2>1 DEF Stack, Top
    <2>2. CASE n > 1
      BY <1>2, <1>5, <2>2 DEF Stack
    <2> QED
      BY <1>2, <2>1, <2>2
  <1>9. \A i \in 1 .. n : IsContext(cpu'[i]) /\ Answered(cpu'[i])
    BY <1>5, <1>7 DEF Stack
  <1>c. \A i \in 1 .. n : cpu'[i].pc \in Calling => calls' > 0
    <2>1. calls \in Nat /\ \A i \in 1 .. n - 1 : cpu'[i].pc \in Calling => calls > 0
      BY <1>5, <1>7 DEF Stack
    <2> QED
      BY <1>5, <1>7, <2>1
  <1>10. \A i \in 1 .. n - 1 : Waits(cpu'[i])
    BY <1>5 DEF Stack
  <1>11. IsStack'
    BY <1>4 DEF IsStack
  <1> HIDE DEF n
  <1> QED
    BY <1>2, <1>4, <1>6, <1>8, <1>9, <1>c, <1>10, <1>11 DEF Stack, n

LEMMA TopContext ==
  ASSUME Stack
  PROVE  /\ IsContext(Top) /\ Answered(Top) /\ Len(cpu) \in Nat
         /\ Top.pc \in Calling => calls > 0
PROOF
  <1>1. PICK S : cpu \in Seq(S)
    BY DEF Stack, IsStack
  <1>2. Len(cpu) \in 1 .. Len(cpu)
    BY <1>1 DEF Stack
  <1> QED
    BY <1>1, <1>2 DEF Stack, Top

(* Goto changes nothing of a context but its place.                        *)
LEMMA Went ==
  ASSUME Stack, NEW pc, Goto(pc), UNCHANGED calls, pc \in Calling => Top.pc \in Calling
  PROVE  /\ Stack'
         /\ Top'.pc = pc /\ Top'.req = Top.req /\ Top'.cut = Top.cut
PROOF
  <1> DEFINE c == [Top EXCEPT !.pc = pc]
  <1>1. IsContext(Top) /\ Answered(Top) /\ (Top.pc \in Calling => calls > 0) /\ calls \in Nat
    BY TopContext DEF Stack
  <1>2. /\ IsContext(c) /\ c.pc = pc /\ c.who = Top.who /\ c.req = Top.req
        /\ c.ans = Top.ans /\ c.cut = Top.cut
    BY <1>1, Moved
  <1>3. Becomes(c)
    BY DEF Goto
  <1> HIDE DEF c
  <1>4. Answered(c)
    BY <1>1, <1>2 DEF Answered, Right, Own
  <1>5. calls' \in Nat /\ calls' >= calls /\ (c.pc \in Calling => calls' > 0)
    BY <1>1, <1>2
  <1>6. Stack' /\ Top' = c
    BY <1>2, <1>3, <1>4, <1>5, TopReplaced
  <1> QED
    BY <1>2, <1>6
-----------------------------------------------------------------------------
LEMMA Initial == Init => IInv
PROOF
  <1> SUFFICES ASSUME Init PROVE IInv
    OBVIOUS
  <1> DEFINE c == Context("main", "run", TRUE)
  <1>1. /\ cpu = <<c>> /\ frame = [req |-> None, ifl |-> FALSE, ans |-> NoAnswer]
        /\ prog \in Programs /\ calls = 0
    BY DEF Init
  <1>2. cpu \in Seq({c}) /\ Len(cpu) = 1 /\ cpu[1] = c /\ 1 .. 1 = {1} /\ 1 .. 0 = {}
    BY <1>1
  <1>3. c.who = "main" /\ c.pc = "run" /\ IsContext(c) /\ Answered(c)
    BY DEF Context, IsContext, Answered
  <1> HIDE DEF c
  <1>4. Stack
    <2>1. \A i \in 1 .. Len(cpu) : cpu[i] = c
      BY <1>2
    <2>2. \A i \in 1 .. Len(cpu) - 1 : FALSE
      BY <1>2
    <2>3. IsStack
      BY <1>2 DEF IsStack
    <2> QED
      BY <1>1, <1>2, <1>3, <2>1, <2>2, <2>3 DEF Stack, Calling
  <1>5. Top = c
    BY <1>2 DEF Top
  <1> QED
    BY <1>1, <1>3, <1>4, <1>5 DEF IInv, InCall, Exposed, Stored, Saved, Served

(* The timer interrupts a call that is exposed: one cut off between        *)
(* storing its vector and saving its registers is marked.                  *)
LEMMA InterruptKept == IInv /\ Interrupt => IInv'
PROOF
  <1> SUFFICES ASSUME IInv, Interrupt PROVE IInv'
    OBVIOUS
  <1> DEFINE c == Context("hook", "int08", TRUE)
             n == Len(cpu)
             b == (Top.cut \/ Top.pc = "save")
             d == [Top EXCEPT !.cut = b]
             low == [cpu EXCEPT ![n] = d]
  <1>0. Stack /\ InCall /\ IsContext(Top) /\ Answered(Top) /\ calls \in Nat
        /\ (Top.pc \in Calling => calls > 0)
    BY TopContext DEF IInv, Stack
  <1>1. /\ iflag' = FALSE /\ iflag /\ UNCHANGED <<prog, calls, vector, frame>>
        /\ cpu' = Append(low, c)
    BY DEF Interrupt, Top
  <1>2. Exposed(Top)
    BY <1>0, <1>1 DEF InCall
  <1>3. c.pc = "int08" /\ IsContext(c) /\ Answered(c)
    BY DEF Context, IsContext, Answered
  <1>4. /\ d = [who |-> Top.who, pc |-> Top.pc, req |-> Top.req, ifl |-> Top.ifl,
                ans |-> Top.ans, cut |-> b]
        /\ b \in BOOLEAN
    BY <1>0 DEF IsContext
  <1>5. b = (Top.cut \/ Top.pc = "save")
    OBVIOUS
  <1> HIDE DEF c, d, b
  <1>6. /\ IsContext(d) /\ d.who = Top.who /\ d.pc = Top.pc /\ d.req = Top.req
        /\ d.ans = Top.ans /\ d.cut = b
    BY <1>4 DEF IsContext
  <1>7. Answered(d) /\ Waits(d) /\ (d.pc \in Calling => calls > 0)
    BY <1>0, <1>2, <1>5, <1>6 DEF Answered, Right, Own, Waits, Exposed
  <1>8. PICK S : cpu \in Seq(S)
    BY <1>0 DEF Stack, IsStack
  <1>9. n \in Nat /\ n >= 1 /\ DOMAIN cpu = 1 .. n
    BY <1>0, <1>8 DEF Stack
  <1>10. cpu \in Seq(S \union {c, d})
    BY <1>8, SeqMonotonic
  <1>11. low \in Seq(S \union {c, d}) /\ Len(low) = n
    BY <1>9, <1>10, ExceptSeq
  <1>12. low[n] = d /\ \A i \in 1 .. n - 1 : low[i] = cpu[i]
    <2>1. n \in 1 .. n /\ \A i \in 1 .. n - 1 : i \in 1 .. n /\ i # n
      BY <1>9, LastOrBefore
    <2> QED
      BY <1>9, <2>1, Zenon
  <1> HIDE DEF low
  <1>13. /\ cpu' \in Seq(S \union {c, d}) /\ Len(cpu') = n + 1 /\ cpu'[n + 1] = c
         /\ \A i \in 1 .. n : cpu'[i] = low[i]
    BY <1>1, <1>11
  <1>14. IsStack' /\ Top' = c
    BY <1>13 DEF IsStack, Top
  <1>15. \A i \in 1 .. n : i = n \/ i \in 1 .. n - 1
    BY <1>9, LastOrBefore
  <1>16. \A i \in 1 .. n + 1 : i = n + 1 \/ i \in 1 .. n
    BY <1>9
  <1>17. \A i \in 1 .. n : Waits(cpu'[i])
    BY <1>0, <1>7, <1>12, <1>13, <1>15 DEF Stack
  <1>18. \A i \in 1 .. n :
           IsContext(cpu'[i]) /\ Answered(cpu'[i]) /\ (cpu'[i].pc \in Calling => calls > 0)
    BY <1>0, <1>6, <1>7, <1>12, <1>13, <1>15, <1>9 DEF Stack
  <1>19. \A i \in 1 .. n + 1 :
           IsContext(cpu'[i]) /\ Answered(cpu'[i]) /\ (cpu'[i].pc \in Calling => calls' > 0)
    BY <1>1, <1>3, <1>13, <1>16, <1>18 DEF Calling
  <1>20. cpu'[1].who = "main"
    <2>1. low[1].who = "main"
      <3>1. CASE n = 1
        BY <1>0, <1>6, <1>12, <3>1 DEF Stack, Top
      <3>2. CASE n > 1
        BY <1>0, <1>9, <1>12, <3>2 DEF Stack
      <3> QED
        BY <1>9, <3>1, <3>2
    <2> QED
      BY <1>9, <1>13, <2>1
  <1>21. Len(cpu') - 1 = n /\ Len(cpu') >= 1 /\ calls' \in Nat
    BY <1>0, <1>1, <1>9, <1>13
  <1>22. Stack'
    BY <1>13, <1>14, <1>17, <1>19, <1>20, <1>21 DEF Stack
  <1>23. prog' \in Programs /\ frame' = [req |-> frame'.req, ifl |-> frame'.ifl, ans |-> frame'.ans]
    BY <1>0, <1>1 DEF InCall
  <1> QED
    BY <1>1, <1>3, <1>14, <1>22, <1>23 DEF IInv, InCall, Stored, Saved, Served

(* A routine of the timer returns to what it interrupted.                  *)
LEMMA ReturnKept == IInv /\ HookReturns => IInv'
PROOF
  <1> SUFFICES ASSUME IInv, HookReturns PROVE IInv'
    OBVIOUS
  <1> DEFINE n == Len(cpu)
  <1>0. Stack /\ InCall
    BY DEF IInv
  <1>1. Top.who = "hook" /\ cpu' = SubSeq(cpu, 1, n - 1) /\ UNCHANGED <<prog, calls, vector, frame>>
    BY DEF HookReturns
  <1>2. PICK S : cpu \in Seq(S)
    BY <1>0 DEF Stack, IsStack
  <1>3. n \in Nat /\ n >= 1
    BY <1>0, <1>2 DEF Stack
  <1>4. n # 1
    BY <1>0, <1>1 DEF Stack, Top
  <1>5. /\ cpu' \in Seq(S) /\ Len(cpu') = n - 1
        /\ \A i \in 1 .. n - 1 : cpu'[i] = cpu[i]
    <2>1. 1 \in 1 .. n + 1 /\ n - 1 \in 1 - 1 .. n
      BY <1>3
    <2>2. \A i \in 1 .. n - 1 : 1 + i - 1 = i
      BY <1>3
    <2>3. n - 1 - 1 + 1 = n - 1
      BY <1>3
    <2> QED
      BY <1>1, <1>2, <1>3, <2>1, <2>2, <2>3, SubSeqProperties
  <1>6. n - 1 >= 1 /\ n - 1 \in 1 .. n - 1
    BY <1>3, <1>4
  <1>7. IsStack' /\ Top' = cpu[n - 1]
    BY <1>5, <1>6 DEF IsStack, Top
  <1>8. \A i \in 1 .. n - 1 : i \in 1 .. n
    BY <1>3
  <1>9. \A i \in 1 .. (n - 1) - 1 : i \in 1 .. n - 1
    BY <1>3
  <1>10. cpu'[1].who = "main" /\ calls' \in Nat
    BY <1>0, <1>1, <1>5, <1>6 DEF Stack
  <1>11. \A i \in 1 .. n - 1 :
           IsContext(cpu'[i]) /\ Answered(cpu'[i]) /\ (cpu'[i].pc \in Calling => calls' > 0)
    BY <1>0, <1>1, <1>5, <1>8 DEF Stack
  <1>12. \A i \in 1 .. (n - 1) - 1 : Waits(cpu'[i])
    BY <1>0, <1>5, <1>9 DEF Stack
  <1>13. Stack'
    BY <1>5, <1>6, <1>7, <1>10, <1>11, <1>12 DEF Stack
  <1>14. Waits(Top')
    BY <1>0, <1>6, <1>7 DEF Stack
  <1>15. prog' \in Programs /\ frame' = [req |-> frame'.req, ifl |-> frame'.ifl, ans |-> frame'.ans]
    BY <1>0, <1>1 DEF InCall
  <1> DEFINE t == Top'
  <1> HIDE DEF t
  <1>16. Exposed(t) /\ (t.pc \in Stored => Own(t, vector')) /\ t.pc \notin Saved /\ t.pc \notin Served
    BY <1>14 DEF t, Waits, Exposed, Own, Stored, Saved, Served
  <1> QED
    BY <1>13, <1>15, <1>16 DEF IInv, InCall, Exposed, Own, t

LEMMA Inductive == IInv /\ [Next]_vars => IInv'
PROOF
  <1> SUFFICES ASSUME IInv, [Next]_vars PROVE IInv'
    OBVIOUS
  <1>0. Stack /\ InCall /\ IsContext(Top) /\ Answered(Top) /\ calls \in Nat
    BY TopContext DEF IInv, Stack
  <1>same. ASSUME UNCHANGED <<prog, cpuVars>> PROVE IInv'
    BY <1>same DEF IInv, Stack, InCall, IsStack, Top, cpuVars
  <1>enabled. ASSUME Top.pc = "run", UNCHANGED <<prog, cpu, calls, vector, frame>> PROVE IInv'
    BY <1>0, <1>enabled DEF IInv, Stack, InCall, IsStack, Top, Exposed, Stored, Saved, Served
  <1>1. ASSUME NEW r \in Calls, Call(r) PROVE IInv'
    <2> DEFINE q == [r EXCEPT !.by = Len(cpu)]
               c == [who |-> Top.who, pc |-> "stub", req |-> q, ifl |-> iflag, ans |-> NoAnswer, cut |-> FALSE]
    <2>1. Becomes(c)
      BY <1>1 DEF Call
    <2>2. IsContext(c) /\ Answered(c) /\ c.who = Top.who /\ c.pc = "stub" /\ c.req = q
      BY DEF IsContext, Answered
    <2>3. q.jump = r.jump /\ r.jump \in BOOLEAN
      <3>1. IsCall(r)
        BY <1>0, <1>1, LegacyAssumption DEF InCall, Calls
      <3> QED
        BY <3>1 DEF IsCall
    <2> HIDE DEF c, q
    <2>4. /\ iflag' = (r.jump /\ iflag) /\ calls' = calls + 1
          /\ UNCHANGED <<prog, vector, frame>>
      BY <1>1 DEF Call
    <2>5. calls' \in Nat /\ calls' >= calls /\ calls' > 0
      BY <1>0, <2>4
    <2>6. Stack' /\ Top' = c
      BY <1>0, <2>1, <2>2, <2>5, TopReplaced
    <2>7. ~r.jump => iflag' = FALSE
      BY <2>4
    <2>8. ~Exposed(c) => iflag' = FALSE
      BY <2>2, <2>3, <2>7 DEF Exposed
    <2> QED
      BY <1>0, <2>2, <2>4, <2>6, <2>8 DEF IInv, InCall, Exposed, Stored, Saved, Served
  <1>2. ASSUME StoreVector PROVE IInv'
    <2>1. /\ Top.pc = "stub" /\ vector' = Top.req.int /\ Goto("save")
          /\ UNCHANGED <<prog, calls, iflag, frame>>
      BY <1>2 DEF StoreVector
    <2>2. Stack' /\ Top'.req = Top.req /\ Top'.pc = "save"
      BY <1>0, <2>1, Went DEF Calling
    <2> QED
      BY <1>0, <2>1, <2>2 DEF IInv, InCall, Exposed, Own, Stored, Saved, Served
  <1>3. ASSUME SaveFrame PROVE IInv'
    <2>1. /\ Top.pc = "save" /\ iflag' = FALSE /\ Goto("serve") /\ UNCHANGED <<prog, calls, vector>>
          /\ frame' = [req |-> Top.req, ifl |-> Top.ifl, ans |-> NoAnswer]
      BY <1>3 DEF SaveFrame
    <2>2. Stack' /\ Top'.req = Top.req /\ Top'.cut = Top.cut /\ Top'.pc = "serve"
      BY <1>0, <2>1, Went DEF Calling
    <2> QED
      BY <1>0, <2>1, <2>2 DEF IInv, InCall, Own, Stored, Saved, Served
  <1>4. ASSUME Service PROVE IInv'
    <2>1. /\ Top.pc = "serve" /\ Goto("return") /\ UNCHANGED <<prog, calls, iflag, vector>>
          /\ frame' = [frame EXCEPT !.ans = [int |-> vector, req |-> frame.req]]
      BY <1>4 DEF Service
    <2>2. Stack' /\ Top'.req = Top.req /\ Top'.cut = Top.cut /\ Top'.pc = "return"
      BY <1>0, <2>1, Went DEF Calling
    <2>3. Own(Top, vector) /\ frame.req = Top.req /\ iflag = FALSE
      BY <1>0, <2>1 DEF InCall, Exposed, Stored, Saved
    <2>4. frame' = [req |-> Top.req, ifl |-> frame.ifl, ans |-> [int |-> vector, req |-> Top.req]]
      BY <1>0, <2>1, <2>3 DEF InCall
    <2> QED
      BY <1>0, <2>1, <2>2, <2>3, <2>4 DEF IInv, InCall, Right, Own, Stored, Saved, Served
  <1>5. ASSUME Return PROVE IInv'
    <2>1. Top.pc = "return" /\ Goto("load") /\ iflag' = FALSE /\ UNCHANGED <<prog, calls, vector, frame>>
      BY <1>5 DEF Return, FlagBeforeIret
    <2>2. Stack' /\ Top'.req = Top.req /\ Top'.cut = Top.cut /\ Top'.pc = "load"
      BY <1>0, <2>1, Went DEF Calling
    <2> QED
      BY <1>0, <2>1, <2>2 DEF IInv, InCall, Right, Own, Stored, Saved, Served
  <1>6. ASSUME LoadFrame PROVE IInv'
    <2> DEFINE c == [who |-> Top.who, pc |-> "run", req |-> Top.req, ifl |-> Top.ifl, ans |-> frame.ans, cut |-> Top.cut]
    <2>1. Top.pc = "load" /\ UNCHANGED <<prog, calls, vector, frame>>
      BY <1>6 DEF LoadFrame
    <2>2. Becomes(c)
      <3>1. [Top EXCEPT !.pc = "run", !.ans = frame.ans] = c
        BY <1>0, Resumed
      <3> QED
        BY <1>6, <3>1 DEF LoadFrame
    <2>3. Right(Top, frame.ans) /\ Top.cut \in BOOLEAN
      BY <1>0, <2>1 DEF InCall, Served, IsContext
    <2>4. IsContext(c) /\ Answered(c) /\ c.who = Top.who /\ c.pc = "run"
      BY <2>3 DEF IsContext, Answered, Right, Own
    <2> HIDE DEF c
    <2>5. calls' \in Nat /\ calls' >= calls
      BY <1>0, <2>1
    <2>6. Stack' /\ Top' = c
      BY <1>0, <2>2, <2>4, <2>5, TopReplaced DEF Calling
    <2> QED
      BY <1>0, <2>1, <2>4, <2>6 DEF IInv, InCall, Exposed, Stored, Saved, Served
  <1>7. CASE Interrupt
    BY <1>7, InterruptKept
  <1>8. ASSUME Int08 PROVE IInv'
    <2>1. Goto("run") /\ UNCHANGED <<prog, calls, vector, frame>>
      BY <1>8 DEF Int08
    <2>2. Stack' /\ Top'.pc = "run"
      BY <1>0, <2>1, Went DEF Calling
    <2> QED
      BY <1>0, <2>1, <2>2 DEF IInv, InCall, Exposed, Stored, Saved, Served
  <1>9. CASE HookReturns
    BY <1>9, ReturnKept
  <1>10. ASSUME HookEnables PROVE IInv'
    BY <1>10, <1>enabled DEF HookEnables
  <1>11. CASE TimerFires
    BY <1>0, <1>11 DEF TimerFires, IInv, Stack, InCall, IsStack, Top
  <1>12. CASE KeyArrives \/ ProgramStuffs \/ ProgramFlushes \/ Second
    BY <1>12, <1>same DEF KeyArrives, ProgramStuffs, ProgramFlushes, Second
  <1>13. CASE LinuxTakesOver
    BY <1>0, <1>13 DEF LinuxTakesOver, IInv, Stack, InCall, IsStack, Top
  <1>14. CASE UNCHANGED vars
    BY <1>14, <1>same DEF vars
  <1> QED
    BY <1>1, <1>2, <1>3, <1>4, <1>5, <1>6, <1>7, <1>8, <1>9, <1>10, <1>11, <1>12, <1>13, <1>14
    DEF Next

(* For every program: the answer a caller gets is to its own call, on its  *)
(* own registers, and of the service it asked for, unless it jumped to a   *)
(* stub with interrupts on and was interrupted before its registers were   *)
(* saved, when the service is that of the vector stored last.              *)
THEOREM AnswersRight == Spec => []AnswersReachCaller
PROOF
  <1>1. IInv => AnswersReachCaller
    <2> SUFFICES ASSUME IInv PROVE AnswersReachCaller
      OBVIOUS
    <2>1. PICK S : cpu \in Seq(S)
      BY DEF IInv, Stack, IsStack
    <2>2. DOMAIN cpu = 1 .. Len(cpu)
      BY <2>1
    <2> QED
      BY <2>2 DEF IInv, Stack, Answered, Right, Own, AnswersReachCaller
  <1>2. IInv /\ [Next]_vars => IInv'
    BY Inductive
  <1> QED
    BY <1>1, <1>2, Initial, PTL DEF Spec
-----------------------------------------------------------------------------
(* The time.  As long as no midnight was lost, the days a reader has heard *)
(* of, the one it will hear of and the ticks of today are the time passed. *)
Fits(r) == r.regs \in Registers

Requests ==
  /\ \A i \in 1 .. Len(cpu) : Fits(cpu[i].req)
  /\ Fits(frame.req)

Pending == IF midnight THEN 1 ELSE 0

Time ==
  /\ ticks \in Nat /\ days \in Nat /\ elapsed \in Nat
  /\ midnight \in BOOLEAN /\ missed \in BOOLEAN
  /\ ~missed => ticks < Midnight /\ elapsed = (days + Pending) * Midnight + ticks
  /\ MidnightOnce

TInv == IInv /\ Requests /\ Time

LEMMA CallFits ==
  ASSUME IInv, NEW r \in Calls, NEW k
  PROVE  Fits([r EXCEPT !.by = k])
PROOF
  <1>1. IsCall(r)
    BY LegacyAssumption DEF IInv, InCall, Calls
  <1>2. r = [int |-> r.int, regs |-> r.regs, jump |-> r.jump, by |-> r.by]
    BY <1>1 DEF IsCall
  <1>3. [r EXCEPT !.by = k].regs = r.regs
    BY <1>2
  <1> QED
    BY <1>1, <1>3 DEF IsCall, Fits

LEMMA TopFits ==
  ASSUME Stack, Requests, NEW c, Becomes(c), Fits(c.req), Fits(frame'.req)
  PROVE  Requests'
PROOF
  <1>1. PICK S : cpu \in Seq(S)
    BY DEF Stack, IsStack
  <1>2. Len(cpu) \in Nat /\ Len(cpu) >= 1 /\ Len(cpu) \in 1 .. Len(cpu)
    BY <1>1 DEF Stack
  <1>3. cpu \in Seq(S \union {c})
    BY <1>1, SeqMonotonic
  <1>4. /\ Len(cpu') = Len(cpu)
        /\ \A i \in 1 .. Len(cpu) : cpu'[i] = IF i = Len(cpu) THEN c ELSE cpu[i]
    BY <1>2, <1>3, ExceptSeq DEF Becomes
  <1>5. \A i \in 1 .. Len(cpu') : Fits(cpu'[i].req)
    BY <1>4 DEF Requests
  <1> QED
    BY <1>5 DEF Requests, Fits

LEMMA WentFits ==
  ASSUME Stack, Requests, NEW pc, Goto(pc), Fits(frame'.req)
  PROVE  Requests'
PROOF
  <1> DEFINE c == [Top EXCEPT !.pc = pc]
  <1>1. Becomes(c)
    BY DEF Goto
  <1>2. IsContext(Top) /\ Len(cpu) \in 1 .. Len(cpu)
    BY TopContext DEF Stack
  <1>3. c.req = Top.req
    BY <1>2, Moved
  <1>4. Fits(c.req)
    BY <1>2, <1>3 DEF Requests, Top
  <1> HIDE DEF c
  <1> QED
    BY <1>1, <1>4, TopFits

LEMMA RequestsKept ==
  ASSUME IInv, Requests, [Next]_vars
  PROVE  Requests'
PROOF
  <1>0. Stack /\ InCall /\ IsContext(Top) /\ Len(cpu) \in Nat /\ Len(cpu) >= 1
    BY TopContext DEF IInv, Stack
  <1>same. ASSUME UNCHANGED <<cpu, frame>> PROVE Requests'
    BY <1>same DEF Requests, Fits
  <1>top. Fits(Top.req) /\ Fits(frame.req)
    BY <1>0 DEF Requests, Top
  <1>1. ASSUME NEW r, Call(r) PROVE Requests'
    <2> DEFINE q == [r EXCEPT !.by = Len(cpu)]
               c == [who |-> Top.who, pc |-> "stub", req |-> q, ifl |-> iflag, ans |-> NoAnswer, cut |-> FALSE]
    <2>1. Becomes(c) /\ r \in Calls /\ UNCHANGED frame
      BY <1>1 DEF Call
    <2>2. Fits(q) /\ c.req = q
      BY <2>1, CallFits
    <2> HIDE DEF c, q
    <2> QED
      BY <1>0, <1>top, <2>1, <2>2, TopFits DEF Fits
  <1>2. CASE StoreVector
    <2>1. Goto("save") /\ UNCHANGED frame
      BY <1>2 DEF StoreVector
    <2>2. Fits(frame'.req)
      BY <1>top, <2>1
    <2> QED
      BY <1>0, <2>1, <2>2, WentFits
  <1>3. CASE SaveFrame
    <2>1. Goto("serve") /\ frame'.req = Top.req
      BY <1>3 DEF SaveFrame
    <2>2. Fits(frame'.req)
      BY <1>top, <2>1
    <2> QED
      BY <1>0, <2>1, <2>2, WentFits
  <1>4. CASE Service
    <2>1. /\ Goto("return")
          /\ frame' = [frame EXCEPT !.ans = [int |-> vector, req |-> frame.req]]
      BY <1>4 DEF Service
    <2>2. frame'.req = frame.req
      BY <1>0, <2>1 DEF InCall
    <2>3. Fits(frame'.req)
      BY <1>top, <2>2
    <2> QED
      BY <1>0, <2>1, <2>3, WentFits
  <1>5. CASE Return
    <2>1. Goto("load") /\ UNCHANGED frame
      BY <1>5 DEF Return
    <2>2. Fits(frame'.req)
      BY <1>top, <2>1
    <2> QED
      BY <1>0, <2>1, <2>2, WentFits
  <1>6. CASE LoadFrame
    <2> DEFINE c == [who |-> Top.who, pc |-> "run", req |-> Top.req, ifl |-> Top.ifl, ans |-> frame.ans, cut |-> Top.cut]
    <2>1. Becomes(c) /\ UNCHANGED frame
      <3>1. [Top EXCEPT !.pc = "run", !.ans = frame.ans] = c
        BY <1>0, Resumed
      <3> QED
        BY <1>6, <3>1 DEF LoadFrame
    <2>2. Fits(c.req) /\ Fits(frame'.req)
      BY <1>top, <2>1
    <2> HIDE DEF c
    <2> QED
      BY <1>0, <2>1, <2>2, TopFits
  <1>7. CASE Interrupt
    <2> DEFINE c == Context("hook", "int08", TRUE)
               n == Len(cpu)
               d == [Top EXCEPT !.cut = Top.cut \/ Top.pc = "save"]
               low == [cpu EXCEPT ![n] = d]
    <2>1. cpu' = Append(low, c) /\ UNCHANGED frame
      BY <1>7 DEF Interrupt, Top
    <2>2. Fits(c.req)
      BY DEF Context, Fits, None, Zero, Registers
    <2>3. d.req = Top.req
      BY <1>0 DEF IsContext
    <2> HIDE DEF c, d
    <2>4. PICK S : cpu \in Seq(S)
      BY <1>0 DEF Stack, IsStack
    <2>5. cpu \in Seq(S \union {c, d}) /\ DOMAIN cpu = 1 .. n
      BY <2>4, SeqMonotonic
    <2>6. low \in Seq(S \union {c, d}) /\ Len(low) = n
      BY <1>0, <2>5, ExceptSeq
    <2>7. \A i \in 1 .. n : low[i] = IF i = n THEN d ELSE cpu[i]
      BY <2>5
    <2> HIDE DEF low
    <2>8. /\ Len(cpu') = n + 1 /\ cpu'[n + 1] = c
          /\ \A i \in 1 .. n : cpu'[i] = low[i]
      BY <2>1, <2>6
    <2>9. \A i \in 1 .. n + 1 : i = n + 1 \/ i \in 1 .. n
      BY <1>0
    <2>10. \A i \in 1 .. Len(cpu') : Fits(cpu'[i].req)
      BY <1>top, <2>2, <2>3, <2>7, <2>8, <2>9 DEF Requests
    <2> QED
      BY <1>top, <2>1, <2>10 DEF Requests, Fits
  <1>8. CASE Int08
    <2>1. Goto("run") /\ UNCHANGED frame
      BY <1>8 DEF Int08
    <2>2. Fits(frame'.req)
      BY <1>top, <2>1
    <2> QED
      BY <1>0, <2>1, <2>2, WentFits
  <1>9. CASE HookReturns
    <2> DEFINE n == Len(cpu)
    <2>1. cpu' = SubSeq(cpu, 1, n - 1) /\ UNCHANGED frame
      BY <1>9 DEF HookReturns
    <2>2. PICK S : cpu \in Seq(S)
      BY <1>0 DEF Stack, IsStack
    <2>3. n # 1
      BY <1>0, <1>9 DEF HookReturns, Stack, Top
    <2>4. /\ cpu' \in Seq(S) /\ Len(cpu') = n - 1
          /\ \A i \in 1 .. n - 1 : cpu'[i] = cpu[i]
      <3>1. 1 \in 1 .. n + 1 /\ n - 1 \in 1 - 1 .. n
        BY <1>0
      <3>2. \A i \in 1 .. n - 1 : 1 + i - 1 = i
        BY <1>0
      <3>3. n - 1 - 1 + 1 = n - 1
        BY <1>0
      <3> QED
        BY <1>0, <2>1, <2>2, <2>3, <3>1, <3>2, <3>3, SubSeqProperties
    <2>5. \A i \in 1 .. n - 1 : i \in 1 .. n
      BY <1>0
    <2>6. \A i \in 1 .. Len(cpu') : Fits(cpu'[i].req)
      BY <2>4, <2>5 DEF Requests
    <2> QED
      BY <1>top, <2>1, <2>6 DEF Requests, Fits
  <1>10. CASE HookEnables \/ TimerFires \/ LinuxTakesOver
    BY <1>10, <1>same DEF HookEnables, TimerFires, LinuxTakesOver
  <1>11. CASE KeyArrives \/ ProgramStuffs \/ ProgramFlushes \/ Second
    BY <1>11, <1>same DEF KeyArrives, ProgramStuffs, ProgramFlushes, Second, cpuVars
  <1>12. CASE UNCHANGED vars
    BY <1>12, <1>same DEF vars, cpuVars
  <1> QED
    BY <1>1, <1>2, <1>3, <1>4, <1>5, <1>6, <1>7, <1>8, <1>9, <1>10, <1>11, <1>12 DEF Next

LEMMA RequestsInitial == Init => Requests
PROOF
  <1> SUFFICES ASSUME Init PROVE Requests
    OBVIOUS
  <1>1. cpu = <<Context("main", "run", TRUE)>> /\ frame.req = None
    BY DEF Init
  <1>2. Len(cpu) = 1 /\ cpu[1].req = None /\ 1 .. 1 = {1}
    BY <1>1 DEF Context
  <1>3. Fits(None)
    BY DEF Fits, None, Zero, Registers
  <1>4. \A i \in 1 .. Len(cpu) : cpu[i].req = None
    BY <1>2
  <1> QED
    BY <1>1, <1>3, <1>4 DEF Requests

(* A tick: the last of the day is counted as a midnight, once.             *)
LEMMA TickCounted ==
  ASSUME Time, Int08
  PROVE  Time'
PROOF
  <1>1. /\ ticks' = CountTick(ticks)
        /\ midnight' = (midnight \/ ticks' = 0)
        /\ elapsed' = elapsed + 1
        /\ missed' = (missed \/ (midnight /\ ticks + 1 = Midnight))
        /\ UNCHANGED <<days, clockRead>>
    BY DEF Int08
  <1>2. Midnight \in Nat \ {0} /\ ticks \in Nat /\ days \in Nat /\ elapsed \in Nat
    BY LegacyAssumption DEF Time
  <1>3. MidnightOnce'
    BY <1>1 DEF Time, MidnightOnce
  <1>4. midnight' \in BOOLEAN /\ missed' \in BOOLEAN /\ elapsed' \in Nat
    BY <1>1, <1>2 DEF Time
  <1>5. CASE ticks + 1 < Midnight
    <2>1. ticks' = ticks + 1 /\ ticks' \in Nat \ {0} /\ ticks' < Midnight
      BY <1>1, <1>2, <1>5 DEF CountTick
    <2>2. Pending' = Pending
      BY <1>1, <2>1 DEF Pending, Time
    <2>3. ~missed' => ~missed
      BY <1>1
    <2>4. Pending \in Nat /\ (days + Pending) * Midnight \in Nat
      BY <1>2 DEF Pending
    <2>5. ~missed' => elapsed' = (days + Pending) * Midnight + ticks'
      BY <1>1, <1>2, <2>1, <2>3, <2>4 DEF Time
    <2> QED
      BY <1>1, <1>2, <1>3, <1>4, <2>1, <2>2, <2>5 DEF Time
  <1>6. CASE ticks + 1 = Midnight
    <2>1. ticks' = 0 /\ midnight' = TRUE
      <3>1. ticks' = 0
        BY <1>1, <1>2, <1>6 DEF CountTick
      <3>2. midnight' = TRUE
        BY <1>1, <3>1, Zenon
      <3> QED
        BY <3>1, <3>2
    <2>2. ~missed' => ~missed /\ ~midnight
      BY <1>1, <1>6
    <2>3. ASSUME ~missed' PROVE elapsed' = (days' + Pending') * Midnight + ticks'
      <3>1. Pending' = 1 /\ Pending = 0
        BY <2>1, <2>2, <2>3 DEF Pending
      <3>2. elapsed = (days + 0) * Midnight + ticks
        BY <2>2, <2>3, <3>1 DEF Time
      <3>3. (days + 1) * Midnight = days * Midnight + Midnight /\ days * Midnight \in Nat
        BY <1>2
      <3> QED
        BY <1>1, <1>2, <1>6, <2>1, <3>1, <3>2, <3>3
    <2> QED
      BY <1>1, <1>2, <1>3, <1>4, <2>1, <2>3 DEF Time
  <1>7. CASE ticks + 1 > Midnight
    <2>1. ticks' = 0
      BY <1>1, <1>2, <1>7 DEF CountTick
    <2>2. missed
      BY <1>2, <1>7 DEF Time
    <2>3. missed'
      BY <1>1, <2>2
    <2> QED
      BY <1>1, <1>2, <1>3, <1>4, <2>1, <2>3 DEF Time
  <1> QED
    BY <1>2, <1>5, <1>6, <1>7

(* A service that reads or sets the count, or leaves it alone.             *)
LEMMA NumberLemma ==
  ASSUME NEW g \in Registers
  PROVE  Number(g) \in Nat
PROOF
  <1>1. g.ch \in 0 .. 255 /\ g.cl \in 0 .. 255 /\ g.dh \in 0 .. 255 /\ g.dl \in 0 .. 255
    BY DEF Registers
  <1>2. PICK a \in 0 .. 255, b \in 0 .. 255, c \in 0 .. 255, d \in 0 .. 255 :
          g.ch = a /\ g.cl = b /\ g.dh = c /\ g.dl = d
    BY <1>1
  <1>3. ((a * 256 + b) * 256 + c) * 256 + d \in Nat
    OBVIOUS
  <1>4. Number(g) = ((a * 256 + b) * 256 + c) * 256 + d
    BY <1>2 DEF Number
  <1> QED
    BY <1>3, <1>4

LEMMA TimeServed ==
  ASSUME Time, Requests, Service
  PROVE  Time'
PROOF
  <1> DEFINE g  == frame.req.regs
             fn == Function(vector, g.ah)
  <1>1. Midnight \in Nat \ {0} /\ ticks \in Nat /\ days \in Nat /\ elapsed \in Nat
    BY LegacyAssumption DEF Time
  <1>2. Perform(fn, g) /\ Number(g) \in Nat
    BY NumberLemma DEF Service, Requests, Fits
  <1> HIDE DEF fn, g
  <1>same. ASSUME UNCHANGED <<ticks, midnight, elapsed, days, missed, clockRead>> PROVE Time'
    BY <1>same DEF Time, MidnightOnce, Pending
  <1>3. CASE fn = "ticks"
    <2>1. /\ days' = IF midnight THEN days + 1 ELSE days
          /\ midnight' = FALSE
          /\ clockRead' = IF missed THEN clockRead
                          ELSE [days |-> days', ticks |-> ticks, elapsed |-> elapsed]
          /\ UNCHANGED <<ticks, elapsed, missed>>
      BY <1>2, <1>3 DEF Perform, ReadTicks, TimerUpdate
    <2>2. days' = days + Pending /\ Pending' = 0 /\ days' \in Nat
      BY <1>1, <2>1 DEF Pending
    <2>3. ~missed => ticks < Midnight /\ elapsed = days' * Midnight + ticks
      BY <2>2 DEF Time
    <2>4. MidnightOnce'
      BY <2>1, <2>3 DEF Time, MidnightOnce
    <2>5. ~missed' => ticks' < Midnight /\ elapsed' = (days' + Pending') * Midnight + ticks'
      BY <2>1, <2>2, <2>3
    <2> QED
      BY <1>1, <2>1, <2>2, <2>4, <2>5 DEF Time
  <1>4. CASE fn = "set ticks"
    <2>1. /\ ticks' = Number(g) /\ midnight' = FALSE
          /\ elapsed' = Number(g) /\ days' = 0 /\ missed' = (Number(g) >= Midnight)
          /\ UNCHANGED clockRead
      BY <1>2, <1>4 DEF Perform, SetTicks
    <2> DEFINE t == Number(g)
    <2>2. t \in Nat
      BY <1>2
    <2> HIDE DEF t
    <2>3. ~(t >= Midnight) => t < Midnight /\ t = (0 + 0) * Midnight + t
      BY <1>1, <2>2
    <2>4. Pending' = 0
      BY <2>1 DEF Pending
    <2>5. ~missed' => ticks' < Midnight /\ elapsed' = (days' + Pending') * Midnight + ticks'
      BY <2>1, <2>3, <2>4 DEF t
    <2>6. MidnightOnce'
      BY <2>1 DEF Time, MidnightOnce
    <2>7. ticks' \in Nat /\ days' \in Nat /\ elapsed' \in Nat
      BY <2>1, <2>2 DEF t
    <2>8. midnight' \in BOOLEAN /\ missed' \in BOOLEAN
      <3>1. (t >= Midnight) \in BOOLEAN
        BY <1>1, <2>2
      <3>2. midnight' = FALSE /\ missed' = (t >= Midnight)
        BY <2>1 DEF t
      <3> QED
        BY <3>1, <3>2, Zenon
    <2> QED
      BY <2>5, <2>6, <2>7, <2>8 DEF Time
  <1>5. CASE fn # "ticks" /\ fn # "set ticks"
    BY <1>2, <1>5, <1>same DEF Perform
  <1> QED
    BY <1>3, <1>4, <1>5

LEMMA TimeKept ==
  ASSUME Time, Requests, [Next]_vars
  PROVE  Time'
PROOF
  <1>same. ASSUME UNCHANGED timeVars PROVE Time'
    BY <1>same DEF Time, MidnightOnce, Pending, timeVars
  <1>1. CASE Service
    BY <1>1, TimeServed
  <1>2. CASE Int08
    BY <1>2, TickCounted
  <1>3. CASE (\E r \in Calls : Call(r)) \/ StoreVector \/ SaveFrame \/ Return \/ LoadFrame
    BY <1>3, <1>same DEF Call, StoreVector, SaveFrame, Return, LoadFrame
  <1>4. CASE TimerFires \/ Interrupt \/ HookEnables \/ HookReturns
    BY <1>4, <1>same DEF TimerFires, Interrupt, HookEnables, HookReturns
  <1>5. CASE KeyArrives \/ ProgramStuffs \/ ProgramFlushes \/ Second \/ LinuxTakesOver
    BY <1>5, <1>same DEF KeyArrives, ProgramStuffs, ProgramFlushes, Second, LinuxTakesOver
  <1>6. CASE UNCHANGED vars
    BY <1>6, <1>same DEF vars
  <1> QED
    BY <1>1, <1>2, <1>3, <1>4, <1>5, <1>6 DEF Next

(* Readers of the clock hear of every midnight that was not lost, once:    *)
(* the days they were told and the ticks make up the time passed.          *)
THEOREM MidnightCounted == Spec => []MidnightOnce
PROOF
  <1>1. Init => TInv
    <2> SUFFICES ASSUME Init PROVE Time
      BY Initial, RequestsInitial DEF TInv
    <2>1. Time
      <3>1. Midnight \in Nat \ {0}
        BY LegacyAssumption
      <3>2. /\ ticks = 0 /\ elapsed = 0 /\ days = 0
            /\ midnight = FALSE /\ missed = FALSE
            /\ clockRead = [days |-> 0, ticks |-> 0, elapsed |-> 0]
        BY DEF Init
      <3>3. Pending = 0 /\ (0 + 0) * Midnight = 0
        BY <3>1, <3>2 DEF Pending
      <3>4. MidnightOnce
        BY <3>1, <3>2 DEF MidnightOnce
      <3>5. ticks \in Nat /\ ticks < Midnight /\ days \in Nat /\ elapsed \in Nat
        BY <3>1, <3>2
      <3>6. midnight \in BOOLEAN /\ missed \in BOOLEAN
        BY <3>2
      <3>7. elapsed = (days + Pending) * Midnight + ticks
        BY <3>2, <3>3
      <3> QED
        BY <3>4, <3>5, <3>6, <3>7 DEF Time
    <2> QED
      BY <2>1
  <1>2. TInv /\ [Next]_vars => TInv'
    <2> SUFFICES ASSUME TInv, [Next]_vars PROVE TInv'
      OBVIOUS
    <2>1. IInv' /\ Requests' /\ Time'
      BY Inductive, RequestsKept, TimeKept DEF TInv
    <2> QED
      BY <2>1 DEF TInv
  <1>3. TInv => MidnightOnce
    BY DEF TInv, Time
  <1> QED
    BY <1>1, <1>2, <1>3, PTL DEF Spec

-----------------------------------------------------------------------------
(* The keys.  What the ring holds, at the places from head to tail, and    *)
(* behind it the key in the serial port are the keys not fetched yet.      *)
Count(k) == Wrap(k.tail + Slots - k.head)

IsRing(k) ==
  /\ k = [ring |-> k.ring, head |-> k.head, tail |-> k.tail]
  /\ k.head \in 0 .. Slots - 1 /\ k.tail \in 0 .. Slots - 1
  /\ k.ring = [i \in 0 .. Slots - 1 |-> k.ring[i]]

InTurn(k, u, o) ==
  /\ IsRing(k)
  /\ u \in Seq(Nat) /\ Len(u) <= 1
  /\ o \in Seq(Nat) /\ Len(o) = Count(k) + Len(u)
  /\ \A i \in 1 .. Count(k) : o[i] = k.ring[Wrap(k.head + i - 1)]
  /\ Len(u) = 1 => o[Len(o)] = u[1]

Keys ==
  /\ typed \in Nat
  /\ InTurn(kb, uart, owed)
  /\ given.key \in {0, given.due}

LEMMA OneKey ==
  ASSUME NEW u \in Seq(Nat), Len(u) <= 1
  PROVE  Len(u) \in {0, 1} /\ (u # <<>> => Len(u) = 1)
PROOF
  <1>1. Len(u) \in Nat
    BY LenProperties
  <1>2. u # <<>> => Len(u) \in Nat \ {0}
    BY EmptySeq
  <1> DEFINE n == Len(u)
  <1> HIDE DEF n
  <1>3. n \in Nat /\ n <= 1 /\ (u # <<>> => n # 0)
    BY <1>1, <1>2 DEF n
  <1>4. n \in {0, 1}
    BY <1>3
  <1> QED
    BY <1>3, <1>4 DEF n

(* An index of the ring wraps around once at the most.                     *)
LEMMA WrapLemma ==
  /\ Slots \in Nat /\ Slots >= 2
  /\ \A a \in 0 .. 2 * Slots - 1 : Wrap(a) = IF a < Slots THEN a ELSE a - Slots
PROOF
  <1>1. Slots \in Nat /\ Slots >= 2
    BY LegacyAssumption
  <1>2. ASSUME NEW a \in 0 .. 2 * Slots - 1, a < Slots PROVE Wrap(a) = a
    BY <1>1, <1>2, SMTT(20) DEF Wrap
  <1>3. ASSUME NEW a \in 0 .. 2 * Slots - 1, a >= Slots PROVE Wrap(a) = a - Slots
    BY <1>1, <1>3, SMTT(20) DEF Wrap
  <1> HIDE DEF Wrap
  <1> QED
    BY <1>1, <1>2, <1>3

LEMMA CountLemma ==
  ASSUME NEW k, IsRing(k)
  PROVE  /\ Count(k) = IF k.tail >= k.head THEN k.tail - k.head
                       ELSE k.tail + Slots - k.head
         /\ Count(k) \in 0 .. Slots - 1
         /\ Nonempty(k) <=> Count(k) > 0
PROOF
  <1>1. /\ Slots \in Nat /\ Slots >= 2
        /\ k.head \in 0 .. Slots - 1 /\ k.tail \in 0 .. Slots - 1
    BY WrapLemma DEF IsRing
  <1>2. k.tail + Slots - k.head \in 0 .. 2 * Slots - 1
    BY <1>1
  <1>3. Wrap(k.tail + Slots - k.head) =
          IF k.tail + Slots - k.head < Slots THEN k.tail + Slots - k.head
          ELSE k.tail + Slots - k.head - Slots
    BY <1>1, <1>2, WrapLemma
  <1> QED
    BY <1>1, <1>3 DEF Count, Nonempty

(* A key put into a ring that is not full is the last one.                 *)
LEMMA EnqueueLemma ==
  ASSUME NEW k, IsRing(k), NEW key, Wrap(k.tail + 1) # k.head
  PROVE  LET e == Enqueue(k, key)
         IN  /\ IsRing(e) /\ e.head = k.head /\ Count(e) = Count(k) + 1
             /\ \A i \in 1 .. Count(k) :
                  e.ring[Wrap(e.head + i - 1)] = k.ring[Wrap(k.head + i - 1)]
             /\ e.ring[Wrap(e.head + Count(k))] = key
PROOF
  <1> DEFINE e == Enqueue(k, key)
             next == Wrap(k.tail + 1)
  <1>1. /\ Slots \in Nat /\ Slots >= 2
        /\ k.head \in 0 .. Slots - 1 /\ k.tail \in 0 .. Slots - 1
        /\ k.ring = [i \in 0 .. Slots - 1 |-> k.ring[i]]
    BY WrapLemma DEF IsRing
  <1>2. next = (IF k.tail + 1 = Slots THEN 0 ELSE k.tail + 1) /\ next \in 0 .. Slots - 1
    BY <1>1, WrapLemma
  <1> HIDE DEF next
  <1>3. e = [ring |-> [k.ring EXCEPT ![k.tail] = key], head |-> k.head, tail |-> next]
    BY DEF Enqueue, IsRing, next
  <1>4. /\ e.head = k.head /\ e.tail = next /\ e.ring = [k.ring EXCEPT ![k.tail] = key]
        /\ e = [ring |-> e.ring, head |-> e.head, tail |-> e.tail]
    BY <1>3
  <1> HIDE DEF e
  <1>5. \A j \in 0 .. Slots - 1 : e.ring[j] = IF j = k.tail THEN key ELSE k.ring[j]
    BY <1>1, <1>4
  <1>6. e.ring = [i \in 0 .. Slots - 1 |-> e.ring[i]]
    BY <1>1, <1>4
  <1>7. IsRing(e)
    BY <1>1, <1>2, <1>4, <1>6 DEF IsRing
  <1>8. next # k.head
    BY DEF next
  <1>9. Count(k) = IF k.tail >= k.head THEN k.tail - k.head ELSE k.tail + Slots - k.head
    BY CountLemma
  <1>e. Count(e) = Count(k) + 1
    <2>1. Count(e) = IF next >= k.head THEN next - k.head ELSE next + Slots - k.head
      BY <1>4, <1>7, CountLemma
    <2>2. CASE k.tail + 1 = Slots
      BY <1>1, <1>2, <1>8, <1>9, <2>1, <2>2
    <2>3. CASE k.tail + 1 # Slots
      <3>1. next = k.tail + 1
        BY <1>2, <2>3
      <3>2. CASE k.tail >= k.head
        BY <1>1, <1>9, <2>1, <3>1, <3>2
      <3>3. CASE k.tail < k.head
        <4>1. k.tail + 1 < k.head
          BY <1>1, <1>8, <3>1, <3>3
        <4> QED
          BY <1>1, <1>9, <2>1, <3>1, <3>3, <4>1
      <3> QED
        BY <1>1, <3>2, <3>3
    <2> QED
      BY <2>2, <2>3
  <1>10. Wrap(k.head + Count(k)) = k.tail
    <2> DEFINE last == k.head + Count(k)
    <2>1. /\ last = IF k.tail >= k.head THEN k.tail ELSE k.tail + Slots
          /\ last \in 0 .. 2 * Slots - 1
      BY <1>1, <1>9
    <2> HIDE DEF last
    <2>2. Wrap(last) = IF last < Slots THEN last ELSE last - Slots
      BY <1>1, <2>1, WrapLemma
    <2>3. Wrap(last) = k.tail
      BY <1>1, <2>1, <2>2
    <2> QED
      BY <2>3 DEF last
  <1>11. ASSUME NEW i \in 1 .. Count(k)
         PROVE  Wrap(k.head + i - 1) \in 0 .. Slots - 1 /\ Wrap(k.head + i - 1) # k.tail
    <2>1. Count(k) \in 0 .. Slots - 1 /\ k.head + i - 1 \in 0 .. 2 * Slots - 1
      BY <1>1, CountLemma
    <2> DEFINE place == k.head + i - 1
    <2>2. Wrap(place) = IF place < Slots THEN place ELSE place - Slots
      BY <1>1, <2>1, WrapLemma
    <2>3. /\ place \in 0 .. 2 * Slots - 1 /\ place >= k.head
          /\ place < IF k.tail >= k.head THEN k.tail ELSE k.tail + Slots
      BY <1>1, <1>9, <2>1
    <2> HIDE DEF place
    <2>4. Wrap(place) \in 0 .. Slots - 1 /\ Wrap(place) # k.tail
      BY <1>1, <2>2, <2>3
    <2> QED
      BY <2>4 DEF place
  <1>12. \A i \in 1 .. Count(k) :
           e.ring[Wrap(e.head + i - 1)] = k.ring[Wrap(k.head + i - 1)]
    BY <1>4, <1>5, <1>11
  <1>13. e.ring[Wrap(e.head + Count(k))] = key
    BY <1>1, <1>4, <1>5, <1>10
  <1> QED
    BY <1>4, <1>7, <1>e, <1>12, <1>13 DEF e

(* Taking the first key moves the others up.                               *)
LEMMA DequeueLemma ==
  ASSUME NEW k, IsRing(k), Nonempty(k)
  PROVE  LET d == Dequeue(k)
         IN  /\ IsRing(d) /\ Count(d) = Count(k) - 1
             /\ \A i \in 1 .. Count(k) - 1 :
                  d.ring[Wrap(d.head + i - 1)] = k.ring[Wrap(k.head + (i + 1) - 1)]
PROOF
  <1> DEFINE d == Dequeue(k)
             next == Wrap(k.head + 1)
  <1>1. /\ Slots \in Nat /\ Slots >= 2
        /\ k.head \in 0 .. Slots - 1 /\ k.tail \in 0 .. Slots - 1 /\ k.head # k.tail
    BY WrapLemma DEF IsRing, Nonempty
  <1>2. next = (IF k.head + 1 = Slots THEN 0 ELSE k.head + 1) /\ next \in 0 .. Slots - 1
    BY <1>1, WrapLemma
  <1>3. d = [ring |-> k.ring, head |-> next, tail |-> k.tail]
    <2>1. k = [ring |-> k.ring, head |-> k.head, tail |-> k.tail]
      BY DEF IsRing
    <2> QED
      BY <2>1 DEF Dequeue
  <1> HIDE DEF next
  <1>4. d.head = next /\ d.tail = k.tail /\ d.ring = k.ring /\ IsRing(d)
    BY <1>2, <1>3 DEF IsRing
  <1> HIDE DEF d
  <1>5. Count(d) = Count(k) - 1
    BY <1>1, <1>2, <1>4, CountLemma
  <1>6. ASSUME NEW i \in 1 .. Count(k) - 1
        PROVE  Wrap(d.head + i - 1) = Wrap(k.head + (i + 1) - 1)
    <2>1. Count(k) \in 0 .. Slots - 1
      BY CountLemma
    <2>2. /\ next + i - 1 \in 0 .. 2 * Slots - 1
          /\ k.head + (i + 1) - 1 \in 0 .. 2 * Slots - 1
      BY <1>1, <1>2, <2>1
    <2> QED
      BY <1>1, <1>2, <1>4, <2>1, <2>2, WrapLemma
  <1> QED
    BY <1>4, <1>5, <1>6 DEF d

(* Where the ring is empty it takes the key from the serial port: nothing  *)
(* changes about which keys are due, and in what order.                    *)
LEMMA FilledLemma ==
  ASSUME InTurn(kb, uart, owed)
  PROVE  InTurn(Filled.kb, Filled.uart, owed)
PROOF
  <1>1. CASE Nonempty(kb) \/ uart = <<>>
    BY <1>1 DEF Filled
  <1>2. CASE ~Nonempty(kb) /\ uart # <<>>
    <2> DEFINE e == Enqueue(kb, Head(uart))
    <2>1. Filled.kb = e /\ Filled.uart = <<>>
      BY <1>2 DEF Filled
    <2>2. /\ IsRing(kb) /\ uart \in Seq(Nat) /\ Len(uart) = 1 /\ Head(uart) = uart[1]
          /\ owed \in Seq(Nat)
      <3>1. IsRing(kb) /\ uart \in Seq(Nat) /\ Len(uart) <= 1 /\ owed \in Seq(Nat)
        BY DEF InTurn
      <3>2. Len(uart) = 1
        BY <1>2, <3>1, OneKey
      <3> QED
        BY <3>1, <3>2
    <2>3. Count(kb) = 0 /\ kb.head = kb.tail
      BY <1>2, <2>2, CountLemma DEF Nonempty
    <2>4. Len(owed) = 1 /\ owed[1] = Head(uart)
      BY <2>2, <2>3 DEF InTurn
    <2>5. kb.head \in 0 .. Slots - 1 /\ Wrap(kb.tail + 1) # kb.head
      <3>1. kb.head \in 0 .. Slots - 1 /\ kb.tail = kb.head
        BY <2>2, <2>3 DEF IsRing
      <3>2. Wrap(kb.head + 1) = IF kb.head + 1 < Slots THEN kb.head + 1 ELSE kb.head + 1 - Slots
        BY <3>1, WrapLemma
      <3> QED
        BY <3>1, <3>2, WrapLemma
    <2>6. /\ IsRing(e) /\ e.head = kb.head /\ Count(e) = Count(kb) + 1
          /\ e.ring[Wrap(e.head + Count(kb))] = Head(uart)
      BY <2>2, <2>5, EnqueueLemma
    <2> HIDE DEF e
    <2>7. Count(e) = 1 /\ e.head + 0 = e.head + 1 - 1
      BY <2>3, <2>5, <2>6
    <2>8. \A i \in 1 .. Count(e) : owed[i] = e.ring[Wrap(e.head + i - 1)]
      BY <2>3, <2>4, <2>6, <2>7
    <2>9. <<>> \in Seq(Nat) /\ Len(<<>>) = 0
      OBVIOUS
    <2> QED
      BY <2>1, <2>2, <2>4, <2>6, <2>7, <2>8, <2>9 DEF InTurn
  <1> QED
    BY <1>1, <1>2

(* The first key of a ring that is not empty is the one that is due.       *)
LEMMA FirstLemma ==
  ASSUME NEW k, NEW u, InTurn(k, u, owed), Nonempty(k)
  PROVE  /\ owed \in Seq(Nat) /\ Len(owed) > 0 /\ Due = owed[1]
         /\ k.ring[k.head] = Due
PROOF
  <1>1. IsRing(k) /\ owed \in Seq(Nat) /\ Len(owed) = Count(k) + Len(u) /\ u \in Seq(Nat)
    BY DEF InTurn
  <1>2. Count(k) \in Nat /\ Count(k) > 0
    BY <1>1, CountLemma, WrapLemma
  <1>3. Len(owed) > 0
    BY <1>1, <1>2
  <1>4. owed # <<>> /\ Head(owed) = owed[1]
    BY <1>1, <1>3
  <1>5. k.head \in 0 .. Slots - 1
    BY <1>1 DEF IsRing
  <1>6. Wrap(k.head + 1 - 1) = k.head
    BY <1>5, WrapLemma
  <1>7. owed[1] = k.ring[Wrap(k.head + 1 - 1)]
    BY <1>2 DEF InTurn
  <1> QED
    BY <1>1, <1>3, <1>4, <1>6, <1>7 DEF Due

LEMMA GetKept ==
  ASSUME Keys, GetKey
  PROVE  Keys'
PROOF
  <1> DEFINE k == Filled.kb
             u == Filled.uart
             d == Dequeue(k)
  <1>1. InTurn(k, u, owed)
    BY FilledLemma DEF Keys
  <1>2. /\ Nonempty(k) /\ kb' = d /\ uart' = u /\ typed' = typed
        /\ given' = [key |-> k.ring[k.head], due |-> Due]
        /\ owed' = IF owed = <<>> THEN owed ELSE Tail(owed)
    BY DEF GetKey
  <1> HIDE DEF k, u
  <1>3. owed \in Seq(Nat) /\ Len(owed) > 0 /\ k.ring[k.head] = Due
    BY <1>1, <1>2, FirstLemma
  <1>4. /\ owed' \in Seq(Nat) /\ Len(owed') = Len(owed) - 1
        /\ \A i \in 1 .. Len(owed) - 1 : owed'[i] = owed[i + 1]
    BY <1>2, <1>3
  <1>5. /\ IsRing(k) /\ Count(k) \in Nat /\ Count(k) > 0
        /\ u \in Seq(Nat) /\ Len(u) <= 1 /\ Len(owed) = Count(k) + Len(u)
        /\ \A i \in 1 .. Count(k) : owed[i] = k.ring[Wrap(k.head + i - 1)]
        /\ Len(u) = 1 => owed[Len(owed)] = u[1]
    BY <1>1, <1>2, CountLemma, WrapLemma DEF InTurn
  <1>6. /\ IsRing(d) /\ Count(d) = Count(k) - 1
        /\ \A i \in 1 .. Count(k) - 1 :
             d.ring[Wrap(d.head + i - 1)] = k.ring[Wrap(k.head + (i + 1) - 1)]
    BY <1>2, <1>5, DequeueLemma
  <1> HIDE DEF d
  <1>7. \A i \in 1 .. Count(d) : owed'[i] = d.ring[Wrap(d.head + i - 1)]
    <2> SUFFICES ASSUME NEW i \in 1 .. Count(d)
                 PROVE  owed'[i] = d.ring[Wrap(d.head + i - 1)]
      OBVIOUS
    <2>1. i \in 1 .. Count(k) - 1 /\ i + 1 \in 1 .. Count(k) /\ i \in 1 .. Len(owed) - 1
      BY <1>5, <1>6
    <2>2. owed'[i] = owed[i + 1] /\ owed[i + 1] = k.ring[Wrap(k.head + (i + 1) - 1)]
      BY <1>4, <1>5, <2>1
    <2> QED
      BY <1>6, <2>1, <2>2
  <1>8. ASSUME Len(u) = 1 PROVE owed'[Len(owed')] = u[1]
    BY <1>4, <1>5, <1>8
  <1>9. InTurn(d, u, owed')
    BY <1>4, <1>5, <1>6, <1>7, <1>8 DEF InTurn
  <1> QED
    BY <1>2, <1>3, <1>9 DEF Keys

LEMMA PeekKept ==
  ASSUME Keys, PeekKey
  PROVE  Keys'
PROOF
  <1> DEFINE k == Filled.kb
             u == Filled.uart
  <1>1. InTurn(k, u, owed)
    BY FilledLemma DEF Keys
  <1>2. /\ kb' = k /\ uart' = u /\ owed' = owed /\ typed' = typed
        /\ given' = [key |-> IF Nonempty(k) THEN k.ring[k.head] ELSE 0, due |-> Due]
    BY DEF PeekKey
  <1> HIDE DEF k, u
  <1>3. given'.key \in {0, given'.due}
    <2>1. CASE Nonempty(k)
      BY <1>1, <1>2, <2>1, FirstLemma
    <2>2. CASE ~Nonempty(k)
      BY <1>2, <2>2
    <2> QED
      BY <2>1, <2>2
  <1> QED
    BY <1>1, <1>2, <1>3 DEF Keys

(* A key that arrives takes the place of one the serial port still had.    *)
LEMMA ArrivalKept ==
  ASSUME Keys, KeyArrives
  PROVE  Keys'
PROOF
  <1> DEFINE key  == typed + 1
             rest == IF uart = <<>> THEN owed ELSE SubSeq(owed, 1, Len(owed) - 1)
  <1>1. /\ IsRing(kb) /\ Count(kb) \in Nat /\ typed \in Nat
        /\ uart \in Seq(Nat) /\ Len(uart) <= 1
        /\ owed \in Seq(Nat) /\ Len(owed) = Count(kb) + Len(uart)
        /\ \A i \in 1 .. Count(kb) : owed[i] = kb.ring[Wrap(kb.head + i - 1)]
    BY CountLemma, WrapLemma DEF Keys, InTurn
  <1>2. /\ uart' = <<key>> /\ owed' = rest \o <<key>> /\ typed' = key
        /\ UNCHANGED <<kb, given>>
    BY DEF KeyArrives
  <1>3. /\ rest \in Seq(Nat) /\ Len(rest) = Count(kb)
        /\ \A i \in 1 .. Count(kb) : rest[i] = owed[i]
    <2>1. CASE uart = <<>>
      BY <1>1, <2>1
    <2>2. CASE uart # <<>>
      <3>1. Len(uart) = 1 /\ Len(owed) - 1 = Count(kb)
        BY <1>1, <2>2, OneKey
      <3>2. SubSeq(owed, 1, Len(owed) - 1) = [i \in 1 .. Count(kb) |-> owed[i]]
        BY <1>1, <3>1
      <3> QED
        BY <1>1, <2>2, <3>1, <3>2
    <2> QED
      BY <2>1, <2>2
  <1> HIDE DEF rest
  <1>4. <<key>> \in Seq(Nat) /\ Len(<<key>>) = 1 /\ <<key>>[1] = key
    BY <1>1
  <1> HIDE DEF key
  <1>5. /\ owed' \in Seq(Nat) /\ Len(owed') = Count(kb) + 1
        /\ \A i \in 1 .. Count(kb) : owed'[i] = rest[i]
        /\ owed'[Len(owed')] = key
    BY <1>1, <1>2, <1>3, <1>4
  <1>6. InTurn(kb', uart', owed')
    BY <1>1, <1>2, <1>3, <1>4, <1>5 DEF InTurn
  <1> QED
    BY <1>1, <1>2, <1>6 DEF Keys, key

(* A key a program writes to the ring comes before one in the serial port. *)
LEMMA StuffKept ==
  ASSUME Keys, ProgramStuffs
  PROVE  Keys'
PROOF
  <1> DEFINE key  == typed + 1
             rest == SubSeq(owed, 1, Len(owed) - Len(uart))
             e    == Enqueue(kb, key)
  <1>1. /\ IsRing(kb) /\ Count(kb) \in Nat /\ typed \in Nat
        /\ uart \in Seq(Nat) /\ Len(uart) <= 1
        /\ owed \in Seq(Nat) /\ Len(owed) = Count(kb) + Len(uart)
        /\ \A i \in 1 .. Count(kb) : owed[i] = kb.ring[Wrap(kb.head + i - 1)]
    BY CountLemma, WrapLemma DEF Keys, InTurn
  <1>2. /\ Wrap(kb.tail + 1) # kb.head /\ kb' = e /\ typed' = key
        /\ owed' = rest \o <<key>> \o uart /\ UNCHANGED <<uart, given>>
    BY DEF ProgramStuffs
  <1>3. rest = [i \in 1 .. Count(kb) |-> owed[i]]
    BY <1>1
  <1>4. /\ rest \in Seq(Nat) /\ Len(rest) = Count(kb)
        /\ \A i \in 1 .. Count(kb) : rest[i] = owed[i]
    BY <1>1, <1>3
  <1> HIDE DEF rest
  <1>5. <<key>> \in Seq(Nat) /\ Len(<<key>>) = 1 /\ <<key>>[1] = key /\ key \in Nat
    BY <1>1
  <1>6. /\ IsRing(e) /\ e.head = kb.head /\ Count(e) = Count(kb) + 1
        /\ \A i \in 1 .. Count(kb) :
             e.ring[Wrap(e.head + i - 1)] = kb.ring[Wrap(kb.head + i - 1)]
        /\ e.ring[Wrap(e.head + Count(kb))] = key
    BY <1>1, <1>2, EnqueueLemma
  <1> HIDE DEF key, e
  <1>7. /\ owed' \in Seq(Nat) /\ Len(owed') = Count(kb) + 1 + Len(uart)
        /\ \A i \in 1 .. Count(kb) : owed'[i] = rest[i]
        /\ owed'[Count(kb) + 1] = key
        /\ \A i \in 1 .. Len(uart) : owed'[Count(kb) + 1 + i] = uart[i]
    <2> DEFINE front == rest \o <<key>>
    <2>1. /\ front \in Seq(Nat) /\ Len(front) = Count(kb) + 1
          /\ \A i \in 1 .. Count(kb) : front[i] = rest[i]
          /\ front[Count(kb) + 1] = key
      BY <1>1, <1>4, <1>5
    <2> HIDE DEF front
    <2>2. owed' = front \o uart
      BY <1>2 DEF front
    <2>3. Len(uart) \in Nat
      BY <1>1, OneKey
    <2>4. /\ owed' \in Seq(Nat) /\ Len(owed') = Len(front) + Len(uart)
          /\ \A i \in 1 .. Len(front) + Len(uart) :
               owed'[i] = IF i <= Len(front) THEN front[i] ELSE uart[i - Len(front)]
      BY <1>1, <2>1, <2>2, ConcatProperties
    <2>5. \A i \in 1 .. Count(kb) + 1 : owed'[i] = front[i]
      BY <1>1, <2>1, <2>3, <2>4
    <2>6. ASSUME NEW i \in 1 .. Len(uart) PROVE owed'[Count(kb) + 1 + i] = uart[i]
      <3> DEFINE j == Count(kb) + 1 + i
      <3>1. /\ j \in 1 .. Len(front) + Len(uart)
            /\ ~(j <= Len(front)) /\ j - Len(front) = i
        BY <1>1, <2>1, <2>3
      <3> HIDE DEF j
      <3>2. owed'[j] = uart[i]
        BY <2>4, <3>1
      <3> QED
        BY <3>2 DEF j
    <2> QED
      BY <1>1, <2>1, <2>3, <2>4, <2>5, <2>6
  <1>8. \A i \in 1 .. Count(e) : owed'[i] = e.ring[Wrap(e.head + i - 1)]
    <2> SUFFICES ASSUME NEW i \in 1 .. Count(e)
                 PROVE  owed'[i] = e.ring[Wrap(e.head + i - 1)]
      OBVIOUS
    <2>1. CASE i = Count(kb) + 1
      <3>1. e.head + i - 1 = e.head + Count(kb)
        <4>1. e.head \in Nat
          BY <1>6, WrapLemma DEF IsRing
        <4> QED
          BY <1>1, <2>1, <4>1
      <3> QED
        BY <1>6, <1>7, <2>1, <3>1
    <2>2. CASE i # Count(kb) + 1
      <3>1. i \in 1 .. Count(kb)
        BY <1>1, <1>6, <2>2
      <3> QED
        BY <1>1, <1>4, <1>6, <1>7, <3>1
    <2> QED
      BY <2>1, <2>2
  <1>9. ASSUME Len(uart) = 1 PROVE owed'[Len(owed')] = uart[1]
    BY <1>1, <1>7, <1>9
  <1>10. InTurn(kb', uart', owed')
    BY <1>1, <1>2, <1>6, <1>7, <1>8, <1>9 DEF InTurn
  <1> QED
    BY <1>2, <1>5, <1>10 DEF Keys

LEMMA FlushKept ==
  ASSUME Keys, ProgramFlushes
  PROVE  Keys'
PROOF
  <1> DEFINE k == [kb EXCEPT !.head = kb.tail]
  <1>1. IsRing(kb) /\ uart \in Seq(Nat) /\ Len(uart) <= 1
    BY DEF Keys, InTurn
  <1>2. kb' = k /\ owed' = uart /\ UNCHANGED <<uart, typed, given>>
    BY DEF ProgramFlushes
  <1>3. k = [ring |-> kb.ring, head |-> kb.tail, tail |-> kb.tail]
    <2>1. kb = [ring |-> kb.ring, head |-> kb.head, tail |-> kb.tail]
      BY <1>1 DEF IsRing
    <2> QED
      BY <2>1
  <1>4. IsRing(k)
    BY <1>1, <1>3 DEF IsRing
  <1>5. Count(k) = 0
    <2>1. ~Nonempty(k)
      BY <1>3 DEF Nonempty
    <2> QED
      BY <1>4, <2>1, CountLemma, WrapLemma
  <1> HIDE DEF k
  <1>6. InTurn(k, uart, uart)
    BY <1>1, <1>4, <1>5 DEF InTurn
  <1> QED
    BY <1>2, <1>6 DEF Keys

LEMMA KeysKept == Keys /\ [Next]_vars => Keys'
PROOF
  <1> SUFFICES ASSUME Keys, [Next]_vars PROVE Keys'
    OBVIOUS
  <1>same. ASSUME UNCHANGED keyVars PROVE Keys'
    BY <1>same DEF Keys, InTurn, IsRing, Count, keyVars
  <1>1. CASE Service
    <2> DEFINE g  == frame.req.regs
               fn == Function(vector, g.ah)
    <2>1. Perform(fn, g)
      BY <1>1 DEF Service
    <2> HIDE DEF fn, g
    <2>2. GetKey \/ PeekKey \/ UNCHANGED keyVars
      BY <2>1 DEF Perform, keyVars
    <2> QED
      BY <2>2, <1>same, GetKept, PeekKept
  <1>2. CASE KeyArrives
    BY <1>2, ArrivalKept
  <1>3. CASE ProgramStuffs
    BY <1>3, StuffKept
  <1>4. CASE ProgramFlushes
    BY <1>4, FlushKept
  <1>5. CASE (\E r \in Calls : Call(r)) \/ StoreVector \/ SaveFrame \/ Return \/ LoadFrame
    BY <1>5, <1>same DEF Call, StoreVector, SaveFrame, Return, LoadFrame
  <1>6. CASE TimerFires \/ Interrupt \/ Int08 \/ HookEnables \/ HookReturns
    BY <1>6, <1>same DEF TimerFires, Interrupt, Int08, HookEnables, HookReturns
  <1>7. CASE Second \/ LinuxTakesOver
    BY <1>7, <1>same DEF Second, LinuxTakesOver
  <1>8. CASE UNCHANGED vars
    BY <1>8, <1>same DEF vars
  <1> QED
    BY <1>1, <1>2, <1>3, <1>4, <1>5, <1>6, <1>7, <1>8 DEF Next

(* Keys are fetched in the order they came, each of them once, and a key   *)
(* that is looked at is the next one fetched: for every size of the ring   *)
(* and number of keys, whatever programs write to it or drop, and with any *)
(* nesting of calls.                                                       *)
THEOREM KeysOrdered == Spec => []KeysInOrder
PROOF
  <1>1. Init => Keys
    <2> SUFFICES ASSUME Init PROVE Keys
      OBVIOUS
    <2>1. /\ kb = EmptyRing /\ uart = <<>> /\ owed = <<>> /\ typed = 0
          /\ given = [key |-> 0, due |-> 0]
      BY DEF Init
    <2>2. IsRing(kb)
      BY <2>1, WrapLemma DEF EmptyRing, IsRing
    <2>3. Count(kb) = 0
      <3>1. ~Nonempty(kb)
        BY <2>1 DEF Nonempty, EmptyRing
      <3> QED
        BY <2>2, <3>1, CountLemma, WrapLemma
    <2>4. <<>> \in Seq(Nat) /\ Len(<<>>) = 0
      OBVIOUS
    <2>5. InTurn(kb, uart, owed)
      BY <2>1, <2>2, <2>3, <2>4 DEF InTurn
    <2> QED
      BY <2>1, <2>5 DEF Keys
  <1>2. Keys => KeysInOrder
    <2> SUFFICES ASSUME Keys PROVE InRing \o uart = owed
      BY DEF Keys, KeysInOrder
    <2> DEFINE n == Count(kb)
    <2>1. /\ n \in Nat /\ uart \in Seq(Nat) /\ Len(uart) <= 1
          /\ owed \in Seq(Nat) /\ Len(owed) = n + Len(uart)
          /\ \A i \in 1 .. n : owed[i] = kb.ring[Wrap(kb.head + i - 1)]
          /\ Len(uart) = 1 => owed[Len(owed)] = uart[1]
      BY CountLemma, WrapLemma DEF Keys, InTurn
    <2>2. InRing = [i \in 1 .. n |-> kb.ring[Wrap(kb.head + i - 1)]]
      BY DEF InRing, Count, Wrap
    <2> HIDE DEF n
    <2>3. InRing \in Seq(Nat) /\ Len(InRing) = n /\ \A i \in 1 .. n : InRing[i] = owed[i]
      <3>1. \A i \in 1 .. n : i \in 1 .. Len(owed)
        BY <2>1, OneKey
      <3>2. \A i \in 1 .. n : owed[i] \in Nat
        BY <2>1, <3>1, ElementOfSeq
      <3>3. InRing = [i \in 1 .. n |-> owed[i]]
        BY <2>1, <2>2
      <3> QED
        BY <2>1, <3>2, <3>3, IsASeq
    <2>4. /\ InRing \o uart \in Seq(Nat) /\ Len(InRing \o uart) = Len(owed)
          /\ \A i \in 1 .. Len(owed) : (InRing \o uart)[i] = owed[i]
      <3> DEFINE all == InRing \o uart
      <3>1. /\ all \in Seq(Nat) /\ Len(all) = n + Len(uart)
            /\ \A i \in 1 .. n : all[i] = InRing[i]
            /\ \A i \in 1 .. Len(uart) : all[n + i] = uart[i]
        BY <2>1, <2>3
      <3> HIDE DEF all
      <3>2. ASSUME NEW i \in 1 .. Len(owed) PROVE all[i] = owed[i]
        <4>1. CASE i \in 1 .. n
          BY <2>3, <3>1, <4>1
        <4>2. CASE i \notin 1 .. n
          <5>1. Len(uart) \in {0, 1}
            BY <2>1, OneKey
          <5>2. Len(uart) = 1 /\ i = n + 1 /\ i = Len(owed)
            BY <2>1, <4>2, <5>1
          <5> QED
            BY <2>1, <3>1, <5>2
        <4> QED
          BY <4>1, <4>2
      <3> QED
        BY <2>1, <3>1, <3>2 DEF all
    <2> QED
      BY <2>1, <2>4, SeqEqual
  <1> QED
    BY <1>1, <1>2, KeysKept, PTL DEF Spec

-----------------------------------------------------------------------------
(* The clock.  A part of it that is sure has its time in the registers, in *)
(* 24-hour BCD; until the first call the registers may be in any form, but *)
(* the chip keeps a time.                                                  *)
TimeShown ==
  /\ now.sec \in 0 .. 59 /\ now.min \in 0 .. 59 /\ now.hour \in 0 .. 23
  /\ reg.sec = BinToBcd(now.sec) /\ reg.min = BinToBcd(now.min)
  /\ reg.hour = BinToBcd(now.hour)

DateShown ==
  /\ now.day \in 1 .. 31 /\ now.mon \in 1 .. 12 /\ now.year \in 0 .. 99
  /\ reg.day = BinToBcd(now.day) /\ reg.mon = BinToBcd(now.mon)
  /\ reg.year = BinToBcd(now.year)

IsMoment(t) ==
  /\ t.sec \in 0 .. 59 /\ t.min \in 0 .. 59 /\ t.hour \in 0 .. 23
  /\ t.day \in 1 .. 31 /\ t.mon \in 1 .. 12 /\ t.year \in 0 .. 99

Untouched ==
  /\ mode \in [set : BOOLEAN, binary : BOOLEAN, h24 : BOOLEAN]
  /\ IsMoment(now)
  /\ \A f \in Fields : reg[f] \in Nat

ClockInv ==
  /\ "time" \in sure \/ "date" \in sure => mode = Sane
  /\ "time" \in sure => TimeShown
  /\ "date" \in sure => DateShown
  /\ calls = 0 => Untouched
  /\ ClockKept

LEMMA FieldsLemma ==
  /\ Fields = {"sec", "min", "hour", "day", "mon", "year"}
  /\ Part["time"] = {"sec", "min", "hour"}
  /\ Part["date"] = {"day", "mon", "year"}
PROOF
  BY DEF Fields, Part

(* BCD and back.                                                           *)
LEMMA BcdLemma ==
  ASSUME NEW v \in 0 .. 99
  PROVE  /\ BcdToBin(BinToBcd(v)) = v /\ BinToBcd(v) \in 0 .. 153
         /\ BinToBcd(v) % 16 <= 9 /\ BinToBcd(v) \div 16 <= 9
         /\ v <= 23 => BinToBcd(v) <= 41
PROOF
  BY SMTT(20) DEF BcdToBin, BinToBcd

Byte == 0 .. 255

LEMMA ByteLemma ==
  ASSUME NEW b \in Byte, RtcDecode(b, Sane) # Bad
  PROVE  BinToBcd(BcdToBin(b)) = b /\ BcdToBin(b) \in 0 .. 99
PROOF
  <1>1. b % 16 <= 9 /\ b \div 16 <= 9
    BY DEF RtcDecode, Sane, Byte
  <1> QED
    BY <1>1, SMTT(20) DEF BcdToBin, BinToBcd, Byte

LEMMA SaneLemma ==
  ASSUME NEW f, NEW v
  PROVE  Encode(f, v, Sane) = BinToBcd(v)
PROOF
  BY DEF Encode, Sane

(* In any of the forms a register may have, the driver decodes what the    *)
(* chip has encoded.                                                       *)
LEMMA DecodeLemma ==
  ASSUME NEW m \in [set : BOOLEAN, binary : BOOLEAN, h24 : BOOLEAN]
  PROVE  /\ \A f \in Fields \ {"hour"}, v \in 0 .. 99 :
              RtcDecode(Encode(f, v, m), m) = v
         /\ \A v \in 0 .. 23 : RtcDecodeHour(Encode("hour", v, m), m) = v
PROOF
  <1>1. ASSUME NEW f \in Fields \ {"hour"}, NEW v \in 0 .. 99
        PROVE  RtcDecode(Encode(f, v, m), m) = v
    <2>1. CASE m.binary
      BY <2>1 DEF RtcDecode, Encode
    <2>2. CASE ~m.binary
      <3>1. Encode(f, v, m) = BinToBcd(v)
        BY <2>2 DEF Encode
      <3> QED
        <4> DEFINE b == BinToBcd(v)
        <4>1. b \in 0 .. 153 /\ b % 16 <= 9 /\ b \div 16 <= 9 /\ BcdToBin(b) = v
          BY BcdLemma
        <4> HIDE DEF b
        <4>2. RtcDecode(b, m) = v
          BY <2>2, <4>1 DEF RtcDecode
        <4> QED
          BY <3>1, <4>2 DEF b
    <2> QED
      BY <2>1, <2>2
  <1>2. ASSUME NEW v \in 0 .. 23
        PROVE  RtcDecodeHour(Encode("hour", v, m), m) = v
    <2>1. CASE m.h24 /\ m.binary
      <3>1. Encode("hour", v, m) = v /\ v % 128 = v /\ RtcDecode(v % 128, m) = v
        BY <2>1 DEF Encode, RtcDecode
      <3> QED
        BY <2>1, <3>1 DEF RtcDecodeHour
    <2>2. CASE m.h24 /\ ~m.binary
      <3> DEFINE b == BinToBcd(v)
      <3>1. Encode("hour", v, m) = b
        BY <2>2 DEF Encode
      <3>2. b \in 0 .. 153 /\ b <= 41 /\ b % 16 <= 9 /\ b \div 16 <= 9 /\ BcdToBin(b) = v
        BY BcdLemma
      <3> HIDE DEF b
      <3>3. b % 128 = b /\ RtcDecode(b % 128, m) = v
        BY <2>2, <3>2 DEF RtcDecode
      <3> QED
        BY <2>2, <3>1, <3>3 DEF RtcDecodeHour
    <2>3. CASE ~m.h24
      <3> DEFINE h    == IF v % 12 = 0 THEN 12 ELSE v % 12
                 code == IF m.binary THEN h ELSE BinToBcd(h)
                 late == IF v >= 12 THEN 128 ELSE 0
      <3>1. Encode("hour", v, m) = code + late
        BY <2>3 DEF Encode
      <3>2. h \in 1 .. 12
        OBVIOUS
      <3>3. v = IF h = 12 THEN (IF v >= 12 THEN 12 ELSE 0) ELSE IF v >= 12 THEN h + 12 ELSE h
        OBVIOUS
      <3> HIDE DEF h
      <3>4. code \in 0 .. 41 /\ RtcDecode(code, m) = h
        <4>1. CASE m.binary
          BY <3>2, <4>1 DEF RtcDecode
        <4>2. CASE ~m.binary
          <5> DEFINE b == BinToBcd(h)
          <5>1. /\ b \in 0 .. 153 /\ b <= 41 /\ b % 16 <= 9 /\ b \div 16 <= 9
                /\ BcdToBin(b) = h
            <6>1. h \in 0 .. 99 /\ h <= 23
              BY <3>2
            <6> QED
              BY <6>1, BcdLemma
          <5> HIDE DEF b
          <5>2. RtcDecode(b, m) = h
            BY <4>2, <5>1 DEF RtcDecode
          <5> QED
            BY <4>2, <5>1, <5>2 DEF b
        <4> QED
          BY <4>1, <4>2
      <3> HIDE DEF code
      <3>5. (code + late) % 128 = code /\ (code + late >= 128 <=> v >= 12)
        BY <3>4
      <3>6. RtcDecodeHour(code + late, m) =
              LET h12 == IF h = 12 THEN 0 ELSE h
              IN  IF v >= 12 /\ h12 < 12 THEN h12 + 12 ELSE h12
        BY <2>3, <3>2, <3>4, <3>5 DEF RtcDecodeHour, Bad
      <3> QED
        BY <3>1, <3>2, <3>3, <3>6
    <2> QED
      BY <2>1, <2>2, <2>3
  <1> QED
    BY <1>1, <1>2

(* A second later the chip keeps a time still, part by part.               *)
LEMMA AdvanceLemma ==
  ASSUME NEW t
  PROVE  LET u == Advance(t)
         IN  /\ t.sec \in 0 .. 59 /\ t.min \in 0 .. 59 /\ t.hour \in 0 .. 23
                  => u.sec \in 0 .. 59 /\ u.min \in 0 .. 59 /\ u.hour \in 0 .. 23
             /\ t.day \in 1 .. 31 /\ t.mon \in 1 .. 12 /\ t.year \in 0 .. 99
                  => u.day \in 1 .. 31 /\ u.mon \in 1 .. 12 /\ u.year \in 0 .. 99
PROOF
  BY DEF Advance

LEMMA EncodeLemma ==
  ASSUME NEW m \in [set : BOOLEAN, binary : BOOLEAN, h24 : BOOLEAN],
         NEW f \in Fields, NEW v \in 0 .. 99
  PROVE  Encode(f, v, m) \in Nat
PROOF
  <1> DEFINE h == IF v % 12 = 0 THEN 12 ELSE v % 12
  <1>1. h \in 0 .. 99 /\ BinToBcd(h) \in 0 .. 153 /\ BinToBcd(v) \in 0 .. 153
    <2>1. h \in 0 .. 99
      OBVIOUS
    <2> QED
      BY <2>1, BcdLemma
  <1> DEFINE p == BinToBcd(h)
             q == BinToBcd(v)
  <1>2. p \in Nat /\ q \in Nat /\ h \in Nat
    BY <1>1
  <1>3. Encode(f, v, m) =
          IF f = "hour" /\ ~m.h24
          THEN (IF m.binary THEN h ELSE p) + (IF v >= 12 THEN 128 ELSE 0)
          ELSE IF m.binary THEN v ELSE q
    BY DEF Encode
  <1> HIDE DEF h, p, q
  <1> QED
    BY <1>2, <1>3

(* A second passes.                                                        *)
LEMMA SecondKept ==
  ASSUME ClockInv, UpdateEnds, UNCHANGED calls
  PROVE  ClockInv'
PROOF
  <1>1. /\ reg' = [f \in Fields |-> Advanced(f)] /\ now' = Advance(now)
        /\ UNCHANGED <<mode, sure, heard>>
    BY DEF UpdateEnds
  <1>2. \A f \in Fields : reg'[f] = IF Holds(f) THEN Encode(f, now'[f], mode) ELSE reg[f]
    BY <1>1 DEF Advanced
  <1>3. ASSUME "time" \in sure PROVE TimeShown'
    <2>1. /\ mode = Sane /\ now.sec \in 0 .. 59 /\ now.min \in 0 .. 59 /\ now.hour \in 0 .. 23
          /\ reg.sec = BinToBcd(now.sec) /\ reg.min = BinToBcd(now.min)
          /\ reg.hour = BinToBcd(now.hour)
      BY <1>3 DEF ClockInv, TimeShown
    <2>2. Holds("sec") /\ Holds("min") /\ Holds("hour")
      BY <2>1, SaneLemma DEF Holds
    <2>3. /\ reg'.sec = BinToBcd(now'.sec) /\ reg'.min = BinToBcd(now'.min)
          /\ reg'.hour = BinToBcd(now'.hour)
      BY <1>2, <2>1, <2>2, SaneLemma, FieldsLemma
    <2> QED
      BY <1>1, <2>1, <2>3, AdvanceLemma DEF TimeShown
  <1>4. ASSUME "date" \in sure PROVE DateShown'
    <2>1. /\ mode = Sane /\ now.day \in 1 .. 31 /\ now.mon \in 1 .. 12 /\ now.year \in 0 .. 99
          /\ reg.day = BinToBcd(now.day) /\ reg.mon = BinToBcd(now.mon)
          /\ reg.year = BinToBcd(now.year)
      BY <1>4 DEF ClockInv, DateShown
    <2>2. Holds("day") /\ Holds("mon") /\ Holds("year")
      BY <2>1, SaneLemma DEF Holds
    <2>3. /\ reg'.day = BinToBcd(now'.day) /\ reg'.mon = BinToBcd(now'.mon)
          /\ reg'.year = BinToBcd(now'.year)
      BY <1>2, <2>1, <2>2, SaneLemma, FieldsLemma
    <2> QED
      BY <1>1, <2>1, <2>3, AdvanceLemma DEF DateShown
  <1>5. ASSUME calls = 0 PROVE Untouched'
    <2>1. Untouched
      BY <1>5 DEF ClockInv
    <2>2. IsMoment(now')
      BY <1>1, <2>1, AdvanceLemma DEF Untouched, IsMoment
    <2>3. \A f \in Fields : now'[f] \in 0 .. 99
      BY <2>2, FieldsLemma DEF IsMoment
    <2>4. \A f \in Fields : reg'[f] \in Nat
      BY <1>2, <2>1, <2>3, EncodeLemma DEF Untouched
    <2> QED
      BY <1>1, <2>1, <2>2, <2>4 DEF Untouched
  <1>6. ClockKept'
    BY <1>1 DEF ClockInv, ClockKept
  <1> QED
    BY <1>1, <1>3, <1>4, <1>5, <1>6 DEF ClockInv

(* The services that read: a part that is sure is told as it is.           *)
LEMMA ReadTimeKept ==
  ASSUME ClockInv, ReadTime, calls > 0, UNCHANGED calls
  PROVE  ClockInv'
PROOF
  <1> DEFINE t == [f \in Part.time |-> BcdToBin(IF f = "hour" THEN reg[f] % 128 ELSE reg[f])]
             said == IF broken \/ t.sec > 59 \/ t.min > 59 \/ t.hour > 23 THEN Noon ELSE t
  <1>1. /\ heard' = [part |-> Part["time"], said |-> said, truth |-> Pick(now, "time"),
                     sure |-> "time" \in sure /\ ~broken]
        /\ mode' = mode \/ mode' = Sane
        /\ UNCHANGED <<reg, now, sure>>
    BY DEF ReadTime, Hear, ForceSaneMode
  <1>2. ASSUME "time" \in sure, ~broken
        PROVE  \A f \in Part["time"] : said[f] = now[f]
    <2>1. TimeShown
      BY <1>2 DEF ClockInv
    <2>2. t.sec = now.sec /\ t.min = now.min
      <3>1. /\ now.sec \in 0 .. 99 /\ reg.sec = BinToBcd(now.sec)
            /\ now.min \in 0 .. 99 /\ reg.min = BinToBcd(now.min)
        BY <2>1 DEF TimeShown
      <3>2. BcdToBin(reg.sec) = now.sec /\ BcdToBin(reg.min) = now.min
        BY <3>1, BcdLemma
      <3> QED
        BY <3>2 DEF Part
    <2>3. t.hour = now.hour
      <3>1. /\ now.hour \in 0 .. 99 /\ now.hour <= 23 /\ reg.hour = BinToBcd(now.hour)
        BY <2>1 DEF TimeShown
      <3>2. reg.hour \in 0 .. 153 /\ reg.hour <= 41 /\ BcdToBin(reg.hour) = now.hour
        BY <3>1, BcdLemma
      <3>3. reg.hour % 128 = reg.hour
        BY <3>2
      <3> QED
        BY <3>2, <3>3 DEF Part
    <2> HIDE DEF t
    <2>4. said = t
      BY <1>2, <2>1, <2>2, <2>3 DEF TimeShown
    <2> QED
      BY <2>2, <2>3, <2>4, FieldsLemma
  <1> HIDE DEF said
  <1>3. \A f \in Part["time"] : Pick(now, "time")[f] = now[f]
    BY DEF Pick
  <1>4. ClockKept'
    BY <1>1, <1>2, <1>3 DEF ClockKept
  <1> QED
    BY <1>1, <1>4 DEF ClockInv, TimeShown, DateShown

LEMMA ReadDateKept ==
  ASSUME ClockInv, ReadDate, calls > 0, UNCHANGED calls
  PROVE  ClockInv'
PROOF
  <1> DEFINE t == [f \in Part.date |-> BcdToBin(reg[f])]
             said == IF broken \/ t.day \notin 1 .. 31 \/ t.mon \notin 1 .. 12 THEN EighthOfMay ELSE t
  <1>1. /\ heard' = [part |-> Part["date"], said |-> said, truth |-> Pick(now, "date"),
                     sure |-> "date" \in sure /\ ~broken]
        /\ mode' = mode \/ mode' = Sane
        /\ UNCHANGED <<reg, now, sure>>
    BY DEF ReadDate, Hear, ForceSaneMode
  <1>2. ASSUME "date" \in sure, ~broken
        PROVE  \A f \in Part["date"] : said[f] = now[f]
    <2>1. DateShown
      BY <1>2 DEF ClockInv
    <2>2. t.day = now.day /\ t.mon = now.mon /\ t.year = now.year
      <3>1. /\ now.day \in 0 .. 99 /\ reg.day = BinToBcd(now.day)
            /\ now.mon \in 0 .. 99 /\ reg.mon = BinToBcd(now.mon)
            /\ now.year \in 0 .. 99 /\ reg.year = BinToBcd(now.year)
        BY <2>1 DEF DateShown
      <3>2. /\ BcdToBin(reg.day) = now.day /\ BcdToBin(reg.mon) = now.mon
            /\ BcdToBin(reg.year) = now.year
        BY <3>1, BcdLemma
      <3> QED
        BY <3>2 DEF Part
    <2> HIDE DEF t
    <2>3. said = t
      BY <1>2, <2>1, <2>2 DEF DateShown
    <2> QED
      BY <2>2, <2>3, FieldsLemma
  <1> HIDE DEF said
  <1>3. \A f \in Part["date"] : Pick(now, "date")[f] = now[f]
    BY DEF Pick
  <1>4. ClockKept'
    BY <1>1, <1>2, <1>3 DEF ClockKept
  <1> QED
    BY <1>1, <1>4 DEF ClockInv, TimeShown, DateShown

(* The services that set: a part written in BCD is sure from then on, one  *)
(* that is not is no longer.                                               *)
LEMMA SetTimeKept ==
  ASSUME ClockInv, NEW bytes \in [hour : Byte, min : Byte, sec : Byte],
         SetTime(bytes), calls > 0, UNCHANGED calls
  PROVE  ClockInv'
PROOF
  <1> DEFINE b == [bytes EXCEPT !.hour = @ % 128]
  <1>0. b.hour \in Byte /\ b.min \in Byte /\ b.sec \in Byte
    BY DEF Byte
  <1> HIDE DEF b
  <1>1. CASE UNCHANGED chip
    BY <1>1 DEF chip, ClockInv, ClockKept, TimeShown, DateShown
  <1>2. CASE ~UNCHANGED chip
    <2>1. /\ Write("time", b) /\ ~(BcdToBin(b.hour) > 23) /\ ~(BcdToBin(b.min) > 59)
          /\ ~(BcdToBin(b.sec) > 59)
      BY <1>2 DEF SetTime, b
    <2>2. /\ mode' = Sane /\ UNCHANGED heard
          /\ reg' = [f \in Fields |-> IF f \in Part["time"] THEN b[f] ELSE reg[f]]
          /\ now' = [f \in Fields |-> IF f \in Part["time"] THEN BcdToBin(b[f]) ELSE now[f]]
          /\ sure' = IF \A f \in Part["time"] : RtcDecode(b[f], Sane) # Bad
                     THEN sure \union {"time"} ELSE sure \ {"time"}
      BY <2>1 DEF Write, ForceSaneMode
    <2>3. /\ reg'.sec = b.sec /\ reg'.min = b.min /\ reg'.hour = b.hour
          /\ now'.sec = BcdToBin(b.sec) /\ now'.min = BcdToBin(b.min)
          /\ now'.hour = BcdToBin(b.hour)
          /\ reg'.day = reg.day /\ reg'.mon = reg.mon /\ reg'.year = reg.year
          /\ now'.day = now.day /\ now'.mon = now.mon /\ now'.year = now.year
      BY <2>2, FieldsLemma
    <2>4. ASSUME "time" \in sure' PROVE TimeShown'
      <3>1. \A f \in Part["time"] : RtcDecode(b[f], Sane) # Bad
        BY <2>2, <2>4
      <3>2. /\ RtcDecode(b.sec, Sane) # Bad /\ RtcDecode(b.min, Sane) # Bad
            /\ RtcDecode(b.hour, Sane) # Bad
        BY <3>1, FieldsLemma
      <3>3. /\ reg'.sec = BinToBcd(now'.sec) /\ reg'.min = BinToBcd(now'.min)
            /\ reg'.hour = BinToBcd(now'.hour)
            /\ now'.sec \in 0 .. 99 /\ now'.min \in 0 .. 99 /\ now'.hour \in 0 .. 99
        BY <1>0, <2>3, <3>2, ByteLemma
      <3>4. now'.sec \in 0 .. 59 /\ now'.min \in 0 .. 59 /\ now'.hour \in 0 .. 23
        BY <2>1, <2>3, <3>3
      <3> QED
        BY <3>3, <3>4 DEF TimeShown
    <2>5. ASSUME "date" \in sure' PROVE DateShown'
      <3>1. "date" \in sure
        BY <2>2, <2>5
      <3> QED
        BY <2>3, <3>1 DEF ClockInv, DateShown
    <2>6. ClockKept'
      BY <2>2 DEF ClockInv, ClockKept
    <2> QED
      BY <2>2, <2>4, <2>5, <2>6 DEF ClockInv
  <1> QED
    BY <1>1, <1>2

LEMMA SetDateKept ==
  ASSUME ClockInv, NEW bytes \in [year : Byte, mon : Byte, day : Byte],
         SetDate(bytes), calls > 0, UNCHANGED calls
  PROVE  ClockInv'
PROOF
  <1>1. CASE UNCHANGED chip
    BY <1>1 DEF chip, ClockInv, ClockKept, TimeShown, DateShown
  <1>2. CASE ~UNCHANGED chip
    <2>1. /\ Write("date", bytes) /\ BcdToBin(bytes.mon) \in 1 .. 12
          /\ BcdToBin(bytes.day) \in 1 .. 31
      BY <1>2 DEF SetDate
    <2>2. /\ mode' = Sane /\ UNCHANGED heard
          /\ reg' = [f \in Fields |-> IF f \in Part["date"] THEN bytes[f] ELSE reg[f]]
          /\ now' = [f \in Fields |-> IF f \in Part["date"] THEN BcdToBin(bytes[f]) ELSE now[f]]
          /\ sure' = IF \A f \in Part["date"] : RtcDecode(bytes[f], Sane) # Bad
                     THEN sure \union {"date"} ELSE sure \ {"date"}
      BY <2>1 DEF Write, ForceSaneMode
    <2>3. /\ reg'.day = bytes.day /\ reg'.mon = bytes.mon /\ reg'.year = bytes.year
          /\ now'.day = BcdToBin(bytes.day) /\ now'.mon = BcdToBin(bytes.mon)
          /\ now'.year = BcdToBin(bytes.year)
          /\ reg'.sec = reg.sec /\ reg'.min = reg.min /\ reg'.hour = reg.hour
          /\ now'.sec = now.sec /\ now'.min = now.min /\ now'.hour = now.hour
      BY <2>2, FieldsLemma
    <2>4. ASSUME "date" \in sure' PROVE DateShown'
      <3>1. \A f \in Part["date"] : RtcDecode(bytes[f], Sane) # Bad
        BY <2>2, <2>4
      <3>2. /\ RtcDecode(bytes.day, Sane) # Bad /\ RtcDecode(bytes.mon, Sane) # Bad
            /\ RtcDecode(bytes.year, Sane) # Bad
        BY <3>1, FieldsLemma
      <3>3. /\ reg'.day = BinToBcd(now'.day) /\ reg'.mon = BinToBcd(now'.mon)
            /\ reg'.year = BinToBcd(now'.year)
            /\ now'.year \in 0 .. 99
        BY <2>3, <3>2, ByteLemma
      <3> QED
        BY <2>1, <2>3, <3>3 DEF DateShown
    <2>5. ASSUME "time" \in sure' PROVE TimeShown'
      <3>1. "time" \in sure
        BY <2>2, <2>5
      <3> QED
        BY <2>3, <3>1 DEF ClockInv, TimeShown
    <2>6. ClockKept'
      BY <2>2 DEF ClockInv, ClockKept
    <2> QED
      BY <2>2, <2>4, <2>5, <2>6 DEF ClockInv
  <1> QED
    BY <1>1, <1>2

(* The clock made ready for Linux: what the registers say in the form they *)
(* are in, as long as no update is under way.                              *)
LEMMA DecodedLemma ==
  ASSUME Untouched, \A f \in Fields : Holds(f)
  PROVE  LET t == Decoded(reg, mode)
         IN  DatetimeValid(t) /\ \A f \in Fields : t[f] = now[f]
PROOF
  <1> DEFINE t == Decoded(reg, mode)
  <1>1. /\ mode \in [set : BOOLEAN, binary : BOOLEAN, h24 : BOOLEAN] /\ IsMoment(now)
        /\ \A f \in Fields : reg[f] = Encode(f, now[f], mode)
    BY DEF Untouched, Holds
  <1>2. \A f \in Fields \ {"hour"} : now[f] \in 0 .. 99
    BY <1>1, FieldsLemma DEF IsMoment
  <1>3. ASSUME NEW f \in Fields PROVE t[f] = now[f]
    <2>1. CASE f = "hour"
      <3>1. t[f] = RtcDecodeHour(reg["hour"], mode)
        BY <1>3, <2>1 DEF Decoded
      <3>2. now["hour"] \in 0 .. 23 /\ reg["hour"] = Encode("hour", now["hour"], mode)
        BY <1>1, FieldsLemma DEF IsMoment
      <3>3. RtcDecodeHour(reg["hour"], mode) = now["hour"]
        BY <1>1, <3>2, DecodeLemma
      <3> QED
        BY <2>1, <3>1, <3>3
    <2>2. CASE f # "hour"
      <3>1. t[f] = RtcDecode(reg[f], mode)
        BY <1>3, <2>2 DEF Decoded
      <3>2. RtcDecode(reg[f], mode) = now[f]
        BY <1>1, <1>2, <1>3, <2>2, DecodeLemma
      <3> QED
        BY <3>1, <3>2
    <2> QED
      BY <2>1, <2>2
  <1> HIDE DEF t
  <1>4. /\ t.sec = now.sec /\ t.min = now.min /\ t.hour = now.hour
        /\ t.day = now.day /\ t.mon = now.mon /\ t.year = now.year
    BY <1>3, FieldsLemma
  <1>5. DatetimeValid(t)
    BY <1>1, <1>4 DEF IsMoment, DatetimeValid
  <1> QED
    BY <1>3, <1>5 DEF t

LEMMA DecodedNat ==
  ASSUME Untouched
  PROVE  \A f \in Fields : Decoded(reg, mode)[f] \in Nat
PROOF
  <1> SUFFICES ASSUME NEW f \in Fields PROVE Decoded(reg, mode)[f] \in Nat
    OBVIOUS
  <1>1. reg[f] \in Nat
    BY DEF Untouched
  <1>2. ASSUME NEW v \in Nat PROVE RtcDecode(v, mode) \in Nat
    BY DEF RtcDecode, Bad, BcdToBin
  <1>3. CASE f = "hour"
    <2>1. Decoded(reg, mode)[f] = RtcDecodeHour(reg[f], mode)
      BY <1>3 DEF Decoded
    <2>2. reg[f] % 128 \in Nat
      BY <1>1
    <2>3. RtcDecode(reg[f] % 128, mode) \in Nat
      BY <1>2, <2>2
    <2>4. RtcDecodeHour(reg[f], mode) \in Nat
      BY <2>3 DEF RtcDecodeHour
    <2> QED
      BY <2>1, <2>4
  <1>4. CASE f # "hour"
    BY <1>1, <1>2, <1>4 DEF Decoded
  <1> QED
    BY <1>3, <1>4

LEMMA PrepareKept ==
  ASSUME ClockInv, PrepareForLinux, calls = 0, calls' = 1
  PROVE  ClockInv'
PROOF
  <1>0. Untouched
    BY DEF ClockInv
  <1>1. CASE inUpdate
    <2>1. sure' = {}
      BY <1>1 DEF PrepareForLinux
    <2>2. PICK said : heard' = [part |-> Fields, said |-> said, truth |-> now',
                                sure |-> ~inUpdate]
      BY DEF PrepareForLinux
    <2>3. ~heard'.sure
      BY <1>1, <2>2
    <2> QED
      BY <2>1, <2>3 DEF ClockInv, ClockKept
  <1>2. CASE ~inUpdate
    <2> DEFINE t    == Decoded(reg, mode)
               kept == IF DatetimeValid(t) THEN t ELSE Start
               asIs == \A f \in Fields : Holds(f)
    <2>1. \A r \in Shown : r = [f \in Fields |-> reg[f]]
      BY <1>2 DEF Shown
    <2>2. Decoded([f \in Fields |-> reg[f]], mode) = t
      BY FieldsLemma DEF Decoded
    <2>3. /\ reg' = [f \in Fields |-> BinToBcd(kept[f])]
          /\ mode' = Sane
          /\ now' = IF asIs THEN now ELSE kept
          /\ heard' = [part |-> Fields, said |-> kept, truth |-> now', sure |-> ~inUpdate]
      BY <2>1, <2>2 DEF PrepareForLinux
    <2>4. asIs => \A f \in Fields : kept[f] = now[f]
      BY <1>0, DecodedLemma
    <2>5. \A f \in Fields : t[f] \in Nat
      BY <1>0, DecodedNat
    <2> HIDE DEF t
    <2>6. IsMoment(kept)
      <3>1. CASE DatetimeValid(t)
        BY <2>5, <3>1, FieldsLemma DEF DatetimeValid, IsMoment
      <3>2. CASE ~DatetimeValid(t)
        BY <3>2 DEF Start, IsMoment
      <3> QED
        BY <3>1, <3>2
    <2> HIDE DEF kept
    <2>7. \A f \in Fields : now'[f] = kept[f]
      BY <2>3, <2>4
    <2> HIDE DEF asIs
    <2>8. /\ now'.sec = kept.sec /\ now'.min = kept.min /\ now'.hour = kept.hour
          /\ now'.day = kept.day /\ now'.mon = kept.mon /\ now'.year = kept.year
      BY <2>7, FieldsLemma
    <2>9. /\ reg'.sec = BinToBcd(kept.sec) /\ reg'.min = BinToBcd(kept.min)
          /\ reg'.hour = BinToBcd(kept.hour) /\ reg'.day = BinToBcd(kept.day)
          /\ reg'.mon = BinToBcd(kept.mon) /\ reg'.year = BinToBcd(kept.year)
      BY <2>3, FieldsLemma
    <2>10. TimeShown' /\ DateShown'
      BY <2>6, <2>8, <2>9 DEF IsMoment, TimeShown, DateShown
    <2>11. ClockKept'
      BY <2>3, <2>7 DEF ClockKept
    <2> QED
      BY <2>3, <2>10, <2>11 DEF ClockInv
  <1> QED
    BY <1>1, <1>2

LEMMA ClockStep == IInv /\ Requests /\ ClockInv /\ [Next]_vars => ClockInv'
PROOF
  <1> SUFFICES ASSUME IInv, Requests, ClockInv, [Next]_vars PROVE ClockInv'
    OBVIOUS
  <1>0. calls \in Nat
    BY DEF IInv, Stack
  <1>same. ASSUME UNCHANGED chip, calls' = calls \/ calls' = calls + 1 PROVE ClockInv'
    BY <1>0, <1>same DEF chip, ClockInv, ClockKept, TimeShown, DateShown, Untouched, IsMoment
  <1>1. CASE Service
    <2> DEFINE g  == frame.req.regs
               fn == Function(vector, g.ah)
               time == [hour |-> g.ch, min |-> g.cl, sec |-> g.dh]
               date == [year |-> g.cl, mon |-> g.dh, day |-> g.dl]
    <2>1. calls > 0 /\ calls' = calls
      BY <1>1, TopContext DEF Service, IInv, Calling
    <2>2. Perform(fn, g) /\ g \in Registers
      BY <1>1 DEF Service, Requests, Fits
    <2> HIDE DEF fn, g
    <2>3. UNCHANGED chip \/ ReadTime \/ ReadDate \/ SetTime(time) \/ SetDate(date)
      BY <2>2 DEF Perform
    <2>4. time \in [hour : Byte, min : Byte, sec : Byte] /\ date \in [year : Byte, mon : Byte, day : Byte]
      BY <2>2 DEF Registers, Byte
    <2> HIDE DEF time, date
    <2> QED
      BY <2>1, <2>3, <2>4, <1>same, ReadTimeKept, ReadDateKept, SetTimeKept, SetDateKept
  <1>2. CASE Second
    <2>1. UNCHANGED calls
      BY <1>2 DEF Second, cpuVars
    <2>2. CASE UpdateBegins
      BY <2>1, <2>2 DEF UpdateBegins, ClockInv, ClockKept, TimeShown, DateShown,
                        Untouched, IsMoment
    <2>3. CASE UpdateEnds
      BY <2>1, <2>3, SecondKept
    <2> QED
      BY <1>2, <2>2, <2>3 DEF Second
  <1>3. CASE LinuxTakesOver
    BY <1>3, PrepareKept DEF LinuxTakesOver
  <1>4. CASE (\E r \in Calls : Call(r)) \/ StoreVector \/ SaveFrame \/ Return \/ LoadFrame
    BY <1>4, <1>same DEF Call, StoreVector, SaveFrame, Return, LoadFrame
  <1>5. CASE TimerFires \/ Interrupt \/ Int08 \/ HookEnables \/ HookReturns
    BY <1>5, <1>same DEF TimerFires, Interrupt, Int08, HookEnables, HookReturns
  <1>6. CASE KeyArrives \/ ProgramStuffs \/ ProgramFlushes
    BY <1>6, <1>same DEF KeyArrives, ProgramStuffs, ProgramFlushes, cpuVars
  <1>7. CASE UNCHANGED vars
    BY <1>7, <1>same DEF vars, cpuVars
  <1> QED
    BY <1>1, <1>2, <1>3, <1>4, <1>5, <1>6, <1>7 DEF Next

LEMMA ClockInitial == Init => ClockInv
PROOF
  <1> SUFFICES ASSUME Init PROVE ClockInv
    OBVIOUS
  <1>1. /\ mode \in Modes /\ now \in Times /\ heard = Silence
        /\ \/ reg = [f \in Fields |-> Encode(f, now[f], mode)]
           \/ reg = [f \in Fields |-> 255]
        /\ sure = IF mode = Sane /\ reg # [f \in Fields |-> 255] THEN {"time", "date"} ELSE {}
    BY DEF Init, ChipInit
  <1>2. /\ mode \in [set : BOOLEAN, binary : BOOLEAN, h24 : BOOLEAN]
        /\ now \in Moments
    BY <1>1, ClockAssumption
  <1>3. IsMoment(now)
    BY <1>2 DEF Moments, IsMoment
  <1>4. Untouched
    <2>1. \A f \in Fields : now[f] \in 0 .. 99
      BY <1>3, FieldsLemma DEF IsMoment
    <2>2. CASE reg = [f \in Fields |-> 255]
      BY <1>2, <1>3, <2>2 DEF Untouched
    <2>3. CASE reg = [f \in Fields |-> Encode(f, now[f], mode)]
      BY <1>2, <1>3, <2>1, <2>3, EncodeLemma DEF Untouched
    <2> QED
      BY <1>1, <2>2, <2>3
  <1>5. ASSUME sure # {} PROVE mode = Sane /\ TimeShown /\ DateShown
    <2>1. mode = Sane /\ reg = [f \in Fields |-> Encode(f, now[f], mode)]
      BY <1>1, <1>5
    <2>2. \A f \in Fields : reg[f] = BinToBcd(now[f])
      BY <2>1, SaneLemma
    <2>3. /\ reg.sec = BinToBcd(now.sec) /\ reg.min = BinToBcd(now.min)
          /\ reg.hour = BinToBcd(now.hour) /\ reg.day = BinToBcd(now.day)
          /\ reg.mon = BinToBcd(now.mon) /\ reg.year = BinToBcd(now.year)
      BY <2>2, FieldsLemma
    <2> QED
      BY <1>3, <2>1, <2>3 DEF IsMoment, TimeShown, DateShown
  <1>6. ClockKept
    BY <1>1 DEF ClockKept, Silence
  <1> QED
    BY <1>4, <1>5, <1>6 DEF ClockInv

(* An answer about a part of the clock that was set since, or was in       *)
(* 24-hour BCD from the start, is the time the chip keeps; and so is what  *)
(* the clock is told for Linux, in whatever form it was kept, when no      *)
(* update is under way: for all times and any number of seconds and calls. *)
THEOREM ClockTold == Spec => []ClockKept
PROOF
  <1> DEFINE Inv == IInv /\ Requests /\ ClockInv
  <1>1. Init => Inv
    BY Initial, RequestsInitial, ClockInitial
  <1>2. Inv /\ [Next]_vars => Inv'
    BY Inductive, RequestsKept, ClockStep
  <1>3. Inv => ClockKept
    BY DEF ClockInv
  <1> QED
    BY <1>1, <1>2, <1>3, PTL DEF Spec
=============================================================================
