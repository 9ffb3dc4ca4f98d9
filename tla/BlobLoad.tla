------------------------------ MODULE BlobLoad ------------------------------
(***************************************************************************)
(* blob_load: expanding a compressed payload from the ROM into memory, a   *)
(* block at a time, over a bus whose reads may fail.  Each block is copied *)
(* into a staging buffer of the shared heap until its CRC is right, then   *)
(* decoded.  While it works, the loader also polls the serial port for the *)
(* key that asks for maintenance mode.                                     *)
(*                                                                         *)
(* A CRC is taken to detect any change of the bytes it covers.             *)
(***************************************************************************)
EXTENDS Naturals, FiniteSets

CONSTANTS
  Payloads,    \* the ROM: records [known, crc, based, header, blocks, damaged, whole]
  Samples,     \* reads per byte of a stable read (11)
  RomTries,    \* tries to get the CRC of the whole payload right (32)
  BlockTries,  \* tries to get the CRC of a block right (64)
  FlakyTables, \* do reads of the header and the descriptors fail, too?
  HasContext,  \* is there a boot context to hold the maintenance request?
  MaxGlitches, \* bound: failing reads
  MaxLoads,    \* bound: calls of blob_load
  MaxKeys      \* bound: keys pressed

ASSUME LoadAssumption ==
  /\ \A p \in Payloads : p.blocks \in Nat /\ p.damaged \subseteq 1 .. p.blocks
  /\ Samples \in Nat \ {0} /\ RomTries \in Nat \ {0} /\ BlockTries \in Nat \ {0}
  /\ FlakyTables \in BOOLEAN /\ HasContext \in BOOLEAN
  /\ MaxGlitches \in Nat /\ MaxLoads \in Nat /\ MaxKeys \in Nat

VARIABLES
  pc,        \* where blob_load is; "idle" between calls
  payload,   \* the payload of the current or last call
  block,     \* the block being loaded, from 1
  retry,     \* the tries that failed so far
  aimed,     \* is the destination the one the payload is built for?
  placed,    \* has the descriptor told the right place to read from?
  misread,   \* failed reads of the header and the descriptors in this call
  stage,     \* the staging buffer: "none", or what its bytes are
  out,       \* what the destination holds, by block
  rc,        \* the result
  glitches,  \* reads that can still fail
  loads,     \* calls so far
  rx,        \* the character the serial port holds, or "none"
  keys,      \* keys pressed so far
  lastKey,   \* the last of them
  flag       \* SHARED_BOOT_FLAG_MAINTENANCE_REQUESTED

load     == <<payload, block, retry, aimed, placed, misread, stage, out, rc, loads>>
serial   == <<rx, keys, lastKey, flag>>
loadVars == <<pc, load, glitches, serial>>

(* A payload is [known: is it registered as BLZ4, crc: has the directory a *)
(* CRC for it, based: does its header name a load address, header: does it *)
(* pass the checks, blocks: how many, damaged: the blocks whose stored     *)
(* bytes are wrong, whole: does the CRC of the output apply (at most       *)
(* 512 KB)].                                                               *)
Intact(p) == p.known /\ p.header /\ p.damaged = {}

Glitch(n) == glitches >= n /\ glitches' = glitches - n

(* The header and the descriptors are read where they are needed, once     *)
(* each time and with no CRC over what was read.                           *)
Misread(n) == FlakyTables /\ Glitch(n) /\ misread' = misread + n

ReadRight == UNCHANGED <<glitches, misread>>

(* A stable read fails when more than half of the samples of a byte do,    *)
(* see StableRead.                                                         *)
FaultStableCost == 1
StableCost == Samples \div 2 + 1

FaultPoll == IF rx = "m" THEN rx' = "none" /\ UNCHANGED <<keys, lastKey, flag>>
             ELSE UNCHANGED serial

(* blob_check_maintenance_key and blob_set_maintenance_request: any        *)
(* character waiting is taken, and an m remembered in the boot context.    *)
Poll ==
  /\ rx' = "none"
  /\ flag' = (flag \/ (rx = "m" /\ HasContext))
  /\ UNCHANGED <<keys, lastKey>>

-----------------------------------------------------------------------------
LoadInit ==
  /\ pc = "idle" /\ payload \in Payloads /\ block = 0 /\ retry = 0
  /\ aimed = TRUE /\ placed = TRUE /\ misread = 0 /\ stage = "none" /\ out = << >> /\ rc = "none"
  /\ glitches = MaxGlitches /\ loads = 0
  /\ rx = "none" /\ keys = 0 /\ lastKey = "none" /\ flag = FALSE

(* The user types; a character nobody took is overwritten.                 *)
Press(key) ==
  /\ keys < MaxKeys
  /\ rx' = key /\ lastKey' = key /\ keys' = keys + 1
  /\ UNCHANGED <<pc, load, glitches, flag>>

(* A stage asks for a payload: a registered one is looked at further.      *)
Call(p) ==
  /\ pc = "idle" /\ loads < MaxLoads
  /\ payload' = p /\ loads' = loads + 1
  /\ block' = 1 /\ retry' = 0 /\ aimed' = TRUE /\ placed' = TRUE /\ misread' = 0
  /\ out' = [b \in 1 .. p.blocks |-> "none"]
  /\ IF p.known THEN pc' = "rom" /\ rc' = "none"
     ELSE pc' = "done" /\ rc' = "magic"
  /\ UNCHANGED <<stage, glitches, serial>>

Give(code) == rc' = code /\ pc' = "done"

(* Inside blob_expand a result still has to pass the freeing of the stage. *)
Leave(code) == rc' = code /\ pc' = "free"

(* One try at the CRC over the stored bytes of the whole payload, where    *)
(* the directory has one.                                                  *)
CheckRom ==
  /\ pc = "rom"
  /\ \/ /\ ~payload.crc \/ payload.damaged = {}
        /\ pc' = "stage" /\ retry' = 0
        /\ UNCHANGED <<rc, glitches>>
     \/ /\ payload.crc
        /\ \/ payload.damaged # {} /\ UNCHANGED glitches
           \/ Glitch(StableCost)
        /\ retry' = retry + 1
        /\ IF retry' = RomTries THEN Give("crc") ELSE UNCHANGED <<pc, rc>>
  /\ UNCHANGED <<payload, block, aimed, placed, misread, stage, out, loads, serial>>

(* blob_load_addr_or: the address in the header, or the caller's where it  *)
(* has none, which takes two misread fields to be passed over.  Nobody     *)
(* compares the address with anything later on.                            *)
LoadAddr ==
  \/ ReadRight /\ UNCHANGED aimed
  \/ Misread(1) /\ UNCHANGED aimed
  \/ Misread(IF payload.based THEN 1 ELSE 2) /\ aimed' = FALSE

(* Where to, and then the heap, which has room for one staging buffer.     *)
AllocStage ==
  /\ pc = "stage"
  /\ LoadAddr
  /\ IF stage = "none" THEN stage' = "unread" /\ pc' = "header" /\ UNCHANGED rc
     ELSE Give("size") /\ UNCHANGED stage
  /\ UNCHANGED <<payload, block, retry, placed, out, loads, serial>>

(* The checks of the header.  A field that was misread fails one, or sends *)
(* every later read to the wrong place.                                    *)
ReadHeader ==
  /\ pc = "header"
  /\ \/ /\ IF payload.header THEN pc' = "block" /\ UNCHANGED rc ELSE Leave("header")
        /\ ReadRight /\ UNCHANGED placed
     \/ /\ Misread(1)
        /\ \/ Leave("header") /\ UNCHANGED placed
           \/ payload.header /\ placed' = FALSE /\ pc' = "block" /\ UNCHANGED rc
  /\ UNCHANGED <<payload, block, retry, aimed, stage, out, loads, serial>>

(* The checks of a block's descriptor, then the first look at the serial   *)
(* port.  After the last block the table is checked.                       *)
Descriptor ==
  /\ pc = "block"
  /\ IF block > payload.blocks
     THEN pc' = "table" /\ ReadRight /\ UNCHANGED <<retry, placed, rc, serial>>
     ELSE \/ /\ pc' = "try" /\ retry' = 0
             /\ ReadRight /\ UNCHANGED <<placed, rc>> /\ Poll
          \/ /\ Misread(1)
             /\ \/ Leave("size") /\ UNCHANGED <<retry, placed, serial>>
                \/ pc' = "try" /\ retry' = 0 /\ placed' = FALSE
                   /\ UNCHANGED rc /\ Poll
  /\ UNCHANGED <<payload, block, aimed, stage, out, loads>>

(* What one try can stage: the first reads each byte once, the others read *)
(* it stably; the size and the CRC are in the descriptor.                  *)
Staged(bytes) ==
  \/ bytes = "good" /\ placed /\ block \notin payload.damaged /\ ReadRight
  \/ bytes = "bad" /\ (~placed \/ block \in payload.damaged) /\ ReadRight
  \/ bytes = "bad" /\ Glitch(IF retry = 0 THEN 1 ELSE StableCost) /\ UNCHANGED misread
  \/ bytes = "bad" /\ Misread(1)

FaultTry ==
  /\ pc = "try"
  /\ \E bytes \in {"good", "bad"} :
       /\ Staged(bytes)
       /\ stage' = bytes
       /\ retry' = retry + 1
       /\ IF bytes = "good" \/ retry' = BlockTries
          THEN pc' = "decode" /\ UNCHANGED rc
          ELSE UNCHANGED <<pc, rc>>
  /\ Poll
  /\ UNCHANGED <<payload, block, aimed, placed, out, loads>>

FaultEndless ==
  /\ pc = "try"
  /\ \E bytes \in {"good", "bad"} :
       /\ Staged(bytes)
       /\ stage' = bytes
       /\ IF bytes = "good" THEN pc' = "decode" ELSE UNCHANGED pc
  /\ Poll
  /\ UNCHANGED <<payload, block, aimed, placed, out, loads, retry, rc>>

(* One try to stage the block, with a look at the serial port.             *)
Try ==
  /\ pc = "try"
  /\ \E bytes \in {"good", "bad"} :
       /\ Staged(bytes)
       /\ stage' = bytes
       /\ IF bytes = "good" THEN pc' = "decode" /\ UNCHANGED <<retry, rc>>
          ELSE /\ retry' = retry + 1
               /\ IF retry' = BlockTries THEN Leave("crc") ELSE UNCHANGED <<pc, rc>>
  /\ Poll
  /\ UNCHANGED <<payload, block, aimed, placed, out, loads>>

(* What the decoder leaves: matches also copy from the blocks in front,    *)
(* and where the destination is wrong there may be no memory.              *)
Expanded ==
  IF stage = "good" /\ \A b \in 1 .. block - 1 : out[b] = "good"
  THEN {"good"} \cup (IF aimed THEN {} ELSE {"bad"})
  ELSE {"bad"}

(* The decoder.  A size that is misread here makes it fail, an offset      *)
(* makes it write elsewhere.                                               *)
Decode ==
  /\ pc = "decode"
  /\ \/ /\ \E bytes \in Expanded : out' = [out EXCEPT ![block] = bytes]
        /\ block' = block + 1 /\ pc' = "block"
        /\ ReadRight /\ UNCHANGED rc /\ Poll
     \/ /\ Misread(1)
        /\ out' = [out EXCEPT ![block] = "bad"]
        /\ \/ Leave("lz4") /\ UNCHANGED <<block, serial>>
           \/ block' = block + 1 /\ pc' = "block" /\ UNCHANGED rc /\ Poll
  /\ UNCHANGED <<payload, retry, aimed, placed, stage, loads>>

(* The compressed blocks are checked to follow one another.                *)
Table ==
  /\ pc = "table"
  /\ \/ pc' = "output" /\ ReadRight /\ UNCHANGED rc
     \/ Misread(1) /\ Leave("size")
  /\ UNCHANGED <<payload, block, retry, aimed, placed, stage, out, loads, serial>>

OutputGood == \A b \in DOMAIN out : out[b] = "good"

(* The CRC over the output, for payloads that are not too long.  A misread *)
(* length skips it or asks for it, a misread CRC refuses what is right.    *)
Output ==
  /\ pc = "output"
  /\ \/ /\ Leave(IF payload.whole /\ ~OutputGood THEN "output_crc" ELSE "ok")
        /\ ReadRight
     \/ Misread(1) /\ (Leave("output_crc") \/ Leave("ok"))
  /\ UNCHANGED <<payload, block, retry, aimed, placed, stage, out, loads, serial>>

FaultFree ==
  /\ pc = "free"
  /\ stage' = IF rc = "ok" THEN "none" ELSE stage
  /\ pc' = "done"
  /\ UNCHANGED <<payload, block, retry, aimed, placed, misread, out, rc, loads, glitches, serial>>

(* The staging buffer is given back whatever the result.                   *)
FreeStage ==
  /\ pc = "free"
  /\ stage' = "none"
  /\ pc' = "done"
  /\ UNCHANGED <<payload, block, retry, aimed, placed, misread, out, rc, loads, glitches, serial>>

Return == pc = "done" /\ pc' = "idle" /\ UNCHANGED <<load, glitches, serial>>

Loader ==
  \/ CheckRom \/ AllocStage \/ ReadHeader \/ Descriptor \/ Try \/ Decode
  \/ Table \/ Output \/ FreeStage \/ Return

LoadNext ==
  \/ Loader
  \/ \E p \in Payloads : Call(p)
  \/ \E key \in {"m", "x"} : Press(key)

(* The loader is a sequential program that nothing stops.                  *)
LoadSpec == LoadInit /\ [][LoadNext]_loadVars /\ WF_loadVars(Loader)
-----------------------------------------------------------------------------
(* Success means the payload is in memory as it was built: misread or      *)
(* damaged bytes never reach the caller as good ones.  That holds for any  *)
(* number of failed reads of payload bytes, and where the CRC of the       *)
(* output applies, also with one of the unprotected tables.  One such read *)
(* does harm all the same: that of the load address sends the payload to a *)
(* wrong place, where it passes every check.                               *)
NeverSilentlyWrong ==
  rc = "ok" /\ misread <= (IF payload.whole THEN 1 ELSE 0) =>
    /\ OutputGood /\ Intact(payload)
    /\ aimed \/ (payload.based /\ misread = 1)

(* The staging buffer is back in the heap after every call, however it     *)
(* ended: the next call finds room.                                        *)
StageReturned == pc \in {"idle", "done"} => stage = "none"

(* Failing reads spoil a payload when they spoil every try at its CRC, or  *)
(* at a block, of which the first reads each byte once.                    *)
Spoils(n) ==
  LET majority == Samples \div 2 + 1
  IN  n >= RomTries * majority \/ n >= 1 + (BlockTries - 1) * majority

(* An intact payload is loaded in spite of failing reads, as long as the   *)
(* tables were read right and the failures are too few to spoil every try  *)
(* at some block; a stable read is not undone by fewer than a majority.    *)
IntactLoads ==
  pc = "done" /\ Intact(payload) /\ misread = 0 /\ ~Spoils(MaxGlitches - glitches)
    => rc = "ok"

(* A key that no later one overwrote was seen, or still waits.             *)
KeyKept == lastKey = "m" /\ HasContext => flag \/ rx = "m"

(* Every call ends, also on a ROM that cannot be read.                     *)
LoadEnds == (pc # "idle") ~> (pc = "idle")
=============================================================================
