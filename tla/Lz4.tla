-------------------------------- MODULE Lz4 ---------------------------------
(***************************************************************************)
(* blob_lz4_decode_chunk: the LZ4 decoder of the blob service, which       *)
(* expands the staged bytes of one block into the destination, behind the  *)
(* blocks expanded before it.  It runs on what a flaky ROM delivered and   *)
(* must reject nonsense without writing outside its block.                 *)
(***************************************************************************)
EXTENDS Lz4Encoder

CONSTANTS
  Streams,   \* the inputs: records [src, prefix, chunk, kind], see below
  Unset,     \* contents of memory nobody has written
  Slack      \* bound: cells of memory modelled behind the block

(* An input should expand to chunk, behind the blocks of prefix.  src, the *)
(* staged bytes, is the compressed chunk (kind "whole"), a front part of   *)
(* it ("cut"), or bytes that have nothing to do with it ("noise").         *)
IsStream(s) ==
  /\ {s.src, s.prefix, s.chunk} \subseteq Seq(0 .. ByteMax)
  /\ s.kind = "whole" => s.src = Compress(s.prefix, s.chunk)
  /\ s.kind = "cut" => LET full == Compress(s.prefix, s.chunk)
                       IN  \E n \in 0 .. Len(full) : s.src = SubSeq(full, 1, n)

ASSUME StreamAssumption ==
  /\ \A s \in Streams : IsStream(s)
  /\ Unset \notin 0 .. ByteMax /\ Slack \in Nat

VARIABLES
  input,   \* the stream being decoded
  ip,      \* next byte of the source, from 0
  op,      \* next byte of the destination, from 0
  dst,     \* the destination: the prefix, the block and the Slack cells
  token,   \* the token of the current sequence
  state       \* "sequence", "match", or the result "ok" or "error"

codec == <<input, ip, op, dst, token, state>>

Src    == input.src
DstOff == Len(input.prefix)
End    == DstOff + Len(input.chunk)

(* Byte k of the source, from 0.                                           *)
ByteAt(k) == Src[k + 1]

(* blob_lz4_read_len at position p: fails (no result) when the bytes end   *)
(* before one that is not ByteMax.                                         *)
LengthAt(base, p) ==
  IF base # Escape THEN {[len |-> base, next |-> p]}
  ELSE {[len  |-> Escape + (q - p) * ByteMax + ByteAt(q), next |-> q + 1] :
          q \in {q \in p .. Len(Src) - 1 :
                   /\ ByteAt(q) # ByteMax
                   /\ \A k \in p .. q - 1 : ByteAt(k) = ByteMax}}
-----------------------------------------------------------------------------
DecodeInit ==
  /\ input \in Streams
  /\ ip = 0
  /\ op = DstOff
  /\ dst = input.prefix \o [k \in 1 .. Len(input.chunk) + Slack |-> Unset]
  /\ token = 0
  /\ state = "sequence"

Fail == state' = "error" /\ UNCHANGED <<input, ip, op, dst, token>>

FaultLiteralsFit(l) == l.len <= Len(Src) - l.next

(* The literals of a length fit the source and the block.                  *)
LiteralsFit(l) == l.len <= Len(Src) - l.next /\ l.len <= End - op

Literals ==
  /\ state = "sequence" /\ ip < Len(Src)
  /\ LET ls == LengthAt(ByteAt(ip) \div (Escape + 1), ip + 1)
     IN  \/ (\A l \in ls : ~LiteralsFit(l)) /\ Fail
         \/ \E l \in ls :
              /\ LiteralsFit(l)
              /\ dst' = [k \in DOMAIN dst |->
                           IF k - 1 \in op .. op + l.len - 1
                           THEN ByteAt(l.next + k - 1 - op) ELSE dst[k]]
              /\ op' = op + l.len
              /\ ip' = l.next + l.len
              /\ token' = ByteAt(ip)
              /\ state' = IF ip' = Len(Src) THEN "sequence" ELSE "match"
              /\ UNCHANGED input

FaultCopied(offset, len) ==
  [k \in DOMAIN dst |->
     IF k - 1 \in op .. op + len - 1 THEN dst[k - offset] ELSE dst[k]]

(* Copying byte by byte lets a match overlap its own output.               *)
Copied(offset, len) ==
  LET copy[k \in DOMAIN dst] ==
        IF k - 1 \in op .. op + len - 1 THEN copy[k - offset] ELSE dst[k]
  IN  copy

OffsetFits(offset) == offset # 0 /\ offset <= op

MatchFits(m) == m.len + MinMatch <= End - op

Match ==
  /\ state = "match"
  /\ IF Len(Src) - ip < 2 THEN Fail
     ELSE LET offset == ByteAt(ip) + ByteAt(ip + 1) * (ByteMax + 1)
              ms     == LengthAt(token % (Escape + 1), ip + 2)
          IN  \/ ~OffsetFits(offset) /\ Fail
              \/ OffsetFits(offset) /\ (\A m \in ms : ~MatchFits(m)) /\ Fail
              \/ /\ OffsetFits(offset)
                 /\ \E m \in ms :
                      /\ MatchFits(m)
                      /\ dst' = Copied(offset, m.len + MinMatch)
                      /\ op' = op + m.len + MinMatch
                      /\ ip' = m.next
                      /\ state' = "sequence"
                      /\ UNCHANGED <<input, token>>

(* The loop ends with the source; the block must be full by then.          *)
Finish ==
  /\ state = "sequence" /\ ip = Len(Src)
  /\ state' = IF op = End THEN "ok" ELSE "error"
  /\ UNCHANGED <<input, ip, op, dst, token>>

DecodeNext == Literals \/ Match \/ Finish

DecodeSpec == DecodeInit /\ [][DecodeNext]_codec
-----------------------------------------------------------------------------
(* Whatever bytes are staged, decoding a block changes no memory in front  *)
(* of it or behind it: what earlier blocks expanded to, and what lies      *)
(* behind the payload, stays.                                              *)
WritesOnlyItsBlock ==
  [][\A k \in DOMAIN dst :
       k - 1 < DstOff \/ k - 1 >= End => dst'[k] = dst[k]]_codec

(* A match never copies memory that was not written before: an accepted    *)
(* block has no stale byte in it.                                          *)
NoStaleBytes == \A k \in 1 .. op : dst[k] # Unset

(* What gen_blob.py compressed is accepted and expands to what it was; a   *)
(* block that is cut short does so too, or is rejected.                    *)
RoundTrip ==
  /\ input.kind = "whole" => state # "error"
  /\ input.kind \in {"whole", "cut"} /\ state = "ok" =>
       SubSeq(dst, DstOff + 1, End) = input.chunk

=============================================================================
