----------------------------- MODULE Lz4Encoder -----------------------------
(***************************************************************************)
(* How scripts/build/gen_blob.py compresses one chunk of a payload: LZ4    *)
(* sequences of literals and matches, where a match may reach back into    *)
(* the chunks before it (LZ4_STREAM).                                      *)
(*                                                                         *)
(* The widths of the format are parameters.  A token holds two lengths     *)
(* below Escape + 1, so a byte is below (Escape + 1)^2: Escape is 15 and a *)
(* byte has 8 bits in the real format.                                     *)
(***************************************************************************)
EXTENDS Naturals, Sequences, FiniteSetsExt

CONSTANTS
  Escape,     \* 15: a token length that continues in further bytes
  MinMatch,   \* 4: MINMATCH, the shortest match
  MaxOffset   \* 65535: MAX_OFFSET, how far back a match may start

ASSUME FormatAssumption ==
  /\ Escape \in Nat \ {0} /\ MinMatch \in Nat \ {0} /\ MaxOffset \in Nat \ {0}
  /\ MaxOffset < ((Escape + 1) * (Escape + 1)) * ((Escape + 1) * (Escape + 1))

ByteMax == (Escape + 1) * (Escape + 1) - 1

Least(a, b) == IF a < b THEN a ELSE b

FaultLengthTail(len) ==
  IF len <= Escape THEN << >>
  ELSE [k \in 1 .. (len - Escape) \div ByteMax |-> ByteMax]
       \o << (len - Escape) % ByteMax >>

(* The bytes that continue a length (emit_len).                            *)
LengthTail(len) ==
  IF len < Escape THEN << >>
  ELSE [k \in 1 .. (len - Escape) \div ByteMax |-> ByteMax]
       \o << (len - Escape) % ByteMax >>

Token(lit, match) == Least(lit, Escape) * (Escape + 1) + Least(match, Escape)

(* The final sequence has no match, only literals (lz4_emit_sequence).     *)
LastSequence(literals) ==
  << Token(Len(literals), 0) >> \o LengthTail(Len(literals)) \o literals

MatchSequence(literals, offset, matchLen) ==
  << Token(Len(literals), matchLen - MinMatch) >>
  \o LengthTail(Len(literals)) \o literals
  \o << offset % (ByteMax + 1), offset \div (ByteMax + 1) >>
  \o LengthTail(matchLen - MinMatch)

(* The chunk behind what a match may reach back to.                        *)
Recent(prefix) ==
  SubSeq(prefix, Len(prefix) - Least(Len(prefix), MaxOffset) + 1, Len(prefix))

Window(prefix, chunk) == Recent(prefix) \o chunk

(* Positions count from 0.  The table of the code holds, for each string   *)
(* of MinMatch bytes, the last position it was seen at.                    *)
Key(w, i) == SubSeq(w, i + 1, i + MinMatch)

Refs(w, i) == {p \in 0 .. i - 1 : Key(w, p) = Key(w, i)}

(* The positions from anchor on at which a match can begin.                *)
Matches(w, anchor) ==
  {i \in anchor .. Len(w) - MinMatch :
     Refs(w, i) # {} /\ i - Max(Refs(w, i)) <= MaxOffset}

MatchLen(w, p, i) ==
  Max({m \in MinMatch .. Len(w) - i :
         \A k \in 1 .. m : w[p + k] = w[i + k]})

(* lz4_compress_chunk: greedily, the nearest earlier occurrence of the     *)
(* next MinMatch bytes becomes a match as long as it can be.  anchor is    *)
(* where the literals begin that were not emitted yet.                     *)
Emitted(w) ==
  LET From[anchor \in 0 .. Len(w)] ==
        IF Matches(w, anchor) = {} THEN LastSequence(SubSeq(w, anchor + 1, Len(w)))
        ELSE LET i == Min(Matches(w, anchor))
                 p == Max(Refs(w, i))
                 m == MatchLen(w, p, i)
             IN  MatchSequence(SubSeq(w, anchor + 1, i), i - p, m) \o From[i + m]
  IN  From

Compress(prefix, chunk) == Emitted(Window(prefix, chunk))[Len(Recent(prefix))]
=============================================================================
