------------------------------- MODULE MCLz4 --------------------------------
(* The LZ4 format with bytes of 0 .. 8 and tokens of two lengths below 3,  *)
(* so that lengths that continue in one or more bytes occur in streams of  *)
(* a few bytes.                                                            *)
EXTENDS Lz4, SequencesExt

Stream(src, prefix, chunk, kind) ==
  [src |-> src, prefix |-> prefix, chunk |-> chunk, kind |-> kind]

(* Data to compress: all strings of up to five bits, and runs long enough  *)
(* for a length with a full continuation byte, after a few prefixes.       *)
Chunks   == BoundedSeq({0, 1}, 5) \cup {[k \in 1 .. n |-> 1] : n \in 11 .. 16}
Before == { << >>, <<1>>, <<0, 1>>, <<1, 1, 0, 1>> }

Compressed ==
  {Stream(Compress(p, c), p, c, "whole") : p \in Before, c \in Chunks}

Cut(s) ==
  {Stream(SubSeq(s.src, 1, n), s.prefix, s.chunk, "cut") :
     n \in 0 .. Len(s.src) - 1}

(* Bytes nobody compressed: tokens with no, short and continued lengths,   *)
(* offsets of zero, one and two, a full continuation byte.                 *)
Noise ==
  {Stream(s, p, [k \in 1 .. n |-> 0], "noise") :
     s \in BoundedSeq({0, 1, 2, 4, 6, 8}, 4), p \in {<< >>, <<1, 0>>}, n \in {1, 4}}

MCStreams == Compressed \cup UNION {Cut(s) : s \in Compressed} \cup Noise
=============================================================================
