----------------------------- MODULE StableRead -----------------------------
(***************************************************************************)
(* blob_read_stable_u8: the blob service does not trust a single read of   *)
(* the ROM.  It samples a byte several times and takes the value it saw    *)
(* most often.                                                             *)
(***************************************************************************)
EXTENDS Naturals, FiniteSets

CONSTANTS
  Samples,  \* number of samples, at least one (11)
  Values    \* the values a read can deliver

VARIABLES
  samples,   \* what the reads delivered
  i,         \* the next sample to count the occurrences of
  best,      \* the sample with the most occurrences so far
  bestCount  \* how many it has

vars == <<samples, i, best, bestCount>>

Index == 1 .. Samples

Votes(v) == Cardinality({j \in Index : samples[j] = v})

(* All samples are read before the first is counted.                       *)
Init == samples \in [Index -> Values] /\ i = 1 /\ best = 1 /\ bestCount = 0

(* One round of the loop over the samples.                                 *)
Count ==
  /\ i \in Index
  /\ IF Votes(samples[i]) > bestCount
     THEN best' = i /\ bestCount' = Votes(samples[i])
     ELSE UNCHANGED <<best, bestCount>>
  /\ i' = i + 1
  /\ UNCHANGED samples

Next == Count

Spec == Init /\ [][Next]_vars

Done == i = Samples + 1
-----------------------------------------------------------------------------
(* The variables keep their ranges; a count never exceeds the samples.     *)
TypeOK ==
  /\ samples \in [Index -> Values]
  /\ i \in 1 .. Samples + 1
  /\ best \in Index
  /\ bestCount \in 0 .. Samples

(* A value delivered by more than half of the reads is the result: a ROM   *)
(* whose reads fail now and then is still read correctly.                  *)
MajorityWins == Done => \A v \in Values : 2 * Votes(v) > Samples => samples[best] = v

(* Of the values delivered most often, the one that came first.            *)
FirstPluralityWins ==
  Done => \A j \in Index : /\ Votes(samples[j]) <= Votes(samples[best])
                           /\ j < best => Votes(samples[j]) < Votes(samples[best])
=============================================================================
