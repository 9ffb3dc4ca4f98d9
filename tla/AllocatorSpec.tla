---------------------------- MODULE AllocatorSpec ----------------------------
(***************************************************************************)
(* What the shared heap promises the stages and applications that call    *)
(* heap_alloc, heap_free and heap_realloc through the service table: the   *)
(* payloads handed out lie inside the heap, are at least as long as was    *)
(* asked for and never share a byte with one another.  Nothing is said     *)
(* about how the free memory is organised, and a call may fail.            *)
(*                                                                         *)
(* Addresses and lengths count granules of SHARED_HEAP_ALIGN bytes.        *)
(***************************************************************************)
EXTENDS Naturals

CONSTANTS
  Base,      \* first granule of the heap (heap_base)
  Limit,     \* first granule behind the heap (heap_limit)
  Requests,  \* the request sizes clients use, in bytes
  Align      \* bytes per granule (SHARED_HEAP_ALIGN)

VARIABLE
  owned  \* the payloads clients hold: [at, len] granules, of which they
         \* were promised want bytes

Payload(at, len, want) == [at |-> at, len |-> len, want |-> want]

Overlap(p, q) == p.at < q.at + q.len /\ q.at < p.at + p.len

(* p may be handed out while the payloads of held are in use.              *)
Fits(p, held) ==
  /\ p.want <= p.len * Align
  /\ \A q \in held : ~Overlap(p, q)

(* Some payload of the heap that fits joins what clients hold, and what    *)
(* they drop leaves.                                                       *)
HandOut(dropped) ==
  \E at \in Base .. Limit - 1, want \in Requests :
    \E len \in 1 .. Limit - at :
      /\ Fits(Payload(at, len, want), owned)
      /\ owned' = (owned \ dropped) \cup {Payload(at, len, want)}

Init == owned = {}

(* heap_alloc, and heap_realloc of a null pointer.                         *)
Grant == HandOut({})

(* heap_free, and heap_realloc to size zero.                               *)
Release == \E p \in owned : owned' = owned \ {p}

(* heap_realloc within the payload the client already holds.               *)
Extend == \E p \in owned, want \in Requests :
            /\ want <= p.len * Align
            /\ owned' = (owned \ {p}) \cup {[p EXCEPT !.want = want]}

(* heap_realloc that moves: the new payload does not touch the old one,    *)
(* which is still in use while its contents are copied.                    *)
Move == \E p \in owned : HandOut({p})

Next == Grant \/ Release \/ Extend \/ Move

Spec == Init /\ [][Next]_owned
=============================================================================
