----------------------------- MODULE SharedHeap -----------------------------
(***************************************************************************)
(* The allocator of the shared service table (blob_service.c and           *)
(* shared_heap_init in service_table.h): a first-fit allocator over one    *)
(* address-ordered, singly linked list of free blocks.  Every block, free  *)
(* or in use, starts with a 16-byte header that holds its size.            *)
(*                                                                         *)
(* Addresses and sizes count granules of SHARED_HEAP_ALIGN (16) bytes: a   *)
(* header is one granule and SHARED_HEAP_MIN_BLOCK is two.  Only the sizes *)
(* callers ask for are in bytes.  The list is the sequence of the blocks   *)
(* reached from heap_free_list, each with the size word of its header.     *)
(***************************************************************************)
EXTENDS Naturals, Sequences

CONSTANTS
  Base,      \* heap_base, aligned up
  Limit,     \* heap_limit, aligned down
  Requests   \* the sizes, in bytes, callers ask for

ASSUME HeapAssumption ==
  /\ Base \in Nat \ {0} /\ Limit \in Nat /\ Base <= Limit
  /\ Requests \subseteq Nat \ {0}

VARIABLES
  free,  \* the free list, first block first: records [at, size]
  live   \* the blocks callers hold a pointer into (the list forgets them)

vars == <<free, live>>

Align    == 16  \* SHARED_HEAP_ALIGN, in bytes
Header   == 1   \* sizeof(struct shared_heap_block), in granules
MinBlock == 2   \* SHARED_HEAP_MIN_BLOCK, in granules

(* Definitions named Fault... are mistakes the code could have made; no    *)
(* other definition uses them.  Each one breaks a property, see README.    *)
(* shared_align_up(size + header, ALIGN), but at least MIN_BLOCK.  Sizes    *)
(* stay far below 2^32 - 32, where the 32-bit sum would wrap.              *)
Needed(bytes) ==
  LET n == (bytes + Align - 1) \div Align + Header
  IN  IF n < MinBlock THEN MinBlock ELSE n

FaultHeaderCounted(b) == b.size * Align

(* heap_payload_size, in bytes. *)
PayloadBytes(b) == IF b.size <= Header THEN 0 ELSE (b.size - Header) * Align

-----------------------------------------------------------------------------
(* The list primitives. *)

InsertBlock(list, i, b) ==
  [j \in 1 .. Len(list) + 1 |->
     IF j < i THEN list[j] ELSE IF j = i THEN b ELSE list[j - 1]]

DropBlock(list, i) ==
  [j \in 1 .. Len(list) - 1 |-> IF j < i THEN list[j] ELSE list[j + 1]]

FaultSizeReplaced(list, i) ==
  IF i < Len(list) /\ list[i].at + list[i].size = list[i + 1].at
  THEN [DropBlock(list, i + 1) EXCEPT
          ![i] = [at |-> list[i].at, size |-> list[i + 1].size]]
  ELSE list

(* heap_coalesce_next of the i-th block of the list. *)
CoalesceNext(list, i) ==
  IF i < Len(list) /\ list[i].at + list[i].size = list[i + 1].at
  THEN [DropBlock(list, i + 1) EXCEPT
          ![i] = [at |-> list[i].at, size |-> list[i].size + list[i + 1].size]]
  ELSE list

(* The first block large enough: where the loop of alloc stops. *)
IsFirstFit(list, i, need) ==
  /\ i \in 1 .. Len(list)
  /\ list[i].size >= need
  /\ \A j \in 1 .. i - 1 : list[j].size < need


FaultSizeKept(list, i, need) == list[i]

FaultRemainderUnlinked(list, i, need) == DropBlock(list, i)

(* The i-th block gives its front to the caller; the rest stays in the list *)
(* when it is large enough to be a block, and goes with the front otherwise *)
Splits(list, i, need) == list[i].size - need >= MinBlock

Taken(list, i, need) ==
  IF Splits(list, i, need) THEN [at |-> list[i].at, size |-> need] ELSE list[i]

Remaining(list, i, need) ==
  IF Splits(list, i, need)
  THEN [list EXCEPT ![i] = [at   |-> list[i].at + need,
                            size |-> list[i].size - need]]
  ELSE DropBlock(list, i)

(* The checks free makes on the header behind the pointer.                 *)
Accepted(b) == /\ b.at >= Base /\ b.at + Header <= Limit
               /\ b.size >= MinBlock /\ b.at + b.size <= Limit

(* Where free links a block: behind every block with a smaller address.    *)
IsPlace(list, i, b) ==
  /\ i \in 1 .. Len(list) + 1
  /\ \A j \in 1 .. i - 1 : list[j].at < b.at
  /\ i <= Len(list) => list[i].at >= b.at

(* Linking and the two calls of heap_coalesce_next.  When the predecessor  *)
(* has swallowed b, the second call works on b's dead header: b and the    *)
(* following block are then not joined, even if they touch.                *)
Linked(list, i, b) ==
  LET inserted == InsertBlock(list, i, b)
      joined   == IF i > 1 THEN CoalesceNext(inserted, i - 1) ELSE inserted
  IN  IF Len(joined) = Len(inserted) THEN CoalesceNext(joined, i) ELSE joined
-----------------------------------------------------------------------------
(* shared_heap_init: one free block, or none when the heap is too small.   *)
Init ==
  /\ free = IF Limit - Base < MinBlock THEN << >>
            ELSE << [at |-> Base, size |-> Limit - Base] >>
  /\ live = {}

(* What the caller holds after a request of that many bytes was granted.   *)
Held(b, bytes) == [at |-> b.at, size |-> b.size, want |-> bytes]

Unheld(b) == [at |-> b.at, size |-> b.size]

(* shared_heap_alloc_service.  Without a fitting block it returns null and *)
(* changes nothing.                                                        *)
Alloc(bytes) ==
  \E i \in 1 .. Len(free) :
    /\ IsFirstFit(free, i, Needed(bytes))
    /\ free' = Remaining(free, i, Needed(bytes))
    /\ live' = live \cup {Held(Taken(free, i, Needed(bytes)), bytes)}

(* shared_heap_free_service of a pointer alloc returned.  A block whose    *)
(* header it does not accept is left as it is.                             *)
Free(b) ==
  /\ IF Accepted(b)
     THEN \E i \in 1 .. Len(free) + 1 :
            IsPlace(free, i, b) /\ free' = Linked(free, i, Unheld(b))
     ELSE UNCHANGED free
  /\ live' = live \ {b}

(* shared_heap_realloc_service of a live pointer whose payload already     *)
(* holds that many bytes: the pointer is returned as it is.                *)
ReallocInPlace(b, bytes) ==
  /\ PayloadBytes(b) >= bytes
  /\ live' = (live \ {b}) \cup {Held(b, bytes)}
  /\ UNCHANGED free

(* ... and of one that is too short: a new block is taken first, the       *)
(* payload copied, the old block freed.  When no block fits the old one    *)
(* stays as it is.                                                         *)
ReallocMove(b, bytes) ==
  /\ PayloadBytes(b) < bytes
  /\ \E i \in 1 .. Len(free) :
       /\ IsFirstFit(free, i, Needed(bytes))
       /\ LET rest == Remaining(free, i, Needed(bytes))
          IN  IF Accepted(b)
              THEN \E k \in 1 .. Len(rest) + 1 :
                     IsPlace(rest, k, b) /\ free' = Linked(rest, k, Unheld(b))
              ELSE free' = rest
       /\ live' = (live \ {b})
                  \cup {Held(Taken(free, i, Needed(bytes)), bytes)}

Next ==
  \/ \E bytes \in Requests : Alloc(bytes)
  \/ \E b \in live : Free(b)
  \/ \E b \in live, bytes \in Requests : ReallocInPlace(b, bytes)
  \/ \E b \in live, bytes \in Requests : ReallocMove(b, bytes)

Spec == Init /\ [][Next]_vars
-----------------------------------------------------------------------------
(* The variables keep the shapes the operators above expect.               *)
Blocks     == [at : Nat, size : Nat \ {0}]
HeldBlocks == [at : Nat, size : Nat \ {0}, want : Requests]

TypeOK ==
  /\ free \in Seq(Blocks)
  /\ live \subseteq HeldBlocks

Covers(b, g) == b.at <= g /\ g < b.at + b.size

Apart(b, c) == b.at + b.size <= c.at \/ c.at + c.size <= b.at

InHeap(b) == Base <= b.at /\ b.at + b.size <= Limit /\ b.size >= MinBlock

FreeListOrdered ==
  /\ \A i \in 1 .. Len(free) : InHeap(free[i])
  /\ \A i, j \in 1 .. Len(free) : i < j => free[i].at + free[i].size <= free[j].at

LiveApart ==
  /\ \A b \in live : InHeap(b)
  /\ \A b, c \in live : b # c => Apart(b, c)

FreeLiveApart == \A i \in 1 .. Len(free), b \in live : Apart(free[i], b)

(* No granule belongs to two blocks: neither two clients nor a client and  *)
(* the free list ever share memory, whatever sequence of alloc, free and   *)
(* realloc, with splitting and coalescing, led here; and the list stays in *)
(* address order, which free relies on to find its place.                  *)
NoOverlap == FreeListOrdered /\ LiveApart /\ FreeLiveApart

(* No granule is lost: all of the heap is in some block, so what a client  *)
(* gives back (or a move leaves behind) is free again.                     *)
NothingLost ==
  Limit - Base >= MinBlock =>
    \A g \in Base .. Limit - 1 :
      \/ \E i \in 1 .. Len(free) : Covers(free[i], g)
      \/ \E b \in live : Covers(b, g)

(* A granted request is covered by the payload of its block, also after a  *)
(* realloc that returned the same pointer.                                 *)
RequestFits == \A b \in live : b.want <= PayloadBytes(b)

(* Freeing a block always leaves a free block of at least its size: a      *)
(* client that frees and asks again for the same amount is never refused,  *)
(* as blob_load does with its 8 KB staging buffer for every payload, even  *)
(* where the second coalescing call found a dead header.                   *)
FreedIsReusable ==
  \A b \in live : \A i \in 1 .. Len(free) + 1 :
    Accepted(b) /\ IsPlace(free, i, b) =>
      \E j \in 1 .. Len(Linked(free, i, Unheld(b))) :
        Linked(free, i, Unheld(b))[j].size >= b.size

(* The heap does what AllocatorSpec promises its clients.                  *)
Promise == INSTANCE AllocatorSpec
             WITH owned <- {[at |-> b.at + Header, len |-> b.size - Header,
                             want |-> b.want] : b \in live}
RefinesAllocator == Promise!Spec
=============================================================================
