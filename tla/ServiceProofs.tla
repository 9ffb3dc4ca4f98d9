--------------------------- MODULE ServiceProofs ---------------------------
(* Theorems about the shared services: the heap, the loader of compressed  *)
(* payloads, the stable reads of the ROM, and the codec.                   *)
EXTENDS SharedHeap, BlobLoad, Lz4, FiniteSetTheorems, SequenceTheorems, TLAPS

(***************************************************************************)
(* The heap, for every heap and every set of request sizes.  The list      *)
(* primitives get one lemma each; a call of the allocator is a composition *)
(* of them.                                                                *)
(***************************************************************************)
(* The list a call works on: blocks of the heap in address order.          *)
Ordered(list) ==
  /\ \A i \in 1 .. Len(list) : InHeap(list[i])
  /\ \A i, j \in 1 .. Len(list) : i < j => list[i].at + list[i].size <= list[j].at

Good(list) == list \in Seq(Blocks) /\ Ordered(list)

(* No block of the list shares a granule with c.                           *)
Clear(list, c) == \A i \in 1 .. Len(list) : Apart(list[i], c)

(* Some block of the list covers granule g.                                *)
Spans(list, g) == \E i \in 1 .. Len(list) : Covers(list[i], g)

-----------------------------------------------------------------------------
(* Inserting a block at its place keeps the list in order, clear of every  *)
(* block both were clear of, and adds just the granules of the block.      *)
LEMMA InsertLemma ==
  ASSUME NEW list, Good(list), NEW b \in Blocks, InHeap(b), Clear(list, b),
         NEW i \in 1 .. Len(list) + 1, IsPlace(list, i, b)
  PROVE  /\ Good(InsertBlock(list, i, b))
         /\ Len(InsertBlock(list, i, b)) = Len(list) + 1
         /\ InsertBlock(list, i, b)[i] = b
         /\ \A c : Clear(list, c) /\ Apart(b, c) => Clear(InsertBlock(list, i, b), c)
         /\ \A g : Spans(list, g) \/ Covers(b, g) => Spans(InsertBlock(list, i, b), g)
PROOF
  <1> DEFINE new == InsertBlock(list, i, b)
  <1>1. list \in Seq(Blocks) /\ Len(list) \in Nat
    BY DEF Good
  <1>2. new \in Seq(Blocks) /\ Len(new) = Len(list) + 1
    BY <1>1 DEF InsertBlock
  <1>3. \A j \in 1 .. Len(new) :
          new[j] = IF j < i THEN list[j] ELSE IF j = i THEN b ELSE list[j - 1]
    BY <1>1, <1>2 DEF InsertBlock
  <1> HIDE DEF new
  <1>4. \A j \in 1 .. Len(list) : list[j] \in Blocks
    BY <1>1
  <1>5. ASSUME NEW j \in 1 .. Len(new)
        PROVE  \/ j < i /\ j \in 1 .. Len(list) /\ new[j] = list[j]
               \/ j = i /\ new[j] = b
               \/ j > i /\ j - 1 \in 1 .. Len(list) /\ new[j] = list[j - 1]
    BY <1>1, <1>2, <1>3
  <1>5a. \A j \in 1 .. Len(new) : InHeap(new[j])
    BY <1>5 DEF Good, Ordered
  <1>6. \A j \in 1 .. Len(list) : /\ j < i => list[j].at + list[j].size <= b.at
                                  /\ j >= i => b.at + b.size <= list[j].at
    <2>1. \A j \in 1 .. Len(list) : j < i => list[j].at + list[j].size <= b.at
      <3> SUFFICES ASSUME NEW j \in 1 .. Len(list), j < i
                   PROVE  list[j].at + list[j].size <= b.at
        OBVIOUS
      <3>1. list[j].at < b.at
        BY <1>1 DEF IsPlace
      <3>2. Apart(list[j], b) /\ list[j] \in Blocks
        BY <1>4 DEF Clear
      <3> QED
        BY <3>1, <3>2 DEF Apart, Blocks
    <2>2. \A j \in 1 .. Len(list) : j >= i => list[j].at >= b.at
      <3> SUFFICES ASSUME NEW j \in 1 .. Len(list), j >= i PROVE list[j].at >= b.at
        OBVIOUS
      <3>1. list[i].at >= b.at /\ i \in 1 .. Len(list)
        BY <1>1 DEF IsPlace
      <3>2. j = i \/ list[i].at + list[i].size <= list[j].at
        BY <1>1, <3>1 DEF Good, Ordered
      <3>3. list[i] \in Blocks /\ list[j] \in Blocks
        BY <1>4, <3>1
      <3> QED
        BY <3>1, <3>2, <3>3 DEF Blocks
    <2>3. ASSUME NEW j \in 1 .. Len(list), j >= i PROVE b.at + b.size <= list[j].at
      <3>1. list[j].at >= b.at /\ Apart(list[j], b) /\ list[j] \in Blocks
        BY <1>4, <2>2, <2>3 DEF Clear
      <3> QED
        BY <3>1 DEF Apart, Blocks
    <2> QED
      BY <2>1, <2>3
  <1>7. ASSUME NEW j \in 1 .. Len(new), NEW k \in 1 .. Len(new), j < k
        PROVE  new[j].at + new[j].size <= new[k].at
    <2>1. CASE j = i
      <3>1. k - 1 \in 1 .. Len(list) /\ new[k] = list[k - 1] /\ k - 1 >= i
        BY <1>1, <1>2, <1>5, <1>7, <2>1
      <3> QED
        BY <1>6, <1>5, <2>1, <3>1
    <2>2. CASE k = i
      <3>1. j \in 1 .. Len(list) /\ new[j] = list[j] /\ j < i
        BY <1>1, <1>2, <1>5, <1>7, <2>2
      <3> QED
        BY <1>6, <1>5, <2>2, <3>1
    <2>3. CASE j # i /\ k # i
      <3>1. PICK p \in 1 .. Len(list), q \in 1 .. Len(list) :
              p < q /\ new[j] = list[p] /\ new[k] = list[q]
        <4> DEFINE P(m) == IF m < i THEN m ELSE m - 1
        <4>1. /\ P(j) \in 1 .. Len(list) /\ new[j] = list[P(j)]
              /\ P(k) \in 1 .. Len(list) /\ new[k] = list[P(k)]
          BY <1>1, <1>2, <1>5, <2>3
        <4>2. P(j) < P(k)
          BY <1>1, <1>2, <1>7, <2>3
        <4> QED
          BY <4>1, <4>2
      <3> QED
        BY <3>1 DEF Good, Ordered
    <2> QED
      BY <2>1, <2>2, <2>3
  <1>8. \A c : Clear(list, c) /\ Apart(b, c) => Clear(new, c)
    BY <1>5 DEF Clear
  <1>9. ASSUME NEW g, Spans(list, g) \/ Covers(b, g)
        PROVE  Spans(new, g)
    <2>1. CASE Covers(b, g)
      BY <1>1, <1>2, <1>3, <2>1 DEF Spans
    <2>2. CASE Spans(list, g)
      <3>1. PICK j \in 1 .. Len(list) : Covers(list[j], g)
        BY <2>2 DEF Spans
      <3>2. new[IF j < i THEN j ELSE j + 1] = list[j]
        BY <1>1, <1>2, <1>3
      <3> QED
        BY <1>1, <1>2, <3>1, <3>2 DEF Spans
    <2> QED
      BY <1>9, <2>1, <2>2
  <1>10. Good(new) /\ new[i] = b
    BY <1>1, <1>2, <1>3, <1>5a, <1>7 DEF Good, Ordered
  <1> QED
    BY <1>2, <1>8, <1>9, <1>10 DEF new

(* Unlinking a block leaves a list in order that is clear of the block and *)
(* has lost its granules only.                                             *)
LEMMA DropLemma ==
  ASSUME NEW list, Good(list), NEW i \in 1 .. Len(list)
  PROVE  /\ Good(DropBlock(list, i))
         /\ Len(DropBlock(list, i)) = Len(list) - 1
         /\ \A j \in 1 .. Len(list) - 1 :
              DropBlock(list, i)[j] = IF j < i THEN list[j] ELSE list[j + 1]
         /\ Clear(DropBlock(list, i), list[i])
         /\ \A c : Clear(list, c) => Clear(DropBlock(list, i), c)
         /\ \A g : Spans(list, g) => Spans(DropBlock(list, i), g) \/ Covers(list[i], g)
PROOF
  <1> DEFINE new == DropBlock(list, i)
  <1>1. list \in Seq(Blocks) /\ Len(list) \in Nat /\ Len(list) - 1 \in Nat
    BY DEF Good
  <1>2. new \in Seq(Blocks) /\ Len(new) = Len(list) - 1
    BY <1>1 DEF DropBlock
  <1>3. \A j \in 1 .. Len(new) : new[j] = IF j < i THEN list[j] ELSE list[j + 1]
    BY <1>1, <1>2 DEF DropBlock
  <1> HIDE DEF new
  <1> DEFINE P(j) == IF j < i THEN j ELSE j + 1
  <1>4. ASSUME NEW j \in 1 .. Len(new)
        PROVE  P(j) \in 1 .. Len(list) /\ P(j) # i /\ new[j] = list[P(j)]
    BY <1>1, <1>2, <1>3
  <1>5. ASSUME NEW j \in 1 .. Len(new), NEW k \in 1 .. Len(new), j < k
        PROVE  P(j) < P(k)
    BY <1>1, <1>2, <1>5
  <1> HIDE DEF P
  <1>6. Ordered(new)
    <2>1. \A j \in 1 .. Len(new) : InHeap(new[j])
      BY <1>4 DEF Good, Ordered
    <2>2. ASSUME NEW j \in 1 .. Len(new), NEW k \in 1 .. Len(new), j < k
          PROVE  new[j].at + new[j].size <= new[k].at
      BY <1>4, <1>5, <2>2 DEF Good, Ordered
    <2> QED
      BY <2>1, <2>2 DEF Ordered
  <1>7. \A c : Clear(list, c) => Clear(new, c)
    BY <1>4 DEF Clear
  <1>8. Clear(new, list[i])
    <2> SUFFICES ASSUME NEW j \in 1 .. Len(new) PROVE Apart(new[j], list[i])
      BY DEF Clear
    <2>1. P(j) < i \/ i < P(j)
      BY <1>4
    <2>2. \/ list[P(j)].at + list[P(j)].size <= list[i].at
          \/ list[i].at + list[i].size <= list[P(j)].at
      BY <1>4, <2>1 DEF Good, Ordered
    <2> QED
      BY <1>4, <2>2 DEF Apart
  <1>9. ASSUME NEW g, Spans(list, g), ~Covers(list[i], g)
        PROVE  Spans(new, g)
    <2>1. PICK k \in 1 .. Len(list) : Covers(list[k], g) /\ k # i
      BY <1>9 DEF Spans
    <2>2. CASE k < i
      <3>1. k \in 1 .. Len(new) /\ new[k] = list[k]
        BY <1>1, <1>2, <1>3, <2>2
      <3> QED
        BY <2>1, <3>1 DEF Spans
    <2>3. CASE k > i
      <3>1. k - 1 \in 1 .. Len(new) /\ new[k - 1] = list[k]
        BY <1>1, <1>2, <1>3, <2>3
      <3> QED
        BY <2>1, <3>1 DEF Spans
    <2> QED
      BY <1>1, <2>1, <2>2, <2>3
  <1>10. Good(new)
    BY <1>2, <1>6 DEF Good
  <1> QED
    BY <1>2, <1>3, <1>7, <1>8, <1>9, <1>10 DEF new

(* Replacing a block by one that also fits between its neighbours.         *)
LEMMA ReplaceLemma ==
  ASSUME NEW list, Good(list), NEW i \in 1 .. Len(list),
         NEW b \in Blocks, InHeap(b),
         \A j \in 1 .. Len(list) : /\ j < i => list[j].at + list[j].size <= b.at
                                   /\ i < j => b.at + b.size <= list[j].at
  PROVE  /\ Good([list EXCEPT ![i] = b])
         /\ Len([list EXCEPT ![i] = b]) = Len(list)
         /\ \A j \in 1 .. Len(list) :
              [list EXCEPT ![i] = b][j] = IF j = i THEN b ELSE list[j]
PROOF
  <1> DEFINE new == [list EXCEPT ![i] = b]
  <1>1. list \in Seq(Blocks) /\ Len(list) \in Nat
    BY DEF Good
  <1>2. new \in Seq(Blocks) /\ Len(new) = Len(list)
    BY <1>1
  <1>3. \A j \in 1 .. Len(list) : new[j] = IF j = i THEN b ELSE list[j]
    BY <1>1
  <1> HIDE DEF new
  <1>4. Ordered(new)
    <2>1. \A j \in 1 .. Len(new) : InHeap(new[j])
      BY <1>2, <1>3 DEF Good, Ordered
    <2>2. ASSUME NEW j \in 1 .. Len(list), NEW k \in 1 .. Len(list), j < k
          PROVE  new[j].at + new[j].size <= new[k].at
      <3>1. j # k
        BY <2>2
      <3>2. CASE j = i
        BY <1>3, <2>2, <3>1, <3>2
      <3>3. CASE k = i
        BY <1>3, <2>2, <3>1, <3>3
      <3>4. CASE j # i /\ k # i
        BY <1>3, <2>2, <3>4 DEF Good, Ordered
      <3> QED
        BY <3>2, <3>3, <3>4
    <2> QED
      BY <1>2, <2>1, <2>2 DEF Ordered
  <1> QED
    BY <1>2, <1>3, <1>4 DEF Good, new

(* What c must be for apartness to make sense: a non-empty run of granules.*)
Run(c) == c.at \in Nat /\ c.size \in Nat \ {0}

(* Joining a block with its successor keeps the order and the granules.    *)
LEMMA CoalesceLemma ==
  ASSUME NEW list, Good(list), NEW i \in 1 .. Len(list)
  PROVE  /\ Good(CoalesceNext(list, i))
         /\ Len(CoalesceNext(list, i)) \in {Len(list) - 1, Len(list)}
         /\ \A c : Run(c) /\ Clear(list, c) => Clear(CoalesceNext(list, i), c)
         /\ \A g \in Nat : Spans(list, g) => Spans(CoalesceNext(list, i), g)
PROOF
  <1> DEFINE touch == i < Len(list) /\ list[i].at + list[i].size = list[i + 1].at
             b     == [at |-> list[i].at, size |-> list[i].size + list[i + 1].size]
             rest  == DropBlock(list, i + 1)
  <1>1. CASE ~touch
    <2>1. CoalesceNext(list, i) = list
      BY <1>1 DEF CoalesceNext
    <2> QED
      BY <2>1 DEF Good
  <1>2. CASE touch
    <2> DEFINE new == [rest EXCEPT ![i] = b]
    <2>1. /\ list \in Seq(Blocks) /\ Len(list) \in Nat
          /\ i + 1 \in 1 .. Len(list) /\ i \in 1 .. Len(list) - 1
      BY <1>2 DEF Good
    <2>2. list[i] \in Blocks /\ list[i + 1] \in Blocks
      BY <2>1
    <2>3. b \in Blocks /\ InHeap(b)
      <3>1. InHeap(list[i]) /\ InHeap(list[i + 1])
        BY <2>1 DEF Good, Ordered
      <3> QED
        BY <1>2, <2>2, <3>1, HeapAssumption DEF InHeap, Blocks, MinBlock
    <2>4. /\ Good(rest) /\ Len(rest) = Len(list) - 1
          /\ \A j \in 1 .. Len(list) - 1 :
               rest[j] = IF j < i + 1 THEN list[j] ELSE list[j + 1]
          /\ \A c : Clear(list, c) => Clear(rest, c)
          /\ \A g : Spans(list, g) => Spans(rest, g) \/ Covers(list[i + 1], g)
      BY <2>1, DropLemma
    <2> HIDE DEF rest
    <2>5. ASSUME NEW j \in 1 .. Len(rest)
          PROVE  /\ j < i => rest[j].at + rest[j].size <= b.at
                 /\ i < j => b.at + b.size <= rest[j].at
      <3>1. ASSUME j < i PROVE rest[j].at + rest[j].size <= b.at
        BY <2>1, <2>4, <3>1 DEF Good, Ordered
      <3>2. ASSUME i < j PROVE b.at + b.size <= rest[j].at
        <4>1. j + 1 \in 1 .. Len(list) /\ i + 1 < j + 1 /\ rest[j] = list[j + 1]
          BY <2>1, <2>4, <3>2
        <4>2. list[i + 1].at + list[i + 1].size <= rest[j].at
          BY <2>1, <4>1 DEF Good, Ordered
        <4>3. b.at + b.size = list[i + 1].at + list[i + 1].size
          BY <1>2, <2>2 DEF Blocks
        <4> QED
          BY <4>2, <4>3
      <3> QED
        BY <3>1, <3>2
    <2> HIDE DEF b
    <2>6. /\ Good(new) /\ Len(new) = Len(rest)
          /\ \A j \in 1 .. Len(rest) : new[j] = IF j = i THEN b ELSE rest[j]
      BY <2>1, <2>3, <2>4, <2>5, ReplaceLemma
    <2>7. new = CoalesceNext(list, i)
      BY <1>2 DEF CoalesceNext, b, rest
    <2> HIDE DEF new
    <2>8. ASSUME NEW c, Run(c), Clear(list, c)
          PROVE  Clear(new, c)
      <3>1. Apart(list[i], c) /\ Apart(list[i + 1], c)
        BY <2>1, <2>8 DEF Clear
      <3>2. Apart(b, c)
        BY <1>2, <2>2, <2>8, <3>1 DEF Apart, Run, Blocks, b
      <3> QED
        BY <2>4, <2>6, <2>8, <3>2 DEF Clear
    <2>9. ASSUME NEW g \in Nat, Spans(list, g)
          PROVE  Spans(new, g)
      <3>1. Covers(list[i], g) \/ Covers(list[i + 1], g) => Covers(b, g)
        BY <1>2, <2>2 DEF Covers, Blocks, b
      <3>2. new[i] = b /\ i \in 1 .. Len(new)
        BY <2>1, <2>4, <2>6
      <3>3. CASE Covers(list[i + 1], g)
        BY <3>1, <3>2, <3>3 DEF Spans
      <3>4. CASE Spans(rest, g)
        <4>1. PICK j \in 1 .. Len(rest) : Covers(rest[j], g)
          BY <3>4 DEF Spans
        <4>2. rest[i] = list[i]
          BY <2>1, <2>4
        <4> QED
          BY <2>6, <3>1, <3>2, <4>1, <4>2 DEF Spans
      <3> QED
        BY <2>4, <2>9, <3>3, <3>4
    <2> QED
      BY <2>4, <2>6, <2>7, <2>8, <2>9
  <1> QED
    BY <1>1, <1>2

(* Freeing a block into the list: in order, clear of whatever was apart    *)
(* from the list and the block, and covering the granules of both.         *)
LEMMA LinkedLemma ==
  ASSUME NEW list, Good(list), NEW b \in Blocks, InHeap(b), Clear(list, b),
         NEW i \in 1 .. Len(list) + 1, IsPlace(list, i, b)
  PROVE  /\ Good(Linked(list, i, b))
         /\ \A c : Run(c) /\ Clear(list, c) /\ Apart(b, c) => Clear(Linked(list, i, b), c)
         /\ \A g \in Nat : Spans(list, g) \/ Covers(b, g) => Spans(Linked(list, i, b), g)
PROOF
  <1> DEFINE inserted == InsertBlock(list, i, b)
             joined   == IF i > 1 THEN CoalesceNext(inserted, i - 1) ELSE inserted
             linked   == IF Len(joined) = Len(inserted)
                         THEN CoalesceNext(joined, i) ELSE joined
  <1>1. Len(list) \in Nat
    BY DEF Good
  <1>2. /\ Good(inserted) /\ Len(inserted) = Len(list) + 1
        /\ \A c : Clear(list, c) /\ Apart(b, c) => Clear(inserted, c)
        /\ \A g : Spans(list, g) \/ Covers(b, g) => Spans(inserted, g)
    BY InsertLemma
  <1> HIDE DEF inserted
  <1>3. /\ Good(joined)
        /\ \A c : Run(c) /\ Clear(inserted, c) => Clear(joined, c)
        /\ \A g \in Nat : Spans(inserted, g) => Spans(joined, g)
    <2>1. CASE i > 1
      <3>1. i - 1 \in 1 .. Len(inserted)
        BY <1>1, <1>2, <2>1
      <3> QED
        BY <1>2, <2>1, <3>1, CoalesceLemma
    <2>2. CASE ~(i > 1)
      BY <1>2, <2>2
    <2> QED
      BY <2>1, <2>2
  <1> HIDE DEF joined
  <1>4. /\ Good(linked)
        /\ \A c : Run(c) /\ Clear(joined, c) => Clear(linked, c)
        /\ \A g \in Nat : Spans(joined, g) => Spans(linked, g)
    <2>1. CASE Len(joined) = Len(inserted)
      <3>1. i \in 1 .. Len(joined)
        BY <1>1, <1>2, <2>1
      <3> QED
        BY <1>3, <2>1, <3>1, CoalesceLemma
    <2>2. CASE Len(joined) # Len(inserted)
      BY <1>3, <2>2
    <2> QED
      BY <2>1, <2>2
  <1>5. linked = Linked(list, i, b)
    BY DEF Linked, joined, inserted
  <1> HIDE DEF linked
  <1> QED
    BY <1>2, <1>3, <1>4, <1>5

(* Taking the front of a block, or all of it: what is left is in order and *)
(* clear of what was taken, and together they cover what the list covered. *)
LEMMA TakeLemma ==
  ASSUME NEW list, Good(list), NEW i \in 1 .. Len(list),
         NEW need \in Nat, need >= MinBlock, list[i].size >= need
  PROVE  /\ Good(Remaining(list, i, need))
         /\ Taken(list, i, need) \in Blocks
         /\ InHeap(Taken(list, i, need))
         /\ Taken(list, i, need).size >= need
         /\ Clear(Remaining(list, i, need), Taken(list, i, need))
         /\ \A c : Run(c) /\ Clear(list, c) =>
              Clear(Remaining(list, i, need), c) /\ Apart(Taken(list, i, need), c)
         /\ \A g \in Nat : Spans(list, g) =>
              Spans(Remaining(list, i, need), g) \/ Covers(Taken(list, i, need), g)
PROOF
  <1>1. /\ list \in Seq(Blocks) /\ Len(list) \in Nat
        /\ list[i] \in Blocks /\ InHeap(list[i])
    BY DEF Good, Ordered
  <1>2. CASE ~Splits(list, i, need)
    <2>1. /\ Remaining(list, i, need) = DropBlock(list, i)
          /\ Taken(list, i, need) = list[i]
      BY <1>2 DEF Remaining, Taken
    <2>2. \A c : Clear(list, c) => Apart(list[i], c)
      BY DEF Clear
    <2> QED
      BY <1>1, <2>1, <2>2, DropLemma
  <1>3. CASE Splits(list, i, need)
    <2> DEFINE t   == [at |-> list[i].at, size |-> need]
               r   == [at |-> list[i].at + need, size |-> list[i].size - need]
               new == [list EXCEPT ![i] = r]
    <2>1. Remaining(list, i, need) = new /\ Taken(list, i, need) = t
      BY <1>3 DEF Remaining, Taken
    <2>2. list[i].size - need >= MinBlock
      BY <1>3 DEF Splits
    <2>3. t \in Blocks /\ InHeap(t) /\ r \in Blocks /\ InHeap(r)
      <3>1. list[i].at \in Nat /\ list[i].size \in Nat
        BY <1>1 DEF Blocks
      <3>2. Base <= list[i].at /\ list[i].at + list[i].size <= Limit
        BY <1>1 DEF InHeap
      <3>3. t \in Blocks /\ InHeap(t)
        BY <3>1, <3>2, HeapAssumption DEF Blocks, InHeap, MinBlock
      <3>4. r \in Blocks /\ InHeap(r)
        BY <2>2, <3>1, <3>2, HeapAssumption DEF Blocks, InHeap, MinBlock
      <3> QED
        BY <3>3, <3>4
    <2>4. /\ r.at = t.at + t.size /\ t.at = list[i].at
          /\ r.at + r.size = list[i].at + list[i].size /\ t.size = need
      BY <1>1 DEF Blocks
    <2> HIDE DEF t, r
    <2>5. ASSUME NEW j \in 1 .. Len(list)
          PROVE  /\ j < i => list[j].at + list[j].size <= r.at
                 /\ j < i => list[j].at + list[j].size <= t.at
                 /\ i < j => r.at + r.size <= list[j].at
      <3>1. list[j] \in Blocks
        BY <1>1
      <3>2. ASSUME j < i PROVE /\ list[j].at + list[j].size <= r.at
                               /\ list[j].at + list[j].size <= t.at
        <4>1. list[j].at + list[j].size <= list[i].at
          BY <3>2 DEF Good, Ordered
        <4> QED
          BY <2>3, <2>4, <3>1, <4>1 DEF Blocks
      <3>3. ASSUME i < j PROVE r.at + r.size <= list[j].at
        BY <2>4, <3>3 DEF Good, Ordered
      <3> QED
        BY <3>2, <3>3
    <2>6. /\ Good(new) /\ Len(new) = Len(list)
          /\ \A j \in 1 .. Len(list) : new[j] = IF j = i THEN r ELSE list[j]
      BY <2>3, <2>5, ReplaceLemma
    <2> HIDE DEF new
    <2>7. Clear(new, t)
      <3> SUFFICES ASSUME NEW j \in 1 .. Len(list) PROVE Apart(new[j], t)
        BY <2>6 DEF Clear
      <3>1. CASE j = i
        BY <2>3, <2>4, <2>6, <3>1 DEF Apart, Blocks
      <3>2. CASE j < i
        BY <2>5, <2>6, <3>2 DEF Apart
      <3>3. CASE j > i
        <4>1. r.at + r.size <= list[j].at /\ new[j] = list[j] /\ list[j] \in Blocks
          BY <1>1, <2>5, <2>6, <3>3
        <4> QED
          BY <2>3, <2>4, <4>1 DEF Apart, Blocks
      <3> QED
        BY <1>1, <3>1, <3>2, <3>3
    <2>8. ASSUME NEW c, Run(c), Clear(list, c)
          PROVE  Clear(new, c) /\ Apart(t, c)
      <3>1. Apart(list[i], c)
        BY <2>8 DEF Clear
      <3>2. Apart(r, c) /\ Apart(t, c)
        <4>1. /\ list[i].at \in Nat /\ list[i].size \in Nat
              /\ r.at \in Nat /\ r.size \in Nat /\ t.at \in Nat /\ t.size \in Nat
              /\ c.at \in Nat /\ c.size \in Nat
          BY <1>1, <2>3, <2>8 DEF Run, Blocks
        <4>2. CASE list[i].at + list[i].size <= c.at
          BY <2>4, <4>1, <4>2 DEF Apart
        <4>3. CASE c.at + c.size <= list[i].at
          BY <2>4, <4>1, <4>3 DEF Apart
        <4> QED
          BY <3>1, <4>2, <4>3 DEF Apart
      <3> QED
        BY <2>6, <2>8, <3>2 DEF Clear
    <2>9. ASSUME NEW g \in Nat, Spans(list, g)
          PROVE  Spans(new, g) \/ Covers(t, g)
      <3>1. PICK j \in 1 .. Len(list) : Covers(list[j], g)
        BY <2>9 DEF Spans
      <3>2. CASE j = i
        <4>1. Covers(r, g) \/ Covers(t, g)
          BY <1>1, <2>3, <2>4, <3>1, <3>2 DEF Covers, Blocks
        <4> QED
          BY <2>6, <4>1 DEF Spans
      <3>3. CASE j # i
        BY <2>6, <3>1, <3>3 DEF Spans
      <3> QED
        BY <3>2, <3>3
    <2>10. t.size >= need
      BY <2>4
    <2> QED
      BY <2>1, <2>3, <2>6, <2>7, <2>8, <2>9, <2>10
  <1> QED
    BY <1>2, <1>3

(* The block taken for a request is one the header checks accept, with a   *)
(* payload no shorter than the request.                                    *)
LEMMA NeededLemma ==
  ASSUME NEW bytes \in Nat \ {0}
  PROVE  /\ Needed(bytes) \in Nat /\ Needed(bytes) >= MinBlock
         /\ bytes <= (Needed(bytes) - Header) * Align
PROOF
  <1> DEFINE q == (bytes + 15) \div 16
  <1>1. q \in Nat /\ bytes <= q * 16 /\ q >= 1
    OBVIOUS
  <1>2. Needed(bytes) = IF q + 1 < 2 THEN 2 ELSE q + 1
    BY DEF Needed, Align, Header, MinBlock
  <1> HIDE DEF q
  <1> QED
    BY <1>1, <1>2 DEF MinBlock, Header, Align

-----------------------------------------------------------------------------
(* The inductive invariant, of a free list and the blocks clients hold.    *)
Sound(list, held) ==
  /\ Good(list)
  /\ held \subseteq HeldBlocks
  /\ \A b \in held : InHeap(b) /\ b.want <= PayloadBytes(b) /\ Clear(list, b)
  /\ \A b, c \in held : b # c => Apart(b, c)
  /\ Limit - Base >= MinBlock =>
       \A g \in Base .. Limit - 1 : Spans(list, g) \/ \E b \in held : Covers(b, g)

IInv == Sound(free, live)

(* A request granted from a fitting block.                                 *)
LEMMA GrantLemma ==
  ASSUME NEW list, NEW held, Sound(list, held), NEW bytes \in Requests,
         NEW i \in 1 .. Len(list), list[i].size >= Needed(bytes)
  PROVE  LET h == Held(Taken(list, i, Needed(bytes)), bytes)
         IN  /\ Sound(Remaining(list, i, Needed(bytes)), held \cup {h})
             /\ \A b \in held : Apart(h, b) /\ h # b
PROOF
  <1> DEFINE need == Needed(bytes)
             t    == Taken(list, i, need)
             rest == Remaining(list, i, need)
             h    == Held(t, bytes)
  <1>1. /\ need \in Nat /\ need >= MinBlock /\ bytes <= (need - Header) * Align
        /\ bytes \in Nat
    BY NeededLemma, HeapAssumption
  <1>2. Good(list) /\ held \subseteq HeldBlocks
    BY DEF Sound
  <1> HIDE DEF need
  <1>3. /\ Good(rest) /\ t \in Blocks /\ InHeap(t) /\ t.size >= need
        /\ Clear(rest, t)
        /\ \A c : Run(c) /\ Clear(list, c) => Clear(rest, c) /\ Apart(t, c)
        /\ \A g \in Nat : Spans(list, g) => Spans(rest, g) \/ Covers(t, g)
    BY <1>1, <1>2, TakeLemma DEF need
  <1> HIDE DEF t, rest
  <1>4. h.at = t.at /\ h.size = t.size /\ h.want = bytes /\ h \in HeldBlocks
    BY <1>3 DEF Held, HeldBlocks, Blocks
  <1> HIDE DEF h
  <1>5. InHeap(h) /\ Clear(rest, h)
    BY <1>3, <1>4 DEF InHeap, Clear, Apart
  <1>6. h.want <= PayloadBytes(h)
    <2>1. PayloadBytes(h) = (t.size - 1) * 16 /\ t.size \in Nat /\ t.size >= need
      BY <1>3, <1>4, <1>1 DEF PayloadBytes, Header, Align, MinBlock, Blocks
    <2> QED
      BY <1>1, <1>4, <2>1 DEF Header, Align
  <1>7. ASSUME NEW b \in held
        PROVE  Clear(rest, b) /\ Apart(h, b) /\ Apart(b, h) /\ h # b
    <2>1. Run(b) /\ Clear(list, b) /\ b \in HeldBlocks
      BY <1>2, <1>7 DEF Run, Sound, HeldBlocks
    <2>2. Clear(rest, b) /\ Apart(t, b)
      BY <1>3, <2>1
    <2>3. Apart(h, b) /\ Apart(b, h)
      BY <1>4, <2>2 DEF Apart
    <2>4. ~Apart(b, b)
      BY <2>1 DEF Run, Apart
    <2> QED
      BY <2>2, <2>3, <2>4
  <1>8. ASSUME Limit - Base >= MinBlock, NEW g \in Base .. Limit - 1
        PROVE  Spans(rest, g) \/ \E b \in held \cup {h} : Covers(b, g)
    <2>1. g \in Nat
      BY HeapAssumption
    <2>2. Covers(t, g) => Covers(h, g)
      BY <1>4 DEF Covers
    <2> QED
      BY <1>3, <1>8, <2>1, <2>2 DEF Sound
  <1>9. Sound(rest, held \cup {h})
    <2>1. \A b \in held : InHeap(b) /\ b.want <= PayloadBytes(b)
      BY DEF Sound
    <2>2. \A b, c \in held : b # c => Apart(b, c)
      BY DEF Sound
    <2> QED
      BY <1>2, <1>3, <1>4, <1>5, <1>6, <1>7, <1>8, <2>1, <2>2 DEF Sound
  <1> QED
    BY <1>7, <1>9 DEF h, t, rest, need

(* A block given back.                                                     *)
LEMMA ReleaseLemma ==
  ASSUME NEW list, NEW held, Sound(list, held), NEW b \in held,
         NEW i \in 1 .. Len(list) + 1, IsPlace(list, i, b)
  PROVE  Sound(Linked(list, i, Unheld(b)), held \ {b})
PROOF
  <1> DEFINE u    == Unheld(b)
             new  == Linked(list, i, u)
             rest == held \ {b}
  <1>1. /\ Good(list) /\ held \subseteq HeldBlocks /\ b \in HeldBlocks
        /\ InHeap(b) /\ Clear(list, b)
        /\ \A c \in held : InHeap(c) /\ c.want <= PayloadBytes(c) /\ Clear(list, c)
        /\ \A c, d \in held : c # d => Apart(c, d)
    BY DEF Sound
  <1>2. u.at = b.at /\ u.size = b.size /\ u \in Blocks
    BY <1>1 DEF Unheld, Blocks, HeldBlocks
  <1> HIDE DEF u
  <1>3. InHeap(u) /\ Clear(list, u) /\ IsPlace(list, i, u)
    BY <1>1, <1>2 DEF InHeap, Clear, Apart, IsPlace
  <1>4. /\ Good(new)
        /\ \A c : Run(c) /\ Clear(list, c) /\ Apart(u, c) => Clear(new, c)
        /\ \A g \in Nat : Spans(list, g) \/ Covers(u, g) => Spans(new, g)
    BY <1>1, <1>2, <1>3, LinkedLemma
  <1> HIDE DEF new
  <1>5. ASSUME NEW c \in rest PROVE Clear(new, c)
    <2>1. Run(c) /\ Clear(list, c) /\ Apart(b, c)
      BY <1>1, <1>5 DEF Run, HeldBlocks
    <2>2. Apart(u, c)
      BY <1>2, <2>1 DEF Apart
    <2> QED
      BY <1>4, <2>1, <2>2
  <1>6. ASSUME Limit - Base >= MinBlock, NEW g \in Base .. Limit - 1
        PROVE  Spans(new, g) \/ \E c \in rest : Covers(c, g)
    <2>1. g \in Nat
      BY HeapAssumption
    <2>2. Spans(list, g) \/ \E c \in held : Covers(c, g)
      BY <1>6 DEF Sound
    <2>3. Covers(b, g) => Covers(u, g)
      BY <1>2 DEF Covers
    <2> QED
      BY <1>4, <2>1, <2>2, <2>3
  <1>7. Sound(new, rest)
    BY <1>1, <1>4, <1>5, <1>6 DEF Sound
  <1> QED
    BY <1>7 DEF new, u

(* A move is a grant followed by a release.                                *)
LEMMA MoveLemma ==
  ASSUME NEW list, NEW held, Sound(list, held), NEW b \in held,
         NEW bytes \in Requests, NEW i \in 1 .. Len(list),
         list[i].size >= Needed(bytes),
         NEW k \in 1 .. Len(Remaining(list, i, Needed(bytes))) + 1,
         IsPlace(Remaining(list, i, Needed(bytes)), k, b)
  PROVE  Sound(Linked(Remaining(list, i, Needed(bytes)), k, Unheld(b)),
               (held \ {b}) \cup {Held(Taken(list, i, Needed(bytes)), bytes)})
PROOF
  <1> DEFINE h    == Held(Taken(list, i, Needed(bytes)), bytes)
             rest == Remaining(list, i, Needed(bytes))
  <1>1. Sound(rest, held \cup {h}) /\ h # b
    BY GrantLemma
  <1> HIDE DEF h, rest
  <1>2. Sound(Linked(rest, k, Unheld(b)), (held \cup {h}) \ {b})
    BY <1>1, ReleaseLemma DEF rest
  <1>3. (held \cup {h}) \ {b} = (held \ {b}) \cup {h}
    BY <1>1
  <1> QED
    BY <1>2, <1>3 DEF h, rest

LEMMA InitLemma == Init => IInv
PROOF
  <1> SUFFICES ASSUME Init PROVE IInv
    OBVIOUS
  <1>1. CASE Limit - Base < MinBlock
    <2>1. free = << >> /\ live = {}
      BY <1>1 DEF Init
    <2> QED
      BY <1>1, <2>1, HeapAssumption
      DEF IInv, Sound, Good, Ordered, MinBlock
  <1>2. CASE ~(Limit - Base < MinBlock)
    <2> DEFINE b == [at |-> Base, size |-> Limit - Base]
    <2>1. free = <<b>> /\ live = {}
      BY <1>2 DEF Init
    <2>2. b \in Blocks /\ InHeap(b)
      BY <1>2, HeapAssumption DEF Blocks, InHeap, MinBlock
    <2>3. \A g \in Base .. Limit - 1 : Covers(b, g)
      BY HeapAssumption DEF Covers
    <2> HIDE DEF b
    <2>4. Len(free) = 1 /\ free[1] = b /\ free \in Seq(Blocks)
      BY <2>1, <2>2
    <2>5. Good(free)
      BY <2>2, <2>4 DEF Good, Ordered
    <2>6. \A g \in Base .. Limit - 1 : Spans(free, g)
      BY <2>3, <2>4 DEF Spans
    <2> QED
      BY <2>1, <2>5, <2>6 DEF IInv, Sound
  <1> QED
    BY <1>1, <1>2

LEMMA NextLemma == IInv /\ [Next]_vars => IInv'
PROOF
  <1> SUFFICES ASSUME IInv, [Next]_vars PROVE IInv'
    OBVIOUS
  <1>0. Sound(free, live) /\ live \subseteq HeldBlocks
    BY DEF IInv, Sound
  <1>1. ASSUME NEW bytes \in Requests, Alloc(bytes) PROVE IInv'
    <2>1. PICK i \in 1 .. Len(free) :
            /\ free[i].size >= Needed(bytes)
            /\ free' = Remaining(free, i, Needed(bytes))
            /\ live' = live \cup {Held(Taken(free, i, Needed(bytes)), bytes)}
      BY <1>1 DEF Alloc, IsFirstFit
    <2>2. Sound(free', live')
      BY <1>0, <2>1, GrantLemma
    <2> QED
      BY <2>2 DEF IInv
  <1>2. ASSUME NEW b \in live, Free(b) PROVE IInv'
    <2>1. Accepted(b)
      BY <1>0, HeapAssumption DEF Accepted, Sound, InHeap, HeldBlocks, MinBlock, Header
    <2>2. PICK i \in 1 .. Len(free) + 1 :
            IsPlace(free, i, b) /\ free' = Linked(free, i, Unheld(b))
      BY <1>2, <2>1 DEF Free
    <2>3. live' = live \ {b}
      BY <1>2 DEF Free
    <2>4. Sound(free', live')
      BY <1>0, <2>2, <2>3, ReleaseLemma
    <2> QED
      BY <2>4 DEF IInv
  <1>3. ASSUME NEW b \in live, NEW bytes \in Requests, ReallocInPlace(b, bytes)
        PROVE  IInv'
    <2> DEFINE h == Held(b, bytes)
    <2>1. /\ bytes <= PayloadBytes(b)
          /\ free' = free /\ live' = (live \ {b}) \cup {h}
      BY <1>3, <1>0, HeapAssumption
      DEF ReallocInPlace, PayloadBytes, HeldBlocks, Header, Align
    <2>2. b \in HeldBlocks /\ Good(free) /\ InHeap(b) /\ Clear(free, b)
      BY <1>0 DEF Sound
    <2>3. h.at = b.at /\ h.size = b.size /\ h.want = bytes /\ h \in HeldBlocks
      BY <2>2 DEF Held, HeldBlocks
    <2> HIDE DEF h
    <2>4. InHeap(h) /\ h.want <= PayloadBytes(h) /\ Clear(free, h)
      BY <2>1, <2>2, <2>3 DEF InHeap, PayloadBytes, Clear, Apart
    <2>5. \A c \in live \ {b} : Apart(h, c) /\ Apart(c, h)
      BY <1>0, <2>3 DEF Sound, Apart
    <2>6. ASSUME Limit - Base >= MinBlock, NEW g \in Base .. Limit - 1
          PROVE  Spans(free, g) \/ \E c \in (live \ {b}) \cup {h} : Covers(c, g)
      <3>1. Spans(free, g) \/ \E c \in live : Covers(c, g)
        BY <1>0, <2>6 DEF Sound
      <3>2. Covers(b, g) => Covers(h, g)
        BY <2>3 DEF Covers
      <3> QED
        BY <3>1, <3>2
    <2>7. Sound(free, (live \ {b}) \cup {h})
      BY <1>0, <2>2, <2>3, <2>4, <2>5, <2>6 DEF Sound
    <2> QED
      BY <2>1, <2>7 DEF IInv
  <1>4. ASSUME NEW b \in live, NEW bytes \in Requests, ReallocMove(b, bytes)
        PROVE  IInv'
    <2>1. Accepted(b)
      BY <1>0, HeapAssumption DEF Accepted, Sound, InHeap, HeldBlocks, MinBlock, Header
    <2>2. PICK i \in 1 .. Len(free) :
            /\ free[i].size >= Needed(bytes)
            /\ \E k \in 1 .. Len(Remaining(free, i, Needed(bytes))) + 1 :
                 /\ IsPlace(Remaining(free, i, Needed(bytes)), k, b)
                 /\ free' = Linked(Remaining(free, i, Needed(bytes)), k, Unheld(b))
            /\ live' = (live \ {b})
                       \cup {Held(Taken(free, i, Needed(bytes)), bytes)}
      BY <1>4, <2>1 DEF ReallocMove, IsFirstFit
    <2>3. Sound(free', live')
      BY <1>0, <2>2, MoveLemma
    <2> QED
      BY <2>3 DEF IInv
  <1>5. CASE UNCHANGED vars
    BY <1>5 DEF vars, IInv
  <1> QED
    BY <1>1, <1>2, <1>3, <1>4, <1>5 DEF Next

LEMMA Inductive == Spec => []IInv
PROOF
  BY InitLemma, NextLemma, PTL DEF Spec

(* The list and the blocks in use keep their shapes under every sequence   *)
(* of alloc, free and realloc.                                             *)
THEOREM TypeCorrect == Spec => []TypeOK
PROOF
  <1>1. IInv => TypeOK
    BY DEF IInv, Sound, Good, TypeOK
  <1> QED
    BY <1>1, Inductive, PTL

(* No two clients, and no client and the free list, ever share memory, and *)
(* the list stays in address order.                                        *)
THEOREM HeapSafe == Spec => []NoOverlap
PROOF
  <1>1. IInv => NoOverlap
    <2> SUFFICES ASSUME IInv PROVE NoOverlap
      OBVIOUS
    <2>1. FreeListOrdered
      BY DEF IInv, Sound, Good, Ordered, FreeListOrdered
    <2>2. LiveApart /\ FreeLiveApart
      BY DEF IInv, Sound, Clear, LiveApart, FreeLiveApart
    <2> QED
      BY <2>1, <2>2 DEF NoOverlap
  <1> QED
    BY <1>1, Inductive, PTL

(* Every granule of the heap stays in a free block or in a client's.       *)
THEOREM HeapConserved == Spec => []NothingLost
PROOF
  <1>1. IInv => NothingLost
    BY DEF IInv, Sound, Spans, NothingLost
  <1> QED
    BY <1>1, Inductive, PTL

(* What a client was granted is never shorter than what it asked for, also *)
(* when realloc keeps the pointer.                                         *)
THEOREM RequestsFit == Spec => []RequestFits
PROOF
  <1>1. IInv => RequestFits
    BY DEF IInv, Sound, RequestFits
  <1> QED
    BY <1>1, Inductive, PTL

-----------------------------------------------------------------------------
(* The payload of a block in use, as AllocatorSpec sees it.                *)
Owned(b) == [at |-> b.at + Header, len |-> b.size - Header, want |-> b.want]

(* A block in use carries a payload the promise allows, and blocks that do *)
(* not touch carry payloads that do not overlap.                           *)
LEMMA OwnedLemma ==
  ASSUME NEW b \in HeldBlocks, InHeap(b), b.want <= PayloadBytes(b)
  PROVE  /\ Owned(b).at \in Base .. Limit - 1
         /\ Owned(b).len \in 1 .. Limit - Owned(b).at
         /\ b.want <= Owned(b).len * Align
         /\ Owned(b) = Promise!Payload(Owned(b).at, Owned(b).len, b.want)
         /\ \A c \in HeldBlocks : Apart(b, c) => ~Promise!Overlap(Owned(b), Owned(c))
PROOF
  <1>1. /\ b.at \in Nat /\ b.size \in Nat /\ b.size >= 2
        /\ Base <= b.at /\ b.at + b.size <= Limit
    BY DEF HeldBlocks, InHeap, MinBlock
  <1>2. Owned(b).at = b.at + 1 /\ Owned(b).len = b.size - 1
    BY DEF Owned, Header
  <1>3. b.want <= Owned(b).len * Align
    BY <1>1, <1>2 DEF PayloadBytes, Header, Align
  <1>4. Owned(b) = Promise!Payload(Owned(b).at, Owned(b).len, b.want)
    BY DEF Owned, Promise!Payload
  <1>5. ASSUME NEW c \in HeldBlocks, Apart(b, c)
        PROVE  ~Promise!Overlap(Owned(b), Owned(c))
    <2>1. Owned(c).at = c.at + 1 /\ Owned(c).len = c.size - 1
      BY DEF Owned, Header
    <2>2. c.at \in Nat /\ c.size \in Nat
      BY DEF HeldBlocks
    <2> QED
      BY <1>1, <1>2, <1>5, <2>1, <2>2 DEF Apart, Promise!Overlap
  <1>6. Owned(b).at \in Base .. Limit - 1 /\ Owned(b).len \in 1 .. Limit - Owned(b).at
    BY <1>1, <1>2, HeapAssumption
  <1> QED
    BY <1>3, <1>4, <1>5, <1>6

(* Blocks in use at different places carry different payloads.             *)
LEMMA OwnedInjective ==
  ASSUME NEW b \in HeldBlocks, NEW c \in HeldBlocks, Owned(b) = Owned(c)
  PROVE  b = c
PROOF
  <1>1. b.at + 1 = c.at + 1 /\ b.size - 1 = c.size - 1 /\ b.want = c.want
    BY DEF Owned, Header
  <1>2. b.at = c.at /\ b.size = c.size
    BY <1>1 DEF HeldBlocks
  <1> QED
    BY <1>1, <1>2 DEF HeldBlocks

OwnedSet(held) == {Owned(b) : b \in held}

(* A grant, or a move, hands out a payload that fits.                      *)
LEMMA HandOutLemma ==
  ASSUME NEW list, NEW held, Sound(list, held), NEW bytes \in Requests,
         NEW i \in 1 .. Len(list), list[i].size >= Needed(bytes)
  PROVE  LET p == Owned(Held(Taken(list, i, Needed(bytes)), bytes))
         IN  /\ p.at \in Base .. Limit - 1 /\ p.len \in 1 .. Limit - p.at
             /\ p.want = bytes /\ p = Promise!Payload(p.at, p.len, bytes)
             /\ bytes <= p.len * Align
             /\ \A q \in OwnedSet(held) : ~Promise!Overlap(p, q)
PROOF
  <1> DEFINE h == Held(Taken(list, i, Needed(bytes)), bytes)
             p == Owned(h)
  <1>1. /\ Sound(Remaining(list, i, Needed(bytes)), held \cup {h})
        /\ \A b \in held : Apart(h, b)
    BY GrantLemma
  <1>2. h.want = bytes
    BY DEF Held
  <1> HIDE DEF h
  <1>3. h \in HeldBlocks /\ InHeap(h) /\ h.want <= PayloadBytes(h)
    BY <1>1 DEF Sound
  <1>4. held \subseteq HeldBlocks
    BY DEF Sound
  <1>5. /\ p.at \in Base .. Limit - 1 /\ p.len \in 1 .. Limit - p.at
        /\ h.want <= p.len * Align
        /\ p = Promise!Payload(p.at, p.len, h.want)
        /\ \A c \in HeldBlocks : Apart(h, c) => ~Promise!Overlap(p, Owned(c))
    BY <1>3, OwnedLemma
  <1>6. p.want = h.want
    BY DEF Owned
  <1> HIDE DEF p
  <1>7. \A q \in OwnedSet(held) : ~Promise!Overlap(p, q)
    BY <1>1, <1>4, <1>5 DEF OwnedSet
  <1> QED
    BY <1>2, <1>5, <1>6, <1>7 DEF p, h

(* Every call of the detailed heap is a call the promise allows.           *)
LEMMA StepRefines ==
  IInv /\ [Next]_vars =>
    [Promise!Next]_(OwnedSet(live))
PROOF
  <1> SUFFICES ASSUME IInv, Next
               PROVE  Promise!Next \/ UNCHANGED OwnedSet(live)
    BY DEF vars, OwnedSet
  <1> DEFINE owned == OwnedSet(live)
  <1>0. Sound(free, live) /\ live \subseteq HeldBlocks
    BY DEF IInv, Sound
  <1>1. ASSUME NEW bytes \in Requests, Alloc(bytes) PROVE Promise!Grant
    <2>1. PICK i \in 1 .. Len(free) :
            /\ free[i].size >= Needed(bytes)
            /\ live' = live \cup {Held(Taken(free, i, Needed(bytes)), bytes)}
      BY <1>1 DEF Alloc, IsFirstFit
    <2> DEFINE h == Held(Taken(free, i, Needed(bytes)), bytes)
               p == Owned(h)
    <2>2. /\ p.at \in Base .. Limit - 1 /\ p.len \in 1 .. Limit - p.at
          /\ p.want = bytes /\ p = Promise!Payload(p.at, p.len, bytes)
          /\ bytes <= p.len * Align
          /\ \A q \in owned : ~Promise!Overlap(p, q)
      BY <1>0, <2>1, HandOutLemma
    <2>3. owned' = (owned \ {}) \cup {p}
      BY <2>1 DEF OwnedSet
    <2> HIDE DEF p
    <2> QED
      BY <2>2, <2>3 DEF Promise!Grant, Promise!HandOut, Promise!Fits, OwnedSet, Owned
  <1>2. ASSUME NEW b \in live, Free(b) PROVE Promise!Release
    <2>1. live' = live \ {b}
      BY <1>2 DEF Free
    <2>2. owned' = owned \ {Owned(b)}
      BY <1>0, <2>1, OwnedInjective DEF OwnedSet
    <2> QED
      BY <2>2 DEF Promise!Release, OwnedSet, Owned
  <1>3. ASSUME NEW b \in live, NEW bytes \in Requests, ReallocInPlace(b, bytes)
        PROVE  Promise!Extend
    <2>1. /\ bytes <= PayloadBytes(b)
          /\ live' = (live \ {b}) \cup {Held(b, bytes)}
      BY <1>3, <1>0, HeapAssumption
      DEF ReallocInPlace, PayloadBytes, HeldBlocks, Header, Align
    <2>2. b \in HeldBlocks /\ InHeap(b)
      BY <1>0 DEF Sound
    <2>3. bytes <= Owned(b).len * Align
      BY <2>1, <2>2 DEF Owned, PayloadBytes, HeldBlocks, InHeap, MinBlock, Header, Align
    <2>4. Owned(Held(b, bytes)) = [Owned(b) EXCEPT !.want = bytes]
      BY DEF Owned, Held
    <2>5. owned' = (owned \ {Owned(b)}) \cup {[Owned(b) EXCEPT !.want = bytes]}
      BY <1>0, <2>1, <2>4, OwnedInjective DEF OwnedSet
    <2> QED
      BY <2>3, <2>5 DEF Promise!Extend, OwnedSet, Owned
  <1>4. ASSUME NEW b \in live, NEW bytes \in Requests, ReallocMove(b, bytes)
        PROVE  Promise!Move
    <2>1. PICK i \in 1 .. Len(free) :
            /\ free[i].size >= Needed(bytes)
            /\ live' = (live \ {b})
                       \cup {Held(Taken(free, i, Needed(bytes)), bytes)}
      BY <1>4 DEF ReallocMove, IsFirstFit
    <2> DEFINE h == Held(Taken(free, i, Needed(bytes)), bytes)
               p == Owned(h)
    <2>2. /\ p.at \in Base .. Limit - 1 /\ p.len \in 1 .. Limit - p.at
          /\ p.want = bytes /\ p = Promise!Payload(p.at, p.len, bytes)
          /\ bytes <= p.len * Align
          /\ \A q \in owned : ~Promise!Overlap(p, q)
      BY <1>0, <2>1, HandOutLemma
    <2>3. owned' = (owned \ {Owned(b)}) \cup {p}
      BY <1>0, <2>1, OwnedInjective DEF OwnedSet
    <2> HIDE DEF p
    <2> DEFINE o == Owned(b)
    <2>4. Promise!HandOut({o})
      <3> HIDE DEF o
      <3>1. owned' = (owned \ {o}) \cup {p}
        BY <2>3 DEF o
      <3> QED
        BY <2>2, <3>1 DEF Promise!HandOut, Promise!Fits, OwnedSet, Owned
    <2>5. o \in owned
      BY DEF OwnedSet
    <2> HIDE DEF o
    <2> QED
      BY <2>4, <2>5 DEF Promise!Move, OwnedSet, Owned
  <1> QED
    BY <1>1, <1>2, <1>3, <1>4 DEF Next, Promise!Next

(* The heap implements what AllocatorSpec promises its clients.            *)
THEOREM HeapRefines == Spec => RefinesAllocator
PROOF
  <1>1. Init => Promise!Init
    BY DEF Init, Promise!Init
  <1>2. IInv /\ [Next]_vars => [Promise!Next]_(OwnedSet(live))
    BY StepRefines
  <1>3. [Promise!Next]_(OwnedSet(live)) => [Promise!Next]_({[at |-> b.at + Header, len |-> b.size - Header, want |-> b.want] : b \in live})
    BY DEF OwnedSet, Owned
  <1> QED
    BY <1>1, <1>2, <1>3, Inductive, PTL DEF Spec, RefinesAllocator, Promise!Spec

-----------------------------------------------------------------------------
(* The list has a block of at least n granules.                            *)
HasRoom(list, n) == \E j \in 1 .. Len(list) : list[j].size >= n

(* Joining blocks never takes room away.                                   *)
LEMMA RoomLemma ==
  ASSUME NEW list, Good(list), NEW i \in 1 .. Len(list), NEW n \in Nat,
         HasRoom(list, n)
  PROVE  HasRoom(CoalesceNext(list, i), n)
PROOF
  <1> DEFINE touch == i < Len(list) /\ list[i].at + list[i].size = list[i + 1].at
             b     == [at |-> list[i].at, size |-> list[i].size + list[i + 1].size]
             rest  == DropBlock(list, i + 1)
             new   == [rest EXCEPT ![i] = b]
  <1>1. CASE ~touch
    BY <1>1 DEF CoalesceNext
  <1>2. CASE touch
    <2>1. /\ list \in Seq(Blocks) /\ Len(list) \in Nat
          /\ i + 1 \in 1 .. Len(list) /\ i \in 1 .. Len(list) - 1
      BY <1>2 DEF Good
    <2>2. \A j \in 1 .. Len(list) :
            list[j] \in Blocks /\ list[j].at \in Nat /\ list[j].size \in Nat \ {0}
      <3>1. \A j \in 1 .. Len(list) : list[j] \in Blocks
        BY <2>1
      <3> QED
        BY <3>1 DEF Blocks
    <2>3. /\ rest \in Seq(Blocks) /\ Len(rest) = Len(list) - 1
          /\ \A j \in 1 .. Len(list) - 1 :
               rest[j] = IF j < i + 1 THEN list[j] ELSE list[j + 1]
      BY <2>1, DropLemma DEF Good
    <2> HIDE DEF rest
    <2>4. b.size = list[i].size + list[i + 1].size /\ b \in Blocks
      <3>1. /\ list[i].at \in Nat
            /\ list[i].size \in Nat \ {0} /\ list[i + 1].size \in Nat \ {0}
        BY <2>1, <2>2
      <3> QED
        BY <3>1 DEF Blocks
    <2> HIDE DEF b
    <2>5. /\ Len(new) = Len(list) - 1
          /\ \A j \in 1 .. Len(list) - 1 : new[j] = IF j = i THEN b ELSE rest[j]
      BY <2>1, <2>3, <2>4
    <2>6. new = CoalesceNext(list, i)
      BY <1>2 DEF CoalesceNext, b, rest
    <2> HIDE DEF new
    <2>7. PICK j \in 1 .. Len(list) : list[j].size >= n
      BY DEF HasRoom
    <2>8. CASE j \in {i, i + 1}
      <3>1. new[i].size >= n /\ i \in 1 .. Len(new)
        BY <2>1, <2>2, <2>4, <2>5, <2>7, <2>8
      <3> QED
        BY <2>6, <3>1 DEF HasRoom
    <2>9. CASE j < i
      <3>1. /\ j # i /\ j < i + 1 /\ j \in 1 .. Len(list) - 1 /\ j \in 1 .. Len(new)
        BY <2>1, <2>5, <2>9
      <3>2. new[j] = rest[j] /\ rest[j] = list[j]
        BY <2>3, <2>5, <3>1
      <3> QED
        BY <2>6, <2>7, <3>1, <3>2 DEF HasRoom
    <2>10. CASE j > i + 1
      <3>1. /\ j - 1 # i /\ ~(j - 1 < i + 1) /\ j - 1 + 1 = j
            /\ j - 1 \in 1 .. Len(list) - 1 /\ j - 1 \in 1 .. Len(new)
        BY <2>1, <2>5, <2>10
      <3>2. new[j - 1] = rest[j - 1] /\ rest[j - 1] = list[j]
        BY <2>3, <2>5, <3>1
      <3> QED
        BY <2>6, <2>7, <3>1, <3>2 DEF HasRoom
    <2> QED
      BY <2>1, <2>8, <2>9, <2>10
  <1> QED
    BY <1>1, <1>2

(* Freeing a block leaves room for it in one piece, also where the second  *)
(* call of heap_coalesce_next looks at a dead header.                      *)
LEMMA FreedRoomLemma ==
  ASSUME NEW list, Good(list), NEW b \in Blocks, InHeap(b), Clear(list, b),
         NEW i \in 1 .. Len(list) + 1, IsPlace(list, i, b)
  PROVE  HasRoom(Linked(list, i, b), b.size)
PROOF
  <1> DEFINE inserted == InsertBlock(list, i, b)
             joined   == IF i > 1 THEN CoalesceNext(inserted, i - 1) ELSE inserted
             linked   == IF Len(joined) = Len(inserted)
                         THEN CoalesceNext(joined, i) ELSE joined
  <1>1. Len(list) \in Nat /\ b.size \in Nat
    BY DEF Good, Blocks
  <1>2. Good(inserted) /\ Len(inserted) = Len(list) + 1 /\ inserted[i] = b
    BY InsertLemma
  <1>3. HasRoom(inserted, b.size)
    BY <1>1, <1>2 DEF HasRoom
  <1> HIDE DEF inserted
  <1>4. Good(joined) /\ HasRoom(joined, b.size)
    <2>1. CASE i > 1
      <3>1. i - 1 \in 1 .. Len(inserted)
        BY <1>1, <1>2, <2>1
      <3> QED
        BY <1>1, <1>2, <1>3, <2>1, <3>1, CoalesceLemma, RoomLemma
    <2>2. CASE ~(i > 1)
      BY <1>2, <1>3, <2>2
    <2> QED
      BY <2>1, <2>2
  <1> HIDE DEF joined
  <1>5. HasRoom(linked, b.size)
    <2>1. CASE Len(joined) = Len(inserted)
      <3>1. i \in 1 .. Len(joined)
        BY <1>1, <1>2, <2>1
      <3> QED
        BY <1>1, <1>4, <2>1, <3>1, RoomLemma
    <2>2. CASE Len(joined) # Len(inserted)
      BY <1>4, <2>2
    <2> QED
      BY <2>1, <2>2
  <1>6. linked = Linked(list, i, b)
    BY DEF Linked, joined, inserted
  <1> QED
    BY <1>5, <1>6

(* A client that frees a block and asks for as much again is not refused.  *)
THEOREM FreedRoomStays == Spec => []FreedIsReusable
PROOF
  <1>1. IInv => FreedIsReusable
    <2> SUFFICES ASSUME IInv, NEW b \in live, NEW i \in 1 .. Len(free) + 1,
                        IsPlace(free, i, b)
                 PROVE  HasRoom(Linked(free, i, Unheld(b)), b.size)
      BY DEF FreedIsReusable, HasRoom
    <2> DEFINE u == Unheld(b)
    <2>1. Good(free) /\ b \in HeldBlocks /\ InHeap(b) /\ Clear(free, b)
      BY DEF IInv, Sound
    <2>2. u.at = b.at /\ u.size = b.size /\ u \in Blocks
      BY <2>1 DEF Unheld, Blocks, HeldBlocks
    <2> HIDE DEF u
    <2>3. InHeap(u) /\ Clear(free, u) /\ IsPlace(free, i, u)
      BY <2>1, <2>2 DEF InHeap, Clear, Apart, IsPlace
    <2>4. HasRoom(Linked(free, i, u), u.size)
      BY <2>1, <2>2, <2>3, FreedRoomLemma
    <2> QED
      BY <2>2, <2>4 DEF u
  <1> QED
    BY <1>1, Inductive, PTL

-----------------------------------------------------------------------------
(***************************************************************************)
(* What a successful blob_load means, and that it leaks nothing, for every *)
(* payload, every number of failing reads and every limit on retries.      *)
(***************************************************************************)
(* The program points at which the staging buffer is not taken.            *)
WithoutStage == {"idle", "rom", "stage", "done"}

StageInv ==
  /\ pc \in {"idle", "rom", "stage", "header", "block", "try", "decode",
             "table", "output", "free", "done"}
  /\ pc \in WithoutStage => stage = "none"

LEMMA StageInduction == LoadSpec => []StageInv
PROOF
  <1>1. LoadInit => StageInv
    BY DEF LoadInit, StageInv
  <1>2. StageInv /\ [LoadNext]_loadVars => StageInv'
    <2> SUFFICES ASSUME StageInv, [LoadNext]_loadVars PROVE StageInv'
      OBVIOUS
    <2> USE DEF StageInv, WithoutStage
    <2>1. ASSUME NEW p \in Payloads, Call(p) PROVE StageInv'
      BY <2>1 DEF Call
    <2>2. ASSUME NEW key \in {"m", "x"}, Press(key) PROVE StageInv'
      BY <2>2 DEF Press, load
    <2>3. CASE CheckRom
      BY <2>3 DEF CheckRom, Give
    <2>4. CASE AllocStage
      BY <2>4 DEF AllocStage, Give
    <2>5. CASE ReadHeader
      BY <2>5 DEF ReadHeader, Leave
    <2>6. CASE Descriptor
      BY <2>6 DEF Descriptor, Leave
    <2>7. CASE Try
      BY <2>7 DEF Try, Leave
    <2>8. CASE Decode
      BY <2>8 DEF Decode, Leave
    <2>9. CASE Table
      BY <2>9 DEF Table, Leave
    <2>10. CASE Output
      BY <2>10 DEF Output, Leave
    <2>11. CASE FreeStage
      BY <2>11 DEF FreeStage
    <2>12. CASE Return
      BY <2>12 DEF Return, load
    <2>13. CASE UNCHANGED loadVars
      BY <2>13 DEF loadVars, load
    <2> QED
      BY <2>1, <2>2, <2>3, <2>4, <2>5, <2>6, <2>7, <2>8, <2>9, <2>10, <2>11,
         <2>12, <2>13 DEF LoadNext, Loader
  <1> QED
    BY <1>1, <1>2, PTL DEF LoadSpec

(* Every call gives its staging buffer back, also one that failed.         *)
THEOREM NoStageLeak == LoadSpec => []StageReturned
PROOF
  <1>1. StageInv => StageReturned
    BY DEF StageInv, WithoutStage, StageReturned
  <1> QED
    BY <1>1, StageInduction, PTL

-----------------------------------------------------------------------------
(* The program points inside the loop over the blocks and behind it.       *)
Expanding == {"block", "try", "decode", "table", "output"}
Running   == Expanding \cup {"rom", "stage", "header"}

(* What is true of the output while it grows.                              *)
OutputInv ==
  /\ payload \in Payloads /\ block \in Nat /\ misread \in Nat
  /\ pc \in Running =>
       payload.known /\ rc # "ok" /\ DOMAIN out = 1 .. payload.blocks /\ block >= 1
  /\ pc \in Expanding => payload.header /\ block <= payload.blocks + 1
  /\ pc \in {"try", "decode"} => block <= payload.blocks
  /\ pc \in {"table", "output"} => block = payload.blocks + 1
  /\ pc = "decode" => stage = "good" /\ block \notin payload.damaged
  /\ \A b \in DOMAIN out : out[b] = "good" => b \notin payload.damaged
  /\ pc \in {"rom", "stage", "header"} => block = 1
  /\ pc \in Expanding /\ misread = 0 => \A b \in 1 .. block - 1 : out[b] = "good"
  /\ ~aimed => misread >= (IF payload.based THEN 1 ELSE 2)

(* What success has established.                                           *)
SuccessInv ==
  rc = "ok" => /\ payload.known /\ payload.header
               /\ DOMAIN out = 1 .. payload.blocks
               /\ misread <= (IF payload.whole THEN 1 ELSE 0) => OutputGood

LoadInv == OutputInv /\ SuccessInv

LEMMA LoadInitial == LoadInit => LoadInv
PROOF
  BY DEF LoadInit, LoadInv, OutputInv, SuccessInv, Running, Expanding

LEMMA LoadStep == LoadInv /\ [LoadNext]_loadVars => LoadInv'
PROOF
  <1> SUFFICES ASSUME LoadInv, [LoadNext]_loadVars PROVE LoadInv'
    OBVIOUS
  <1> USE DEF LoadInv, OutputInv, SuccessInv, Running, Expanding, OutputGood
  <1>1. ASSUME NEW p \in Payloads, Call(p) PROVE LoadInv'
    BY <1>1, LoadAssumption DEF Call
  <1>2. ASSUME NEW key \in {"m", "x"}, Press(key) PROVE LoadInv'
    BY <1>2 DEF Press, load
  <1>3. CASE CheckRom
    BY <1>3 DEF CheckRom, Give
  <1>4. CASE AllocStage
    BY <1>4, LoadAssumption DEF AllocStage, LoadAddr, Give, Misread, ReadRight
  <1>5. CASE ReadHeader
    BY <1>5, LoadAssumption DEF ReadHeader, Leave, Misread, ReadRight
  <1>6. CASE Descriptor
    BY <1>6, LoadAssumption DEF Descriptor, Leave, Misread, ReadRight
  <1>7. CASE Try
    BY <1>7, LoadAssumption DEF Try, Leave, Staged, Misread, ReadRight
  <1>8. CASE Decode
    BY <1>8, LoadAssumption DEF Decode, Expanded, Leave, Misread, ReadRight
  <1>9. CASE Table
    BY <1>9 DEF Table, Leave, Misread, ReadRight
  <1>10. CASE Output
    BY <1>10, LoadAssumption DEF Output, Leave, Misread, ReadRight
  <1>11. CASE FreeStage
    BY <1>11 DEF FreeStage
  <1>12. CASE Return
    BY <1>12 DEF Return, load
  <1>13. CASE UNCHANGED loadVars
    BY <1>13 DEF loadVars, load
  <1> QED
    BY <1>1, <1>2, <1>3, <1>4, <1>5, <1>6, <1>7, <1>8, <1>9, <1>10, <1>11,
       <1>12, <1>13 DEF LoadNext, Loader

(* A payload that blob_load says it loaded is in memory as it was built, at *)
(* the place it was built for unless the load address was misread.          *)
THEOREM SuccessIsRight == LoadSpec => []NeverSilentlyWrong
PROOF
  <1>1. LoadInv => NeverSilentlyWrong
    BY LoadAssumption
    DEF LoadInv, OutputInv, SuccessInv, NeverSilentlyWrong, OutputGood, Intact
  <1> QED
    BY <1>1, LoadInitial, LoadStep, PTL DEF LoadSpec

-----------------------------------------------------------------------------
(* The failing reads that a call without misread tables has behind it: as  *)
(* many for every failed try as it takes to spoil one.                     *)
Used == MaxGlitches - glitches

RetryInv ==
  /\ retry \in Nat /\ glitches \in 0 .. MaxGlitches
  /\ misread = 0 => placed
  /\ Intact(payload) /\ misread = 0 =>
       /\ pc = "rom" => retry * StableCost <= Used
       /\ pc = "try" => retry = 0 \/ 1 + (retry - 1) * StableCost <= Used
       /\ pc \in {"free", "done"} => rc = "ok" \/ Spoils(Used)

LEMMA CostIsPositive == StableCost \in Nat \ {0}
PROOF
  BY LoadAssumption DEF StableCost

LEMMA OneMoreTry ==
  ASSUME NEW n \in Nat, NEW c \in Nat
  PROVE  (n + 1) * c = n * c + c /\ n * c \in Nat /\ n # 0 => (n - 1) * c + c = n * c
PROOF
  OBVIOUS

LEMMA RetryInit == LoadInit => RetryInv
PROOF
  BY LoadAssumption DEF LoadInit, RetryInv

LEMMA RetryNext == StageInv /\ LoadInv /\ RetryInv /\ [LoadNext]_loadVars => RetryInv'
PROOF
  <1> SUFFICES ASSUME StageInv, LoadInv, RetryInv, [LoadNext]_loadVars PROVE RetryInv'
    OBVIOUS
  <1>t. /\ StableCost \in Nat /\ StableCost >= 1 /\ MaxGlitches \in Nat
        /\ Used \in Nat /\ retry * StableCost \in Nat
        /\ (retry + 1) * StableCost = retry * StableCost + StableCost
        /\ retry # 0 => (retry - 1) * StableCost + StableCost = retry * StableCost
        /\ RomTries \in Nat /\ BlockTries \in Nat
        /\ 0 * StableCost = 0
    BY CostIsPositive, OneMoreTry, LoadAssumption DEF RetryInv, Used
  <1>s. Spoils(Used)' <=> Spoils(Used')
    BY DEF Spoils
  <1>1. ASSUME NEW p \in Payloads, Call(p) PROVE RetryInv'
    BY <1>1, <1>t DEF Call, RetryInv, Intact, Used
  <1>2. ASSUME NEW key \in {"m", "x"}, Press(key) PROVE RetryInv'
    BY <1>2 DEF Press, load, RetryInv, Intact, Used, Spoils
  <1>3. CASE CheckRom
    <2>1. CASE pc' = "stage"
      BY <1>3, <2>1, <1>t DEF CheckRom, Give, Glitch, RetryInv, Intact, Used
    <2>2. CASE pc' # "stage"
      <3>1. /\ retry' = retry + 1 /\ UNCHANGED <<payload, placed, misread>>
            /\ Intact(payload) => Glitch(StableCost)
            /\ glitches' \in 0 .. MaxGlitches
            /\ pc = "rom"
            /\ IF retry + 1 = RomTries THEN pc' = "done" ELSE pc' = "rom"
        BY <1>3, <2>2, <1>t DEF CheckRom, Give, Glitch, RetryInv, Intact
      <3>2. Intact(payload) /\ misread = 0 => retry' * StableCost <= Used'
        BY <3>1, <1>t DEF RetryInv, Used, Glitch
      <3>3. Intact(payload) /\ misread = 0 /\ pc' = "done" => Spoils(Used')
        BY <3>1, <3>2, <1>t DEF Spoils, StableCost
      <3> QED
        BY <3>1, <3>2, <3>3, <1>s DEF RetryInv, Intact
    <2> QED
      BY <2>1, <2>2
  <1>4. CASE AllocStage
    BY <1>4, LoadAssumption DEF AllocStage, LoadAddr, Misread, ReadRight, Glitch, Give,
                RetryInv, Intact, Used, StageInv, WithoutStage, LoadInv, OutputInv
  <1>5. CASE ReadHeader
    BY <1>5, LoadAssumption DEF ReadHeader, Leave, Misread, ReadRight, Glitch, RetryInv, Intact, Used,
                LoadInv, OutputInv
  <1>6. CASE Descriptor
    BY <1>6, LoadAssumption DEF Descriptor, Leave, Misread, ReadRight, Glitch, RetryInv, Intact, Used,
                LoadInv, OutputInv
  <1>7. CASE Try
    <2>1. CASE stage' = "good"
      BY <1>7, <2>1, <1>t DEF Try, Staged, ReadRight, Glitch, RetryInv, Intact, Used
    <2>m. CASE Misread(1)
      <3>1. misread \in Nat /\ glitches' \in 0 .. MaxGlitches /\ misread' = misread + 1
        BY <2>m, <1>t DEF Misread, Glitch, LoadInv, OutputInv, RetryInv
      <3>2. misread' # 0
        BY <3>1
      <3>3. retry' \in Nat
        BY <1>7, <1>t DEF Try, RetryInv
      <3> QED
        BY <3>1, <3>2, <3>3 DEF RetryInv
    <2>2. CASE stage' # "good" /\ ~Misread(1)
      <3>1. /\ retry' = retry + 1 /\ UNCHANGED <<payload, placed, misread>>
            /\ Intact(payload) /\ misread = 0
                 => Glitch(IF retry = 0 THEN 1 ELSE StableCost)
            /\ glitches' \in 0 .. MaxGlitches
            /\ pc = "try"
            /\ IF retry + 1 = BlockTries THEN pc' = "free" ELSE pc' = "try"
        BY <1>7, <2>2, <1>t DEF Try, Leave, Staged, ReadRight, Glitch, RetryInv, Intact
      <3>2. Intact(payload) /\ misread = 0 => 1 + (retry' - 1) * StableCost <= Used'
        <4>1. retry' - 1 = retry
          BY <3>1 DEF RetryInv
        <4>2. CASE retry = 0
          BY <4>1, <4>2, <3>1, <1>t DEF RetryInv, Used, Glitch
        <4>3. CASE retry # 0
          <5> DEFINE before == (retry - 1) * StableCost
          <5>1. before \in Nat /\ before + StableCost = retry * StableCost
            BY <4>3, <1>t DEF RetryInv
          <5>2. Intact(payload) /\ misread = 0 =>
                  1 + before <= Used /\ Used' = Used + StableCost
            BY <4>3, <3>1, <1>t DEF RetryInv, Used, Glitch
          <5> HIDE DEF before
          <5> QED
            BY <4>1, <5>1, <5>2, <1>t
        <4> QED
          BY <4>2, <4>3
      <3>3. Intact(payload) /\ misread = 0 /\ pc' = "free" => Spoils(Used')
        BY <3>1, <3>2, <1>t DEF Spoils, StableCost
      <3> QED
        BY <3>1, <3>2, <3>3, <1>s DEF RetryInv, Intact
    <2> QED
      BY <2>1, <2>m, <2>2
  <1>8. CASE Decode
    BY <1>8, LoadAssumption DEF Decode, Leave, Misread, ReadRight, Glitch, RetryInv, Intact, Used,
                LoadInv, OutputInv
  <1>9. CASE Table
    BY <1>9, LoadAssumption DEF Table, Leave, Misread, ReadRight, Glitch, RetryInv, Intact, Used,
                LoadInv, OutputInv
  <1>10. CASE Output
    BY <1>10, LoadAssumption DEF Output, Leave, Misread, ReadRight, Glitch, RetryInv, Intact, Used,
                 LoadInv, OutputInv, OutputGood, Expanding, Running
  <1>11. CASE FreeStage
    BY <1>11 DEF FreeStage, RetryInv, Intact, Used, Spoils
  <1>12. CASE Return
    BY <1>12 DEF Return, load, RetryInv, Intact
  <1>13. CASE UNCHANGED loadVars
    BY <1>13 DEF loadVars, load, RetryInv, Intact, Used, Spoils
  <1> QED
    BY <1>1, <1>2, <1>3, <1>4, <1>5, <1>6, <1>7, <1>8, <1>9, <1>10, <1>11,
       <1>12, <1>13 DEF LoadNext, Loader

(* An intact payload is loaded unless the failing reads were enough to     *)
(* spoil every try at a block or at the CRC of the whole: the retries are  *)
(* worth what they cost.                                                   *)
THEOREM RetriesPay == LoadSpec => []IntactLoads
PROOF
  <1>1. RetryInv => IntactLoads
    BY DEF RetryInv, IntactLoads, Used
  <1>2. LoadSpec => [](StageInv /\ LoadInv)
    BY StageInduction, LoadInitial, LoadStep, PTL DEF LoadSpec
  <1> QED
    BY <1>1, <1>2, RetryInit, RetryNext, PTL DEF LoadSpec

-----------------------------------------------------------------------------
(* An m that was the last key is waiting in the serial port or has been    *)
(* remembered; nothing but the loader takes it, and the loader looks.      *)
THEOREM MaintenanceKeyKept == LoadSpec => []KeyKept
PROOF
  <1>1. LoadInit => KeyKept
    BY DEF LoadInit, KeyKept
  <1>2. KeyKept /\ [LoadNext]_loadVars => KeyKept'
    <2> SUFFICES ASSUME KeyKept, [LoadNext]_loadVars PROVE KeyKept'
      OBVIOUS
    <2>1. ASSUME NEW key \in {"m", "x"}, Press(key) PROVE KeyKept'
      BY <2>1 DEF Press, KeyKept
    <2>2. ASSUME Poll PROVE KeyKept'
      BY <2>2 DEF Poll, KeyKept
    <2>3. ASSUME UNCHANGED serial PROVE KeyKept'
      BY <2>3 DEF serial, KeyKept
    <2>4. ASSUME NEW p \in Payloads, Call(p) PROVE UNCHANGED serial
      BY <2>4 DEF Call
    <2>5. ASSUME Loader PROVE Poll \/ UNCHANGED serial
      <3>1. CASE CheckRom \/ AllocStage \/ ReadHeader \/ Table \/ Output \/ FreeStage \/ Return
        BY <3>1 DEF CheckRom, AllocStage, ReadHeader, Table, Output, FreeStage, Return
      <3>2. CASE Descriptor
        BY <3>2 DEF Descriptor, serial
      <3>3. CASE Try
        BY <3>3 DEF Try
      <3>4. CASE Decode
        BY <3>4 DEF Decode, serial
      <3> QED
        BY <2>5, <3>1, <3>2, <3>3, <3>4 DEF Loader
    <2>6. CASE UNCHANGED loadVars
      BY <2>6, <2>3 DEF loadVars
    <2> QED
      BY <2>1, <2>2, <2>3, <2>4, <2>5, <2>6 DEF LoadNext
  <1> QED
    BY <1>1, <1>2, PTL DEF LoadSpec
-----------------------------------------------------------------------------
(* blob_read_stable_u8, which a stable read goes through for each byte: the *)
(* vote over its samples.                                                  *)
CONSTANT Values

VARIABLES samples, sampled, best, bestCount

Vote == INSTANCE StableRead WITH i <- sampled

Voters(v) == {j \in Vote!Index : samples[j] = v}

(* The votes of the component are counted as the library counts.           *)
LEMMA VoteCount ==
  ASSUME NEW v
  PROVE  Vote!Votes(v) = Cardinality(Voters(v))
PROOF
  BY DEF Vote!Votes, Vote!Index, Vote!Cardinality, Cardinality, Voters

LEMMA VotersLemma ==
  ASSUME NEW v
  PROVE  IsFiniteSet(Voters(v)) /\ Vote!Votes(v) \in 0 .. Samples
PROOF
  <1>1. IsFiniteSet(Vote!Index) /\ Cardinality(Vote!Index) = Samples
    BY LoadAssumption, FS_Interval DEF Vote!Index
  <1>2. Voters(v) \subseteq Vote!Index
    BY DEF Voters
  <1>3. IsFiniteSet(Voters(v)) /\ Cardinality(Voters(v)) <= Cardinality(Vote!Index)
    BY <1>1, <1>2, FS_Subset
  <1>4. Cardinality(Voters(v)) \in Nat
    BY <1>3, FS_CardinalityType
  <1> QED
    BY <1>1, <1>3, <1>4, VoteCount

(* Two values cannot both have more than half of the votes.                *)
LEMMA DisjointVotes ==
  ASSUME NEW v, NEW w, v # w
  PROVE  Vote!Votes(v) + Vote!Votes(w) <= Samples
PROOF
  <1>1. IsFiniteSet(Vote!Index) /\ Cardinality(Vote!Index) = Samples
    <2>1. 1 \in Int /\ Samples \in Int /\ Samples >= 1 /\ Samples - 1 + 1 = Samples
      BY LoadAssumption
    <2>2. Vote!Index = 1 .. Samples
      BY DEF Vote!Index
    <2> QED
      BY <2>1, <2>2, FS_Interval
  <1>2. Voters(v) \cup Voters(w) \subseteq Vote!Index /\ Voters(v) \cap Voters(w) = {}
    BY DEF Voters
  <1>3. IsFiniteSet(Voters(v)) /\ IsFiniteSet(Voters(w))
    BY VotersLemma
  <1>4. Cardinality(Voters(v) \cup Voters(w)) <= Samples
    BY <1>1, <1>2, FS_Subset
  <1>5. Cardinality(Voters(v) \cup Voters(w)) =
          Cardinality(Voters(v)) + Cardinality(Voters(w))
          - Cardinality(Voters(v) \cap Voters(w))
    BY <1>3, FS_Union
  <1>6. Cardinality(Voters(v) \cap Voters(w)) = 0
    BY <1>2, FS_EmptySet
  <1>7. Vote!Votes(v) = Cardinality(Voters(v)) /\ Vote!Votes(w) = Cardinality(Voters(w))
    BY VoteCount
  <1>8. Vote!Votes(v) \in Nat /\ Vote!Votes(w) \in Nat
    BY VotersLemma
  <1> QED
    BY <1>4, <1>5, <1>6, <1>7, <1>8

(* A value with a vote is the value of some sample.                        *)
LEMMA SomeVoter ==
  ASSUME NEW v, Vote!Votes(v) > 0
  PROVE  \E j \in Vote!Index : samples[j] = v
PROOF
  <1>1. Voters(v) # {}
    BY FS_EmptySet, VoteCount
  <1> QED
    BY <1>1 DEF Voters

(* The best of the samples counted so far has at least as many votes as    *)
(* each of them, and more than those before it.                            *)
VoteInv ==
  /\ Vote!TypeOK
  /\ sampled = 1 => best = 1 /\ bestCount = 0
  /\ sampled > 1 => best < sampled /\ bestCount = Vote!Votes(samples[best])
  /\ \A j \in 1 .. sampled - 1 :
       /\ Vote!Votes(samples[j]) <= bestCount
       /\ j < best => Vote!Votes(samples[j]) < bestCount

LEMMA VoteInductive == Vote!Spec => []VoteInv
PROOF
  <1>1. Vote!Init => VoteInv
    BY LoadAssumption DEF Vote!Init, VoteInv, Vote!TypeOK, Vote!Index
  <1>2. VoteInv /\ [Vote!Next]_(Vote!vars) => VoteInv'
    <2> SUFFICES ASSUME VoteInv, [Vote!Next]_(Vote!vars) PROVE VoteInv'
      OBVIOUS
    <2>1. CASE Vote!Count
      <3> DEFINE n == Vote!Votes(samples[sampled])
      <3>1. sampled \in Vote!Index /\ sampled' = sampled + 1 /\ samples' = samples
        BY <2>1 DEF Vote!Count
      <3>2. /\ \A j : Vote!Votes(samples[j])' = Vote!Votes(samples[j])
            /\ Vote!Votes(samples[best])' = Vote!Votes(samples[best'])
        BY <3>1 DEF Vote!Votes, Vote!Index
      <3>3. n \in 0 .. Samples /\ sampled \in Nat /\ sampled >= 1 /\ Samples \in Nat
        BY <3>1, VotersLemma, LoadAssumption DEF Vote!Index
      <3>4. CASE n > bestCount
        <4>1. best' = sampled /\ bestCount' = n
          BY <2>1, <3>4 DEF Vote!Count
        <4>2. \A j \in 1 .. sampled - 1 : Vote!Votes(samples[j]) \in Nat
          BY VotersLemma
        <4>3. \A j \in 1 .. sampled - 1 : Vote!Votes(samples[j]) < n
          BY <3>3, <3>4, <4>2 DEF VoteInv, Vote!TypeOK
        <4>4. Vote!TypeOK'
          BY <3>1, <3>3, <4>1 DEF VoteInv, Vote!TypeOK, Vote!Index
        <4>5. \A j \in 1 .. sampled : j = sampled \/ j \in 1 .. sampled - 1
          BY <3>3
        <4>6. \A j \in 1 .. sampled :
                /\ Vote!Votes(samples[j]) <= n
                /\ j < sampled => Vote!Votes(samples[j]) < n
          BY <3>3, <4>2, <4>3, <4>5
        <4>7. sampled' > 1 /\ best' < sampled' /\ sampled' - 1 = sampled
          BY <3>1, <3>3, <4>1
        <4> QED
          BY <3>2, <4>1, <4>4, <4>6, <4>7 DEF VoteInv
      <3>5. CASE ~(n > bestCount)
        <4>1. best' = best /\ bestCount' = bestCount
          BY <2>1, <3>5 DEF Vote!Count
        <4>2. sampled # 1
          <5>1. n > 0
            <6>1. sampled \in Voters(samples[sampled])
              BY <3>1 DEF Voters
            <6>2. IsFiniteSet(Voters(samples[sampled]))
              BY VotersLemma
            <6> QED
              BY <6>1, <6>2, FS_EmptySet, <3>3, VoteCount
          <5> QED
            BY <3>5, <5>1 DEF VoteInv
        <4>3. Vote!TypeOK'
          BY <3>1, <3>3, <4>1 DEF VoteInv, Vote!TypeOK, Vote!Index
        <4>4. \A j \in 1 .. sampled : j = sampled \/ j \in 1 .. sampled - 1
          BY <3>3
        <4>5. best < sampled /\ bestCount = Vote!Votes(samples[best])
          BY <3>3, <4>2 DEF VoteInv
        <4>6. best \in Nat /\ bestCount \in Nat
          BY DEF VoteInv, Vote!TypeOK, Vote!Index
        <4> QED
          BY <3>1, <3>2, <3>3, <3>5, <4>1, <4>3, <4>4, <4>5, <4>6 DEF VoteInv
      <3> QED
        BY <3>4, <3>5
    <2>2. CASE UNCHANGED Vote!vars
      BY <2>2 DEF Vote!vars, VoteInv, Vote!TypeOK, Vote!Votes, Vote!Index
    <2> QED
      BY <2>1, <2>2 DEF Vote!Next
  <1> QED
    BY <1>1, <1>2, PTL DEF Vote!Spec

(* Reads that fail less than half of the time give the right byte.         *)
THEOREM Majority == Vote!Spec => []Vote!MajorityWins
PROOF
  <1>1. VoteInv => Vote!MajorityWins
    <2> SUFFICES ASSUME VoteInv, Vote!Done, NEW v \in Values, 2 * Vote!Votes(v) > Samples
                 PROVE  samples[best] = v
      BY DEF Vote!MajorityWins
    <2>1. Vote!Votes(v) \in Nat /\ Vote!Votes(samples[best]) \in Nat /\ Samples \in Nat
      BY VotersLemma, LoadAssumption
    <2>2. PICK j \in Vote!Index : samples[j] = v
      BY <2>1, SomeVoter
    <2>3. sampled > 1 /\ j \in 1 .. sampled - 1
      BY LoadAssumption DEF Vote!Done, Vote!Index
    <2>4. Vote!Votes(v) <= Vote!Votes(samples[best])
      BY <2>2, <2>3 DEF VoteInv
    <2> QED
      BY <2>1, <2>4, DisjointVotes
  <1> QED
    BY <1>1, VoteInductive, PTL

(* Ties go to the value that was sampled first.                            *)
THEOREM Plurality == Vote!Spec => []Vote!FirstPluralityWins
PROOF
  <1>1. VoteInv => Vote!FirstPluralityWins
    BY LoadAssumption DEF VoteInv, Vote!FirstPluralityWins, Vote!Done, Vote!Index
  <1> QED
    BY <1>1, VoteInductive, PTL

(***************************************************************************)
(* The codec, for every width of the format and every stream.  What a      *)
(* recursive function computes is proved from the smallest counterexample: *)
(* LeastOf gives it.                                                       *)
(***************************************************************************)
(***************************************************************************)
(* Induction: sets of numbers have a least element.                        *)
(***************************************************************************)
LEMMA LessThan == \E R : IsWellFoundedOn(R, Nat) /\ \A x, y \in Nat : <<x, y>> \in R <=> x < y
PROOF
  <1>1. IsWellFoundedOn(OpToRel(<, Nat), Nat)
    BY NatLessThanWellFounded
  <1>2. \A x, y \in Nat : <<x, y>> \in OpToRel(<, Nat) <=> x < y
    BY DEF OpToRel
  <1> QED
    BY <1>1, <1>2, Zenon

LEMMA LeastOf ==
  ASSUME NEW T, T \subseteq Nat, T # {}
  PROVE  \E x \in T : \A y \in T : x <= y
PROOF
  <1>1. PICK R : IsWellFoundedOn(R, Nat) /\ \A x, y \in Nat : <<x, y>> \in R <=> x < y
    BY LessThan
  <1>2. IsWellFoundedOn(R, Nat)
    BY <1>1
  <1>3. \E x \in T : \A y \in T : <<y, x>> \notin R
    BY <1>2, WFMin, Zenon
  <1>4. PICK x \in T : \A y \in T : <<y, x>> \notin R
    BY <1>3
  <1>5. ASSUME NEW y \in T PROVE x <= y
    <2>1. ~(y < x)
      BY <1>1, <1>4, Zenon
    <2>2. x \in Nat /\ y \in Nat
      OBVIOUS
    <2> QED
      BY <2>1, <2>2
  <1> QED
    BY <1>5

LEMMA ModBack ==
  ASSUME NEW b \in Nat \ {0}, NEW x \in Nat, x >= b
  PROVE  (x - b) % b = x % b
PROOF
  <1>1. \A q \in Int, r \in 0 .. b - 1 : (q * b + r) % b = r
    OBVIOUS
  <1>t. x % b \in 0 .. b - 1 /\ x \div b \in Nat /\ x = (x \div b) * b + (x % b)
    OBVIOUS
  <1>p. PICK q, r : q = x \div b /\ r = x % b
    OBVIOUS
  <1>2. q \in Int /\ r \in 0 .. b - 1 /\ x = q * b + r
    BY <1>t, <1>p
  <1>3. x - b = (q - 1) * b + r
    BY <1>2
  <1> QED
    BY <1>1, <1>2, <1>3

-----------------------------------------------------------------------------
Byte == 0 .. ByteMax

LEMMA ByteFacts ==
  /\ Escape \in Nat \ {0} /\ MinMatch \in Nat \ {0} /\ MaxOffset \in Nat \ {0}
  /\ ByteMax \in Nat /\ ByteMax > Escape /\ ByteMax = Escape * (Escape + 1) + Escape
  /\ MaxOffset < (ByteMax + 1) * (ByteMax + 1)
PROOF
  <1>1. Escape \in Nat \ {0} /\ MinMatch \in Nat \ {0} /\ MaxOffset \in Nat \ {0}
    BY FormatAssumption
  <1>2. ASSUME NEW e \in Nat \ {0}
        PROVE  (e + 1) * (e + 1) - 1 = e * (e + 1) + e /\ e * (e + 1) \in Nat /\ e * (e + 1) >= 1
    OBVIOUS
  <1>3. (Escape + 1) * (Escape + 1) = ByteMax + 1 /\ ByteMax \in Nat
    BY <1>1, <1>2 DEF ByteMax
  <1>4. MaxOffset < (ByteMax + 1) * (ByteMax + 1)
    BY <1>3, FormatAssumption
  <1>5. ByteMax = Escape * (Escape + 1) + Escape /\ ByteMax > Escape
    BY <1>1, <1>2 DEF ByteMax
  <1> QED
    BY <1>1, <1>3, <1>4, <1>5

LEMMA InputFacts ==
  ASSUME input \in Streams
  PROVE  /\ IsStream(input) /\ Src \in Seq(Byte) /\ input.prefix \in Seq(Byte) /\ input.chunk \in Seq(Byte)
         /\ Len(Src) \in Nat /\ DstOff \in Nat /\ End \in Nat /\ DstOff <= End /\ Len(input.chunk) \in Nat
         /\ End = DstOff + Len(input.chunk) /\ Slack \in Nat /\ Unset \notin Byte
         /\ \A k \in 0 .. Len(Src) - 1 : ByteAt(k) \in Byte /\ ByteAt(k) \in Nat
PROOF
  <1>1. IsStream(input) /\ Slack \in Nat /\ Unset \notin Byte
    BY StreamAssumption DEF Byte
  <1>2. Src \in Seq(Byte) /\ input.prefix \in Seq(Byte) /\ input.chunk \in Seq(Byte)
    BY <1>1 DEF IsStream, Src, Byte
  <1>3. \A k \in 0 .. Len(Src) - 1 : ByteAt(k) \in Byte
    BY <1>2 DEF ByteAt
  <1>4. \A k \in Byte : k \in Nat
    BY ByteFacts DEF Byte
  <1>5. Len(Src) \in Nat /\ DstOff \in Nat /\ Len(input.chunk) \in Nat
    BY <1>2 DEF DstOff
  <1>6. End \in Nat /\ DstOff <= End /\ End = DstOff + Len(input.chunk)
    BY <1>5 DEF End
  <1> QED
    BY <1>1, <1>2, <1>3, <1>4, <1>5, <1>6

LEMMA LengthFacts ==
  ASSUME input \in Streams, NEW base \in Nat, NEW p \in Nat, NEW l \in LengthAt(base, p)
  PROVE  l.len \in Nat /\ l.next \in Nat /\ l.next >= p
PROOF
  <1>1. CASE base # Escape
    BY <1>1 DEF LengthAt
  <1>2. CASE base = Escape
    <2>1. PICK q \in p .. Len(Src) - 1 : l = [len |-> Escape + (q - p) * ByteMax + ByteAt(q), next |-> q + 1]
      BY <1>2 DEF LengthAt
    <2>2. ByteAt(q) \in Nat /\ q \in Nat /\ q - p \in Nat
      BY <2>1, InputFacts
    <2>3. (q - p) * ByteMax \in Nat
      BY <2>2, ByteFacts
    <2> QED
      BY <2>1, <2>2, <2>3, ByteFacts
  <1> QED
    BY <1>1, <1>2

-----------------------------------------------------------------------------
DecoderInv ==
  /\ input \in Streams /\ state \in {"sequence", "match", "ok", "error"}
  /\ ip \in 0 .. Len(Src) /\ op \in DstOff .. End /\ token \in Byte
  /\ dst \in [1 .. End + Slack -> Byte \cup {Unset}]
  /\ \A k \in 1 .. op : dst[k] \in Byte

(* The recursive function of a match exists: it repeats the offset bytes   *)
(* in front of it.                                                         *)
LEMMA CopyEquation ==
  ASSUME NEW offset \in Nat \ {0}, NEW len \in Nat, offset <= op, op \in Nat,
         NEW n \in Nat, DOMAIN dst = 1 .. n
  PROVE  Copied(offset, len) =
           [k \in DOMAIN dst |-> IF k - 1 \in op .. op + len - 1 THEN Copied(offset, len)[k - offset] ELSE dst[k]]
PROOF
  <1> DEFINE Eq(f) == f = [k \in DOMAIN dst |-> IF k - 1 \in op .. op + len - 1 THEN f[k - offset] ELSE dst[k]]
             g == [k \in DOMAIN dst |-> IF k - 1 \in op .. op + len - 1
                                        THEN dst[op - offset + 1 + ((k - 1 - op) % offset)] ELSE dst[k]]
  <1>1. ASSUME NEW k \in DOMAIN dst, k - 1 \in op .. op + len - 1 PROVE g[k] = g[k - offset]
    <2>1. k - offset \in DOMAIN dst
      BY <1>1
    <2>2. PICK j \in Nat : j = k - 1 - op
      BY <1>1
    <2>3. CASE j < offset
      <3>1. j % offset = j
        BY <2>3
      <3>2. g[k - offset] = dst[k - offset]
        BY <2>1, <2>2, <2>3
      <3>3. op - offset + 1 + j = k - offset
        BY <2>2
      <3> QED
        BY <1>1, <2>2, <3>1, <3>2, <3>3
    <2>4. CASE j >= offset
      <3>1. k - offset - 1 - op = j - offset /\ k - offset - 1 \in op .. op + len - 1
        BY <1>1, <2>2, <2>4
      <3>2. (j - offset) % offset = j % offset
        BY <2>4, ModBack
      <3> QED
        BY <1>1, <2>1, <2>2, <3>1, <3>2
    <2> QED
      BY <2>2, <2>3, <2>4
  <1>2. Eq(g)
    BY <1>1
  <1> HIDE DEF g
  <1>3. Copied(offset, len) = CHOOSE f : Eq(f)
    BY DEF Copied
  <1> HIDE DEF Eq
  <1>4. Eq(CHOOSE f : Eq(f))
    BY <1>2
  <1>5. Eq(Copied(offset, len))
    BY <1>3, <1>4
  <1> QED
    BY <1>5 DEF Eq

LEMMA CopyFacts ==
  ASSUME DecoderInv, NEW offset \in Nat \ {0}, NEW len \in Nat, offset <= op, op + len <= End
  PROVE  /\ Copied(offset, len) \in [1 .. End + Slack -> Byte \cup {Unset}]
         /\ \A k \in 1 .. op + len : Copied(offset, len)[k] \in Byte
         /\ \A k \in 1 .. End + Slack : k <= op \/ k > op + len => Copied(offset, len)[k] = dst[k]
         /\ \A k \in op + 1 .. op + len : Copied(offset, len)[k] = Copied(offset, len)[k - offset]
PROOF
  <1>1. /\ DOMAIN dst = 1 .. End + Slack /\ End \in Nat /\ Slack \in Nat /\ op \in Nat /\ End + Slack \in Nat
        /\ op + len \in Nat /\ op + len <= End + Slack
    BY InputFacts DEF DecoderInv
  <1>2. PICK C : C = Copied(offset, len)
    OBVIOUS
  <1>3. C = [k \in 1 .. End + Slack |-> IF k - 1 \in op .. op + len - 1 THEN C[k - offset] ELSE dst[k]]
    BY <1>1, <1>2, CopyEquation
  <1>4. \A k \in 1 .. End + Slack : k <= op \/ k > op + len => C[k] = dst[k]
    BY <1>1, <1>3
  <1>5. ASSUME NEW k \in op + 1 .. op + len PROVE C[k] = C[k - offset]
    <2>1. k \in 1 .. End + Slack /\ k - 1 \in op .. op + len - 1
      BY <1>1
    <2>2. \A j \in 1 .. End + Slack : j - 1 \in op .. op + len - 1 => C[j] = C[j - offset]
      BY <1>3
    <2> QED
      BY <2>1, <2>2
  <1>6. \A k \in 1 .. op + len : C[k] \in Byte
    <2> DEFINE T == {k \in 1 .. op + len : C[k] \notin Byte}
    <2> SUFFICES ASSUME T # {} PROVE FALSE
      OBVIOUS
    <2>1. T \subseteq Nat
      OBVIOUS
    <2>2. PICK x \in T : \A y \in T : x <= y
      BY <2>1, LeastOf
    <2>3. CASE x <= op
      <3>1. x \in 1 .. End + Slack /\ C[x] = dst[x]
        BY <1>1, <1>4, <2>3
      <3> QED
        BY <1>1, <2>3, <3>1 DEF DecoderInv
    <2>4. CASE x > op
      <3>1. x \in op + 1 .. op + len /\ x - offset \in 1 .. op + len /\ ~(x <= x - offset)
        BY <1>1, <2>4
      <3>2. C[x - offset] = C[x]
        BY <1>5, <3>1
      <3>3. x - offset \in T
        BY <3>1, <3>2
      <3> QED
        BY <2>2, <3>1, <3>3
    <2> QED
      BY <1>1, <2>3, <2>4
  <1>7. C \in [1 .. End + Slack -> Byte \cup {Unset}]
    <2> SUFFICES ASSUME NEW k \in 1 .. End + Slack PROVE C[k] \in Byte \cup {Unset}
      BY <1>3
    <2>1. CASE k <= op \/ k > op + len
      BY <1>4, <2>1 DEF DecoderInv
    <2>2. CASE ~(k <= op \/ k > op + len)
      BY <1>1, <1>6, <2>2
    <2> QED
      BY <2>1, <2>2
  <1> QED
    BY <1>2, <1>4, <1>5, <1>6, <1>7

LEMMA DecoderInitial == DecodeInit => DecoderInv
PROOF
  <1> SUFFICES ASSUME DecodeInit PROVE DecoderInv
    OBVIOUS
  <1>1. input \in Streams /\ ip = 0 /\ op = DstOff /\ token = 0 /\ state = "sequence"
        /\ dst = input.prefix \o [k \in 1 .. Len(input.chunk) + Slack |-> Unset]
    BY DEF DecodeInit
  <1>2. /\ input.prefix \in Seq(Byte) /\ Len(input.prefix) = DstOff /\ Len(Src) \in Nat /\ DstOff \in Nat
        /\ End \in Nat /\ End = DstOff + Len(input.chunk) /\ Slack \in Nat /\ Len(input.chunk) \in Nat
    BY <1>1, InputFacts DEF DstOff
  <1>3. /\ [k \in 1 .. Len(input.chunk) + Slack |-> Unset] \in Seq({Unset})
        /\ Len([k \in 1 .. Len(input.chunk) + Slack |-> Unset]) = Len(input.chunk) + Slack
    BY <1>2
  <1>4. /\ Len(dst) = End + Slack /\ dst \in Seq(Byte \cup {Unset})
        /\ \A k \in 1 .. DstOff : dst[k] = input.prefix[k]
    BY <1>1, <1>2, <1>3
  <1>5. dst \in [1 .. End + Slack -> Byte \cup {Unset}]
    BY <1>4
  <1>6. 0 \in Byte
    BY ByteFacts DEF Byte
  <1>7. ip \in 0 .. Len(Src) /\ op \in DstOff .. End
    BY <1>1, <1>2
  <1>8. \A k \in 1 .. op : dst[k] \in Byte
    BY <1>1, <1>2, <1>4
  <1> QED
    BY <1>1, <1>5, <1>6, <1>7, <1>8 DEF DecoderInv

(* What a step that expands something does to the destination.             *)
LEMMA LiteralsWrite ==
  ASSUME DecoderInv, Literals, state' # "error"
  PROVE  /\ DecoderInv'
         /\ \A k \in 1 .. End + Slack : k <= DstOff \/ k > End => dst'[k] = dst[k]
PROOF
  <1>1. /\ Len(Src) \in Nat /\ DstOff \in Nat /\ End \in Nat /\ Slack \in Nat /\ DstOff <= End
        /\ ip \in 0 .. Len(Src) /\ op \in DstOff .. End /\ DOMAIN dst = 1 .. End + Slack
        /\ \A k \in 0 .. Len(Src) - 1 : ByteAt(k) \in Byte /\ ByteAt(k) \in Nat
    BY InputFacts DEF DecoderInv
  <1>2. ip < Len(Src) /\ ByteAt(ip) \in Byte /\ ByteAt(ip) \in Nat
    BY <1>1 DEF Literals
  <1>3. ByteAt(ip) \div (Escape + 1) \in Nat
    BY <1>2, ByteFacts
  <1>4. PICK l \in LengthAt(ByteAt(ip) \div (Escape + 1), ip + 1) :
          /\ LiteralsFit(l)
          /\ dst' = [k \in DOMAIN dst |-> IF k - 1 \in op .. op + l.len - 1
                                          THEN ByteAt(l.next + k - 1 - op) ELSE dst[k]]
          /\ op' = op + l.len /\ ip' = l.next + l.len /\ token' = ByteAt(ip)
          /\ state' \in {"sequence", "match"} /\ UNCHANGED input
    BY DEF Literals, Fail
  <1>5. /\ l.len \in Nat /\ l.next \in Nat /\ l.len <= Len(Src) - l.next /\ l.len <= End - op
    BY <1>1, <1>3, <1>4, LengthFacts DEF DecoderInv, LiteralsFit
  <1>6. \A k \in 1 .. End + Slack : k - 1 \in op .. op + l.len - 1 =>
          dst'[k] = ByteAt(l.next + k - 1 - op) /\ l.next + k - 1 - op \in 0 .. Len(Src) - 1
    <2>1. \A k \in 1 .. End + Slack : k - 1 \in op .. op + l.len - 1 => dst'[k] = ByteAt(l.next + k - 1 - op)
      BY <1>1, <1>4
    <2>2. PICK n, m : n = l.next /\ m = l.len
      OBVIOUS
    <2>3. \A k \in 1 .. End + Slack : k - 1 \in op .. op + m - 1 => n + k - 1 - op \in 0 .. Len(Src) - 1
      <3>1. n \in Nat /\ m \in Nat /\ n + m <= Len(Src) /\ op \in Nat
        BY <1>1, <1>5, <2>2
      <3> QED
        BY <1>1, <3>1
    <2> QED
      BY <2>1, <2>2, <2>3
  <1>7. \A k \in 1 .. End + Slack : k - 1 \notin op .. op + l.len - 1 => dst'[k] = dst[k]
    BY <1>1, <1>4
  <1>8. dst' \in [1 .. End + Slack -> Byte \cup {Unset}]
    <2>1. DOMAIN dst' = 1 .. End + Slack /\ dst' = [k \in 1 .. End + Slack |-> dst'[k]]
      BY <1>1, <1>4
    <2> QED
      BY <1>1, <1>6, <1>7, <2>1 DEF DecoderInv
  <1>9. \A k \in 1 .. op' : dst'[k] \in Byte
    <2> SUFFICES ASSUME NEW k \in 1 .. op' PROVE dst'[k] \in Byte
      OBVIOUS
    <2>1. k \in 1 .. End + Slack /\ (k \in 1 .. op \/ k - 1 \in op .. op + l.len - 1)
      BY <1>1, <1>4, <1>5
    <2> QED
      BY <1>1, <1>6, <1>7, <2>1 DEF DecoderInv
  <1>10. UNCHANGED <<Src, DstOff, End>>
    BY <1>4 DEF Src, DstOff, End
  <1>11. ip' \in 0 .. Len(Src) /\ op' \in DstOff .. End
    <2>1. PICK n, m : n = l.next /\ m = l.len
      OBVIOUS
    <2>2. ip' = n + m /\ op' = op + m /\ n \in Nat /\ m \in Nat /\ m <= Len(Src) - n /\ m <= End - op
      BY <1>4, <1>5, <2>1
    <2>3. n + m \in 0 .. Len(Src) /\ op + m \in DstOff .. End
      BY <1>1, <2>2
    <2> QED
      BY <2>2, <2>3
  <1>12. DecoderInv'
    BY <1>2, <1>4, <1>8, <1>9, <1>10, <1>11 DEF DecoderInv
  <1> QED
    BY <1>1, <1>5, <1>7, <1>12

LEMMA MatchWrites ==
  ASSUME DecoderInv, Match, state' # "error"
  PROVE  /\ DecoderInv'
         /\ \A k \in 1 .. End + Slack : k <= DstOff \/ k > End => dst'[k] = dst[k]
PROOF
  <1>1. /\ Len(Src) \in Nat /\ DstOff \in Nat /\ End \in Nat /\ Slack \in Nat /\ DstOff <= End
        /\ ip \in 0 .. Len(Src) /\ op \in DstOff .. End /\ DOMAIN dst = 1 .. End + Slack
        /\ \A k \in 0 .. Len(Src) - 1 : ByteAt(k) \in Byte /\ ByteAt(k) \in Nat
    BY InputFacts DEF DecoderInv
  <1>2. ~(Len(Src) - ip < 2)
    BY DEF Match, Fail
  <1>3. PICK offset : offset = ByteAt(ip) + ByteAt(ip + 1) * (ByteMax + 1)
    OBVIOUS
  <1>4. offset \in Nat
    <2>1. ByteAt(ip) \in Nat /\ ByteAt(ip + 1) \in Nat /\ ByteMax \in Nat
      BY <1>1, <1>2, ByteFacts
    <2>2. ByteAt(ip + 1) * (ByteMax + 1) \in Nat
      BY <2>1
    <2> QED
      BY <1>3, <2>1, <2>2
  <1>5. token % (Escape + 1) \in Nat
    BY ByteFacts DEF DecoderInv, Byte
  <1>6. OffsetFits(offset)
    BY <1>2, <1>3 DEF Match, Fail
  <1>7. PICK m \in LengthAt(token % (Escape + 1), ip + 2) :
          /\ MatchFits(m)
          /\ dst' = Copied(offset, m.len + MinMatch)
          /\ op' = op + m.len + MinMatch /\ ip' = m.next /\ state' = "sequence"
          /\ UNCHANGED <<input, token>>
    BY <1>2, <1>3, <1>6 DEF Match, Fail
  <1>8. m.len \in Nat /\ m.next \in Nat /\ m.next <= Len(Src)
    <2>1. ip + 2 \in Nat /\ ip + 2 <= Len(Src)
      BY <1>1, <1>2
    <2>2. m.len \in Nat /\ m.next \in Nat
      BY <1>5, <1>7, <2>1, LengthFacts DEF DecoderInv
    <2>3. m.next = ip + 2 \/ \E q \in ip + 2 .. Len(Src) - 1 : m.next = q + 1
      BY <1>7 DEF LengthAt
    <2> QED
      BY <1>1, <2>1, <2>2, <2>3
  <1>9. PICK len \in Nat : len = m.len + MinMatch /\ op + len <= End /\ op' = op + len
    BY <1>1, <1>7, <1>8, ByteFacts DEF MatchFits
  <1>10. offset \in Nat \ {0} /\ offset <= op
    BY <1>4, <1>6 DEF OffsetFits
  <1>11. /\ dst' \in [1 .. End + Slack -> Byte \cup {Unset}]
         /\ \A k \in 1 .. op' : dst'[k] \in Byte
         /\ \A k \in 1 .. End + Slack : k <= op \/ k > op + len => dst'[k] = dst[k]
    BY <1>7, <1>9, <1>10, CopyFacts
  <1>12. UNCHANGED <<Src, DstOff, End>>
    BY <1>7 DEF Src, DstOff, End
  <1>13. ip' \in 0 .. Len(Src) /\ op' \in DstOff .. End
    BY <1>1, <1>7, <1>8, <1>9
  <1>14. DecoderInv'
    BY <1>7, <1>11, <1>12, <1>13 DEF DecoderInv
  <1> QED
    BY <1>1, <1>9, <1>11, <1>14

LEMMA DecoderStep ==
  ASSUME DecoderInv, [DecodeNext]_codec
  PROVE  /\ DecoderInv'
         /\ \A k \in 1 .. End + Slack : k <= DstOff \/ k > End => dst'[k] = dst[k]
PROOF
  <1>1. ASSUME UNCHANGED <<input, ip, op, dst, token>>, state' \in {"sequence", "match", "ok", "error"} 
        PROVE  DecoderInv' /\ UNCHANGED dst
    BY <1>1 DEF DecoderInv, Src, DstOff, End
  <1>2. ASSUME Literals \/ Match, state' = "error" PROVE UNCHANGED <<input, ip, op, dst, token>>
    BY <1>2 DEF Literals, Match, Fail
  <1>3. CASE Finish
    BY <1>1, <1>3 DEF Finish
  <1>4. CASE UNCHANGED codec
    BY <1>1, <1>4 DEF codec, DecoderInv
  <1> QED
    BY <1>1, <1>2, <1>3, <1>4, LiteralsWrite, MatchWrites DEF DecodeNext

(* NoStaleBytes: an accepted block has no byte in it that was not written, *)
(* whatever was staged.                                                    *)
THEOREM NothingStale == DecodeSpec => []NoStaleBytes
PROOF
  <1>1. DecoderInv => NoStaleBytes
    <2> SUFFICES ASSUME DecoderInv, NEW k \in 1 .. op PROVE dst[k] # Unset
      BY DEF NoStaleBytes
    <2> QED
      BY InputFacts DEF DecoderInv
  <1>2. DecoderInv /\ [DecodeNext]_codec => DecoderInv'
    BY DecoderStep
  <1> QED
    BY DecoderInitial, <1>1, <1>2, PTL DEF DecodeSpec

(* WritesOnlyItsBlock: whatever was staged, the decoder changes no memory  *)
(* in front of its block or behind it.                                     *)
THEOREM WritesInside == DecodeSpec => WritesOnlyItsBlock
PROOF
  <1>1. DecoderInv /\ [DecodeNext]_codec
          => [\A k \in DOMAIN dst : k - 1 < DstOff \/ k - 1 >= End => dst'[k] = dst[k]]_codec
    <2> SUFFICES ASSUME DecoderInv, [DecodeNext]_codec, NEW k \in DOMAIN dst, k - 1 < DstOff \/ k - 1 >= End
                 PROVE  dst'[k] = dst[k]
      OBVIOUS
    <2>1. k \in 1 .. End + Slack /\ DstOff \in Nat /\ End \in Nat /\ Slack \in Nat
      BY InputFacts DEF DecoderInv
    <2>2. k <= DstOff \/ k > End
      BY <2>1
    <2> QED
      BY <2>1, <2>2, DecoderStep
  <1>2. DecoderInv /\ [DecodeNext]_codec => DecoderInv'
    BY DecoderStep
  <1> QED
    BY DecoderInitial, <1>1, <1>2, PTL DEF DecodeSpec, WritesOnlyItsBlock
LEMMA MinIn ==
  ASSUME NEW T, T \subseteq Nat, T # {}
  PROVE  Min(T) \in T
PROOF
  <1>1. PICK x \in T : \A y \in T : x <= y
    BY LeastOf
  <1> QED
    BY <1>1 DEF Min

LEMMA MaxIn ==
  ASSUME NEW b \in Nat, NEW T, T \subseteq 0 .. b, T # {}
  PROVE  Max(T) \in T
PROOF
  <1> DEFINE D == {x \in Nat : b - x \in T}
  <1>1. PICK t \in T : TRUE
    OBVIOUS
  <1>2. b - t \in Nat /\ b - (b - t) = t
    BY <1>1
  <1>3. D \subseteq Nat /\ D # {}
    BY <1>1, <1>2
  <1>4. PICK d \in D : \A y \in D : d <= y
    BY <1>3, LeastOf
  <1>5. b - d \in T
    BY <1>4
  <1>6. ASSUME NEW y \in T PROVE b - d >= y
    <2>1. b - y \in Nat /\ b - (b - y) = y /\ y \in 0 .. b
      OBVIOUS
    <2>2. b - y \in D
      BY <2>1
    <2>3. d <= b - y /\ d \in Nat
      BY <1>4, <2>2
    <2> QED
      BY <2>1, <2>3
  <1> QED
    BY <1>5, <1>6 DEF Max

LEMMA DivMod ==
  ASSUME NEW b \in Nat \ {0}, NEW x \in Nat
  PROVE  /\ x \div b \in Nat /\ x % b \in 0 .. b - 1
         /\ (x \div b) * b \in Nat /\ x = (x \div b) * b + (x % b)
PROOF
  <1>1. x \div b \in Nat /\ x % b \in 0 .. b - 1 /\ x = (x \div b) * b + (x % b)
    OBVIOUS
  <1>2. (x \div b) * b \in Nat
    BY <1>1
  <1> QED
    BY <1>1, <1>2

LEMMA Compose ==
  ASSUME NEW b \in Nat \ {0}, NEW q \in Nat, NEW r \in 0 .. b - 1
  PROVE  q * b + r \in Nat /\ (q * b + r) \div b = q /\ (q * b + r) % b = r
PROOF
  <1>1. q * b + r \in Nat
    OBVIOUS
  <1>2. (q * b + r) \div b = q
    OBVIOUS
  <1>3. (q * b + r) % b = r
    OBVIOUS
  <1> QED
    BY <1>1, <1>2, <1>3

-----------------------------------------------------------------------------
(* A match of m bytes at i repeats what stands at p.                       *)
Repeats(w, p, i, m) ==
  /\ p \in 0 .. i - 1 /\ i - p <= MaxOffset
  /\ m \in MinMatch .. Len(w) - i
  /\ \A k \in 1 .. m : w[p + k] = w[i + k]

LEMMA MatchFacts ==
  ASSUME NEW w \in Seq(Byte), NEW a \in 0 .. Len(w), Matches(w, a) # {}
  PROVE  LET i == Min(Matches(w, a))
             p == Max(Refs(w, i))
         IN  i \in a .. Len(w) /\ Repeats(w, p, i, MatchLen(w, p, i))
PROOF
  <1>1. PICK i : i = Min(Matches(w, a))
    OBVIOUS
  <1>2. Len(w) \in Nat /\ MinMatch \in Nat /\ MinMatch > 0 /\ MaxOffset \in Nat
    BY FormatAssumption
  <1>3. i \in Matches(w, a)
    <2>1. Matches(w, a) \subseteq Nat
      BY <1>2 DEF Matches
    <2> QED
      BY <1>1, <2>1, MinIn
  <1>4. i \in a .. Len(w) - MinMatch /\ i \in Nat /\ Refs(w, i) # {} /\ i - Max(Refs(w, i)) <= MaxOffset
    BY <1>2, <1>3 DEF Matches
  <1>5. PICK p : p = Max(Refs(w, i))
    OBVIOUS
  <1>6. p \in Refs(w, i)
    <2>1. Refs(w, i) \subseteq 0 .. i
      BY <1>4 DEF Refs
    <2> QED
      BY <1>4, <1>5, <2>1, MaxIn
  <1>7. p \in 0 .. i - 1 /\ Key(w, p) = Key(w, i)
    BY <1>6 DEF Refs
  <1>8. ASSUME NEW k \in 1 .. MinMatch PROVE w[p + k] = w[i + k]
    <2>1. p \in Nat /\ p + MinMatch <= Len(w) /\ i + MinMatch <= Len(w)
      BY <1>2, <1>4, <1>7
    <2>2. SubSeq(w, p + 1, p + MinMatch)[k] = w[p + k]
      BY <1>2, <2>1
    <2>3. SubSeq(w, i + 1, i + MinMatch)[k] = w[i + k]
      BY <1>2, <1>4, <2>1
    <2> QED
      BY <1>7, <2>2, <2>3 DEF Key
  <1> DEFINE Ms == {m \in MinMatch .. Len(w) - i : \A k \in 1 .. m : w[p + k] = w[i + k]}
  <1>9. MinMatch \in Ms /\ Ms \subseteq 0 .. Len(w)
    BY <1>2, <1>4, <1>8
  <1>10. Max(Ms) \in Ms
    BY <1>2, <1>9, MaxIn
  <1>11. MatchLen(w, p, i) \in Ms
    BY <1>10 DEF MatchLen
  <1>12. Repeats(w, p, i, MatchLen(w, p, i))
    BY <1>4, <1>5, <1>7, <1>11 DEF Repeats
  <1>13. i \in a .. Len(w)
    BY <1>2, <1>4
  <1> QED
    BY <1>1, <1>5, <1>12, <1>13
-----------------------------------------------------------------------------
(* What a sequence is made of.                                             *)
LEMMA TailFacts ==
  ASSUME NEW len \in Nat
  PROVE  /\ LengthTail(len) \in Seq(Nat)
         /\ len < Escape => LengthTail(len) = << >>
         /\ len >= Escape => \E c \in Nat, r \in 0 .. ByteMax - 1 :
              /\ len = Escape + c * ByteMax + r /\ Len(LengthTail(len)) = c + 1
              /\ \A k \in 1 .. c : LengthTail(len)[k] = ByteMax
              /\ LengthTail(len)[c + 1] = r
PROOF
  <1>1. Escape \in Nat /\ ByteMax \in Nat \ {0}
    BY ByteFacts
  <1>2. CASE len < Escape
    BY <1>1, <1>2 DEF LengthTail
  <1>3. CASE len >= Escape
    <2>1. PICK x \in Nat : x = len - Escape
      BY <1>1, <1>3
    <2>2. PICK c, r : c = x \div ByteMax /\ r = x % ByteMax
      OBVIOUS
    <2>3. c \in Nat /\ r \in 0 .. ByteMax - 1 /\ c * ByteMax \in Nat /\ x = c * ByteMax + r
      BY <1>1, <2>2, DivMod
    <2>4. PICK s : s = [k \in 1 .. c |-> ByteMax]
      OBVIOUS
    <2>5. s \in Seq(Nat) /\ Len(s) = c /\ \A k \in 1 .. c : s[k] = ByteMax
      BY <1>1, <2>3, <2>4
    <2>6. LengthTail(len) = s \o <<r>>
      BY <1>1, <1>3, <2>1, <2>2, <2>4 DEF LengthTail
    <2>7. <<r>> \in Seq(Nat) /\ Len(<<r>>) = 1 /\ <<r>>[1] = r
      BY <2>3
    <2>8. /\ s \o <<r>> \in Seq(Nat) /\ Len(s \o <<r>>) = c + 1
          /\ \A k \in 1 .. c : (s \o <<r>>)[k] = ByteMax
          /\ (s \o <<r>>)[c + 1] = r
      BY <2>3, <2>5, <2>7
    <2>9. len = Escape + c * ByteMax + r
      BY <1>1, <2>1, <2>3
    <2>10. \E d \in Nat, e \in 0 .. ByteMax - 1 :
             /\ len = Escape + d * ByteMax + e /\ Len(LengthTail(len)) = d + 1
             /\ \A k \in 1 .. d : LengthTail(len)[k] = ByteMax
             /\ LengthTail(len)[d + 1] = e
      <3>1. c \in Nat /\ r \in 0 .. ByteMax - 1
        BY <2>3
      <3>2. /\ len = Escape + c * ByteMax + r /\ Len(LengthTail(len)) = c + 1
            /\ \A k \in 1 .. c : LengthTail(len)[k] = ByteMax
            /\ LengthTail(len)[c + 1] = r
        BY <2>6, <2>8, <2>9
      <3> QED
        BY <3>1, <3>2, Zenon
    <2>11. ~(len < Escape)
      BY <1>1, <1>3
    <2> QED
      BY <2>6, <2>8, <2>10, <2>11
  <1> QED
    BY <1>1, <1>2, <1>3

LEMMA TokenFacts ==
  ASSUME NEW lit \in Nat, NEW match \in Nat
  PROVE  /\ Token(lit, match) \in Nat
         /\ Token(lit, match) \div (Escape + 1) = Least(lit, Escape)
         /\ Token(lit, match) % (Escape + 1) = Least(match, Escape)
PROOF
  <1>1. Least(lit, Escape) \in Nat /\ Least(match, Escape) \in 0 .. Escape /\ Escape + 1 \in Nat \ {0}
    BY ByteFacts DEF Least
  <1>2. PICK b, u, v : b = Escape + 1 /\ u = Least(lit, Escape) /\ v = Least(match, Escape)
    OBVIOUS
  <1>3. b \in Nat \ {0} /\ u \in Nat /\ v \in 0 .. b - 1
    BY <1>1, <1>2, ByteFacts
  <1>4. Token(lit, match) = u * b + v
    BY <1>2 DEF Token
  <1>5. u * b + v \in Nat /\ (u * b + v) \div b = u /\ (u * b + v) % b = v
    BY <1>3, Compose
  <1> QED
    BY <1>2, <1>4, <1>5

OffsetBytes(offset) == << offset % (ByteMax + 1), offset \div (ByteMax + 1) >>

LEMMA OffsetFacts ==
  ASSUME NEW offset \in Nat
  PROVE  /\ OffsetBytes(offset) \in Seq(Nat) /\ Len(OffsetBytes(offset)) = 2
         /\ OffsetBytes(offset)[1] + OffsetBytes(offset)[2] * (ByteMax + 1) = offset
PROOF
  <1>1. PICK b : b = ByteMax + 1 /\ b \in Nat \ {0}
    BY ByteFacts
  <1>2. PICK q, r : q = offset \div b /\ r = offset % b
    OBVIOUS
  <1>3. offset \div b \in Nat /\ offset % b \in 0 .. b - 1 /\ offset = (offset \div b) * b + (offset % b)
    BY <1>1, DivMod
  <1>4. q \in Nat /\ r \in Nat /\ offset = q * b + r
    BY <1>1, <1>2, <1>3
  <1>5. OffsetBytes(offset) = <<r, q>>
    BY <1>1, <1>2 DEF OffsetBytes
  <1>6. r + q * b = offset
    BY <1>1, <1>4
  <1>7. <<r, q>> \in Seq(Nat) /\ Len(<<r, q>>) = 2 /\ <<r, q>>[1] = r /\ <<r, q>>[2] = q
    BY <1>4
  <1> QED
    BY <1>1, <1>5, <1>6, <1>7

-----------------------------------------------------------------------------
(* A run of bytes stands at a place of the compressed chunk, or ends it.   *)
Sits(full, at, s) ==
  at + Len(s) <= Len(full) /\ \A k \in 1 .. Len(s) : full[at + k] = s[k]

Ends(full, at, s) == Sits(full, at, s) /\ at + Len(s) = Len(full)

LEMMA Joined ==
  ASSUME NEW s \in Seq(Nat), NEW t \in Seq(Nat)
  PROVE  /\ s \o t \in Seq(Nat) /\ Len(s) \in Nat /\ Len(t) \in Nat
         /\ Len(s \o t) = Len(s) + Len(t)
         /\ \A k \in 1 .. Len(s) : (s \o t)[k] = s[k]
         /\ \A k \in 1 .. Len(t) : (s \o t)[Len(s) + k] = t[k]
OBVIOUS

LEMMA JoinedBytes ==
  ASSUME NEW s \in Seq(Byte), NEW t \in Seq(Byte)
  PROVE  /\ s \o t \in Seq(Byte) /\ Len(s \o t) = Len(s) + Len(t)
         /\ \A k \in 1 .. Len(s) : (s \o t)[k] = s[k]
         /\ \A k \in 1 .. Len(t) : (s \o t)[Len(s) + k] = t[k]
OBVIOUS

LEMMA Split ==
  ASSUME NEW full \in Seq(Nat), NEW at \in Nat, NEW s \in Seq(Nat), NEW t \in Seq(Nat)
  PROVE  /\ s \o t \in Seq(Nat) /\ at + Len(s) \in Nat
         /\ Sits(full, at, s \o t) => Sits(full, at, s) /\ Sits(full, at + Len(s), t)
         /\ Ends(full, at, s \o t) => Sits(full, at, s) /\ Ends(full, at + Len(s), t)
PROOF
  <1>1. PICK ls, lt, st : ls = Len(s) /\ lt = Len(t) /\ st = s \o t
    OBVIOUS
  <1>2. /\ ls \in Nat /\ lt \in Nat /\ Len(st) = ls + lt /\ st \in Seq(Nat)
        /\ \A k \in 1 .. ls : st[k] = s[k]
        /\ \A k \in 1 .. lt : st[ls + k] = t[k]
    BY <1>1
  <1>3. ASSUME Sits(full, at, st) PROVE Sits(full, at, s) /\ Sits(full, at + ls, t)
    <2>1. at + (ls + lt) <= Len(full) /\ \A k \in 1 .. ls + lt : full[at + k] = st[k]
      BY <1>2, <1>3 DEF Sits
    <2>2. at + ls <= Len(full) /\ (at + ls) + lt <= Len(full)
      BY <1>2, <2>1
    <2>3. ASSUME NEW k \in 1 .. ls PROVE full[at + k] = s[k]
      <3>1. k \in 1 .. ls + lt
        BY <1>2
      <3> QED
        BY <1>2, <2>1, <3>1
    <2>4. ASSUME NEW k \in 1 .. lt PROVE full[(at + ls) + k] = t[k]
      <3>1. ls + k \in 1 .. ls + lt /\ at + (ls + k) = (at + ls) + k
        BY <1>2
      <3>2. full[at + (ls + k)] = st[ls + k]
        BY <2>1, <3>1
      <3> QED
        BY <1>2, <3>1, <3>2
    <2> QED
      BY <1>1, <2>2, <2>3, <2>4 DEF Sits
  <1>4. at + (ls + lt) = (at + ls) + lt /\ at + ls \in Nat
    BY <1>2
  <1> QED
    BY <1>1, <1>2, <1>3, <1>4 DEF Ends

(* The parts of what lz4_emit_sequence emits, where they stand.            *)
LEMMA LastParts ==
  ASSUME NEW full \in Seq(Nat), NEW at \in Nat, NEW lit \in Seq(Byte)
  PROVE  /\ LastSequence(lit) \in Seq(Nat) /\ Len(LastSequence(lit)) > 0
         /\ Ends(full, at, LastSequence(lit)) =>
              /\ Sits(full, at, << Token(Len(lit), 0) >>)
              /\ Sits(full, at + 1, LengthTail(Len(lit)))
              /\ Ends(full, at + 1 + Len(LengthTail(Len(lit))), lit)
PROOF
  <1>1. lit \in Seq(Nat) /\ Len(lit) \in Nat
    BY ByteFacts DEF Byte
  <1>2. PICK h, t : h = << Token(Len(lit), 0) >> /\ t = LengthTail(Len(lit))
    OBVIOUS
  <1>3. h \in Seq(Nat) /\ Len(h) = 1 /\ t \in Seq(Nat)
    BY <1>1, <1>2, TokenFacts, TailFacts
  <1>4. PICK ht : ht = h \o t
    OBVIOUS
  <1>5. ht \in Seq(Nat) /\ Len(ht) = 1 + Len(t) /\ Len(t) \in Nat
    <2>1. h \o t \in Seq(Nat) /\ Len(h \o t) = Len(h) + Len(t) /\ Len(t) \in Nat
      BY <1>3, Joined, Zenon
    <2> QED
      BY <1>3, <1>4, <2>1
  <1>6. LastSequence(lit) = ht \o lit
    BY <1>2, <1>4 DEF LastSequence
  <1>7. ht \o lit \in Seq(Nat) /\ Len(ht \o lit) > 0
    BY <1>1, <1>5, Joined
  <1>8. ASSUME Ends(full, at, ht \o lit) PROVE Sits(full, at, ht) /\ Ends(full, at + Len(ht), lit)
    BY <1>1, <1>5, <1>8, Split
  <1>9. ASSUME Sits(full, at, ht) PROVE Sits(full, at, h) /\ Sits(full, at + Len(h), t)
    BY <1>3, <1>4, <1>9, Split
  <1>10. at + Len(ht) = at + 1 + Len(t)
    BY <1>5
  <1> QED
    BY <1>2, <1>3, <1>6, <1>7, <1>8, <1>9, <1>10

LEMMA MatchParts ==
  ASSUME NEW full \in Seq(Nat), NEW at \in Nat, NEW lit \in Seq(Byte), NEW offset \in Nat,
         NEW m \in Nat, m >= MinMatch, NEW rest \in Seq(Nat),
         NEW a1, a1 = at + 1 + Len(LengthTail(Len(lit))),
         NEW a2, a2 = a1 + Len(lit)
  PROVE  /\ MatchSequence(lit, offset, m) \o rest \in Seq(Nat)
         /\ Len(MatchSequence(lit, offset, m) \o rest) > 0
         /\ Ends(full, at, MatchSequence(lit, offset, m) \o rest) =>
              /\ Sits(full, at, << Token(Len(lit), m - MinMatch) >>)
              /\ Sits(full, at + 1, LengthTail(Len(lit)))
              /\ Sits(full, a1, lit)
              /\ Sits(full, a2, OffsetBytes(offset))
              /\ Sits(full, a2 + 2, LengthTail(m - MinMatch))
              /\ Ends(full, a2 + 2 + Len(LengthTail(m - MinMatch)), rest)
PROOF
  <1>1. lit \in Seq(Nat) /\ Len(lit) \in Nat /\ m - MinMatch \in Nat
    BY ByteFacts DEF Byte
  <1>2. PICK h, tl, o, tm : /\ h = << Token(Len(lit), m - MinMatch) >> /\ tl = LengthTail(Len(lit))
                            /\ o = OffsetBytes(offset) /\ tm = LengthTail(m - MinMatch)
    OBVIOUS
  <1>3. h \in Seq(Nat) /\ Len(h) = 1 /\ tl \in Seq(Nat) /\ o \in Seq(Nat) /\ Len(o) = 2 /\ tm \in Seq(Nat)
    BY <1>1, <1>2, TokenFacts, TailFacts, OffsetFacts
  <1>4. PICK s2 : s2 = h \o tl
    OBVIOUS
  <1>5. s2 \in Seq(Nat) /\ Len(s2) = 1 + Len(tl)
    <2>1. h \o tl \in Seq(Nat) /\ Len(h \o tl) = Len(h) + Len(tl)
      BY <1>3, Joined, Zenon
    <2> QED
      BY <1>3, <1>4, <2>1
  <1>6. PICK s3 : s3 = s2 \o lit
    OBVIOUS
  <1>7. s3 \in Seq(Nat) /\ Len(s3) = Len(s2) + Len(lit)
    BY <1>1, <1>5, <1>6, Joined
  <1>8. PICK s4 : s4 = s3 \o o
    OBVIOUS
  <1>9. s4 \in Seq(Nat) /\ Len(s4) = Len(s3) + 2
    <2>1. s3 \o o \in Seq(Nat) /\ Len(s3 \o o) = Len(s3) + Len(o)
      BY <1>3, <1>7, Joined, Zenon
    <2> QED
      BY <1>3, <1>8, <2>1
  <1>10. PICK s5 : s5 = s4 \o tm
    OBVIOUS
  <1>11. s5 \in Seq(Nat) /\ Len(s5) = Len(s4) + Len(tm)
    BY <1>3, <1>9, <1>10, Joined
  <1>12. MatchSequence(lit, offset, m) = s5
    BY <1>2, <1>4, <1>6, <1>8, <1>10 DEF MatchSequence, OffsetBytes
  <1>13. /\ Len(tl) \in Nat /\ Len(tm) \in Nat /\ Len(rest) \in Nat /\ Len(lit) \in Nat
         /\ s5 \o rest \in Seq(Nat) /\ Len(s5 \o rest) = Len(s5) + Len(rest)
    BY <1>1, <1>3, <1>11, Joined
  <1>14. /\ a1 = at + Len(s2) /\ a2 = at + Len(s3) /\ a2 + 2 = at + Len(s4)
         /\ a2 + 2 + Len(tm) = at + Len(s5) /\ Len(s5 \o rest) > 0
    BY <1>2, <1>3, <1>5, <1>7, <1>9, <1>11, <1>13
  <1>15. ASSUME Ends(full, at, s5 \o rest) PROVE Sits(full, at, s5) /\ Ends(full, at + Len(s5), rest)
    BY <1>11, <1>15, Split
  <1>16. ASSUME Sits(full, at, s5) PROVE Sits(full, at, s4) /\ Sits(full, at + Len(s4), tm)
    BY <1>3, <1>9, <1>10, <1>16, Split
  <1>17. ASSUME Sits(full, at, s4) PROVE Sits(full, at, s3) /\ Sits(full, at + Len(s3), o)
    BY <1>3, <1>7, <1>8, <1>17, Split
  <1>18. ASSUME Sits(full, at, s3) PROVE Sits(full, at, s2) /\ Sits(full, at + Len(s2), lit)
    BY <1>1, <1>5, <1>6, <1>18, Split
  <1>19. ASSUME Sits(full, at, s2) PROVE Sits(full, at, h) /\ Sits(full, at + Len(h), tl)
    BY <1>3, <1>4, <1>19, Split
  <1> QED
    BY <1>2, <1>3, <1>12, <1>13, <1>14, <1>15, <1>16, <1>17, <1>18, <1>19

LEMMA MatchTyped ==
  ASSUME NEW lit \in Seq(Byte), NEW offset \in Nat, NEW m \in Nat, m >= MinMatch, NEW rest \in Seq(Nat)
  PROVE  /\ MatchSequence(lit, offset, m) \o rest \in Seq(Nat)
         /\ Len(MatchSequence(lit, offset, m) \o rest) > 0
PROOF
  <1>1. lit \in Seq(Nat) /\ Len(lit) \in Nat /\ m - MinMatch \in Nat
    BY ByteFacts DEF Byte
  <1>2. PICK h, tl, o, tm : /\ h = << Token(Len(lit), m - MinMatch) >> /\ tl = LengthTail(Len(lit))
                            /\ o = OffsetBytes(offset) /\ tm = LengthTail(m - MinMatch)
    OBVIOUS
  <1>3. h \in Seq(Nat) /\ Len(h) = 1 /\ tl \in Seq(Nat) /\ o \in Seq(Nat) /\ tm \in Seq(Nat)
    BY <1>1, <1>2, TokenFacts, TailFacts, OffsetFacts
  <1>4. PICK s2 : s2 = h \o tl
    OBVIOUS
  <1>5. s2 \in Seq(Nat) /\ Len(s2) >= 1
    <2>1. h \o tl \in Seq(Nat) /\ Len(h \o tl) = Len(h) + Len(tl) /\ Len(tl) \in Nat
      BY <1>3, Joined, Zenon
    <2> QED
      BY <1>3, <1>4, <2>1
  <1>6. PICK s3 : s3 = s2 \o lit
    OBVIOUS
  <1>7. s3 \in Seq(Nat) /\ Len(s3) >= 1
    BY <1>1, <1>5, <1>6, Joined
  <1>8. PICK s4 : s4 = s3 \o o
    OBVIOUS
  <1>9. s4 \in Seq(Nat) /\ Len(s4) >= 1
    BY <1>3, <1>7, <1>8, Joined
  <1>10. PICK s5 : s5 = s4 \o tm
    OBVIOUS
  <1>11. s5 \in Seq(Nat) /\ Len(s5) >= 1
    BY <1>3, <1>9, <1>10, Joined
  <1>12. MatchSequence(lit, offset, m) = s5
    BY <1>2, <1>4, <1>6, <1>8, <1>10 DEF MatchSequence, OffsetBytes
  <1> QED
    BY <1>11, <1>12, Joined

-----------------------------------------------------------------------------
LEMMA Piece ==
  ASSUME NEW w \in Seq(Byte), NEW a \in 0 .. Len(w), NEW i \in a .. Len(w)
  PROVE  /\ SubSeq(w, a + 1, i) \in Seq(Byte) /\ Len(SubSeq(w, a + 1, i)) = i - a
         /\ \A k \in 1 .. i - a : SubSeq(w, a + 1, i)[k] = w[a + k]
PROOF
  <1>1. Len(w) \in Nat /\ a \in Nat /\ i \in Nat /\ a <= i /\ i <= Len(w)
    OBVIOUS
  <1>2. /\ SubSeq(w, a + 1, i) \in Seq(Byte)
        /\ Len(SubSeq(w, a + 1, i)) = IF a + 1 <= i THEN i - (a + 1) + 1 ELSE 0
        /\ \A k \in 1 .. i - (a + 1) + 1 : SubSeq(w, a + 1, i)[k] = w[(a + 1) + k - 1]
    BY <1>1
  <1>3. i - (a + 1) + 1 = i - a /\ (a + 1 <= i \/ i - a = 0)
    BY <1>1
  <1>4. \A k \in 1 .. i - a : (a + 1) + k - 1 = a + k
    BY <1>1
  <1> QED
    BY <1>2, <1>3, <1>4

(* What is emitted from an anchor on, given what is emitted later.         *)
EmitFrom(w, anchor, From) ==
  IF Matches(w, anchor) = {} THEN LastSequence(SubSeq(w, anchor + 1, Len(w)))
  ELSE LET i == Min(Matches(w, anchor))
           p == Max(Refs(w, i))
           m == MatchLen(w, p, i)
       IN  MatchSequence(SubSeq(w, anchor + 1, i), i - p, m) \o From[i + m]

LEMMA OnlyLater ==
  ASSUME NEW w \in Seq(Byte), NEW a \in 0 .. Len(w), NEW f, NEW g,
         \A b \in a + 1 .. Len(w) : f[b] = g[b]
  PROVE  EmitFrom(w, a, f) = EmitFrom(w, a, g)
PROOF
  <1>1. CASE Matches(w, a) = {}
    BY <1>1 DEF EmitFrom
  <1>2. CASE Matches(w, a) # {}
    <2>1. PICK i : i = Min(Matches(w, a))
      OBVIOUS
    <2>2. PICK p : p = Max(Refs(w, i))
      OBVIOUS
    <2>3. PICK m : m = MatchLen(w, p, i)
      OBVIOUS
    <2>4. i \in a .. Len(w) /\ Repeats(w, p, i, m)
      BY <1>2, <2>1, <2>2, <2>3, MatchFacts
    <2>5. i + m \in a + 1 .. Len(w)
      <3>1. m \in MinMatch .. Len(w) - i /\ i \in a .. Len(w)
        BY <2>4 DEF Repeats
      <3>2. Len(w) \in Nat /\ a \in Nat /\ MinMatch \in Nat \ {0}
        BY ByteFacts
      <3> QED
        BY <3>1, <3>2
    <2>6. f[i + m] = g[i + m]
      BY <2>5
    <2>7. /\ EmitFrom(w, a, f) = MatchSequence(SubSeq(w, a + 1, i), i - p, m) \o f[i + m]
          /\ EmitFrom(w, a, g) = MatchSequence(SubSeq(w, a + 1, i), i - p, m) \o g[i + m]
      BY <1>2, <2>1, <2>2, <2>3, Zenon DEF EmitFrom
    <2> QED
      BY <2>6, <2>7
  <1> QED
    BY <1>1, <1>2

(* The recursive function of the encoder exists: what it emits at the last *)
(* positions is defined without it, and then position by position.         *)
LEMMA EmittedEquation ==
  ASSUME NEW w \in Seq(Byte)
  PROVE  Emitted(w) = [a \in 0 .. Len(w) |-> EmitFrom(w, a, Emitted(w))]
PROOF
  <1>1. PICK n \in Nat : n = Len(w)
    OBVIOUS
  <1> DEFINE Upto(f, d) == \A a \in 0 .. n : a + d >= n => f[a] = EmitFrom(w, a, f)
             T == {d \in 0 .. n : ~ \E f : Upto(f, d)}
  <1>2. \E f : Upto(f, n)
    <2> SUFFICES ASSUME ~ \E f : Upto(f, n) PROVE FALSE
      OBVIOUS
    <2>1. n \in T /\ T \subseteq Nat
      OBVIOUS
    <2> HIDE DEF Upto
    <2>2. PICK d \in T : \A y \in T : d <= y
      BY <2>1, LeastOf
    <2>3. PICK f : d > 0 => Upto(f, d - 1)
      <3>1. CASE d > 0
        <4>1. d - 1 \in 0 .. n /\ ~(d <= d - 1)
          BY <3>1
        <4> QED
          BY <2>2, <4>1
      <3> QED
        BY <3>1
    <2> DEFINE g == [a \in 0 .. n |-> IF a + d = n THEN EmitFrom(w, n - d, f) ELSE f[a]]
    <2>4. ASSUME NEW a \in 0 .. n, a + d >= n PROVE g[a] = EmitFrom(w, a, g)
      <3>1. ASSUME NEW b \in a + 1 .. Len(w) PROVE f[b] = g[b]
        <4>1. b \in 0 .. n /\ b + d # n
          BY <1>1, <2>4, <3>1
        <4> QED
          BY <4>1
      <3> HIDE DEF g
      <3>2. EmitFrom(w, a, f) = EmitFrom(w, a, g)
        BY <1>1, <3>1, OnlyLater
      <3>3. CASE a + d = n
        <4>1. a = n - d
          BY <3>3
        <4>2. g[a] = EmitFrom(w, n - d, f)
          BY <3>3 DEF g
        <4> QED
          BY <3>2, <4>1, <4>2
      <3>4. CASE a + d # n
        <4>1. d > 0 /\ a + (d - 1) >= n
          BY <2>4, <3>4
        <4>2. f[a] = EmitFrom(w, a, f)
          BY <2>3, <4>1 DEF Upto
        <4>3. g[a] = f[a]
          BY <3>4 DEF g
        <4> QED
          BY <3>2, <4>2, <4>3
      <3> QED
        BY <3>3, <3>4
    <2> HIDE DEF g
    <2>5. Upto(g, d)
      BY <2>4 DEF Upto
    <2> QED
      BY <2>2, <2>5
  <1>3. PICK f : Upto(f, n)
    BY <1>2
  <1> DEFINE Eq(F) == F = [a \in 0 .. Len(w) |-> EmitFrom(w, a, F)]
             h == [a \in 0 .. Len(w) |-> f[a]]
  <1>4. Eq(h)
    <2> SUFFICES ASSUME NEW a \in 0 .. Len(w) PROVE f[a] = EmitFrom(w, a, h)
      OBVIOUS
    <2>1. f[a] = EmitFrom(w, a, f)
      BY <1>1, <1>3
    <2>2. \A b \in a + 1 .. Len(w) : f[b] = h[b]
      BY <1>1
    <2> HIDE DEF h
    <2> QED
      BY <2>1, <2>2, OnlyLater
  <1>5. Emitted(w) = CHOOSE F : Eq(F)
    BY DEF Emitted, EmitFrom
  <1> HIDE DEF Eq, h
  <1>6. Eq(CHOOSE F : Eq(F))
    BY <1>4
  <1>7. Eq(Emitted(w))
    BY <1>5, <1>6
  <1> QED
    BY <1>7 DEF Eq

LEMMA EmittedTyped ==
  ASSUME NEW w \in Seq(Byte), NEW a \in 0 .. Len(w)
  PROVE  Emitted(w)[a] \in Seq(Nat) /\ Len(Emitted(w)[a]) > 0
PROOF
  <1>1. PICK n \in Nat : n = Len(w)
    OBVIOUS
  <1>2. PICK F : F = Emitted(w)
    OBVIOUS
  <1>3. \A b \in 0 .. n : F[b] = EmitFrom(w, b, F)
    BY <1>1, <1>2, EmittedEquation
  <1> DEFINE T == {d \in 0 .. n : ~(F[n - d] \in Seq(Nat) /\ Len(F[n - d]) > 0)}
  <1>4. T = {}
    <2> SUFFICES ASSUME T # {} PROVE FALSE
      OBVIOUS
    <2>1. PICK d \in T : \A y \in T : d <= y
      <3>1. T \subseteq Nat
        OBVIOUS
      <3> QED
        BY <3>1, LeastOf
    <2>2. PICK b : b = n - d /\ b \in 0 .. n
      OBVIOUS
    <2>3. ASSUME NEW c \in b + 1 .. n PROVE F[c] \in Seq(Nat)
      <3>1. n - c \in 0 .. n /\ ~(d <= n - c) /\ n - (n - c) = c
        BY <2>2
      <3> QED
        BY <2>1, <3>1
    <2>4. F[b] \in Seq(Nat) /\ Len(F[b]) > 0
      <3>1. CASE Matches(w, b) = {}
        <4>1. F[b] = LastSequence(SubSeq(w, b + 1, n))
          BY <1>1, <1>3, <2>2, <3>1 DEF EmitFrom
        <4>2. SubSeq(w, b + 1, n) \in Seq(Byte)
          BY <1>1, <2>2, Piece
        <4>3. << >> \in Seq(Nat)
          OBVIOUS
        <4> QED
          BY <4>1, <4>2, <4>3, LastParts
      <3>2. CASE Matches(w, b) # {}
        <4>1. PICK i : i = Min(Matches(w, b))
          OBVIOUS
        <4>2. PICK p : p = Max(Refs(w, i))
          OBVIOUS
        <4>3. PICK m : m = MatchLen(w, p, i)
          OBVIOUS
        <4>4. i \in b .. Len(w) /\ Repeats(w, p, i, m)
          BY <1>1, <2>2, <3>2, <4>1, <4>2, <4>3, MatchFacts
        <4>5. i + m \in b + 1 .. n /\ i - p \in Nat /\ m \in Nat /\ m >= MinMatch
          BY <1>1, <2>2, <4>4, ByteFacts DEF Repeats
        <4>6. F[b] = MatchSequence(SubSeq(w, b + 1, i), i - p, m) \o F[i + m]
          BY <1>3, <2>2, <3>2, <4>1, <4>2, <4>3, Zenon DEF EmitFrom
        <4>7. SubSeq(w, b + 1, i) \in Seq(Byte)
          BY <1>1, <2>2, <4>4, Piece
        <4>8. F[i + m] \in Seq(Nat)
          BY <2>3, <4>5
        <4>9. PICK lit, rest, o : lit = SubSeq(w, b + 1, i) /\ rest = F[i + m] /\ o = i - p
          OBVIOUS
        <4>10. lit \in Seq(Byte)
          BY <4>7, <4>9
        <4>11. o \in Nat /\ rest \in Seq(Nat)
          BY <4>5, <4>8, <4>9
        <4>12. MatchSequence(lit, o, m) \o rest \in Seq(Nat) /\ Len(MatchSequence(lit, o, m) \o rest) > 0
          BY <4>5, <4>10, <4>11, MatchTyped
        <4> QED
          BY <4>6, <4>9, <4>12
      <3> QED
        BY <3>1, <3>2
    <2> QED
      BY <2>1, <2>2, <2>4
  <1>5. n - a \in 0 .. n /\ n - (n - a) = a
    BY <1>1
  <1>6. n - a \notin T
    BY <1>4
  <1> QED
    BY <1>2, <1>5, <1>6

-----------------------------------------------------------------------------
(* What the decoder reads and should write, for a stream that was          *)
(* compressed.  Back counts the bytes of the prefix no match can reach.    *)
Compressed == input.kind \in {"whole", "cut"}

Full == Compress(input.prefix, input.chunk)
Text == Window(input.prefix, input.chunk)
Back == DstOff - Len(Recent(input.prefix))

LEMMA WindowFacts ==
  ASSUME input \in Streams
  PROVE  /\ Text \in Seq(Byte) /\ Back \in Nat /\ Back <= DstOff /\ Len(Text) \in Nat /\ End = Back + Len(Text)
         /\ \A k \in 1 .. DstOff - Back : Text[k] = input.prefix[Back + k]
         /\ \A k \in 1 .. Len(input.chunk) : Text[DstOff - Back + k] = input.chunk[k]
         /\ Full = Emitted(Text)[DstOff - Back]
PROOF
  <1>1. PICK prefix, chunk, n : prefix = input.prefix /\ chunk = input.chunk /\ n = Least(Len(prefix), MaxOffset)
    OBVIOUS
  <1>2. prefix \in Seq(Byte) /\ chunk \in Seq(Byte) /\ Len(prefix) \in Nat /\ Len(chunk) \in Nat
    BY <1>1, InputFacts
  <1>3. n \in 0 .. Len(prefix) /\ n \in Nat
    BY <1>1, <1>2, ByteFacts DEF Least
  <1>4. PICK b \in Nat : b = Len(prefix) - n
    BY <1>2, <1>3
  <1>5. Recent(prefix) = SubSeq(prefix, b + 1, Len(prefix))
    BY <1>1, <1>4 DEF Recent
  <1>6. b \in 0 .. Len(prefix) /\ Len(prefix) \in b .. Len(prefix) /\ Len(prefix) - b = n
    BY <1>2, <1>3, <1>4
  <1>7. PICK r : r = Recent(prefix)
    OBVIOUS
  <1>8. r \in Seq(Byte) /\ Len(r) = n /\ \A k \in 1 .. n : r[k] = prefix[b + k]
    BY <1>2, <1>5, <1>6, <1>7, Piece
  <1>9. Text = r \o chunk
    BY <1>1, <1>7 DEF Text, Window
  <1>10. DstOff = Len(prefix) /\ Back = b /\ DstOff - Back = n
    BY <1>1, <1>2, <1>3, <1>4, <1>7, <1>8 DEF DstOff, Back
  <1>11. /\ r \o chunk \in Seq(Byte) /\ Len(r \o chunk) = n + Len(chunk)
         /\ \A k \in 1 .. n : (r \o chunk)[k] = r[k]
         /\ \A k \in 1 .. Len(chunk) : (r \o chunk)[n + k] = chunk[k]
    <2>1. chunk \in Seq(Byte) /\ r \in Seq(Byte) /\ Len(r) = n
      BY <1>2, <1>8
    <2> QED
      BY <2>1, JoinedBytes
  <1>12. Full = Emitted(Text)[DstOff - Back]
    BY <1>1, <1>7, <1>8, <1>10 DEF Full, Compress, Text
  <1>13. End = Back + Len(Text)
    <2>1. End = DstOff + Len(chunk) /\ Len(Text) = n + Len(chunk)
      BY <1>1, <1>9, <1>11 DEF End
    <2> QED
      BY <1>2, <1>3, <1>4, <1>10, <2>1
  <1>14. \A k \in 1 .. DstOff - Back : Text[k] = input.prefix[Back + k]
    BY <1>1, <1>8, <1>9, <1>10, <1>11
  <1>15. \A k \in 1 .. Len(input.chunk) : Text[DstOff - Back + k] = input.chunk[k]
    BY <1>1, <1>9, <1>10, <1>11
  <1>16. Text \in Seq(Byte) /\ Len(Text) \in Nat /\ Back \in Nat /\ Back <= DstOff
    BY <1>2, <1>3, <1>4, <1>9, <1>10, <1>11
  <1> QED
    BY <1>12, <1>13, <1>14, <1>15, <1>16

LEMMA SourceFacts ==
  ASSUME input \in Streams, Compressed
  PROVE  /\ Full \in Seq(Nat) /\ Len(Full) \in Nat /\ Len(Src) \in Nat /\ Len(Src) <= Len(Full)
         /\ \A k \in 1 .. Len(Src) : Src[k] = Full[k]
         /\ \A k \in 0 .. Len(Src) - 1 : ByteAt(k) = Full[k + 1]
         /\ input.kind = "whole" => Len(Src) = Len(Full)
PROOF
  <1>1. Full \in Seq(Nat)
    <2>1. DstOff - Back \in 0 .. Len(Text) /\ Text \in Seq(Byte) /\ Full = Emitted(Text)[DstOff - Back]
      BY InputFacts, WindowFacts
    <2> QED
      BY <2>1, EmittedTyped
  <1>2. IsStream(input) /\ Src \in Seq(Byte) /\ Len(Src) \in Nat /\ Len(Full) \in Nat
    BY <1>1, InputFacts
  <1>3. CASE input.kind = "whole"
    <2>1. Src = Full
      BY <1>2, <1>3 DEF IsStream, Src, Full
    <2> QED
      BY <1>1, <1>2, <1>3, <2>1 DEF ByteAt
  <1>4. CASE input.kind = "cut"
    <2>1. PICK n \in 0 .. Len(Full) : Src = SubSeq(Full, 1, n)
      BY <1>2, <1>4 DEF IsStream, Src, Full
    <2>2. PICK f : f = Full
      OBVIOUS
    <2>3. Len(SubSeq(f, 1, n)) = n /\ \A k \in 1 .. n : SubSeq(f, 1, n)[k] = f[k]
      BY <1>1, <1>2, <2>2
    <2>4. Len(Src) = n /\ \A k \in 1 .. Len(Src) : Src[k] = Full[k]
      BY <2>1, <2>2, <2>3
    <2>5. \A k \in 0 .. Len(Src) - 1 : ByteAt(k) = Full[k + 1]
      BY <1>2, <2>4 DEF ByteAt
    <2>6. input.kind # "whole"
      BY <1>4
    <2> QED
      BY <1>1, <1>2, <2>4, <2>5, <2>6
  <1> QED
    BY <1>3, <1>4 DEF Compressed

(* blob_lz4_read_len reads the length that was emitted, or fails because   *)
(* the stream was cut.                                                     *)
LEMMA LengthRead ==
  ASSUME input \in Streams, Compressed, NEW p \in Nat, NEW len \in Nat,
         Sits(Full, p, LengthTail(len))
  PROVE  /\ \A l \in LengthAt(Least(len, Escape), p) : l.len = len /\ l.next = p + Len(LengthTail(len))
         /\ p + Len(LengthTail(len)) <= Len(Src) => \E l \in LengthAt(Least(len, Escape), p) : TRUE
PROOF
  <1>1. Escape \in Nat /\ ByteMax \in Nat
    BY ByteFacts
  <1>2. CASE len < Escape
    <2>1. Least(len, Escape) = len /\ len # Escape
      BY <1>1, <1>2 DEF Least
    <2>2. LengthAt(len, p) = {[len |-> len, next |-> p]}
      BY <2>1 DEF LengthAt
    <2>3. Len(LengthTail(len)) = 0
      BY <1>2, TailFacts
    <2>4. p + 0 = p
      OBVIOUS
    <2> QED
      BY <2>1, <2>2, <2>3, <2>4
  <1>3. CASE len >= Escape
    <2>1. Least(len, Escape) = Escape
      BY <1>1, <1>3 DEF Least
    <2>2. PICK c \in Nat, r \in 0 .. ByteMax - 1 :
            /\ len = Escape + c * ByteMax + r /\ Len(LengthTail(len)) = c + 1
            /\ \A k \in 1 .. c : LengthTail(len)[k] = ByteMax
            /\ LengthTail(len)[c + 1] = r
      BY <1>3, TailFacts
    <2>3. p + (c + 1) <= Len(Full) /\ \A k \in 1 .. c + 1 : Full[p + k] = LengthTail(len)[k]
      BY <2>2 DEF Sits
    <2>4. Len(Src) \in Nat /\ \A k \in 0 .. Len(Src) - 1 : ByteAt(k) = Full[k + 1]
      BY SourceFacts
    <2>5. ASSUME NEW k \in p .. p + c - 1, k < Len(Src) PROVE ByteAt(k) = ByteMax
      <3>1. k \in 0 .. Len(Src) - 1 /\ k - p + 1 \in 1 .. c /\ k - p + 1 \in 1 .. c + 1 /\ p + (k - p + 1) = k + 1
        BY <2>4, <2>5
      <3>2. ByteAt(k) = Full[k + 1]
        BY <2>4, <3>1
      <3>3. Full[p + (k - p + 1)] = LengthTail(len)[k - p + 1]
        BY <2>3, <3>1
      <3>4. LengthTail(len)[k - p + 1] = ByteMax
        BY <2>2, <3>1
      <3> QED
        BY <3>1, <3>2, <3>3, <3>4
    <2>6. p + c < Len(Src) => ByteAt(p + c) = r /\ r # ByteMax
      <3> SUFFICES ASSUME p + c < Len(Src) PROVE ByteAt(p + c) = r /\ r # ByteMax
        OBVIOUS
      <3>1. p + c \in 0 .. Len(Src) - 1 /\ c + 1 \in 1 .. c + 1 /\ p + (c + 1) = (p + c) + 1
        BY <2>4
      <3>2. ByteAt(p + c) = Full[(p + c) + 1]
        BY <2>4, <3>1
      <3>3. Full[p + (c + 1)] = LengthTail(len)[c + 1]
        BY <2>3, <3>1
      <3> QED
        BY <1>1, <2>2, <3>1, <3>2, <3>3
    <2> DEFINE Q == {q \in p .. Len(Src) - 1 : /\ ByteAt(q) # ByteMax
                                                /\ \A k \in p .. q - 1 : ByteAt(k) = ByteMax}
    <2>7. LengthAt(Escape, p) = {[len |-> Escape + (q - p) * ByteMax + ByteAt(q), next |-> q + 1] : q \in Q}
      BY DEF LengthAt
    <2>8. ASSUME NEW q \in Q PROVE q = p + c /\ p + c < Len(Src)
      <3>1. q \in p .. Len(Src) - 1 /\ q < Len(Src) /\ q \in Int
        BY <2>4
      <3>2. CASE q < p + c
        <4>1. q \in p .. p + c - 1
          BY <3>1, <3>2
        <4> QED
          BY <2>5, <3>1, <4>1
      <3>3. CASE q > p + c
        <4>1. p + c \in p .. q - 1 /\ p + c < Len(Src)
          BY <2>4, <3>1, <3>3
        <4>2. ByteAt(p + c) = ByteMax
          BY <4>1
        <4> QED
          BY <2>6, <4>1, <4>2
      <3> QED
        BY <3>1, <3>2, <3>3
    <2>9. ASSUME NEW l \in LengthAt(Escape, p) PROVE l.len = len /\ l.next = p + (c + 1)
      <3>1. PICK q \in Q : l = [len |-> Escape + (q - p) * ByteMax + ByteAt(q), next |-> q + 1]
        BY <2>7
      <3> HIDE DEF Q
      <3>2. q = p + c /\ p + c < Len(Src)
        BY <2>8
      <3>3. q - p = c /\ q + 1 = p + (c + 1) /\ ByteAt(q) = r
        BY <2>6, <3>2
      <3>4. l.len = Escape + c * ByteMax + r /\ l.next = p + (c + 1)
        BY <3>1, <3>3
      <3> QED
        BY <2>2, <3>4
    <2>10. ASSUME p + (c + 1) <= Len(Src) PROVE \E l \in LengthAt(Escape, p) : TRUE
      <3>1. p + c < Len(Src) /\ p + c \in p .. Len(Src) - 1
        BY <2>4, <2>10
      <3>2. \A k \in p .. (p + c) - 1 : ByteAt(k) = ByteMax
        BY <2>4, <2>5, <3>1
      <3>3. p + c \in Q
        BY <2>6, <3>1, <3>2
      <3> HIDE DEF Q
      <3> QED
        BY <2>7, <3>3
    <2> HIDE DEF Q
    <2> QED
      BY <2>1, <2>2, <2>9, <2>10
  <1> QED
    BY <1>1, <1>2, <1>3

-----------------------------------------------------------------------------
(* Where the decoder is in a stream that was compressed: in front of what  *)
(* was emitted from its position on, or of the rest of a match sequence;   *)
(* a stream that was cut may end in between.                               *)
MatchDue ==
  \E p, m \in Nat :
    /\ Repeats(Text, p, op - Back, m)
    /\ token % (Escape + 1) = Least(m - MinMatch, Escape)
    /\ Sits(Full, ip, OffsetBytes(op - Back - p))
    /\ Sits(Full, ip + 2, LengthTail(m - MinMatch))
    /\ Ends(Full, ip + 2 + Len(LengthTail(m - MinMatch)), Emitted(Text)[op - Back + m])

SequenceDue ==
  \/ Ends(Full, ip, Emitted(Text)[op - Back])
  \/ ip = Len(Src) /\ (input.kind = "whole" => op = End)

Follows ==
  /\ \A k \in 1 .. op - Back : dst[Back + k] = Text[k]
  /\ state = "sequence" => SequenceDue
  /\ state = "match" => MatchDue
  /\ state = "ok" => op = End
  /\ state = "error" => input.kind # "whole"

(* The literals of a sequence, from the position to i.                     *)
LEMMA LiteralRun ==
  ASSUME DecoderInv, Compressed, Follows, Literals,
         NEW match \in Nat, NEW i \in op - Back .. Len(Text), NEW n, n = i - (op - Back),
         NEW at, at = ip + 1 + Len(LengthTail(n)),
         Sits(Full, ip, << Token(n, match) >>), Sits(Full, ip + 1, LengthTail(n)),
         Sits(Full, at, SubSeq(Text, (op - Back) + 1, i))
  PROVE  /\ UNCHANGED input /\ at \in Nat
         /\ state' = "error" => input.kind # "whole"
         /\ state' # "error" =>
              /\ op' = Back + i /\ ip' = at + n /\ token' = Token(n, match)
              /\ state' = IF at + n = Len(Src) THEN "sequence" ELSE "match"
              /\ \A k \in 1 .. i : dst'[Back + k] = Text[k]
PROOF
  <1>1. /\ input \in Streams /\ Text \in Seq(Byte) /\ Back \in Nat /\ Back <= DstOff /\ Len(Text) \in Nat
        /\ End = Back + Len(Text) /\ DstOff \in Nat /\ op \in Nat /\ op >= DstOff /\ op <= End
        /\ ip \in Nat /\ Len(Src) \in Nat /\ End \in Nat /\ Slack \in Nat
        /\ DOMAIN dst = 1 .. End + Slack
    BY InputFacts, WindowFacts DEF DecoderInv
  <1>2. n \in Nat /\ i \in Nat /\ op - Back \in Nat /\ Back + i = op + n /\ Back + i <= End
    BY <1>1
  <1>3. LengthTail(n) \in Seq(Nat) /\ Len(LengthTail(n)) \in Nat /\ at \in Nat
    <2>1. LengthTail(n) \in Seq(Nat)
      BY <1>2, TailFacts
    <2>2. Len(LengthTail(n)) \in Nat
      BY <2>1
    <2> QED
      BY <1>1, <2>1, <2>2
  <1>4. /\ Len(SubSeq(Text, (op - Back) + 1, i)) = n
        /\ \A k \in 1 .. n : SubSeq(Text, (op - Back) + 1, i)[k] = Text[(op - Back) + k]
    <2>1. op - Back \in 0 .. Len(Text) /\ i - (op - Back) = n
      BY <1>1, <1>2
    <2> QED
      BY <1>1, <2>1, Piece
  <1>5. at + n <= Len(Full) /\ \A k \in 1 .. n : Full[at + k] = Text[(op - Back) + k]
    BY <1>4 DEF Sits
  <1>6. /\ state = "sequence" /\ ip < Len(Src)
        /\ \A k \in 0 .. Len(Src) - 1 : ByteAt(k) = Full[k + 1]
        /\ Len(Full) \in Nat /\ (input.kind = "whole" => Len(Src) = Len(Full))
    BY <1>1, SourceFacts DEF Literals
  <1>7. ByteAt(ip) = Token(n, match) /\ ByteAt(ip) \div (Escape + 1) = Least(n, Escape)
    <2>1. Len(<< Token(n, match) >>) = 1 /\ << Token(n, match) >>[1] = Token(n, match)
      OBVIOUS
    <2>2. Full[ip + 1] = Token(n, match)
      BY <2>1 DEF Sits
    <2>3. ByteAt(ip) = Full[ip + 1]
      BY <1>1, <1>6
    <2> QED
      BY <1>2, <2>2, <2>3, TokenFacts
  <1>8. PICK ls : ls = LengthAt(Least(n, Escape), ip + 1)
    OBVIOUS
  <1>9. /\ \A l \in ls : l.len = n /\ l.next = at
        /\ at <= Len(Src) => \E l \in ls : TRUE
    <2>1. ip + 1 \in Nat /\ (ip + 1) + Len(LengthTail(n)) = at
      BY <1>1, <1>3
    <2> QED
      BY <1>1, <1>2, <1>8, <2>1, LengthRead
  <1>10. \/ (\A l \in ls : ~LiteralsFit(l)) /\ Fail
         \/ \E l \in ls :
              /\ LiteralsFit(l)
              /\ dst' = [k \in DOMAIN dst |->
                           IF k - 1 \in op .. op + l.len - 1
                           THEN ByteAt(l.next + k - 1 - op) ELSE dst[k]]
              /\ op' = op + l.len
              /\ ip' = l.next + l.len
              /\ token' = ByteAt(ip)
              /\ state' = IF ip' = Len(Src) THEN "sequence" ELSE "match"
              /\ UNCHANGED input
    BY <1>7, <1>8 DEF Literals
  <1>11. CASE (\A l \in ls : ~LiteralsFit(l)) /\ Fail
    <2>1. UNCHANGED input /\ state' = "error"
      BY <1>11 DEF Fail
    <2>2. ASSUME input.kind = "whole" PROVE FALSE
      <3>1. at <= Len(Src) /\ n <= Len(Src) - at /\ n <= End - op
        BY <1>1, <1>2, <1>3, <1>5, <1>6, <2>2
      <3>2. PICK l \in ls : TRUE
        BY <1>9, <3>1
      <3>3. l.len = n /\ l.next = at
        BY <1>9
      <3> QED
        BY <1>11, <3>1, <3>2, <3>3 DEF LiteralsFit
    <2> QED
      BY <1>3, <2>1, <2>2
  <1>12. CASE ~((\A l \in ls : ~LiteralsFit(l)) /\ Fail)
    <2>1. /\ n <= Len(Src) - at /\ n <= End - op
          /\ dst' = [k \in DOMAIN dst |-> IF k - 1 \in op .. op + n - 1
                                          THEN ByteAt(at + k - 1 - op) ELSE dst[k]]
          /\ op' = op + n /\ ip' = at + n /\ token' = ByteAt(ip)
          /\ state' = IF at + n = Len(Src) THEN "sequence" ELSE "match"
          /\ UNCHANGED input
      <3>1. PICK l \in ls :
              /\ LiteralsFit(l)
              /\ dst' = [k \in DOMAIN dst |->
                           IF k - 1 \in op .. op + l.len - 1
                           THEN ByteAt(l.next + k - 1 - op) ELSE dst[k]]
              /\ op' = op + l.len
              /\ ip' = l.next + l.len
              /\ token' = ByteAt(ip)
              /\ state' = IF ip' = Len(Src) THEN "sequence" ELSE "match"
              /\ UNCHANGED input
        BY <1>10, <1>12
      <3>2. l.len = n /\ l.next = at
        BY <1>9
      <3> QED
        BY <3>1, <3>2 DEF LiteralsFit
    <2>2. ASSUME NEW k \in 1 .. i PROVE dst'[Back + k] = Text[k]
      <3>1. Back + k \in 1 .. End + Slack
        BY <1>1, <1>2
      <3>2. CASE k <= op - Back
        <4>1. Back + k - 1 \notin op .. op + n - 1 /\ k \in 1 .. op - Back
          BY <1>1, <1>2, <3>2
        <4>2. dst'[Back + k] = dst[Back + k]
          BY <1>1, <2>1, <3>1, <4>1
        <4> QED
          BY <4>1, <4>2 DEF Follows
      <3>3. CASE k > op - Back
        <4>1. PICK j : j = k - (op - Back)
          OBVIOUS
        <4>2. /\ j \in 1 .. n /\ (op - Back) + j = k /\ Back + k - 1 \in op .. op + n - 1
              /\ at + (Back + k) - 1 - op = at + j - 1 /\ at + j - 1 \in 0 .. Len(Src) - 1 /\ (at + j - 1) + 1 = at + j
          BY <1>1, <1>2, <1>3, <2>1, <3>3, <4>1
        <4>3. dst'[Back + k] = ByteAt(at + (Back + k) - 1 - op)
          BY <1>1, <2>1, <3>1, <4>2
        <4>4. ByteAt(at + j - 1) = Full[at + j]
          BY <1>6, <4>2
        <4> QED
          BY <1>5, <4>2, <4>3, <4>4
      <3>4. k \in Nat /\ op - Back \in Nat
        BY <1>2
      <3>5. k <= op - Back \/ k > op - Back
        BY <3>4
      <3> QED
        BY <3>2, <3>3, <3>5
    <2>3. op' = Back + i /\ state' # "error" /\ token' = Token(n, match)
      BY <1>2, <1>7, <2>1
    <2> QED
      BY <1>3, <2>1, <2>2, <2>3
  <1> QED
    BY <1>11, <1>12

LEMMA SameStream ==
  ASSUME UNCHANGED input
  PROVE  /\ Full' = Full /\ Text' = Text /\ Back' = Back /\ DstOff' = DstOff /\ End' = End
         /\ Src' = Src /\ (Compressed' <=> Compressed)
BY DEF Full, Text, Back, DstOff, End, Src, Compressed

LEMMA LiteralsFollow ==
  ASSUME DecoderInv, Compressed, Follows, Literals
  PROVE  Follows'
PROOF
  <1>1. /\ input \in Streams /\ Text \in Seq(Byte) /\ Back \in Nat /\ Back <= DstOff /\ Len(Text) \in Nat
        /\ End = Back + Len(Text) /\ DstOff \in Nat /\ op \in Nat /\ op >= DstOff /\ op <= End
        /\ ip \in Nat /\ Len(Src) \in Nat /\ End \in Nat
    BY InputFacts, WindowFacts DEF DecoderInv
  <1>2. PICK a, E : a = op - Back /\ E = Emitted(Text)
    OBVIOUS
  <1>3. a \in 0 .. Len(Text) /\ a \in Nat
    BY <1>1, <1>2
  <1>4. Ends(Full, ip, E[a])
    BY <1>1, <1>2 DEF Literals, Follows, SequenceDue
  <1>5. /\ Full \in Seq(Nat) /\ Len(Full) \in Nat /\ Len(Src) <= Len(Full)
        /\ (input.kind = "whole" => Len(Src) = Len(Full))
    BY <1>1, SourceFacts
  <1>6. E[a] = EmitFrom(Text, a, E)
    BY <1>1, <1>2, <1>3, EmittedEquation
  <1>7. CASE Matches(Text, a) = {}
    <2>1. PICK lit, n, at : lit = SubSeq(Text, a + 1, Len(Text)) /\ n = Len(Text) - a /\ at = ip + 1 + Len(LengthTail(n))
      OBVIOUS
    <2>2. lit \in Seq(Byte) /\ Len(lit) = n /\ Len(Text) \in a .. Len(Text) /\ n \in Nat
      <3>1. Len(Text) \in a .. Len(Text) /\ n \in Nat
        BY <1>1, <1>3, <2>1
      <3> QED
        BY <1>1, <1>3, <2>1, <3>1, Piece
    <2>3. E[a] = LastSequence(lit)
      BY <1>6, <1>7, <2>1 DEF EmitFrom
    <2>4. /\ Sits(Full, ip, << Token(n, 0) >>) /\ Sits(Full, ip + 1, LengthTail(n)) /\ Ends(Full, at, lit)
      BY <1>1, <1>4, <1>5, <2>1, <2>2, <2>3, LastParts
    <2>5. Sits(Full, at, lit) /\ at + n = Len(Full)
      BY <2>2, <2>4 DEF Ends
    <2>6. /\ UNCHANGED input /\ at \in Nat
          /\ state' = "error" => input.kind # "whole"
          /\ state' # "error" =>
               /\ op' = Back + Len(Text) /\ ip' = at + n
               /\ state' = IF at + n = Len(Src) THEN "sequence" ELSE "match"
               /\ \A k \in 1 .. Len(Text) : dst'[Back + k] = Text[k]
      <3>1. PICK i, z : i = Len(Text) /\ z = 0
        OBVIOUS
      <3>2. i \in op - Back .. Len(Text) /\ n = i - (op - Back) /\ z \in Nat
        BY <1>2, <2>1, <2>2, <3>1
      <3>3. /\ Sits(Full, ip, << Token(n, z) >>) /\ Sits(Full, at, SubSeq(Text, (op - Back) + 1, i))
        BY <1>2, <2>1, <2>4, <2>5, <3>1
      <3>4. /\ UNCHANGED input /\ at \in Nat
            /\ state' = "error" => input.kind # "whole"
            /\ state' # "error" =>
                 /\ op' = Back + i /\ ip' = at + n
                 /\ state' = IF at + n = Len(Src) THEN "sequence" ELSE "match"
                 /\ \A k \in 1 .. i : dst'[Back + k] = Text[k]
        BY <2>1, <2>4, <3>2, <3>3, LiteralRun
      <3> QED
        BY <3>1, <3>4
    <2>7. CASE state' = "error"
      <3>1. UNCHANGED <<op, dst>>
        <4>1. \/ Fail
              \/ \E l \in LengthAt(ByteAt(ip) \div (Escape + 1), ip + 1) :
                   state' = IF ip' = Len(Src) THEN "sequence" ELSE "match"
          BY DEF Literals
        <4> QED
          BY <2>7, <4>1 DEF Fail
      <3> QED
        BY <2>6, <2>7, <3>1, SameStream DEF Follows
    <2>8. CASE state' # "error"
      <3>1. at + n = Len(Src)
        <4>1. DecoderInv'
          BY <2>8, LiteralsWrite
        <4>2. ip' <= Len(Src)
          BY <1>1, <2>6, <4>1, SameStream DEF DecoderInv
        <4> QED
          BY <1>1, <1>5, <2>2, <2>5, <2>6, <2>8, <4>2
      <3>2. state' = "sequence" /\ ip' = Len(Src) /\ op' = End /\ op' - Back = Len(Text)
        BY <1>1, <2>6, <2>8, <3>1
      <3> QED
        BY <2>6, <2>8, <3>2, SameStream DEF Follows, SequenceDue
    <2> QED
      BY <2>7, <2>8
  <1>8. CASE Matches(Text, a) # {}
    <2>1. PICK i : i = Min(Matches(Text, a))
      OBVIOUS
    <2>2. PICK p : p = Max(Refs(Text, i))
      OBVIOUS
    <2>3. PICK m : m = MatchLen(Text, p, i)
      OBVIOUS
    <2>4. i \in a .. Len(Text) /\ Repeats(Text, p, i, m)
      BY <1>1, <1>3, <1>8, <2>1, <2>2, <2>3, MatchFacts
    <2>5. /\ i + m \in 0 .. Len(Text) /\ i - p \in Nat /\ p \in Nat /\ m \in Nat /\ m >= MinMatch
          /\ m - MinMatch \in Nat /\ m > 0
      BY <1>1, <1>3, <2>4, ByteFacts DEF Repeats
    <2>6. PICK lit, rest, o : lit = SubSeq(Text, a + 1, i) /\ rest = E[i + m] /\ o = i - p
      OBVIOUS
    <2>7. E[a] = MatchSequence(lit, o, m) \o rest
      BY <1>6, <1>8, <2>1, <2>2, <2>3, <2>6, Zenon DEF EmitFrom
    <2>8. PICK n : n = i - a
      OBVIOUS
    <2>9. lit \in Seq(Byte) /\ Len(lit) = n /\ n \in Nat
      BY <1>1, <1>3, <2>4, <2>6, <2>8, Piece
    <2>10. rest \in Seq(Nat)
      BY <1>1, <1>2, <2>5, <2>6, EmittedTyped
    <2>11. PICK at, a2 : at = ip + 1 + Len(LengthTail(n)) /\ a2 = at + n
      OBVIOUS
    <2>12. /\ Sits(Full, ip, << Token(n, m - MinMatch) >>)
           /\ Sits(Full, ip + 1, LengthTail(n))
           /\ Sits(Full, at, lit)
           /\ Sits(Full, a2, OffsetBytes(o))
           /\ Sits(Full, a2 + 2, LengthTail(m - MinMatch))
           /\ Ends(Full, a2 + 2 + Len(LengthTail(m - MinMatch)), rest)
      <3>1. Ends(Full, ip, MatchSequence(lit, o, m) \o rest) /\ o \in Nat
        BY <1>4, <2>5, <2>6, <2>7
      <3>2. at = ip + 1 + Len(LengthTail(Len(lit))) /\ a2 = at + Len(lit)
        BY <2>9, <2>11
      <3> QED
        BY <1>1, <1>5, <2>5, <2>9, <2>10, <3>1, <3>2, MatchParts
    <2>13. /\ UNCHANGED input /\ at \in Nat
           /\ state' = "error" => input.kind # "whole"
           /\ state' # "error" =>
                /\ op' = Back + i /\ ip' = at + n /\ token' = Token(n, m - MinMatch)
                /\ state' = IF at + n = Len(Src) THEN "sequence" ELSE "match"
                /\ \A k \in 1 .. i : dst'[Back + k] = Text[k]
      <3>1. PICK t : t = m - MinMatch
        OBVIOUS
      <3>2. i \in op - Back .. Len(Text) /\ n = i - (op - Back) /\ t \in Nat
        BY <1>2, <2>4, <2>5, <2>8, <3>1
      <3>3. /\ Sits(Full, ip, << Token(n, t) >>) /\ Sits(Full, at, SubSeq(Text, (op - Back) + 1, i))
        BY <1>2, <2>6, <2>12, <3>1
      <3>4. /\ UNCHANGED input /\ at \in Nat
            /\ state' = "error" => input.kind # "whole"
            /\ state' # "error" =>
                 /\ op' = Back + i /\ ip' = at + n /\ token' = Token(n, t)
                 /\ state' = IF at + n = Len(Src) THEN "sequence" ELSE "match"
                 /\ \A k \in 1 .. i : dst'[Back + k] = Text[k]
        BY <2>11, <2>12, <3>2, <3>3, LiteralRun
      <3> QED
        BY <3>1, <3>4
    <2>14. CASE state' = "error"
      <3>1. UNCHANGED <<op, dst>>
        <4>1. \/ Fail
              \/ \E l \in LengthAt(ByteAt(ip) \div (Escape + 1), ip + 1) :
                   state' = IF ip' = Len(Src) THEN "sequence" ELSE "match"
          BY DEF Literals
        <4> QED
          BY <2>14, <4>1 DEF Fail
      <3> QED
        BY <2>13, <2>14, <3>1, SameStream DEF Follows
    <2>15. CASE state' # "error"
      <3>1. op' - Back = i /\ ip' = a2
        BY <1>1, <1>3, <2>4, <2>11, <2>13, <2>15
      <3>2. a2 # Len(Full)
        <4>1. a2 + Len(OffsetBytes(o)) <= Len(Full) /\ Len(OffsetBytes(o)) = 2
          BY <2>5, <2>6, <2>12, OffsetFacts DEF Sits
        <4>2. a2 \in Nat
          BY <2>9, <2>11, <2>13
        <4> QED
          BY <1>5, <4>1, <4>2
      <3>3. CASE a2 = Len(Src)
        <4>1. state' = "sequence" /\ input.kind # "whole" /\ ip' = Len(Src)
          BY <1>5, <2>11, <2>13, <2>15, <3>1, <3>2, <3>3
        <4> QED
          BY <2>13, <2>15, <3>1, <4>1, SameStream DEF Follows, SequenceDue
      <3>4. CASE a2 # Len(Src)
        <4>1. state' = "match"
          BY <2>11, <2>13, <2>15, <3>4
        <4>2. token' % (Escape + 1) = Least(m - MinMatch, Escape)
          BY <2>5, <2>9, <2>13, <2>15, TokenFacts
        <4>3. /\ Repeats(Text, p, op' - Back, m)
              /\ Sits(Full, ip', OffsetBytes(op' - Back - p))
              /\ Sits(Full, ip' + 2, LengthTail(m - MinMatch))
              /\ Ends(Full, ip' + 2 + Len(LengthTail(m - MinMatch)), Emitted(Text)[op' - Back + m])
          BY <1>2, <2>4, <2>6, <2>12, <3>1
        <4>4. MatchDue'
          <5>1. /\ Repeats(Text', p, op' - Back', m)
                /\ token' % (Escape + 1) = Least(m - MinMatch, Escape)
                /\ Sits(Full', ip', OffsetBytes(op' - Back' - p))
                /\ Sits(Full', ip' + 2, LengthTail(m - MinMatch))
                /\ Ends(Full', ip' + 2 + Len(LengthTail(m - MinMatch)), Emitted(Text')[op' - Back' + m])
            BY <2>13, <4>2, <4>3, SameStream
          <5> QED
            BY <2>5, <5>1, Zenon DEF MatchDue
        <4> QED
          BY <2>13, <2>15, <3>1, <4>1, <4>4, SameStream DEF Follows
      <3> QED
        BY <3>3, <3>4
    <2> QED
      BY <2>14, <2>15
  <1> QED
    BY <1>7, <1>8

(* A match copied byte by byte repeats the text even where it overlaps     *)
(* what it writes.                                                         *)
LEMMA CopyRight ==
  ASSUME DecoderInv, Follows, NEW p \in Nat, NEW m \in Nat, Repeats(Text, p, op - Back, m)
  PROVE  /\ op + m <= End
         /\ \A k \in 1 .. op + m - Back : Copied(op - Back - p, m)[Back + k] = Text[k]
PROOF
  <1>1. /\ Back \in Nat /\ Back <= DstOff /\ Len(Text) \in Nat
        /\ End = Back + Len(Text) /\ DstOff \in Nat /\ op \in Nat /\ op >= DstOff /\ op <= End
        /\ End \in Nat /\ Slack \in Nat
    BY InputFacts, WindowFacts DEF DecoderInv
  <1>2. PICK i, o : i = op - Back /\ o = op - Back - p
    OBVIOUS
  <1>3. /\ i \in Nat /\ op = Back + i /\ p \in 0 .. i - 1 /\ o \in Nat \ {0} /\ o = i - p /\ o <= op
        /\ m \in 0 .. Len(Text) - i /\ op + m <= End /\ op + m - Back = i + m
        /\ \A k \in 1 .. m : Text[p + k] = Text[i + k]
    BY <1>1, <1>2, ByteFacts DEF Repeats
  <1>4. PICK C : C = Copied(o, m)
    OBVIOUS
  <1>5. /\ \A k \in 1 .. End + Slack : k <= op \/ k > op + m => C[k] = dst[k]
        /\ \A k \in op + 1 .. op + m : C[k] = C[k - o]
    BY <1>3, <1>4, CopyFacts
  <1> DEFINE T == {k \in 1 .. i + m : C[Back + k] # Text[k]}
  <1>6. T = {}
    <2> SUFFICES ASSUME T # {} PROVE FALSE
      OBVIOUS
    <2>1. PICK x \in T : \A y \in T : x <= y
      <3>1. T \subseteq Nat
        OBVIOUS
      <3> QED
        BY <3>1, LeastOf
    <2>2. x \in 1 .. i + m /\ x \in Nat /\ C[Back + x] # Text[x]
      OBVIOUS
    <2>3. CASE x <= i
      <3>1. Back + x \in 1 .. End + Slack /\ Back + x <= op /\ x \in 1 .. op - Back
        BY <1>1, <1>3, <2>2, <2>3
      <3>2. C[Back + x] = dst[Back + x] /\ dst[Back + x] = Text[x]
        BY <1>5, <3>1 DEF Follows
      <3> QED
        BY <2>2, <3>2
    <2>4. CASE x > i
      <3>1. PICK y : y = x - o
        OBVIOUS
      <3>2. /\ y \in 1 .. i + m /\ ~(x <= y) /\ Back + x \in op + 1 .. op + m /\ Back + x - o = Back + y
            /\ x - i \in 1 .. m /\ p + (x - i) = y /\ i + (x - i) = x
        <4>1. i \in Nat /\ p \in Nat /\ p < i /\ o = i - p /\ x \in Nat /\ x > i /\ x <= i + m /\ m \in Nat
              /\ Back \in Nat /\ op = Back + i
          BY <1>1, <1>3, <2>2, <2>4
        <4>2. y = x - i + p
          BY <3>1, <4>1
        <4>3. y \in 1 .. i + m /\ ~(x <= y) /\ x - i \in 1 .. m
          BY <4>1, <4>2
        <4>4. Back + x \in op + 1 .. op + m /\ Back + x - o = Back + y
          BY <4>1, <4>2
        <4>5. p + (x - i) = y /\ i + (x - i) = x
          BY <4>1, <4>2
        <4> QED
          BY <4>3, <4>4, <4>5
      <3>3. C[Back + y] = Text[y]
        BY <2>1, <3>2
      <3>4. C[Back + x] = C[Back + y]
        <4>1. PICK z : z = Back + x
          OBVIOUS
        <4>2. z \in op + 1 .. op + m /\ z - o = Back + y
          BY <1>1, <1>3, <2>2, <3>1, <3>2, <4>1
        <4>3. C[z] = C[z - o]
          BY <1>5, <4>2
        <4> QED
          BY <4>1, <4>2, <4>3
      <3>5. Text[y] = Text[x]
        BY <1>3, <3>2
      <3> QED
        BY <2>2, <3>3, <3>4, <3>5
    <2>5. x <= i \/ x > i
      BY <1>3, <2>2
    <2> QED
      BY <2>3, <2>4, <2>5
  <1> QED
    BY <1>2, <1>3, <1>4, <1>6

LEMMA MatchFollows ==
  ASSUME DecoderInv, Compressed, Follows, Match
  PROVE  Follows'
PROOF
  <1>1. /\ input \in Streams /\ Text \in Seq(Byte) /\ Back \in Nat /\ Back <= DstOff /\ Len(Text) \in Nat
        /\ End = Back + Len(Text) /\ DstOff \in Nat /\ op \in Nat /\ op >= DstOff /\ op <= End
        /\ ip \in Nat /\ ip <= Len(Src) /\ Len(Src) \in Nat /\ End \in Nat
    BY InputFacts, WindowFacts DEF DecoderInv
  <1>2. PICK p \in Nat, m \in Nat :
          /\ Repeats(Text, p, op - Back, m)
          /\ token % (Escape + 1) = Least(m - MinMatch, Escape)
          /\ Sits(Full, ip, OffsetBytes(op - Back - p))
          /\ Sits(Full, ip + 2, LengthTail(m - MinMatch))
          /\ Ends(Full, ip + 2 + Len(LengthTail(m - MinMatch)), Emitted(Text)[op - Back + m])
    BY DEF Match, Follows, MatchDue
  <1>3. PICK o, t, next : o = op - Back - p /\ t = m - MinMatch /\ next = ip + 2 + Len(LengthTail(t))
    OBVIOUS
  <1>4. o \in Nat /\ o # 0 /\ o <= op /\ t \in Nat /\ m = t + MinMatch /\ MinMatch \in Nat
    BY <1>1, <1>2, <1>3, ByteFacts DEF Repeats
  <1>5. op + m <= End /\ \A k \in 1 .. op + m - Back : Copied(o, m)[Back + k] = Text[k]
    BY <1>2, <1>3, CopyRight
  <1>6. /\ Len(Full) \in Nat /\ \A k \in 0 .. Len(Src) - 1 : ByteAt(k) = Full[k + 1]
        /\ (input.kind = "whole" => Len(Src) = Len(Full))
    BY <1>1, SourceFacts
  <1>7. /\ ip + 2 <= Len(Full) /\ Full[ip + 1] + Full[ip + 2] * (ByteMax + 1) = o
    <2>1. Len(OffsetBytes(o)) = 2 /\ OffsetBytes(o)[1] + OffsetBytes(o)[2] * (ByteMax + 1) = o
      BY <1>4, OffsetFacts
    <2>2. 1 \in 1 .. 2 /\ 2 \in 1 .. 2
      OBVIOUS
    <2>3. Full[ip + 1] = OffsetBytes(o)[1] /\ Full[ip + 2] = OffsetBytes(o)[2] /\ ip + 2 <= Len(Full)
      BY <1>2, <1>3, <2>1, <2>2 DEF Sits
    <2> QED
      BY <2>1, <2>3
  <1>8. next \in Nat /\ next <= Len(Full)
    <2>1. LengthTail(t) \in Seq(Nat)
      BY <1>4, TailFacts
    <2>2. Len(LengthTail(t)) \in Nat
      BY <2>1
    <2>3. ip + 2 + Len(LengthTail(t)) <= Len(Full)
      BY <1>2, <1>3 DEF Sits
    <2> QED
      BY <1>1, <1>3, <2>2, <2>3
  <1>9. PICK ms : ms = LengthAt(Least(t, Escape), ip + 2)
    OBVIOUS
  <1>10. /\ \A l \in ms : l.len = t /\ l.next = next
         /\ next <= Len(Src) => \E l \in ms : TRUE
    <2>1. ip + 2 \in Nat /\ Sits(Full, ip + 2, LengthTail(t))
      BY <1>1, <1>2, <1>3
    <2> QED
      BY <1>1, <1>3, <1>4, <1>9, <2>1, LengthRead
  <1>11. CASE Fail
    <2>1. UNCHANGED <<input, op, dst>> /\ state' = "error"
      BY <1>11 DEF Fail
    <2>2. input.kind # "whole"
      <3> SUFFICES ASSUME input.kind = "whole" PROVE FALSE
        OBVIOUS
      <3>1. ~(Len(Src) - ip < 2)
        BY <1>1, <1>6, <1>7
      <3>2. ByteAt(ip) + ByteAt(ip + 1) * (ByteMax + 1) = o
        <4>1. ip \in 0 .. Len(Src) - 1 /\ ip + 1 \in 0 .. Len(Src) - 1 /\ (ip + 1) + 1 = ip + 2
          BY <1>1, <3>1
        <4>2. ByteAt(ip) = Full[ip + 1] /\ ByteAt(ip + 1) = Full[ip + 2]
          BY <1>6, <4>1
        <4> QED
          BY <1>7, <4>2
      <3>3. OffsetFits(o)
        BY <1>4 DEF OffsetFits
      <3>4. PICK l \in ms : TRUE
        BY <1>6, <1>8, <1>10
      <3>5. l.len = t
        BY <1>10
      <3>6. MatchFits(l)
        BY <1>1, <1>4, <1>5, <3>5 DEF MatchFits
      <3>7. \/ \A k \in ms : ~MatchFits(k)
            \/ \E k \in ms : state' = "sequence"
        BY <1>2, <1>3, <1>9, <3>1, <3>2, <3>3 DEF Match
      <3> QED
        BY <2>1, <3>6, <3>7
    <2> QED
      BY <2>1, <2>2, SameStream DEF Follows
  <1>12. CASE ~Fail
    <2>1. ~(Len(Src) - ip < 2)
      BY <1>12 DEF Match
    <2>2. ByteAt(ip) + ByteAt(ip + 1) * (ByteMax + 1) = o
      <3>1. ip \in 0 .. Len(Src) - 1 /\ ip + 1 \in 0 .. Len(Src) - 1 /\ (ip + 1) + 1 = ip + 2
        BY <1>1, <2>1
      <3>2. ByteAt(ip) = Full[ip + 1] /\ ByteAt(ip + 1) = Full[ip + 2]
        BY <1>6, <3>1
      <3> QED
        BY <1>7, <3>2
    <2>3. PICK l \in ms :
            /\ dst' = Copied(o, l.len + MinMatch)
            /\ op' = op + l.len + MinMatch
            /\ ip' = l.next
            /\ state' = "sequence"
            /\ UNCHANGED <<input, token>>
      BY <1>2, <1>3, <1>9, <1>12, <2>1, <2>2 DEF Match
    <2>4. l.len = t /\ l.next = next
      BY <1>10
    <2>5. dst' = Copied(o, m) /\ op' = op + m /\ ip' = next /\ state' = "sequence" /\ UNCHANGED input
      BY <1>1, <1>4, <2>3, <2>4
    <2>6. op' - Back = op + m - Back /\ op + m - Back = op - Back + m
      BY <1>1, <2>5
    <2>7. Ends(Full, ip', Emitted(Text)[op' - Back])
      BY <1>2, <1>3, <2>5, <2>6
    <2>8. \A k \in 1 .. op' - Back : dst'[Back + k] = Text[k]
      BY <1>5, <2>5, <2>6
    <2> QED
      BY <2>5, <2>7, <2>8, SameStream DEF Follows, SequenceDue
  <1> QED
    BY <1>11, <1>12

LEMMA FinishFollows ==
  ASSUME DecoderInv, Compressed, Follows, Finish
  PROVE  Follows'
PROOF
  <1>1. /\ input \in Streams /\ Text \in Seq(Byte) /\ Back \in Nat /\ Back <= DstOff /\ Len(Text) \in Nat
        /\ End = Back + Len(Text) /\ DstOff \in Nat /\ op \in Nat /\ op >= DstOff /\ op <= End
    BY InputFacts, WindowFacts DEF DecoderInv
  <1>2. UNCHANGED <<input, op, dst>> /\ ip = Len(Src) /\ state' = IF op = End THEN "ok" ELSE "error"
    BY DEF Finish
  <1>3. SequenceDue
    BY DEF Finish, Follows
  <1>4. input.kind = "whole" => op = End
    <2> SUFFICES ASSUME input.kind = "whole", Ends(Full, ip, Emitted(Text)[op - Back]) PROVE FALSE
      BY <1>3 DEF SequenceDue
    <2>1. op - Back \in 0 .. Len(Text)
      BY <1>1
    <2>2. Emitted(Text)[op - Back] \in Seq(Nat) /\ Len(Emitted(Text)[op - Back]) > 0
      BY <1>1, <2>1, EmittedTyped
    <2>3. Len(Emitted(Text)[op - Back]) \in Nat
      BY <2>2
    <2>4. ip + Len(Emitted(Text)[op - Back]) = ip /\ ip \in Nat
      BY <1>1, <1>2, SourceFacts DEF Ends
    <2> QED
      BY <2>2, <2>3, <2>4
  <1> QED
    BY <1>2, <1>4, SameStream DEF Follows

LEMMA FollowsFirst == DecodeInit => (Compressed => Follows)
PROOF
  <1> SUFFICES ASSUME DecodeInit, Compressed PROVE Follows
    OBVIOUS
  <1>1. input \in Streams /\ ip = 0 /\ op = DstOff /\ state = "sequence"
        /\ dst = input.prefix \o [k \in 1 .. Len(input.chunk) + Slack |-> Unset]
    BY DEF DecodeInit
  <1>2. /\ Back \in Nat /\ Back <= DstOff /\ DstOff \in Nat
        /\ \A k \in 1 .. DstOff - Back : Text[k] = input.prefix[Back + k]
        /\ Full = Emitted(Text)[DstOff - Back] /\ Full \in Seq(Nat) /\ Len(Full) \in Nat
    BY <1>1, InputFacts, WindowFacts, SourceFacts
  <1>3. /\ input.prefix \in Seq(Byte) /\ Len(input.prefix) = DstOff /\ Slack \in Nat /\ Len(input.chunk) \in Nat
    BY <1>1, InputFacts DEF DstOff
  <1>4. [k \in 1 .. Len(input.chunk) + Slack |-> Unset] \in Seq({Unset})
    BY <1>3
  <1>5. \A k \in 1 .. DstOff : dst[k] = input.prefix[k]
    BY <1>1, <1>2, <1>3, <1>4
  <1>6. \A k \in 1 .. op - Back : dst[Back + k] = Text[k]
    <2> SUFFICES ASSUME NEW k \in 1 .. DstOff - Back PROVE dst[Back + k] = Text[k]
      BY <1>1
    <2>1. Back + k \in 1 .. DstOff
      BY <1>2
    <2> QED
      BY <1>2, <1>5, <2>1
  <1>7. Ends(Full, ip, Emitted(Text)[op - Back])
    <2>1. \A k \in 1 .. Len(Full) : Full[0 + k] = Full[k]
      OBVIOUS
    <2>2. 0 + Len(Full) = Len(Full)
      BY <1>2
    <2>3. Ends(Full, 0, Full)
      BY <1>2, <2>1, <2>2 DEF Ends, Sits
    <2> QED
      BY <1>1, <1>2, <2>3
  <1> QED
    BY <1>1, <1>6, <1>7 DEF Follows, SequenceDue

LEMMA PieceIs ==
  ASSUME NEW f, NEW d \in Nat, NEW n \in Nat, NEW c \in Seq(Byte), Len(c) = n,
         \A k \in 1 .. n : f[d + k] = c[k]
  PROVE  SubSeq(f, d + 1, d + n) = c
PROOF
  <1>1. \A i \in d + 1 .. d + n : f[i] \in Byte
    <2> SUFFICES ASSUME NEW i \in d + 1 .. d + n PROVE f[i] \in Byte
      OBVIOUS
    <2>1. i - d \in 1 .. n /\ d + (i - d) = i
      OBVIOUS
    <2>2. f[d + (i - d)] = c[i - d]
      BY <2>1
    <2>3. c[i - d] \in Byte
      BY <2>1
    <2> QED
      BY <2>1, <2>2, <2>3
  <1>2. /\ SubSeq(f, d + 1, d + n) \in Seq(Byte)
        /\ Len(SubSeq(f, d + 1, d + n)) = IF d + 1 <= d + n THEN (d + n) - (d + 1) + 1 ELSE 0
        /\ \A i \in 1 .. (d + n) - (d + 1) + 1 : SubSeq(f, d + 1, d + n)[i] = f[(d + 1) + i - 1]
    BY <1>1, SubSeqProperties
  <1>3. PICK t : t = SubSeq(f, d + 1, d + n)
    OBVIOUS
  <1>4. t \in Seq(Byte) /\ Len(t) = n /\ \A i \in 1 .. n : t[i] = c[i]
    <2>1. (d + n) - (d + 1) + 1 = n /\ (d + 1 <= d + n \/ n = 0)
      OBVIOUS
    <2>2. \A i \in 1 .. n : (d + 1) + i - 1 = d + i
      OBVIOUS
    <2> QED
      BY <1>2, <1>3, <2>1, <2>2
  <1>5. t = c
    BY <1>4
  <1> QED
    BY <1>3, <1>5

(* RoundTrip: what gen_blob.py compressed is accepted and expands to what  *)
(* it was, for every chunk, prefix and width of the format; what was cut   *)
(* short is rejected or expands to the same.                               *)
THEOREM DecodeUndoesCompress == DecodeSpec => []RoundTrip
PROOF
  <1> DEFINE Inv == DecoderInv /\ (Compressed => Follows)
  <1>1. DecodeInit => Inv
    BY DecoderInitial, FollowsFirst
  <1>2. Inv /\ [DecodeNext]_codec => Inv'
    <2> SUFFICES ASSUME Inv, [DecodeNext]_codec PROVE Inv'
      OBVIOUS
    <2>1. DecoderInv'
      BY DecoderStep
    <2>2. CASE UNCHANGED codec
      BY <2>1, <2>2, SameStream DEF codec, Follows, MatchDue, SequenceDue
    <2>3. CASE DecodeNext
      <3>1. UNCHANGED input
        BY <2>3 DEF DecodeNext, Literals, Match, Finish, Fail
      <3>2. Compressed => Follows'
        BY <2>3, LiteralsFollow, MatchFollows, FinishFollows DEF DecodeNext
      <3> QED
        BY <2>1, <3>1, <3>2, SameStream
    <2> QED
      BY <2>2, <2>3
  <1>3. Inv => RoundTrip
    <2> SUFFICES ASSUME Inv, Compressed PROVE RoundTrip
      BY DEF RoundTrip, Compressed
    <2>1. state = "error" => input.kind # "whole"
      BY DEF Follows
    <2>2. ASSUME state = "ok" PROVE SubSeq(dst, DstOff + 1, End) = input.chunk
      <3>1. /\ Back \in Nat /\ Back <= DstOff /\ Len(Text) \in Nat /\ DstOff \in Nat
            /\ End = Back + Len(Text) /\ op = End /\ End = DstOff + Len(input.chunk) /\ Len(input.chunk) \in Nat
            /\ input.chunk \in Seq(Byte)
            /\ \A k \in 1 .. Len(input.chunk) : Text[DstOff - Back + k] = input.chunk[k]
        BY <2>2, InputFacts, WindowFacts DEF DecoderInv, Follows
      <3>2. ASSUME NEW k \in 1 .. Len(input.chunk) PROVE dst[DstOff + k] = input.chunk[k]
        <4>1. DstOff - Back + k \in 1 .. op - Back /\ Back + (DstOff - Back + k) = DstOff + k
          BY <3>1
        <4>2. dst[Back + (DstOff - Back + k)] = Text[DstOff - Back + k]
          BY <4>1 DEF Follows
        <4> QED
          BY <3>1, <4>1, <4>2
      <3>3. PICK n, c, d : n = Len(input.chunk) /\ c = input.chunk /\ d = DstOff
        OBVIOUS
      <3>4. n \in Nat /\ d \in Nat /\ c \in Seq(Byte) /\ Len(c) = n /\ \A k \in 1 .. n : dst[d + k] = c[k]
        BY <3>1, <3>2, <3>3
      <3>5. PICK f : f = dst
        OBVIOUS
      <3>6. SubSeq(f, d + 1, d + n) = c
        BY <3>4, <3>5, PieceIs
      <3> QED
        BY <3>1, <3>3, <3>5, <3>6
    <2> QED
      BY <2>1, <2>2 DEF RoundTrip
  <1> HIDE DEF Inv
  <1> QED
    BY <1>1, <1>2, <1>3, PTL DEF DecodeSpec
=============================================================================
