---------------------------- MODULE HeapProofs ----------------------------
(* Theorems about Heap. *)
EXTENDS Heap, TLAPS

\* A word is a natural number up to the largest.
LEMMA MaxNat == MaxWord \in Nat
  BY DEF MaxWord

LEMMA WordNat ==
  \A w : w \in Word <=> w \in Nat /\ w <= MaxWord
  BY MaxNat DEF Word

\* The two bytes of a word are bytes, and make the word up again.
LEMMA WordBytes ==
  ASSUME NEW w \in Word
  PROVE  w % 256 \in Byte /\ w \div 256 \in Byte /\ (w % 256) + 256 * (w \div 256) = w
<1> DEFINE lo == w % 256
           hi == w \div 256
<1>1. w \in Int /\ 0 <= w /\ w <= 65535
  BY WordNat DEF MaxWord
<1>2. hi \in Int /\ 0 <= hi /\ hi <= 255
  BY <1>1
<1>3. lo \in Int /\ 0 <= lo /\ lo <= 255
  BY <1>1
<1>4. lo + 256 * hi = w
  BY <1>1
<1>5. lo \in Byte /\ hi \in Byte
  <2> HIDE DEF lo, hi
  <2> QED  BY <1>2, <1>3 DEF Byte
<1> QED
  BY <1>4, <1>5

\* A word stored and read back is the same word, and words that do not touch
\* it keep their value.
LEMMA PokePeek ==
  ASSUME NEW m \in [Ram -> Byte], NEW a \in Ram, a + 1 \in Ram, NEW w \in Word
  PROVE  /\ Poke(m, a, w) \in [Ram -> Byte]
         /\ Peek(Poke(m, a, w), a) = w
         /\ \A b \in Ram : b + 1 \in Ram /\ b # a /\ b # a + 1 /\ b + 1 # a
              => Peek(Poke(m, a, w), b) = Peek(m, b)
         /\ \A b \in Ram : b # a /\ b # a + 1 => Poke(m, a, w)[b] = m[b]
<1> DEFINE lo == w % 256
           hi == w \div 256
<1>1. lo \in Byte /\ hi \in Byte /\ lo + 256 * hi = w
  BY WordBytes
<1>2. Ram \subseteq Int
  BY HeapAssumption DEF Ram
<1>3. Poke(m, a, w) = [m EXCEPT ![a] = lo, ![a + 1] = hi]
  BY DEF Poke
<1> HIDE DEF lo, hi
<1> QED
  BY <1>1, <1>2, <1>3 DEF Peek

-----------------------------------------------------------------------------
(* Where the words of the heap lie.                                         *)

LEMMA RamInt ==
  /\ Ram \subseteq Nat /\ FreeHead \in Ram /\ FreeHead + 1 \in Ram
  /\ FreeHead \in Nat /\ FreeHead > 0 /\ FreeHead + 1 < Start
  /\ Start \in Nat /\ Start <= MaxWord
<1>1. Start \in Nat /\ Start <= MaxWord
  BY HeapAssumption, WordNat
<1> QED
  BY HeapAssumption, MaxNat, <1>1 DEF Ram

LEMMA PeekWord ==
  ASSUME NEW m \in [Ram -> Byte], NEW a \in Ram, a + 1 \in Ram
  PROVE  Peek(m, a) \in Nat /\ Peek(m, a) <= MaxWord
<1> DEFINE lo == m[a]
           hi == m[a + 1]
<1>1. lo \in Nat /\ lo <= 255 /\ hi \in Nat /\ hi <= 255
  BY DEF Byte
<1>2. Peek(m, a) = lo + 256 * hi
  BY DEF Peek
<1> HIDE DEF lo, hi
<1> QED
  BY <1>1, <1>2 DEF MaxWord

\* Every byte of a block is a byte of Ram, above _free_head.
LEMMA BlockBytes ==
  ASSUME HeapInv
  PROVE  /\ \A b \in Blocks : /\ b \in Nat /\ b >= Start /\ b > FreeHead + 1
                             /\ b \in Ram /\ b + 1 \in Ram /\ b + 2 \in Ram /\ b + 3 \in Ram
                             /\ SizeAt(b) \in Nat /\ EndOf(b) \in Nat
                             /\ SizeAt(b) >= 2 /\ EndOf(b) = b + 2 + SizeAt(b)
                             /\ EndOf(b) <= Top
                             /\ \A a \in b .. EndOf(b) - 1 : a \in Ram
                             /\ b + 3 < Top
         /\ Top \in Nat /\ Top <= MaxWord
<1>1. Top \in Nat /\ Top <= MaxWord
  <2>1. heap_ptr \in Word
    BY DEF HeapInv, TypeOK
  <2>2. heap_ptr \in Nat /\ heap_ptr <= MaxWord
    BY <2>1, WordNat
  <2> QED
    BY <2>2, RamInt DEF Top
<1>2. ASSUME NEW b \in Blocks
      PROVE  b \in Nat /\ b >= Start /\ b > FreeHead + 1
  BY RamInt, MaxNat DEF HeapInv, TypeOK, Blocks
<1>3. ASSUME NEW b \in Blocks
      PROVE  /\ EndOf(b) = b + 2 + SizeAt(b) /\ EndOf(b) <= Top /\ SizeAt(b) >= 2
             /\ b + 3 < Top
  BY DEF HeapInv, Tiling, EndOf
<1>4. ASSUME NEW b \in Blocks
      PROVE  b \in Ram /\ b + 1 \in Ram /\ b + 2 \in Ram /\ b + 3 \in Ram
  BY <1>1, <1>2, <1>3, RamInt DEF HeapInv, Tiling
<1>5. ASSUME NEW b \in Blocks
      PROVE  SizeAt(b) \in Nat
  BY <1>4, PeekWord DEF HeapInv, TypeOK, SizeAt
<1>6. ASSUME NEW b \in Blocks, NEW a \in b .. EndOf(b) - 1
      PROVE  a \in Ram
  BY <1>1, <1>2, <1>3, <1>5, RamInt DEF HeapInv, Tiling
<1> QED
  BY <1>1, <1>2, <1>3, <1>4, <1>5, <1>6

\* What a link leads to is a free block above it, or 0.
LEMMA LinkFree ==
  ASSUME HeapInv, NEW a \in Word, NEW w, AtLink(a, w)
  PROVE  /\ w = 0 \/ w \in free
         /\ a # FreeHead => a - 2 \in free /\ FirstAbove(free, a - 2, w)
         /\ a = FreeHead => FirstAbove(free, 0, w)
<1>1. a \in Nat
  BY WordNat
<1>2. CASE a = FreeHead
  BY <1>2 DEF HeapInv, Sorted, FirstAbove, AtLink
<1>3. CASE a # FreeHead
  <2>1. a - 2 \in free /\ w = Peek(mem, (a - 2) + 2)
    BY <1>1, <1>3 DEF AtLink
  <2> QED
    BY <1>3, <2>1 DEF HeapInv, Sorted, FirstAbove, LinkAt
<1> QED
  BY <1>2, <1>3

-----------------------------------------------------------------------------
(* Steps that leave memory alone.                                           *)

LEMMA Quiet ==
  ASSUME HeapInv, UNCHANGED <<mem, free, used>>, Top' = Top
  PROVE  Tiling' /\ Sorted' /\ Blocks' = Blocks
<1>1. \A b : SizeAt(b)' = SizeAt(b) /\ LinkAt(b)' = LinkAt(b) /\ EndOf(b)' = EndOf(b)
  BY DEF SizeAt, LinkAt, EndOf, Peek
<1>2. Blocks' = Blocks
  BY DEF Blocks
<1>3. Peek(mem, FreeHead)' = Peek(mem, FreeHead)
  BY DEF Peek
<1>4. \A a, w : FirstAbove(free, a, w)' = FirstAbove(free, a, w)
  BY DEF FirstAbove
<1>5. Sorted'
  BY <1>1, <1>3, <1>4 DEF HeapInv, Sorted
<1>6. Tiling'
  BY <1>1, <1>2 DEF HeapInv, Tiling
<1> QED
  BY <1>2, <1>5, <1>6
LEMMA EnterMallocInv ==
  ASSUME HeapInv, pc = "idle", NEW op \in {"malloc", "calloc", "realloc"},
         NEW p \in Slots, NEW n \in Word, NEW sp \in SPs,
         EnterMalloc(op, p, n, sp),
         Owns(p) <=> op = "realloc",
         Owns(p) => SizeAt(blk[p].at - 2) < n
  PROVE  HeapInv'
<1> USE DEF EnterMalloc, ghosts
<1>1. Top' = Top
  BY RamInt DEF Top
<1>2. Tiling' /\ Sorted'
  BY <1>1, Quiet
<1>3. \A b : SizeAt(b)' = SizeAt(b) /\ LinkAt(b)' = LinkAt(b) /\ EndOf(b)' = EndOf(b)
  BY DEF SizeAt, LinkAt, EndOf, Peek
<1>4. \A q \in Slots : Owns(q)' = Owns(q)
  BY DEF Owns
<1>5. TypeOK'
  <2>1. Peek(mem, FreeHead) \in Word
    BY PeekWord, RamInt, WordNat DEF HeapInv, TypeOK
  <2>2. FreeHead \in Word /\ Start \in Word
    BY RamInt, WordNat, MaxNat
  <2>3. call' \in [op : {"none", "malloc", "calloc", "realloc", "free"},
                   p : Slots, n : Word, size : Word, sp : SPs \cup {0}]
    <3>1. n \in Nat /\ n <= MaxWord /\ 2 <= MaxWord
      BY WordNat DEF MaxWord
    <3>2. (IF n < 2 THEN 2 ELSE n) \in Word
      BY <3>1, WordNat
    <3> QED
      BY <3>2
  <2> QED
    BY <2>1, <2>2, <2>3 DEF HeapInv, TypeOK
<1>6. Coalesced'
  BY <1>3 DEF HeapInv, Coalesced
<1>7. NoLeak'
  BY <1>4 DEF HeapInv, NoLeak, Owned, InTransit
<1>8. Fits'
  BY <1>3, <1>4 DEF HeapInv, Fits
<1>9. Allocating'
  <2>1. heap_ptr' # 0
    BY RamInt
  <2>2. call'.size >= 2 /\ call'.size >= call'.n
    BY WordNat
  <2>3. AtLink(bc, hl)'
    BY DEF AtLink, Peek
  <2>4. ASSUME NEW f \in free, hl' = 0 \/ f < hl'
        PROVE  FALSE
    <3>1. \A g \in free : g \in Nat /\ g > 0
      BY BlockBytes, RamInt DEF Blocks
    <3>2. FirstAbove(free, 0, hl')
      BY DEF HeapInv, Sorted
    <3>3. CASE hl' = 0
      BY <3>1, <3>2, <3>3 DEF FirstAbove
    <3>4. CASE hl' \in free /\ hl' <= f
      BY <2>4, <3>1, <3>4, RamInt
    <3> QED
      BY <2>4, <3>1, <3>2, <3>3, <3>4 DEF FirstAbove
  <2> QED
    BY <1>3, <1>4, <2>1, <2>2, <2>3, <2>4 DEF Allocating
<1>10. Clearing' /\ Copying' /\ Freeing' /\ CallocZeroed'
  BY DEF Clearing, Copying, Freeing, CallocZeroed
<1>11. Intact'
  BY DEF HeapInv, Intact
<1> QED
  BY <1>2, <1>5, <1>6, <1>7, <1>8, <1>9, <1>10, <1>11 DEF HeapInv

LEMMA CallMallocInv ==
  ASSUME HeapInv, NEW p \in Slots, NEW n \in Sizes, NEW sp \in SPs, CallMalloc(p, n, sp)
  PROVE  HeapInv'
<1>1. n \in Word
  BY HeapAssumption
<1> QED
  BY <1>1, EnterMallocInv DEF CallMalloc

LEMMA CallCallocInv ==
  ASSUME HeapInv, NEW p \in Slots, NEW n \in Sizes, NEW sp \in SPs, NEW k \in Counts,
         CallCalloc(p, k, n, sp)
  PROVE  HeapInv'
<1>1. k * n \in Word /\ EnterMalloc("calloc", p, k * n, sp) /\ pc = "idle" /\ ~Owns(p)
  BY DEF CallCalloc
<1> QED
  BY <1>1, EnterMallocInv

LEMMA CallReallocGrowInv ==
  ASSUME HeapInv, NEW p \in Slots, NEW n \in Sizes, NEW sp \in SPs,
         CallReallocGrow(p, n, sp)
  PROVE  HeapInv'
<1>1. n \in Word
  BY HeapAssumption
<1> QED
  BY <1>1, EnterMallocInv DEF CallReallocGrow

\* A step that changes neither memory nor the top of the heap, nor what the
\* pointers own, and ends the call.
LEMMA CallCallocOverflowInv ==
  ASSUME HeapInv, NEW p \in Slots, NEW n \in Sizes, NEW k \in Counts,
         CallCallocOverflow(p, k, n)
  PROVE  HeapInv'
<1> USE DEF CallCallocOverflow, ghosts, regs
<1>1. Tiling' /\ Sorted'
  BY Quiet DEF Top
<1>2. \A b : SizeAt(b)' = SizeAt(b) /\ EndOf(b)' = EndOf(b)
  BY DEF SizeAt, EndOf, Peek
<1>3. \A q \in Slots : Owns(q)' = Owns(q)
  BY DEF Owns
<1>4. TypeOK'
  <2>1. 0 \in Word
    BY WordNat, MaxNat
  <2> QED
    BY <2>1 DEF HeapInv, TypeOK, NoCall
<1>5. Coalesced' /\ NoLeak' /\ Fits'
  BY <1>2, <1>3 DEF HeapInv, Coalesced, NoLeak, Owned, InTransit, Fits
<1>6. Allocating' /\ Clearing' /\ Copying' /\ Freeing'
  BY DEF Allocating, Clearing, Copying, Freeing
<1>7. Intact'
  BY DEF HeapInv, Intact
<1>8. CallocZeroed'
  <2>1. blk'[p] = NoBlock /\ call'.p = p
    BY DEF HeapInv, Fits
  <2> QED
    BY <2>1 DEF CallocZeroed, NoBlock
<1> QED
  BY <1>1, <1>4, <1>5, <1>6, <1>7, <1>8 DEF HeapInv

LEMMA MallocNextInv == ASSUME HeapInv, MallocNext PROVE HeapInv'
<1> USE DEF MallocNext, ghosts
<1>1. Tiling' /\ Sorted'
  BY Quiet DEF Top
<1>2. \A b : SizeAt(b)' = SizeAt(b) /\ LinkAt(b)' = LinkAt(b) /\ EndOf(b)' = EndOf(b)
  BY DEF SizeAt, LinkAt, EndOf, Peek
<1>3. \A q \in Slots : Owns(q)' = Owns(q)
  BY DEF Owns
<1>4. hl \in free /\ hl \in Nat /\ \A f \in free : f \in Nat
  <2>1. \A f \in free : f \in Nat
    BY BlockBytes DEF Blocks
  <2> QED
    BY <2>1, LinkFree DEF HeapInv, Allocating, TypeOK
<1>5. TypeOK'
  <2>1. hl + 2 \in Word /\ LinkAt(hl) \in Word
    <3>1. hl + 3 < Top /\ Top <= MaxWord /\ Top \in Nat /\ hl + 2 \in Ram /\ hl + 3 \in Ram
      BY <1>4, BlockBytes DEF Blocks
    <3>2. hl + 2 \in Word
      BY <1>4, <3>1, WordNat, MaxNat
    <3>3. Peek(mem, hl + 2) \in Word
      BY <1>4, <3>1, PeekWord, WordNat DEF HeapInv, TypeOK
    <3> QED
      BY <3>2, <3>3 DEF LinkAt
  <2> QED
    BY <2>1 DEF HeapInv, TypeOK
<1>6. Coalesced' /\ NoLeak' /\ Fits'
  BY <1>2, <1>3 DEF HeapInv, Coalesced, NoLeak, Owned, InTransit, Fits
<1>7. Allocating'
  <2>1. FirstAbove(free, hl, hl')
    BY <1>4 DEF HeapInv, Sorted
  <2>2. ASSUME NEW f \in free, hl' = 0 \/ f < hl'
        PROVE  SizeAt(f) < call.size
    <3>1. f \in Nat /\ f <= hl
      <4>1. CASE hl' = 0 /\ \A g \in free : g <= hl
        BY <1>4, <4>1
      <4>2. CASE hl' \in free /\ hl' > hl /\ \A g \in free : g > hl => hl' <= g
        <5>1. f \in Nat /\ hl \in Nat /\ hl' \in Nat /\ f < hl' /\ (f > hl => hl' <= f)
          BY <1>4, <2>2, <4>2
        <5> QED
          BY <5>1
      <4> QED
        BY <2>1, <4>1, <4>2 DEF FirstAbove
    <3>2. f < hl \/ f = hl
      BY <3>1, <1>4
    <3> QED
      BY <3>2 DEF HeapInv, Allocating
  <2>3. AtLink(bc, hl)'
    BY <1>4 DEF AtLink, LinkAt, Peek
  <2>4. call.p \in Slots
    BY DEF HeapInv, TypeOK
  <2> QED
    BY <1>2, <1>3, <2>2, <2>3, <2>4 DEF HeapInv, Allocating
<1>8. Clearing' /\ Copying' /\ Freeing' /\ CallocZeroed'
  BY DEF Clearing, Copying, Freeing, CallocZeroed
<1>9. Intact'
  BY DEF HeapInv, Intact
<1> QED
  BY <1>1, <1>5, <1>6, <1>7, <1>8, <1>9 DEF HeapInv

-----------------------------------------------------------------------------
(* Blocks a step does not touch.                                            *)

LEMMA Apart ==
  ASSUME HeapInv, NEW b \in Blocks, NEW c \in Blocks, b # c
  PROVE  EndOf(b) <= c \/ EndOf(c) <= b
<1>1. b < c \/ c < b
  BY BlockBytes
<1> QED
  BY <1>1 DEF HeapInv, Tiling

\* A block all of whose bytes stay keeps its size and its link.
LEMMA SameBlock ==
  ASSUME HeapInv, NEW b \in Blocks,
         \A a \in b .. EndOf(b) - 1 : mem'[a] = mem[a]
  PROVE  SizeAt(b)' = SizeAt(b) /\ LinkAt(b)' = LinkAt(b) /\ EndOf(b)' = EndOf(b)
<1>1. b \in Nat /\ EndOf(b) \in Nat /\ b + 3 < EndOf(b)
  BY BlockBytes
<1>2. mem'[b] = mem[b] /\ mem'[b + 1] = mem[b + 1]
  BY <1>1
<1>3. mem'[b + 2] = mem[b + 2] /\ mem'[b + 2 + 1] = mem[b + 2 + 1]
  BY <1>1
<1> QED
  BY <1>2, <1>3 DEF SizeAt, LinkAt, EndOf, Peek

LEMMA SameHead ==
  ASSUME HeapInv, mem'[FreeHead] = mem[FreeHead], mem'[FreeHead + 1] = mem[FreeHead + 1]
  PROVE  Peek(mem, FreeHead)' = Peek(mem, FreeHead)
  BY DEF Peek

\* The block of a pointer is handed out, and the bytes stored through the
\* pointer lie in its payload.
LEMMA OwnedBlock ==
  ASSUME HeapInv, NEW p \in Slots, Owns(p)
  PROVE  /\ blk[p].at - 2 \in used /\ blk[p].at - 2 \in Blocks /\ blk[p].at \in Nat
         /\ blk[p].at - 2 \in Nat
         /\ blk[p].len \in Nat /\ blk[p].set \in Nat
         /\ blk[p].set <= blk[p].len /\ blk[p].len <= SizeAt(blk[p].at - 2)
         /\ \A i \in 0 .. blk[p].set - 1 :
              blk[p].at + i \in (blk[p].at - 2) + 2 .. EndOf(blk[p].at - 2) - 1
<1>1. blk[p].at - 2 \in used
  BY DEF HeapInv, NoLeak, Owned
<1>2. blk[p].at - 2 \in Blocks
  BY <1>1 DEF Blocks
<1>3. blk[p].at \in Nat /\ blk[p].len \in Nat /\ blk[p].set \in Nat
  BY WordNat DEF HeapInv, TypeOK
<1>4. blk[p].set <= blk[p].len /\ blk[p].len <= SizeAt(blk[p].at - 2)
  BY DEF HeapInv, Fits
<1> DEFINE b == blk[p].at - 2
           n == blk[p].set
           k == SizeAt(b)
<1>5. b \in Nat /\ k \in Nat /\ EndOf(b) = b + 2 + k /\ n \in Nat /\ n <= k /\ blk[p].at = b + 2
  BY <1>2, <1>3, <1>4, BlockBytes
<1>6. \A i \in 0 .. n - 1 : (b + 2) + i \in b + 2 .. EndOf(b) - 1
  <2> HIDE DEF b, n, k
  <2> QED
    BY <1>5
<1> QED
  BY <1>1, <1>2, <1>3, <1>4, <1>5, <1>6

-----------------------------------------------------------------------------
(* malloc's ways to find a block.                                           *)

\* No byte changes in the payload of a block that is handed out and stays so.
PayloadsKept ==
  \A u \in used \cap used' : \A a \in u + 2 .. EndOf(u) - 1 : mem'[a] = mem[a]

\* What the three have in common, once the block b is off the free list.
LEMMA AllocatedInv ==
  ASSUME HeapInv, pc = "scan", NEW b \in Nat, b > 0, b + 2 \in Word, b \in (Start .. MaxWord) \ used,
         used' = used \cup {b}, free' \subseteq free, Allocated(b + 2),
         call' = call, ix' = ix, heap_ptr' \in Word, mem' \in [Ram -> Byte],
         SizeAt(b)' >= call.size, SizeAt(b)' \in Nat,
         \A u \in used : SizeAt(u)' = SizeAt(u) /\ \A a \in u + 2 .. EndOf(u) - 1 : mem'[a] = mem[a]
  PROVE  TypeOK' /\ NoLeak' /\ Fits' /\ Allocating' /\ Clearing' /\ Copying' /\ Freeing'
           /\ Intact' /\ CallocZeroed'
<1> USE DEF Allocated
<1>1. /\ call.p \in Slots /\ call.n \in Nat /\ call.n \in Word /\ call.size \in Nat /\ call.size >= call.n
      /\ call.op \in {"malloc", "calloc", "realloc"}
      /\ Owns(call.p) <=> call.op = "realloc"
      /\ Owns(call.p) => SizeAt(blk[call.p].at - 2) < call.n
  BY WordNat DEF HeapInv, TypeOK, Allocating
<1>2. InTransit = {} /\ used = Owned
  BY DEF HeapInv, NoLeak, InTransit
<1>3. 0 \in Word
  BY WordNat, MaxNat
<1>4. TypeOK'
  BY <1>1, <1>3 DEF HeapInv, TypeOK
<1>5. CASE call.op = "realloc"
  <2>1. blk' = blk /\ pc' = "copy" /\ hl' = b + 2 /\ Owns(call.p)
    BY <1>1, <1>5
  <2>2. \A q \in Slots : Owns(q)' = Owns(q)
    BY <2>1 DEF Owns
  <2>3. Owned' = Owned /\ InTransit' = {b}
    <3>1. Owned' = Owned
      BY <2>1 DEF Owned, Owns
    <3>2. hl' - 2 = b
      BY <2>1
    <3> QED
      BY <2>1, <3>1, <3>2 DEF InTransit
  <2>4. NoLeak'
    BY <1>2, <2>1, <2>2, <2>3 DEF HeapInv, NoLeak
  <2>5. \A q \in Slots : Owns(q) => SizeAt(blk[q].at - 2)' = SizeAt(blk[q].at - 2)
    BY <2>1, OwnedBlock
  <2>6. Fits'
    BY <2>1, <2>2, <2>5 DEF HeapInv, Fits
  <2>7. Intact'
    <3> SUFFICES ASSUME NEW q \in Slots, NEW i \in 0 .. blk[q].set - 1
                 PROVE  mem'[blk[q].at + i] = Tag[q]
      BY <2>1 DEF Intact
    <3>1. Owns(q)
      BY DEF HeapInv, Fits, NoBlock
    <3>2. mem'[blk[q].at + i] = mem[blk[q].at + i]
      BY <3>1, OwnedBlock
    <3> QED
      BY <3>2 DEF HeapInv, Intact
  <2>8. Copying'
    <3>1. hl' - 2 = b
      BY <2>1
    <3>2. SizeAt(hl - 2)' = SizeAt(b)'
      BY <3>1 DEF SizeAt, Peek
    <3> QED
      BY <1>1, <2>1, <2>2, <2>5, <3>2 DEF Copying
  <2> QED
    BY <1>4, <2>1, <2>4, <2>6, <2>7, <2>8 DEF Allocating, Clearing, Freeing, CallocZeroed
<1>6. CASE call.op # "realloc"
  <2>1. /\ blk' = [blk EXCEPT ![call.p] = [at |-> b + 2, len |-> call.n, set |-> 0]]
        /\ pc' \in {"ret", "zero"} /\ (pc' = "ret" => call.op = "malloc") /\ ~Owns(call.p)
    BY <1>1, <1>6
  <2>2. \A q \in Slots : Owns(q)' = (Owns(q) \/ q = call.p)
    BY <1>1, <2>1 DEF Owns, HeapInv, TypeOK
  <2>3. \A q \in Slots : q # call.p => blk'[q] = blk[q]
    BY <2>1 DEF HeapInv, TypeOK
  <2>4. blk'[call.p] = [at |-> b + 2, len |-> call.n, set |-> 0]
    BY <1>1, <2>1 DEF HeapInv, TypeOK
  <2>5. Owned' = Owned \cup {b} /\ InTransit' = {}
    <3>1. blk'[call.p].at - 2 = b
      BY <2>4
    <3>2. \A x : x \in Owned' <=> \E q \in Slots : Owns(q)' /\ x = blk'[q].at - 2
      BY DEF Owned
    <3>3. \A x : x \in Owned <=> \E q \in Slots : Owns(q) /\ x = blk[q].at - 2
      BY DEF Owned
    <3>4. ASSUME NEW x \in Owned' PROVE x \in Owned \cup {b}
      <4>1. PICK q \in Slots : Owns(q)' /\ x = blk'[q].at - 2
        BY <3>2, <3>4
      <4>2. CASE q = call.p
        BY <3>1, <4>1, <4>2
      <4>3. CASE q # call.p
        BY <2>2, <2>3, <3>3, <4>1, <4>3
      <4> QED
        BY <4>2, <4>3
    <3>5. ASSUME NEW x \in Owned \cup {b} PROVE x \in Owned'
      <4>1. CASE x = b
        BY <1>1, <2>2, <3>1, <3>2, <4>1
      <4>2. CASE x \in Owned
        <5>1. PICK q \in Slots : Owns(q) /\ x = blk[q].at - 2
          BY <3>3, <4>2
        <5> QED
          BY <2>1, <2>2, <2>3, <3>2, <5>1
      <4> QED
        BY <4>1, <4>2
    <3>6. InTransit' = {}
      BY <2>1 DEF InTransit
    <3> QED
      BY <3>4, <3>5, <3>6
  <2>6. \A q \in Slots : Owns(q) => blk[q].at # b + 2
    BY OwnedBlock
  <2>7. NoLeak'
    <3>1. ASSUME NEW q \in Slots, NEW r \in Slots, Owns(q)', q # r
          PROVE  blk'[q].at # blk'[r].at
      <4>1. CASE q = call.p
        BY <2>3, <2>4, <2>6, <3>1, <4>1 DEF Owns
      <4>2. CASE r = call.p
        <5>1. Owns(q) /\ blk'[q] = blk[q] /\ blk[q].at # b + 2
          BY <2>2, <2>3, <2>6, <3>1, <4>2
        <5>2. blk'[r].at = b + 2
          BY <2>4, <4>2
        <5> QED
          BY <5>1, <5>2
      <4>3. CASE q # call.p /\ r # call.p
        BY <2>2, <2>3, <3>1, <4>3 DEF HeapInv, NoLeak
      <4> QED
        BY <4>1, <4>2, <4>3
    <3>2. used' = Owned' \cup InTransit' /\ Owned' \cap InTransit' = {}
      BY <1>2, <2>5
    <3> QED
      BY <3>1, <3>2 DEF NoLeak
  <2>8. \A q \in Slots : Owns(q) => SizeAt(blk[q].at - 2)' = SizeAt(blk[q].at - 2)
    BY <2>1, <2>3, OwnedBlock
  <2>9. Fits'
    <3>1. ASSUME NEW q \in Slots, q # call.p
          PROVE  /\ Owns(q)' => /\ blk'[q].at \in Nat /\ blk'[q].len <= SizeAt(blk[q].at - 2)'
                               /\ blk'[q].set <= blk'[q].len
                 /\ ~Owns(q)' => blk'[q] = NoBlock
      BY <2>2, <2>3, <2>8, <3>1 DEF HeapInv, Fits
    <3>2. blk'[call.p].at - 2 = b
      BY <2>4
    <3>3. SizeAt(blk[call.p].at - 2)' = SizeAt(b)'
      BY <3>2 DEF SizeAt, Peek
    <3>4. /\ blk'[call.p].at \in Nat /\ blk'[call.p].len <= SizeAt(blk[call.p].at - 2)'
          /\ blk'[call.p].set <= blk'[call.p].len /\ Owns(call.p)'
      <4>1. blk'[call.p].at = b + 2 /\ blk'[call.p].len = call.n /\ blk'[call.p].set = 0
        BY <2>4
      <4>2. call.n <= SizeAt(b)'
        BY <1>1
      <4>3. Owns(call.p)'
        BY <1>1, <2>2
      <4> QED
        BY <1>1, <3>3, <4>1, <4>2, <4>3
    <3> QED
      BY <2>1, <3>1, <3>4 DEF Fits
  <2>10. Intact'
    <3> SUFFICES ASSUME NEW q \in Slots, NEW i \in 0 .. blk'[q].set - 1
                 PROVE  mem'[blk'[q].at + i] = Tag[q]
      BY <2>1 DEF Intact
    <3>1. Owns(q) /\ q # call.p /\ blk'[q] = blk[q]
      BY <2>3, <2>4 DEF HeapInv, Fits, NoBlock
    <3>2. mem'[blk[q].at + i] = mem[blk[q].at + i]
      BY <3>1, OwnedBlock
    <3> QED
      BY <3>1, <3>2 DEF HeapInv, Intact
  <2>11. Clearing'
    BY <1>1, <2>1, <2>2, <2>4 DEF Clearing
  <2> QED
    BY <1>4, <2>1, <2>7, <2>9, <2>10, <2>11 DEF Allocating, Copying, Freeing, CallocZeroed
<1> QED
  BY <1>5, <1>6

\* The candidate of malloc's scan.
LEMMA Candidate ==
  ASSUME HeapInv, pc = "scan", hl # 0
  PROVE  /\ hl \in free /\ hl \in Blocks
         /\ call.size \in Nat /\ call.size >= 2 /\ call.size \in Word
<1>1. hl \in free
  BY LinkFree DEF HeapInv, Allocating, TypeOK
<1> QED
  BY <1>1, WordNat DEF HeapInv, Allocating, TypeOK, Blocks

LEMMA MallocSplitInv == ASSUME HeapInv, MallocSplit PROVE HeapInv' /\ PayloadsKept
<1> SUFFICES ASSUME NEW h, h = hl, NEW s, s = call.size,
                    NEW left, left = SizeAt(h) - s - 2, NEW new, new = h + 2 + left
             PROVE  HeapInv' /\ PayloadsKept
  OBVIOUS
<1>1. /\ pc = "scan" /\ hl # 0 /\ SizeAt(h) >= s + 4
      /\ mem' = Poke(Poke(mem, h, left), new, s)
      /\ used' = used \cup {new} /\ free' = free
      /\ Allocated(new + 2) /\ call' = call /\ ix' = ix /\ heap_ptr' = heap_ptr
  BY DEF MallocSplit
<1>2. h \in free /\ h \in Blocks /\ s \in Nat /\ s >= 2 /\ s \in Word
  BY <1>1, Candidate
<1>3. /\ h \in Nat /\ left \in Nat /\ left >= 2 /\ new \in Nat /\ new = h + 2 + left
      /\ new + 2 + s = EndOf(h) /\ new + 3 < EndOf(h) /\ new > h + 3
      /\ EndOf(h) \in Nat /\ EndOf(h) <= Top /\ Top \in Nat /\ Top <= MaxWord
      /\ h \in Ram /\ h + 1 \in Ram /\ h + 2 \in Ram /\ h + 2 + 1 \in Ram
      /\ h > FreeHead + 1 /\ h >= Start
  BY <1>1, <1>2, BlockBytes
<1>4. new \in Ram /\ new + 1 \in Ram
  BY <1>2, <1>3, BlockBytes
<1>5. left \in Word
  BY <1>2, <1>3, WordNat, MaxNat
<1> DEFINE m == Poke(mem, h, left)
<1>6. /\ m \in [Ram -> Byte] /\ Peek(m, h) = left /\ Peek(m, h + 2) = Peek(mem, h + 2)
      /\ \A a \in Ram : a # h /\ a # h + 1 => m[a] = mem[a]
  BY <1>3, <1>5, PokePeek DEF HeapInv, TypeOK
<1> HIDE DEF m
<1>7. /\ mem' \in [Ram -> Byte] /\ Peek(mem', new) = s
      /\ Peek(mem', h) = left /\ Peek(mem', h + 2) = Peek(mem, h + 2)
      /\ \A a \in Ram : a # new /\ a # new + 1 => mem'[a] = m[a]
  <2>1. mem' = Poke(m, new, s)
    BY <1>1 DEF m
  <2>2. /\ Poke(m, new, s) \in [Ram -> Byte] /\ Peek(Poke(m, new, s), new) = s
        /\ \A b \in Ram : b + 1 \in Ram /\ b # new /\ b # new + 1 /\ b + 1 # new
             => Peek(Poke(m, new, s), b) = Peek(m, b)
        /\ \A a \in Ram : a # new /\ a # new + 1 => Poke(m, new, s)[a] = m[a]
    BY <1>2, <1>4, <1>6, PokePeek
  <2>3. h # new /\ h # new + 1 /\ h + 1 # new /\ h + 2 # new /\ h + 2 # new + 1 /\ h + 2 + 1 # new
    BY <1>3
  <2> QED
    BY <1>3, <1>6, <2>1, <2>2, <2>3
<1>8. \A a \in Ram : a < h \/ a >= EndOf(h) => mem'[a] = mem[a]
  BY <1>2, <1>3, <1>6, <1>7, RamInt
<1>9. \A b \in Blocks : b # h => \A a \in b .. EndOf(b) - 1 : mem'[a] = mem[a]
  <2> SUFFICES ASSUME NEW b \in Blocks, b # h, NEW a \in b .. EndOf(b) - 1
               PROVE  mem'[a] = mem[a]
    OBVIOUS
  <2>1. a \in Ram /\ a \in Nat /\ b \in Nat /\ EndOf(b) \in Nat /\ b <= a /\ a < EndOf(b)
    BY BlockBytes
  <2>2. EndOf(b) <= h \/ EndOf(h) <= b
    BY <1>2, Apart
  <2> QED
    BY <1>3, <1>8, <2>1, <2>2
<1>10. \A b \in Blocks : b # h => SizeAt(b)' = SizeAt(b) /\ LinkAt(b)' = LinkAt(b) /\ EndOf(b)' = EndOf(b)
  BY <1>9, SameBlock
<1>11. /\ SizeAt(h)' = left /\ LinkAt(h)' = LinkAt(h) /\ EndOf(h)' = new
       /\ SizeAt(new)' = s /\ EndOf(new)' = EndOf(h)
  BY <1>2, <1>3, <1>7 DEF SizeAt, LinkAt, EndOf
<1>12. Peek(mem, FreeHead)' = Peek(mem, FreeHead)
  BY <1>3, <1>8, SameHead, RamInt
<1>13. new \notin Blocks
  <2> SUFFICES ASSUME new \in Blocks PROVE FALSE
    OBVIOUS
  <2> QED
    BY <1>2, <1>3, BlockBytes, Apart
<1>14. Blocks' = Blocks \cup {new} /\ Top' = Top
  BY <1>1 DEF Blocks, Top
<1>15. Tiling'
  <2>1. free' \cap used' = {}
    BY <1>1, <1>13 DEF HeapInv, Tiling, Blocks
  <2>2. Start \in Blocks' \cup {Top'}
    BY <1>14 DEF HeapInv, Tiling
  <2>3. ASSUME NEW b \in Blocks'
        PROVE  /\ b + 3 < Top' /\ EndOf(b)' <= Top' /\ SizeAt(b)' >= 2
               /\ EndOf(b)' \in Blocks' \cup {Top'}
    <3>1. CASE b = new
      BY <1>2, <1>3, <1>11, <1>14, <3>1 DEF HeapInv, Tiling
    <3>2. CASE b = h
      BY <1>2, <1>3, <1>11, <1>14, <3>2 DEF HeapInv, Tiling
    <3>3. CASE b \in Blocks /\ b # h
      BY <1>10, <1>14, <3>3 DEF HeapInv, Tiling
    <3> QED
      BY <1>14, <3>1, <3>2, <3>3
  <2>4. ASSUME NEW b \in Blocks', NEW c \in Blocks', b < c
        PROVE  EndOf(b)' <= c
    <3>1. CASE b = new
      BY <1>2, <1>3, <1>11, <1>14, <2>4, <3>1, BlockBytes, Apart
    <3>2. CASE b = h
      BY <1>2, <1>3, <1>11, <1>14, <2>4, <3>2, BlockBytes, Apart
    <3>3. CASE b \in Blocks /\ b # h /\ c = new
      BY <1>2, <1>3, <1>10, <2>4, <3>3, BlockBytes, Apart
    <3>4. CASE b \in Blocks /\ b # h /\ c \in Blocks
      BY <1>10, <2>4, <3>4 DEF HeapInv, Tiling
    <3> QED
      BY <1>14, <3>1, <3>2, <3>3, <3>4
  <2> QED
    BY <1>14, <2>1, <2>2, <2>3, <2>4 DEF HeapInv, Tiling
<1>16. Sorted'
  <2>1. \A f \in free : LinkAt(f)' = LinkAt(f)
    BY <1>10, <1>11 DEF Blocks
  <2>2. \A a, w : FirstAbove(free, a, w)' = FirstAbove(free, a, w)
    BY <1>1 DEF FirstAbove
  <2> QED
    BY <1>1, <1>12, <2>1, <2>2 DEF HeapInv, Sorted
<1>17. Coalesced'
  <2> SUFFICES ASSUME NEW f \in free PROVE EndOf(f)' \notin free
    BY <1>1 DEF Coalesced
  <2>1. CASE f = h
    BY <1>11, <1>13, <2>1 DEF Blocks
  <2>2. CASE f # h
    BY <1>1, <1>10, <2>2 DEF HeapInv, Coalesced, Blocks
  <2> QED
    BY <2>1, <2>2
<1>18. \A u \in used : SizeAt(u)' = SizeAt(u) /\ \A a \in u + 2 .. EndOf(u) - 1 : mem'[a] = mem[a]
  <2> SUFFICES ASSUME NEW u \in used
               PROVE  SizeAt(u)' = SizeAt(u) /\ \A a \in u + 2 .. EndOf(u) - 1 : mem'[a] = mem[a]
    OBVIOUS
  <2>1. u \in Blocks /\ u # h /\ u \in Nat
    BY <1>2, BlockBytes DEF HeapInv, Tiling, Blocks
  <2> QED
    BY <1>9, <1>10, <2>1, BlockBytes
<1>19. /\ new > 0 /\ new + 2 \in Word /\ new \in (Start .. MaxWord) \ used
       /\ heap_ptr' \in Word /\ SizeAt(new)' >= call.size /\ SizeAt(new)' \in Nat
  BY <1>1, <1>2, <1>3, <1>11, <1>13, WordNat, MaxNat, RamInt DEF HeapInv, TypeOK, Blocks
<1>20. TypeOK' /\ NoLeak' /\ Fits' /\ Allocating' /\ Clearing' /\ Copying' /\ Freeing'
         /\ Intact' /\ CallocZeroed'
  BY <1>1, <1>3, <1>7, <1>18, <1>19, AllocatedInv
<1> QED
  BY <1>15, <1>16, <1>17, <1>20, <1>18 DEF HeapInv, PayloadsKept

LEMMA MallocGrowInv == ASSUME HeapInv, MallocGrow PROVE HeapInv' /\ PayloadsKept
<1> SUFFICES ASSUME NEW h, h = heap_ptr, NEW s, s = call.size
             PROVE  HeapInv' /\ PayloadsKept
  OBVIOUS
<1>1. /\ pc = "scan" /\ hl = 0 /\ ~TooHigh(h + 2 + s)
      /\ heap_ptr' = h + 2 + s /\ mem' = Poke(mem, h, s)
      /\ used' = used \cup {h} /\ free' = free
      /\ Allocated(h + 2) /\ call' = call /\ ix' = ix
  BY DEF MallocGrow
<1>2. /\ s \in Nat /\ s >= 2 /\ s \in Word /\ h # 0 /\ h \in Nat /\ h <= MaxWord /\ Top = h
      /\ call.sp \in SPs /\ call.sp \in Nat /\ call.sp <= MaxWord
  BY <1>1, WordNat, HeapAssumption DEF HeapInv, Allocating, TypeOK, Top
<1>3. h + 2 + s <= MaxWord /\ h + 2 + s <= call.sp - 255
  BY <1>1, <1>2, MaxNat DEF TooHigh, StackGap
<1>4. h >= Start /\ \A a \in Start .. h - 1 : a \in Ram
  BY <1>2 DEF HeapInv, Tiling
<1>5. \A a \in Start .. h + 2 + s - 1 : a \in Ram
  <2> SUFFICES ASSUME NEW a \in Start .. h + 2 + s - 1 PROVE a \in Ram
    OBVIOUS
  <2>1. a \in Start .. MaxWord /\ a + 255 < call.sp
    BY <1>2, <1>3, RamInt, MaxNat
  <2> QED
    BY <1>2, <2>1 DEF Ram, StackGap
<1>6. h \in Ram /\ h + 1 \in Ram
  BY <1>2, <1>4, <1>5, RamInt
<1>7. /\ mem' \in [Ram -> Byte] /\ Peek(mem', h) = s
      /\ \A a \in Ram : a # h /\ a # h + 1 => mem'[a] = mem[a]
  BY <1>1, <1>2, <1>6, PokePeek DEF HeapInv, TypeOK
<1>8. \A b \in Blocks : \A a \in b .. EndOf(b) - 1 : mem'[a] = mem[a]
  <2> SUFFICES ASSUME NEW b \in Blocks, NEW a \in b .. EndOf(b) - 1
               PROVE  mem'[a] = mem[a]
    OBVIOUS
  <2>1. a \in Ram /\ a \in Nat /\ EndOf(b) \in Nat /\ a < EndOf(b) /\ EndOf(b) <= h
    BY <1>2, BlockBytes
  <2> QED
    BY <1>2, <1>7, <2>1
<1>9. \A b \in Blocks : SizeAt(b)' = SizeAt(b) /\ LinkAt(b)' = LinkAt(b) /\ EndOf(b)' = EndOf(b)
  BY <1>8, SameBlock
<1>10. SizeAt(h)' = s /\ EndOf(h)' = h + 2 + s
  BY <1>7 DEF SizeAt, EndOf
<1>11. Peek(mem, FreeHead)' = Peek(mem, FreeHead)
  BY <1>2, <1>4, <1>7, SameHead, RamInt
<1>12. h \notin Blocks
  BY <1>2, BlockBytes
<1>13. Blocks' = Blocks \cup {h} /\ Top' = h + 2 + s
  BY <1>1, <1>2 DEF Blocks, Top
<1>14. Tiling'
  <2>1. free' \cap used' = {}
    BY <1>1, <1>12 DEF HeapInv, Tiling, Blocks
  <2>2. Start \in Blocks' \cup {Top'}
    BY <1>2, <1>13 DEF HeapInv, Tiling
  <2>3. ASSUME NEW b \in Blocks'
        PROVE  /\ b + 3 < Top' /\ EndOf(b)' <= Top' /\ SizeAt(b)' >= 2
               /\ EndOf(b)' \in Blocks' \cup {Top'}
    <3>1. CASE b = h
      BY <1>2, <1>10, <1>13, <3>1
    <3>2. CASE b \in Blocks
      BY <1>2, <1>9, <1>13, <3>2, BlockBytes DEF HeapInv, Tiling
    <3> QED
      BY <1>13, <3>1, <3>2
  <2>4. ASSUME NEW b \in Blocks', NEW c \in Blocks', b < c
        PROVE  EndOf(b)' <= c
    <3>1. CASE b = h
      BY <1>2, <1>13, <2>4, <3>1, BlockBytes
    <3>2. CASE b \in Blocks /\ c = h
      BY <1>2, <1>9, <3>2, BlockBytes
    <3>3. CASE b \in Blocks /\ c \in Blocks
      BY <1>9, <2>4, <3>3 DEF HeapInv, Tiling
    <3> QED
      BY <1>13, <3>1, <3>2, <3>3
  <2>5. Top' >= Start /\ \A a \in Start .. Top' - 1 : a \in Ram
    BY <1>2, <1>4, <1>5, <1>13, RamInt
  <2> QED
    BY <2>1, <2>2, <2>3, <2>4, <2>5 DEF Tiling
<1>15. Sorted'
  <2>1. \A f \in free : LinkAt(f)' = LinkAt(f)
    BY <1>9 DEF Blocks
  <2>2. \A a, w : FirstAbove(free, a, w)' = FirstAbove(free, a, w)
    BY <1>1 DEF FirstAbove
  <2> QED
    BY <1>1, <1>11, <2>1, <2>2 DEF HeapInv, Sorted
<1>16. Coalesced'
  BY <1>1, <1>9 DEF HeapInv, Coalesced, Blocks
<1>17. \A u \in used : SizeAt(u)' = SizeAt(u) /\ \A a \in u + 2 .. EndOf(u) - 1 : mem'[a] = mem[a]
  <2> SUFFICES ASSUME NEW u \in used
               PROVE  SizeAt(u)' = SizeAt(u) /\ \A a \in u + 2 .. EndOf(u) - 1 : mem'[a] = mem[a]
    OBVIOUS
  <2>1. u \in Blocks /\ u \in Nat
    BY BlockBytes DEF Blocks
  <2> QED
    BY <1>8, <1>9, <2>1, BlockBytes
<1>18. /\ h > 0 /\ h + 2 \in Word /\ h \in (Start .. MaxWord) \ used
       /\ heap_ptr' \in Word /\ SizeAt(h)' >= call.size /\ SizeAt(h)' \in Nat
  BY <1>1, <1>2, <1>3, <1>4, <1>10, <1>12, WordNat, MaxNat, RamInt DEF Blocks
<1>19. TypeOK' /\ NoLeak' /\ Fits' /\ Allocating' /\ Clearing' /\ Copying' /\ Freeing'
         /\ Intact' /\ CallocZeroed'
  BY <1>1, <1>2, <1>7, <1>17, <1>18, AllocatedInv
<1> QED
  BY <1>14, <1>15, <1>16, <1>19, <1>17 DEF HeapInv, PayloadsKept

LEMMA MallocFailInv == ASSUME HeapInv, MallocFail PROVE HeapInv'
<1> USE DEF MallocFail, ghosts
<1>1. Tiling' /\ Sorted'
  BY Quiet DEF Top
<1>2. \A b : SizeAt(b)' = SizeAt(b) /\ EndOf(b)' = EndOf(b)
  BY DEF SizeAt, EndOf, Peek
<1>3. \A q \in Slots : Owns(q)' = Owns(q)
  BY DEF Owns
<1>4. TypeOK'
  <2>1. 0 \in Word
    BY WordNat, MaxNat
  <2> QED
    BY <2>1 DEF HeapInv, TypeOK
<1>5. Coalesced' /\ NoLeak' /\ Fits'
  BY <1>2, <1>3 DEF HeapInv, Coalesced, NoLeak, Owned, InTransit, Fits
<1>6. Allocating' /\ Clearing' /\ Copying' /\ Freeing'
  BY DEF Allocating, Clearing, Copying, Freeing
<1>7. Intact'
  BY DEF HeapInv, Intact
<1>8. CallocZeroed'
  <2>1. call.op = "calloc" => blk[call.p] = NoBlock
    BY DEF HeapInv, Allocating, Fits, TypeOK
  <2> QED
    BY <2>1 DEF CallocZeroed, NoBlock
<1> QED
  BY <1>1, <1>4, <1>5, <1>6, <1>7, <1>8 DEF HeapInv

-----------------------------------------------------------------------------
(* Sorted lists as sets.                                                    *)

\* Taking the successor w of g off a sorted list: g leads to what w led to,
\* and nothing else led to w.
LEMMA ListUnlink ==
  ASSUME NEW S \in SUBSET (Nat \ {0}), NEW g \in S \cup {0}, NEW w \in S, FirstAbove(S, g, w),
         NEW l, FirstAbove(S, w, l)
  PROVE  /\ FirstAbove(S \ {w}, g, l)
         /\ \A f \in S \cup {0} : \A x : f # g /\ f # w /\ FirstAbove(S, f, x)
              => x # w /\ FirstAbove(S \ {w}, f, x)
         /\ l # w
<1>1. w \in Nat /\ w > g /\ g \in Nat /\ \A f \in S : f \in Nat /\ f > 0 /\ (f > g => w <= f)
  BY DEF FirstAbove
<1>2. l # w /\ FirstAbove(S \ {w}, g, l)
  <2>1. CASE l = 0 /\ \A f \in S : f <= w
    <3>1. \A f \in S \ {w} : f <= g
      BY <1>1, <2>1
    <3> QED
      BY <1>1, <2>1, <3>1 DEF FirstAbove
  <2>2. CASE l \in S /\ l > w /\ \A f \in S : f > w => l <= f
    <3>1. \A f \in S \ {w} : f > g => f > w
      BY <1>1
    <3>2. l \in Nat /\ l > g /\ l # w
      BY <1>1, <2>2
    <3> QED
      BY <2>2, <3>1, <3>2 DEF FirstAbove
  <2> QED
    BY <2>1, <2>2 DEF FirstAbove
<1>3. ASSUME NEW f \in S \cup {0}, NEW x, f # g, f # w, FirstAbove(S, f, x)
      PROVE  x # w /\ FirstAbove(S \ {w}, f, x)
  <2>1. f \in Nat
    BY <1>1
  <2>2. x # w
    <3> SUFFICES ASSUME x = w PROVE FALSE
      OBVIOUS
    <3>1. w > f /\ \A e \in S : e > f => w <= e
      BY <1>1, <1>3 DEF FirstAbove
    <3>2. CASE f < g
      <4>1. g \in S
        BY <1>1, <2>1, <3>2
      <4> QED
        BY <1>1, <3>1, <3>2, <4>1
    <3>3. CASE f > g
      <4>1. f \in S
        BY <1>1, <3>3
      <4> QED
        BY <1>1, <2>1, <3>1, <3>3, <4>1
    <3> QED
      BY <1>1, <1>3, <2>1, <3>2, <3>3
  <2> QED
    BY <1>3, <2>2 DEF FirstAbove
<1> QED
  BY <1>2, <1>3

\* Putting i between g and its successor w.
LEMMA ListInsert ==
  ASSUME NEW S \in SUBSET (Nat \ {0}), NEW g \in S \cup {0}, NEW w, FirstAbove(S, g, w),
         NEW i \in Nat, g < i, w = 0 \/ i < w
  PROVE  /\ FirstAbove(S \cup {i}, i, w) /\ FirstAbove(S \cup {i}, g, i)
         /\ \A f \in S \cup {0} : \A x : f # g /\ FirstAbove(S, f, x) => FirstAbove(S \cup {i}, f, x)
<1>1. g \in Nat /\ \A f \in S : f \in Nat /\ f > 0
  OBVIOUS
<1>2. CASE w = 0 /\ \A f \in S : f <= g
  <2>1. \A f \in S : f < i
    BY <1>1, <1>2
  <2>2. FirstAbove(S \cup {i}, i, w) /\ FirstAbove(S \cup {i}, g, i)
    BY <1>1, <1>2, <2>1 DEF FirstAbove
  <2>3. ASSUME NEW f \in S \cup {0}, NEW x, f # g, FirstAbove(S, f, x)
        PROVE  FirstAbove(S \cup {i}, f, x)
    <3>1. f < g /\ g \in S
      BY <1>1, <1>2, <2>3
    <3>2. x \in S /\ x > f /\ x <= g /\ \A e \in S : e > f => x <= e
      BY <1>1, <2>3, <3>1 DEF FirstAbove
    <3> QED
      BY <1>1, <3>2 DEF FirstAbove
  <2> QED
    BY <2>2, <2>3
<1>3. CASE w \in S /\ w > g /\ \A f \in S : f > g => w <= f
  <2>1. w \in Nat /\ i < w
    BY <1>1, <1>3
  <2>2. FirstAbove(S \cup {i}, i, w) /\ FirstAbove(S \cup {i}, g, i)
    <3>1. \A f \in S : f > g => i <= f
      BY <1>1, <1>3, <2>1
    <3>2. \A f \in S : f > i => w <= f
      BY <1>1, <1>3, <2>1
    <3> QED
      BY <1>1, <1>3, <2>1, <3>1, <3>2 DEF FirstAbove
  <2>3. ASSUME NEW f \in S \cup {0}, NEW x, f # g, FirstAbove(S, f, x)
        PROVE  FirstAbove(S \cup {i}, f, x)
    <3>1. CASE f > g
      <4>1. f \in S /\ f >= w /\ f > i
        BY <1>1, <1>3, <2>1, <3>1
      <4> QED
        BY <1>1, <2>3, <4>1 DEF FirstAbove
    <3>2. CASE f < g
      <4>1. g \in S
        BY <1>1, <3>2
      <4>2. x \in S /\ x > f /\ x <= g /\ \A e \in S : e > f => x <= e
        BY <1>1, <2>3, <3>2, <4>1 DEF FirstAbove
      <4> QED
        BY <1>1, <4>2 DEF FirstAbove
    <3> QED
      BY <1>1, <2>3, <3>1, <3>2
  <2> QED
    BY <2>2, <2>3
<1> QED
  BY <1>2, <1>3 DEF FirstAbove

-----------------------------------------------------------------------------
(* Stores into a link or a size.                                            *)

LEMMA LinkStore ==
  ASSUME HeapInv, NEW m \in [Ram -> Byte], NEW k, k = FreeHead \/ k - 2 \in Blocks, k \in Nat,
         NEW x \in Word, NEW n, n = Poke(m, k, x)
  PROVE  /\ n \in [Ram -> Byte] /\ Peek(n, k) = x
         /\ \A b \in Blocks : Peek(n, b) = Peek(m, b)
         /\ \A b \in Blocks : b + 2 # k => /\ Peek(n, b + 2) = Peek(m, b + 2)
                                          /\ \A a \in b .. EndOf(b) - 1 : n[a] = m[a]
         /\ k # FreeHead => Peek(n, FreeHead) = Peek(m, FreeHead)
<1>1. k \in Ram /\ k + 1 \in Ram
  BY RamInt, BlockBytes
<1>2. /\ n \in [Ram -> Byte] /\ Peek(n, k) = x
      /\ \A b \in Ram : b + 1 \in Ram /\ b # k /\ b # k + 1 /\ b + 1 # k => Peek(n, b) = Peek(m, b)
      /\ \A b \in Ram : b # k /\ b # k + 1 => n[b] = m[b]
  BY <1>1, PokePeek
<1>3. ASSUME NEW b \in Blocks
      PROVE  b # k /\ b # k + 1 /\ b + 1 # k /\ b \in Ram /\ b + 1 \in Ram
  <2>1. CASE k = FreeHead
    BY <2>1, RamInt, BlockBytes
  <2>2. CASE k - 2 \in Blocks /\ b = k - 2
    BY <2>2, BlockBytes
  <2>3. CASE k - 2 \in Blocks /\ b # k - 2
    <3>1. EndOf(b) <= k - 2 \/ EndOf(k - 2) <= b
      BY <2>3, Apart
    <3>2. b \in Nat /\ b + 3 < EndOf(b) /\ EndOf(b) \in Nat /\ b \in Ram /\ b + 1 \in Ram
      BY BlockBytes
    <3>3. k - 2 \in Nat /\ k + 1 < EndOf(k - 2) /\ EndOf(k - 2) \in Nat
      BY <2>3, BlockBytes
    <3> QED
      BY <3>1, <3>2, <3>3
  <2> QED
    BY <2>1, <2>2, <2>3
<1>4. ASSUME NEW b \in Blocks, b + 2 # k
      PROVE  /\ \A a \in b .. EndOf(b) - 1 : a # k /\ a # k + 1 /\ a \in Ram
             /\ b + 2 # k /\ b + 2 # k + 1 /\ b + 2 + 1 # k /\ b + 2 \in Ram /\ b + 2 + 1 \in Ram
  <2>1. b \in Nat /\ b + 3 < EndOf(b) /\ EndOf(b) \in Nat /\ b > FreeHead + 1 /\ b + 2 \in Ram /\ b + 2 + 1 \in Ram
        /\ \A a \in b .. EndOf(b) - 1 : a \in Ram
    BY BlockBytes
  <2>2. CASE k = FreeHead
    BY <2>1, <2>2, RamInt
  <2>3. CASE k - 2 \in Blocks
    <3>1. b # k - 2
      BY <1>4, <2>1
    <3>2. EndOf(b) <= k - 2 \/ EndOf(k - 2) <= b
      BY <2>3, <3>1, Apart
    <3>3. k - 2 \in Nat /\ k + 1 < EndOf(k - 2) /\ EndOf(k - 2) \in Nat
      BY <2>3, BlockBytes
    <3> QED
      BY <2>1, <3>2, <3>3
  <2> QED
    BY <2>2, <2>3
<1>5. k # FreeHead => FreeHead # k /\ FreeHead # k + 1 /\ FreeHead + 1 # k
  BY RamInt, BlockBytes
<1> QED
  BY <1>2, <1>3, <1>4, <1>5, RamInt

LEMMA SizeStore ==
  ASSUME HeapInv, NEW m \in [Ram -> Byte], NEW g \in Blocks,
         NEW x \in Word, NEW n, n = Poke(m, g, x)
  PROVE  /\ n \in [Ram -> Byte] /\ Peek(n, g) = x
         /\ \A b \in Blocks : b # g => Peek(n, b) = Peek(m, b)
         /\ \A b \in Blocks : /\ Peek(n, b + 2) = Peek(m, b + 2)
                              /\ \A a \in b + 2 .. EndOf(b) - 1 : n[a] = m[a]
         /\ Peek(n, FreeHead) = Peek(m, FreeHead)
<1>1. g \in Nat /\ g + 3 < EndOf(g) /\ EndOf(g) \in Nat /\ g \in Ram /\ g + 1 \in Ram /\ g > FreeHead + 1
  BY BlockBytes
<1>2. /\ n \in [Ram -> Byte] /\ Peek(n, g) = x
      /\ \A b \in Ram : b + 1 \in Ram /\ b # g /\ b # g + 1 /\ b + 1 # g => Peek(n, b) = Peek(m, b)
      /\ \A b \in Ram : b # g /\ b # g + 1 => n[b] = m[b]
  BY <1>1, PokePeek
<1>3. ASSUME NEW b \in Blocks
      PROVE  /\ b \in Ram /\ b + 1 \in Ram /\ b + 2 \in Ram /\ b + 2 + 1 \in Ram
             /\ b # g => b # g /\ b # g + 1 /\ b + 1 # g
             /\ b + 2 # g /\ b + 2 # g + 1 /\ b + 2 + 1 # g
             /\ \A a \in b + 2 .. EndOf(b) - 1 : a \in Ram /\ a # g /\ a # g + 1
  <2>1. b \in Nat /\ b + 3 < EndOf(b) /\ EndOf(b) \in Nat /\ b \in Ram /\ b + 1 \in Ram /\ b + 2 \in Ram
        /\ b + 2 + 1 \in Ram /\ \A a \in b .. EndOf(b) - 1 : a \in Ram
    BY BlockBytes
  <2>2. CASE b = g
    BY <1>1, <2>1, <2>2
  <2>3. CASE b # g
    <3>1. EndOf(b) <= g \/ EndOf(g) <= b
      BY <2>3, Apart
    <3> QED
      BY <1>1, <2>1, <2>3, <3>1
  <2> QED
    BY <2>2, <2>3
<1> QED
  BY <1>1, <1>2, <1>3, RamInt

LEMMA FreeSet ==
  ASSUME HeapInv
  PROVE  free \in SUBSET (Nat \ {0}) /\ free \subseteq Blocks /\ used \subseteq Blocks
           /\ \A f \in free : f \notin used
  BY BlockBytes, RamInt DEF Blocks, HeapInv, Tiling

\* What a link word leads to is a word.
LEMMA LinkType ==
  ASSUME HeapInv, NEW b \in Blocks
  PROVE  LinkAt(b) \in Word /\ SizeAt(b) \in Word
<1>1. b \in Ram /\ b + 1 \in Ram /\ b + 2 \in Ram /\ b + 2 + 1 \in Ram
  BY BlockBytes
<1> QED
  BY <1>1, PeekWord, WordNat DEF LinkAt, SizeAt, HeapInv, TypeOK

LEMMA MallocWholeInv == ASSUME HeapInv, MallocWhole PROVE HeapInv' /\ PayloadsKept
<1> SUFFICES ASSUME NEW h, h = hl, NEW s, s = call.size, NEW k, k = bc, NEW l, l = LinkAt(h),
                    NEW g, g = IF k = FreeHead THEN 0 ELSE k - 2
             PROVE  HeapInv' /\ PayloadsKept
  OBVIOUS
<1>1. /\ pc = "scan" /\ hl # 0 /\ SizeAt(h) >= s
      /\ mem' = Poke(mem, k, l)
      /\ free' = free \ {h} /\ used' = used \cup {h}
      /\ Allocated(h + 2) /\ call' = call /\ ix' = ix /\ heap_ptr' = heap_ptr
  BY DEF MallocWhole
<1>2. h \in free /\ h \in Blocks /\ s \in Nat /\ s >= 2 /\ s \in Word
  BY <1>1, Candidate
<1>3. k \in Word /\ k \in Nat /\ AtLink(k, h)
  BY <1>1, WordNat DEF HeapInv, Allocating, TypeOK
<1>4. /\ g \in free \cup {0} /\ FirstAbove(free, g, h) /\ (k # FreeHead => g = k - 2 /\ g \in free /\ k = g + 2)
      /\ (k = FreeHead \/ k - 2 \in Blocks) /\ (k = FreeHead => g = 0)
  BY <1>3, LinkFree, FreeSet
<1>5. /\ mem' \in [Ram -> Byte] /\ Peek(mem', k) = l
      /\ \A b \in Blocks : Peek(mem', b) = Peek(mem, b)
      /\ \A b \in Blocks : b + 2 # k => /\ Peek(mem', b + 2) = Peek(mem, b + 2)
                                       /\ \A a \in b .. EndOf(b) - 1 : mem'[a] = mem[a]
      /\ k # FreeHead => Peek(mem', FreeHead) = Peek(mem, FreeHead)
  BY <1>1, <1>2, <1>3, <1>4, LinkStore, LinkType DEF HeapInv, TypeOK
<1>6. \A b \in Blocks : SizeAt(b)' = SizeAt(b) /\ EndOf(b)' = EndOf(b)
  BY <1>5 DEF SizeAt, EndOf
<1>7. \A b \in Blocks : b + 2 # k => LinkAt(b)' = LinkAt(b)
  BY <1>5 DEF LinkAt
<1>8. Blocks' = Blocks /\ Top' = Top
  BY <1>1, <1>2 DEF Blocks, Top
<1>9. Tiling'
  <2>1. free' \cap used' = {}
    BY <1>1 DEF HeapInv, Tiling
  <2> QED
    BY <1>6, <1>8, <2>1 DEF HeapInv, Tiling
<1>10. Sorted'
  <2>1. FirstAbove(free, h, l)
    BY <1>2 DEF HeapInv, Sorted
  <2>2. /\ FirstAbove(free \ {h}, g, l)
        /\ \A f \in free \cup {0} : \A x : f # g /\ f # h /\ FirstAbove(free, f, x)
              => x # h /\ FirstAbove(free \ {h}, f, x)
    BY <1>2, <1>4, <2>1, FreeSet, ListUnlink
  <2>3. FirstAbove(free', 0, Peek(mem', FreeHead))
    <3>1. CASE k = FreeHead
      BY <1>1, <1>4, <1>5, <2>2, <3>1
    <3>2. CASE k # FreeHead
      <4>1. g # 0 /\ h # 0
        BY <1>2, <1>4, <3>2, FreeSet
      <4>2. FirstAbove(free, 0, Peek(mem, FreeHead))
        BY DEF HeapInv, Sorted
      <4> QED
        BY <1>1, <1>5, <2>2, <3>2, <4>1, <4>2
    <3> QED
      BY <3>1, <3>2
  <2>4. ASSUME NEW f \in free, f # h
        PROVE  FirstAbove(free \ {h}, f, LinkAt(f)')
    <3>1. f \in Nat /\ f \in Blocks /\ f # 0
      BY FreeSet
    <3>2. CASE f + 2 = k
      <4>1. k # FreeHead
        BY <3>1, <3>2, RamInt, BlockBytes
      <4>2. f = g
        BY <1>3, <1>4, <3>1, <3>2, <4>1
      <4>3. LinkAt(f)' = l
        BY <1>5, <3>2 DEF LinkAt
      <4> QED
        BY <2>2, <4>2, <4>3
    <3>3. CASE f + 2 # k
      <4>1. f # g
        BY <1>4, <3>1, <3>3
      <4>2. FirstAbove(free, f, LinkAt(f))
        BY DEF HeapInv, Sorted
      <4> QED
        BY <1>7, <2>2, <2>4, <3>1, <3>3, <4>1, <4>2
    <3> QED
      BY <3>2, <3>3
  <2>5. \A f \in free' : FirstAbove(free, f, LinkAt(f))'
    BY <1>1, <2>4
  <2>6. FirstAbove(free, 0, Peek(mem, FreeHead))'
    BY <2>3 DEF Peek
  <2> QED
    BY <2>5, <2>6 DEF Sorted
<1>11. Coalesced'
  BY <1>1, <1>6, FreeSet DEF HeapInv, Coalesced
<1>12. \A u \in used : SizeAt(u)' = SizeAt(u) /\ \A a \in u + 2 .. EndOf(u) - 1 : mem'[a] = mem[a]
  <2> SUFFICES ASSUME NEW u \in used
               PROVE  SizeAt(u)' = SizeAt(u) /\ \A a \in u + 2 .. EndOf(u) - 1 : mem'[a] = mem[a]
    OBVIOUS
  <2>1. u \in Blocks /\ u \in Nat /\ EndOf(u) \in Nat /\ u > FreeHead + 1
    BY FreeSet, BlockBytes
  <2>2. u + 2 # k
    BY <1>3, <1>4, <2>1, FreeSet, RamInt
  <2>3. \A a \in u + 2 .. EndOf(u) - 1 : a \in u .. EndOf(u) - 1
    BY <2>1
  <2> QED
    BY <1>5, <1>6, <2>1, <2>2, <2>3
<1>13. /\ h \in Nat /\ h > 0 /\ h + 2 \in Word /\ h \in (Start .. MaxWord) \ used
       /\ heap_ptr' \in Word /\ SizeAt(h)' >= call.size /\ SizeAt(h)' \in Nat
  <2>1. h \in Nat /\ h + 3 < Top /\ Top \in Nat /\ Top <= MaxWord /\ h >= Start /\ h > 0 /\ SizeAt(h) \in Nat
    BY <1>2, BlockBytes, FreeSet
  <2>2. h \notin used
    BY <1>2, FreeSet
  <2> QED
    BY <1>1, <1>2, <1>6, <2>1, <2>2, WordNat, MaxNat, RamInt DEF HeapInv, TypeOK
<1>14. TypeOK' /\ NoLeak' /\ Fits' /\ Allocating' /\ Clearing' /\ Copying' /\ Freeing'
         /\ Intact' /\ CallocZeroed'
  BY <1>1, <1>5, <1>12, <1>13, AllocatedInv
<1> QED
  BY <1>9, <1>10, <1>11, <1>14, <1>12 DEF HeapInv, PayloadsKept

-----------------------------------------------------------------------------
(* Stores into the payload of a block that is handed out.                   *)

LEMMA PayloadStore ==
  ASSUME HeapInv, NEW u \in used, mem' \in [Ram -> Byte],
         \A a \in Ram : a \notin u + 2 .. EndOf(u) - 1 => mem'[a] = mem[a],
         UNCHANGED <<free, used, heap_ptr>>
  PROVE  /\ Tiling' /\ Sorted' /\ Blocks' = Blocks
         /\ \A b \in Blocks : SizeAt(b)' = SizeAt(b) /\ EndOf(b)' = EndOf(b)
         /\ \A f \in free : LinkAt(f)' = LinkAt(f)
         /\ \A b \in Blocks : b # u => \A a \in b .. EndOf(b) - 1 : mem'[a] = mem[a]
         /\ Peek(mem, FreeHead)' = Peek(mem, FreeHead)
<1>1. u \in Blocks /\ u \in Nat /\ EndOf(u) \in Nat /\ u > FreeHead + 1 /\ u \in Ram /\ u + 1 \in Ram
  BY FreeSet, BlockBytes
<1>2. ASSUME NEW b \in Blocks, b # u, NEW a \in b .. EndOf(b) - 1
      PROVE  mem'[a] = mem[a]
  <2>1. a \in Ram /\ a \in Nat /\ b \in Nat /\ EndOf(b) \in Nat /\ b <= a /\ a < EndOf(b)
    BY BlockBytes
  <2>2. EndOf(b) <= u \/ EndOf(u) <= b
    BY <1>1, <1>2, Apart
  <2> QED
    BY <1>1, <2>1, <2>2
<1>3. SizeAt(u)' = SizeAt(u) /\ EndOf(u)' = EndOf(u)
  <2>1. mem'[u] = mem[u] /\ mem'[u + 1] = mem[u + 1]
    BY <1>1
  <2> QED
    BY <2>1 DEF SizeAt, EndOf, Peek
<1>4. \A b \in Blocks : SizeAt(b)' = SizeAt(b) /\ EndOf(b)' = EndOf(b)
  BY <1>2, <1>3, SameBlock
<1>5. \A f \in free : LinkAt(f)' = LinkAt(f)
  BY <1>2, FreeSet, SameBlock
<1>6. Peek(mem, FreeHead)' = Peek(mem, FreeHead)
  BY <1>1, SameHead, RamInt
<1>7. Blocks' = Blocks /\ Top' = Top /\ free' = free /\ used' = used
  BY DEF Blocks, Top
<1>8. Tiling'
  BY <1>4, <1>7 DEF HeapInv, Tiling
<1>9. Sorted'
  <2>1. \A a, w : FirstAbove(free, a, w)' = FirstAbove(free, a, w)
    BY <1>7 DEF FirstAbove
  <2> QED
    BY <1>5, <1>6, <1>7, <2>1 DEF HeapInv, Sorted
<1> QED
  BY <1>2, <1>4, <1>5, <1>6, <1>7, <1>8, <1>9

LEMMA CallocZeroInv == ASSUME HeapInv, CallocZero PROVE HeapInv'
<1> SUFFICES ASSUME NEW p, p = call.p, NEW u, u = hl - 2, NEW n, n = call.n
             PROVE  HeapInv'
  OBVIOUS
<1>1. /\ pc = "zero" /\ pc' = "ret"
      /\ mem' = [a \in Ram |-> IF a \in hl .. hl + n - 1 THEN 0 ELSE mem[a]]
      /\ call' = call /\ heap_ptr' = heap_ptr /\ free' = free /\ used' = used /\ blk' = blk
      /\ hl' = hl /\ bc' = bc /\ ix' = ix
  BY DEF CallocZero, regs, ghosts
<1>2. p \in Slots /\ Owns(p) /\ blk[p] = [at |-> hl, len |-> n, set |-> 0] /\ n \in Nat /\ hl \in Nat
  BY <1>1, WordNat DEF HeapInv, Clearing, TypeOK
<1>3. /\ u \in used /\ u \in Nat /\ hl = u + 2 /\ n <= SizeAt(u) /\ SizeAt(u) \in Nat
      /\ EndOf(u) = u + 2 + SizeAt(u)
  BY <1>2, OwnedBlock, BlockBytes
<1>4. mem' \in [Ram -> Byte]
  <2>1. 0 \in Byte
    BY DEF Byte
  <2> QED
    BY <1>1, <2>1 DEF HeapInv, TypeOK
<1>5. \A a \in Ram : a \notin u + 2 .. EndOf(u) - 1 => mem'[a] = mem[a]
  <2>1. \A a \in hl .. hl + n - 1 : a \in u + 2 .. EndOf(u) - 1
    BY <1>2, <1>3
  <2> QED
    BY <1>1, <2>1
<1>6. /\ Tiling' /\ Sorted' /\ Blocks' = Blocks
      /\ \A b \in Blocks : SizeAt(b)' = SizeAt(b) /\ EndOf(b)' = EndOf(b)
      /\ \A b \in Blocks : b # u => \A a \in b .. EndOf(b) - 1 : mem'[a] = mem[a]
  BY <1>1, <1>3, <1>4, <1>5, PayloadStore
<1>7. TypeOK'
  BY <1>1, <1>4 DEF HeapInv, TypeOK
<1>8. Coalesced'
  BY <1>1, <1>6, FreeSet DEF HeapInv, Coalesced
<1>9. NoLeak'
  BY <1>1 DEF HeapInv, NoLeak, Owned, Owns, InTransit
<1>10. Fits'
  <2>1. \A q \in Slots : Owns(q) => SizeAt(blk[q].at - 2)' = SizeAt(blk[q].at - 2)
    BY <1>1, <1>6, OwnedBlock
  <2> QED
    BY <1>1, <2>1 DEF HeapInv, Fits, Owns
<1>11. Intact'
  <2> SUFFICES ASSUME NEW q \in Slots, NEW i \in 0 .. blk[q].set - 1
               PROVE  mem'[blk[q].at + i] = Tag[q]
    BY <1>1 DEF Intact
  <2>1. Owns(q) /\ q # p
    BY <1>2 DEF HeapInv, Fits, NoBlock
  <2>2. blk[q].at # blk[p].at
    BY <1>2, <2>1 DEF HeapInv, NoLeak
  <2>3. /\ blk[q].at - 2 \in Blocks /\ blk[q].at - 2 # u
        /\ blk[q].at + i \in (blk[q].at - 2) + 2 .. EndOf(blk[q].at - 2) - 1
    BY <1>2, <1>3, <2>1, <2>2, OwnedBlock
  <2>4. blk[q].at + i \in (blk[q].at - 2) .. EndOf(blk[q].at - 2) - 1
    BY <2>3, BlockBytes
  <2>5. mem'[blk[q].at + i] = mem[blk[q].at + i]
    BY <1>6, <2>3, <2>4
  <2> QED
    BY <2>5 DEF HeapInv, Intact
<1>12. CallocZeroed'
  <2> SUFFICES ASSUME NEW i \in 0 .. n - 1
               PROVE  mem'[hl + i] = 0
    BY <1>1, <1>2 DEF CallocZeroed
  <2>1. hl + i \in hl .. hl + n - 1 /\ hl + i \in u + 2 .. EndOf(u) - 1
    BY <1>2, <1>3
  <2>2. hl + i \in Ram
    BY <1>3, <2>1, FreeSet, BlockBytes
  <2> QED
    BY <1>1, <2>1, <2>2
<1> QED
  BY <1>1, <1>6, <1>7, <1>8, <1>9, <1>10, <1>11, <1>12
     DEF HeapInv, Allocating, Clearing, Copying, Freeing

LEMMA CallFreeInv == ASSUME HeapInv, NEW p \in Slots, CallFree(p) PROVE HeapInv'
<1> SUFFICES ASSUME NEW u, u = blk[p].at - 2
             PROVE  HeapInv'
  OBVIOUS
<1>1. /\ pc = "idle" /\ Owns(p) /\ pc' = "find"
      /\ ix' = u /\ bc' = FreeHead /\ hl' = Peek(mem, FreeHead)
      /\ call' = [NoCall EXCEPT !.op = "free", !.p = p]
      /\ blk' = [blk EXCEPT ![p] = NoBlock]
      /\ mem' = mem /\ heap_ptr' = heap_ptr /\ free' = free /\ used' = used
  BY DEF CallFree, EnterFree
<1>2. /\ u \in used /\ u \in Blocks /\ u \in Nat /\ blk[p].at \in Nat /\ blk[p].at = u + 2
      /\ u + 3 < Top /\ Top \in Nat /\ Top <= MaxWord
  BY <1>1, OwnedBlock, BlockBytes
<1>3. Tiling' /\ Sorted'
  BY <1>1, Quiet DEF Top
<1>4. \A b : SizeAt(b)' = SizeAt(b) /\ EndOf(b)' = EndOf(b)
  BY <1>1 DEF SizeAt, EndOf, Peek
<1>5. /\ blk'[p] = NoBlock /\ \A q \in Slots : q # p => blk'[q] = blk[q]
      /\ \A q \in Slots : Owns(q)' <=> Owns(q) /\ q # p
  BY <1>1 DEF Owns, NoBlock, HeapInv, TypeOK
<1>6. TypeOK'
  <2>1. 0 \in Word /\ FreeHead \in Word /\ u \in Word
    BY <1>2, WordNat, MaxNat, RamInt
  <2>2. Peek(mem, FreeHead) \in Word
    BY PeekWord, RamInt, WordNat DEF HeapInv, TypeOK
  <2> QED
    BY <1>1, <2>1, <2>2 DEF HeapInv, TypeOK, NoCall, NoBlock
<1>7. NoLeak'
  <2>1. InTransit' = {u}
    BY <1>1 DEF InTransit
  <2>2. used = Owned
    BY <1>1 DEF HeapInv, NoLeak, InTransit
  <2>3. \A x : x \in Owned' <=> \E q \in Slots : Owns(q)' /\ x = blk'[q].at - 2
    BY DEF Owned
  <2>4. \A x : x \in Owned <=> \E q \in Slots : Owns(q) /\ x = blk[q].at - 2
    BY DEF Owned
  <2>5. ASSUME NEW q \in Slots, Owns(q), q # p
        PROVE  blk[q].at - 2 # u
    <3>1. blk[q].at # blk[p].at /\ blk[q].at \in Nat
      BY <2>5, OwnedBlock DEF HeapInv, NoLeak
    <3> QED
      BY <1>2, <3>1
  <2>6. Owned' = Owned \ {u}
    <3>1. ASSUME NEW x \in Owned' PROVE x \in Owned \ {u}
      BY <1>5, <2>3, <2>4, <2>5
    <3>2. ASSUME NEW x \in Owned \ {u} PROVE x \in Owned'
      <4>1. PICK q \in Slots : Owns(q) /\ x = blk[q].at - 2
        BY <2>4
      <4>2. q # p
        BY <4>1
      <4> QED
        BY <1>5, <2>3, <4>1, <4>2
    <3> QED
      BY <3>1, <3>2
  <2>7. used' = Owned' \cup InTransit' /\ Owned' \cap InTransit' = {}
    BY <1>1, <1>2, <2>1, <2>2, <2>6
  <2>8. \A q, r \in Slots : Owns(q)' /\ q # r => blk'[q].at # blk'[r].at
    <3> SUFFICES ASSUME NEW q \in Slots, NEW r \in Slots, Owns(q)', q # r
                 PROVE  blk'[q].at # blk'[r].at
      OBVIOUS
    <3>1. CASE r = p
      BY <1>5, <3>1 DEF Owns, NoBlock
    <3>2. CASE r # p
      BY <1>5, <3>2 DEF HeapInv, NoLeak
    <3> QED
      BY <3>1, <3>2
  <2> QED
    BY <2>7, <2>8 DEF NoLeak
<1>8. Fits'
  <2>1. \A q \in Slots : q # p /\ Owns(q) => SizeAt(blk[q].at - 2)' = SizeAt(blk[q].at - 2)
    BY <1>4, <1>5 DEF SizeAt
  <2> QED
    BY <1>5, <2>1 DEF HeapInv, Fits
<1>9. Intact'
  <2> SUFFICES ASSUME NEW q \in Slots, NEW i \in 0 .. blk'[q].set - 1
               PROVE  mem'[blk'[q].at + i] = Tag[q]
    BY DEF Intact
  <2>1. q # p
    BY <1>5 DEF NoBlock
  <2> QED
    BY <1>1, <1>5, <2>1 DEF HeapInv, Intact
<1>10. Coalesced'
  BY <1>1, <1>4 DEF HeapInv, Coalesced
<1>11. Freeing'
  <2>1. Peek(mem, FreeHead)' = Peek(mem, FreeHead)
    BY <1>1 DEF Peek
  <2> QED
    BY <1>1, <2>1 DEF Freeing, AtLink, Peek
<1> QED
  BY <1>1, <1>3, <1>6, <1>7, <1>8, <1>9, <1>10, <1>11
     DEF HeapInv, Allocating, Clearing, Copying, CallocZeroed

LEMMA CallReallocSameInv ==
  ASSUME HeapInv, NEW p \in Slots, NEW n \in Sizes, CallReallocSame(p, n) PROVE HeapInv'
<1>1. /\ pc = "idle" /\ Owns(p) /\ pc' = "ret" /\ SizeAt(blk[p].at - 2) >= n
      /\ call' = [NoCall EXCEPT !.op = "realloc", !.p = p, !.n = n]
      /\ mem' = mem /\ heap_ptr' = heap_ptr /\ free' = free /\ used' = used
      /\ hl' = hl /\ bc' = bc /\ ix' = ix
  BY DEF CallReallocSame, regs
<1>2. n \in Word /\ n \in Nat /\ 0 \in Word
  BY HeapAssumption, WordNat, MaxNat
<1>3. /\ blk[p].at \in Nat /\ blk[p].set \in Nat /\ blk[p].len \in Nat /\ blk[p].set <= blk[p].len
      /\ blk[p].at \in Word /\ blk[p].set \in Word
  BY <1>1, OwnedBlock DEF HeapInv, TypeOK
<1> DEFINE k == IF blk[p].set < n THEN blk[p].set ELSE n
<1>4. k \in Nat /\ k \in Word /\ k <= n /\ k <= blk[p].set
  BY <1>2, <1>3
<1>5. /\ blk'[p] = [at |-> blk[p].at, len |-> n, set |-> k]
      /\ \A q \in Slots : q # p => blk'[q] = blk[q]
      /\ blk' \in [Slots -> [at : Word, len : Word, set : Word]]
  <2>1. blk' = [blk EXCEPT ![p] = [at |-> blk[p].at, len |-> n, set |-> k]]
    BY DEF CallReallocSame
  <2>2. blk \in [Slots -> [at : Word, len : Word, set : Word]]
    BY DEF HeapInv, TypeOK
  <2> HIDE DEF k
  <2> QED
    BY <1>2, <1>3, <1>4, <2>1, <2>2
<1> HIDE DEF k
<1>6. \A q \in Slots : blk'[q].at = blk[q].at /\ Owns(q)' = Owns(q)
  BY <1>5 DEF Owns
<1>7. Tiling' /\ Sorted'
  BY <1>1, Quiet DEF Top
<1>8. \A b : SizeAt(b)' = SizeAt(b) /\ EndOf(b)' = EndOf(b)
  BY <1>1 DEF SizeAt, EndOf, Peek
<1>9. TypeOK'
  BY <1>1, <1>2, <1>5 DEF HeapInv, TypeOK, NoCall
<1>10. NoLeak'
  <2>1. Owned' = Owned
    BY <1>6 DEF Owned
  <2>2. InTransit' = {} /\ InTransit = {}
    BY <1>1 DEF InTransit
  <2> QED
    BY <1>1, <1>6, <2>1, <2>2 DEF HeapInv, NoLeak
<1>11. Fits'
  <2>1. \A q \in Slots : SizeAt(blk[q].at - 2)' = SizeAt(blk[q].at - 2)
    BY <1>6, <1>8 DEF SizeAt
  <2> QED
    BY <1>1, <1>3, <1>4, <1>5, <1>6, <2>1 DEF HeapInv, Fits
<1>12. Intact'
  <2> SUFFICES ASSUME NEW q \in Slots, NEW i \in 0 .. blk'[q].set - 1
               PROVE  mem'[blk'[q].at + i] = Tag[q]
    BY DEF Intact
  <2>1. i \in 0 .. blk[q].set - 1
    <3>1. CASE q = p
      BY <1>3, <1>4, <1>5, <3>1
    <3>2. CASE q # p
      BY <1>5, <3>2
    <3> QED
      BY <3>1, <3>2
  <2> QED
    BY <1>1, <1>6, <2>1 DEF HeapInv, Intact
<1>13. Coalesced'
  BY <1>1, <1>8 DEF HeapInv, Coalesced
<1> QED
  BY <1>1, <1>7, <1>9, <1>10, <1>11, <1>12, <1>13
     DEF HeapInv, Allocating, Clearing, Copying, Freeing, CallocZeroed, NoCall

-----------------------------------------------------------------------------
(* free                                                                     *)

LEMMA FreeNextInv == ASSUME HeapInv, FreeNext PROVE HeapInv'
<1> SUFFICES ASSUME NEW h, h = hl
             PROVE  HeapInv'
  OBVIOUS
<1>1. /\ pc = "find" /\ h # 0 /\ h <= ix /\ bc' = h + 2 /\ hl' = LinkAt(h)
      /\ mem' = mem /\ heap_ptr' = heap_ptr /\ pc' = pc /\ call' = call /\ ix' = ix
      /\ free' = free /\ used' = used /\ blk' = blk
  BY DEF FreeNext, ghosts
<1>2. h \in free /\ h \in Blocks /\ h \in Nat
  <2>1. h \in free
    BY <1>1, LinkFree DEF HeapInv, Freeing, TypeOK
  <2> QED
    BY <2>1, FreeSet
<1>3. h < ix
  <2>1. ix \in used /\ ix \in Nat
    BY <1>1, FreeSet, BlockBytes DEF HeapInv, NoLeak, InTransit
  <2> QED
    BY <1>1, <1>2, <2>1, FreeSet
<1>4. h + 2 \in Word
  BY <1>2, BlockBytes, WordNat, MaxNat
<1>5. Tiling' /\ Sorted'
  BY <1>1, Quiet DEF Top
<1>6. \A b : SizeAt(b)' = SizeAt(b) /\ EndOf(b)' = EndOf(b)
  BY <1>1 DEF SizeAt, EndOf, Peek
<1>7. TypeOK'
  BY <1>1, <1>2, <1>4, LinkType DEF HeapInv, TypeOK
<1>8. Freeing'
  <2>1. (h + 2) - 2 = h
    BY <1>2
  <2>2. AtLink(bc, hl)'
    BY <1>1, <1>2, <2>1 DEF AtLink, LinkAt, Peek
  <2>3. call.op \in {"free", "realloc"}
    BY <1>1 DEF HeapInv, Freeing
  <2> QED
    BY <1>1, <1>3, <2>1, <2>2, <2>3 DEF Freeing
<1>9. Coalesced' /\ Fits'
  BY <1>1, <1>6 DEF HeapInv, Coalesced, Fits, Owns, SizeAt, Peek
<1>10. NoLeak' /\ Intact'
  BY <1>1 DEF HeapInv, NoLeak, Owned, Owns, InTransit, Intact
<1> QED
  BY <1>1, <1>5, <1>7, <1>8, <1>9, <1>10
     DEF HeapInv, Allocating, Clearing, Copying, CallocZeroed

LEMMA FreeInsertInv == ASSUME HeapInv, FreeInsert PROVE HeapInv' /\ PayloadsKept
<1> SUFFICES ASSUME NEW i, i = ix, NEW k, k = bc, NEW w, w = hl,
                    NEW g, g = IF k = FreeHead THEN 0 ELSE k - 2,
                    NEW m, m = Poke(mem, i + 2, w)
             PROVE  HeapInv' /\ PayloadsKept
  OBVIOUS
<1>1. /\ pc = "find" /\ (w = 0 \/ i < w)
      /\ mem' = Poke(m, k, i)
      /\ free' = free \cup {i} /\ used' = used \ {i} /\ pc' = "next"
      /\ call' = call /\ heap_ptr' = heap_ptr /\ blk' = blk
      /\ hl' = w /\ bc' = k /\ ix' = i
  BY DEF FreeInsert, regs
<1>2. /\ k \in Word /\ k \in Nat /\ w \in Word /\ i \in Word /\ i \in Nat /\ AtLink(k, w)
      /\ k = FreeHead \/ k - 2 < i
  BY <1>1, WordNat DEF HeapInv, Freeing, TypeOK
<1>3. /\ g \in free \cup {0} /\ FirstAbove(free, g, w) /\ (k # FreeHead => g = k - 2 /\ g \in free /\ k = g + 2)
      /\ (k = FreeHead \/ k - 2 \in Blocks) /\ (k = FreeHead => g = 0)
  BY <1>2, LinkFree, FreeSet
<1>4. /\ i \in used /\ i \in Blocks /\ i \notin free /\ i \notin Owned /\ used = Owned \cup {i}
      /\ (i + 2) - 2 = i /\ i + 2 # FreeHead /\ i + 2 \in Nat
  <2>1. i \in used /\ i \notin Owned /\ used = Owned \cup {i}
    BY <1>1 DEF HeapInv, NoLeak, InTransit
  <2> QED
    BY <1>2, <2>1, FreeSet, BlockBytes
<1>5. g < i /\ i + 2 # k
  <2>1. CASE k = FreeHead
    BY <1>2, <1>3, <1>4, <2>1, FreeSet, BlockBytes, RamInt
  <2>2. CASE k # FreeHead
    BY <1>2, <1>3, <1>4, <2>2, FreeSet
  <2> QED
    BY <2>1, <2>2
<1>6. /\ m \in [Ram -> Byte] /\ Peek(m, i + 2) = w
      /\ \A b \in Blocks : Peek(m, b) = Peek(mem, b)
      /\ \A b \in Blocks : b + 2 # i + 2 => /\ Peek(m, b + 2) = Peek(mem, b + 2)
                                           /\ \A a \in b .. EndOf(b) - 1 : m[a] = mem[a]
      /\ Peek(m, FreeHead) = Peek(mem, FreeHead)
  BY <1>2, <1>4, LinkStore DEF HeapInv, TypeOK
<1>7. /\ mem' \in [Ram -> Byte] /\ Peek(mem', k) = i
      /\ \A b \in Blocks : Peek(mem', b) = Peek(m, b)
      /\ \A b \in Blocks : b + 2 # k => /\ Peek(mem', b + 2) = Peek(m, b + 2)
                                       /\ \A a \in b .. EndOf(b) - 1 : mem'[a] = m[a]
      /\ k # FreeHead => Peek(mem', FreeHead) = Peek(m, FreeHead)
  <2>1. /\ m \in [Ram -> Byte] /\ (k = FreeHead \/ k - 2 \in Blocks) /\ k \in Nat /\ i \in Word
        /\ mem' = Poke(m, k, i)
    BY <1>1, <1>2, <1>3, <1>6
  <2> QED
    BY <2>1, LinkStore
<1>8. \A b \in Blocks : SizeAt(b)' = SizeAt(b) /\ EndOf(b)' = EndOf(b)
  BY <1>6, <1>7 DEF SizeAt, EndOf
<1>9. LinkAt(i)' = w
  BY <1>4, <1>5, <1>6, <1>7 DEF LinkAt
<1>10. \A f \in free : f + 2 # k => LinkAt(f)' = LinkAt(f)
  <2> SUFFICES ASSUME NEW f \in free, f + 2 # k PROVE LinkAt(f)' = LinkAt(f)
    OBVIOUS
  <2>1. f \in Blocks /\ f \in Nat /\ f # i
    BY <1>4, FreeSet
  <2> QED
    BY <1>2, <1>6, <1>7, <2>1 DEF LinkAt
<1>11. Blocks' = Blocks /\ Top' = Top
  BY <1>1, <1>4 DEF Blocks, Top
<1>12. Tiling'
  <2>1. free' \cap used' = {}
    BY <1>1 DEF HeapInv, Tiling
  <2> QED
    BY <1>8, <1>11, <2>1 DEF HeapInv, Tiling
<1>13. Sorted'
  <2>1. /\ FirstAbove(free \cup {i}, i, w) /\ FirstAbove(free \cup {i}, g, i)
        /\ \A f \in free \cup {0} : \A x : f # g /\ FirstAbove(free, f, x) => FirstAbove(free \cup {i}, f, x)
    BY <1>1, <1>2, <1>3, <1>5, FreeSet, ListInsert
  <2>2. FirstAbove(free', 0, Peek(mem', FreeHead))
    <3>1. CASE k = FreeHead
      BY <1>1, <1>3, <1>7, <2>1, <3>1
    <3>2. CASE k # FreeHead
      <4>1. g # 0
        BY <1>3, <3>2, FreeSet
      <4>2. FirstAbove(free, 0, Peek(mem, FreeHead))
        BY DEF HeapInv, Sorted
      <4> QED
        BY <1>1, <1>6, <1>7, <2>1, <3>2, <4>1, <4>2
    <3> QED
      BY <3>1, <3>2
  <2>3. ASSUME NEW f \in free
        PROVE  FirstAbove(free \cup {i}, f, LinkAt(f)')
    <3>1. f \in Nat /\ f \in Blocks /\ f # 0
      BY FreeSet
    <3>2. CASE f + 2 = k
      <4>1. k # FreeHead
        BY <3>1, <3>2, RamInt, BlockBytes
      <4>2. f = g
        BY <1>2, <1>3, <3>1, <3>2, <4>1
      <4>3. LinkAt(f)' = i
        BY <1>7, <3>2 DEF LinkAt
      <4> QED
        BY <2>1, <4>2, <4>3
    <3>3. CASE f + 2 # k
      <4>1. f # g
        BY <1>3, <3>1, <3>3
      <4>2. FirstAbove(free, f, LinkAt(f))
        BY DEF HeapInv, Sorted
      <4> QED
        BY <1>10, <2>1, <3>3, <4>1, <4>2
    <3> QED
      BY <3>2, <3>3
  <2>4. \A f \in free' : FirstAbove(free, f, LinkAt(f))'
    BY <1>1, <1>9, <2>1, <2>3
  <2>5. FirstAbove(free, 0, Peek(mem, FreeHead))'
    BY <2>2 DEF Peek
  <2> QED
    BY <2>4, <2>5 DEF Sorted
<1>14. Coalesced'
  <2> SUFFICES ASSUME NEW f \in free', EndOf(f)' \in free' PROVE i \in {f, EndOf(f)'}
    BY <1>1 DEF Coalesced
  <2>1. CASE f \in free
    <3>1. EndOf(f)' = EndOf(f) /\ EndOf(f) \notin free
      BY <1>1, <1>8, <2>1, FreeSet DEF HeapInv, Coalesced
    <3> QED
      BY <1>1, <3>1
  <2> QED
    BY <1>1, <2>1
<1>15. NoLeak'
  <2>1. InTransit' = {} /\ Owned' = Owned
    BY <1>1 DEF InTransit, Owned, Owns
  <2>2. used' = Owned
    BY <1>1, <1>4
  <2> QED
    BY <1>1, <2>1, <2>2 DEF HeapInv, NoLeak, Owns
<1>16. \A q \in Slots : Owns(q) => blk[q].at - 2 \in Blocks /\ blk[q].at - 2 # i /\ blk[q].at - 2 \in used
  BY <1>4, OwnedBlock DEF Owned
<1>17. Fits'
  <2>1. \A q \in Slots : Owns(q) => SizeAt(blk[q].at - 2)' = SizeAt(blk[q].at - 2)
    BY <1>1, <1>8, <1>16
  <2> QED
    BY <1>1, <2>1 DEF HeapInv, Fits, Owns
<1>18. Intact'
  <2> SUFFICES ASSUME NEW q \in Slots, NEW j \in 0 .. blk[q].set - 1
               PROVE  mem'[blk[q].at + j] = Tag[q]
    BY <1>1 DEF Intact
  <2>1. Owns(q)
    BY DEF HeapInv, Fits, NoBlock
  <2>2. PICK b \in Blocks : b = blk[q].at - 2 /\ b # i /\ b \in used
    BY <1>16, <2>1
  <2>3. b \in Nat /\ EndOf(b) \in Nat /\ blk[q].at + j \in b .. EndOf(b) - 1
    BY <2>1, <2>2, OwnedBlock, BlockBytes
  <2>4. b + 2 # k /\ b + 2 # i + 2
    BY <1>2, <1>3, <2>2, <2>3, FreeSet, BlockBytes, RamInt
  <2>5. mem'[blk[q].at + j] = mem[blk[q].at + j]
    BY <1>6, <1>7, <2>3, <2>4
  <2> QED
    BY <2>5 DEF HeapInv, Intact
<1>19. Freeing'
  <2>1. AtLink(bc, ix)'
    BY <1>1, <1>2, <1>7 DEF AtLink, Peek
  <2>2. LinkAt(ix)' = LinkAt(i)'
    BY <1>1 DEF LinkAt, Peek
  <2>3. call.op \in {"free", "realloc"}
    BY <1>1 DEF HeapInv, Freeing
  <2> QED
    BY <1>1, <1>9, <2>1, <2>2, <2>3 DEF Freeing
<1>20. TypeOK'
  BY <1>1, <1>2, <1>4, <1>7 DEF HeapInv, TypeOK
<1>21. PayloadsKept
  <2> SUFFICES ASSUME NEW u \in used, u # i, NEW a \in u + 2 .. EndOf(u) - 1
               PROVE  mem'[a] = mem[a]
    BY <1>1 DEF PayloadsKept
  <2>1. u \in Blocks /\ u \in Nat /\ EndOf(u) \in Nat /\ u > FreeHead + 1
    BY FreeSet, BlockBytes
  <2>2. u + 2 # k /\ u + 2 # i + 2
    BY <1>2, <1>3, <2>1, FreeSet, RamInt
  <2>3. a \in u .. EndOf(u) - 1
    BY <2>1
  <2> QED
    BY <1>6, <1>7, <2>1, <2>2, <2>3
<1> QED
  BY <1>1, <1>12, <1>13, <1>14, <1>15, <1>17, <1>18, <1>19, <1>20, <1>21
     DEF HeapInv, Allocating, Clearing, Copying, CallocZeroed

\* What the two merges have in common: the free block g takes in the next
\* free block w, which starts where g ends.
LEMMA Merge ==
  ASSUME HeapInv, NEW g \in free, NEW w \in free, LinkAt(g) = w, EndOf(g) = w,
         NEW m, m = Poke(mem, g, SizeAt(g) + SizeAt(w) + 2),
         mem' = Poke(m, g + 2, LinkAt(w)),
         free' = free \ {w}, used' = used, heap_ptr' = heap_ptr
  PROVE  /\ mem' \in [Ram -> Byte] /\ Tiling' /\ Sorted'
         /\ \A b \in Blocks : b # g => SizeAt(b)' = SizeAt(b) /\ EndOf(b)' = EndOf(b)
         /\ EndOf(g)' = EndOf(w) /\ g < w /\ w < EndOf(w)
         /\ \A b \in Blocks : b # g => \A a \in b + 2 .. EndOf(b) - 1 : mem'[a] = mem[a]
         /\ \A f \in free : f # g => Peek(mem', f + 2) = Peek(mem, f + 2)
         /\ Peek(mem', FreeHead) = Peek(mem, FreeHead)
<1>1. /\ g \in Blocks /\ g \in Nat /\ g + 3 < EndOf(g) /\ EndOf(g) = g + 2 + SizeAt(g) /\ SizeAt(g) \in Nat
      /\ w \in Blocks /\ w \in Nat /\ w + 3 < EndOf(w) /\ EndOf(w) = w + 2 + SizeAt(w) /\ SizeAt(w) \in Nat
      /\ EndOf(w) \in Nat /\ EndOf(w) <= Top /\ Top \in Nat /\ Top <= MaxWord /\ g >= Start /\ g < w
      /\ SizeAt(g) >= 2 /\ g + 2 # FreeHead /\ g + 2 \in Nat /\ (g + 2) - 2 = g
  BY FreeSet, BlockBytes
<1> DEFINE n == SizeAt(g) + SizeAt(w) + 2
<1>2. n \in Nat /\ n >= 2 /\ g + 2 + n = EndOf(w) /\ n \in Word
  BY <1>1, WordNat, MaxNat
<1> HIDE DEF n
<1>3. LinkAt(w) \in Word
  BY <1>1, LinkType
<1>4. /\ m \in [Ram -> Byte] /\ Peek(m, g) = n
      /\ \A b \in Blocks : b # g => Peek(m, b) = Peek(mem, b)
      /\ \A b \in Blocks : /\ Peek(m, b + 2) = Peek(mem, b + 2)
                           /\ \A a \in b + 2 .. EndOf(b) - 1 : m[a] = mem[a]
      /\ Peek(m, FreeHead) = Peek(mem, FreeHead)
  <2>1. m = Poke(mem, g, n)
    BY DEF n
  <2> QED
    BY <1>1, <1>2, <2>1, SizeStore DEF HeapInv, TypeOK
<1>5. /\ mem' \in [Ram -> Byte] /\ Peek(mem', g + 2) = LinkAt(w)
      /\ \A b \in Blocks : Peek(mem', b) = Peek(m, b)
      /\ \A b \in Blocks : b + 2 # g + 2 => /\ Peek(mem', b + 2) = Peek(m, b + 2)
                                           /\ \A a \in b .. EndOf(b) - 1 : mem'[a] = m[a]
      /\ Peek(mem', FreeHead) = Peek(m, FreeHead)
  <2>1. /\ m \in [Ram -> Byte] /\ (g + 2) - 2 \in Blocks /\ g + 2 \in Nat /\ LinkAt(w) \in Word
        /\ mem' = Poke(m, g + 2, LinkAt(w)) /\ g + 2 # FreeHead
    BY <1>1, <1>3, <1>4
  <2> QED
    BY <2>1, LinkStore
<1>6. \A b \in Blocks : b # g => SizeAt(b)' = SizeAt(b) /\ EndOf(b)' = EndOf(b)
  BY <1>4, <1>5 DEF SizeAt, EndOf
<1>7. SizeAt(g)' = n /\ EndOf(g)' = EndOf(w)
  BY <1>1, <1>2, <1>4, <1>5 DEF SizeAt, EndOf
<1>8. \A b \in Blocks : b # g => \A a \in b + 2 .. EndOf(b) - 1 : mem'[a] = mem[a]
  <2> SUFFICES ASSUME NEW b \in Blocks, b # g, NEW a \in b + 2 .. EndOf(b) - 1
               PROVE  mem'[a] = mem[a]
    OBVIOUS
  <2>1. b \in Nat /\ EndOf(b) \in Nat /\ b + 2 # g + 2
    BY <1>1, BlockBytes
  <2>2. a \in b .. EndOf(b) - 1
    BY <2>1
  <2> QED
    BY <1>4, <1>5, <2>1, <2>2
<1>9. \A f \in free : f # g => Peek(mem', f + 2) = Peek(mem, f + 2)
  <2> SUFFICES ASSUME NEW f \in free, f # g PROVE Peek(mem', f + 2) = Peek(mem, f + 2)
    OBVIOUS
  <2>1. f \in Blocks /\ f \in Nat /\ f + 2 # g + 2
    BY <1>1, FreeSet
  <2> QED
    BY <1>4, <1>5, <2>1
<1>10. Blocks' = Blocks \ {w} /\ Top' = Top
  BY FreeSet DEF Blocks, Top
<1>11. Tiling'
  <2>1. free' \cap used' = {}
    BY DEF HeapInv, Tiling
  <2>2. Start \in Blocks' \cup {Top'}
    <3>1. Start # w
      BY <1>1, RamInt
    <3> QED
      BY <1>10, <3>1 DEF HeapInv, Tiling
  <2>3. ASSUME NEW b \in Blocks'
        PROVE  /\ b + 3 < Top' /\ EndOf(b)' <= Top' /\ SizeAt(b)' >= 2
               /\ EndOf(b)' \in Blocks' \cup {Top'}
    <3>1. CASE b = g
      <4>1. EndOf(w) \in Blocks \cup {Top} /\ EndOf(w) # w
        BY <1>1 DEF HeapInv, Tiling
      <4>2. g + 3 < Top
        BY <3>1 DEF HeapInv, Tiling, Blocks
      <4>3. EndOf(g)' <= Top
        BY <1>1, <1>7
      <4>4. SizeAt(g)' >= 2
        BY <1>2, <1>7
      <4> QED
        BY <1>7, <1>10, <3>1, <4>1, <4>2, <4>3, <4>4
    <3>2. CASE b # g
      <4>1. b \in Blocks /\ b \in Nat /\ b # w /\ b + 3 < EndOf(b) /\ EndOf(b) \in Nat
        BY <1>10, BlockBytes
      <4>2. EndOf(b) # w
        <5>1. EndOf(b) <= g \/ w <= b
          BY <1>1, <3>2, <4>1, Apart
        <5> QED
          BY <1>1, <4>1, <5>1
      <4> QED
        BY <1>6, <1>10, <3>2, <4>1, <4>2 DEF HeapInv, Tiling
    <3> QED
      BY <3>1, <3>2
  <2>4. ASSUME NEW b \in Blocks', NEW c \in Blocks', b < c
        PROVE  EndOf(b)' <= c
    <3>1. b \in Blocks /\ c \in Blocks /\ b # w /\ c # w /\ b \in Nat /\ c \in Nat
          /\ EndOf(c) \in Nat /\ c + 3 < EndOf(c)
      BY <1>10, BlockBytes
    <3>2. CASE b = g
      <4>1. EndOf(g) <= c
        BY <2>4, <3>1, <3>2 DEF HeapInv, Tiling
      <4>2. w < c
        BY <1>1, <3>1, <4>1
      <4>3. EndOf(w) <= c
        BY <1>1, <3>1, <4>2 DEF HeapInv, Tiling
      <4> QED
        BY <1>7, <3>2, <4>3
    <3>3. CASE b # g
      BY <1>6, <2>4, <3>1, <3>3 DEF HeapInv, Tiling
    <3> QED
      BY <3>2, <3>3
  <2> QED
    BY <1>10, <2>1, <2>2, <2>3, <2>4 DEF HeapInv, Tiling
<1>12. Sorted'
  <2>1. FirstAbove(free, g, w) /\ FirstAbove(free, w, LinkAt(w))
    BY DEF HeapInv, Sorted
  <2>2. /\ FirstAbove(free \ {w}, g, LinkAt(w))
        /\ \A f \in free \cup {0} : \A x : f # g /\ f # w /\ FirstAbove(free, f, x)
              => FirstAbove(free \ {w}, f, x)
    BY <2>1, FreeSet, ListUnlink
  <2>3. FirstAbove(free', 0, Peek(mem', FreeHead))
    <3>1. FirstAbove(free, 0, Peek(mem, FreeHead)) /\ 0 # g /\ 0 # w
      BY FreeSet DEF HeapInv, Sorted
    <3> QED
      BY <1>4, <1>5, <2>2, <3>1
  <2>4. ASSUME NEW f \in free, f # w
        PROVE  FirstAbove(free \ {w}, f, Peek(mem', f + 2))
    <3>1. CASE f = g
      BY <1>5, <2>2, <3>1
    <3>2. CASE f # g
      <4>1. FirstAbove(free, f, Peek(mem, f + 2))
        BY DEF HeapInv, Sorted, LinkAt
      <4> QED
        BY <1>9, <2>2, <2>4, <3>2, <4>1
    <3> QED
      BY <3>1, <3>2
  <2>5. \A f \in free' : FirstAbove(free, f, LinkAt(f))'
    BY <2>4 DEF LinkAt
  <2>6. FirstAbove(free, 0, Peek(mem, FreeHead))'
    BY <2>3 DEF Peek
  <2> QED
    BY <2>5, <2>6 DEF Sorted
<1>13. EndOf(g)' = EndOf(w) /\ g < w /\ w < EndOf(w) /\ mem' \in [Ram -> Byte]
  <2>1. w < EndOf(w)
    <3>1. w \in Nat /\ EndOf(w) \in Nat /\ w + 3 < EndOf(w)
      BY <1>1
    <3> QED
      BY <3>1
  <2>2. g < w
    BY <1>1
  <2>3. mem' \in [Ram -> Byte]
    BY <1>5
  <2> QED
    BY <1>7, <2>1, <2>2, <2>3
<1>14. Peek(mem', FreeHead) = Peek(mem, FreeHead)
  BY <1>4, <1>5
<1> QED
  BY <1>6, <1>8, <1>9, <1>11, <1>12, <1>13, <1>14

\* What a merge, or none, leaves of the program's view.
LEMMA MergedInv ==
  ASSUME HeapInv, UNCHANGED <<used, blk, call, heap_ptr>>, mem' \in [Ram -> Byte],
         \A u \in used : /\ SizeAt(u)' = SizeAt(u)
                         /\ \A a \in u + 2 .. EndOf(u) - 1 : mem'[a] = mem[a],
         pc \in {"next", "prev"}, pc' \in {"prev", "ret"}
  PROVE  NoLeak' /\ Fits' /\ Intact' /\ Allocating' /\ Clearing' /\ Copying' /\ CallocZeroed'
<1>1. NoLeak'
  <2>1. InTransit' = {} /\ Owned' = Owned /\ InTransit = {}
    BY DEF InTransit, Owned, Owns
  <2> QED
    BY <2>1 DEF HeapInv, NoLeak, Owns
<1>2. Fits'
  <2>1. \A q \in Slots : Owns(q) => SizeAt(blk[q].at - 2)' = SizeAt(blk[q].at - 2)
    BY OwnedBlock
  <2> QED
    BY <2>1 DEF HeapInv, Fits, Owns
<1>3. Intact'
  <2> SUFFICES ASSUME NEW q \in Slots, NEW j \in 0 .. blk[q].set - 1
               PROVE  mem'[blk[q].at + j] = Tag[q]
    BY DEF Intact
  <2>1. Owns(q)
    BY DEF HeapInv, Fits, NoBlock
  <2>2. mem'[blk[q].at + j] = mem[blk[q].at + j]
    BY <2>1, OwnedBlock
  <2> QED
    BY <2>2 DEF HeapInv, Intact
<1> QED
  BY <1>1, <1>2, <1>3 DEF HeapInv, Freeing, Allocating, Clearing, Copying, CallocZeroed

LEMMA FreeMergeNextInv == ASSUME HeapInv, FreeMergeNext PROVE HeapInv' /\ PayloadsKept
<1> SUFFICES ASSUME NEW i, i = ix, NEW k, k = bc, NEW h, h = hl
             PROVE  HeapInv' /\ PayloadsKept
  OBVIOUS
<1>1. /\ pc = "next" /\ pc' = "prev" /\ call' = call /\ heap_ptr' = heap_ptr
      /\ used' = used /\ blk' = blk /\ hl' = h /\ bc' = k /\ ix' = i
      /\ call.op \in {"free", "realloc"}
  BY DEF FreeMergeNext, regs, HeapInv, Freeing
<1>2. i \in free /\ i \in Blocks /\ i \in Nat /\ AtLink(k, i) /\ k \in Word /\ h = LinkAt(i)
      /\ EndOf(i) \in Nat /\ i + 3 < EndOf(i) /\ k \in Nat
  BY <1>1, FreeSet, BlockBytes, WordNat DEF HeapInv, Freeing, TypeOK
<1>3. FirstAbove(free, i, h)
  BY <1>2 DEF HeapInv, Sorted
<1>4. k # FreeHead => k - 2 \in free /\ k - 2 < i /\ (k - 2) + 2 = k
  <2>1. k # FreeHead => k - 2 \in free /\ FirstAbove(free, k - 2, i)
    BY <1>2, LinkFree
  <2>2. i # 0
    BY <1>2, FreeSet
  <2> QED
    BY <1>2, <2>1, <2>2, FreeSet DEF FirstAbove
<1>5. CASE h # 0 /\ EndOf(i) = h
  <2>1. h \in free /\ h > i /\ h \in Nat /\ h \in Blocks /\ EndOf(h) \in Nat /\ h + 3 < EndOf(h)
    BY <1>3, <1>5, FreeSet, BlockBytes DEF FirstAbove
  <2>2. /\ mem' = Poke(Poke(mem, i, SizeAt(i) + SizeAt(h) + 2), i + 2, LinkAt(h))
        /\ free' = free \ {h}
    BY <1>5 DEF FreeMergeNext
  <2>3. /\ mem' \in [Ram -> Byte] /\ Tiling' /\ Sorted'
        /\ \A b \in Blocks : b # i => SizeAt(b)' = SizeAt(b) /\ EndOf(b)' = EndOf(b)
        /\ EndOf(i)' = EndOf(h)
        /\ \A b \in Blocks : b # i => \A a \in b + 2 .. EndOf(b) - 1 : mem'[a] = mem[a]
        /\ \A f \in free : f # i => Peek(mem', f + 2) = Peek(mem, f + 2)
        /\ Peek(mem', FreeHead) = Peek(mem, FreeHead)
    BY <1>1, <1>2, <1>5, <2>1, <2>2, Merge
  <2>4. \A u \in used : /\ SizeAt(u)' = SizeAt(u)
                        /\ \A a \in u + 2 .. EndOf(u) - 1 : mem'[a] = mem[a]
    BY <1>2, <2>3, FreeSet
  <2>5. Coalesced'
    <3> SUFFICES ASSUME NEW f \in free', EndOf(f)' \in free' PROVE i = EndOf(f)'
      BY <1>1 DEF Coalesced
    <3>1. CASE f = i
      <4>1. EndOf(h) \in free => i \in {h, EndOf(h)}
        BY <1>1, <2>1 DEF HeapInv, Coalesced
      <4> QED
        BY <1>2, <2>1, <2>2, <2>3, <3>1, <4>1
    <3>2. CASE f # i
      <4>1. EndOf(f)' = EndOf(f) /\ f \in free /\ EndOf(f) \in free
        BY <2>2, <2>3, <3>2, FreeSet
      <4> QED
        BY <1>1, <3>2, <4>1 DEF HeapInv, Coalesced
    <3> QED
      BY <3>1, <3>2
  <2>6. Freeing'
    <3>1. i \in free'
      BY <1>2, <2>1, <2>2
    <3>2. k = FreeHead \/ k - 2 \in free'
      BY <1>2, <1>4, <2>1, <2>2, FreeSet
    <3>3. i = Peek(mem', k)
      <4>1. CASE k = FreeHead
        BY <1>2, <2>3, <4>1 DEF AtLink
      <4>2. CASE k # FreeHead
        <5>1. k - 2 # i
          BY <1>2, <1>4, <4>2
        <5> QED
          BY <1>2, <1>4, <2>3, <4>2, <5>1 DEF AtLink
      <4> QED
        BY <4>1, <4>2
    <3> QED
      BY <1>1, <3>1, <3>2, <3>3 DEF Freeing, AtLink, Peek
  <2>7. TypeOK'
    BY <1>1, <2>2, <2>3 DEF HeapInv, TypeOK
  <2> QED
    BY <1>1, <2>3, <2>4, <2>5, <2>6, <2>7, MergedInv DEF HeapInv, PayloadsKept
<1>6. CASE ~(h # 0 /\ EndOf(i) = h)
  <2>1. mem' = mem /\ free' = free
    BY <1>6 DEF FreeMergeNext
  <2>2. /\ \A b : SizeAt(b)' = SizeAt(b) /\ EndOf(b)' = EndOf(b)
        /\ mem' \in [Ram -> Byte] /\ Tiling' /\ Sorted'
    BY <1>1, <2>1, Quiet DEF SizeAt, EndOf, Peek, Top, HeapInv, TypeOK
  <2>3. EndOf(i) \notin free
    <3> SUFFICES ASSUME EndOf(i) \in free PROVE FALSE
      OBVIOUS
    <3>1. h \in free /\ h > i /\ h <= EndOf(i)
      BY <1>2, <1>3 DEF FirstAbove
    <3>2. EndOf(i) <= h
      BY <1>2, <3>1, FreeSet DEF HeapInv, Tiling
    <3> QED
      BY <1>2, <1>6, <3>1, <3>2, FreeSet
  <2>4. Coalesced'
    BY <1>1, <2>1, <2>2, <2>3 DEF HeapInv, Coalesced
  <2>5. Freeing'
    BY <1>1, <1>2, <2>1 DEF Freeing, AtLink, Peek
  <2>6. TypeOK'
    BY <1>1, <2>1 DEF HeapInv, TypeOK
  <2>7. \A u \in used : /\ SizeAt(u)' = SizeAt(u)
                        /\ \A a \in u + 2 .. EndOf(u) - 1 : mem'[a] = mem[a]
    BY <2>1, <2>2
  <2> QED
    BY <1>1, <2>2, <2>4, <2>5, <2>6, <2>7, MergedInv DEF HeapInv, PayloadsKept
<1> QED
  BY <1>5, <1>6

LEMMA FreeMergePrevInv == ASSUME HeapInv, FreeMergePrev PROVE HeapInv' /\ PayloadsKept
<1> SUFFICES ASSUME NEW i, i = ix, NEW k, k = bc, NEW g, g = k - 2
             PROVE  HeapInv' /\ PayloadsKept
  OBVIOUS
<1>1. /\ pc = "prev" /\ pc' = "ret" /\ call' = call /\ heap_ptr' = heap_ptr
      /\ used' = used /\ blk' = blk /\ hl' = 0 /\ bc' = 0 /\ ix' = 0
      /\ call.op \in {"free", "realloc"}
  BY DEF FreeMergePrev, HeapInv, Freeing
<1>2. i \in free /\ i \in Blocks /\ i \in Nat /\ i # 0 /\ AtLink(k, i) /\ k \in Word /\ k \in Nat
      /\ EndOf(i) \in Nat /\ i + 3 < EndOf(i)
  BY <1>1, FreeSet, BlockBytes, WordNat DEF HeapInv, Freeing, TypeOK
<1>3. /\ k # FreeHead => g \in free /\ FirstAbove(free, g, i) /\ g + 2 = k
      /\ k = FreeHead => FirstAbove(free, 0, i)
  BY <1>2, LinkFree
<1>4. \A f \in free : EndOf(f) \in free => i = EndOf(f)
  BY <1>1 DEF HeapInv, Coalesced
<1>5. 0 \in Word
  BY WordNat, MaxNat
<1>6. CASE k # FreeHead /\ EndOf(g) = i
  <2>1. g \in free /\ g \in Blocks /\ g \in Nat /\ g + 2 = k /\ LinkAt(g) = i /\ EndOf(g) = i
    BY <1>2, <1>3, <1>6, FreeSet DEF AtLink, LinkAt
  <2>2. /\ mem' = Poke(Poke(mem, g, SizeAt(g) + SizeAt(i) + 2), g + 2, LinkAt(i))
        /\ free' = free \ {i}
    BY <1>6, <2>1 DEF FreeMergePrev
  <2>3. /\ mem' \in [Ram -> Byte] /\ Tiling' /\ Sorted'
        /\ \A b \in Blocks : b # g => SizeAt(b)' = SizeAt(b) /\ EndOf(b)' = EndOf(b)
        /\ EndOf(g)' = EndOf(i)
        /\ \A b \in Blocks : b # g => \A a \in b + 2 .. EndOf(b) - 1 : mem'[a] = mem[a]
    BY <1>1, <1>2, <2>1, <2>2, Merge
  <2>4. \A u \in used : /\ SizeAt(u)' = SizeAt(u)
                        /\ \A a \in u + 2 .. EndOf(u) - 1 : mem'[a] = mem[a]
    BY <2>1, <2>3, FreeSet
  <2>5. Coalesced'
    <3> SUFFICES ASSUME NEW f \in free', EndOf(f)' \in free' PROVE FALSE
      BY DEF Coalesced
    <3>1. CASE f = g
      BY <1>2, <1>4, <2>2, <2>3, <3>1
    <3>2. CASE f # g
      <4>1. EndOf(f)' = EndOf(f) /\ f \in free /\ EndOf(f) \in free /\ EndOf(f) # i
        BY <2>2, <2>3, <3>2, FreeSet
      <4> QED
        BY <1>4, <4>1
    <3> QED
      BY <3>1, <3>2
  <2>6. TypeOK'
    BY <1>1, <1>5, <2>2, <2>3 DEF HeapInv, TypeOK
  <2>7. Freeing'
    BY <1>1 DEF Freeing
  <2> QED
    BY <1>1, <2>3, <2>4, <2>5, <2>6, <2>7, MergedInv DEF HeapInv, PayloadsKept
<1>7. CASE ~(k # FreeHead /\ EndOf(g) = i)
  <2>1. mem' = mem /\ free' = free
    BY <1>7 DEF FreeMergePrev
  <2>2. /\ \A b : SizeAt(b)' = SizeAt(b) /\ EndOf(b)' = EndOf(b)
        /\ mem' \in [Ram -> Byte] /\ Tiling' /\ Sorted'
    BY <1>1, <2>1, Quiet DEF SizeAt, EndOf, Peek, Top, HeapInv, TypeOK
  <2>3. ASSUME NEW f \in free, EndOf(f) \in free PROVE FALSE
    <3>1. i = EndOf(f) /\ f \in Nat /\ f # 0 /\ f \in Blocks /\ f + 3 < EndOf(f)
      BY <1>4, <2>3, FreeSet, BlockBytes
    <3>2. f < i
      BY <1>2, <3>1
    <3>3. CASE k = FreeHead
      BY <1>2, <1>3, <3>1, <3>2, <3>3 DEF FirstAbove
    <3>4. CASE k # FreeHead
      <4>1. g \in free /\ g \in Nat /\ g \in Blocks /\ g < i /\ EndOf(g) # i /\ ~(f > g)
        <5>1. g \in free /\ g \in Nat /\ g \in Blocks /\ EndOf(g) # i
          BY <1>3, <1>7, <3>4, FreeSet
        <5>2. g < i /\ (f > g => i <= f)
          BY <1>2, <1>3, <3>4, <5>1 DEF FirstAbove
        <5> QED
          BY <1>2, <3>1, <3>2, <5>1, <5>2
      <4>2. f < g
        BY <3>1, <4>1
      <4>3. EndOf(f) <= g
        BY <3>1, <4>1, <4>2 DEF HeapInv, Tiling
      <4> QED
        BY <1>2, <3>1, <4>1, <4>3
    <3> QED
      BY <3>3, <3>4
  <2>4. Coalesced'
    BY <2>1, <2>2, <2>3 DEF Coalesced
  <2>5. TypeOK'
    BY <1>1, <1>5, <2>1 DEF HeapInv, TypeOK
  <2>6. \A u \in used : /\ SizeAt(u)' = SizeAt(u)
                        /\ \A a \in u + 2 .. EndOf(u) - 1 : mem'[a] = mem[a]
    BY <2>1, <2>2
  <2>7. Freeing'
    BY <1>1 DEF Freeing
  <2> QED
    BY <1>1, <2>2, <2>4, <2>5, <2>6, <2>7, MergedInv DEF HeapInv, PayloadsKept
<1> QED
  BY <1>6, <1>7

-----------------------------------------------------------------------------
(* realloc's copy, and the program's turn.                                  *)

LEMMA ReallocCopyInv == ASSUME HeapInv, ReallocCopy PROVE HeapInv'
<1> SUFFICES ASSUME NEW p, p = call.p, NEW h, h = hl, NEW b, b = h - 2,
                    NEW old, old = blk[p].at, NEW o, o = old - 2, NEW n, n = SizeAt(o)
             PROVE  HeapInv'
  OBVIOUS
<1>1. /\ pc = "copy" /\ pc' = "find" /\ call' = call /\ heap_ptr' = heap_ptr
      /\ free' = free /\ used' = used
      /\ ix' = o /\ bc' = FreeHead /\ hl' = Peek(mem, FreeHead)
      /\ mem' = [a \in Ram |-> IF a \in h .. h + n - 1 THEN mem[old + (a - h)] ELSE mem[a]]
      /\ blk' = [blk EXCEPT ![p] = [at |-> h, len |-> call.n, set |-> blk[p].set]]
  BY DEF ReallocCopy, EnterFree
<1>2. /\ p \in Slots /\ Owns(p) /\ call.op = "realloc" /\ h # 0 /\ h \in Nat /\ h \in Word
      /\ call.n \in Word /\ call.n \in Nat /\ call.n <= SizeAt(b) /\ n < call.n
  BY <1>1, WordNat DEF HeapInv, Copying, TypeOK
<1>3. /\ o \in used /\ o \in Blocks /\ old \in Nat /\ o \in Nat /\ old = o + 2
      /\ blk[p].len \in Nat /\ blk[p].set \in Nat /\ blk[p].set <= blk[p].len /\ blk[p].len <= n
      /\ n \in Nat /\ EndOf(o) = o + 2 + n /\ o + 3 < Top
  BY <1>2, OwnedBlock, BlockBytes
<1>4. used = Owned \cup {b} /\ b \notin Owned
  BY <1>1 DEF HeapInv, NoLeak, InTransit
<1>5. /\ b \in used /\ b \in Blocks /\ b \in Nat /\ h = b + 2 /\ SizeAt(b) \in Nat
      /\ EndOf(b) = b + 2 + SizeAt(b) /\ o \in Owned /\ o # b
  <2>1. b \in used /\ b \in Blocks
    BY <1>4, FreeSet
  <2>2. o \in Owned
    BY <1>2 DEF Owned
  <2> QED
    BY <1>2, <1>4, <2>1, <2>2, BlockBytes
<1>6. n <= SizeAt(b)
  BY <1>2, <1>3, <1>5
<1>7. mem' \in [Ram -> Byte]
  <2>1. ASSUME NEW a \in Ram, a \in h .. h + n - 1
        PROVE  old + (a - h) \in Ram
    <3>1. a \in Nat /\ h <= a /\ a < h + n
      BY <1>2, <1>3, <2>1, RamInt
    <3>2. old + (a - h) \in o .. EndOf(o) - 1
      BY <1>2, <1>3, <3>1
    <3> QED
      BY <1>3, <3>2, BlockBytes
  <2> QED
    BY <1>1, <2>1 DEF HeapInv, TypeOK
<1>8. \A a \in Ram : a \notin b + 2 .. EndOf(b) - 1 => mem'[a] = mem[a]
  <2>1. \A a \in h .. h + n - 1 : a \in b + 2 .. EndOf(b) - 1
    BY <1>2, <1>3, <1>5, <1>6
  <2> QED
    BY <1>1, <2>1
<1>9. /\ Tiling' /\ Sorted' /\ Blocks' = Blocks
      /\ \A c \in Blocks : SizeAt(c)' = SizeAt(c) /\ EndOf(c)' = EndOf(c)
      /\ \A c \in Blocks : c # b => \A a \in c .. EndOf(c) - 1 : mem'[a] = mem[a]
      /\ Peek(mem, FreeHead)' = Peek(mem, FreeHead)
  BY <1>1, <1>5, <1>7, <1>8, PayloadStore
<1>10. /\ blk'[p] = [at |-> h, len |-> call.n, set |-> blk[p].set]
       /\ \A q \in Slots : q # p => blk'[q] = blk[q]
       /\ blk' \in [Slots -> [at : Word, len : Word, set : Word]]
       /\ \A q \in Slots : Owns(q)' = Owns(q)
  <2>1. blk \in [Slots -> [at : Word, len : Word, set : Word]]
    BY DEF HeapInv, TypeOK
  <2> QED
    BY <1>1, <1>2, <2>1 DEF Owns
<1>11. TypeOK'
  <2>1. FreeHead \in Word /\ Peek(mem, FreeHead) \in Word
    BY RamInt, MaxNat, PeekWord, WordNat DEF HeapInv, TypeOK
  <2>2. o \in Word
    <3>1. Top \in Nat /\ Top <= MaxWord
      BY BlockBytes
    <3> QED
      BY <1>3, <3>1, WordNat, MaxNat
  <2> QED
    BY <1>1, <1>7, <1>10, <2>1, <2>2 DEF HeapInv, TypeOK
<1>12. NoLeak'
  <2>1. InTransit' = {o}
    BY <1>1 DEF InTransit
  <2>2. \A x : x \in Owned' <=> \E q \in Slots : Owns(q)' /\ x = blk'[q].at - 2
    BY DEF Owned
  <2>3. \A x : x \in Owned <=> \E q \in Slots : Owns(q) /\ x = blk[q].at - 2
    BY DEF Owned
  <2>4. blk'[p].at - 2 = b
    BY <1>10
  <2>5. ASSUME NEW q \in Slots, Owns(q), q # p
        PROVE  blk[q].at - 2 # o /\ blk[q].at # h
    <3>1. blk[q].at # blk[p].at /\ blk[q].at \in Nat
      BY <1>2, <2>5, OwnedBlock DEF HeapInv, NoLeak
    <3>2. blk[q].at - 2 \in Owned
      BY <2>3, <2>5
    <3> QED
      BY <1>3, <1>4, <3>1, <3>2
  <2>6. Owned' = (Owned \ {o}) \cup {b}
    <3>1. ASSUME NEW x \in Owned' PROVE x \in (Owned \ {o}) \cup {b}
      <4>1. PICK q \in Slots : Owns(q) /\ x = blk'[q].at - 2
        BY <1>10, <2>2
      <4>2. CASE q = p
        BY <2>4, <4>1, <4>2
      <4>3. CASE q # p
        BY <1>10, <2>3, <2>5, <4>1, <4>3
      <4> QED
        BY <4>2, <4>3
    <3>2. ASSUME NEW x \in Owned \ {o} PROVE x \in Owned'
      <4>1. PICK q \in Slots : Owns(q) /\ x = blk[q].at - 2
        BY <2>3
      <4>2. q # p
        BY <4>1
      <4> QED
        BY <1>10, <2>2, <4>1, <4>2
    <3>3. b \in Owned'
      BY <1>2, <1>10, <2>2, <2>4
    <3> QED
      BY <3>1, <3>2, <3>3
  <2>7. used' = Owned' \cup InTransit' /\ Owned' \cap InTransit' = {}
    BY <1>1, <1>4, <1>5, <2>1, <2>6
  <2>8. ASSUME NEW q \in Slots, NEW r \in Slots, Owns(q)', q # r
        PROVE  blk'[q].at # blk'[r].at
    <3>1. CASE q = p
      <4>1. CASE Owns(r)
        BY <1>10, <2>5, <2>8, <3>1, <4>1
      <4>2. CASE ~Owns(r)
        BY <1>2, <1>10, <2>8, <3>1, <4>2 DEF Owns
      <4> QED
        BY <4>1, <4>2
    <3>2. CASE r = p
      BY <1>10, <2>5, <2>8, <3>2
    <3>3. CASE q # p /\ r # p
      BY <1>10, <2>8, <3>3 DEF HeapInv, NoLeak
    <3> QED
      BY <3>1, <3>2, <3>3
  <2> QED
    BY <2>7, <2>8 DEF NoLeak
<1>13. Fits'
  <2>1. ASSUME NEW q \in Slots, q # p
        PROVE  /\ Owns(q)' => /\ blk'[q].at \in Nat /\ blk'[q].len <= SizeAt(blk[q].at - 2)'
                             /\ blk'[q].set <= blk'[q].len
               /\ ~Owns(q)' => blk'[q] = NoBlock
    <3>1. Owns(q) => SizeAt(blk[q].at - 2)' = SizeAt(blk'[q].at - 2)
      BY <1>9, <1>10, <2>1, OwnedBlock
    <3> QED
      BY <1>9, <1>10, <2>1, <3>1, OwnedBlock DEF HeapInv, Fits
  <2>2. blk'[p].at - 2 = b
    BY <1>10
  <2>3. SizeAt(blk[p].at - 2)' = SizeAt(b)
    <3>1. SizeAt(blk[p].at - 2)' = SizeAt(b)'
      BY <2>2 DEF SizeAt, Peek
    <3> QED
      BY <1>5, <1>9, <3>1
  <2>4. /\ blk'[p].at \in Nat /\ blk'[p].len <= SizeAt(blk[p].at - 2)'
        /\ blk'[p].set <= blk'[p].len /\ Owns(p)'
    <3>1. blk'[p].at = h /\ blk'[p].len = call.n /\ blk'[p].set = blk[p].set
      BY <1>10
    <3>2. blk[p].set <= call.n
      BY <1>2, <1>3
    <3> QED
      BY <1>2, <1>10, <2>3, <3>1, <3>2
  <2> QED
    BY <2>1, <2>4 DEF Fits
<1>14. Intact'
  <2> SUFFICES ASSUME NEW q \in Slots, NEW j \in 0 .. blk'[q].set - 1
               PROVE  mem'[blk'[q].at + j] = Tag[q]
    BY DEF Intact
  <2>1. CASE q = p
    <3>1. blk'[q].at = h /\ j \in 0 .. blk[p].set - 1 /\ j \in Nat /\ j < n
      BY <1>3, <1>10, <2>1
    <3>2. h + j \in h .. h + n - 1 /\ h + j \in b + 2 .. EndOf(b) - 1 /\ old + ((h + j) - h) = old + j
      BY <1>2, <1>3, <1>5, <1>6, <3>1
    <3>3. h + j \in Ram
      BY <1>5, <3>2, BlockBytes
    <3>4. mem'[h + j] = mem[old + j]
      BY <1>1, <3>2, <3>3
    <3> QED
      BY <1>2, <2>1, <3>1, <3>4 DEF HeapInv, Intact
  <2>2. CASE q # p
    <3>1. Owns(q) /\ blk'[q] = blk[q]
      BY <1>10, <2>2 DEF HeapInv, Fits, NoBlock
    <3>2. PICK c \in Blocks : c = blk[q].at - 2 /\ c # b /\ c \in used
      BY <1>4, <3>1, OwnedBlock DEF Owned
    <3>3. c \in Nat /\ EndOf(c) \in Nat /\ blk[q].at + j \in c .. EndOf(c) - 1
      BY <3>1, <3>2, OwnedBlock, BlockBytes
    <3>4. mem'[blk[q].at + j] = mem[blk[q].at + j]
      BY <1>9, <3>2, <3>3
    <3> QED
      BY <3>1, <3>4 DEF HeapInv, Intact
  <2> QED
    BY <2>1, <2>2
<1>15. Coalesced'
  BY <1>1, <1>9, FreeSet DEF HeapInv, Coalesced
<1>16. Freeing'
  BY <1>1, <1>2, <1>9 DEF Freeing, AtLink, Peek
<1> QED
  BY <1>1, <1>9, <1>11, <1>12, <1>13, <1>14, <1>15, <1>16
     DEF HeapInv, Allocating, Clearing, Copying, CallocZeroed

LEMMA ReturnInv == ASSUME HeapInv, Return PROVE HeapInv'
<1> SUFFICES ASSUME NEW p, p = call.p, NEW h, h = blk[p].at, NEW n, n = blk[p].len
             PROVE  HeapInv'
  OBVIOUS
<1>1. /\ pc = "ret" /\ pc' = "idle" /\ call' = NoCall /\ heap_ptr' = heap_ptr
      /\ free' = free /\ used' = used /\ hl' = 0 /\ bc' = 0 /\ ix' = 0
      /\ mem' = [a \in Ram |-> IF a \in h .. h + n - 1 THEN Tag[p] ELSE mem[a]]
      /\ blk' = [blk EXCEPT ![p] = [at |-> h, len |-> n, set |-> n]]
  BY DEF Return
<1>2. /\ p \in Slots /\ n \in Word /\ n \in Nat /\ h \in Nat /\ h \in Word
      /\ ~Owns(p) => n = 0
  BY WordNat DEF HeapInv, TypeOK, Fits, NoBlock
<1>3. /\ blk'[p].at = h /\ blk'[p].len = n /\ blk'[p].set = n
      /\ \A q \in Slots : q # p => blk'[q] = blk[q]
      /\ blk' \in [Slots -> [at : Word, len : Word, set : Word]]
      /\ \A q \in Slots : blk'[q].at = blk[q].at /\ Owns(q)' = Owns(q)
      /\ ~Owns(p) => blk'[p] = NoBlock
  <2>1. blk \in [Slots -> [at : Word, len : Word, set : Word]]
    BY DEF HeapInv, TypeOK
  <2>2. ~Owns(p) => blk[p] = NoBlock /\ n = 0
    BY <1>2 DEF HeapInv, Fits
  <2> QED
    BY <1>1, <1>2, <2>1, <2>2 DEF Owns, NoBlock
<1>4. mem' \in [Ram -> Byte]
  <2>1. Tag[p] \in Byte
    BY <1>2, HeapAssumption
  <2> QED
    BY <1>1, <2>1 DEF HeapInv, TypeOK
<1>5. ASSUME Owns(p)
      PROVE  /\ h - 2 \in used /\ h - 2 \in Nat /\ n <= SizeAt(h - 2)
             /\ \A a \in h .. h + n - 1 : a \in (h - 2) + 2 .. EndOf(h - 2) - 1 /\ a \in Ram
  <2>1. h - 2 \in used /\ h - 2 \in Blocks /\ h - 2 \in Nat /\ n <= SizeAt(h - 2) /\ SizeAt(h - 2) \in Nat
        /\ EndOf(h - 2) = (h - 2) + 2 + SizeAt(h - 2)
    <3>1. h - 2 \in used /\ h - 2 \in Blocks /\ h - 2 \in Nat /\ n <= SizeAt(h - 2)
      BY <1>2, <1>5, OwnedBlock
    <3> QED
      BY <3>1, BlockBytes
  <2>2. \A a \in h .. h + n - 1 : a \in (h - 2) + 2 .. EndOf(h - 2) - 1
    BY <1>2, <2>1
  <2>3. \A a \in h .. h + n - 1 : a \in (h - 2) .. EndOf(h - 2) - 1
    BY <1>2, <2>1
  <2> QED
    BY <2>1, <2>2, <2>3, BlockBytes
<1>6. /\ Tiling' /\ Sorted'
      /\ \A c \in Blocks : SizeAt(c)' = SizeAt(c) /\ EndOf(c)' = EndOf(c)
      /\ \A c \in Blocks : (Owns(p) => c # h - 2) => \A a \in c .. EndOf(c) - 1 : mem'[a] = mem[a]
  <2>1. CASE Owns(p)
    <3>1. \A a \in Ram : a \notin (h - 2) + 2 .. EndOf(h - 2) - 1 => mem'[a] = mem[a]
      BY <1>1, <1>5, <2>1
    <3> QED
      BY <1>1, <1>4, <1>5, <2>1, <3>1, PayloadStore
  <2>2. CASE ~Owns(p)
    <3>1. h .. h + n - 1 = {}
      BY <1>2, <2>2
    <3>2. mem' = mem
      BY <1>1, <3>1 DEF HeapInv, TypeOK
    <3>3. Tiling' /\ Sorted'
      BY <1>1, <3>2, Quiet DEF Top
    <3> QED
      BY <3>2, <3>3 DEF SizeAt, EndOf, Peek
  <2> QED
    BY <2>1, <2>2
<1>7. TypeOK'
  <2>1. 0 \in Word
    BY WordNat, MaxNat
  <2>2. NoCall.p \in Slots
    BY HeapAssumption DEF NoCall
  <2> QED
    BY <1>1, <1>3, <1>4, <2>1, <2>2 DEF HeapInv, TypeOK, NoCall
<1>8. NoLeak'
  <2>1. Owned' = Owned
    BY <1>3 DEF Owned
  <2>2. InTransit = {} /\ InTransit' = {}
    BY <1>1 DEF InTransit
  <2> QED
    BY <1>1, <1>3, <2>1, <2>2 DEF HeapInv, NoLeak
<1>9. Fits'
  <2>1. ASSUME NEW q \in Slots
        PROVE  /\ Owns(q)' => /\ blk'[q].at \in Nat /\ blk'[q].len <= SizeAt(blk[q].at - 2)'
                             /\ blk'[q].set <= blk'[q].len
               /\ ~Owns(q)' => blk'[q] = NoBlock
    <3>1. Owns(q) => SizeAt(blk[q].at - 2)' = SizeAt(blk[q].at - 2)
      <4>1. SizeAt(blk[q].at - 2)' = Peek(mem', blk[q].at - 2)
        BY <1>3 DEF SizeAt
      <4> QED
        BY <1>6, <4>1, OwnedBlock DEF SizeAt
    <3>2. CASE q = p
      BY <1>2, <1>3, <1>5, <3>1, <3>2
    <3>3. CASE q # p
      BY <1>3, <3>1, <3>3 DEF HeapInv, Fits
    <3> QED
      BY <3>2, <3>3
  <2> QED
    BY <2>1 DEF Fits
<1>10. Intact'
  <2> SUFFICES ASSUME NEW q \in Slots, NEW j \in 0 .. blk'[q].set - 1
               PROVE  mem'[blk'[q].at + j] = Tag[q]
    BY DEF Intact
  <2>1. CASE q = p
    <3>1. j \in Nat /\ j < n /\ Owns(p) /\ blk'[q].at = h
      BY <1>2, <1>3, <2>1
    <3>2. h + j \in h .. h + n - 1
      BY <1>2, <3>1
    <3> QED
      BY <1>1, <1>5, <2>1, <3>1, <3>2
  <2>2. CASE q # p
    <3>1. Owns(q) /\ blk'[q] = blk[q]
      BY <1>3, <2>2 DEF HeapInv, Fits, NoBlock
    <3>2. PICK c \in Blocks : c = blk[q].at - 2 /\ (Owns(p) => c # h - 2) /\ c \in used
      <4>1. Owns(p) => blk[q].at # h
        BY <1>2, <2>2, <3>1 DEF HeapInv, NoLeak
      <4> QED
        BY <1>2, <3>1, <4>1, OwnedBlock
    <3>3. c \in Nat /\ EndOf(c) \in Nat /\ blk[q].at + j \in c .. EndOf(c) - 1
      BY <3>1, <3>2, OwnedBlock, BlockBytes
    <3>4. mem'[blk[q].at + j] = mem[blk[q].at + j]
      BY <1>6, <3>2, <3>3
    <3> QED
      BY <3>1, <3>4 DEF HeapInv, Intact
  <2> QED
    BY <2>1, <2>2
<1>11. Coalesced'
  BY <1>1, <1>6, FreeSet DEF HeapInv, Coalesced
<1> QED
  BY <1>1, <1>6, <1>7, <1>8, <1>9, <1>10, <1>11
     DEF HeapInv, Allocating, Clearing, Copying, Freeing, CallocZeroed

-----------------------------------------------------------------------------
(* The theorems.                                                            *)

LEMMA InitInv == Init => HeapInv
<1> SUFFICES ASSUME Init PROVE HeapInv
  OBVIOUS
<1> USE DEF Init
<1>1. mem \in [Ram -> Byte] /\ mem[FreeHead] = 0 /\ mem[FreeHead + 1] = 0
  <2>1. PICK g \in Fills :
           mem = [a \in Ram |-> IF a \in {FreeHead, FreeHead + 1} THEN 0 ELSE g]
    OBVIOUS
  <2>2. g \in Byte /\ 0 \in Byte
    BY HeapAssumption DEF Byte
  <2> QED
    BY <2>1, <2>2, RamInt
<1>2. Peek(mem, FreeHead) = 0
  BY <1>1 DEF Peek
<1>3. TypeOK
  <2>1. 0 \in Word
    BY WordNat, MaxNat
  <2>2. NoCall.p \in Slots
    BY HeapAssumption DEF NoCall
  <2> QED
    BY <1>1, <2>1, <2>2 DEF TypeOK, NoCall, NoBlock
<1>4. Tiling
  BY RamInt DEF Tiling, Blocks, Top
<1>5. Sorted
  BY <1>2 DEF Sorted, FirstAbove
<1>6. NoLeak /\ Fits /\ Intact
  <2>1. \A p \in Slots : ~Owns(p) /\ blk[p] = NoBlock
    BY DEF Owns, NoBlock
  <2>2. Owned = {} /\ InTransit = {}
    BY <2>1 DEF Owned, InTransit
  <2> QED
    BY <2>1, <2>2 DEF NoLeak, Fits, Intact, NoBlock
<1> QED
  BY <1>3, <1>4, <1>5, <1>6
     DEF HeapInv, Coalesced, Allocating, Clearing, Copying, Freeing, CallocZeroed

LEMMA StutterInv == ASSUME HeapInv, UNCHANGED vars PROVE HeapInv'
<1>1. /\ mem' = mem /\ heap_ptr' = heap_ptr /\ pc' = pc /\ call' = call /\ hl' = hl
      /\ bc' = bc /\ ix' = ix /\ free' = free /\ used' = used /\ blk' = blk
  BY DEF vars, regs, ghosts
<1>2. Tiling' /\ Sorted'
  BY <1>1, Quiet DEF Top
<1>3. /\ \A b : SizeAt(b)' = SizeAt(b) /\ LinkAt(b)' = LinkAt(b) /\ EndOf(b)' = EndOf(b)
      /\ \A p \in Slots : Owns(p)' = Owns(p)
      /\ \A a, w : AtLink(a, w)' = AtLink(a, w)
      /\ Owned' = Owned /\ InTransit' = InTransit
  BY <1>1 DEF SizeAt, LinkAt, EndOf, Peek, Owns, AtLink, Owned, InTransit
<1>4. TypeOK' /\ Intact' /\ CallocZeroed'
  BY <1>1 DEF HeapInv, TypeOK, Intact, CallocZeroed
<1>5. NoLeak' /\ Coalesced'
  BY <1>1, <1>3 DEF HeapInv, NoLeak, Coalesced
<1>6. Fits'
  <2>1. \A p \in Slots : SizeAt(blk[p].at - 2)' = SizeAt(blk[p].at - 2)
    BY <1>1 DEF SizeAt, Peek
  <2> QED
    BY <1>1, <1>3, <2>1 DEF HeapInv, Fits
<1>7. Clearing'
  BY <1>1 DEF HeapInv, Clearing, Owns
<1>8. Allocating'
  BY <1>1 DEF HeapInv, Allocating, Owns, SizeAt, Peek, AtLink
<1>9. Copying'
  BY <1>1 DEF HeapInv, Copying, Owns, SizeAt, Peek
<1>10. Freeing'
  BY <1>1 DEF HeapInv, Freeing, AtLink, LinkAt, Peek
<1> QED
  BY <1>2, <1>4, <1>5, <1>6, <1>7, <1>8, <1>9, <1>10 DEF HeapInv

\* Every step of the library and of the program keeps the inductive invariant.
LEMMA NextInv == ASSUME HeapInv, [Next]_vars PROVE HeapInv'
<1>1. ASSUME Call PROVE HeapInv'
  <2>1. PICK p \in Slots :
          \/ \E n \in Sizes, sp \in SPs :
               \/ CallMalloc(p, n, sp) \/ CallReallocNull(p, n, sp) \/ CallReallocGrow(p, n, sp)
               \/ \E nmemb \in Counts : CallCalloc(p, nmemb, n, sp)
          \/ \E n \in Sizes :
               \/ CallReallocSame(p, n)
               \/ \E nmemb \in Counts : CallCallocOverflow(p, nmemb, n)
          \/ CallFree(p) \/ CallReallocZero(p)
    BY <1>1 DEF Call
  <2>2. ASSUME NEW n \in Sizes, NEW sp \in SPs,
               CallMalloc(p, n, sp) \/ CallReallocNull(p, n, sp)
        PROVE  HeapInv'
    BY <2>2, CallMallocInv DEF CallReallocNull
  <2>3. ASSUME NEW n \in Sizes, NEW sp \in SPs, CallReallocGrow(p, n, sp) PROVE HeapInv'
    BY <2>3, CallReallocGrowInv
  <2>4. ASSUME NEW n \in Sizes, NEW sp \in SPs, NEW k \in Counts, CallCalloc(p, k, n, sp)
        PROVE  HeapInv'
    BY <2>4, CallCallocInv
  <2>5. ASSUME NEW n \in Sizes, CallReallocSame(p, n) PROVE HeapInv'
    BY <2>5, CallReallocSameInv
  <2>6. ASSUME NEW n \in Sizes, NEW k \in Counts, CallCallocOverflow(p, k, n) PROVE HeapInv'
    BY <2>6, CallCallocOverflowInv
  <2>7. ASSUME CallFree(p) \/ CallReallocZero(p) PROVE HeapInv'
    BY <2>7, CallFreeInv DEF CallReallocZero
  <2> QED
    BY <2>1, <2>2, <2>3, <2>4, <2>5, <2>6, <2>7
<1>2. ASSUME Serve PROVE HeapInv'
  BY <1>2, MallocNextInv, MallocSplitInv, MallocWholeInv, MallocGrowInv, MallocFailInv,
     CallocZeroInv, FreeNextInv, FreeInsertInv, FreeMergeNextInv, FreeMergePrevInv,
     ReallocCopyInv, ReturnInv DEF Serve
<1> QED
  BY <1>1, <1>2, StutterInv DEF Next

\* The inductive invariant holds in every state, for any number of pointers,
\* any sizes and counts, any stack pointers, and any place of the heap.
THEOREM HeapInvariant == Spec => []HeapInv
  BY InitInv, NextInv, PTL DEF Spec

\* Every variable keeps its type: no word of the heap leaves 16 bits and no
\* store leaves the bytes that belong to the heap.
THEOREM TypeCorrect == Spec => []TypeOK
<1>1. HeapInv => TypeOK
  BY DEF HeapInv
<1> QED
  BY <1>1, HeapInvariant, PTL

\* The block headers always tile the heap from __END__ to its top.
THEOREM AlwaysTiled == Spec => []Tiling
<1>1. HeapInv => Tiling
  BY DEF HeapInv
<1> QED
  BY <1>1, HeapInvariant, PTL

\* The free list always threads exactly the free blocks in address order, and
\* two of them touch only inside free.
THEOREM FreeListCorrect == Spec => [](Sorted /\ Coalesced)
<1>1. HeapInv => Sorted /\ Coalesced
  BY DEF HeapInv
<1> QED
  BY <1>1, HeapInvariant, PTL

\* No block is lost and none has two owners, in every interleaving of calls.
THEOREM NothingLeaks == Spec => []NoLeak
<1>1. HeapInv => NoLeak
  BY DEF HeapInv
<1> QED
  BY <1>1, HeapInvariant, PTL

\* What the program stored through a pointer stays until it frees the block,
\* realloc's copy included.
THEOREM ContentsKept == Spec => []Intact
<1>1. HeapInv => Intact
  BY DEF HeapInv
<1> QED
  BY <1>1, HeapInvariant, PTL

\* calloc returns zeroed bytes, whatever was freed there before.
THEOREM CallocClears == Spec => []CallocZeroed
<1>1. HeapInv => CallocZeroed
  BY DEF HeapInv
<1> QED
  BY <1>1, HeapInvariant, PTL

\* malloc never skips a free block that is big enough: it takes the lowest one,
\* and grows the heap or returns NULL only when there is none.
THEOREM TakesFirstFit == Spec => FirstFit
<1>1. ASSUME HeapInv, [Next]_vars
      PROVE  [pc = "scan" /\ pc' # "scan" =>
                \A f \in free : SizeAt(f) >= call.size => hl # 0 /\ hl <= f]_vars
  <2> SUFFICES ASSUME pc = "scan", NEW f \in free, SizeAt(f) >= call.size, hl = 0 \/ ~(hl <= f)
               PROVE  FALSE
    OBVIOUS
  <2>1. f \in Nat /\ f \in Blocks /\ hl \in Nat /\ call.size \in Nat /\ SizeAt(f) \in Nat
    <3>1. f \in Blocks
      BY <1>1, FreeSet
    <3>2. hl \in Word /\ call.size \in Word
      BY <1>1 DEF HeapInv, TypeOK
    <3> QED
      BY <1>1, <3>1, <3>2, BlockBytes, WordNat
  <2>2. hl = 0 \/ f < hl
    BY <2>1
  <2>3. SizeAt(f) < call.size
    BY <1>1, <2>2 DEF HeapInv, Allocating
  <2> QED
    BY <2>1, <2>3
<1> QED
  BY <1>1, HeapInvariant, PTL DEF FirstFit, Spec
-----------------------------------------------------------------------------
(* The pointers behave as private memory: Heap implements Allocator.       *)

\* The bytes the program has through p stay.
Kept(p) == \A i \in 0 .. blk[p].len - 1 : mem'[blk[p].at + i] = mem[blk[p].at + i]

\* The interval of a pointer lies in the payload of its block.
LEMMA OwnedBytes ==
  ASSUME HeapInv, NEW p \in Slots, Owns(p), NEW a \in Abstract!Bytes(Interval(p))
  PROVE  a \in Nat /\ a \in (blk[p].at - 2) + 2 .. EndOf(blk[p].at - 2) - 1
<1> DEFINE b == blk[p].at - 2
           n == blk[p].len
           k == SizeAt(b)
<1>1. b \in Blocks /\ b \in Nat /\ n \in Nat /\ n <= k /\ blk[p].at = b + 2
  BY OwnedBlock
<1>2. k \in Nat /\ EndOf(b) = b + 2 + k
  BY <1>1, BlockBytes
<1>3. a \in b + 2 .. b + 2 + n - 1
  BY <1>1 DEF Abstract!Bytes, Interval
<1> HIDE DEF b, n, k
<1>4. a \in Nat /\ a \in b + 2 .. EndOf(b) - 1
  BY <1>1, <1>2, <1>3
<1> QED BY <1>4 DEF b

\* Every pointer of the program has an interval of the arena to itself.
Apportioned ==
  \A p \in Slots :
    /\ ~Owns(p) => Interval(p) = Abstract!Nothing
    /\ Owns(p) => /\ blk[p].at \in Arena /\ blk[p].len \in Nat
                  /\ Abstract!Bytes(Interval(p)) \subseteq Arena
    /\ \A q \in Slots \ {p} :
         Abstract!Bytes(Interval(q)) \cap Abstract!Bytes(Interval(p)) = {}

LEMMA IntervalsPrivate == HeapInv => Apportioned
<1> SUFFICES ASSUME HeapInv PROVE Apportioned
  OBVIOUS
<1>1. ASSUME NEW p \in Slots, ~Owns(p)
      PROVE  Interval(p) = Abstract!Nothing /\ Abstract!Bytes(Interval(p)) = {}
  BY <1>1 DEF HeapInv, Fits, Interval, NoBlock, Abstract!Nothing, Abstract!Bytes
<1>2. ASSUME NEW p \in Slots, Owns(p)
      PROVE  /\ blk[p].at \in Arena /\ blk[p].len \in Nat
             /\ Abstract!Bytes(Interval(p)) \subseteq Arena
  <2> DEFINE b == blk[p].at - 2
  <2>1. b \in Blocks /\ b \in Nat /\ blk[p].at = b + 2 /\ blk[p].len \in Nat
    BY <1>2, OwnedBlock
  <2>2. /\ b > FreeHead + 1 /\ b + 2 \in Ram /\ EndOf(b) \in Nat
        /\ \A a \in b .. EndOf(b) - 1 : a \in Ram
    BY <2>1, BlockBytes
  <2>3. b + 2 \in Arena
    BY <2>1, <2>2, RamInt DEF Arena
  <2>4. ASSUME NEW a \in Abstract!Bytes(Interval(p)) PROVE a \in Arena
    <3>1. a \in Nat /\ a \in b + 2 .. EndOf(b) - 1
      BY <1>2, OwnedBytes
    <3> HIDE DEF b
    <3> QED BY <2>1, <2>2, <3>1, RamInt DEF Arena
  <2> QED BY <2>1, <2>3, <2>4
<1>3. ASSUME NEW p \in Slots, NEW q \in Slots \ {p},
             NEW a \in Abstract!Bytes(Interval(q)) \cap Abstract!Bytes(Interval(p))
      PROVE  FALSE
  <2>1. Owns(p) /\ Owns(q)
    BY <1>1, <1>3
  <2> SUFFICES ASSUME NEW b, b = blk[p].at - 2, NEW c, c = blk[q].at - 2
               PROVE  FALSE
    OBVIOUS
  <2>2. b \in Blocks /\ c \in Blocks /\ b \in Nat /\ c \in Nat
    BY <2>1, OwnedBlock
  <2>3. b # c
    BY <2>1, OwnedBlock DEF HeapInv, NoLeak
  <2>4. a \in Nat /\ a \in b + 2 .. EndOf(b) - 1 /\ a \in c + 2 .. EndOf(c) - 1
    BY <2>1, OwnedBytes
  <2>5. EndOf(b) <= c \/ EndOf(c) <= b
    BY <2>2, <2>3, Apart
  <2>6. EndOf(b) \in Nat /\ EndOf(c) \in Nat
    BY <2>2, BlockBytes
  <2> QED BY <2>2, <2>4, <2>5, <2>6
<1> QED BY <1>1, <1>2, <1>3 DEF Apportioned

\* The payloads that stay keep the bytes of the pointers that stay.
LEMMA KeptOf ==
  ASSUME HeapInv, PayloadsKept, NEW p \in Slots, Owns(p) => blk[p].at - 2 \in used'
  PROVE  Kept(p)
<1> SUFFICES ASSUME NEW i \in 0 .. blk[p].len - 1
             PROVE  mem'[blk[p].at + i] = mem[blk[p].at + i]
  BY DEF Kept
<1>1. Owns(p)
  BY DEF HeapInv, Fits, NoBlock
<1>2. blk[p].at \in Nat /\ blk[p].len \in Nat /\ blk[p].at - 2 \in used
  BY <1>1, OwnedBlock
<1>3. blk[p].at + i \in Abstract!Bytes(Interval(p))
  BY <1>2 DEF Abstract!Bytes, Interval
<1> QED BY <1>1, <1>2, <1>3, OwnedBytes DEF PayloadsKept

\* What the program sees of a pointer whose block and bytes stay.
LEMMA SlotStays ==
  ASSUME NEW p \in Slots, blk'[p].at = blk[p].at, blk'[p].len = blk[p].len, Kept(p)
  PROVE  Intervals'[p] = Intervals[p] /\ Stored'[p] = Stored[p]
<1>1. Interval(p)' = Interval(p)
  BY DEF Interval
<1>2. Contents(p)' = Contents(p)
  BY DEF Contents, Kept
<1> QED BY <1>1, <1>2 DEF Intervals, Stored

LEMMA SlotFacts ==
  ASSUME NEW p \in Slots
  PROVE  /\ Intervals[p].at = blk[p].at /\ Intervals[p].len = blk[p].len
         /\ Intervals'[p].at = blk'[p].at /\ Intervals'[p].len = blk'[p].len
         /\ DOMAIN Stored[p] = 0 .. blk[p].len - 1
         /\ DOMAIN Stored'[p] = 0 .. blk'[p].len - 1
         /\ \A i \in 0 .. blk[p].len - 1 : Stored[p][i] = mem[blk[p].at + i]
         /\ \A i \in 0 .. blk'[p].len - 1 : Stored'[p][i] = mem'[blk'[p].at + i]
         /\ Abstract!Holds(p) <=> Owns(p)
  BY DEF Intervals, Stored, Interval, Contents, Abstract!Holds, Owns

\* No pointer sees anything of the step.
LEMMA Unseen ==
  ASSUME \A p \in Slots : blk'[p].at = blk[p].at /\ blk'[p].len = blk[p].len /\ Kept(p)
  PROVE  UNCHANGED Abstract!vars
<1>1. \A p \in Slots : Intervals'[p] = Intervals[p] /\ Stored'[p] = Stored[p]
  BY SlotStays
<1>2. Intervals' = Intervals /\ Stored' = Stored
  BY <1>1 DEF Intervals, Stored
<1> QED BY <1>2 DEF Abstract!vars

LEMMA UnseenQuiet ==
  ASSUME UNCHANGED <<mem, blk>>
  PROVE  UNCHANGED Abstract!vars
  BY Unseen DEF Kept

\* The new interval of p is private when the other pointers keep theirs.
LEMMA PrivateNext ==
  ASSUME Apportioned', NEW p \in Slots, Owns(p)',
         \A q \in Slots \ {p} : blk'[q] = blk[q] /\ Kept(q)
  PROVE  /\ Abstract!Private(p, Intervals'[p])
         /\ DOMAIN Stored'[p] = 0 .. Intervals'[p].len - 1
         /\ Abstract!OthersKeep(p)
<1>1. \A q \in Slots \ {p} : Intervals'[q] = Intervals[q] /\ Stored'[q] = Stored[q]
  BY SlotStays
<1>2. \A q \in Slots : Intervals'[q] = Interval(q)'
  BY DEF Intervals
<1>3. /\ blk'[p].at \in Arena /\ blk'[p].len \in Nat
      /\ Abstract!Bytes(Interval(p)') \subseteq Arena
      /\ \A q \in Slots \ {p} : Abstract!Bytes(Interval(q)') \cap Abstract!Bytes(Interval(p)') = {}
  BY DEF Apportioned, Abstract!Bytes
<1>4. Intervals'[p].at = blk'[p].at /\ Intervals'[p].len = blk'[p].len
  BY SlotFacts
<1>5. Abstract!Private(p, Intervals'[p])
  BY <1>1, <1>2, <1>3, <1>4 DEF Abstract!Private
<1>6. DOMAIN Stored'[p] = 0 .. Intervals'[p].len - 1
  BY SlotFacts
<1> QED BY <1>1, <1>5, <1>6 DEF Abstract!OthersKeep

\* malloc or calloc hands out a block; for realloc, the copy comes later.
LEMMA AllocatedImplements ==
  ASSUME HeapInv, HeapInv', PayloadsKept, pc = "scan", used \subseteq used',
         NEW a, Allocated(a)
  PROVE  [Abstract!Next]_(Abstract!vars)
<1> SUFFICES ASSUME NEW p, p = call.p PROVE [Abstract!Next]_(Abstract!vars)
  OBVIOUS
<1>1. \A q \in Slots : Kept(q)
  BY KeptOf, OwnedBlock
<1>2. p \in Slots /\ (Owns(p) <=> call.op = "realloc")
  BY DEF HeapInv, TypeOK, Allocating
<1>3. CASE call.op = "realloc"
  <2>1. blk' = blk
    BY <1>3 DEF Allocated
  <2> QED BY <1>1, <2>1, Unseen
<1>4. CASE call.op # "realloc"
  <2>1. blk' = [blk EXCEPT ![p] = [at |-> a, len |-> call.n, set |-> 0]]
    BY <1>4 DEF Allocated
  <2>2. \A q \in Slots \ {p} : blk'[q] = blk[q]
    BY <2>1 DEF HeapInv, TypeOK
  <2>3. Apportioned'
    BY IntervalsPrivate, PTL
  <2>4. CASE Owns(p)'
    <3>1. /\ Abstract!Private(p, Intervals'[p]) /\ Abstract!OthersKeep(p)
          /\ DOMAIN Stored'[p] = 0 .. Intervals'[p].len - 1
      BY <1>1, <1>2, <2>2, <2>3, <2>4, PrivateNext
    <3>2. ~Abstract!Holds(p)
      BY <1>2, <1>4, SlotFacts
    <3>3. Abstract!Give(p)
      BY <3>1, <3>2 DEF Abstract!Give
    <3> QED BY <1>2, <3>3 DEF Abstract!Next
  <2>5. CASE ~Owns(p)'
    <3>1. blk'[p].at = 0 /\ blk[p].at = 0 /\ blk'[p].len = 0 /\ blk[p].len = 0
      BY <1>2, <1>4, <2>5 DEF HeapInv, Fits, NoBlock, Owns
    <3>2. \A q \in Slots : blk'[q].at = blk[q].at /\ blk'[q].len = blk[q].len
      BY <2>2, <3>1
    <3> QED BY <1>1, <3>2, Unseen
  <2> QED BY <2>4, <2>5
<1> QED BY <1>3, <1>4

\* free's work on the list, and the program's view of it: none.
LEMMA ListUnseen ==
  ASSUME HeapInv, HeapInv', PayloadsKept, blk' = blk
  PROVE  UNCHANGED Abstract!vars
<1>1. ASSUME NEW p \in Slots, Owns(p) PROVE blk[p].at - 2 \in used'
  <2>1. Owned' = Owned
    BY DEF Owned, Owns
  <2>2. blk[p].at - 2 \in Owned'
    BY <1>1, <2>1 DEF Owned
  <2> QED BY <2>2 DEF HeapInv, NoLeak
<1>2. \A p \in Slots : Kept(p)
  BY <1>1, KeptOf
<1> QED BY <1>2, Unseen

\* A store to the bytes of a pointer that holds them.
LEMMA StoreImplements ==
  ASSUME HeapInv, NEW p \in Slots, Owns(p),
         \A a \in Ram : a \notin Abstract!Bytes(Interval(p)) => mem'[a] = mem[a],
         \A q \in Slots : blk'[q].at = blk[q].at /\ blk'[q].len = blk[q].len
  PROVE  Abstract!Store(p)
<1>1. ASSUME NEW q \in Slots \ {p} PROVE Kept(q)
  <2> SUFFICES ASSUME NEW i \in 0 .. blk[q].len - 1
               PROVE  mem'[blk[q].at + i] = mem[blk[q].at + i]
    BY DEF Kept
  <2>1. Owns(q)
    BY DEF HeapInv, Fits, NoBlock
  <2>2. blk[q].at \in Nat /\ blk[q].len \in Nat
    BY <2>1, OwnedBlock
  <2>3. blk[q].at + i \in Abstract!Bytes(Interval(q))
    BY <2>2 DEF Abstract!Bytes, Interval
  <2>4. Apportioned
    BY IntervalsPrivate
  <2>5. blk[q].at + i \in Ram /\ blk[q].at + i \notin Abstract!Bytes(Interval(p))
    BY <2>1, <2>3, <2>4 DEF Apportioned, Arena
  <2> QED BY <2>5
<1>2. Abstract!OthersKeep(p)
  BY <1>1, SlotStays DEF Abstract!OthersKeep
<1>3. Intervals'[p] = Intervals[p]
  <2>1. Interval(p)' = Interval(p)
    BY DEF Interval
  <2> QED BY <2>1 DEF Intervals
<1>4. DOMAIN Stored'[p] = DOMAIN Stored[p]
  BY SlotFacts
<1> QED BY <1>2, <1>3, <1>4, SlotFacts DEF Abstract!Store

LEMMA CallocZeroImplements ==
  ASSUME HeapInv, CallocZero
  PROVE  Abstract!Next
<1>1. call.p \in Slots /\ Owns(call.p) /\ blk[call.p] = [at |-> hl, len |-> call.n, set |-> 0]
  BY DEF CallocZero, HeapInv, TypeOK, Clearing
<1>2. Abstract!Bytes(Interval(call.p)) = hl .. hl + call.n - 1
  BY <1>1 DEF Abstract!Bytes, Interval
<1>3. /\ \A a \in Ram : a \notin Abstract!Bytes(Interval(call.p)) => mem'[a] = mem[a]
      /\ blk' = blk
  BY <1>2 DEF CallocZero, ghosts
<1>4. Abstract!Store(call.p)
  BY <1>1, <1>3, StoreImplements
<1> QED BY <1>1, <1>4 DEF Abstract!Next

LEMMA ReturnImplements ==
  ASSUME HeapInv, Return
  PROVE  [Abstract!Next]_(Abstract!vars)
<1>1. call.p \in Slots /\ mem \in [Ram -> Byte] /\ blk \in [Slots -> [at : Word, len : Word, set : Word]]
  BY DEF HeapInv, TypeOK
<1> DEFINE S == Abstract!Bytes(Interval(call.p))
<1>2. /\ mem' = [a \in Ram |-> IF a \in S THEN Tag[call.p] ELSE mem[a]]
      /\ blk' = [blk EXCEPT ![call.p] = [at |-> @.at, len |-> @.len, set |-> @.len]]
  BY DEF Return, Abstract!Bytes, Interval
<1>3. \A q \in Slots : blk'[q].at = blk[q].at /\ blk'[q].len = blk[q].len
  BY <1>1, <1>2
<1>4. CASE Owns(call.p)
  <2>1. \A a \in Ram : a \notin Abstract!Bytes(Interval(call.p)) => mem'[a] = mem[a]
    BY <1>2
  <2>2. Abstract!Store(call.p)
    BY <1>1, <1>3, <1>4, <2>1, StoreImplements
  <2> QED BY <1>1, <2>2 DEF Abstract!Next
<1>5. CASE ~Owns(call.p)
  <2>1. S = {}
    BY <1>1, <1>5 DEF Abstract!Bytes, Interval, HeapInv, Fits, NoBlock
  <2>2. mem' = mem
    BY <1>1, <1>2, <2>1
  <2> QED BY <1>3, <2>2, Unseen DEF Kept
<1> QED BY <1>4, <1>5

LEMMA CallFreeImplements ==
  ASSUME HeapInv, NEW p \in Slots, CallFree(p)
  PROVE  Abstract!Next
<1>1. Owns(p) /\ mem' = mem /\ blk' = [blk EXCEPT ![p] = NoBlock]
  BY DEF CallFree
<1>2. blk'[p] = NoBlock /\ \A q \in Slots \ {p} : blk'[q] = blk[q]
  BY <1>1 DEF HeapInv, TypeOK
<1>3. Abstract!OthersKeep(p)
  BY <1>1, <1>2, SlotStays DEF Abstract!OthersKeep, Kept
<1>4. Intervals'[p] = Abstract!Nothing
  BY <1>2 DEF Intervals, Interval, NoBlock, Abstract!Nothing
<1> QED BY <1>1, <1>3, <1>4, SlotFacts DEF Abstract!Take, Abstract!Next

LEMMA CallReallocSameImplements ==
  ASSUME HeapInv, HeapInv', NEW p \in Slots, NEW n \in Sizes, CallReallocSame(p, n)
  PROVE  Abstract!Next
<1>1. /\ Owns(p) /\ mem' = mem
      /\ blk' = [blk EXCEPT ![p] = [at |-> @.at, len |-> n, set |-> IF @.set < n THEN @.set ELSE n]]
  BY DEF CallReallocSame
<1>2. blk'[p].at = blk[p].at /\ \A q \in Slots \ {p} : blk'[q] = blk[q]
  BY <1>1 DEF HeapInv, TypeOK
<1>3. Owns(p)'
  BY <1>1, <1>2 DEF Owns
<1>4. Apportioned'
  BY IntervalsPrivate, PTL
<1>5. /\ Abstract!Private(p, Intervals'[p]) /\ Abstract!OthersKeep(p)
      /\ DOMAIN Stored'[p] = 0 .. Intervals'[p].len - 1
  BY <1>1, <1>2, <1>3, <1>4, PrivateNext DEF Kept
<1>6. \A i \in DOMAIN Stored[p] \cap DOMAIN Stored'[p] : Stored'[p][i] = Stored[p][i]
  <2> SUFFICES ASSUME NEW i \in DOMAIN Stored[p] \cap DOMAIN Stored'[p]
               PROVE  Stored'[p][i] = Stored[p][i]
    OBVIOUS
  <2>1. /\ Stored[p][i] = mem[blk[p].at + i]
        /\ Stored'[p][i] = mem'[blk'[p].at + i]
    BY SlotFacts
  <2>2. mem' = mem
    BY <1>1
  <2> QED BY <1>2, <2>1, <2>2
<1> QED BY <1>1, <1>5, <1>6, SlotFacts DEF Abstract!Resize, Abstract!Next

\* The copy: the new block has what the old one had, and the others theirs.
LEMMA ReallocCopyImplements ==
  ASSUME HeapInv, HeapInv', ReallocCopy
  PROVE  Abstract!Next
<1> SUFFICES ASSUME NEW p, p = call.p, NEW h, h = hl, NEW b, b = h - 2,
                    NEW old, old = blk[p].at, NEW n, n = SizeAt(old - 2)
             PROVE  Abstract!Next
  OBVIOUS
<1>1. /\ pc = "copy" /\ used' = used
      /\ mem' = [a \in Ram |-> IF a \in h .. h + n - 1 THEN mem[old + (a - h)] ELSE mem[a]]
      /\ blk' = [blk EXCEPT ![p] = [at |-> h, len |-> call.n, set |-> blk[p].set]]
  BY DEF ReallocCopy
<1>2. /\ p \in Slots /\ Owns(p) /\ h # 0 /\ h \in Nat
      /\ call.n \in Nat /\ call.n <= SizeAt(b) /\ n < call.n
  BY <1>1, WordNat DEF HeapInv, Copying, TypeOK
<1>3. old \in Nat /\ n \in Nat /\ blk[p].len \in Nat /\ blk[p].len <= n
  BY <1>2, OwnedBlock, BlockBytes
<1>4. b \in Blocks /\ b \in Nat /\ h = b + 2 /\ EndOf(b) = b + 2 + SizeAt(b) /\ SizeAt(b) \in Nat
      /\ b \notin Owned
  <2>1. b \in used /\ b \notin Owned
    BY <1>1 DEF HeapInv, NoLeak, InTransit
  <2>2. b \in Blocks
    BY <2>1 DEF Blocks
  <2> QED BY <1>2, <2>1, <2>2, BlockBytes
<1>5. blk'[p] = [at |-> h, len |-> call.n, set |-> blk[p].set] /\ \A q \in Slots \ {p} : blk'[q] = blk[q]
  BY <1>1, <1>2 DEF HeapInv, TypeOK
<1>6. ASSUME NEW q \in Slots \ {p} PROVE Kept(q)
  <2> SUFFICES ASSUME NEW i \in 0 .. blk[q].len - 1, NEW a, a = blk[q].at + i
               PROVE  mem'[a] = mem[a]
    BY DEF Kept
  <2>1. Owns(q)
    BY DEF HeapInv, Fits, NoBlock
  <2> SUFFICES ASSUME NEW c, c = blk[q].at - 2 PROVE mem'[a] = mem[a]
    OBVIOUS
  <2>2. blk[q].at \in Nat /\ blk[q].len \in Nat /\ c \in Blocks /\ c \in Nat /\ c \in Owned
    BY <2>1, OwnedBlock DEF Owned
  <2>3. a \in Abstract!Bytes(Interval(q))
    BY <2>2 DEF Abstract!Bytes, Interval
  <2>4. a \in Nat /\ a \in c + 2 .. EndOf(c) - 1 /\ EndOf(c) \in Nat
    BY <2>1, <2>2, <2>3, OwnedBytes, BlockBytes
  <2>5. EndOf(b) <= c \/ EndOf(c) <= b
    BY <1>4, <2>2, Apart
  <2>6. a \notin h .. h + n - 1
    BY <1>2, <1>3, <1>4, <2>2, <2>4, <2>5
  <2>7. a \in Ram
    BY <2>2, <2>4, BlockBytes
  <2> QED BY <1>1, <2>6, <2>7
<1>7. Owns(p)' /\ blk'[p].at = h /\ blk'[p].len = call.n
  BY <1>2, <1>5 DEF Owns
<1>8. Apportioned'
  BY IntervalsPrivate, PTL
<1>9. /\ Abstract!Private(p, Intervals'[p]) /\ Abstract!OthersKeep(p)
      /\ DOMAIN Stored'[p] = 0 .. Intervals'[p].len - 1
  BY <1>2, <1>5, <1>6, <1>7, <1>8, PrivateNext
<1>10. ASSUME NEW i \in DOMAIN Stored[p] \cap DOMAIN Stored'[p]
       PROVE  Stored'[p][i] = Stored[p][i]
  <2>1. i \in 0 .. blk[p].len - 1 /\ i \in 0 .. call.n - 1
    BY <1>2, <1>7, SlotFacts
  <2>2. Stored'[p][i] = mem'[h + i] /\ Stored[p][i] = mem[old + i]
    BY <1>2, <1>7, <2>1, SlotFacts
  <2>3. h + i \in Ram
    <3>1. h + i \in b .. EndOf(b) - 1
      BY <1>2, <1>3, <1>4, <2>1
    <3> QED BY <1>4, <3>1, BlockBytes
  <2>4. h + i \in h .. h + n - 1 /\ old + ((h + i) - h) = old + i
    BY <1>2, <1>3, <2>1
  <2> QED BY <1>1, <2>2, <2>3, <2>4
<1> QED BY <1>2, <1>9, <1>10, SlotFacts DEF Abstract!Resize, Abstract!Next

LEMMA InitImplements == Init => Abstract!Init
<1> SUFFICES ASSUME Init PROVE Abstract!Init
  OBVIOUS
<1>1. \A p \in Slots : blk[p] = NoBlock
  BY DEF Init
<1>2. \A p \in Slots : Interval(p) = Abstract!Nothing
  BY <1>1 DEF Interval, NoBlock, Abstract!Nothing
<1>3. \A p \in Slots : Contents(p) = <<>>
  BY <1>1 DEF Contents, NoBlock
<1> QED BY <1>2, <1>3 DEF Intervals, Stored, Abstract!Init

LEMMA StepImplements ==
  ASSUME HeapInv, HeapInv', [Next]_vars
  PROVE  [Abstract!Next]_(Abstract!vars)
<1>1. CASE UNCHANGED vars
  BY <1>1, UnseenQuiet DEF vars, ghosts
<1>2. ASSUME NEW p \in Slots, NEW n \in Sizes, NEW sp \in SPs,
             CallMalloc(p, n, sp) \/ CallReallocNull(p, n, sp) \/ CallReallocGrow(p, n, sp)
      PROVE  UNCHANGED Abstract!vars
  BY <1>2, UnseenQuiet DEF CallMalloc, CallReallocNull, CallReallocGrow, EnterMalloc, ghosts
<1>3. ASSUME NEW p \in Slots, NEW n \in Sizes, NEW sp \in SPs, NEW k \in Counts,
             CallCalloc(p, k, n, sp)
      PROVE  UNCHANGED Abstract!vars
  BY <1>3, UnseenQuiet DEF CallCalloc, EnterMalloc, ghosts
<1>4. ASSUME NEW p \in Slots, NEW n \in Sizes, NEW k \in Counts, CallCallocOverflow(p, k, n)
       PROVE  UNCHANGED Abstract!vars
  BY <1>4, UnseenQuiet DEF CallCallocOverflow, ghosts
<1>5. CASE MallocNext \/ MallocFail \/ FreeNext
  BY <1>5, UnseenQuiet DEF MallocNext, MallocFail, FreeNext, ghosts
<1>6. CASE MallocSplit \/ MallocWhole \/ MallocGrow
  <2>1. PayloadsKept
    BY <1>6, MallocSplitInv, MallocWholeInv, MallocGrowInv
  <2>2. pc = "scan" /\ used \subseteq used' /\ \E a : Allocated(a)
    BY <1>6 DEF MallocSplit, MallocWhole, MallocGrow
  <2> QED BY <2>1, <2>2, AllocatedImplements
<1>7. CASE FreeInsert \/ FreeMergeNext \/ FreeMergePrev
  <2>1. PayloadsKept
    BY <1>7, FreeInsertInv, FreeMergeNextInv, FreeMergePrevInv
  <2>2. blk' = blk
    BY <1>7 DEF FreeInsert, FreeMergeNext, FreeMergePrev
  <2> QED BY <2>1, <2>2, ListUnseen
<1>8. ASSUME NEW p \in Slots, CallFree(p) \/ CallReallocZero(p) PROVE Abstract!Next
  BY <1>8, CallFreeImplements DEF CallReallocZero
<1>9. ASSUME NEW p \in Slots, NEW n \in Sizes, CallReallocSame(p, n) PROVE Abstract!Next
  BY <1>9, CallReallocSameImplements
<1>10. Serve => [Abstract!Next]_(Abstract!vars)
  BY <1>5, <1>6, <1>7, CallocZeroImplements, ReallocCopyImplements, ReturnImplements DEF Serve
<1>11. ASSUME Call PROVE [Abstract!Next]_(Abstract!vars)
  BY <1>2, <1>3, <1>4, <1>8, <1>9, <1>11 DEF Call
<1> QED BY <1>1, <1>10, <1>11 DEF Next

\* malloc, calloc, realloc and free keep their promise: every pointer has an
\* interval to itself, and the free list, the headers, the splits, the merges and
\* realloc's copy show in no byte of it.
THEOREM HeapImplements == Spec => ImplementsAllocator
  BY InitImplements, StepImplements, HeapInvariant, PTL
     DEF Spec, ImplementsAllocator, Abstract!Spec

-----------------------------------------------------------------------------
(* Every call comes to an end: what it still has to do falls at each step.   *)

\* The part of a call the library is in, counted from the end, and how much
\* memory a scan has not passed yet.
Stage == CASE pc = "scan" -> 6 [] pc \in {"zero", "copy"} -> 5 [] pc = "find" -> 4
           [] pc = "next" -> 3 [] pc = "prev" -> 2 [] pc = "ret" -> 1 [] pc = "idle" -> 0
Ahead == IF pc \in {"scan", "find"} /\ hl # 0 THEN MaxWord + 1 - hl ELSE 0
StepsLeft == (MaxWord + 1) * Stage + Ahead

LEMMA StageFacts ==
  /\ HeapInv => /\ Stage \in Nat /\ Ahead \in Nat /\ Ahead <= MaxWord /\ StepsLeft \in Nat
  /\ HeapInv' => /\ Stage' \in Nat /\ Ahead' \in Nat /\ Ahead' <= MaxWord /\ StepsLeft' \in Nat
<1> USE MaxNat
<1>1. ASSUME NEW h \in Word
      PROVE  (IF h # 0 THEN MaxWord + 1 - h ELSE 0) \in Nat
               /\ (IF h # 0 THEN MaxWord + 1 - h ELSE 0) <= MaxWord
  <2>1. h \in Nat /\ h <= MaxWord
    BY <1>1, WordNat
  <2> QED BY <2>1
<1>2. ASSUME NEW s \in Nat, NEW a \in Nat PROVE (MaxWord + 1) * s + a \in Nat
  <2>1. (MaxWord + 1) * s \in Nat
    BY DEF MaxWord
  <2> QED BY <2>1
<1>3. ASSUME HeapInv PROVE Stage \in Nat /\ Ahead \in Nat /\ Ahead <= MaxWord
  <2>1. hl \in Word /\ pc \in {"idle", "scan", "zero", "copy", "find", "next", "prev", "ret"}
    BY <1>3 DEF HeapInv, TypeOK
  <2>2. Stage \in Nat
    BY <2>1 DEF Stage
  <2> QED BY <1>1, <2>1, <2>2 DEF Ahead
<1>4. ASSUME HeapInv' PROVE Stage' \in Nat /\ Ahead' \in Nat /\ Ahead' <= MaxWord
  <2>1. hl' \in Word /\ pc' \in {"idle", "scan", "zero", "copy", "find", "next", "prev", "ret"}
    BY <1>4 DEF HeapInv, TypeOK
  <2>2. Stage' \in Nat
    BY <2>1 DEF Stage
  <2> QED BY <1>1, <2>1, <2>2 DEF Ahead
<1>5. ASSUME HeapInv PROVE StepsLeft \in Nat
  BY <1>2, <1>3, <1>5 DEF StepsLeft
<1>6. ASSUME HeapInv' PROVE StepsLeft' \in Nat
  BY <1>2, <1>4, <1>6 DEF StepsLeft
<1> QED BY <1>3, <1>4, <1>5, <1>6

\* A link leads up in memory or to the end.
LEMMA LinkAhead ==
  ASSUME HeapInv, NEW b \in free
  PROVE  LinkAt(b) = 0 \/ LinkAt(b) > b
  BY DEF HeapInv, Sorted, FirstAbove

LEMMA FollowAhead ==
  ASSUME HeapInv, HeapInv', hl \in free, hl' = LinkAt(hl), pc' = pc, pc \in {"scan", "find"}
  PROVE  StepsLeft' < StepsLeft
<1>1. PICK h, k, s, a, b : h = hl /\ k = hl' /\ s = Stage /\ a = Ahead /\ b = Ahead'
  OBVIOUS
<1>2. h \in Nat /\ h <= MaxWord /\ k \in Nat /\ k <= MaxWord /\ h # 0
  BY <1>1, WordNat, FreeSet DEF HeapInv, TypeOK
<1>3. k = 0 \/ k > h
  BY <1>1, LinkAhead
<1>4. s \in Nat /\ Stage' = s
  <2>1. Stage' = Stage
    BY DEF Stage
  <2> QED BY <1>1, <2>1, StageFacts
<1>5. a = MaxWord + 1 - h /\ b = IF k # 0 THEN MaxWord + 1 - k ELSE 0
  BY <1>1, <1>2 DEF Ahead
<1>6. (MaxWord + 1) * s + b < (MaxWord + 1) * s + a
  BY <1>2, <1>3, <1>4, <1>5 DEF MaxWord
<1> QED BY <1>1, <1>4, <1>6 DEF StepsLeft

LEMMA StageFalls ==
  ASSUME HeapInv, HeapInv', Stage' < Stage
  PROVE  StepsLeft' < StepsLeft
<1>1. PICK s, t, a, b : s = Stage /\ t = Stage' /\ a = Ahead /\ b = Ahead'
  OBVIOUS
<1>2. s \in Nat /\ t \in Nat /\ a \in Nat /\ b \in Nat /\ b <= MaxWord /\ t < s
  BY <1>1, StageFacts
<1>3. (MaxWord + 1) * t + b < (MaxWord + 1) * s + a
  BY <1>2 DEF MaxWord
<1> QED BY <1>1, <1>3 DEF StepsLeft

\* malloc, calloc, realloc and free run through their scans and stages without
\* ever going back: at every step the memory or the stages ahead are fewer, so
\* that no list, however long, makes a call run for ever.
THEOREM CallsMoveOn ==
  Spec => [][Serve => StepsLeft' \in Nat /\ StepsLeft \in Nat /\ StepsLeft' < StepsLeft]_vars
<1>1. ASSUME HeapInv, HeapInv', Serve
      PROVE  StepsLeft' \in Nat /\ StepsLeft \in Nat /\ StepsLeft' < StepsLeft
  <2>1. StepsLeft' \in Nat /\ StepsLeft \in Nat
    BY <1>1, StageFacts
  <2>2. CASE MallocNext
    <3>1. hl \in free
      BY <1>1, <2>2, Candidate DEF MallocNext
    <3> QED BY <1>1, <2>1, <2>2, <3>1, FollowAhead DEF MallocNext
  <2>3. CASE FreeNext
    <3>1. hl \in free
      BY <1>1, <2>3, LinkFree DEF FreeNext, HeapInv, Freeing, TypeOK
    <3> QED BY <1>1, <2>1, <2>3, <3>1, FollowAhead DEF FreeNext
  <2>4. CASE MallocSplit \/ MallocWhole \/ MallocGrow
    <3>1. pc = "scan" /\ pc' \in {"ret", "zero", "copy"}
      BY <1>1, <2>4 DEF MallocSplit, MallocWhole, MallocGrow, Allocated, HeapInv, Allocating
    <3>2. Stage' < Stage
      BY <3>1 DEF Stage
    <3> QED BY <1>1, <2>1, <3>2, StageFalls
  <2>5. CASE MallocFail \/ CallocZero \/ FreeInsert \/ FreeMergeNext \/ FreeMergePrev
             \/ ReallocCopy \/ Return
    <3>1. Stage' < Stage
      BY <2>5 DEF MallocFail, CallocZero, FreeInsert, FreeMergeNext, FreeMergePrev,
                  ReallocCopy, EnterFree, Return, Stage
    <3> QED BY <1>1, <2>1, <3>1, StageFalls
  <2> QED BY <1>1, <2>1, <2>2, <2>3, <2>4, <2>5 DEF Serve
<1>2. HeapInv /\ HeapInv' /\ [Next]_vars =>
        [Serve => StepsLeft' \in Nat /\ StepsLeft \in Nat /\ StepsLeft' < StepsLeft]_vars
  BY <1>1
<1> QED BY <1>2, HeapInvariant, PTL DEF Spec
=============================================================================
