------------------------------- MODULE Heap -------------------------------
(***************************************************************************)
(* The heap of the C library: malloc, calloc, realloc and free of          *)
(* src/src/uc80/lib/lc/lc_malloc.mac, lc_calloc.mac, lc_realloc.mac and    *)
(* lc_free.mac, over a byte memory.                                        *)
(*                                                                         *)
(* A block is a 2-byte payload size and the payload; a free block keeps    *)
(* the address of the next free block in its first two payload bytes.      *)
(* Both are read and written in mem, so a stray store destroys them here   *)
(* as it does on the machine.  A loop of the code is a step per turn; a    *)
(* stretch of straight code is one step.                                   *)
(*                                                                         *)
(* free, used and blk are history variables: the blocks on the free list,  *)
(* the blocks handed out, and what the C program believes it owns.  No     *)
(* guard of a library step reads them.                                     *)
(***************************************************************************)
EXTENDS Integers, FiniteSets

CONSTANTS Slots,     \* the pointer variables of the C program
          Tag,       \* Tag[p]: the byte the program stores through p
          Start,     \* __END__: the first byte after the program
          FreeHead,  \* the address of the word _free_head
          SPs,       \* the values SP may have when malloc is called
          Sizes,     \* the sizes the program asks for
          Counts,    \* the nmemb arguments of calloc
          Fills      \* what memory after the program may hold at start

Byte == 0 .. 255
MaxWord == 65535
Word == 0 .. MaxWord
StackGap == 255      \* malloc keeps the heap this far below SP

\* _free_head and every byte the heap may grow over
Ram == {FreeHead, FreeHead + 1} \cup
       {a \in Start .. MaxWord : \E sp \in SPs : a + StackGap < sp}

ASSUME HeapAssumption ==
  /\ Slots # {}
  /\ FreeHead \in Nat \ {0} /\ Start \in Word /\ FreeHead + 1 < Start
  /\ SPs \subseteq Word
  /\ Sizes \subseteq Word /\ Counts \subseteq Word
  /\ Fills \subseteq Byte
  /\ Tag \in [Slots -> Byte]

VARIABLES mem,       \* the bytes of Ram
          heap_ptr,  \* _heap_ptr: the top of the heap, 0 before the first call
          pc,        \* where the library is; "idle": the program runs
          call,      \* the call being served
          hl,        \* HL: the candidate block of a scan, or the new payload
          bc,        \* BC: the address of the link that led to hl
          ix,        \* IX: the block being freed
          free,      \* history: the blocks on the free list
          used,      \* history: the blocks that are not
          blk        \* history: the block of each pointer of the program

regs == <<hl, bc, ix>>
ghosts == <<free, used, blk>>
vars == <<mem, heap_ptr, pc, call, regs, ghosts>>

-----------------------------------------------------------------------------
(* Memory.                                                                  *)

Peek(m, a) == m[a] + 256 * m[a + 1]
Poke(m, a, w) == [m EXCEPT ![a] = w % 256, ![a + 1] = w \div 256]

SizeAt(b) == Peek(mem, b)
LinkAt(b) == Peek(mem, b + 2)
EndOf(b) == b + 2 + SizeAt(b)

NoBlock == [at |-> 0, len |-> 0, set |-> 0]
NoCall == [op |-> "none", p |-> CHOOSE p \in Slots : TRUE,
           n |-> 0, size |-> 0, sp |-> 0]
Owns(p) == blk[p].at # 0

Init ==
  /\ \E g \in Fills :
       mem = [a \in Ram |-> IF a \in {FreeHead, FreeHead + 1} THEN 0 ELSE g]
  /\ heap_ptr = 0 /\ pc = "idle" /\ call = NoCall
  /\ hl = 0 /\ bc = 0 /\ ix = 0
  /\ free = {} /\ used = {} /\ blk = [p \in Slots |-> NoBlock]

-----------------------------------------------------------------------------
(* malloc                                                                   *)

\* __malloc_de up to the scan: a request of 0 or 1 becomes 2, the top of the
\* heap gets its first value, and the scan starts at _free_head.
EnterMalloc(op, p, n, sp) ==
  /\ call' = [op |-> op, p |-> p, n |-> n,
              size |-> IF n < 2 THEN 2 ELSE n, sp |-> sp]
  /\ heap_ptr' = IF heap_ptr = 0 THEN Start ELSE heap_ptr
  /\ bc' = FreeHead /\ hl' = Peek(mem, FreeHead)
  /\ pc' = "scan"
  /\ UNCHANGED <<mem, ix, ghosts>>

CallMalloc(p, n, sp) ==
  /\ pc = "idle" /\ ~Owns(p)
  /\ EnterMalloc("malloc", p, n, sp)

\* calloc multiplies by repeated addition and gives up at the first carry.
CallCalloc(p, nmemb, size, sp) ==
  /\ pc = "idle" /\ ~Owns(p)
  /\ nmemb * size \in Word
  /\ EnterMalloc("calloc", p, nmemb * size, sp)

CallCallocOverflow(p, nmemb, size) ==
  /\ pc = "idle" /\ ~Owns(p)
  /\ nmemb * size \notin Word
  /\ pc' = "ret"
  /\ call' = [NoCall EXCEPT !.op = "calloc", !.p = p]
  /\ UNCHANGED <<mem, heap_ptr, regs, ghosts>>

\* The candidate is too small: on to its link.
MallocNext ==
  /\ pc = "scan" /\ hl # 0
  /\ SizeAt(hl) < call.size
  /\ bc' = hl + 2 /\ hl' = LinkAt(hl)
  /\ UNCHANGED <<mem, heap_ptr, pc, call, ix, ghosts>>

\* Where the caller of __malloc_de goes on when it gets the payload a.
Allocated(a) ==
  /\ hl' = a /\ bc' = 0
  /\ pc' = CASE call.op = "malloc" -> "ret"
             [] call.op = "calloc" -> "zero"
             [] call.op = "realloc" -> "copy"
  /\ blk' = IF call.op = "realloc" THEN blk
            ELSE [blk EXCEPT ![call.p] = [at |-> a, len |-> call.n, set |-> 0]]

\* At least 4 bytes are left over: carve the request from the end.
SplitForgetsHeader ==
  /\ pc = "scan" /\ hl # 0
  /\ SizeAt(hl) >= call.size + 4
  /\ LET left == SizeAt(hl) - call.size
         new  == hl + 2 + left
     IN /\ mem' = Poke(Poke(mem, hl, left), new, call.size)
        /\ used' = used \cup {new}
        /\ Allocated(new + 2)
  /\ UNCHANGED <<heap_ptr, call, ix, free>>

MallocSplit ==
  /\ pc = "scan" /\ hl # 0
  /\ SizeAt(hl) >= call.size + 4
  /\ LET left == SizeAt(hl) - call.size - 2
         new  == hl + 2 + left
     IN /\ mem' = Poke(Poke(mem, hl, left), new, call.size)
        /\ used' = used \cup {new}
        /\ Allocated(new + 2)
  /\ UNCHANGED <<heap_ptr, call, ix, free>>

\* Less is left over: unlink the whole block, its header stays as it is.
MallocWhole ==
  /\ pc = "scan" /\ hl # 0
  /\ SizeAt(hl) >= call.size /\ SizeAt(hl) < call.size + 4
  /\ mem' = Poke(mem, bc, LinkAt(hl))
  /\ free' = free \ {hl} /\ used' = used \cup {hl}
  /\ Allocated(hl + 2)
  /\ UNCHANGED <<heap_ptr, call, ix>>

\* The new top carries out of 16 bits, or is above SP - 255.
NeverTooHigh(top) == FALSE
TooHigh(top) == top > MaxWord \/ top > call.sp - StackGap

MallocGrow ==
  /\ pc = "scan" /\ hl = 0
  /\ ~TooHigh(heap_ptr + 2 + call.size)
  /\ heap_ptr' = heap_ptr + 2 + call.size
  /\ mem' = Poke(mem, heap_ptr, call.size)
  /\ used' = used \cup {heap_ptr}
  /\ Allocated(heap_ptr + 2)
  /\ UNCHANGED <<call, ix, free>>

\* NULL.  The caller's block, if it has one, is untouched.
MallocFail ==
  /\ pc = "scan" /\ hl = 0
  /\ TooHigh(heap_ptr + 2 + call.size)
  /\ pc' = "ret" /\ bc' = 0
  /\ UNCHANGED <<mem, heap_ptr, call, hl, ix, ghosts>>

\* calloc clears nmemb * size bytes, not the block's whole payload.
ZeroFromHeader ==
  /\ pc = "zero"
  /\ mem' = [a \in Ram |-> IF a \in hl - 2 .. hl + call.n - 3 THEN 0 ELSE mem[a]]
  /\ pc' = "ret"
  /\ UNCHANGED <<heap_ptr, call, regs, ghosts>>

CallocZero ==
  /\ pc = "zero"
  /\ mem' = [a \in Ram |-> IF a \in hl .. hl + call.n - 1 THEN 0 ELSE mem[a]]
  /\ pc' = "ret"
  /\ UNCHANGED <<heap_ptr, call, regs, ghosts>>

-----------------------------------------------------------------------------
(* free                                                                     *)

\* __free_hl up to the scan.
EnterFree(payload) ==
  /\ ix' = payload - 2
  /\ bc' = FreeHead /\ hl' = Peek(mem, FreeHead)
  /\ pc' = "find"

CallFree(p) ==
  /\ pc = "idle" /\ Owns(p)
  /\ EnterFree(blk[p].at)
  /\ call' = [NoCall EXCEPT !.op = "free", !.p = p]
  /\ blk' = [blk EXCEPT ![p] = NoBlock]
  /\ UNCHANGED <<mem, heap_ptr, free, used>>

\* The candidate lies below the block: on to its link.
LinkNotFollowed ==
  /\ pc = "find" /\ hl # 0 /\ hl <= ix
  /\ bc' = hl + 2
  /\ UNCHANGED <<mem, heap_ptr, pc, call, hl, ix, ghosts>>

FreeNext ==
  /\ pc = "find" /\ hl # 0 /\ hl <= ix
  /\ bc' = hl + 2 /\ hl' = LinkAt(hl)
  /\ UNCHANGED <<mem, heap_ptr, pc, call, ix, ghosts>>

\* The block goes between the owner of link bc and hl.
FreeInsert ==
  /\ pc = "find" /\ (hl = 0 \/ ix < hl)
  /\ mem' = Poke(Poke(mem, ix + 2, hl), bc, ix)
  /\ free' = free \cup {ix} /\ used' = used \ {ix}
  /\ pc' = "next"
  /\ UNCHANGED <<heap_ptr, call, regs, blk>>

\* Take in the next free block when it starts where this one ends.
MergesAnyNext ==
  /\ pc = "next"
  /\ IF hl # 0
       THEN /\ mem' = Poke(Poke(mem, ix, SizeAt(ix) + SizeAt(hl) + 2),
                           ix + 2, LinkAt(hl))
            /\ free' = free \ {hl}
       ELSE UNCHANGED <<mem, free>>
  /\ pc' = "prev"
  /\ UNCHANGED <<heap_ptr, call, regs, used, blk>>

FreeMergeNext ==
  /\ pc = "next"
  /\ IF hl # 0 /\ EndOf(ix) = hl
       THEN /\ mem' = Poke(Poke(mem, ix, SizeAt(ix) + SizeAt(hl) + 2),
                           ix + 2, LinkAt(hl))
            /\ free' = free \ {hl}
       ELSE UNCHANGED <<mem, free>>
  /\ pc' = "prev"
  /\ UNCHANGED <<heap_ptr, call, regs, used, blk>>

\* Join the previous free block when it ends where this one starts.
NeverMergesPrev ==
  /\ pc = "prev"
  /\ pc' = "ret" /\ hl' = 0 /\ bc' = 0 /\ ix' = 0
  /\ UNCHANGED <<mem, heap_ptr, call, ghosts>>

FreeMergePrev ==
  /\ pc = "prev"
  /\ IF bc # FreeHead /\ EndOf(bc - 2) = ix
       THEN /\ mem' = Poke(Poke(mem, bc - 2, SizeAt(bc - 2) + SizeAt(ix) + 2),
                           bc, LinkAt(ix))
            /\ free' = free \ {ix}
       ELSE UNCHANGED <<mem, free>>
  /\ pc' = "ret" /\ hl' = 0 /\ bc' = 0 /\ ix' = 0
  /\ UNCHANGED <<heap_ptr, call, used, blk>>

-----------------------------------------------------------------------------
(* realloc                                                                  *)

\* A null pointer: malloc.
CallReallocNull(p, n, sp) == CallMalloc(p, n, sp)

\* Size 0: free, and return NULL.
CallReallocZero(p) == CallFree(p)

\* The block is big enough: it is returned as it is, header included.
CallReallocSame(p, n) ==
  /\ pc = "idle" /\ Owns(p) /\ n # 0
  /\ SizeAt(blk[p].at - 2) >= n
  /\ pc' = "ret"
  /\ call' = [NoCall EXCEPT !.op = "realloc", !.p = p, !.n = n]
  /\ blk' = [blk EXCEPT ![p] = [at |-> @.at, len |-> n,
                                set |-> IF @.set < n THEN @.set ELSE n]]
  /\ UNCHANGED <<mem, heap_ptr, regs, free, used>>

CallReallocGrow(p, n, sp) ==
  /\ pc = "idle" /\ Owns(p) /\ n # 0
  /\ SizeAt(blk[p].at - 2) < n
  /\ EnterMalloc("realloc", p, n, sp)

\* LDIR copies the old payload into the new one and the old block is freed.
CopyMissesLastByte ==
  /\ pc = "copy"
  /\ LET old == blk[call.p].at
         n   == SizeAt(old - 2)
     IN /\ mem' = [a \in Ram |-> IF a \in hl .. hl + n - 2
                                 THEN mem[old + (a - hl)] ELSE mem[a]]
        /\ blk' = [blk EXCEPT ![call.p] =
                     [at |-> hl, len |-> call.n, set |-> @.set]]
        /\ EnterFree(old)
  /\ UNCHANGED <<heap_ptr, call, free, used>>

CopyForgetsToFree ==
  /\ pc = "copy"
  /\ LET old == blk[call.p].at
         n   == SizeAt(old - 2)
     IN mem' = [a \in Ram |-> IF a \in hl .. hl + n - 1
                              THEN mem[old + (a - hl)] ELSE mem[a]]
  /\ blk' = [blk EXCEPT ![call.p] = [at |-> hl, len |-> call.n, set |-> @.set]]
  /\ pc' = "ret"
  /\ UNCHANGED <<heap_ptr, call, regs, free, used>>

ReallocCopy ==
  /\ pc = "copy"
  /\ LET old == blk[call.p].at
         n   == SizeAt(old - 2)
     IN /\ mem' = [a \in Ram |-> IF a \in hl .. hl + n - 1
                                 THEN mem[old + (a - hl)] ELSE mem[a]]
        /\ blk' = [blk EXCEPT ![call.p] =
                     [at |-> hl, len |-> call.n, set |-> @.set]]
        /\ EnterFree(old)
  /\ UNCHANGED <<heap_ptr, call, free, used>>

-----------------------------------------------------------------------------
(* The program: it gets the result, stores its byte all over the block it   *)
(* asked for, and makes the next call.                                      *)

Return ==
  /\ pc = "ret"
  /\ LET b == blk[call.p]
     IN /\ mem' = [a \in Ram |-> IF a \in b.at .. b.at + b.len - 1
                                 THEN Tag[call.p] ELSE mem[a]]
        /\ blk' = [blk EXCEPT ![call.p] = [at |-> @.at, len |-> @.len, set |-> @.len]]
  /\ pc' = "idle" /\ call' = NoCall
  /\ hl' = 0 /\ bc' = 0 /\ ix' = 0
  /\ UNCHANGED <<heap_ptr, free, used>>

Call ==
  \E p \in Slots :
    \/ \E n \in Sizes, sp \in SPs :
         \/ CallMalloc(p, n, sp)
         \/ CallReallocNull(p, n, sp)
         \/ CallReallocGrow(p, n, sp)
         \/ \E nmemb \in Counts : CallCalloc(p, nmemb, n, sp)
    \/ \E n \in Sizes :
         \/ CallReallocSame(p, n)
         \/ \E nmemb \in Counts : CallCallocOverflow(p, nmemb, n)
    \/ CallFree(p)
    \/ CallReallocZero(p)

Serve ==
  \/ MallocNext \/ MallocSplit \/ MallocWhole \/ MallocGrow \/ MallocFail
  \/ CallocZero
  \/ FreeNext \/ FreeInsert \/ FreeMergeNext \/ FreeMergePrev
  \/ ReallocCopy
  \/ Return

Next == Call \/ Serve

Spec == Init /\ [][Next]_vars
FairSpec == Spec /\ WF_vars(Serve)

-----------------------------------------------------------------------------
(* Properties.                                                              *)

TypeOK ==
  /\ mem \in [Ram -> Byte]
  /\ heap_ptr \in Word
  /\ pc \in {"idle", "scan", "zero", "copy", "find", "next", "prev", "ret"}
  /\ call \in [op : {"none", "malloc", "calloc", "realloc", "free"},
               p : Slots, n : Word, size : Word, sp : SPs \cup {0}]
  /\ hl \in Word /\ bc \in Word /\ ix \in Word
  /\ free \subseteq Start .. MaxWord /\ used \subseteq Start .. MaxWord
  /\ blk \in [Slots -> [at : Word, len : Word, set : Word]]

Blocks == free \cup used
Top == IF heap_ptr = 0 THEN Start ELSE heap_ptr

\* The headers tile the heap from __END__ to its top: every block ends where
\* another starts or at the top, no block starts inside another, and nothing
\* is both free and handed out.  A split, a merge or a header store that is
\* off by a byte breaks it.
Tiling ==
  /\ \A a \in Start .. Top - 1 : a \in Ram
  /\ Top >= Start
  /\ free \cap used = {}
  /\ Start \in Blocks \cup {Top}
  /\ \A b \in Blocks : /\ b + 3 < Top /\ EndOf(b) <= Top
                       /\ SizeAt(b) >= 2 /\ EndOf(b) \in Blocks \cup {Top}
  /\ \A b, c \in Blocks : b < c => EndOf(b) <= c

\* w is the first block of S above a, or 0 when there is none.
FirstAbove(S, a, w) ==
  \/ w = 0 /\ \A f \in S : f <= a
  \/ w \in S /\ w > a /\ \A f \in S : f > a => w <= f

\* _free_head and the links in memory thread exactly the free blocks, in
\* address order: no block is lost from the list, met twice or out of order.
Sorted ==
  /\ FirstAbove(free, 0, Peek(mem, FreeHead))
  /\ \A f \in free : FirstAbove(free, f, LinkAt(f))

\* No two free blocks touch, but for the block free is about to merge.
Coalesced ==
  \A f \in free : EndOf(f) \in free =>
    \/ pc = "next" /\ ix \in {f, EndOf(f)}
    \/ pc = "prev" /\ ix = EndOf(f)

\* The block a call holds: new in realloc before the copy, old in free before
\* it is on the list.
InTransit == CASE pc = "copy" -> {hl - 2}
               [] pc = "find" -> {ix}
               [] OTHER -> {}
Owned == {blk[p].at - 2 : p \in {q \in Slots : Owns(q)}}

\* Every block that is not free is owned by one pointer of the program or is
\* in the hands of the call being served: none is lost, none has two owners.
NoLeak ==
  /\ used = Owned \cup InTransit
  /\ Owned \cap InTransit = {}
  /\ \A p, q \in Slots : Owns(p) /\ p # q => blk[p].at # blk[q].at

\* What the program stored through a pointer is there as long as it owns the
\* block, across every other call and across its own realloc.
Intact ==
  \A p \in Slots : \A i \in 0 .. blk[p].set - 1 : mem[blk[p].at + i] = Tag[p]

\* calloc returns nmemb * size zero bytes.
CallocZeroed ==
  pc = "ret" /\ call.op = "calloc" =>
    \A i \in 0 .. blk[call.p].len - 1 : mem[blk[call.p].at + i] = 0

\* The heap grows, or malloc gives up, only when no free block is big enough;
\* a free block is only used when no lower one is.
FirstFit ==
  [][pc = "scan" /\ pc' # "scan" =>
       \A f \in free : SizeAt(f) >= call.size => hl # 0 /\ hl <= f]_vars

\* Every call returns: the scans follow links that lead to 0.
Terminates == (pc # "idle") ~> (pc = "idle")

\* What the registers of a call in progress stand for.
AtLink(a, w) == (a = FreeHead \/ a - 2 \in free) /\ w = Peek(mem, a)
Allocating == pc = "scan" =>
  /\ call.op \in {"malloc", "calloc", "realloc"} /\ call.sp \in SPs
  /\ heap_ptr # 0 /\ call.size >= 2 /\ call.size >= call.n
  /\ Owns(call.p) <=> call.op = "realloc"
  /\ Owns(call.p) => SizeAt(blk[call.p].at - 2) < call.n
  /\ AtLink(bc, hl)
  /\ \A f \in free : hl = 0 \/ f < hl => SizeAt(f) < call.size
Clearing == pc = "zero" =>
  /\ Owns(call.p) /\ blk[call.p] = [at |-> hl, len |-> call.n, set |-> 0]
Copying == pc = "copy" =>
  /\ call.op = "realloc" /\ Owns(call.p) /\ hl # 0
  /\ SizeAt(hl - 2) >= call.n
  /\ SizeAt(blk[call.p].at - 2) < call.n
Freeing ==
  /\ pc \in {"find", "next", "prev"} => call.op \in {"free", "realloc"}
  /\ pc = "find" => AtLink(bc, hl) /\ (bc = FreeHead \/ bc - 2 < ix)
  /\ pc \in {"next", "prev"} => ix \in free /\ AtLink(bc, ix)
  /\ pc = "next" => hl = LinkAt(ix)
Fits ==
  \A p \in Slots :
    /\ Owns(p) => /\ blk[p].at \in Nat /\ blk[p].len <= SizeAt(blk[p].at - 2)
                  /\ blk[p].set <= blk[p].len
    /\ ~Owns(p) => blk[p] = NoBlock

\* The inductive invariant.
HeapInv ==
  /\ TypeOK /\ Tiling /\ Sorted /\ Coalesced /\ NoLeak /\ Fits
  /\ Allocating /\ Clearing /\ Copying /\ Freeing
  /\ Intact /\ CallocZeroed

\* The bytes a pointer owns, as the program sees them.
Interval(p) == [at |-> blk[p].at, len |-> blk[p].len]
Contents(p) == [i \in 0 .. blk[p].len - 1 |-> mem[blk[p].at + i]]
Arena == Ram \ {FreeHead, FreeHead + 1}
Intervals == [p \in Slots |-> Interval(p)]
Stored == [p \in Slots |-> Contents(p)]
Abstract == INSTANCE Allocator WITH block <- Intervals, data <- Stored

\* The pointers behave as private memory.
ImplementsAllocator == Abstract!Spec
=============================================================================
