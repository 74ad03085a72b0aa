---------------------------- MODULE Allocator ----------------------------
(***************************************************************************)
(* What malloc, calloc, realloc and free promise the C program: every      *)
(* pointer the program holds owns an interval of the arena that no other   *)
(* pointer's interval meets, and only its owner changes what is stored     *)
(* there.  Nothing is said of free lists, headers or the order of a scan.  *)
(***************************************************************************)
EXTENDS Integers

CONSTANTS Slots,      \* the pointer variables of the C program
          Arena       \* the addresses the heap may hand out

VARIABLES block,      \* block[p]: the interval p points at
          data        \* data[p]: the bytes of that interval

vars == <<block, data>>

Byte == 0 .. 255
Nothing == [at |-> 0, len |-> 0]
Bytes(b) == b.at .. b.at + b.len - 1
Holds(p) == block[p].at # 0

\* b may be given to p: it lies in the arena and meets nobody else's interval
Private(p, b) ==
  /\ b.at \in Arena /\ b.len \in Nat
  /\ Bytes(b) \subseteq Arena
  /\ \A q \in Slots \ {p} : Bytes(block[q]) \cap Bytes(b) = {}

OthersKeep(p) ==
  \A q \in Slots \ {p} : block'[q] = block[q] /\ data'[q] = data[q]

Init ==
  /\ block = [p \in Slots |-> Nothing]
  /\ data = [p \in Slots |-> <<>>]

\* malloc or calloc succeeds: p gets an interval of its own
Give(p) ==
  /\ ~Holds(p)
  /\ Private(p, block'[p])
  /\ DOMAIN data'[p] = 0 .. block'[p].len - 1
  /\ OthersKeep(p)

\* realloc succeeds: in place or elsewhere, the common prefix survives
Resize(p) ==
  /\ Holds(p)
  /\ Private(p, block'[p])
  /\ DOMAIN data'[p] = 0 .. block'[p].len - 1
  /\ \A i \in DOMAIN data[p] \cap DOMAIN data'[p] : data'[p][i] = data[p][i]
  /\ OthersKeep(p)

\* free, or realloc to size 0
Take(p) ==
  /\ Holds(p)
  /\ block'[p] = Nothing
  /\ OthersKeep(p)

\* the program stores into the bytes p owns
Store(p) ==
  /\ Holds(p)
  /\ block'[p] = block[p]
  /\ DOMAIN data'[p] = DOMAIN data[p]
  /\ OthersKeep(p)

Next == \E p \in Slots : Give(p) \/ Resize(p) \/ Take(p) \/ Store(p)

Spec == Init /\ [][Next]_vars
==========================================================================
