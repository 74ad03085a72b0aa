------------------------------ MODULE MCHeap ------------------------------
(* A heap of 16 bytes that crosses a page, and two pointers.  A realloc     *)
(* holds a third block for a while, so a block is freed between two free    *)
(* ones and two used ones; 65535 carries out of 16 bits.                    *)
EXTENDS Heap, TLC

CONSTANTS p1, p2
MCTag == (p1 :> 17) @@ (p2 :> 34)
=============================================================================
