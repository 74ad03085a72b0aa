---------------------------- MODULE Automatic ----------------------------
(***************************************************************************)
(* What C promises about automatic objects: every activation of a function *)
(* has objects of its own, they start with any value, and only the running *)
(* activation changes them.  Where the compiler keeps them is not said.    *)
(***************************************************************************)
EXTENDS Naturals, Sequences

CONSTANTS Functions,       \* the functions of the program
          Values           \* what one byte of storage may hold

VARIABLE frames            \* the activations, the running one last

Below(s) == SubSeq(s, 1, Len(s) - 1)

Init == frames = <<>>

\* a call, an interrupt, or the start of main
Enter ==
  /\ Len(frames') = Len(frames) + 1
  /\ Below(frames') = frames
  /\ frames'[Len(frames')].fn \in Functions

\* the running activation stores to its own objects
Assign ==
  /\ frames # <<>>
  /\ Len(frames') = Len(frames)
  /\ Below(frames') = Below(frames)
  /\ LET old == frames[Len(frames)]
         new == frames'[Len(frames)]
     IN new.fn = old.fn /\ DOMAIN new.locals = DOMAIN old.locals

Leave == frames # <<>> /\ frames' = Below(frames)

Next == Enter \/ Assign \/ Leave

Spec == Init /\ [][Next]_frames
==========================================================================
