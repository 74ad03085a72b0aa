------------------------------ MODULE DeadCode ------------------------------
(***************************************************************************)
(* The removal of dead code from the assembly text of a program            *)
(* (src/src/uc80/asm_dce.py, called by main.py on the text that holds the  *)
(* program, the start-up code and the embedded runtime).                   *)
(*                                                                         *)
(* The text is a sequence of blocks, one per label, and a set of data      *)
(* labels.  The pass marks blocks from its entry points along the jumps,   *)
(* the calls and the fall-through that it reads in the text, then marks    *)
(* the data that the marked blocks name, and writes what is marked in the  *)
(* old order.  Afterwards the Z80 runs the text: it also goes where the    *)
(* pass cannot look, through pointers to the functions whose address the   *)
(* program took.                                                           *)
(***************************************************************************)
EXTENDS Naturals

CONSTANTS
  NBlocks,     \* blocks of the text, in source order 1..NBlocks
  Data,        \* data labels (DSEG and the CSEG data region of the ROM target)
  Texts        \* the assembly texts the pass is given

Blocks == 1 .. NBlocks

\* How the last instruction of a block ends: RET, RETI, RETN, JP (HL), JP or
\* JR without a condition; a conditional one; anything else.
Lasts == {"stop", "cond", "other"}

\* Hand-written assembly: none, a region inside a function, or a region of
\* its own at file scope (also every appended .mac file).
Regions == {"none", "inside", "file"}

(***************************************************************************)
(* A text: for each block its last instruction, its assembly, the labels   *)
(* it jumps to or calls (for assembly: every identifier in it), the        *)
(* functions whose address it loads, and the data it names; for each data  *)
(* label the data and the functions it holds the address of; the PUBLIC    *)
(* labels of the program, those the user asked to keep, and the functions  *)
(* under optnone, each the set of its blocks.  whole: whole-program mode.  *)
(***************************************************************************)
Text == [last : [Blocks -> Lasts],
         asm : [Blocks -> Regions],
         jumps : [Blocks -> SUBSET Blocks],
         takes : [Blocks -> SUBSET Blocks],
         reads : [Blocks -> SUBSET Data],
         points : [Data -> SUBSET Data],
         tables : [Data -> SUBSET Blocks],
         public : SUBSET Blocks,
         publicData : SUBSET Data,
         keep : SUBSET Blocks,
         keepData : SUBSET Data,
         noopt : SUBSET (SUBSET Blocks),
         whole : BOOLEAN]

\* The texts are texts, and file-scope assembly ends in a jump or a return.
ASSUME TextsAssumption ==
  /\ NBlocks \in Nat
  /\ Texts \subseteq Text
  /\ \A t \in Texts : \A b \in Blocks :
       t.asm[b] = "file" => t.last[b] = "stop"

VARIABLES
  text,        \* the text given, never written
  phase,       \* what the pass is doing; "run" once the output runs
  pending,     \* worklist of block labels (_explore)
  reachable,   \* blocks marked live
  work,        \* worklist of data labels (_find_referenced_data)
  referenced,  \* data marked live
  entered,     \* blocks that the running program has entered
  touched      \* data that the running program has touched

vars == <<text, phase, pending, reachable, work, referenced, entered, touched>>

-----------------------------------------------------------------------------
(* What the pass reads in the text *)

FileRegions(t) == {b \in Blocks : t.asm[b] = "file"}

\* Functions whose address code or data takes, as the code generator lists
\* them for main.py.
AddressTaken(t) ==
  (UNION {t.takes[b] : b \in Blocks}) \cup (UNION {t.tables[d] : d \in Data})

\* The entry points main.py passes, and the regions that are always live.
\* In whole-program mode they include the address-taken functions.
EntryPoints(t) ==
  t.public \cup t.keep \cup FileRegions(t)
    \cup (IF t.whole THEN AddressTaken(t) ELSE {})

\* (Mutant: the last line of the assembly is believed.)
BelievesAsm(t, b) == t.last[b] = "stop"

\* Control never runs past the end of the block.  A block that holds
\* assembly may end in a computed jump, so no terminator is ever claimed.
EndsWithTerminator(t, b) == t.asm[b] # "inside" /\ t.last[b] = "stop"

\* (Mutants: an assembly region drags in the next function; the last block
\* has a successor.)
FileFalls(t, b) ==
  IF EndsWithTerminator(t, b) /\ t.asm[b] # "file" THEN {} ELSE {b + 1} \cap Blocks
FallsOffTheEnd(t, b) ==
  IF t.asm[b] = "file" \/ EndsWithTerminator(t, b) THEN {} ELSE {b + 1}

\* The block after b in source order, when b can fall into it.
FallThrough(t, b) ==
  IF t.asm[b] = "file" \/ EndsWithTerminator(t, b)
    THEN {} ELSE {b + 1} \cap Blocks

\* (Mutant: optnone functions are pruned like any other.)
NoGroups(t, live) == {}

\* Blocks of optnone functions that have a live block and are not live yet.
GroupRest(t, live) ==
  UNION {g \ live : g \in {h \in t.noopt : h \cap live # {}}}

\* The data a search starts from: what live code names, what the user keeps,
\* and outside whole-program mode every PUBLIC object.
NamedData(t, live) ==
  (UNION {t.reads[b] : b \in live}) \cup t.keepData
    \cup (IF t.whole THEN {} ELSE t.publicData)

-----------------------------------------------------------------------------
(* The pass *)

Init ==
  /\ text \in Texts
  /\ phase = "code"
  /\ pending = EntryPoints(text)
  /\ reachable = {}
  /\ work = {}
  /\ referenced = {}
  /\ entered = {}
  /\ touched = {}

\* (Mutant: a live block goes on the worklist again.)
ExploreAgain ==
  /\ phase = "code"
  /\ \E b \in pending :
       /\ reachable' = reachable \cup {b}
       /\ pending' = (pending \ {b}) \cup text.jumps[b] \cup FallThrough(text, b)
  /\ UNCHANGED <<text, phase, work, referenced, entered, touched>>

\* One block off the worklist: it is live, and so is all it leads to.
Explore ==
  /\ phase = "code"
  /\ \E b \in pending :
       /\ reachable' = reachable \cup {b}
       /\ pending' = (pending \cup text.jumps[b] \cup FallThrough(text, b))
                       \ reachable'
  /\ UNCHANGED <<text, phase, work, referenced, entered, touched>>

\* The worklist is empty: an optnone function with a live block is whole.
Regroup ==
  /\ phase = "code"
  /\ pending = {}
  /\ GroupRest(text, reachable) # {}
  /\ pending' = GroupRest(text, reachable)
  /\ UNCHANGED <<text, phase, reachable, work, referenced, entered, touched>>

\* The code is settled; the data that it names is where the next search starts.
NameData ==
  /\ phase = "code"
  /\ pending = {}
  /\ GroupRest(text, reachable) = {}
  /\ phase' = "data"
  /\ referenced' = NamedData(text, reachable)
  /\ work' = referenced'
  /\ UNCHANGED <<text, pending, reachable, entered, touched>>

\* One data block off the worklist.
ScanData ==
  /\ phase = "data"
  /\ \E d \in work :
       /\ referenced' = referenced \cup text.points[d]
       /\ work' = (work \ {d}) \cup (text.points[d] \ referenced)
  /\ UNCHANGED <<text, phase, pending, reachable, entered, touched>>

\* The live blocks and data are written in the old order.
Rebuild ==
  /\ phase = "data"
  /\ work = {}
  /\ phase' = "run"
  /\ UNCHANGED <<text, pending, reachable, work, referenced, entered, touched>>

-----------------------------------------------------------------------------
(* The program that the text describes, run on a Z80 *)

\* Functions whose address is in a register or a variable by now.
Pointers == (UNION {text.takes[b] : b \in entered})
              \cup (UNION {text.tables[d] : d \in touched})

\* Control falls out of b unless its last instruction is an unconditional
\* transfer; assembly inside a function can come back to the end of its block.
RunsOn(t, b) ==
  IF t.last[b] # "stop" \/ t.asm[b] = "inside" THEN {b + 1} \cap Blocks ELSE {}

\* Control comes in from outside at the PUBLIC functions (the start-up code,
\* other modules), at those the user keeps, and in hand-written assembly.
Enter ==
  /\ phase = "run"
  /\ \E c \in Blocks \ entered :
       /\ \/ c \in text.public \cup text.keep \cup FileRegions(text)
          \/ c \in Pointers
          \/ \E b \in entered : c \in text.jumps[b] \cup RunsOn(text, b)
       /\ entered' = entered \cup {c}
  /\ UNCHANGED <<text, phase, pending, reachable, work, referenced, touched>>

Touch ==
  /\ phase = "run"
  /\ \E d \in Data \ touched :
       /\ \/ d \in text.keepData
          \/ ~ text.whole /\ d \in text.publicData
          \/ \E b \in entered : d \in text.reads[b]
          \/ \E e \in touched : d \in text.points[e]
       /\ touched' = touched \cup {d}
  /\ UNCHANGED <<text, phase, pending, reachable, work, referenced, entered>>

Pass == Explore \/ Regroup \/ NameData \/ ScanData \/ Rebuild
Next == Pass \/ Enter \/ Touch

\* The pass is a loop that Python runs to its end.
Spec == Init /\ [][Next]_vars /\ WF_vars(Pass)

-----------------------------------------------------------------------------
(* Properties *)

TypeOK ==
  /\ text \in Texts
  /\ phase \in {"code", "data", "run"}
  /\ pending \subseteq Blocks
  /\ reachable \subseteq Blocks
  /\ work \subseteq Data
  /\ referenced \subseteq Data
  /\ entered \subseteq Blocks
  /\ touched \subseteq Data

\* Whatever order its jumps, fall-throughs and calls through pointers come
\* in, the program never enters a block and never touches data that the pass
\* removed (_explore, _find_referenced_data, and main.py's entry points).
StaysInside ==
  entered \subseteq reachable /\ touched \subseteq referenced

\* A set of blocks that control that starts at the entry points cannot leave.
Closed(t, S) ==
  /\ EntryPoints(t) \subseteq S
  /\ \A b \in S : t.jumps[b] \cup RunsOn(t, b) \subseteq S
  /\ \A g \in t.noopt : g \cap S # {} => g \subseteq S

\* Nothing stays that no entry point needs: every set of blocks that holds
\* the entry points and that control cannot leave holds all live blocks.
\* A function that nothing reaches goes with the assembly inside it, and a
\* file-scope region does not drag in the function after it.
OnlyNeeded ==
  \A S \in SUBSET Blocks : Closed(text, S) => reachable \subseteq S

\* The output keeps an optnone function whole, and each function a live line
\* names keeps its label: the text still assembles.
LabelsDefined ==
  phase = "run" =>
    /\ \A b \in reachable :
         /\ text.jumps[b] \cup text.takes[b] \subseteq reachable
         /\ text.reads[b] \subseteq referenced
    /\ \A d \in referenced :
         text.tables[d] \subseteq reachable /\ text.points[d] \subseteq referenced
    /\ \A g \in text.noopt : g \cap reachable # {} => g \subseteq reachable

\* The pass ends, whatever the text (the two worklists and the group loop).
PassEnds == <>(phase = "run")
=============================================================================
