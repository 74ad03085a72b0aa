----------------------------- MODULE WorkAreas -----------------------------
(***************************************************************************)
(* The work areas of the runtime under interrupts: isr_check.py, the part  *)
(* of main.py that calls it, the prologue and epilogue of an interrupt     *)
(* function (codegen.py) and the routines __wasv_ and __wars_ (lib/rt).    *)
(*                                                                         *)
(* Routines of the runtime keep temporaries at fixed addresses.  The       *)
(* compiler follows each handler through the assembly text to find which   *)
(* of them it can reach, and lets its prologue copy them to the stack and  *)
(* its epilogue copy them back; it warns of the rest.  The second half of  *)
(* the module runs the handlers of the compiled program on each other.     *)
(***************************************************************************)
EXTENDS Integers, Sequences

CONSTANTS
  Labels,       \* labels of code
  Statics,      \* labels of data at fixed addresses
  Blocks,       \* named COMMON blocks: the data of a library module
  StateBlocks,  \* STATE_BLOCKS: those that hold state, not temporaries
  Own,          \* stands for a block: the variables of the program
  Alternate,    \* the alternate registers
  Main,         \* whoever is not a handler
  Programs,     \* what is compiled
  MaxDepth      \* handlers that run on each other

(***************************************************************************)
(* A program is the graph that _parse_unit reads.  jumps: labels that a    *)
(* region names in CALL, JP, JR.  names: those it names otherwise.  lists: *)
(* those in tables of its library module.  next: the region it falls into. *)
(* pointer: regions with a JP (HL) that is not a switch.                   *)
(* code: regions with code of their own.  local: labels that start with @  *)
(* or ?.  defined: labels with a region.  library: those of library text.  *)
(* tables: labels that a table of the program, or the code generator's     *)
(* list of functions whose address is taken, names.  exx: regions that use *)
(* the alternate registers.  text: the zeroed data of the program text in  *)
(* order, unsized those whose size it does not tell; a static that is not  *)
(* in it is in a library module.  helpers: blocks with routines __wasv_    *)
(* and __wars_.  asked: handlers with the pragma.  optIn, optOut:          *)
(* --isr-save-workareas, --no-isr-save-workareas.                          *)
(***************************************************************************)
Program ==
  [jumps : [Labels -> SUBSET (Labels \cup Statics)],
   names : [Labels -> SUBSET (Labels \cup Statics)],
   lists : [Labels -> SUBSET Labels], next : [Labels -> SUBSET Labels],
   pointer : SUBSET Labels, code : SUBSET Labels, local : SUBSET Labels,
   defined : SUBSET Labels, library : SUBSET Labels, tables : SUBSET Labels,
   exx : SUBSET Labels,
   block : [Statics -> Blocks \cup {Own}],
   text : Seq(Statics), unsized : SUBSET Statics, helpers : SUBSET Blocks,
   handlers : SUBSET Labels, naked : SUBSET Labels, asked : SUBSET Labels,
   whole : BOOLEAN, optIn : BOOLEAN, optOut : BOOLEAN]

InText(p) == {p.text[i] : i \in DOMAIN p.text}
Here(p, b) == {i \in DOMAIN p.text : p.block[p.text[i]] = b}

\* A block is in the text with all its labels or with none.
ASSUME ProgramsAssumption ==
  /\ Programs \subseteq Program
  /\ \A p \in Programs :
       /\ p.handlers \subseteq p.defined
       /\ \A l \in Labels : p.next[l] \subseteq p.defined
       /\ \A s \in Statics : Here(p, p.block[s]) # {} => s \in InText(p)

ASSUME NamesAssumption ==
  /\ StateBlocks \subseteq Blocks /\ Own \notin Blocks
  /\ Statics \cap (Blocks \cup {Own, Alternate}) = {}
  /\ Alternate \notin Blocks \cup {Own}
  /\ Main \notin Labels
  /\ MaxDepth \in Nat

VARIABLES
  prog,      \* the program, never written
  phase,     \* "compile", "run" or "rejected"
  plan,      \* plan[h]: areas that the prologue of h saves
  warned,    \* warned[h]: blocks a warning names for h
  unknown,   \* handlers with a warning for a routine no text defines
  mem,       \* mem[c]: which cell this was stored to, by whom, how deep
  stack      \* the handlers that run

vars == <<prog, phase, plan, warned, unknown, mem, stack>>
compiled == <<prog, phase, plan, warned, unknown>>

-----------------------------------------------------------------------------
(* What a handler reaches: isr_check.analyze *)

\* Regions that run into code: an alias stands for what it falls into.
LeadsToCode(p) ==
  {l \in p.defined : \A S \in SUBSET p.defined :
     (p.code \cap p.defined \subseteq S /\ \A x \in p.defined : p.next[x] \cap S # {} => x \in S)
       => l \in S}

Functions(p) == LeadsToCode(p) \ p.local

\* Functions whose address the program takes, and a library region takes.
Taken(p) ==
  (Functions(p) \cap (p.tables \cup UNION {p.names[l] : l \in p.defined \ p.library}))
    \ p.handlers
TakenBy(p, l) == IF l \in p.library THEN Functions(p) \cap (p.names[l] \cup p.lists[l]) ELSE {}

\* A call to a data label is a call through a trampoline in RAM.
\* (Mutant: that is not seen.)
OnlyPointers(p, l) == l \in p.pointer
Indirect(p, l) == l \in p.pointer \/ p.jumps[l] \cap Statics # {}

\* _reach: a set that holds h and all its regions lead to.
Follows(p, h, S) ==
  /\ h \in S
  /\ \A l \in S :
       /\ (p.jumps[l] \cup p.names[l] \cup p.next[l]) \cap p.defined \subseteq S
       /\ Indirect(p, l) => Taken(p) \cup UNION {TakenBy(p, x) : x \in S} \subseteq S
Reached(p, h) ==
  {l \in p.defined : \A S \in SUBSET p.defined : Follows(p, h, S) => l \in S}

\* IsrReport.fixed, the key; IsrReport.unknown; IsrReport.alt_chain.
Touched(p, L) == Statics \cap UNION {p.jumps[l] \cup p.names[l] : l \in L}
Fixed(p, h) == {p.block[s] : s \in Touched(p, Reached(p, h))} \ {Own}
Unknown(p, h) == (Labels \cap UNION {p.jumps[l] : l \in Reached(p, h)}) \ p.defined
NeedsAlternate(p, h) == Reached(p, h) \cap p.exx # {} /\ h \notin p.naked

-----------------------------------------------------------------------------
(* What its prologue saves: save_plan and main.py *)

\* Blocks that the save can cover.
\* (Mutants: state is saved like temporaries; a size may be unknown.)
CoversState(p, h) ==
  {b \in Fixed(p, h) :
     IF Here(p, b) = {} THEN b \in p.helpers
     ELSE \A i \in Here(p, b) : p.text[i] \notin p.unsized}
Covers(p, h) ==
  {b \in Fixed(p, h) \ StateBlocks :
     IF Here(p, b) = {} THEN b \in p.helpers
     ELSE \A i \in Here(p, b) : p.text[i] \notin p.unsized}

\* Labels that follow each other in the text join into one area.
\* (Mutant: from the first chosen label to the last, whatever lies between.)
FirstToLast(p, B) ==
  LET I == UNION {Here(p, b) : b \in B}
  IN {{p.text[j] : j \in {x \in DOMAIN p.text : \E lo, hi \in I : lo <= x /\ x <= hi}}}
Joined(p, B) ==
  LET I == UNION {Here(p, b) : b \in B}
      With(i) == {j \in I : i .. j \cup j .. i \subseteq I}
  IN {{p.text[j] : j \in With(i)} : i \in I}

\* A block that is not in the text is a cell of its own.
Elsewhere(p, B) == {{b} : b \in {x \in B : Here(p, x) = {}}}

Explicit(p, h) == p.optIn \/ h \in p.asked

\* main.py stops: a naked handler saves nothing, and a part of a program
\* does not show what a handler reaches.
Rejected(p) ==
  \E h \in p.handlers :
    \/ h \in p.asked \cap p.naked
    \/ /\ h \notin p.naked /\ Explicit(p, h) /\ ~ p.whole
       /\ (h \in p.asked \/ Fixed(p, h) # {} \/ Unknown(p, h) # {})

Saves(p, h) ==
  /\ h \notin p.naked /\ p.whole
  /\ Explicit(p, h) \/ (~ p.optOut /\ Fixed(p, h) # {})

Saved(p, h) == IF Saves(p, h) THEN Covers(p, h) ELSE {}

\* The areas of the prologue, in any order: they do not meet.
Plan(p, h) ==
  Joined(p, Saved(p, h)) \cup Elsewhere(p, Saved(p, h))
    \cup (IF NeedsAlternate(p, h) THEN {{Alternate}} ELSE {})

\* format_reports.
Warned(p, h) == Fixed(p, h) \ Saved(p, h)

-----------------------------------------------------------------------------
(* The memory *)

Cells == Statics \cup Blocks \cup {Own, Alternate}

\* A label of the text is a cell, a block of another module is one.
Cell(p, s) == IF s \in InText(p) THEN s ELSE p.block[s]
CellsIn(p, B) == {Cell(p, s) : s \in {x \in Statics : p.block[x] \in B}}

\* Cells that must be as they were found when a handler is done.
Temporaries(p) == CellsIn(p, Blocks \ StateBlocks) \cup {Alternate}

Value(c, h, d) == [cell |-> c, by |-> h, depth |-> d]
Top == stack[Len(stack)]
SetTop(a) == [stack EXCEPT ![Len(stack)] = a]

\* What a region stores to; a routine that no text defines, to any of the
\* library's.
Stores(l) ==
  IF l \in prog.defined
    THEN {Cell(prog, s) : s \in Touched(prog, {l})}
           \cup (IF l \in prog.exx THEN {Alternate} ELSE {})
    ELSE CellsIn(prog, Blocks) \cup {Alternate}

\* Where a pointer can lead a handler that has been in the regions S: to a
\* function whose address the program takes, or a library region of S.
Targets(S) ==
  LET named == prog.tables
                 \cup (UNION {prog.names[l] : l \in prog.defined \ prog.library})
                 \cup (UNION {prog.names[l] \cup prog.lists[l] :
                              l \in S \cap prog.library \cap prog.defined})
  IN (named \cap Functions(prog)) \ prog.handlers

\* Where it goes next: it calls, jumps, falls through, or calls a pointer.
Goes(S) ==
  (UNION {(prog.jumps[l] \cap Labels) \cup prog.next[l] : l \in S \cap prog.defined})
    \cup (UNION {Targets(S) : l \in {y \in S \cap prog.defined :
                   y \in prog.pointer \/ prog.jumps[y] \cap Statics # {}}})

-----------------------------------------------------------------------------
(* The steps *)

Init ==
  /\ prog \in Programs
  /\ phase = "compile"
  /\ plan = [h \in prog.handlers |-> {}]
  /\ warned = [h \in prog.handlers |-> {}]
  /\ unknown = {}
  /\ mem = [c \in Cells |-> Value(c, Main, 0)]
  /\ stack = <<>>

Compile ==
  /\ phase = "compile"
  /\ phase' = IF Rejected(prog) THEN "rejected" ELSE "run"
  /\ plan' = [h \in prog.handlers |-> Plan(prog, h)]
  /\ warned' = [h \in prog.handlers |-> Warned(prog, h)]
  /\ unknown' = {h \in prog.handlers : Unknown(prog, h) # {}}
  /\ UNCHANGED <<prog, mem, stack>>

Interrupt ==
  /\ phase = "run" /\ Len(stack) < MaxDepth
  /\ \E h \in prog.handlers :
       stack' = Append(stack, [fn |-> h, at |-> "prologue", saved |-> <<>>, seen |-> {}])
  /\ UNCHANGED <<compiled, mem>>

AreasSaved(a) == {DOMAIN a.saved[i] : i \in DOMAIN a.saved}

\* The prologue copies an area to the stack.
Save ==
  /\ stack # <<>> /\ Top.at = "prologue"
  /\ \E A \in plan[Top.fn] \ AreasSaved(Top) :
       stack' = SetTop([Top EXCEPT !.saved = Append(@, [c \in A |-> mem[c]])])
  /\ UNCHANGED <<compiled, mem>>

Begin ==
  /\ stack # <<>> /\ Top.at = "prologue"
  /\ plan[Top.fn] \subseteq AreasSaved(Top)
  /\ stack' = SetTop([Top EXCEPT !.at = "body"])
  /\ UNCHANGED <<compiled, mem>>

\* It enters a region, which stores to all it names.
Run ==
  /\ stack # <<>> /\ Top.at = "body"
  /\ \E l \in (Goes(Top.seen) \cup {Top.fn}) \ Top.seen :
       /\ stack' = SetTop([Top EXCEPT !.seen = @ \cup {l}])
       /\ mem' = [c \in DOMAIN mem |->
                    IF c \in Stores(l) THEN Value(c, Top.fn, Len(stack)) ELSE mem[c]]
  /\ UNCHANGED compiled

End ==
  /\ stack # <<>> /\ Top.at = "body" /\ Top.fn \in Top.seen
  /\ stack' = SetTop([Top EXCEPT !.at = "epilogue"])
  /\ UNCHANGED <<compiled, mem>>

\* The epilogue copies back what was saved last.
Restore ==
  /\ stack # <<>> /\ Top.at = "epilogue" /\ Top.saved # <<>>
  /\ LET copy == Top.saved[Len(Top.saved)]
     IN mem' = [c \in DOMAIN mem |-> IF c \in DOMAIN copy THEN copy[c] ELSE mem[c]]
  /\ stack' = SetTop([Top EXCEPT !.saved = SubSeq(@, 1, Len(@) - 1)])
  /\ UNCHANGED compiled

Return ==
  /\ stack # <<>> /\ Top.at = "epilogue" /\ Top.saved = <<>>
  /\ stack' = SubSeq(stack, 1, Len(stack) - 1)
  /\ UNCHANGED <<compiled, mem>>

Next == Compile \/ Interrupt \/ Save \/ Begin \/ Run \/ End \/ Restore \/ Return

Spec == Init /\ [][Next]_vars

-----------------------------------------------------------------------------
(* Properties *)

Values == [cell : Cells, by : prog.handlers \cup {Main}, depth : 0 .. MaxDepth]

\* Type invariant: what the epilogue copies back is the temporaries only.
TypeOK ==
  /\ prog \in Programs
  /\ phase \in {"compile", "run", "rejected"}
  /\ \A h \in prog.handlers :
       plan[h] \subseteq SUBSET Temporaries(prog) /\ warned[h] \subseteq Blocks
  /\ unknown \subseteq prog.handlers
  /\ mem \in [Cells -> Values]
  /\ Len(stack) <= MaxDepth
  /\ \A k \in DOMAIN stack :
       /\ stack[k].fn \in prog.handlers /\ stack[k].seen \subseteq Labels
       /\ stack[k].at \in {"prologue", "body", "epilogue"}
       /\ AreasSaved(stack[k]) \subseteq plan[stack[k].fn]

\* A warning of the compiler covers it: the handler that stored v is named
\* with the block, or with a routine the compiler could not see; a naked
\* handler saves its registers itself.
Excused(c, v) ==
  /\ v.by # Main
  /\ \/ v.by \in unknown
     \/ c = Alternate /\ v.by \in prog.naked
     \/ \E s \in Statics : c = Cell(prog, s) /\ prog.block[s] \in warned[v.by]

\* What an interrupted routine left at a fixed address is what it finds
\* there: once a handler has returned, whatever ran on top of it, nothing it
\* stored is left in a work area or in the alternate registers, unless the
\* compiler warned (isr_check.py, "an interrupt that arrives inside the
\* routine corrupts the temporaries").
Transparent ==
  \A c \in Temporaries(prog) :
    /\ mem[c].cell = c
    /\ mem[c].depth <= Len(stack) \/ Excused(c, mem[c])

\* The restore never reverts what a handler did for good: neither state of
\* the library (STATE_BLOCKS) nor the program's variables between the areas.
StateNeverReverted ==
  [][phase = "run" /\ stack # <<>> /\ Top.at = "epilogue" =>
       \A c \in Cells \ Temporaries(prog) : mem'[c] = mem[c]]_vars
=============================================================================
