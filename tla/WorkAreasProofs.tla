-------------------------- MODULE WorkAreasProofs --------------------------
(***************************************************************************)
(* Proofs about WorkAreas.  A handler stores only to what the compiler     *)
(* found it can reach (ReachedFollows, Protected), so what it overwrites   *)
(* was saved before its body began, or a warning names it.  The invariant  *)
(* then follows each value through the copies on the stack: what will be   *)
(* in a cell when k handlers are left was stored by one of those k.        *)
(***************************************************************************)
EXTENDS WorkAreas, TLAPS

Copies == UNION {[A -> Values] : A \in SUBSET Temporaries(prog)}
Activations ==
  [fn : prog.handlers, at : {"prologue", "body", "epilogue"},
   saved : Seq(Copies), seen : SUBSET Labels]

\* What the compiler decided, and the types.
Compiled ==
  /\ prog \in Programs
  /\ phase \in {"compile", "run", "rejected"}
  /\ phase = "compile" =>
       /\ plan = [h \in prog.handlers |-> {}]
       /\ warned = [h \in prog.handlers |-> {}]
       /\ unknown = {}
  /\ phase # "compile" =>
       /\ plan = [h \in prog.handlers |-> Plan(prog, h)]
       /\ warned = [h \in prog.handlers |-> Warned(prog, h)]
       /\ unknown = {h \in prog.handlers : Unknown(prog, h) # {}}
Typed ==
  /\ mem \in [Cells -> Values]
  /\ stack \in Seq(Activations) /\ Len(stack) <= MaxDepth
  /\ stack # <<>> => phase = "run"

\* Where handler h can be.
Can(h, l) == l \in Reached(prog, h) \/ (l \notin prog.defined /\ h \in unknown)
InPlace(a) ==
  /\ AreasSaved(a) \subseteq plan[a.fn]
  /\ a.at = "body" => plan[a.fn] \subseteq AreasSaved(a)
  /\ \A l \in a.seen : Can(a.fn, l)
Bodies == \A m \in 1 .. Len(stack) : InPlace(stack[m])

\* One of the first n copies of a holds c.
Holds(a, c, n) == \E i \in 1 .. n : c \in DOMAIN a.saved[i]
HoldsAny(a, c) == Holds(a, c, Len(a.saved))

\* v is as it must be when k handlers are left.
Good(c, v, k) == v.cell = c /\ (v.depth <= k \/ Excused(c, v))
Current ==
  \A c \in Temporaries(prog) : \A k \in 0 .. Len(stack) :
    \/ Good(c, mem[c], k)
    \/ /\ mem[c].cell = c
       /\ \E m \in k + 1 .. Len(stack) : HoldsAny(stack[m], c)
Kept ==
  \A m \in 1 .. Len(stack) : \A i \in 1 .. Len(stack[m].saved) :
    \A c \in DOMAIN stack[m].saved[i] : \A k \in 0 .. m :
      \/ Good(c, stack[m].saved[i][c], k)
      \/ /\ stack[m].saved[i][c].cell = c
         /\ k < m
         /\ Holds(stack[m], c, i - 1) \/ \E n \in k + 1 .. m - 1 : HoldsAny(stack[n], c)

Inv == Compiled /\ Typed /\ Bodies /\ Current /\ Kept

-----------------------------------------------------------------------------
(* The compiler *)

LEMMA RecordTypes ==
  ASSUME NEW p \in Programs
  PROVE  /\ p \in Program
         /\ p.handlers \subseteq Labels /\ p.handlers \subseteq p.defined
         /\ p.defined \subseteq Labels /\ p.library \subseteq Labels
         /\ p.block \in [Statics -> Blocks \cup {Own}]
         /\ p.text \in Seq(Statics)
         /\ \A l \in Labels : p.next[l] \subseteq p.defined
         /\ \A s \in Statics : Here(p, p.block[s]) # {} => s \in InText(p)
  <1>1. p \in Program
    BY ProgramsAssumption
  <1>2. /\ p.handlers \subseteq Labels /\ p.defined \subseteq Labels /\ p.library \subseteq Labels
        /\ p.block \in [Statics -> Blocks \cup {Own}]
        /\ p.text \in Seq(Statics)
    BY <1>1 DEF Program
  <1>3. QED
    BY <1>1, <1>2, ProgramsAssumption

LEMMA FunctionsDefined ==
  ASSUME NEW p
  PROVE  Functions(p) \subseteq p.defined
  BY DEF Functions, LeadsToCode

LEMMA TakenDefined ==
  ASSUME NEW p, NEW l
  PROVE  Taken(p) \subseteq p.defined /\ TakenBy(p, l) \subseteq p.defined
  BY FunctionsDefined DEF Taken, TakenBy

\* What _reach returns is closed under what it follows.
LEMMA ReachedFollows ==
  ASSUME NEW p \in Programs, NEW h \in p.handlers
  PROVE  Reached(p, h) \subseteq p.defined /\ Follows(p, h, Reached(p, h))
  <1>1. Reached(p, h) \subseteq p.defined
    BY DEF Reached
  <1>2. h \in Reached(p, h)
    BY RecordTypes DEF Reached, Follows
  <1>3. ASSUME NEW l \in Reached(p, h)
        PROVE  (p.jumps[l] \cup p.names[l] \cup p.next[l]) \cap p.defined \subseteq Reached(p, h)
    <2>1. SUFFICES ASSUME NEW x \in p.defined, x \in p.jumps[l] \cup p.names[l] \cup p.next[l],
                          NEW S \in SUBSET p.defined, Follows(p, h, S)
                   PROVE  x \in S
      BY DEF Reached
    <2>2. l \in S
      BY <2>1 DEF Reached
    <2>3. QED
      BY <2>1, <2>2 DEF Follows
  <1>4. ASSUME NEW l \in Reached(p, h), Indirect(p, l)
        PROVE  Taken(p) \cup UNION {TakenBy(p, x) : x \in Reached(p, h)} \subseteq Reached(p, h)
    <2>1. SUFFICES ASSUME NEW y \in Taken(p) \cup UNION {TakenBy(p, x) : x \in Reached(p, h)},
                          NEW S \in SUBSET p.defined, Follows(p, h, S)
                   PROVE  y \in S
      BY TakenDefined DEF Reached
    <2>2. Reached(p, h) \subseteq S
      BY <2>1 DEF Reached
    <2>3. Taken(p) \cup UNION {TakenBy(p, x) : x \in S} \subseteq S
      BY <1>4, <2>1, <2>2 DEF Follows
    <2>4. QED
      BY <2>1, <2>2, <2>3
  <1>5. QED
    BY <1>1, <1>2, <1>3, <1>4 DEF Follows

LEMMA FixedBlocks ==
  ASSUME NEW p \in Programs, NEW h
  PROVE  Fixed(p, h) \subseteq Blocks
  BY RecordTypes DEF Fixed, Touched

\* The prologue copies nothing but temporaries.
LEMMA PlanTemporaries ==
  ASSUME NEW p \in Programs, NEW h
  PROVE  Plan(p, h) \subseteq SUBSET Temporaries(p)
  <1>1. Saved(p, h) \subseteq Fixed(p, h) \ StateBlocks
    BY DEF Saved, Covers
  <1>2. Saved(p, h) \subseteq Blocks \ StateBlocks
    BY <1>1, FixedBlocks
  <1>3. ASSUME NEW b \in Saved(p, h), NEW i \in Here(p, b)
        PROVE  p.text[i] \in Temporaries(p)
    <2>1. /\ p.text[i] \in Statics /\ p.text[i] \in InText(p)
          /\ p.block[p.text[i]] \in Blocks \ StateBlocks
      BY <1>2, <1>3, RecordTypes DEF Here, InText
    <2>2. Cell(p, p.text[i]) = p.text[i]
      BY <2>1 DEF Cell
    <2>3. QED
      BY <2>1, <2>2 DEF Temporaries, CellsIn
  <1>4. Joined(p, Saved(p, h)) \subseteq SUBSET Temporaries(p)
    BY <1>3 DEF Joined
  <1>5. ASSUME NEW b \in Saved(p, h), Here(p, b) = {}
        PROVE  b \in Temporaries(p)
    <2>1. PICK s \in Statics : p.block[s] = b
      BY <1>1, <1>5 DEF Fixed, Touched
    <2>2. s \notin InText(p)
      BY <1>5, <2>1 DEF Here, InText
    <2>3. Cell(p, s) = b
      BY <2>1, <2>2 DEF Cell
    <2>4. QED
      BY <1>2, <2>1, <2>3 DEF Temporaries, CellsIn
  <1>6. Elsewhere(p, Saved(p, h)) \subseteq SUBSET Temporaries(p)
    BY <1>5 DEF Elsewhere
  <1>7. {Alternate} \in SUBSET Temporaries(p)
    BY DEF Temporaries
  <1>8. QED
    BY <1>4, <1>6, <1>7 DEF Plan

\* A temporary of a block that the save covers is in an area of the plan.
LEMMA CoveredInPlan ==
  ASSUME NEW p \in Programs, NEW h, NEW s \in Statics, p.block[s] \in Saved(p, h)
  PROVE  \E A \in Plan(p, h) : Cell(p, s) \in A
  <1>1. CASE s \in InText(p)
    <2>1. PICK i \in DOMAIN p.text : p.text[i] = s
      BY <1>1 DEF InText
    <2>2. i \in Here(p, p.block[s]) /\ i \in Nat
      BY <2>1, RecordTypes DEF Here
    <2> DEFINE I == UNION {Here(p, b) : b \in Saved(p, h)}
               With(x) == {j \in I : x .. j \cup j .. x \subseteq I}
    <2>3. i \in I
      BY <2>2
    <2>4. i \in With(i)
      <3>1. i .. i = {i}
        BY <2>2
      <3>2. QED
        BY <2>3, <3>1
    <2>5. {p.text[j] : j \in With(i)} \in Joined(p, Saved(p, h))
      BY <2>3 DEF Joined
    <2>6. Cell(p, s) = p.text[i]
      BY <1>1, <2>1 DEF Cell
    <2> HIDE DEF I, With
    <2>7. QED
      BY <2>4, <2>5, <2>6 DEF Plan
  <1>2. CASE s \notin InText(p)
    <2>1. Here(p, p.block[s]) = {}
      BY <1>2, RecordTypes
    <2>2. {p.block[s]} \in Elsewhere(p, Saved(p, h))
      BY <2>1 DEF Elsewhere
    <2>3. QED
      BY <1>2, <2>2 DEF Plan, Cell
  <1>3. QED
    BY <1>1, <1>2

-----------------------------------------------------------------------------
(* The handlers *)

LEMMA ActivationFields ==
  ASSUME Typed, NEW m \in 1 .. Len(stack)
  PROVE  /\ stack[m] \in Activations
         /\ stack[m].fn \in prog.handlers /\ stack[m].seen \subseteq Labels
         /\ stack[m].saved \in Seq(Copies)
         /\ Len(stack[m].saved) \in Nat
  <1>1. stack[m] \in Activations
    BY DEF Typed
  <1>2. stack[m].saved \in Seq(Copies)
    BY <1>1 DEF Activations
  <1>3. QED
    BY <1>1, <1>2 DEF Activations

\* What a region stores to that a handler reaches, the handler has saved, or
\* a warning covers it.
LEMMA Protected ==
  ASSUME Compiled, phase = "run", NEW h \in prog.handlers, NEW l \in Labels, Can(h, l),
         NEW c \in Temporaries(prog), c \in Stores(l),
         NEW v, v.by = h
  PROVE  Excused(c, v) \/ \E A \in plan[h] : c \in A
  <1>1. h # Main
    BY RecordTypes, NamesAssumption DEF Compiled
  <1>2. plan[h] = Plan(prog, h) /\ warned[h] = Warned(prog, h)
    BY DEF Compiled
  <1>3. CASE h \in unknown
    BY <1>1, <1>3 DEF Excused
  <1>4. CASE h \notin unknown
    <2>1. l \in Reached(prog, h)
      BY <1>4 DEF Can
    <2>2. l \in prog.defined
      BY <2>1, ReachedFollows DEF Compiled
    <2>3. CASE c = Alternate /\ l \in prog.exx
      <3>1. CASE h \in prog.naked
        BY <1>1, <2>3, <3>1 DEF Excused
      <3>2. CASE h \notin prog.naked
        <4>1. NeedsAlternate(prog, h)
          BY <2>1, <2>3, <3>2 DEF NeedsAlternate
        <4>2. QED
          BY <1>2, <2>3, <4>1 DEF Plan
      <3>3. QED
        BY <3>1, <3>2
    <2>4. CASE \E s \in Touched(prog, {l}) : c = Cell(prog, s)
      <3>1. PICK s \in Touched(prog, {l}) : c = Cell(prog, s)
        BY <2>4
      <3>2. s \in Statics /\ s \in Touched(prog, Reached(prog, h))
        BY <2>1 DEF Touched
      <3>3. prog.block[s] \in Blocks \cup {Own}
        BY <3>2, RecordTypes DEF Compiled
      <3>4. c # Alternate
        BY <3>1, <3>2, <3>3, NamesAssumption DEF Cell
      <3>5. PICK r \in Statics : prog.block[r] \in Blocks \ StateBlocks /\ c = Cell(prog, r)
        BY <3>4 DEF Temporaries, CellsIn
      <3>6. prog.block[s] = prog.block[r]
        <4>1. CASE s \in InText(prog)
          BY <3>1, <3>2, <3>5, <4>1, NamesAssumption DEF Cell
        <4>2. CASE s \notin InText(prog)
          BY <3>1, <3>3, <3>5, <4>2, NamesAssumption DEF Cell
        <4>3. QED
          BY <4>1, <4>2
      <3>7. prog.block[s] \in Fixed(prog, h)
        <4>1. prog.block[s] # Own
          BY <3>5, <3>6, NamesAssumption
        <4>2. QED
          BY <3>2, <4>1 DEF Fixed
      <3>8. CASE prog.block[s] \in Saved(prog, h)
        BY <1>2, <3>1, <3>2, <3>8, CoveredInPlan DEF Compiled
      <3>9. CASE prog.block[s] \notin Saved(prog, h)
        <4>1. prog.block[s] \in warned[h]
          BY <1>2, <3>7, <3>9 DEF Warned
        <4>2. QED
          BY <1>1, <3>1, <3>2, <4>1 DEF Excused
      <3>10. QED
        BY <3>8, <3>9
    <2>5. QED
      BY <2>2, <2>3, <2>4 DEF Stores
  <1>5. QED
    BY <1>3, <1>4

\* Wherever a handler goes, the compiler saw it, or knew that it could not.
LEMMA GoesWhereItCan ==
  ASSUME Compiled, phase = "run", NEW h \in prog.handlers, NEW S \in SUBSET Labels,
         \A l \in S : Can(h, l), NEW x \in Goes(S) \cup {h}
  PROVE  x \in Labels /\ Can(h, x)
  <1> DEFINE R == Reached(prog, h)
  <1>1. R \subseteq prog.defined /\ Follows(prog, h, R)
    BY ReachedFollows DEF Compiled
  <1>2. \A l \in S \cap prog.defined : l \in R
    BY DEF Can
  <1>3. /\ prog.handlers \subseteq Labels /\ prog.defined \subseteq Labels
        /\ \A l \in Labels : prog.next[l] \subseteq prog.defined
    BY RecordTypes DEF Compiled
  <1>4. CASE x = h
    BY <1>1, <1>3, <1>4 DEF Follows, Can
  <1>5. ASSUME NEW l \in S \cap prog.defined, x \in prog.jumps[l] \cap Labels
        PROVE  x \in Labels /\ Can(h, x)
    <2>1. CASE x \in prog.defined
      BY <1>1, <1>2, <1>5, <2>1 DEF Follows, Can
    <2>2. CASE x \notin prog.defined
      <3>1. x \in Unknown(prog, h)
        BY <1>2, <1>5, <2>2 DEF Unknown
      <3>2. QED
        BY <1>5, <2>2, <3>1 DEF Compiled, Can
    <2>3. QED
      BY <2>1, <2>2
  <1>6. ASSUME NEW l \in S \cap prog.defined, x \in prog.next[l]
        PROVE  x \in Labels /\ Can(h, x)
    <2>1. x \in prog.defined
      BY <1>3, <1>6
    <2>2. QED
      BY <1>1, <1>2, <1>3, <1>6, <2>1 DEF Follows, Can
  <1>7. ASSUME NEW l \in S \cap prog.defined,
               l \in prog.pointer \/ prog.jumps[l] \cap Statics # {},
               x \in Targets(S)
        PROVE  x \in Labels /\ Can(h, x)
    <2>1. Taken(prog) \cup UNION {TakenBy(prog, y) : y \in R} \subseteq R
      BY <1>1, <1>2, <1>7 DEF Follows, Indirect
    <2>2. x \in Functions(prog) /\ x \notin prog.handlers
      BY <1>7 DEF Targets
    <2>3. CASE x \in prog.tables \cup UNION {prog.names[y] : y \in prog.defined \ prog.library}
      BY <2>1, <2>2, <2>3, <1>1, <1>3 DEF Taken, Can
    <2>4. ASSUME NEW y \in S \cap prog.library \cap prog.defined,
                 x \in prog.names[y] \cup prog.lists[y]
          PROVE  x \in Labels /\ Can(h, x)
      <3>1. x \in TakenBy(prog, y) /\ y \in R
        BY <1>2, <2>2, <2>4 DEF TakenBy
      <3>2. QED
        BY <1>1, <1>3, <2>1, <3>1 DEF Can
    <2>5. QED
      BY <1>7, <2>3, <2>4 DEF Targets
  <1>8. QED
    BY <1>4, <1>5, <1>6, <1>7 DEF Goes

-----------------------------------------------------------------------------
(* The stack *)

LEMMA TemporariesAreCells ==
  ASSUME NEW p \in Programs
  PROVE  Temporaries(p) \subseteq Cells
  BY RecordTypes DEF Temporaries, CellsIn, Cell, Cells

LEMMA TopFields ==
  ASSUME Typed, stack # <<>>
  PROVE  /\ Len(stack) \in Nat \ {0} /\ Len(stack) \in 1 .. Len(stack)
         /\ Top = stack[Len(stack)] /\ Top \in Activations
         /\ Top.fn \in prog.handlers /\ Top.seen \subseteq Labels
         /\ Top.saved \in Seq(Copies) /\ Len(Top.saved) \in Nat
  <1>1. Len(stack) \in Nat \ {0} /\ Len(stack) \in 1 .. Len(stack)
    BY DEF Typed
  <1>2. QED
    BY <1>1, ActivationFields DEF Top

LEMMA NewTop ==
  ASSUME Typed, stack # <<>>, NEW a \in Activations, stack' = SetTop(a)
  PROVE  /\ stack' \in Seq(Activations)
         /\ Len(stack') = Len(stack)
         /\ stack'[Len(stack)] = a
         /\ \A m \in 1 .. Len(stack) - 1 : stack'[m] = stack[m]
  BY DEF Typed, SetTop

\* What a warning excuses stays excused.
LEMMA ExcusedStays ==
  ASSUME Compiled, Next, NEW c, NEW v \in Values, Excused(c, v)
  PROVE  Excused(c, v)'
  <1>1. prog' = prog
    BY DEF Next, Compile, Interrupt, Save, Begin, Run, End, Restore, Return, compiled
  <1>2. CASE Compile
    <2>1. v.by \in prog.handlers
      BY DEF Values, Excused
    <2>2. c = Alternate /\ v.by \in prog.naked
      BY <1>2, <2>1 DEF Compile, Compiled, Excused
    <2>3. QED
      BY <1>1, <2>2 DEF Excused
  <1>3. CASE ~ Compile
    BY <1>1, <1>3 DEF Next, Interrupt, Save, Begin, Run, End, Restore, Return, compiled, Excused
  <1>4. QED
    BY <1>2, <1>3

LEMMA GoodStays ==
  ASSUME Compiled, Next, NEW c, NEW v \in Values, NEW j \in Nat, NEW k \in Nat,
         j <= k, Good(c, v, j)
  PROVE  Good(c, v, k)'
  <1>1. v.depth \in Int
    BY NamesAssumption DEF Values
  <1>2. QED
    BY <1>1, ExcusedStays DEF Good

LEMMA InitInv ==
  Init => Inv
  <1> SUFFICES ASSUME Init PROVE Inv
    OBVIOUS
  <1>1. Compiled
    BY DEF Init, Compiled
  <1>2. \A c \in Cells : Value(c, Main, 0) \in Values
    BY NamesAssumption DEF Value, Values
  <1>3. Typed
    BY <1>2, NamesAssumption DEF Init, Typed
  <1>4. Len(stack) = 0
    BY DEF Init
  <1>5. Current
    <2>1. ASSUME NEW c \in Temporaries(prog) PROVE Good(c, mem[c], 0)
      BY <1>1, <2>1, TemporariesAreCells DEF Init, Compiled, Good, Value
    <2>2. QED
      BY <1>4, <2>1 DEF Current
  <1>6. QED
    BY <1>1, <1>3, <1>4, <1>5 DEF Inv, Bodies, Kept

LEMMA CompileStep ==
  ASSUME Inv, Compile
  PROVE  Inv'
  <1>1. stack = <<>> /\ Len(stack) = 0 /\ stack' = stack /\ mem' = mem /\ prog' = prog
    BY DEF Inv, Typed, Compile
  <1>2. Compiled'
    BY DEF Inv, Compiled, Compile
  <1>3. Typed'
    BY <1>1 DEF Inv, Typed, Activations, Copies, Values
  <1>4. Current'
    <2>1. ASSUME NEW c \in Temporaries(prog), NEW v, v = mem[c]
          PROVE  Good(c, v, 0)'
      <3>1. v \in Values
        BY <2>1, TemporariesAreCells DEF Inv, Compiled, Typed
      <3>2. Good(c, v, 0)
        BY <1>1, <2>1 DEF Inv, Current
      <3>3. QED
        BY <3>1, <3>2, GoodStays DEF Inv, Next
    <2>2. QED
      BY <1>1, <2>1 DEF Current
  <1>5. QED
    BY <1>1, <1>2, <1>3, <1>4 DEF Inv, Bodies, Kept

\* The invariant of the next state, when nothing is compiled, in terms of what
\* the compiler decided in this one.
LEMMA CompiledStays ==
  ASSUME Compiled, UNCHANGED compiled
  PROVE  /\ Compiled'
         /\ prog' = prog /\ phase' = phase /\ plan' = plan
         /\ Values' = Values /\ Activations' = Activations /\ Copies' = Copies
         /\ Temporaries(prog)' = Temporaries(prog)
  BY DEF compiled, Compiled, Values, Activations, Copies

LEMMA TypedAfter ==
  ASSUME Compiled, UNCHANGED compiled, phase = "run",
         mem' \in [Cells -> Values], stack' \in Seq(Activations), Len(stack') <= MaxDepth
  PROVE  Typed'
  <1>1. /\ phase' = phase /\ Values' = Values /\ Activations' = Activations
    BY CompiledStays
  <1>2. QED
    BY <1>1 DEF Typed

LEMMA BodiesAfter ==
  ASSUME UNCHANGED compiled, \A m \in 1 .. Len(stack') : InPlace(stack'[m])
  PROVE  Bodies'
  BY DEF Bodies, InPlace, AreasSaved, Can, compiled

LEMMA CurrentAfter ==
  ASSUME UNCHANGED compiled,
         \A c \in Temporaries(prog) : \A k \in 0 .. Len(stack') :
           \/ Good(c, mem'[c], k)
           \/ /\ mem'[c].cell = c
              /\ \E m \in k + 1 .. Len(stack') : HoldsAny(stack'[m], c)
  PROVE  Current'
  BY DEF Current, Good, Excused, HoldsAny, Holds, compiled

LEMMA KeptAfter ==
  ASSUME UNCHANGED compiled,
         \A m \in 1 .. Len(stack') : \A i \in 1 .. Len(stack'[m].saved) :
           \A c \in DOMAIN stack'[m].saved[i] : \A k \in 0 .. m :
             \/ Good(c, stack'[m].saved[i][c], k)
             \/ /\ stack'[m].saved[i][c].cell = c
                /\ k < m
                /\ Holds(stack'[m], c, i - 1) \/ \E n \in k + 1 .. m - 1 : HoldsAny(stack'[n], c)
  PROVE  Kept'
  <1> SUFFICES ASSUME NEW m \in 1 .. Len(stack'), NEW i \in 1 .. Len(stack'[m].saved),
                      NEW c \in DOMAIN stack'[m].saved[i], NEW k \in 0 .. m
               PROVE  (\/ Good(c, stack[m].saved[i][c], k)
                       \/ /\ stack[m].saved[i][c].cell = c
                          /\ k < m
                          /\ \/ Holds(stack[m], c, i - 1)
                             \/ \E n \in k + 1 .. m - 1 : HoldsAny(stack[n], c))'
    BY DEF Kept
  <1> DEFINE v == stack'[m].saved[i][c]
  <1>1. \/ Good(c, v, k)
        \/ /\ v.cell = c
           /\ k < m
           /\ Holds(stack'[m], c, i - 1) \/ \E n \in k + 1 .. m - 1 : HoldsAny(stack'[n], c)
    OBVIOUS
  <1>2. /\ Holds(stack'[m], c, i - 1) <=> Holds(stack[m], c, i - 1)'
        /\ \A n \in k + 1 .. m - 1 : HoldsAny(stack'[n], c) <=> HoldsAny(stack[n], c)'
    BY DEF HoldsAny, Holds
  <1>3. Good(c, v, k) <=> Good(c, stack[m].saved[i][c], k)'
    BY DEF Good, Excused, compiled
  <1>4. QED
    BY <1>1, <1>2, <1>3

LEMMA GoodDeeper ==
  ASSUME NEW c, NEW v \in Values, NEW j \in Nat, NEW k \in Nat, j <= k, Good(c, v, j)
  PROVE  Good(c, v, k)
  <1>1. v.depth \in Int
    BY NamesAssumption DEF Values
  <1>2. QED
    BY <1>1 DEF Good

LEMMA InterruptStep ==
  ASSUME Inv, Interrupt
  PROVE  Inv'
  <1>1. /\ phase = "run" /\ Compiled /\ Typed /\ UNCHANGED compiled /\ mem' = mem
        /\ Len(stack) \in Nat
    BY DEF Inv, Interrupt, Typed
  <1>2. PICK h \in prog.handlers :
          stack' = Append(stack, [fn |-> h, at |-> "prologue", saved |-> <<>>, seen |-> {}])
    BY DEF Interrupt
  <1> DEFINE new == [fn |-> h, at |-> "prologue", saved |-> <<>>, seen |-> {}]
  <1>3. new \in Activations
    BY DEF Activations
  <1>4. /\ stack' \in Seq(Activations) /\ Len(stack') = Len(stack) + 1
        /\ stack'[Len(stack) + 1] = new
        /\ \A m \in 1 .. Len(stack) : stack'[m] = stack[m]
    BY <1>1, <1>2, <1>3 DEF Typed
  <1>5. Len(new.saved) = 0 /\ new.seen = {} /\ new.at # "body" /\ AreasSaved(new) = {}
    BY DEF AreasSaved
  <1> HIDE DEF new
  <1>6. Typed'
    <2>1. Len(stack') <= MaxDepth /\ mem' \in [Cells -> Values]
      BY <1>1, <1>4, NamesAssumption DEF Typed, Interrupt
    <2>2. QED
      BY <1>1, <1>4, <2>1, TypedAfter
  <1>7. Bodies'
    <2>1. InPlace(new)
      BY <1>5 DEF InPlace
    <2>2. QED
      BY <1>1, <1>4, <2>1, BodiesAfter DEF Inv, Bodies
  <1>8. Current'
    <2>1. ASSUME NEW c \in Temporaries(prog), NEW k \in 0 .. Len(stack')
          PROVE  \/ Good(c, mem'[c], k)
                 \/ /\ mem'[c].cell = c
                    /\ \E m \in k + 1 .. Len(stack') : HoldsAny(stack'[m], c)
      <3>1. CASE k <= Len(stack)
        <4>1. \/ Good(c, mem[c], k)
              \/ /\ mem[c].cell = c
                 /\ \E m \in k + 1 .. Len(stack) : HoldsAny(stack[m], c)
          BY <1>1, <3>1 DEF Inv, Current
        <4>2. \A m \in k + 1 .. Len(stack) : m \in k + 1 .. Len(stack') /\ stack'[m] = stack[m]
          BY <1>1, <1>4
        <4>3. QED
          BY <1>1, <4>1, <4>2
      <3>2. CASE k = Len(stack) + 1
        <4>1. Good(c, mem[c], Len(stack))
          BY <1>1 DEF Inv, Current
        <4>2. mem[c] \in Values
          BY <1>1, TemporariesAreCells DEF Typed, Compiled
        <4>3. QED
          BY <1>1, <3>2, <4>1, <4>2, GoodDeeper
      <3>3. QED
        BY <1>1, <1>4, <3>1, <3>2
    <2>2. QED
      BY <1>1, <2>1, CurrentAfter
  <1>9. Kept'
    <2>1. ASSUME NEW m \in 1 .. Len(stack'), NEW i \in 1 .. Len(stack'[m].saved),
                 NEW c \in DOMAIN stack'[m].saved[i], NEW k \in 0 .. m
          PROVE  \/ Good(c, stack'[m].saved[i][c], k)
                 \/ /\ stack'[m].saved[i][c].cell = c
                    /\ k < m
                    /\ Holds(stack'[m], c, i - 1) \/ \E n \in k + 1 .. m - 1 : HoldsAny(stack'[n], c)
      <3>1. m \in 1 .. Len(stack)
        BY <1>1, <1>4, <1>5
      <3>2. /\ stack'[m] = stack[m]
            /\ \A n \in k + 1 .. m - 1 : stack'[n] = stack[n]
        BY <1>1, <1>4, <3>1
      <3>3. QED
        BY <3>1, <3>2 DEF Inv, Kept
    <2>2. QED
      BY <1>1, <2>1, KeptAfter
  <1>10. QED
    BY <1>1, <1>6, <1>7, <1>8, <1>9, CompiledStays DEF Inv

\* Steps that change the top activation.
LEMMA TopTyped ==
  ASSUME Inv, stack # <<>>, UNCHANGED compiled, NEW a \in Activations, stack' = SetTop(a),
         mem' \in [Cells -> Values]
  PROVE  Typed'
  <1>1. Len(stack') = Len(stack) /\ stack' \in Seq(Activations)
    BY NewTop DEF Inv
  <1>2. Len(stack) <= MaxDepth /\ phase = "run" /\ Compiled
    BY DEF Inv, Typed
  <1>3. QED
    BY <1>1, <1>2, TypedAfter

LEMMA TopInPlace ==
  ASSUME Inv, stack # <<>>, UNCHANGED compiled, NEW a \in Activations, stack' = SetTop(a),
         InPlace(a)
  PROVE  Bodies'
  <1>1. ASSUME NEW m \in 1 .. Len(stack') PROVE InPlace(stack'[m])
    BY NewTop, TopFields DEF Inv, Bodies
  <1>2. QED
    BY <1>1, BodiesAfter

\* Values that change no copy: the ones stored, if the top activation holds
\* what they replace.
LEMMA TopStores ==
  ASSUME Inv, stack # <<>>, UNCHANGED compiled, NEW a \in Activations, stack' = SetTop(a),
         a.saved = Top.saved, mem' \in [Cells -> Values],
         \A c \in Temporaries(prog) :
           mem'[c] # mem[c] =>
             /\ Good(c, mem'[c], Len(stack))
             /\ (\A k \in 0 .. Len(stack) : Good(c, mem'[c], k)) \/ HoldsAny(a, c)
  PROVE  Current' /\ Kept'
  <1> DEFINE L == Len(stack)
  <1>1. /\ L \in Nat \ {0} /\ Len(stack') = L /\ Top = stack[L]
        /\ stack'[L] = a /\ \A m \in 1 .. L - 1 : stack'[m] = stack[m]
    BY NewTop, TopFields DEF Inv
  <1> HIDE DEF L
  <1>2. \A m \in 1 .. L : stack'[m].saved = stack[m].saved
    BY <1>1
  <1>3. \A m \in 1 .. L : \A c : \A n : Holds(stack'[m], c, n) <=> Holds(stack[m], c, n)
    BY <1>2 DEF Holds
  <1>4. \A m \in 1 .. L : \A c : HoldsAny(stack'[m], c) <=> HoldsAny(stack[m], c)
    BY <1>2 DEF Holds, HoldsAny
  <1>5. Current'
    <2>1. ASSUME NEW c \in Temporaries(prog), NEW k \in 0 .. Len(stack')
          PROVE  \/ Good(c, mem'[c], k)
                 \/ /\ mem'[c].cell = c
                    /\ \E m \in k + 1 .. Len(stack') : HoldsAny(stack'[m], c)
      <3>1. CASE mem'[c] = mem[c]
        <4>1. \/ Good(c, mem[c], k)
              \/ /\ mem[c].cell = c
                 /\ \E m \in k + 1 .. L : HoldsAny(stack[m], c)
          BY <1>1 DEF Inv, Current, L
        <4>2. \A m \in k + 1 .. L : m \in 1 .. L
          BY <1>1
        <4>3. QED
          BY <1>1, <1>4, <3>1, <4>1, <4>2
      <3>2. CASE mem'[c] # mem[c]
        <4>1. Good(c, mem'[c], L) /\ mem'[c].cell = c
          BY <3>2 DEF Good, L
        <4>2. CASE k = L
          BY <4>1, <4>2
        <4>3. CASE k # L
          <5>1. L \in k + 1 .. Len(stack')
            BY <1>1, <4>3
          <5>2. Good(c, mem'[c], k) \/ HoldsAny(stack'[L], c)
            BY <1>1, <3>2 DEF L
          <5>3. QED
            BY <4>1, <5>1, <5>2
        <4>4. QED
          BY <4>2, <4>3
      <3>3. QED
        BY <3>1, <3>2
    <2>2. QED
      BY <2>1, CurrentAfter
  <1>6. Kept'
    <2>1. ASSUME NEW m \in 1 .. Len(stack'), NEW i \in 1 .. Len(stack'[m].saved),
                 NEW c \in DOMAIN stack'[m].saved[i], NEW k \in 0 .. m
          PROVE  \/ Good(c, stack'[m].saved[i][c], k)
                 \/ /\ stack'[m].saved[i][c].cell = c
                    /\ k < m
                    /\ Holds(stack'[m], c, i - 1) \/ \E n \in k + 1 .. m - 1 : HoldsAny(stack'[n], c)
      <3>1. stack'[m].saved = stack[m].saved /\ m \in 1 .. L
        BY <1>1, <1>2
      <3>2. \/ Good(c, stack[m].saved[i][c], k)
            \/ /\ stack[m].saved[i][c].cell = c
               /\ k < m
               /\ Holds(stack[m], c, i - 1) \/ \E n \in k + 1 .. m - 1 : HoldsAny(stack[n], c)
        BY <3>1 DEF Inv, Kept, L
      <3>3. \A n \in k + 1 .. m - 1 : n \in 1 .. L
        BY <1>1, <3>1
      <3>4. QED
        BY <1>3, <1>4, <3>1, <3>2, <3>3
    <2>2. QED
      BY <2>1, KeptAfter
  <1>7. QED
    BY <1>5, <1>6

LEMMA BeginStep ==
  ASSUME Inv, Begin
  PROVE  Inv'
  <1>1. stack # <<>> /\ UNCHANGED compiled /\ mem' = mem /\ mem \in [Cells -> Values]
    BY DEF Begin, Inv, Typed
  <1> DEFINE a == [Top EXCEPT !.at = "body"]
  <1>2. /\ a \in Activations /\ a.saved = Top.saved /\ a.fn = Top.fn /\ a.seen = Top.seen
        /\ stack' = SetTop(a)
    BY <1>1, TopFields DEF Begin, Inv, Activations
  <1>3. InPlace(a)
    <2>1. InPlace(Top) /\ plan[Top.fn] \subseteq AreasSaved(Top)
      BY <1>1, TopFields DEF Begin, Inv, Bodies
    <2>2. AreasSaved(a) = AreasSaved(Top)
      BY <1>2 DEF AreasSaved
    <2> HIDE DEF a
    <2>3. QED
      BY <1>2, <2>1, <2>2 DEF InPlace
  <1> HIDE DEF a
  <1>4. QED
    BY <1>1, <1>2, <1>3, TopTyped, TopInPlace, TopStores, CompiledStays DEF Inv

LEMMA EndStep ==
  ASSUME Inv, End
  PROVE  Inv'
  <1>1. stack # <<>> /\ UNCHANGED compiled /\ mem' = mem /\ mem \in [Cells -> Values]
    BY DEF End, Inv, Typed
  <1> DEFINE a == [Top EXCEPT !.at = "epilogue"]
  <1>2. /\ a \in Activations /\ a.saved = Top.saved /\ a.fn = Top.fn /\ a.seen = Top.seen
        /\ a.at # "body" /\ stack' = SetTop(a)
    BY <1>1, TopFields DEF End, Inv, Activations
  <1>3. InPlace(a)
    <2>1. InPlace(Top)
      BY <1>1, TopFields DEF Inv, Bodies
    <2>2. AreasSaved(a) = AreasSaved(Top)
      BY <1>2 DEF AreasSaved
    <2> HIDE DEF a
    <2>3. QED
      BY <1>2, <2>1, <2>2 DEF InPlace
  <1> HIDE DEF a
  <1>4. QED
    BY <1>1, <1>2, <1>3, TopTyped, TopInPlace, TopStores, CompiledStays DEF Inv

LEMMA RunStep ==
  ASSUME Inv, Run
  PROVE  Inv'
  <1>1. /\ stack # <<>> /\ Top.at = "body" /\ UNCHANGED compiled
        /\ phase = "run" /\ Compiled /\ mem \in [Cells -> Values]
    BY DEF Run, Inv, Typed
  <1>2. PICK l \in (Goes(Top.seen) \cup {Top.fn}) \ Top.seen :
          /\ stack' = SetTop([Top EXCEPT !.seen = @ \cup {l}])
          /\ mem' = [c \in DOMAIN mem |->
                       IF c \in Stores(l) THEN Value(c, Top.fn, Len(stack)) ELSE mem[c]]
    BY DEF Run
  <1>3. InPlace(Top) /\ Top.fn \in prog.handlers /\ Top.seen \in SUBSET Labels
    BY <1>1, TopFields DEF Inv, Bodies
  <1>4. l \in Labels /\ Can(Top.fn, l)
    BY <1>1, <1>2, <1>3, GoesWhereItCan DEF InPlace
  <1> DEFINE a == [Top EXCEPT !.seen = @ \cup {l}]
  <1>5. /\ a \in Activations /\ a.saved = Top.saved /\ a.fn = Top.fn /\ a.at = Top.at
        /\ a.seen = Top.seen \cup {l} /\ stack' = SetTop(a)
    BY <1>1, <1>2, <1>4, TopFields DEF Inv, Activations
  <1>6. AreasSaved(a) = AreasSaved(Top)
    BY <1>5 DEF AreasSaved
  <1> HIDE DEF a
  <1>7. InPlace(a)
    BY <1>3, <1>4, <1>5, <1>6 DEF InPlace
  <1>8. Len(stack) \in 0 .. MaxDepth /\ Len(stack) \in Nat
    BY TopFields, <1>1, NamesAssumption DEF Inv, Typed
  <1>9. mem' \in [Cells -> Values]
    <2>1. \A c \in Cells : Value(c, Top.fn, Len(stack)) \in Values
      BY <1>3, <1>8 DEF Value, Values
    <2>2. QED
      BY <1>1, <1>2, <2>1
  <1>10. ASSUME NEW c \in Temporaries(prog), mem'[c] # mem[c]
         PROVE  /\ Good(c, mem'[c], Len(stack))
                /\ (\A k \in 0 .. Len(stack) : Good(c, mem'[c], k)) \/ HoldsAny(a, c)
    <2>1. c \in Cells
      BY <1>1, TemporariesAreCells DEF Compiled
    <2>2. c \in Stores(l) /\ mem'[c] = Value(c, Top.fn, Len(stack))
      BY <1>1, <1>2, <1>10, <2>1
    <2> DEFINE v == Value(c, Top.fn, Len(stack))
    <2>3. v.cell = c /\ v.by = Top.fn /\ v.depth = Len(stack)
      BY DEF Value
    <2> HIDE DEF v
    <2>4. Good(c, v, Len(stack))
      BY <1>8, <2>3 DEF Good
    <2>5. CASE Excused(c, v)
      BY <2>2, <2>3, <2>4, <2>5 DEF Good, v
    <2>6. CASE \E A \in plan[Top.fn] : c \in A
      <3>1. PICK A \in AreasSaved(a) : c \in A
        BY <1>1, <1>3, <1>6, <2>6 DEF InPlace
      <3>2. PICK i \in DOMAIN a.saved : c \in DOMAIN a.saved[i]
        BY <3>1 DEF AreasSaved
      <3>3. DOMAIN a.saved = 1 .. Len(a.saved)
        BY <1>1, <1>5, TopFields DEF Inv
      <3>4. QED
        BY <2>2, <2>4, <3>2, <3>3 DEF v, HoldsAny, Holds
    <2>7. QED
      BY <1>1, <1>3, <1>4, <2>2, <2>3, <2>5, <2>6, Protected
  <1>11. QED
    BY <1>1, <1>5, <1>7, <1>9, <1>10, TopTyped, TopInPlace, TopStores, CompiledStays DEF Inv

\* The domain of a copy is an area of the plan.
LEMMA CopyAreas ==
  ASSUME Inv, NEW m \in 1 .. Len(stack), NEW i \in 1 .. Len(stack[m].saved)
  PROVE  /\ stack[m].saved[i] \in [DOMAIN stack[m].saved[i] -> Values]
         /\ DOMAIN stack[m].saved[i] \subseteq Temporaries(prog)
  <1>1. stack[m].saved[i] \in Copies
    BY ActivationFields DEF Inv
  <1>2. QED
    BY <1>1 DEF Copies

LEMMA PlansTemporaries ==
  ASSUME Compiled, NEW h \in prog.handlers
  PROVE  plan[h] \subseteq SUBSET Temporaries(prog)
  BY PlanTemporaries DEF Compiled

LEMMA SaveStep ==
  ASSUME Inv, Save
  PROVE  Inv'
  <1> DEFINE L == Len(stack)
  <1>1. /\ stack # <<>> /\ Top.at = "prologue" /\ UNCHANGED compiled /\ mem' = mem
        /\ Compiled /\ Typed /\ mem \in [Cells -> Values]
    BY DEF Save, Inv, Typed
  <1>2. PICK A \in plan[Top.fn] \ AreasSaved(Top) :
          stack' = SetTop([Top EXCEPT !.saved = Append(@, [c \in A |-> mem[c]])])
    BY DEF Save
  <1> DEFINE copy == [c \in A |-> mem[c]]
             a == [Top EXCEPT !.saved = Append(@, copy)]
             n == Len(Top.saved)
  <1>3. /\ Top \in Activations /\ Top.fn \in prog.handlers /\ Top.saved \in Seq(Copies)
        /\ n \in Nat /\ L \in Nat \ {0} /\ Top = stack[L] /\ InPlace(Top)
    BY <1>1, TopFields DEF Inv, Bodies
  <1>4. A \subseteq Temporaries(prog)
    BY <1>1, <1>2, <1>3, PlansTemporaries
  <1>5. copy \in Copies /\ DOMAIN copy = A
    <2>1. A \subseteq Cells
      BY <1>1, <1>4, TemporariesAreCells DEF Compiled
    <2>2. copy \in [A -> Values]
      BY <1>1, <2>1
    <2>3. QED
      BY <1>4, <2>2 DEF Copies
  <1> HIDE DEF copy, n, L
  <1>6. /\ a.saved = Append(Top.saved, copy) /\ a.saved \in Seq(Copies) /\ Len(a.saved) = n + 1
        /\ a.saved[n + 1] = copy /\ \A i \in 1 .. n : a.saved[i] = Top.saved[i]
        /\ a.fn = Top.fn /\ a.at = "prologue" /\ a.seen = Top.seen
    BY <1>1, <1>3, <1>5 DEF Activations, n
  <1>7. a \in Activations
    BY <1>3, <1>6 DEF Activations
  <1>8. stack' = SetTop(a)
    BY <1>2 DEF copy
  <1> HIDE DEF a
  <1>9. /\ Len(stack') = L /\ stack'[L] = a
        /\ \A m \in 1 .. L - 1 : stack'[m] = stack[m]
    BY <1>1, <1>7, <1>8, NewTop DEF L
  <1>10. Typed'
    BY <1>1, <1>7, <1>8, TopTyped
  <1>11. Bodies'
    <2>1. AreasSaved(a) \subseteq AreasSaved(Top) \cup {A}
      <3>1. DOMAIN a.saved = 1 .. n + 1 /\ DOMAIN Top.saved = 1 .. n
        BY <1>3, <1>6 DEF n
      <3>2. \A i \in 1 .. n + 1 : i \in 1 .. n \/ i = n + 1
        BY <1>3
      <3>3. QED
        BY <1>5, <1>6, <3>1, <3>2 DEF AreasSaved
    <2>2. InPlace(a)
      BY <1>2, <1>3, <1>6, <2>1 DEF InPlace
    <2>3. QED
      BY <1>1, <1>7, <1>8, <2>2, TopInPlace
  <1>12. \A c : \A i \in 1 .. n + 1 : Holds(Top, c, i - 1) => Holds(a, c, i - 1)
    <2>1. SUFFICES ASSUME NEW c, NEW i \in 1 .. n + 1, NEW j \in 1 .. i - 1,
                          c \in DOMAIN Top.saved[j]
                   PROVE  c \in DOMAIN a.saved[j]
      BY DEF Holds
    <2>2. j \in 1 .. n
      BY <1>3
    <2>3. QED
      BY <1>6, <2>1, <2>2
  <1>13. \A c : HoldsAny(Top, c) => HoldsAny(a, c)
    <2>1. SUFFICES ASSUME NEW c, NEW j \in 1 .. n, c \in DOMAIN Top.saved[j]
                   PROVE  HoldsAny(a, c)
      BY DEF Holds, HoldsAny, n
    <2>2. c \in DOMAIN a.saved[j] /\ j \in 1 .. Len(a.saved)
      BY <1>3, <1>6, <2>1
    <2>3. QED
      BY <2>2 DEF HoldsAny, Holds
  <1>14. Current'
    <2>1. ASSUME NEW c \in Temporaries(prog), NEW k \in 0 .. Len(stack')
          PROVE  \/ Good(c, mem'[c], k)
                 \/ /\ mem'[c].cell = c
                    /\ \E m \in k + 1 .. Len(stack') : HoldsAny(stack'[m], c)
      <3>1. \/ Good(c, mem[c], k)
            \/ /\ mem[c].cell = c
               /\ \E m \in k + 1 .. L : HoldsAny(stack[m], c)
        BY <1>9 DEF Inv, Current, L
      <3>2. \A m \in k + 1 .. L : HoldsAny(stack[m], c) => HoldsAny(stack'[m], c)
        BY <1>3, <1>9, <1>13
      <3>3. QED
        BY <1>1, <1>9, <3>1, <3>2
    <2>2. QED
      BY <1>1, <2>1, CurrentAfter
  <1>15. Kept'
    <2>1. ASSUME NEW m \in 1 .. Len(stack'), NEW i \in 1 .. Len(stack'[m].saved),
                 NEW c \in DOMAIN stack'[m].saved[i], NEW k \in 0 .. m
          PROVE  \/ Good(c, stack'[m].saved[i][c], k)
                 \/ /\ stack'[m].saved[i][c].cell = c
                    /\ k < m
                    /\ Holds(stack'[m], c, i - 1) \/ \E j \in k + 1 .. m - 1 : HoldsAny(stack'[j], c)
      <3>1. m \in 1 .. L /\ \A j \in k + 1 .. m - 1 : stack'[j] = stack[j]
        BY <1>3, <1>9
      <3>2. CASE m # L
        <4>1. stack'[m] = stack[m]
          BY <1>3, <1>9, <3>1, <3>2
        <4>2. QED
          BY <3>1, <4>1 DEF Inv, Kept, L
      <3>3. CASE m = L /\ i # n + 1
        <4>1. stack'[m] = a /\ i \in 1 .. n /\ stack'[m].saved[i] = stack[m].saved[i]
          BY <1>3, <1>6, <1>9, <3>3
        <4>2. \/ Good(c, stack[m].saved[i][c], k)
              \/ /\ stack[m].saved[i][c].cell = c
                 /\ k < m
                 /\ Holds(stack[m], c, i - 1) \/ \E j \in k + 1 .. m - 1 : HoldsAny(stack[j], c)
          <5>1. /\ m \in 1 .. Len(stack) /\ i \in 1 .. Len(stack[m].saved)
                /\ c \in DOMAIN stack[m].saved[i]
            BY <1>3, <3>1, <3>3, <4>1 DEF L, n
          <5>2. QED
            BY <5>1 DEF Inv, Kept
        <4>3. Holds(stack[m], c, i - 1) => Holds(a, c, i - 1)
          BY <1>3, <1>12, <3>3, <4>1
        <4>4. QED
          BY <3>1, <4>1, <4>2, <4>3
      <3>4. CASE m = L /\ i = n + 1
        <4>1. stack'[m] = a /\ stack'[m].saved[i] = copy /\ c \in A
          BY <1>5, <1>6, <1>9, <3>4
        <4>2. stack'[m].saved[i][c] = mem[c]
          BY <4>1 DEF copy
        <4>3. \/ Good(c, mem[c], k)
              \/ /\ mem[c].cell = c
                 /\ \E j \in k + 1 .. L : HoldsAny(stack[j], c)
          BY <1>4, <3>4, <4>1 DEF Inv, Current, L
        <4>4. ASSUME NEW j \in k + 1 .. L, HoldsAny(stack[j], c)
              PROVE  /\ k < m
                     /\ Holds(stack'[m], c, i - 1) \/ \E x \in k + 1 .. m - 1 : HoldsAny(stack'[x], c)
          <5>1. k < m
            BY <1>3, <3>4, <4>4
          <5>2. CASE j = L
            <6>1. Holds(Top, c, i - 1)
              BY <1>3, <3>4, <4>4, <5>2 DEF HoldsAny, n
            <6>2. i \in 1 .. n + 1
              BY <1>3, <3>4
            <6>3. Holds(a, c, i - 1)
              BY <1>12, <6>1, <6>2
            <6>4. QED
              BY <4>1, <5>1, <6>3
          <5>3. CASE j # L
            <6>1. j \in k + 1 .. m - 1
              BY <1>3, <3>4, <5>3
            <6>2. QED
              BY <3>1, <4>4, <5>1, <6>1
          <5>4. QED
            BY <5>2, <5>3
        <4>5. QED
          BY <4>2, <4>3, <4>4
      <3>5. QED
        BY <3>1, <3>2, <3>3, <3>4
    <2>2. QED
      BY <1>1, <2>1, KeptAfter
  <1>16. QED
    BY <1>1, <1>10, <1>11, <1>14, <1>15, CompiledStays DEF Inv

LEMMA RestoreStep ==
  ASSUME Inv, Restore
  PROVE  Inv'
  <1> DEFINE L == Len(stack)
             n == Len(Top.saved)
             copy == Top.saved[n]
             a == [Top EXCEPT !.saved = SubSeq(@, 1, Len(@) - 1)]
  <1>1. /\ stack # <<>> /\ Top.at = "epilogue" /\ Top.saved # <<>> /\ UNCHANGED compiled
        /\ Compiled /\ Typed /\ mem \in [Cells -> Values]
        /\ mem' = [c \in DOMAIN mem |-> IF c \in DOMAIN copy THEN copy[c] ELSE mem[c]]
        /\ stack' = SetTop(a)
    BY DEF Restore, Inv, Typed
  <1>2. /\ Top \in Activations /\ Top.fn \in prog.handlers /\ Top.saved \in Seq(Copies)
        /\ n \in Nat \ {0} /\ L \in Nat \ {0} /\ Top = stack[L] /\ InPlace(Top)
    BY <1>1, TopFields DEF Inv, Bodies
  <1>3. /\ L \in 1 .. Len(stack) /\ n \in 1 .. Len(stack[L].saved)
        /\ copy = stack[L].saved[n]
    BY <1>2
  <1>4. copy \in [DOMAIN copy -> Values] /\ DOMAIN copy \subseteq Temporaries(prog)
    BY <1>3, CopyAreas
  <1>5. DOMAIN copy \subseteq Cells
    BY <1>1, <1>4, TemporariesAreCells DEF Compiled
  <1> HIDE DEF copy, n, L
  <1>6. /\ a.saved = SubSeq(Top.saved, 1, n - 1) /\ a.saved \in Seq(Copies) /\ Len(a.saved) = n - 1
        /\ \A i \in 1 .. n - 1 : a.saved[i] = Top.saved[i]
        /\ a.fn = Top.fn /\ a.at = "epilogue" /\ a.seen = Top.seen
    BY <1>1, <1>2 DEF Activations, n
  <1>7. a \in Activations
    BY <1>2, <1>6 DEF Activations
  <1> HIDE DEF a
  <1>8. /\ Len(stack') = L /\ stack'[L] = a
        /\ \A m \in 1 .. L - 1 : stack'[m] = stack[m]
    BY <1>1, <1>7, NewTop DEF L
  <1>9. Typed'
    <2>1. mem' \in [Cells -> Values]
      BY <1>1, <1>4, <1>5
    <2>2. QED
      BY <1>1, <1>7, <2>1, TopTyped
  <1>10. Bodies'
    <2>1. AreasSaved(a) \subseteq AreasSaved(Top)
      <3>1. DOMAIN a.saved = 1 .. n - 1 /\ DOMAIN Top.saved = 1 .. n
        BY <1>2, <1>6 DEF n
      <3>2. \A i \in 1 .. n - 1 : i \in 1 .. n
        BY <1>2
      <3>3. QED
        BY <1>6, <3>1, <3>2 DEF AreasSaved
    <2>2. InPlace(a)
      BY <1>2, <1>6, <2>1 DEF InPlace
    <2>3. QED
      BY <1>1, <1>7, <2>2, TopInPlace
  <1>11. ASSUME NEW c, NEW i \in 1 .. n, Holds(Top, c, i - 1)
         PROVE  Holds(a, c, i - 1) /\ HoldsAny(a, c)
    <2>1. PICK j \in 1 .. i - 1 : c \in DOMAIN Top.saved[j]
      BY <1>11 DEF Holds
    <2>2. j \in 1 .. n - 1 /\ j \in 1 .. i - 1 /\ j \in 1 .. Len(a.saved)
      BY <1>2, <1>6
    <2>3. c \in DOMAIN a.saved[j]
      BY <1>6, <2>1, <2>2
    <2>4. QED
      BY <2>2, <2>3 DEF Holds, HoldsAny
  <1>12. Current'
    <2>1. ASSUME NEW c \in Temporaries(prog), NEW k \in 0 .. Len(stack')
          PROVE  \/ Good(c, mem'[c], k)
                 \/ /\ mem'[c].cell = c
                    /\ \E m \in k + 1 .. Len(stack') : HoldsAny(stack'[m], c)
      <3>1. c \in Cells /\ k \in 0 .. L
        BY <1>1, <1>8, TemporariesAreCells DEF Compiled
      <3>2. CASE c \in DOMAIN copy
        <4>1. mem'[c] = copy[c]
          BY <1>1, <3>1, <3>2
        <4>2. \/ Good(c, copy[c], k)
              \/ /\ copy[c].cell = c
                 /\ k < L
                 /\ Holds(stack[L], c, n - 1) \/ \E m \in k + 1 .. L - 1 : HoldsAny(stack[m], c)
          BY <1>3, <3>1, <3>2 DEF Inv, Kept
        <4>3. CASE k < L /\ Holds(stack[L], c, n - 1)
          <5>1. HoldsAny(a, c)
            BY <1>2, <1>11, <4>3
          <5>2. L \in k + 1 .. Len(stack')
            BY <1>2, <1>8, <3>1, <4>3
          <5>3. QED
            BY <1>8, <4>1, <4>2, <5>1, <5>2 DEF Good
        <4>4. CASE \E m \in k + 1 .. L - 1 : HoldsAny(stack[m], c)
          <5>1. PICK m \in k + 1 .. L - 1 : HoldsAny(stack[m], c)
            BY <4>4
          <5>2. m \in k + 1 .. Len(stack') /\ stack'[m] = stack[m]
            BY <1>2, <1>8, <3>1
          <5>3. QED
            BY <4>1, <4>2, <5>1, <5>2 DEF Good
        <4>5. QED
          BY <4>1, <4>2, <4>3, <4>4
      <3>3. CASE c \notin DOMAIN copy
        <4>1. mem'[c] = mem[c]
          BY <1>1, <3>1, <3>3
        <4>2. \/ Good(c, mem[c], k)
              \/ /\ mem[c].cell = c
                 /\ \E m \in k + 1 .. L : HoldsAny(stack[m], c)
          BY <3>1 DEF Inv, Current, L
        <4>3. ASSUME NEW m \in k + 1 .. L, HoldsAny(stack[m], c)
              PROVE  HoldsAny(stack'[m], c)
          <5>1. CASE m = L
            <6>1. PICK j \in 1 .. n : c \in DOMAIN Top.saved[j]
              BY <1>2, <4>3, <5>1 DEF HoldsAny, Holds, n
            <6>2. j # n
              BY <3>3, <6>1 DEF copy
            <6>3. Holds(Top, c, n - 1)
              BY <1>2, <6>1, <6>2 DEF Holds
            <6>4. n \in 1 .. n
              BY <1>2
            <6>5. QED
              BY <1>8, <1>11, <5>1, <6>3, <6>4
          <5>2. CASE m # L
            BY <1>2, <1>8, <3>1, <4>3, <5>2
          <5>3. QED
            BY <5>1, <5>2
        <4>4. QED
          BY <1>8, <4>1, <4>2, <4>3
      <3>4. QED
        BY <3>2, <3>3
    <2>2. QED
      BY <1>1, <2>1, CurrentAfter
  <1>13. Kept'
    <2>1. ASSUME NEW m \in 1 .. Len(stack'), NEW i \in 1 .. Len(stack'[m].saved),
                 NEW c \in DOMAIN stack'[m].saved[i], NEW k \in 0 .. m
          PROVE  \/ Good(c, stack'[m].saved[i][c], k)
                 \/ /\ stack'[m].saved[i][c].cell = c
                    /\ k < m
                    /\ Holds(stack'[m], c, i - 1) \/ \E j \in k + 1 .. m - 1 : HoldsAny(stack'[j], c)
      <3>1. /\ m \in 1 .. L /\ m \in 1 .. Len(stack)
            /\ \A j \in k + 1 .. m - 1 : stack'[j] = stack[j]
        BY <1>2, <1>8 DEF L
      <3>2. CASE m # L
        <4>1. stack'[m] = stack[m]
          BY <1>2, <1>8, <3>1, <3>2
        <4>2. QED
          BY <3>1, <4>1 DEF Inv, Kept
      <3>3. CASE m = L
        <4>1. /\ stack'[m] = a /\ i \in 1 .. n - 1 /\ i \in 1 .. n
              /\ stack'[m].saved[i] = stack[m].saved[i]
          BY <1>2, <1>6, <1>8, <3>3
        <4>2. i \in 1 .. Len(stack[m].saved) /\ c \in DOMAIN stack[m].saved[i]
          BY <1>2, <3>3, <4>1 DEF n
        <4>3. \/ Good(c, stack[m].saved[i][c], k)
              \/ /\ stack[m].saved[i][c].cell = c
                 /\ k < m
                 /\ Holds(stack[m], c, i - 1) \/ \E j \in k + 1 .. m - 1 : HoldsAny(stack[j], c)
          BY <3>1, <4>2 DEF Inv, Kept
        <4>4. Holds(stack[m], c, i - 1) => Holds(a, c, i - 1)
          BY <1>2, <1>11, <3>3, <4>1
        <4>5. QED
          BY <3>1, <4>1, <4>3, <4>4
      <3>4. QED
        BY <3>2, <3>3
    <2>2. QED
      BY <1>1, <2>1, KeptAfter
  <1>14. QED
    BY <1>1, <1>9, <1>10, <1>12, <1>13, CompiledStays DEF Inv

LEMMA AllButTheLast ==
  ASSUME NEW S, NEW s \in Seq(S), NEW l \in Nat \ {0}, Len(s) = l
  PROVE  LET t == SubSeq(s, 1, l - 1)
         IN t \in Seq(S) /\ Len(t) = l - 1 /\ \A m \in 1 .. l - 1 : t[m] = s[m]
  OBVIOUS

LEMMA ReturnStep ==
  ASSUME Inv, Return
  PROVE  Inv'
  <1> DEFINE L == Len(stack)
  <1>1. /\ stack # <<>> /\ Top.saved = <<>> /\ UNCHANGED compiled /\ mem' = mem
        /\ Compiled /\ Typed /\ mem \in [Cells -> Values] /\ phase = "run" /\ L <= MaxDepth
        /\ stack \in Seq(Activations) /\ L \in Nat \ {0} /\ stack' = SubSeq(stack, 1, L - 1)
    BY TopFields DEF Return, Inv, Typed
  <1>2. /\ stack' \in Seq(Activations) /\ Len(stack') = L - 1
        /\ \A m \in 1 .. L - 1 : stack'[m] = stack[m]
    BY <1>1, AllButTheLast
  <1>3. \A c : ~ HoldsAny(stack[L], c)
    BY <1>1, TopFields DEF HoldsAny, Holds
  <1> HIDE DEF L
  <1>4. Typed'
    BY <1>1, <1>2, TypedAfter, NamesAssumption
  <1>5. Bodies'
    BY <1>1, <1>2, BodiesAfter DEF Inv, Bodies, L
  <1>6. Current'
    <2>1. ASSUME NEW c \in Temporaries(prog), NEW k \in 0 .. Len(stack')
          PROVE  \/ Good(c, mem'[c], k)
                 \/ /\ mem'[c].cell = c
                    /\ \E m \in k + 1 .. Len(stack') : HoldsAny(stack'[m], c)
      <3>1. k \in 0 .. L
        BY <1>1, <1>2
      <3>2. \/ Good(c, mem[c], k)
            \/ /\ mem[c].cell = c
               /\ \E m \in k + 1 .. L : HoldsAny(stack[m], c)
        BY <3>1 DEF Inv, Current, L
      <3>3. ASSUME NEW m \in k + 1 .. L, HoldsAny(stack[m], c)
            PROVE  m \in k + 1 .. Len(stack') /\ HoldsAny(stack'[m], c)
        <4>1. m # L
          BY <1>3, <3>3
        <4>2. QED
          BY <1>1, <1>2, <3>1, <3>3, <4>1
      <3>4. QED
        BY <1>1, <3>2, <3>3
    <2>2. QED
      BY <1>1, <2>1, CurrentAfter
  <1>7. Kept'
    <2>1. ASSUME NEW m \in 1 .. Len(stack'), NEW i \in 1 .. Len(stack'[m].saved),
                 NEW c \in DOMAIN stack'[m].saved[i], NEW k \in 0 .. m
          PROVE  \/ Good(c, stack'[m].saved[i][c], k)
                 \/ /\ stack'[m].saved[i][c].cell = c
                    /\ k < m
                    /\ Holds(stack'[m], c, i - 1) \/ \E n \in k + 1 .. m - 1 : HoldsAny(stack'[n], c)
      <3>1. /\ m \in 1 .. Len(stack) /\ stack'[m] = stack[m]
            /\ \A n \in k + 1 .. m - 1 : stack'[n] = stack[n]
        BY <1>1, <1>2 DEF L
      <3>2. i \in 1 .. Len(stack[m].saved) /\ c \in DOMAIN stack[m].saved[i]
        BY <3>1
      <3>3. \/ Good(c, stack[m].saved[i][c], k)
            \/ /\ stack[m].saved[i][c].cell = c
               /\ k < m
               /\ Holds(stack[m], c, i - 1) \/ \E n \in k + 1 .. m - 1 : HoldsAny(stack[n], c)
        BY <3>1, <3>2 DEF Inv, Kept
      <3>4. QED
        BY <3>1, <3>3
    <2>2. QED
      BY <1>1, <2>1, KeptAfter
  <1>8. QED
    BY <1>1, <1>4, <1>5, <1>6, <1>7, CompiledStays DEF Inv

LEMMA StutterStep ==
  ASSUME Inv, UNCHANGED vars
  PROVE  Inv'
  <1>1. /\ UNCHANGED compiled /\ mem' = mem /\ stack' = stack
        /\ Compiled /\ Typed
    BY DEF vars, compiled, Inv
  <1>2. Typed'
    BY <1>1 DEF Typed, Activations, Copies, Values, compiled
  <1>3. Bodies'
    BY <1>1, BodiesAfter DEF Inv, Bodies
  <1>4. Current'
    <2>1. \A c \in Temporaries(prog) : \A k \in 0 .. Len(stack') :
            \/ Good(c, mem'[c], k)
            \/ /\ mem'[c].cell = c
               /\ \E m \in k + 1 .. Len(stack') : HoldsAny(stack'[m], c)
      BY <1>1 DEF Inv, Current
    <2>2. QED
      BY <1>1, <2>1, CurrentAfter
  <1>5. Kept'
    <2>1. \A m \in 1 .. Len(stack') : \A i \in 1 .. Len(stack'[m].saved) :
            \A c \in DOMAIN stack'[m].saved[i] : \A k \in 0 .. m :
              \/ Good(c, stack'[m].saved[i][c], k)
              \/ /\ stack'[m].saved[i][c].cell = c
                 /\ k < m
                 /\ Holds(stack'[m], c, i - 1) \/ \E n \in k + 1 .. m - 1 : HoldsAny(stack'[n], c)
      BY <1>1 DEF Inv, Kept
    <2>2. QED
      BY <1>1, <2>1, KeptAfter
  <1>6. QED
    BY <1>1, <1>2, <1>3, <1>4, <1>5, CompiledStays DEF Inv

-----------------------------------------------------------------------------
(* Theorems *)

\* Types, what the compiler decided, and where each value is on its way back
\* (isr_check.py and the handlers it lets the compiler build).
THEOREM WorkAreasInvariant == Spec => []Inv
  <1>1. Inv /\ [Next]_vars => Inv'
    BY CompileStep, InterruptStep, SaveStep, BeginStep, RunStep, EndStep, RestoreStep,
       ReturnStep, StutterStep DEF Next
  <1>2. QED
    BY InitInv, <1>1, PTL DEF Spec

\* What a prologue copies is temporaries only, for every program: neither state
\* of the library nor a variable of the program lies in an area of save_plan.
THEOREM WorkAreasTypes == Spec => []TypeOK
  <1>1. Inv => TypeOK
    <2> SUFFICES ASSUME Inv PROVE TypeOK
      OBVIOUS
    <2>1. Compiled /\ Typed /\ prog \in Programs /\ phase \in {"compile", "run", "rejected"}
      BY DEF Inv, Compiled
    <2>2. ASSUME NEW h \in prog.handlers
          PROVE  plan[h] \subseteq SUBSET Temporaries(prog) /\ warned[h] \subseteq Blocks
      <3>1. warned[h] = {} \/ warned[h] = Warned(prog, h)
        BY <2>1 DEF Compiled
      <3>2. warned[h] \subseteq Blocks
        BY <2>1, <3>1, FixedBlocks DEF Warned
      <3>3. QED
        BY <2>1, <3>2, PlansTemporaries
    <2>3. unknown \subseteq prog.handlers
      BY <2>1 DEF Compiled
    <2>4. mem \in [Cells -> Values] /\ Len(stack) <= MaxDepth /\ DOMAIN stack = 1 .. Len(stack)
      BY <2>1 DEF Typed
    <2>5. ASSUME NEW k \in DOMAIN stack
          PROVE  /\ stack[k].fn \in prog.handlers /\ stack[k].seen \subseteq Labels
                 /\ stack[k].at \in {"prologue", "body", "epilogue"}
                 /\ AreasSaved(stack[k]) \subseteq plan[stack[k].fn]
      <3>1. stack[k] \in Activations /\ InPlace(stack[k])
        BY <2>1, <2>4, ActivationFields DEF Inv, Bodies
      <3>2. QED
        BY <3>1 DEF Activations, InPlace
    <2>6. QED
      BY <2>1, <2>2, <2>3, <2>4, <2>5 DEF TypeOK
  <1>2. QED
    BY <1>1, WorkAreasInvariant, PTL

\* Whatever handlers run on each other, and however deep, a handler that has
\* returned has left nothing in a work area of the runtime or in the alternate
\* registers that the compiler did not warn of.
THEOREM InterruptsTransparent == Spec => []Transparent
  <1>1. Inv => Transparent
    <2> SUFFICES ASSUME Inv, NEW c \in Temporaries(prog)
                 PROVE  mem[c].cell = c /\ (mem[c].depth <= Len(stack) \/ Excused(c, mem[c]))
      BY DEF Transparent
    <2>1. Len(stack) \in Nat
      BY DEF Inv, Typed
    <2>2. Good(c, mem[c], Len(stack))
      BY <2>1 DEF Inv, Current
    <2>3. QED
      BY <2>2 DEF Good
  <1>2. QED
    BY <1>1, WorkAreasInvariant, PTL

\* An epilogue writes back neither state of the library nor a variable of the
\* program, whatever lies next to the areas in the text.
THEOREM StateIsKept == Spec => StateNeverReverted
  <1>1. Inv /\ [Next]_vars =>
          [phase = "run" /\ stack # <<>> /\ Top.at = "epilogue" =>
             \A c \in Cells \ Temporaries(prog) : mem'[c] = mem[c]]_vars
    <2> SUFFICES ASSUME Inv, Next, stack # <<>>, Top.at = "epilogue",
                        NEW c \in Cells \ Temporaries(prog)
                 PROVE  mem'[c] = mem[c]
      BY DEF Next, vars
    <2>1. CASE Restore
      <3>1. /\ Len(stack) \in 1 .. Len(stack) /\ Top = stack[Len(stack)]
            /\ Len(Top.saved) \in 1 .. Len(Top.saved)
        BY <2>1, TopFields DEF Inv, Restore
      <3>2. DOMAIN Top.saved[Len(Top.saved)] \subseteq Temporaries(prog)
        BY <3>1, CopyAreas
      <3>3. c \in DOMAIN mem
        BY DEF Inv, Typed
      <3>4. QED
        BY <2>1, <3>2, <3>3 DEF Restore
    <2>2. CASE Save \/ Begin \/ Run
      BY <2>2 DEF Save, Begin, Run
    <2>3. CASE Compile \/ Interrupt \/ End \/ Return
      BY <2>3 DEF Compile, Interrupt, End, Return
    <2>4. QED
      BY <2>1, <2>2, <2>3 DEF Next
  <1>2. QED
    BY <1>1, WorkAreasInvariant, PTL DEF Spec, StateNeverReverted

=============================================================================
