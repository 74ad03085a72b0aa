-------------------------- MODULE SharedStorage --------------------------
(***************************************************************************)
(* The shared automatic storage of uc80 (CallGraphAnalyzer in codegen.py): *)
(* the compiler drops the functions nothing can enter, works out from the  *)
(* call graph which functions are never active together, and gives the     *)
(* locals of those that cannot be entered twice fixed addresses in one     *)
(* area, ??AUTO, laying the area out greedily.  Then the compiled program  *)
(* runs: calls by name and through pointers, calls out to other modules,   *)
(* and interrupts.                                                         *)
(*                                                                         *)
(* A program is a record:                                                  *)
(*   calls[f]     the functions f calls by name                            *)
(*   takes[f]     the functions whose address the body of f takes          *)
(*   roots        functions named by a global initialiser, by asm text or  *)
(*                by --entry / #pragma keep                                *)
(*   indirect     functions that call through a pointer, or call a library *)
(*                routine that takes a callback (indirect_call_sigs)       *)
(*   external     functions that call into another module                  *)
(*   private      static functions                                         *)
(*   onStack      variadic functions and functions under optnone           *)
(*   size[f]      func_storage: the bytes of f's locals                    *)
(*   isr          the interrupt functions, each with its kind              *)
(*   whole, isrSafe    whole-program mode, --isr-safe                      *)
(* Every function has a body here; routines without one are `indirect' or  *)
(* `external' calls.                                                       *)
(***************************************************************************)
EXTENDS Integers, FiniteSets, Sequences

CONSTANTS Functions,   \* the functions of the translation unit
          Main,        \* main
          NoFunction,  \* no function is being placed
          Programs,    \* the programs compiled, records as above
          Values,      \* what a byte of storage may hold
          Junk,        \* what ??AUTO holds at the start: crt0 need not clear it
          MaxDepth     \* bound: activations at a time

ASSUME FunctionsAssumption ==
  /\ Main \in Functions /\ NoFunction \notin Functions
  /\ IsFiniteSet(Functions)
ASSUME ValuesAssumption == Junk \in Values

Kinds == {"int", "critical", "nmi"}

IsProgram(p) ==
  /\ p.calls \in [Functions -> SUBSET Functions]
  /\ p.takes \in [Functions -> SUBSET Functions]
  /\ p.roots \subseteq Functions
  /\ p.indirect \subseteq Functions /\ p.external \subseteq Functions
  /\ p.private \subseteq Functions \ {Main} /\ p.onStack \subseteq Functions
  /\ p.size \in [Functions -> Nat]
  /\ DOMAIN p.isr \subseteq Functions \ {Main}
  /\ \A f \in DOMAIN p.isr : p.isr[f] \in Kinds
  /\ p.whole \in BOOLEAN /\ p.isrSafe \in BOOLEAN
  \* _check_isr_functions: no C code calls an interrupt function
  /\ DOMAIN p.isr \cap p.roots = {}
  /\ \A f \in Functions : DOMAIN p.isr \cap (p.calls[f] \cup p.takes[f]) = {}

ASSUME ProgramsAssumption == \A p \in Programs : IsProgram(p)

VARIABLES prog,       \* the program
          phase,      \* "eliminate", "analyse", "place", "run"
          live,       \* the functions left after dead-function elimination
          together,   \* can_be_active_together
          todo,       \* shareable_funcs still to place
          cur, at,    \* the function being placed and the offset being tried
          allocated,  \* the regions placed, in order
          total,      \* total_shared_storage: the end of the highest region
          warned,     \* the functions _warn_isr_shared_storage names
          stack,      \* the activations of the running program
          pointers,   \* the functions whose address the program took so far
          mem         \* the bytes of ??AUTO

analysis == <<live, together, warned>>
layout == <<todo, cur, at, allocated, total>>
compile == <<phase, analysis, layout>>
run == <<stack, pointers, mem>>
vars == <<prog, compile, run>>

-----------------------------------------------------------------------------
(* The call graph.                                                         *)

Isrs(p) == DOMAIN p.isr

\* address_taken of the functions in L: bodies, roots, and interrupt vectors
\* (main.py puts every interrupt function among the names to keep)
Taken(p, L) == (UNION {p.takes[f] : f \in L}) \cup p.roots \cup Isrs(p)

Callees(p, L, f) ==
  p.calls[f] \cup (IF f \in p.indirect THEN Taken(p, L) \cap L ELSE {})

\* _get_reachable: one edge or more
Reachable(p, L, f) ==
  {g \in Functions : \A S \in SUBSET Functions :
     (\A h \in S \cup {f} : Callees(p, L, h) \subseteq S) => g \in S}

\* find_live_functions: from main, every taken address and, outside
\* whole-program mode, every function another module can name.  Naked functions,
\* which it adds too, are not modelled; they would only keep more
EntryPointsNoVectors(p) ==
  {Main} \cup (UNION {p.takes[f] : f \in Functions}) \cup p.roots \cup
  (IF p.whole THEN {} ELSE Functions \ p.private)

EntryPoints(p) ==
  {Main} \cup Taken(p, Functions) \cup
  (IF p.whole THEN {} ELSE Functions \ p.private)

Live(p) ==
  {g \in Functions : \A S \in SUBSET Functions :
     (EntryPoints(p) \subseteq S /\ \A h \in S : p.calls[h] \subseteq S) => g \in S}

\* compute_active_together
Entered(p, L, reach) ==
  (Taken(p, L) \cap L) \cup UNION {reach[f] : f \in Taken(p, L) \cap L}

ActiveTogether(p, L, reach) ==
  [f \in L |-> {g \in L :
     \/ g = f \/ g \in reach[f] \/ f \in reach[g]
     \/ f \in Entered(p, L, reach) \/ g \in Entered(p, L, reach)
     \/ ~p.whole /\ f \notin p.private /\ g \notin p.private}]

\* is_recursive.  _can_recurse_via_pointer asks of a taken f whether something
\* it reaches calls through a pointer: then it reaches f, and this says so too
Recursive(reach, f) == f \in reach[f]

IsrReachable(p, reach) == UNION {reach[r] : r \in Isrs(p) \cap DOMAIN reach}

\* can_use_shared_storage
SharesReentrantIsr(p, reach, f) ==
  /\ f \notin p.onStack
  /\ ~Recursive(reach, f)
  /\ ~(p.isrSafe /\ f \in IsrReachable(p, reach))
  /\ p.size[f] > 0

CanShare(p, reach, f) ==
  /\ f \notin p.onStack
  /\ ~Recursive(reach, f)
  /\ ~(f \in Isrs(p) /\ p.isr[f] = "int")
  /\ ~(p.isrSafe /\ f \in IsrReachable(p, reach))
  /\ p.size[f] > 0

\* _warn_isr_shared_storage
WarnsOfDirectCallsOnly(p, L, reach) ==
  (IsrReachable(p, reach) \cap p.calls[Main]) \ Isrs(p)

SharedWithIsr(p, L, reach) ==
  LET other == {Main} \cup (Taken(p, L) \ Isrs(p))
      fromOther == other \cup UNION {reach[r] : r \in other \cap L}
  IN (IsrReachable(p, reach) \cap fromOther) \ Isrs(p)

-----------------------------------------------------------------------------
(* Regions, activations and what they hold.                                *)

Shared(f) == \E k \in 1 .. Len(allocated) : allocated[k].fn = f

\* storage_offsets
Start(f) == allocated[CHOOSE k \in 1 .. Len(allocated) : allocated[k].fn = f].from

RegionOf(f) == IF Shared(f) THEN Start(f) .. Start(f) + prog.size[f] - 1 ELSE {}

\* an activation on entry; a function without a region has an IX frame
Activation(f) ==
  [fn |-> f, own |-> IF Shared(f) THEN <<>> ELSE [b \in 1 .. prog.size[f] |-> Junk]]

Locals(a) ==
  IF Shared(a.fn) THEN [b \in 1 .. prog.size[a.fn] |-> mem[Start(a.fn) + b - 1]]
  ELSE a.own

Active == phase = "run" /\ stack # <<>>
Running == stack[Len(stack)].fn

-----------------------------------------------------------------------------
(* The compiler.                                                           *)

Init ==
  /\ prog \in Programs
  /\ phase = "eliminate"
  /\ live = Functions
  /\ together = [f \in Functions |-> {}]
  /\ todo = {} /\ cur = NoFunction /\ at = 0 /\ allocated = <<>> /\ total = 0
  /\ warned = {}
  /\ stack = <<>> /\ pointers = {} /\ mem = <<>>

EliminateDead ==
  /\ phase = "eliminate"
  /\ live' = Live(prog)
  /\ phase' = "analyse"
  /\ UNCHANGED <<prog, together, warned, layout, run>>

Analyse ==
  /\ phase = "analyse"
  /\ LET reach == [f \in live |-> Reachable(prog, live, f)]
     IN /\ together' = ActiveTogether(prog, live, reach)
        /\ todo' = {f \in live : CanShare(prog, reach, f)}
        /\ warned' = IF prog.isrSafe THEN {}
                     ELSE SharedWithIsr(prog, live, reach) \cap todo'
  /\ phase' = "place"
  /\ UNCHANGED <<prog, live, cur, at, allocated, total, run>>

\* allocate_shared_storage: the largest function left, from offset 0
ChooseNext ==
  /\ phase = "place" /\ cur = NoFunction
  /\ \E f \in todo :
       /\ \A g \in todo : prog.size[g] <= prog.size[f]
       /\ cur' = f
  /\ at' = 0
  /\ UNCHANGED <<prog, phase, analysis, todo, allocated, total, run>>

StartInTheWay(k) ==
  /\ allocated[k].fn \in together[cur]
  /\ at \in allocated[k].from .. allocated[k].to - 1

\* the k-th region is in the way of cur at its present offset
InTheWay(k) ==
  /\ allocated[k].fn \in together[cur]
  /\ ~(at + prog.size[cur] <= allocated[k].from \/ at >= allocated[k].to)

TryAgain ==
  /\ phase = "place" /\ cur # NoFunction
  /\ \E k \in 1 .. Len(allocated) :
       /\ InTheWay(k) /\ \A j \in 1 .. k - 1 : ~InTheWay(j)
       /\ at' = allocated[k].from
  /\ UNCHANGED <<prog, phase, analysis, todo, cur, allocated, total, run>>

\* the first region in the way: try again from its end
TryHigher ==
  /\ phase = "place" /\ cur # NoFunction
  /\ \E k \in 1 .. Len(allocated) :
       /\ InTheWay(k) /\ \A j \in 1 .. k - 1 : ~InTheWay(j)
       /\ at' = allocated[k].to
  /\ UNCHANGED <<prog, phase, analysis, todo, cur, allocated, total, run>>

LastOf(m, n) == n

LargerOf(m, n) == IF m < n THEN n ELSE m

PlaceHere ==
  /\ phase = "place" /\ cur # NoFunction
  /\ \A k \in 1 .. Len(allocated) : ~InTheWay(k)
  /\ allocated' = Append(allocated,
                    [fn |-> cur, from |-> at, to |-> at + prog.size[cur]])
  /\ total' = LargerOf(total, at + prog.size[cur])
  /\ todo' = todo \ {cur}
  /\ cur' = NoFunction
  /\ UNCHANGED <<prog, phase, analysis, at, run>>

-----------------------------------------------------------------------------
(* The compiled program.                                                   *)

\* main is called with what the initialisers took the address of
StartProgram ==
  /\ phase = "place" /\ cur = NoFunction /\ todo = {}
  /\ phase' = "run"
  /\ mem' = [b \in 0 .. total - 1 |-> Junk]
  /\ stack' = <<Activation(Main)>>
  /\ pointers' = prog.roots \cup prog.takes[Main]
  /\ UNCHANGED <<prog, analysis, layout>>

\* f is entered on top of the stack and may take addresses
Enter(f) ==
  /\ Len(stack) < MaxDepth
  /\ stack' = Append(stack, Activation(f))
  /\ pointers' = pointers \cup prog.takes[f]
  /\ UNCHANGED <<prog, compile, mem>>

Call(f) == Active /\ f \in prog.calls[Running] /\ Enter(f)

CallPointer(f) ==
  /\ Active /\ Running \in prog.indirect
  /\ f \in pointers
  /\ Enter(f)

\* another module, called by the running function, calls f
CallBack(f) ==
  /\ Active /\ ~prog.whole /\ Running \in prog.external
  /\ f \in pointers \cup (Functions \ (prog.private \cup Isrs(prog)))
  /\ Enter(f)

\* activations of interrupt functions of the given kinds are on the stack
Serving(kinds) ==
  \E k \in 1 .. Len(stack) :
    stack[k].fn \in Isrs(prog) /\ prog.isr[stack[k].fn] \in kinds

\* `int' starts with EI; `critical' and an NMI keep maskable interrupts out.
\* An NMI comes again only after the handler has returned
Interrupt(f) ==
  /\ Active /\ f \in Isrs(prog)
  /\ ~Serving(IF prog.isr[f] = "nmi" THEN {"nmi"} ELSE {"critical", "nmi"})
  /\ Enter(f)

Return ==
  /\ Active
  /\ stack' = SubSeq(stack, 1, Len(stack) - 1)
  /\ UNCHANGED <<prog, compile, pointers, mem>>

\* the running function stores v in each byte of its locals
Assign(v) ==
  /\ Active
  /\ IF Shared(Running)
     THEN /\ mem' = [b \in DOMAIN mem |->
                       IF b \in RegionOf(Running) THEN v ELSE mem[b]]
          /\ UNCHANGED stack
     ELSE /\ stack' = [stack EXCEPT ![Len(stack)].own =
                         [b \in 1 .. prog.size[Running] |-> v]]
          /\ UNCHANGED mem
  /\ UNCHANGED <<prog, compile, pointers>>

Compile == EliminateDead \/ Analyse \/ ChooseNext \/ TryHigher \/ PlaceHere
             \/ StartProgram

Execute ==
  \/ \E f \in Functions :
       Call(f) \/ CallPointer(f) \/ CallBack(f) \/ Interrupt(f)
  \/ Return
  \/ \E v \in Values : Assign(v)

Next == Compile \/ Execute

Spec == Init /\ [][Next]_vars /\ WF_vars(Compile)

-----------------------------------------------------------------------------
(* Properties.                                                             *)

Region == [fn : Functions, from : Nat, to : Nat]
Activations == [fn : Functions, own : Seq(Values)]

Types ==
  /\ IsProgram(prog)
  /\ phase \in {"eliminate", "analyse", "place", "run"}
  /\ live \subseteq Functions
  /\ together \in [DOMAIN together -> SUBSET Functions]
  /\ todo \subseteq Functions /\ cur \in Functions \cup {NoFunction}
  /\ at \in Nat
  /\ allocated \in Seq(Region) /\ total \in Nat
  /\ warned \subseteq Functions
  /\ stack \in Seq(Activations)
  /\ pointers \subseteq Functions
  /\ mem \in [DOMAIN mem -> Values]

\* Type invariant; the region of every function on the stack lies in ??AUTO.
TypeOK ==
  Types /\ \A k \in 1 .. Len(stack) : RegionOf(stack[k].fn) \subseteq DOMAIN mem

\* Two functions the analysis says can be active together never get regions
\* that meet, whatever the order in which equal sizes are placed.
RegionsApart ==
  \A k, l \in 1 .. Len(allocated) :
    (k # l /\ allocated[k].fn \in together[allocated[l].fn]) =>
      \/ allocated[k].to <= allocated[l].from
      \/ allocated[l].to <= allocated[k].from

\* The loop that looks for an offset, and the allocation, end.
AllocationEnds == <>(phase = "run")

\* Whatever the program does, it enters only functions that dead-function
\* elimination left in: through names, pointers, other modules or interrupts.
NothingDeadEntered == \A k \in 1 .. Len(stack) : stack[k].fn \in live

\* Activation k runs under a handler that starts with EI, which has interrupted
\* itself by the time of activation l, without --isr-safe.  can_use_shared_storage
\* keeps that handler out of ??AUTO but none of the functions it calls, and
\* _warn_isr_shared_storage names only functions that other code reaches too.
HandlerCameAgain(k, l) ==
  /\ ~prog.isrSafe
  /\ \E i \in 1 .. k, j \in k + 1 .. l :
       /\ stack[i].fn \in Isrs(prog) /\ prog.isr[stack[i].fn] = "int"
       /\ stack[j].fn = stack[i].fn
       /\ \A n \in i + 1 .. k : stack[n].fn \notin Isrs(prog)

\* A function whose locals have fixed addresses has one activation at a time,
\* unless the compiler warned of it or its handler interrupted itself.
SharedNotReentered ==
  \A k, l \in 1 .. Len(stack) :
    (k < l /\ stack[k].fn = stack[l].fn /\ Shared(stack[k].fn)) =>
      stack[k].fn \in warned \/ HandlerCameAgain(k, l)

\* With the whole program in view, an activation's locals are never under those
\* of a later activation, with two exceptions: the compiler warned of its
\* function, or it runs under a handler that started with EI and came again, of
\* which the compiler does not warn.
OverwrittenOnlyIfWarned ==
  prog.whole =>
    \A k, l \in 1 .. Len(stack) :
      (k < l /\ RegionOf(stack[k].fn) \cap RegionOf(stack[l].fn) # {}) =>
        stack[k].fn \in warned \/ HandlerCameAgain(k, l)

\* Without --isr-safe, a handler that starts with EI reaches a function with a
\* region: what the compiler places in ??AUTO without a warning and without a guard.
Unguarded ==
  /\ ~prog.isrSafe
  /\ \E r \in Isrs(prog) :
       /\ prog.isr[r] = "int"
       /\ \E f \in Functions : Shared(f) /\ f \in Reachable(prog, live, r)

\* A whole program compiled without a warning, whose handlers that start with EI
\* reach no function with a region, cannot tell fixed addresses from a stack:
\* every activation keeps its locals until it changes them itself.
Frames == IF prog.whole /\ warned = {} /\ ~Unguarded
          THEN [k \in 1 .. Len(stack) |->
                  [fn |-> stack[k].fn, locals |-> Locals(stack[k])]]
          ELSE <<>>
A == INSTANCE Automatic WITH frames <- Frames
ImplementsAutomatic == A!Spec
=============================================================================
