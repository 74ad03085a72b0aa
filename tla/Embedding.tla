----------------------------- MODULE Embedding -----------------------------
(***************************************************************************)
(* How a whole-program build shares the runtime library between the text   *)
(* that the compiler writes and the libraries that the linker adds         *)
(* (src/src/uc80/runtime.py and the part of main.py that calls it).        *)
(*                                                                         *)
(* The compiler embeds the runtime routines that the program uses, with    *)
(* their data areas.  The linker then pulls a library module, whole, for   *)
(* each symbol that is still undefined.  A module that defines again what  *)
(* is embedded would be in the image twice, so the compiler predicts what  *)
(* the linker will pull and leaves those routines and areas to it.  The    *)
(* prediction is made before the removal of dead code (module DeadCode)    *)
(* takes routines away again.                                              *)
(***************************************************************************)

CONSTANTS
  Routines,    \* routines of the runtime
  Areas,       \* its data areas
  Calls,       \* functions of libc
  Modules,     \* modules of libc.lib and runtime.lib
  Cases        \* libraries with a program

Symbols == Routines \cup Areas \cup Calls

(***************************************************************************)
(* refs: what a routine names in the runtime.  home: the module that       *)
(* defines a symbol.  needs: the EXTRN of a module.  live and dead: what   *)
(* the live code of the program names, and what only code names that the   *)
(* removal of dead code will find dead.  own: libc functions that the      *)
(* program defines itself.  dce: whether dead code is removed.             *)
(***************************************************************************)
Case == [refs : [Routines -> SUBSET (Routines \cup Areas)],
         home : [Symbols -> Modules],
         needs : [Modules -> SUBSET Symbols],
         live : SUBSET Symbols,
         dead : SUBSET Symbols,
         own : SUBSET Calls,
         dce : BOOLEAN]

RtModules(c) == {c.home[s] : s \in Routines \cup Areas}
Defines(c, M) == {s \in Symbols : c.home[s] \in M}

ASSUME SymbolsAssumption ==
  /\ Routines \cap Areas = {}
  /\ Calls \cap (Routines \cup Areas) = {}

VARIABLES
  case,        \* the library and the program, never written
  phase,       \* step of main.py, then of the linker
  kept,        \* routines in the text
  provided,    \* symbols of the runtime modules the link will pull
  data,        \* areas in the text
  pulled       \* modules the linker has added

vars == <<case, phase, kept, provided, data, pulled>>

-----------------------------------------------------------------------------
(* What main.py computes *)

\* The least part of U that holds what is of U in seed, and with x what is
\* of U in succ[x].
Least(U, seed, succ) ==
  {x \in U : \A S \in SUBSET U :
     (seed \cap U \subseteq S /\ \A y \in S : succ[y] \cap U \subseteq S) => x \in S}

\* What the generated code names of the runtime, dead code included.
Used(c) == (c.live \cup c.dead) \cap (Routines \cup Areas)

\* get_required_functions: the routines with all they depend on.
Required(c) == Least(Routines, Used(c), c.refs)

(***************************************************************************)
(* The default library (lib/split_runtime.py): a module of the runtime is  *)
(* routines or areas, and needs what its routines name elsewhere; a libc   *)
(* module defines no part of the runtime.  A routine that the program and  *)
(* a module need has its module to itself.  So has a libc function that    *)
(* the program defines.                                                    *)
(***************************************************************************)
WellSplit(c) ==
  /\ \A r \in Routines, s \in Areas \cup Calls : c.home[s] # c.home[r]
  /\ \A a \in Areas, s \in Calls : c.home[s] # c.home[a]
  /\ \A r \in Routines :
       c.needs[c.home[r]] =
         (UNION {c.refs[f] : f \in {x \in Routines : c.home[x] = c.home[r]}})
           \ {x \in Routines : c.home[x] = c.home[r]}
  /\ \A a \in Areas : c.needs[c.home[a]] = {}
  /\ \A m \in Modules : \A r \in c.needs[m] \cap Required(c) :
       \A s \in Symbols \ {r} : c.home[s] # c.home[r]
  /\ \A s \in c.own : \A t \in Symbols \ {s} : c.home[t] # c.home[s]

ASSUME CasesAssumption ==
  /\ Cases \subseteq Case
  /\ \A c \in Cases : WellSplit(c)

\* (Mutant: a dead call to printf predicts the modules of printf.)
UndefinedInAll(c) == (c.live \cup c.dead) \cap Calls

\* The libc functions left undefined when dead code is gone.
Undefined(c) ==
  (IF c.dce THEN c.live ELSE c.live \cup c.dead) \cap Calls

\* get_data_section: the areas defined with routines K, but for those in P.
\* (Mutant: an area left to the library counts as defined all the same.)
DataWithProvided(c, K, P) ==
  (Used(c) \cup UNION {c.refs[f] : f \in K}) \cap Areas
Data(c, K, P) ==
  ((Used(c) \cup UNION {c.refs[f] : f \in K}) \cap Areas) \ P

\* rt_modules_linked: the modules the linker pulls for the undefined
\* symbols, when the program defines D.
Linked(c, D) ==
  Least(Modules, {c.home[s] : s \in Undefined(c) \ D},
        [m \in Modules |-> {c.home[s] : s \in c.needs[m] \ D}])

\* The next value of provided in leave_to_library.
Provides(c, K, P) ==
  Defines(c, Linked(c, c.own \cup K \cup Data(c, K, P)) \cap RtModules(c))

\* Symbols the text defines, and symbols it names, with routines K.
Text(c, K, D) == c.own \cup K \cup D
Named(c, K) ==
  (IF c.dce THEN c.live ELSE c.live \cup c.dead) \cup UNION {c.refs[f] : f \in K}

-----------------------------------------------------------------------------
(* The steps *)

Init ==
  /\ case \in Cases
  /\ phase = "require"
  /\ kept = {} /\ provided = {} /\ data = {} /\ pulled = {}

\* The routines the program needs.  Without any there is nothing to leave.
Require ==
  /\ phase = "require"
  /\ kept' = Required(case)
  /\ phase' = IF kept' = {} THEN "embed" ELSE "leave"
  /\ UNCHANGED <<case, provided, data, pulled>>

\* (Mutants: one round is taken for enough; all of the runtime comes back.)
LeaveOnce ==
  /\ phase = "leave"
  /\ provided' = Provides(case, kept, provided)
  /\ kept' = Required(case) \ provided'
  /\ phase' = "embed"
  /\ UNCHANGED <<case, data, pulled>>
LeaveAll ==
  /\ phase = "leave"
  /\ provided' = Provides(case, kept, provided)
  /\ kept' = Routines \ provided'
  /\ phase' = IF provided' = provided THEN "embed" ELSE "leave"
  /\ UNCHANGED <<case, data, pulled>>

\* One round of leave_to_library; a round that changes nothing is the last.
Leave ==
  /\ phase = "leave"
  /\ provided' = Provides(case, kept, provided)
  /\ kept' = Required(case) \ provided'
  /\ phase' = IF provided' = provided THEN "embed" ELSE "leave"
  /\ UNCHANGED <<case, data, pulled>>

\* The routines and their areas become part of the text.
Embed ==
  /\ phase = "embed"
  /\ data' = Data(case, kept, provided)
  /\ phase' = "dce"
  /\ UNCHANGED <<case, kept, provided, pulled>>

\* Dead code goes, embedded routines too; COMMON, where the areas are, stays.
Eliminate ==
  /\ phase = "dce"
  /\ kept' = IF case.dce THEN Least(kept, case.live, case.refs) ELSE kept
  /\ phase' = "link"
  /\ UNCHANGED <<case, provided, data, pulled>>

\* Symbols that no one defines yet.
Missing ==
  (Named(case, kept) \cup UNION {case.needs[m] : m \in pulled})
    \ (Text(case, kept, data) \cup Defines(case, pulled))

\* The linker adds the module of an undefined symbol.
Pull ==
  /\ phase = "link"
  /\ \E s \in Missing : pulled' = pulled \cup {case.home[s]}
  /\ UNCHANGED <<case, phase, kept, provided, data>>

Linkage ==
  /\ phase = "link"
  /\ Missing = {}
  /\ phase' = "image"
  /\ UNCHANGED <<case, kept, provided, data, pulled>>

Next == Require \/ Leave \/ Embed \/ Eliminate \/ Pull \/ Linkage

Spec == Init /\ [][Next]_vars

-----------------------------------------------------------------------------
(* Properties *)

TypeOK ==
  /\ case \in Case
  /\ phase \in {"require", "leave", "embed", "dce", "link", "image"}
  /\ kept \subseteq Required(case)
  /\ provided \subseteq Symbols
  /\ data \subseteq Areas
  /\ pulled \subseteq Modules

\* No symbol is in the image twice: what the text defines, no pulled module
\* defines, although dead code is removed after the prediction, and the
\* linker pulls for the routines that went with it (leave_to_library,
\* "in the image twice").
LinksOnce ==
  Text(case, kept, data) \cap Defines(case, pulled) = {}

\* "Dropping a function never removes a module from the prediction": what
\* leave_to_library left to the library once, it never takes back, so the
\* loop ends.
NeverTakenBack == [][provided \subseteq provided']_vars

\* What was left to the library is there: a module that the compiler
\* predicted is in the image, and not because of a function that is dead.
PredictionHolds ==
  phase = "image" => provided \subseteq Defines(case, pulled)
=============================================================================
