-------------------------- MODULE StorageProofs --------------------------
(***************************************************************************)
(* The shared storage of every whole program with --isr-safe, or with at   *)
(* most one handler, whatever its call graph and sizes: an activation's    *)
(* locals can be overwritten only if the compiler warned of the function,  *)
(* or if a handler that starts with EI interrupted itself above it.        *)
(*                                                                         *)
(* The argument.  While the compiler works, the regions placed so far lie  *)
(* apart (`Placed').  While the program runs, the stack falls into         *)
(* contexts: main and what runs above it, then each interrupt function and *)
(* what runs above it.  Within a context each function is reachable from   *)
(* each one below it, so no function that may share storage occurs twice   *)
(* and two that occur are active together (`Contexts').  A function in the *)
(* context of an interrupt is `entered', hence together with every other;  *)
(* it can meet only itself in a lower context.  If that context is main's, *)
(* it was warned of, or --isr-safe kept it on the stack; if it is that of  *)
(* the same handler, the handler came again.                               *)
(***************************************************************************)
EXTENDS SharedStorage, SequenceTheorems, FiniteSetTheorems, TLAPS

Reach == [f \in live |-> Reachable(prog, live, f)]

Analysed == phase \in {"place", "run"}

Candidates == {f \in live : CanShare(prog, Reach, f)}

\* the program is the one compiled, and the state of the compiler in each phase
Progress ==
  /\ prog \in Programs
  /\ phase # "run" => stack = <<>> /\ mem = <<>> /\ pointers = {}
  /\ phase # "eliminate" => live = Live(prog)
  /\ ~Analysed => allocated = <<>> /\ cur = NoFunction /\ todo = {}
  /\ Analysed => /\ together = ActiveTogether(prog, live, Reach)
                 /\ warned = IF prog.isrSafe THEN {}
                             ELSE SharedWithIsr(prog, live, Reach) \cap Candidates
                 /\ todo \subseteq Candidates
  /\ cur \in todo \cup {NoFunction}
  /\ phase = "run" => cur = NoFunction /\ DOMAIN mem = 0 .. total - 1

\* the regions placed so far
Placed ==
  /\ \A k \in 1 .. Len(allocated) :
       /\ allocated[k].fn \in Candidates \ todo
       /\ allocated[k].to = allocated[k].from + prog.size[allocated[k].fn]
       /\ allocated[k].to <= total
  /\ \A k, l \in 1 .. Len(allocated) :
       k # l => allocated[k].fn # allocated[l].fn
  /\ RegionsApart

\* activations m .. l are one context
Context(m, l) ==
  /\ m = 1 \/ stack[m].fn \in Isrs(prog)
  /\ \A j \in m + 1 .. l : stack[j].fn \notin Isrs(prog)
  /\ \A k \in m .. l - 1 : stack[l].fn \in Reach[stack[k].fn]

\* only a handler that starts with EI is on the stack twice
HandlersOnce ==
  \A k, l \in 1 .. Len(stack) :
    (k < l /\ stack[k].fn = stack[l].fn /\ stack[k].fn \in Isrs(prog)) =>
      prog.isr[stack[k].fn] = "int"

Contexts ==
  /\ NothingDeadEntered
  /\ pointers \subseteq (Taken(prog, live) \cap live) \ Isrs(prog)
  /\ stack # <<>> => stack[1].fn = Main
  /\ prog.whole => \A l \in 1 .. Len(stack) : \E m \in 1 .. l : Context(m, l)
  /\ HandlersOnce

StorageInv == Types /\ Progress /\ Placed /\ Contexts

\* the programs the compiler answers for: the whole program in view, and
\* --isr-safe or no more than one handler
Answerable(p) ==
  /\ p.whole
  /\ p.isrSafe \/ \A i, j \in Isrs(p) : i = j

-----------------------------------------------------------------------------
(* The call graph.                                                         *)

\* The entry points are live, and what a live function calls is live.
LEMMA LiveClosed ==
  ASSUME NEW p, IsProgram(p)
  PROVE  /\ Live(p) \subseteq Functions
         /\ EntryPoints(p) \subseteq Live(p)
         /\ \A f \in Live(p) : p.calls[f] \subseteq Live(p)
<1>1. EntryPoints(p) \subseteq Functions
  BY FunctionsAssumption DEF EntryPoints, Taken, Isrs, IsProgram
<1>2. EntryPoints(p) \subseteq Live(p)
  BY <1>1 DEF Live
<1>3. ASSUME NEW f \in Live(p), NEW g \in p.calls[f]
      PROVE  g \in Live(p)
  <2>1. f \in Functions /\ g \in Functions
    BY <1>3 DEF Live, IsProgram
  <2>2. SUFFICES ASSUME NEW S \in SUBSET Functions, EntryPoints(p) \subseteq S,
                        \A h \in S : p.calls[h] \subseteq S
                 PROVE  g \in S
    BY <2>1 DEF Live
  <2>3. f \in S
    BY <2>2, <1>3 DEF Live
  <2> QED BY <2>3, <2>2, <1>3
<1> QED BY <1>2, <1>3 DEF Live

\* What f calls is reachable from f, and so is what that reaches.
LEMMA ReachStep ==
  ASSUME NEW p, NEW L, NEW f \in Functions,
         NEW g \in Callees(p, L, f), g \in Functions
  PROVE  g \in Reachable(p, L, f)
BY DEF Reachable

LEMMA ReachOnward ==
  ASSUME NEW p, NEW L, NEW f \in Functions, NEW g \in Reachable(p, L, f),
         NEW h \in Callees(p, L, g), h \in Functions
  PROVE  h \in Reachable(p, L, f)
<1>1. SUFFICES ASSUME NEW S \in SUBSET Functions,
                      \A x \in S \cup {f} : Callees(p, L, x) \subseteq S
               PROVE  h \in S
  BY DEF Reachable
<1>2. g \in S
  BY <1>1 DEF Reachable
<1> QED BY <1>1, <1>2

\* Being active together is symmetric, and joins a function with what it
\* reaches and an entered function with every other.
LEMMA TogetherFacts ==
  ASSUME NEW p, NEW L, NEW r, NEW f \in L, NEW g \in L
  PROVE  /\ g \in ActiveTogether(p, L, r)[f] <=> f \in ActiveTogether(p, L, r)[g]
         /\ g \in r[f] => g \in ActiveTogether(p, L, r)[f]
         /\ f \in Entered(p, L, r) => g \in ActiveTogether(p, L, r)[f]
BY DEF ActiveTogether

\* The callees of live functions are live.
LEMMA CalleesLive ==
  ASSUME NEW p, IsProgram(p), NEW f \in Live(p)
  PROVE  Callees(p, Live(p), f) \subseteq Live(p)
BY LiveClosed DEF Callees

-----------------------------------------------------------------------------
(* Regions.                                                                *)

\* A function's region is the interval recorded for it, and lies in ??AUTO.
LEMMA RegionFacts ==
  ASSUME Types, Placed, NEW k \in 1 .. Len(allocated)
  PROVE  /\ Shared(allocated[k].fn)
         /\ Start(allocated[k].fn) = allocated[k].from
         /\ RegionOf(allocated[k].fn) = allocated[k].from .. allocated[k].to - 1
<1> DEFINE f == allocated[k].fn
           j == CHOOSE i \in 1 .. Len(allocated) : allocated[i].fn = f
<1>1. Shared(f)
  BY DEF Shared
<1>2. j \in 1 .. Len(allocated) /\ allocated[j].fn = f
  OBVIOUS
<1>3. j = k
  BY <1>2 DEF Placed
<1>4. Start(f) = allocated[k].from
  BY <1>3 DEF Start
<1>5. /\ allocated[k] \in Region
      /\ allocated[k].to = allocated[k].from + prog.size[f]
  BY DEF Types, Placed
<1>6. RegionOf(f) = Start(f) .. Start(f) + prog.size[f] - 1
  BY <1>1 DEF RegionOf
<1>7. RegionOf(f) = allocated[k].from .. allocated[k].to - 1
  <2>1. allocated[k].from \in Nat /\ allocated[k].to \in Nat
    BY <1>5 DEF Region
  <2>2. f \in Functions /\ prog.size[f] \in Nat
    BY <1>5, ProgramsAssumption DEF Types, IsProgram, Region
  <2> HIDE DEF f
  <2> QED BY <2>1, <2>2, <1>4, <1>5, <1>6
<1> QED BY <1>1, <1>4, <1>7

LEMMA RegionInArea ==
  ASSUME Types, Placed, NEW f
  PROVE  RegionOf(f) \subseteq 0 .. total - 1
<1>1. CASE ~Shared(f)
  BY <1>1 DEF RegionOf
<1>2. CASE Shared(f)
  <2>1. PICK k \in 1 .. Len(allocated) : allocated[k].fn = f
    BY <1>2 DEF Shared
  <2>2. RegionOf(f) = allocated[k].from .. allocated[k].to - 1
    BY <2>1, RegionFacts
  <2>3. /\ allocated[k] \in Region /\ total \in Nat
        /\ allocated[k].to <= total
    BY DEF Types, Placed
  <2> QED BY <2>2, <2>3 DEF Region
<1> QED BY <1>1, <1>2

\* Two functions active together have regions that do not meet.
LEMMA TogetherApart ==
  ASSUME Types, Placed, NEW f, NEW g, f # g, Shared(f), Shared(g),
         g \in together[f]
  PROVE  RegionOf(f) \cap RegionOf(g) = {}
<1>1. PICK k \in 1 .. Len(allocated) : allocated[k].fn = f
  BY DEF Shared
<1>2. PICK l \in 1 .. Len(allocated) : allocated[l].fn = g
  BY DEF Shared
<1>3. /\ RegionOf(f) = allocated[k].from .. allocated[k].to - 1
      /\ RegionOf(g) = allocated[l].from .. allocated[l].to - 1
  BY <1>1, <1>2, RegionFacts
<1>4. allocated[k].to <= allocated[l].from \/ allocated[l].to <= allocated[k].from
  BY <1>1, <1>2 DEF Placed, RegionsApart
<1>5. allocated[k] \in Region /\ allocated[l] \in Region
  BY DEF Types
<1> QED BY <1>3, <1>4, <1>5 DEF Region

-----------------------------------------------------------------------------
(* The invariant holds at the start, and the compiler keeps it.            *)

LEMMA InitStorage == Init => StorageInv
<1> SUFFICES ASSUME Init PROVE StorageInv
  OBVIOUS
<1>1. Types
  BY ProgramsAssumption DEF Init, Types
<1>2. Progress
  BY DEF Init, Progress, Analysed
<1>3. Placed
  BY DEF Init, Placed, RegionsApart
<1>4. Contexts
  BY DEF Init, Contexts, NothingDeadEntered, HandlersOnce
<1> QED BY <1>1, <1>2, <1>3, <1>4 DEF StorageInv

LEMMA EliminateKeeps ==
  ASSUME StorageInv, EliminateDead
  PROVE  StorageInv'
<1> USE DEF EliminateDead, layout, run, StorageInv
<1>1. IsProgram(prog)
  BY ProgramsAssumption DEF Types
<1>2. Types'
  BY <1>1, LiveClosed DEF Types, Region
<1>3. Progress'
  BY DEF Progress, Analysed
<1>4. Placed'
  BY DEF Placed, RegionsApart, Progress, Analysed
<1>5. Contexts'
  BY DEF Contexts, NothingDeadEntered, HandlersOnce, Progress, Types
<1> QED BY <1>2, <1>3, <1>4, <1>5

LEMMA AnalyseKeeps ==
  ASSUME StorageInv, Analyse
  PROVE  StorageInv'
<1> USE DEF Analyse, layout, run, StorageInv
<1>1. IsProgram(prog)
  BY ProgramsAssumption DEF Types
<1>2. Reach' = Reach /\ Candidates' = Candidates
  BY DEF Reach, Candidates
<1>3. /\ together' = ActiveTogether(prog, live, Reach)
      /\ todo' = Candidates
      /\ warned' = IF prog.isrSafe THEN {}
                   ELSE SharedWithIsr(prog, live, Reach) \cap Candidates
  BY DEF Reach, Candidates
<1>4. Types'
  BY <1>3 DEF Types, Candidates, ActiveTogether, Region
<1>5. Progress'
  BY <1>2, <1>3 DEF Progress, Analysed
<1>6. Placed'
  BY DEF Placed, RegionsApart, Progress, Analysed
<1>7. Contexts'
  BY DEF Contexts, NothingDeadEntered, HandlersOnce, Progress, Types
<1> QED BY <1>4, <1>5, <1>6, <1>7

LEMMA ChooseKeeps ==
  ASSUME StorageInv, ChooseNext
  PROVE  StorageInv'
<1> USE DEF ChooseNext, analysis, run, StorageInv
<1>1. Reach' = Reach /\ Candidates' = Candidates
  BY DEF Reach, Candidates
<1>2. Types'
  BY DEF Types
<1>3. Progress'
  BY <1>1 DEF Progress, Analysed
<1>4. Placed'
  BY <1>1 DEF Placed, RegionsApart
<1>5. Contexts'
  BY DEF Contexts, NothingDeadEntered, HandlersOnce, Progress
<1> QED BY <1>2, <1>3, <1>4, <1>5

LEMMA TryHigherKeeps ==
  ASSUME StorageInv, TryHigher
  PROVE  StorageInv'
<1> USE DEF TryHigher, analysis, run, StorageInv
<1>1. Reach' = Reach /\ Candidates' = Candidates
  BY DEF Reach, Candidates
<1>2. at' \in Nat
  <2>1. PICK k \in 1 .. Len(allocated) : at' = allocated[k].to
    OBVIOUS
  <2>2. allocated[k] \in Region
    BY DEF Types
  <2> QED BY <2>1, <2>2 DEF Region
<1>3. Types'
  BY <1>2 DEF Types
<1>4. Progress'
  BY <1>1 DEF Progress, Analysed
<1>5. Placed'
  BY <1>1 DEF Placed, RegionsApart
<1>6. Contexts'
  BY DEF Contexts, NothingDeadEntered, HandlersOnce, Progress
<1> QED BY <1>3, <1>4, <1>5, <1>6

\* The new region meets no region of a function active together with it.
LEMMA PlaceKeeps ==
  ASSUME StorageInv, PlaceHere
  PROVE  StorageInv'
<1> USE DEF PlaceHere, analysis, run, StorageInv
<1> DEFINE new == [fn |-> cur, from |-> at, to |-> at + prog.size[cur]]
           n == Len(allocated)
<1>1. Reach' = Reach /\ Candidates' = Candidates
  BY DEF Reach, Candidates
<1>2. /\ cur \in todo /\ cur \in Candidates /\ cur \in Functions
      /\ prog.size[cur] \in Nat /\ at \in Nat /\ total \in Nat
      /\ together = ActiveTogether(prog, live, Reach)
  BY ProgramsAssumption DEF Progress, Types, IsProgram, Analysed, Candidates
<1>3. new \in Region
  BY <1>2 DEF Region
<1>4. /\ Len(allocated') = n + 1 /\ n \in Nat
      /\ \A k \in 1 .. n : allocated'[k] = allocated[k]
      /\ allocated'[n + 1] = new
      /\ allocated' \in Seq(Region)
  BY <1>3 DEF Types
<1>5. /\ total' \in Nat /\ total <= total'
      /\ at + prog.size[cur] <= total'
  BY <1>2 DEF LargerOf
<1>6. Types'
  BY <1>4, <1>5 DEF Types
<1>7. Progress'
  BY <1>1 DEF Progress, Analysed
<1>8. \A k \in 1 .. n : allocated[k].fn # cur /\ allocated[k] \in Region
  BY <1>2 DEF Placed, Types
<1>9. \A k \in 1 .. n + 1 :
        /\ allocated'[k].fn \in Candidates \ todo'
        /\ allocated'[k].to = allocated'[k].from + prog.size[allocated'[k].fn]
        /\ allocated'[k].to <= total'
  <2>1. ASSUME NEW k \in 1 .. n
        PROVE  /\ allocated'[k].fn \in Candidates \ todo'
               /\ allocated'[k].to = allocated'[k].from + prog.size[allocated'[k].fn]
               /\ allocated'[k].to <= total'
    <3>1. allocated[k].to \in Nat /\ allocated[k].to <= total
      BY <1>8 DEF Placed, Region
    <3>2. allocated[k].to <= total'
      BY <3>1, <1>5, <1>2
    <3> QED BY <3>2, <1>4 DEF Placed
  <2>2. /\ allocated'[n + 1].fn \in Candidates \ todo'
        /\ allocated'[n + 1].to = allocated'[n + 1].from
                                    + prog.size[allocated'[n + 1].fn]
        /\ allocated'[n + 1].to <= total'
    BY <1>4, <1>5, <1>2
  <2> QED BY <2>1, <2>2, <1>4
<1>10. \A k, l \in 1 .. n + 1 :
         k # l => allocated'[k].fn # allocated'[l].fn
  BY <1>4, <1>8 DEF Placed
<1>11. \A k \in 1 .. n : allocated[k].fn \in together[cur] =>
         at + prog.size[cur] <= allocated[k].from \/ allocated[k].to <= at
  BY <1>2, <1>8 DEF InTheWay, Region
<1>12. \A k \in 1 .. n :
         allocated[k].fn \in together[cur] <=> cur \in together[allocated[k].fn]
  BY <1>2, TogetherFacts DEF Placed, Candidates
<1>13. RegionsApart'
  <2>1. SUFFICES ASSUME NEW k \in 1 .. n + 1, NEW l \in 1 .. n + 1, k # l,
                        allocated'[k].fn \in together[allocated'[l].fn]
                 PROVE  \/ allocated'[k].to <= allocated'[l].from
                        \/ allocated'[l].to <= allocated'[k].from
    BY <1>4 DEF RegionsApart
  <2>2. CASE k \in 1 .. n /\ l \in 1 .. n
    BY <2>1, <2>2, <1>4 DEF Placed, RegionsApart
  <2>3. CASE k = n + 1 /\ l \in 1 .. n
    BY <2>1, <2>3, <1>4, <1>11, <1>12
  <2>4. CASE l = n + 1 /\ k \in 1 .. n
    BY <2>1, <2>4, <1>4, <1>11
  <2> QED BY <2>1, <2>2, <2>3, <2>4, <1>4
<1>14. Placed'
  BY <1>1, <1>4, <1>9, <1>10, <1>13 DEF Placed
<1>15. Contexts'
  BY DEF Contexts, NothingDeadEntered, HandlersOnce, Progress
<1> QED BY <1>6, <1>7, <1>14, <1>15

-----------------------------------------------------------------------------
(* The running program keeps it.                                           *)

LEMMA ActivationFacts ==
  ASSUME Types, NEW f \in Functions
  PROVE  /\ Activation(f) \in Activations
         /\ Activation(f).fn = f
<1>1. prog.size[f] \in Nat
  BY ProgramsAssumption DEF Types, IsProgram
<1>2. [b \in 1 .. prog.size[f] |-> Junk] \in Seq(Values)
  BY <1>1, ValuesAssumption
<1> QED BY <1>2 DEF Activation, Activations

LEMMA PopFacts ==
  ASSUME NEW S, NEW s \in Seq(S), s # <<>>
  PROVE  /\ Len(s) \in Nat /\ Len(s) # 0
         /\ SubSeq(s, 1, Len(s) - 1) \in Seq(S)
         /\ Len(SubSeq(s, 1, Len(s) - 1)) = Len(s) - 1
         /\ \A k \in 1 .. Len(s) - 1 : SubSeq(s, 1, Len(s) - 1)[k] = s[k]
         /\ s[Len(s)] \in S
<1> DEFINE n == Len(s)
<1>1. n \in Nat /\ n # 0
  OBVIOUS
<1>2. \A i \in 1 .. n : s[i] \in S
  OBVIOUS
<1>3. /\ SubSeq(s, 1, n - 1) \in Seq(S)
      /\ Len(SubSeq(s, 1, n - 1)) =
           IF 1 <= n - 1 THEN (n - 1) - 1 + 1 ELSE 0
      /\ \A i \in 1 .. (n - 1) - 1 + 1 :
           SubSeq(s, 1, n - 1)[i] = s[1 + i - 1]
  <2>1. 1 \in Int /\ n - 1 \in Int /\ \A i \in 1 .. n - 1 : s[i] \in S
    BY <1>1, <1>2
  <2> HIDE DEF n
  <2> QED BY <2>1, SubSeqProperties
<1> HIDE DEF n
<1>4. \A i \in 1 .. n - 1 : 1 + i - 1 = i /\ i \in 1 .. (n - 1) - 1 + 1
  BY <1>1
<1>5. SubSeq(s, 1, n - 1) \in Seq(S) /\ Len(SubSeq(s, 1, n - 1)) = n - 1
  BY <1>1, <1>3
<1>6. \A k \in 1 .. n - 1 : SubSeq(s, 1, n - 1)[k] = s[k]
  BY <1>3, <1>4
<1>7. s[n] \in S
  BY <1>1, <1>2
<1> QED BY <1>1, <1>5, <1>6, <1>7 DEF n

LEMMA CompilerIdle ==
  ASSUME StorageInv, phase = "run", UNCHANGED <<prog, compile>>,
         DOMAIN mem' = DOMAIN mem
  PROVE  Progress' /\ Placed' /\ Reach' = Reach
<1> USE DEF StorageInv, compile, analysis, layout
<1>1. Reach' = Reach /\ Candidates' = Candidates
  BY DEF Reach, Candidates
<1>2. Progress'
  BY <1>1 DEF Progress, Analysed
<1>3. Placed'
  BY <1>1 DEF Placed, RegionsApart
<1> QED BY <1>1, <1>2, <1>3

\* What the actions that enter a function have in common.
LEMMA EnterKeeps ==
  ASSUME StorageInv, Active, NEW f \in live, Enter(f),
         (prog.whole /\ f \notin Isrs(prog)) => f \in Callees(prog, live, Running),
         f \in Isrs(prog) => \A k \in 1 .. Len(stack) :
                               stack[k].fn = f => prog.isr[f] = "int"
  PROVE  StorageInv'
<1> USE DEF Enter, Active, StorageInv
<1> DEFINE n == Len(stack)
<1>1. /\ Progress' /\ Placed' /\ Reach' = Reach
      /\ live' = live /\ prog' = prog
  BY CompilerIdle DEF compile, analysis
<1>2. f \in Functions /\ IsProgram(prog)
  BY ProgramsAssumption DEF Types
<1>3. /\ n \in Nat /\ n # 0 /\ Len(stack') = n + 1
      /\ \A k \in 1 .. n : stack'[k] = stack[k]
      /\ stack'[n + 1].fn = f
      /\ stack' \in Seq(Activations)
  BY <1>2, ActivationFacts DEF Types
<1>4. pointers' \subseteq Functions
  BY <1>2 DEF Types, IsProgram
<1>5. Types'
  BY <1>3, <1>4 DEF Types, compile, analysis, layout
<1>6. NothingDeadEntered'
  BY <1>1, <1>3 DEF NothingDeadEntered, Contexts
<1>7. pointers' \subseteq (Taken(prog, live) \cap live) \ Isrs(prog)
  <2>1. live = Live(prog)
    BY DEF Progress
  <2>2. prog.takes[f] \subseteq Taken(prog, live) \ Isrs(prog)
    BY <1>2 DEF Taken, IsProgram, Isrs
  <2>3. prog.takes[f] \subseteq EntryPoints(prog)
    BY <1>2 DEF Taken, EntryPoints
  <2> QED BY <2>1, <2>2, <2>3, LiveClosed, <1>2 DEF Contexts
<1>8. stack'[1].fn = Main
  BY <1>3 DEF Contexts
<1>9. ASSUME prog.whole, NEW l \in 1 .. n + 1
      PROVE  \E m \in 1 .. l : Context(m, l)'
  <2>1. CASE l \in 1 .. n
    <3>1. PICK m \in 1 .. l : Context(m, l)
      BY <2>1, <1>9 DEF Contexts
    <3>2. m \in Int /\ l \in Int /\ 1 <= m /\ m <= l /\ l <= n
      BY <2>1, <1>3
    <3>3. \A j \in m .. l : stack'[j] = stack[j]
      BY <3>2, <1>3
    <3> QED BY <3>1, <3>2, <3>3, <1>1 DEF Context
  <2>2. CASE l = n + 1 /\ f \in Isrs(prog)
    <3>1. stack'[l].fn \in Isrs(prog) /\ l \in Int /\ l \in 1 .. l
      BY <2>2, <1>3
    <3>2. l + 1 .. l = {} /\ l .. l - 1 = {}
      BY <3>1
    <3>3. Context(l, l)'
      BY <3>1, <3>2, <1>1 DEF Context
    <3> QED BY <3>1, <3>3
  <2>3. CASE l = n + 1 /\ f \notin Isrs(prog)
    <3>0. n \in 1 .. Len(stack)
      BY <1>3
    <3>1. PICK m \in 1 .. n : Context(m, n)
      BY <3>0, <1>9 DEF Contexts
    <3>2. m \in Int /\ 1 <= m /\ m <= n /\ m \in 1 .. l
      BY <2>3, <1>3
    <3>3. \A k \in m .. n : stack[k].fn \in live /\ stack[k].fn \in Functions
      BY <3>2, <1>3 DEF Contexts, NothingDeadEntered, Types
    <3>4. f \in Callees(prog, live, stack[n].fn)
      BY <2>3, <1>9 DEF Running
    <3>5. ASSUME NEW k \in m .. n
          PROVE  f \in Reach[stack[k].fn]
      <4>1. CASE k = n
        BY <4>1, <3>3, <3>4, <1>2, ReachStep DEF Reach
      <4>2. CASE k # n
        <5>1. k \in m .. n - 1
          BY <4>2, <1>3, <3>2
        <5>2. stack[n].fn \in Reachable(prog, live, stack[k].fn)
          BY <5>1, <3>1, <3>3 DEF Context, Reach
        <5>3. f \in Reachable(prog, live, stack[k].fn)
          BY <5>2, <3>3, <3>4, <1>2, ReachOnward
        <5> QED BY <5>3, <3>3 DEF Reach
      <4> QED BY <4>1, <4>2
    <3>6. \A k \in m .. l - 1 : stack'[k] = stack[k] /\ stack'[l].fn = f
      BY <2>3, <1>3, <3>2
    <3>7. \A k \in m .. l - 1 : stack'[l].fn \in Reach'[stack'[k].fn]
      BY <3>5, <3>6, <1>1, <2>3, <1>3
    <3>8. \A j \in m + 1 .. l : stack'[j].fn \notin Isrs(prog)
      BY <3>1, <3>2, <2>3, <1>3 DEF Context
    <3>9. m = 1 \/ stack'[m].fn \in Isrs(prog)
      BY <3>1, <3>2, <1>3 DEF Context
    <3>10. Context(m, l)'
      BY <3>7, <3>8, <3>9, <1>1 DEF Context
    <3> QED BY <3>2, <3>10
  <2> QED BY <2>1, <2>2, <2>3, <1>3
<1>10. ASSUME NEW k \in 1 .. n + 1, NEW l \in 1 .. n + 1, k < l,
              stack'[k].fn = stack'[l].fn, stack'[k].fn \in Isrs(prog)
       PROVE  prog.isr[stack'[k].fn] = "int"
  <2>1. CASE l = n + 1
    BY <2>1, <1>3, <1>10
  <2>2. CASE l \in 1 .. n
    BY <2>2, <1>3, <1>10 DEF Contexts, HandlersOnce
  <2> QED BY <2>1, <2>2, <1>3
<1>11. HandlersOnce'
  BY <1>1, <1>3, <1>10 DEF HandlersOnce
<1>12. Contexts'
  BY <1>1, <1>3, <1>6, <1>7, <1>8, <1>9, <1>11 DEF Contexts
<1> QED BY <1>1, <1>5, <1>12

LEMMA StartKeeps ==
  ASSUME StorageInv, StartProgram
  PROVE  StorageInv'
<1> USE DEF StartProgram, analysis, layout, StorageInv
<1>1. Reach' = Reach /\ Candidates' = Candidates
  BY DEF Reach, Candidates
<1>2. Main \in Functions /\ IsProgram(prog) /\ total \in Nat
  BY FunctionsAssumption, ProgramsAssumption DEF Types
<1>3. /\ Len(stack') = 1 /\ stack'[1].fn = Main
      /\ stack' \in Seq(Activations)
  BY <1>2, ActivationFacts
<1>4. pointers' \subseteq Functions
  BY <1>2 DEF IsProgram
<1>5. mem' \in [DOMAIN mem' -> Values] /\ DOMAIN mem' = 0 .. total - 1
  BY ValuesAssumption
<1>6. Types'
  BY <1>3, <1>4, <1>5 DEF Types
<1>7. Progress'
  BY <1>1, <1>5 DEF Progress, Analysed
<1>8. Placed'
  BY <1>1 DEF Placed, RegionsApart
<1>9. live = Live(prog) /\ Main \in live
  BY <1>2, LiveClosed DEF Progress, EntryPoints
<1>10. pointers' \subseteq (Taken(prog, live) \cap live) \ Isrs(prog)
  <2>1. pointers' \subseteq EntryPoints(prog)
    BY <1>2 DEF EntryPoints, Taken
  <2>2. pointers' \subseteq Taken(prog, live) \ Isrs(prog)
    BY <1>2, <1>9 DEF Taken, IsProgram, Isrs
  <2> QED BY <2>1, <2>2, <1>2, <1>9, LiveClosed
<1>11. Context(1, 1)'
  BY <1>3 DEF Context
<1>12. Contexts'
  <2>1. \A l \in 1 .. Len(stack') : l = 1
    BY <1>3
  <2>2. \A l \in 1 .. Len(stack') : \E m \in 1 .. l : Context(m, l)'
    BY <2>1, <1>11
  <2> QED BY <2>1, <2>2, <1>3, <1>9, <1>10
       DEF Contexts, NothingDeadEntered, HandlersOnce
<1> QED BY <1>6, <1>7, <1>8, <1>12

LEMMA ReturnKeeps ==
  ASSUME StorageInv, Return
  PROVE  StorageInv'
<1> USE DEF Return, Active, StorageInv
<1> DEFINE n == Len(stack)
<1>1. /\ Progress' /\ Placed' /\ Reach' = Reach
      /\ live' = live /\ prog' = prog /\ pointers' = pointers
  BY CompilerIdle DEF compile, analysis
<1>2. /\ n \in Nat /\ n # 0 /\ Len(stack') = n - 1
      /\ \A k \in 1 .. n - 1 : stack'[k] = stack[k]
      /\ stack' \in Seq(Activations)
      /\ stack' # <<>> => 1 \in 1 .. n - 1
  <2>1. stack \in Seq(Activations) /\ stack # <<>>
    BY DEF Types
  <2>2. stack' = SubSeq(stack, 1, n - 1)
    OBVIOUS
  <2>3. /\ n \in Nat /\ n # 0 /\ Len(stack') = n - 1
        /\ \A k \in 1 .. n - 1 : stack'[k] = stack[k]
        /\ stack' \in Seq(Activations)
    BY <2>1, <2>2, PopFacts
  <2>4. stack' # <<>> => 1 \in 1 .. n - 1
    BY <2>3
  <2> QED BY <2>3, <2>4
<1>3. Types'
  BY <1>2 DEF Types, compile, analysis, layout
<1>4. ASSUME prog.whole, NEW l \in 1 .. n - 1
      PROVE  \E m \in 1 .. l : Context(m, l)'
  <2>1. PICK m \in 1 .. l : Context(m, l)
    BY <1>2, <1>4 DEF Contexts
  <2>2. \A j \in m .. l : stack'[j] = stack[j]
    BY <1>2
  <2>3. m \in Int /\ l \in Int /\ m <= l
    OBVIOUS
  <2>4. Context(m, l)'
    BY <2>1, <2>2, <2>3, <1>1 DEF Context
  <2> QED BY <2>4
<1>5. NothingDeadEntered' /\ HandlersOnce'
  <2>1. 1 .. n - 1 \subseteq 1 .. n
    BY <1>2
  <2>2. NothingDeadEntered'
    BY <2>1, <1>1, <1>2 DEF Contexts, NothingDeadEntered
  <2>3. HandlersOnce'
    BY <2>1, <1>1, <1>2 DEF Contexts, HandlersOnce
  <2> QED BY <2>2, <2>3
<1>6. stack' # <<>> => stack'[1].fn = Main
  BY <1>2 DEF Contexts
<1>7. prog.whole => \A l \in 1 .. Len(stack') : \E m \in 1 .. l : Context(m, l)'
  BY <1>2, <1>4
<1>8. Contexts'
  BY <1>1, <1>5, <1>6, <1>7 DEF Contexts
<1> QED BY <1>1, <1>3, <1>8

LEMMA AssignKeeps ==
  ASSUME StorageInv, NEW v \in Values, Assign(v)
  PROVE  StorageInv'
<1> USE DEF Active, StorageInv
<1> DEFINE n == Len(stack)
<1>1. DOMAIN mem' = DOMAIN mem /\ mem' \in [DOMAIN mem' -> Values]
  BY DEF Assign, Types
<1>2. /\ Progress' /\ Placed' /\ Reach' = Reach
      /\ live' = live /\ prog' = prog /\ pointers' = pointers
  BY <1>1, CompilerIdle DEF Assign, compile, analysis
<1>3. /\ n \in Nat /\ n # 0 /\ Len(stack') = n
      /\ \A k \in 1 .. n : stack'[k].fn = stack[k].fn
      /\ stack' \in Seq(Activations)
  <2>1. CASE Shared(Running)
    BY <2>1 DEF Assign, Types
  <2>2. CASE ~Shared(Running)
    <3>1. stack \in Seq(Activations) /\ stack # <<>>
      BY DEF Assign, Types
    <3>2. stack[n] \in Activations /\ n \in 1 .. n
      BY <3>1, PopFacts
    <3>3. prog.size[Running] \in Nat
      BY <3>2, ProgramsAssumption DEF Types, IsProgram, Running, Activations
    <3> DEFINE top == [stack[n] EXCEPT !.own = [b \in 1 .. prog.size[Running] |-> v]]
    <3>4. [b \in 1 .. prog.size[Running] |-> v] \in Seq(Values)
      BY <3>3
    <3>5. top \in Activations /\ top.fn = stack[n].fn
      BY <3>2, <3>4 DEF Activations
    <3>6. stack' = [stack EXCEPT ![n] = top]
      BY <2>2 DEF Assign
    <3> HIDE DEF top
    <3> QED BY <3>1, <3>2, <3>5, <3>6
  <2> QED BY <2>1, <2>2
<1>4. Types'
  BY <1>1, <1>3 DEF Types, Assign, compile, analysis, layout
<1>5. ASSUME prog.whole, NEW l \in 1 .. n
      PROVE  \E m \in 1 .. l : Context(m, l)'
  <2>1. PICK m \in 1 .. l : Context(m, l)
    BY <1>3, <1>5 DEF Contexts
  <2>2. \A j \in m .. l : stack'[j].fn = stack[j].fn
    BY <1>3
  <2>3. m \in Int /\ l \in Int /\ m <= l
    OBVIOUS
  <2>4. Context(m, l)'
    BY <2>1, <2>2, <2>3, <1>2 DEF Context
  <2> QED BY <2>4
<1>6. NothingDeadEntered' /\ HandlersOnce'
  BY <1>2, <1>3 DEF Contexts, NothingDeadEntered, HandlersOnce
<1>7. stack'[1].fn = Main
  <2>1. 1 \in 1 .. n /\ stack # <<>>
    BY <1>3 DEF Assign
  <2> QED BY <2>1, <1>3 DEF Contexts
<1>8. prog.whole => \A l \in 1 .. Len(stack') : \E m \in 1 .. l : Context(m, l)'
  BY <1>3, <1>5
<1>9. Contexts'
  BY <1>2, <1>6, <1>7, <1>8 DEF Contexts
<1> QED BY <1>2, <1>4, <1>9

-----------------------------------------------------------------------------
(* Each action that enters a function gives EnterKeeps what it asks.       *)

LEMMA RunKeeps ==
  ASSUME StorageInv, Execute
  PROVE  StorageInv'
<1> USE DEF StorageInv
<1>1. ASSUME Active
      PROVE  /\ Running \in live /\ IsProgram(prog) /\ live = Live(prog)
             /\ live \subseteq Functions /\ EntryPoints(prog) \subseteq live
             /\ prog.calls[Running] \subseteq live
  <2>1. stack \in Seq(Activations) /\ stack # <<>> /\ IsProgram(prog)
    BY <1>1, ProgramsAssumption DEF Active, Types
  <2>2. Len(stack) \in 1 .. Len(stack)
    BY <2>1
  <2>3. Running \in live /\ live = Live(prog)
    BY <2>2, <1>1 DEF Contexts, NothingDeadEntered, Running, Progress, Active
  <2> QED BY <2>1, <2>3, LiveClosed
<1>2. ASSUME NEW f \in Functions, Call(f)
      PROVE  StorageInv'
  <2>1. Active /\ Enter(f) /\ f \in prog.calls[Running]
    BY <1>2 DEF Call
  <2>2. f \in live /\ f \notin Isrs(prog)
    BY <2>1, <1>1 DEF IsProgram, Isrs
  <2>3. f \in Callees(prog, live, Running)
    BY <2>1 DEF Callees
  <2> HIDE DEF StorageInv
  <2> QED BY <2>1, <2>2, <2>3, EnterKeeps
<1>3. ASSUME NEW f \in Functions, CallPointer(f)
      PROVE  StorageInv'
  <2>1. Active /\ Enter(f) /\ f \in pointers /\ Running \in prog.indirect
    BY <1>3 DEF CallPointer
  <2>2. f \in live /\ f \notin Isrs(prog) /\ f \in Taken(prog, live)
    BY <2>1 DEF Contexts
  <2>3. f \in Callees(prog, live, Running)
    BY <2>1, <2>2 DEF Callees
  <2> HIDE DEF StorageInv
  <2> QED BY <2>1, <2>2, <2>3, EnterKeeps
<1>4. ASSUME NEW f \in Functions, CallBack(f)
      PROVE  StorageInv'
  <2>1. /\ Active /\ Enter(f) /\ ~prog.whole
        /\ f \in pointers \cup (Functions \ (prog.private \cup Isrs(prog)))
    BY <1>4 DEF CallBack
  <2>2. f \in live /\ f \notin Isrs(prog)
    BY <2>1, <1>1 DEF Contexts, EntryPoints
  <2> HIDE DEF StorageInv
  <2> QED BY <2>1, <2>2, EnterKeeps
<1>5. ASSUME NEW f \in Functions, Interrupt(f)
      PROVE  StorageInv'
  <2>1. /\ Active /\ Enter(f) /\ f \in Isrs(prog)
        /\ ~Serving(IF prog.isr[f] = "nmi" THEN {"nmi"} ELSE {"critical", "nmi"})
    BY <1>5 DEF Interrupt
  <2>2. f \in live
    BY <2>1, <1>1 DEF EntryPoints, Taken
  <2>3. prog.isr[f] \in Kinds
    BY <2>1, <1>1 DEF IsProgram, Isrs
  <2>4. ASSUME NEW k \in 1 .. Len(stack), stack[k].fn = f
        PROVE  prog.isr[f] = "int"
    BY <2>1, <2>3, <2>4 DEF Serving, Kinds
  <2> HIDE DEF StorageInv
  <2> QED BY <2>1, <2>2, <2>4, EnterKeeps
<1>6. ASSUME Return PROVE StorageInv'
  BY <1>6, ReturnKeeps
<1>7. ASSUME NEW v \in Values, Assign(v) PROVE StorageInv'
  BY <1>7, AssignKeeps
<1> QED BY <1>2, <1>3, <1>4, <1>5, <1>6, <1>7 DEF Execute

\* The inductive invariant: the regions lie apart, and the stack is a
\* sequence of contexts that the call graph explains.
THEOREM StorageInvariant == Spec => []StorageInv
<1>1. Init => StorageInv
  BY InitStorage
<1>2. StorageInv /\ [Next]_vars => StorageInv'
  <2> SUFFICES ASSUME StorageInv, [Next]_vars
               PROVE  StorageInv'
    OBVIOUS
  <2>1. CASE Compile
    BY <2>1, EliminateKeeps, AnalyseKeeps, ChooseKeeps, TryHigherKeeps,
       PlaceKeeps, StartKeeps DEF Compile
  <2>2. CASE Execute
    BY <2>2, RunKeeps
  <2>3. CASE UNCHANGED vars
    <3>1. /\ UNCHANGED <<prog, phase, live, together, todo, cur, at, allocated>>
          /\ UNCHANGED <<total, warned, stack, pointers, mem>>
      BY <2>3 DEF vars, compile, run, analysis, layout
    <3>2. Reach' = Reach /\ Candidates' = Candidates
      BY <3>1 DEF Reach, Candidates
    <3>3. Types' /\ Progress'
      BY <3>1, <3>2 DEF StorageInv, Types, Progress, Analysed
    <3>4. Placed'
      BY <3>1, <3>2 DEF StorageInv, Placed, RegionsApart
    <3>5. \A m, l : Context(m, l)' <=> Context(m, l)
      BY <3>1, <3>2 DEF Context
    <3>6. Contexts'
      BY <3>1, <3>5 DEF StorageInv, Contexts, NothingDeadEntered, HandlersOnce
    <3> QED BY <3>3, <3>4, <3>6 DEF StorageInv
  <2> QED BY <2>1, <2>2, <2>3 DEF Next
<1> QED BY <1>1, <1>2, PTL DEF Spec

\* No region leaves ??AUTO, for every program (codegen.py, total_shared_storage).
THEOREM StorageTypes == Spec => []TypeOK
<1>1. StorageInv => TypeOK
  <2> SUFFICES ASSUME StorageInv PROVE TypeOK
    OBVIOUS
  <2>1. ASSUME NEW k \in 1 .. Len(stack)
        PROVE  RegionOf(stack[k].fn) \subseteq DOMAIN mem
    <3>1. stack # <<>>
      BY <2>1
    <3>2. DOMAIN mem = 0 .. total - 1
      BY <3>1 DEF StorageInv, Progress
    <3> QED BY <3>2, RegionInArea DEF StorageInv
  <2> QED BY <2>1 DEF TypeOK, StorageInv
<1> QED BY <1>1, StorageInvariant, PTL

\* allocate_shared_storage keeps functions that are active together apart.
THEOREM RegionsStayApart == Spec => []RegionsApart
<1>1. StorageInv => RegionsApart
  BY DEF StorageInv, Placed
<1> QED BY <1>1, StorageInvariant, PTL

\* eliminate_dead_functions removes no function the program can enter.
THEOREM NothingDeadRuns == Spec => []NothingDeadEntered
<1>1. StorageInv => NothingDeadEntered
  BY DEF StorageInv, Contexts
<1> QED BY <1>1, StorageInvariant, PTL

-----------------------------------------------------------------------------
(* An activation that lies under a later one was warned of.                *)

\* The context an activation belongs to.
LEMMA ContextOf ==
  ASSUME StorageInv, prog.whole, NEW l \in 1 .. Len(stack)
  PROVE  \E m \in 1 .. l : Context(m, l)
BY DEF StorageInv, Contexts

LEMMA SharedFacts ==
  ASSUME StorageInv, NEW f, Shared(f)
  PROVE  /\ f \in live /\ f \in Candidates
         /\ f \notin Reach[f]
         /\ ~(f \in Isrs(prog) /\ prog.isr[f] = "int")
         /\ ~(prog.isrSafe /\ \E r \in Isrs(prog) \cap live : f \in Reach[r])
         /\ together = ActiveTogether(prog, live, Reach)
<1>1. PICK k \in 1 .. Len(allocated) : allocated[k].fn = f
  BY DEF Shared
<1>2. f \in Candidates
  BY <1>1 DEF StorageInv, Placed
<1>3. CanShare(prog, Reach, f) /\ f \in live
  BY <1>2 DEF Candidates
<1>4. Analysed
  <2> SUFFICES ASSUME ~Analysed PROVE FALSE
    OBVIOUS
  <2> QED BY <1>1 DEF StorageInv, Progress
<1>5. DOMAIN Reach = live
  BY DEF Reach
<1> QED BY <1>2, <1>3, <1>4, <1>5
        DEF StorageInv, Progress, CanShare, Recursive, IsrReachable

\* Two activations that share bytes are of one function, that occurs again
\* in the context of an interrupt.
LEMMA MeetOnlyItself ==
  ASSUME StorageInv, prog.whole, NEW k \in 1 .. Len(stack),
         NEW l \in 1 .. Len(stack), k < l,
         Shared(stack[k].fn), Shared(stack[l].fn),
         \/ stack[k].fn = stack[l].fn
         \/ RegionOf(stack[k].fn) \cap RegionOf(stack[l].fn) # {}
  PROVE  /\ stack[k].fn = stack[l].fn
         /\ \E m \in 1 .. l :
              /\ k < m /\ Context(m, l) /\ stack[m].fn \in Isrs(prog)
<1> DEFINE x == stack[k].fn
           y == stack[l].fn
<1>1. PICK m \in 1 .. l : Context(m, l)
  BY ContextOf
<1>2. /\ x \in live /\ y \in live /\ stack[m].fn \in live
      /\ together = ActiveTogether(prog, live, Reach)
  <2>1. m \in 1 .. Len(stack)
    OBVIOUS
  <2>2. stack[m].fn \in live
    BY <2>1 DEF StorageInv, Contexts, NothingDeadEntered
  <2> QED BY <2>2, SharedFacts
<1>3. ASSUME x # y, y \in together[x] \/ x \in together[y]
      PROVE  FALSE
  <2>1. y \in together[x]
    BY <1>2, <1>3, TogetherFacts
  <2>2. RegionOf(x) \cap RegionOf(y) = {}
    BY <2>1, <1>3, TogetherApart DEF StorageInv
  <2> QED BY <2>2, <1>3
<1>4. CASE m <= k
  <2>1. k \in m .. l - 1
    BY <1>4
  <2>2. y \in Reach[x]
    BY <1>1, <2>1 DEF Context
  <2>3. x # y
    BY <2>2, SharedFacts
  <2>4. y \in together[x]
    BY <1>2, <2>2, TogetherFacts
  <2> QED BY <2>3, <2>4, <1>3
<1>5. CASE k < m
  <2>1. stack[m].fn \in Isrs(prog)
    BY <1>1, <1>5 DEF Context
  <2>2. stack[m].fn \in Taken(prog, live) \cap live
    BY <2>1, <1>2 DEF Taken
  <2>3. m = l \/ y \in Reach[stack[m].fn]
    BY <1>1 DEF Context
  <2>4. y \in Entered(prog, live, Reach)
    BY <2>2, <2>3 DEF Entered
  <2>5. x \in together[y]
    BY <2>4, <1>2, TogetherFacts
  <2>6. x = y
    BY <2>5, <1>3
  <2> QED BY <2>1, <2>6, <1>1, <1>5
<1> QED BY <1>4, <1>5

\* When the compiler can answer for the program, it warned of that function, or
\* the earlier activation runs under a handler that came again.
LEMMA MeetIsWarned ==
  ASSUME StorageInv, Answerable(prog), NEW k \in 1 .. Len(stack),
         NEW l \in 1 .. Len(stack), k < l,
         Shared(stack[k].fn), Shared(stack[l].fn),
         \/ stack[k].fn = stack[l].fn
         \/ RegionOf(stack[k].fn) \cap RegionOf(stack[l].fn) # {}
  PROVE  stack[k].fn \in warned \/ HandlerCameAgain(k, l)
<1> DEFINE x == stack[k].fn
<1>1. prog.whole /\ IsProgram(prog)
  BY ProgramsAssumption DEF Answerable, StorageInv, Types
<1>2. x = stack[l].fn
  BY <1>1, MeetOnlyItself
<1>3. PICK m \in 1 .. l :
        k < m /\ Context(m, l) /\ stack[m].fn \in Isrs(prog)
  BY <1>1, MeetOnlyItself
<1> DEFINE i == stack[m].fn
<1>4. i \in live /\ x \in live /\ m \in 1 .. Len(stack)
  BY DEF StorageInv, Contexts, NothingDeadEntered
<1>5. \A j \in 1 .. Len(stack) : (j < m /\ stack[j].fn = i) => prog.isr[i] = "int"
  BY <1>3, <1>4 DEF StorageInv, Contexts, HandlersOnce
<1>6. m = l \/ x \in Reach[i]
  BY <1>2, <1>3 DEF Context
<1>7. x # i
  <2> SUFFICES ASSUME x = i PROVE FALSE
    OBVIOUS
  <2>1. prog.isr[i] = "int"
    BY <1>5, <1>3
  <2> QED BY <2>1, <1>3, SharedFacts
<1>8. x \in Reach[i]
  BY <1>2, <1>6, <1>7
<1>9. ~prog.isrSafe
  BY <1>8, <1>3, <1>4, SharedFacts
<1>10. \A r \in Isrs(prog) : r = i
  BY <1>9, <1>3 DEF Answerable
<1>11. x \notin Isrs(prog)
  BY <1>7, <1>10
<1>12. PICK n \in 1 .. k : Context(n, k)
  BY <1>1, ContextOf
<1>13. CASE stack[n].fn \in Isrs(prog)
  <2>1. stack[n].fn = i
    BY <1>10, <1>13
  <2>2. n \in 1 .. Len(stack) /\ n < m
    BY <1>3
  <2>3. prog.isr[i] = "int"
    BY <2>1, <2>2, <1>5
  <2>4. \A j \in n + 1 .. k : stack[j].fn \notin Isrs(prog)
    BY <1>12 DEF Context
  <2>5. m \in k + 1 .. l
    BY <1>3
  <2> QED BY <2>1, <2>3, <2>4, <2>5, <1>3, <1>9 DEF HandlerCameAgain
<1>14. CASE stack[n].fn \notin Isrs(prog)
  <2>1. n = 1
    BY <1>12, <1>14 DEF Context
  <2>2. n \in 1 .. Len(stack) /\ stack[n].fn = Main
    BY <2>1 DEF StorageInv, Contexts
  <2>3. Main \in live
    BY <2>2 DEF StorageInv, Contexts, NothingDeadEntered
  <2>4. x = Main \/ x \in Reach[Main]
    BY <1>12, <2>2 DEF Context
  <2>5. x \in IsrReachable(prog, Reach)
    BY <1>3, <1>4, <1>8 DEF IsrReachable, Reach
  <2>6. x \in SharedWithIsr(prog, live, Reach)
    BY <1>11, <2>3, <2>4, <2>5 DEF SharedWithIsr
  <2>7. Analysed
    BY DEF StorageInv, Progress, Analysed
  <2>8. x \in Candidates /\ warned = SharedWithIsr(prog, live, Reach) \cap Candidates
    BY <2>7, <1>9, SharedFacts DEF StorageInv, Progress
  <2> QED BY <2>6, <2>8
<1> QED BY <1>13, <1>14

\* For a whole program with --isr-safe, or with no more than one handler of any
\* kind, an activation's locals are overwritten only if the compiler warned of
\* its function (_warn_isr_shared_storage) or a handler that starts with EI
\* interrupted itself; with --isr-safe, never.
THEOREM LocalsKept ==
  ASSUME \A p \in Programs : p.whole => Answerable(p)
  PROVE  Spec => []OverwrittenOnlyIfWarned
<1>1. StorageInv => OverwrittenOnlyIfWarned
  <2> SUFFICES ASSUME StorageInv, prog.whole,
                      NEW k \in 1 .. Len(stack), NEW l \in 1 .. Len(stack), k < l,
                      RegionOf(stack[k].fn) \cap RegionOf(stack[l].fn) # {}
               PROVE  stack[k].fn \in warned \/ HandlerCameAgain(k, l)
    BY DEF OverwrittenOnlyIfWarned
  <2>1. Shared(stack[k].fn) /\ Shared(stack[l].fn)
    BY DEF RegionOf
  <2>2. Answerable(prog)
    BY DEF StorageInv, Progress
  <2> QED BY <2>1, <2>2, MeetIsWarned
<1> QED BY <1>1, StorageInvariant, PTL

\* Likewise a function with fixed addresses is entered twice only if it was
\* warned of or its handler came again (is_recursive finds every cycle, through
\* pointers too).
THEOREM SharedEnteredOnce ==
  ASSUME \A p \in Programs : Answerable(p)
  PROVE  Spec => []SharedNotReentered
<1>1. StorageInv => SharedNotReentered
  <2> SUFFICES ASSUME StorageInv,
                      NEW k \in 1 .. Len(stack), NEW l \in 1 .. Len(stack), k < l,
                      stack[k].fn = stack[l].fn, Shared(stack[k].fn)
               PROVE  stack[k].fn \in warned \/ HandlerCameAgain(k, l)
    BY DEF SharedNotReentered
  <2>1. Answerable(prog)
    BY DEF StorageInv, Progress
  <2> QED BY <2>1, MeetIsWarned
<1> QED BY <1>1, StorageInvariant, PTL

-----------------------------------------------------------------------------
(* The program cannot tell: SharedStorage implements Automatic.            *)

On == prog.whole /\ warned = {} /\ ~Unguarded
Frame(k) == [fn |-> stack[k].fn, locals |-> Locals(stack[k])]

\* An activation with an IX frame has the bytes of its function.
Sized ==
  \A k \in 1 .. Len(stack) :
    ~Shared(stack[k].fn) => DOMAIN stack[k].own = 1 .. prog.size[stack[k].fn]

\* Dropping the last of n + 1 elements.
IsTuple(s, n) == s = [k \in 1 .. n |-> s[k]]

LEMMA BelowOf ==
  ASSUME NEW s, NEW t, NEW n \in Nat, NEW m, m = n + 1, IsTuple(s, m), IsTuple(t, n),
         \A k \in 1 .. n : s[k] = t[k]
  PROVE  /\ Len(s) = m /\ Len(t) = n
         /\ A!Below(s) = t
<1> USE DEF IsTuple
<1> DEFINE S == {s[k] : k \in 1 .. n + 1} \cup {t[k] : k \in 1 .. n}
<1>1. s \in Seq(S) /\ Len(s) = n + 1
  OBVIOUS
<1>2. t \in Seq(S) /\ Len(t) = n
  OBVIOUS
<1>3. s # <<>>
  BY <1>1
<1>4. /\ SubSeq(s, 1, n) \in Seq(S) /\ Len(SubSeq(s, 1, n)) = n
      /\ \A k \in 1 .. n : SubSeq(s, 1, n)[k] = s[k]
  <2>1. Len(s) - 1 = n
    BY <1>1
  <2> HIDE DEF S
  <2> QED BY <1>1, <1>3, <2>1, PopFacts
<1>5. SubSeq(s, 1, n) = t
  <2> HIDE DEF S
  <2> QED BY <1>2, <1>4, SeqEqual
<1>6. A!Below(s) = SubSeq(s, 1, n)
  BY <1>1 DEF A!Below
<1> QED BY <1>1, <1>2, <1>5, <1>6

\* The frames, when the compiler did not warn and nothing is unguarded.
FramesShown ==
  /\ On => /\ IsTuple(Frames, Len(stack))
           /\ \A k \in 1 .. Len(stack) : Frames[k] = Frame(k)
  /\ ~On => Frames = <<>>
  /\ stack = <<>> => Frames = <<>>
  /\ Len(stack) \in Nat /\ (stack = <<>> <=> Len(stack) = 0)

LEMMA FramesFacts == StorageInv => FramesShown
<1> SUFFICES ASSUME StorageInv PROVE FramesShown
  OBVIOUS
<1>1. stack \in Seq(Activations)
  BY DEF StorageInv, Types
<1> QED BY <1>1 DEF Frames, On, Frame, FramesShown, IsTuple

LEMMA SizedStep ==
  ASSUME StorageInv, Sized, [Next]_vars
  PROVE  Sized'
<1> USE DEF StorageInv
<1>1. stack \in Seq(Activations) /\ Len(stack) \in Nat
  BY DEF Types
<1>2. ASSUME NEW f, Len(stack') = Len(stack) + 1, stack' = Append(stack, Activation(f)),
             UNCHANGED <<prog, allocated>>
      PROVE  Sized'
  <2>1. \A k \in 1 .. Len(stack) : stack'[k] = stack[k]
    BY <1>1, <1>2
  <2>2. stack'[Len(stack) + 1] = Activation(f)
    BY <1>1, <1>2
  <2>3. ASSUME NEW k \in 1 .. Len(stack'), ~Shared(stack[k].fn)'
        PROVE  DOMAIN stack'[k].own = 1 .. prog'.size[stack'[k].fn]
    <3>1. CASE k \in 1 .. Len(stack)
      BY <1>2, <2>1, <2>3, <3>1 DEF Sized, Shared
    <3>2. CASE k = Len(stack) + 1
      BY <1>2, <2>2, <2>3, <3>2 DEF Activation, Shared
    <3> QED BY <1>1, <1>2, <3>1, <3>2
  <2> QED BY <2>3 DEF Sized
<1>3. CASE Return
  <2>1. /\ Len(stack') = Len(stack) - 1
        /\ \A k \in 1 .. Len(stack) - 1 : stack'[k] = stack[k]
    BY <1>1, <1>3, PopFacts DEF Return, Active
  <2>2. UNCHANGED <<prog, allocated>>
    BY <1>3 DEF Return, compile, layout
  <2> QED BY <1>1, <2>1, <2>2 DEF Sized, Shared
<1>4. ASSUME NEW v \in Values, Assign(v) PROVE Sized'
  <2>1. UNCHANGED <<prog, allocated>>
    BY <1>4 DEF Assign, compile, layout
  <2>2. CASE Shared(Running)
    BY <1>4, <2>1, <2>2 DEF Assign, Sized, Shared
  <2>3. CASE ~Shared(Running)
    <3>1. stack' = [stack EXCEPT ![Len(stack)].own = [b \in 1 .. prog.size[Running] |-> v]]
      BY <1>4, <2>3 DEF Assign
    <3>2. /\ Len(stack') = Len(stack)
          /\ \A k \in 1 .. Len(stack) : k # Len(stack) => stack'[k] = stack[k]
      BY <1>1, <3>1
    <3>3. Len(stack) # 0 => /\ stack'[Len(stack)].fn = Running
                            /\ DOMAIN stack'[Len(stack)].own = 1 .. prog.size[Running]
      <4>1. Len(stack) # 0 => stack[Len(stack)] \in Activations
        BY <1>1
      <4> QED BY <1>1, <3>1, <4>1 DEF Running, Activations
    <3> QED BY <1>1, <2>1, <3>2, <3>3 DEF Sized, Shared
  <2> QED BY <2>2, <2>3
<1>5. CASE StartProgram
  <2>1. stack = <<>> /\ Len(stack) = 0
    BY <1>5 DEF StartProgram, Progress
  <2>2. stack' = Append(stack, Activation(Main)) /\ Len(stack') = Len(stack) + 1
    BY <1>5, <2>1 DEF StartProgram
  <2>3. UNCHANGED <<prog, allocated>>
    BY <1>5 DEF StartProgram, layout
  <2> QED BY <1>2, <2>2, <2>3
<1>6. CASE EliminateDead \/ Analyse \/ ChooseNext \/ TryHigher \/ PlaceHere
  <2>1. stack' = <<>>
    BY <1>6 DEF EliminateDead, Analyse, ChooseNext, TryHigher, PlaceHere, run, Progress
  <2> QED BY <2>1 DEF Sized
<1>7. ASSUME NEW f \in Functions, Call(f) \/ CallPointer(f) \/ CallBack(f) \/ Interrupt(f)
      PROVE  Sized'
  <2>1. Enter(f)
    BY <1>7 DEF Call, CallPointer, CallBack, Interrupt
  <2>2. stack' = Append(stack, Activation(f)) /\ UNCHANGED <<prog, allocated>>
    BY <2>1 DEF Enter, compile, layout
  <2>3. Len(stack') = Len(stack) + 1
    BY <1>1, <2>2
  <2> QED BY <1>2, <2>2, <2>3
<1>8. CASE UNCHANGED vars
  BY <1>8 DEF vars, run, compile, layout, Sized, Shared
<1> QED BY <1>3, <1>4, <1>5, <1>6, <1>7, <1>8 DEF Next, Compile, Execute

\* While the frames are shown, a step that leaves the layout alone and keeps
\* the locals of an activation keeps its frame.
LEMMA FrameStays ==
  ASSUME NEW k, UNCHANGED <<prog, allocated>>, stack'[k] = stack[k],
         Shared(stack[k].fn) =>
           \A b \in 1 .. prog.size[stack[k].fn] :
             mem'[Start(stack[k].fn) + b - 1] = mem[Start(stack[k].fn) + b - 1]
  PROVE  Frame(k)' = Frame(k)
<1>1. Shared(stack[k].fn)' = Shared(stack[k].fn) /\ Start(stack[k].fn)' = Start(stack[k].fn)
  BY DEF Shared, Start
<1>2. Locals(stack[k])' = Locals(stack[k])
  BY <1>1 DEF Locals
<1> QED BY <1>2 DEF Frame

\* A function is entered: a frame on top.
LEMMA EnterFrames ==
  ASSUME StorageInv, StorageInv', On, On', NEW f \in Functions,
         stack' = Append(stack, Activation(f)),
         UNCHANGED <<prog, allocated>>, stack # <<>> => mem' = mem
  PROVE  A!Enter
<1> DEFINE n == Len(stack)
<1>1. /\ n \in Nat /\ IsTuple(Frames, n)
      /\ \A k \in 1 .. n : Frames[k] = Frame(k)
  BY FramesFacts DEF FramesShown
<1>2. /\ IsTuple(Frames', Len(stack'))
      /\ \A k \in 1 .. Len(stack') : Frames'[k] = Frame(k)'
  <2>1. FramesShown'
    BY FramesFacts, PTL
  <2> QED BY <2>1 DEF FramesShown
<1>3. /\ Len(stack') = n + 1 /\ stack'[n + 1] = Activation(f)
      /\ \A k \in 1 .. n : stack'[k] = stack[k]
  BY <1>1 DEF StorageInv, Types
<1>4. \A k \in 1 .. n : Frames'[k] = Frames[k]
  <2> SUFFICES ASSUME NEW k \in 1 .. n PROVE Frames'[k] = Frames[k]
    OBVIOUS
  <2>1. mem' = mem
    BY <1>1
  <2>2. Frame(k)' = Frame(k)
    BY <1>3, <2>1, FrameStays
  <2> QED BY <1>1, <1>2, <1>3, <2>2
<1>5. Frames'[n + 1].fn = f
  <2>1. n + 1 \in 1 .. Len(stack')
    BY <1>1, <1>3
  <2>2. PICK l \in 1 .. Len(stack') : l = n + 1
    BY <2>1
  <2>3. Frames'[l] = [fn |-> stack'[l].fn, locals |-> Locals(stack[l])']
    BY <1>2, <2>2 DEF Frame
  <2>4. stack'[l].fn = f
    BY <1>3, <2>2 DEF Activation
  <2> QED BY <2>2, <2>3, <2>4
<1>6. Len(Frames') = n + 1 /\ Len(Frames) = n /\ A!Below(Frames') = Frames
  <2> HIDE DEF n
  <2> QED BY <1>1, <1>2, <1>3, <1>4, BelowOf
<1> QED BY <1>5, <1>6 DEF A!Enter

\* The running function returns: its frame goes.
LEMMA LeaveFrames ==
  ASSUME StorageInv, StorageInv', On, On', Return
  PROVE  A!Leave
<1> DEFINE n == Len(stack)
<1>1. /\ n \in Nat /\ IsTuple(Frames, n)
      /\ \A k \in 1 .. n : Frames[k] = Frame(k)
  BY FramesFacts DEF FramesShown
<1>2. /\ IsTuple(Frames', Len(stack'))
      /\ \A k \in 1 .. Len(stack') : Frames'[k] = Frame(k)'
  <2>1. FramesShown'
    BY FramesFacts, PTL
  <2> QED BY <2>1 DEF FramesShown
<1>3. /\ n - 1 \in Nat /\ Len(stack') = n - 1
      /\ \A k \in 1 .. n - 1 : stack'[k] = stack[k]
      /\ UNCHANGED <<prog, allocated, mem>>
  <2>1. stack \in Seq(Activations) /\ stack # <<>>
    BY DEF StorageInv, Types, Return, Active
  <2> QED BY <2>1, PopFacts DEF Return, compile, layout
<1>4. \A k \in 1 .. n - 1 : Frames[k] = Frames'[k]
  <2> SUFFICES ASSUME NEW k \in 1 .. n - 1 PROVE Frames[k] = Frames'[k]
    OBVIOUS
  <2>1. Frame(k)' = Frame(k)
    BY <1>3, FrameStays
  <2> QED BY <1>1, <1>2, <1>3, <2>1
<1>5. Len(Frames) = n /\ A!Below(Frames) = Frames'
  <2> DEFINE m == n - 1
  <2>1. m \in Nat /\ n = m + 1
    BY <1>1, <1>3
  <2>2. IsTuple(Frames', m)
    BY <1>2, <1>3
  <2> HIDE DEF n, m
  <2> QED BY <1>1, <1>4, <2>1, <2>2, BelowOf
<1>6. Frames # <<>>
  BY <1>3, <1>5
<1> QED BY <1>5, <1>6 DEF A!Leave

\* While the frames are shown, no two activations have a byte in common: a
\* handler that came again reaches no function with a region.
LEMMA NothingMeets ==
  ASSUME StorageInv, On, OverwrittenOnlyIfWarned,
         NEW k \in 1 .. Len(stack), NEW l \in 1 .. Len(stack), k < l
  PROVE  RegionOf(stack[k].fn) \cap RegionOf(stack[l].fn) = {}
<1> SUFFICES ASSUME RegionOf(stack[k].fn) \cap RegionOf(stack[l].fn) # {}
             PROVE  FALSE
  OBVIOUS
<1> DEFINE x == stack[k].fn
<1>1. Shared(x)
  BY DEF RegionOf
<1>2. HandlerCameAgain(k, l)
  BY DEF OverwrittenOnlyIfWarned, On
<1>3. PICK i \in 1 .. k :
        /\ stack[i].fn \in Isrs(prog) /\ prog.isr[stack[i].fn] = "int"
        /\ \A n \in i + 1 .. k : stack[n].fn \notin Isrs(prog)
  BY <1>2 DEF HandlerCameAgain
<1>4. x # stack[i].fn
  BY <1>1, <1>3, SharedFacts
<1>5. PICK m \in 1 .. k : Context(m, k)
  BY ContextOf DEF On
<1>6. m <= i
  <2> SUFFICES ASSUME i < m PROVE FALSE
    OBVIOUS
  <2>1. m \in i + 1 .. k
    OBVIOUS
  <2>2. m # 1 /\ stack[m].fn \notin Isrs(prog)
    BY <2>1, <1>3
  <2> QED BY <2>2, <1>5 DEF Context
<1>7. x \in Reach[stack[i].fn]
  <2>1. i # k
    BY <1>4
  <2>2. i \in m .. k - 1
    BY <2>1, <1>6
  <2> QED BY <2>2, <1>5 DEF Context
<1>8. stack[i].fn \in live /\ x \in live /\ live \subseteq Functions
  BY DEF StorageInv, Contexts, NothingDeadEntered, Types
<1>9. x \in Reachable(prog, live, stack[i].fn)
  BY <1>7, <1>8 DEF Reach
<1>10. Unguarded
  <2>1. prog.isr[stack[i].fn] = "int" /\ ~prog.isrSafe
    BY <1>2, <1>3 DEF HandlerCameAgain
  <2> QED BY <1>1, <1>3, <1>8, <1>9, <2>1 DEF Unguarded
<1> QED BY <1>10 DEF On

\* The running function stores to its locals: no other frame changes, for the
\* regions of two activations never meet.
LEMMA AssignFrames ==
  ASSUME StorageInv, StorageInv', On, On', TypeOK, Sized, Sized', OverwrittenOnlyIfWarned,
         NEW v \in Values, Assign(v)
  PROVE  A!Assign
<1> DEFINE n == Len(stack)
           top == stack[n]
<1>1. /\ n \in Nat /\ IsTuple(Frames, n)
      /\ \A k \in 1 .. n : Frames[k] = Frame(k)
  BY FramesFacts DEF FramesShown
<1>2. /\ IsTuple(Frames', Len(stack'))
      /\ \A k \in 1 .. Len(stack') : Frames'[k] = Frame(k)'
  <2>1. FramesShown'
    BY FramesFacts, PTL
  <2> QED BY <2>1 DEF FramesShown
<1>3. stack \in Seq(Activations) /\ stack # <<>> /\ n # 0 /\ top \in Activations
  <2>1. stack \in Seq(Activations) /\ stack # <<>>
    BY DEF StorageInv, Types, Assign, Active
  <2> QED BY <2>1, PopFacts
<1>4. UNCHANGED <<prog, allocated>>
  BY DEF Assign, compile, layout
<1>5. /\ Len(stack') = n /\ stack'[n].fn = top.fn
      /\ \A k \in 1 .. n : k # n => stack'[k] = stack[k]
  <2>1. CASE Shared(Running)
    BY <2>1 DEF Assign
  <2>2. CASE ~Shared(Running)
    <3>1. stack' = [stack EXCEPT ![n].own = [b \in 1 .. prog.size[Running] |-> v]]
      BY <2>2 DEF Assign
    <3> QED BY <1>3, <3>1 DEF Activations
  <2> QED BY <2>1, <2>2
<1>6. ASSUME NEW k \in 1 .. n, k # n PROVE Frames'[k] = Frames[k]
  <2>1. ASSUME Shared(stack[k].fn), NEW b \in 1 .. prog.size[stack[k].fn]
        PROVE  mem'[Start(stack[k].fn) + b - 1] = mem[Start(stack[k].fn) + b - 1]
    <3>1. CASE ~Shared(Running)
      BY <3>1 DEF Assign
    <3>2. CASE Shared(Running)
      <4> DEFINE c == Start(stack[k].fn) + b - 1
      <4>1. RegionOf(stack[k].fn) \cap RegionOf(top.fn) = {}
        <5>1. k < n /\ n \in 1 .. n
          BY <1>1, <1>3, <1>6
        <5> QED BY <1>6, <5>1, NothingMeets
      <4>2. c \in RegionOf(stack[k].fn)
        <5>1. PICK j \in 1 .. Len(allocated) : allocated[j].fn = stack[k].fn
          BY <2>1 DEF Shared
        <5>2. Start(stack[k].fn) = allocated[j].from /\ allocated[j] \in Region
          BY <5>1, RegionFacts DEF StorageInv, Types
        <5>3. stack[k] \in Activations /\ stack[k].fn \in Functions
          <6>1. \A S, q : q \in Seq(S) => \A i \in 1 .. Len(q) : q[i] \in S
            OBVIOUS
          <6>2. stack[k] \in Activations
            BY <1>3, <1>6, <6>1
          <6> QED BY <6>2 DEF Activations
        <5>4. Start(stack[k].fn) \in Nat /\ prog.size[stack[k].fn] \in Nat
          BY <5>2, <5>3, ProgramsAssumption DEF Region, StorageInv, Types, IsProgram
        <5> QED BY <2>1, <5>4 DEF RegionOf
      <4>3. c \in DOMAIN mem
        BY <1>1, <4>2 DEF TypeOK
      <4>4. mem' = [b2 \in DOMAIN mem |-> IF b2 \in RegionOf(Running) THEN v ELSE mem[b2]]
        BY <3>2 DEF Assign
      <4> QED BY <4>1, <4>2, <4>3, <4>4 DEF Running
    <3> QED BY <3>1, <3>2
  <2>2. Frame(k)' = Frame(k)
    BY <1>4, <1>5, <1>6, <2>1, FrameStays
  <2> QED BY <1>1, <1>2, <1>5, <2>2
<1>7. /\ Frames[n] = Frame(n) /\ Frames'[n] = Frame(n)'
  BY <1>1, <1>2, <1>3, <1>5
<1>8. Frames'[n].fn = Frames[n].fn
  BY <1>5, <1>7 DEF Frame
<1>9. DOMAIN Frames[n].locals = 1 .. prog.size[top.fn]
  BY <1>1, <1>3, <1>7 DEF Frame, Locals, Sized
<1>10. DOMAIN Frames'[n].locals = 1 .. prog.size[top.fn]
  <2>1. Frames'[n].locals = Locals(stack[n])'
    BY <1>7 DEF Frame
  <2>2. Shared(stack[n].fn)' <=> Shared(top.fn)
    BY <1>4, <1>5 DEF Shared
  <2>3. CASE Shared(top.fn)
    BY <1>4, <1>5, <2>1, <2>2, <2>3 DEF Locals
  <2>4. CASE ~Shared(top.fn)
    <3>1. DOMAIN stack'[n].own = 1 .. prog'.size[stack'[n].fn]
      <4>1. PICK l \in 1 .. Len(stack') : l = n
        BY <1>1, <1>3, <1>5
      <4>2. \A k \in 1 .. Len(stack') :
              ~Shared(stack[k].fn)' => DOMAIN stack'[k].own = 1 .. prog'.size[stack'[k].fn]
        BY DEF Sized
      <4>3. ~Shared(stack[l].fn)'
        BY <1>4, <1>5, <2>4, <4>1 DEF Shared
      <4> QED BY <4>1, <4>2, <4>3
    <3> QED BY <1>4, <1>5, <2>1, <2>2, <2>4, <3>1 DEF Locals
  <2> QED BY <2>3, <2>4
<1>11. /\ Len(Frames) = n /\ Len(Frames') = n /\ Frames # <<>>
       /\ A!Below(Frames') = A!Below(Frames)
  <2> DEFINE m == n - 1
             t == [k \in 1 .. m |-> Frames[k]]
  <2>1. m \in Nat /\ n = m + 1
    BY <1>1, <1>3
  <2>2. IsTuple(Frames', n)
    BY <1>2, <1>5
  <2>3. \A k \in 1 .. m : Frames'[k] = Frames[k] /\ t[k] = Frames[k]
    BY <1>1, <1>6
  <2>4. IsTuple(t, m)
    BY DEF IsTuple
  <2> HIDE DEF t, m, n
  <2>5. /\ Len(Frames) = n /\ A!Below(Frames) = t
    BY <1>1, <2>1, <2>3, <2>4, BelowOf
  <2>6. /\ Len(Frames') = n /\ A!Below(Frames') = t
    BY <2>1, <2>2, <2>3, <2>4, BelowOf
  <2>7. Len(Frames) # 0
    BY <1>3, <2>5 DEF n
  <2> QED BY <2>5, <2>6, <2>7
<1> QED BY <1>8, <1>9, <1>10, <1>11 DEF A!Assign

\* A step of the compiler, and every step of a program that it warned of or that
\* is unguarded, is a stutter.
LEMMA NextImplements ==
  ASSUME StorageInv, StorageInv', TypeOK, Sized, Sized', OverwrittenOnlyIfWarned,
         [Next]_vars
  PROVE  [A!Next]_Frames
<1>1. CASE UNCHANGED vars
  <2>1. UNCHANGED <<prog, live, warned, allocated, stack, mem>>
    BY <1>1 DEF vars, compile, analysis, layout, run
  <2>2. Unguarded' <=> Unguarded
    BY <2>1 DEF Unguarded, Shared
  <2>3. Frames' = Frames
    BY <2>1, <2>2 DEF Frames, Locals, Shared, Start
  <2> QED BY <2>3
<1>2. CASE EliminateDead \/ Analyse \/ ChooseNext \/ TryHigher \/ PlaceHere
  <2>1. stack = <<>> /\ stack' = <<>>
    BY <1>2 DEF EliminateDead, Analyse, ChooseNext, TryHigher, PlaceHere, run,
                StorageInv, Progress
  <2>2. FramesShown /\ FramesShown'
    BY FramesFacts, PTL
  <2>3. Frames = <<>> /\ Frames' = <<>>
    BY <2>1, <2>2 DEF FramesShown
  <2> QED BY <2>3
<1>3. ASSUME StartProgram \/ Execute PROVE [A!Next]_Frames
  <2>1. UNCHANGED <<prog, warned, allocated>> /\ (On' <=> On)
    <3>1. UNCHANGED <<prog, warned, live, allocated>>
      BY <1>3 DEF StartProgram, Execute, Call, CallPointer, CallBack, Interrupt, Enter,
                  Return, Assign, compile, analysis, layout
    <3>2. Unguarded' <=> Unguarded
      BY <3>1 DEF Unguarded, Shared
    <3> QED BY <3>1, <3>2 DEF On
  <2>2. CASE ~On
    <3>1. FramesShown /\ FramesShown'
      BY FramesFacts, PTL
    <3> QED BY <2>1, <2>2, <3>1 DEF FramesShown
  <2>3. CASE On /\ StartProgram
    <3>1. stack = <<>>
      BY <2>3 DEF StartProgram, StorageInv, Progress
    <3>2. stack' = Append(stack, Activation(Main)) /\ Main \in Functions
      BY <2>3, <3>1, FunctionsAssumption DEF StartProgram
    <3> QED BY <2>1, <2>3, <3>1, <3>2, EnterFrames DEF A!Next
  <2>4. ASSUME On, NEW f \in Functions,
               Call(f) \/ CallPointer(f) \/ CallBack(f) \/ Interrupt(f)
        PROVE  A!Next
    <3>1. stack' = Append(stack, Activation(f)) /\ mem' = mem
      BY <2>4 DEF Call, CallPointer, CallBack, Interrupt, Enter
    <3> QED BY <2>1, <2>4, <3>1, EnterFrames DEF A!Next
  <2>5. CASE On /\ Return
    BY <2>1, <2>5, LeaveFrames DEF A!Next
  <2>6. ASSUME On, NEW v \in Values, Assign(v) PROVE A!Next
    BY <2>1, <2>6, AssignFrames DEF A!Next
  <2> QED BY <1>3, <2>2, <2>3, <2>4, <2>5, <2>6 DEF Execute
<1> QED BY <1>1, <1>2, <1>3 DEF Next, Compile

\* A whole program that the compiler did not warn of, with --isr-safe or with no
\* more than one handler, cannot tell fixed addresses from a stack, unless the
\* handler starts with EI and reaches a function with a region: SharedStorage implements
\* Automatic, a stack of frames that only the running function changes.
THEOREM StorageImplements ==
  ASSUME \A p \in Programs : p.whole => Answerable(p)
  PROVE  Spec => ImplementsAutomatic
<1>1. Init => A!Init
  BY DEF Init, Frames, A!Init
<1>2. Init => Sized
  BY DEF Init, Sized
<1>3. StorageInv /\ Sized /\ [Next]_vars => Sized'
  BY SizedStep
<1>4. StorageInv /\ StorageInv' /\ TypeOK /\ Sized /\ Sized' /\ OverwrittenOnlyIfWarned
        /\ [Next]_vars => [A!Next]_Frames
  BY NextImplements
<1>5. Spec => []Sized
  BY <1>2, <1>3, StorageInvariant, PTL DEF Spec
<1>6. Spec => []OverwrittenOnlyIfWarned
  BY LocalsKept
<1> QED
  BY <1>1, <1>4, <1>5, <1>6, StorageInvariant, StorageTypes, PTL
     DEF Spec, A!Spec, ImplementsAutomatic

-----------------------------------------------------------------------------
(* The allocation comes to an end.                                           *)

PhaseAdvances ==
  <<phase, phase'>> \in {<<"eliminate", "analyse">>, <<"analyse", "place">>, <<"place", "run">>}

FewerToPlace ==
  /\ Cardinality(todo) \in Nat /\ Cardinality(todo') \in Nat
  /\ Cardinality(todo') < Cardinality(todo)

FunctionChosen == todo' = todo /\ cur = NoFunction /\ cur' # NoFunction

\* The offset tried rises, and stays within the area allocated so far.
OffsetRises ==
  /\ todo' = todo /\ cur' = cur /\ cur # NoFunction
  /\ at \in Nat /\ at' \in Nat /\ total \in Nat /\ total' = total
  /\ at < at' /\ at' <= total

\* Every step of the compiler goes on to its next part, places a function for
\* good, takes up the next one, or tries a higher offset below a limit that
\* stands meanwhile: the loop of allocate_shared_storage that goes back to its
\* start at each region in the way never tries the same offset twice.
THEOREM AllocationMovesOn ==
  Spec => [][Compile =>
               \/ PhaseAdvances
               \/ phase' = phase /\ (FewerToPlace \/ FunctionChosen \/ OffsetRises)]_vars
<1>1. ASSUME StorageInv, Compile
      PROVE  \/ PhaseAdvances
             \/ phase' = phase /\ (FewerToPlace \/ FunctionChosen \/ OffsetRises)
  <2>1. CASE EliminateDead \/ Analyse \/ StartProgram
    BY <2>1 DEF EliminateDead, Analyse, StartProgram, PhaseAdvances
  <2>2. CASE ChooseNext
    BY <1>1, <2>2, FunctionsAssumption
       DEF ChooseNext, FunctionChosen, StorageInv, Types
  <2>3. CASE TryHigher
    <3>1. PICK k \in 1 .. Len(allocated) : InTheWay(k) /\ at' = allocated[k].to
      BY <2>3 DEF TryHigher
    <3>2. allocated[k] \in Region
      BY <1>1, <3>1 DEF StorageInv, Types
    <3>3. at < allocated[k].to /\ allocated[k].to <= total /\ allocated[k].to \in Nat
      BY <1>1, <3>1, <3>2 DEF InTheWay, Region, StorageInv, Types, Placed
    <3> QED BY <1>1, <2>3, <3>1, <3>3 DEF TryHigher, OffsetRises, StorageInv, Types
  <2>4. CASE PlaceHere
    <3>1. cur \in todo /\ todo' = todo \ {cur} /\ phase' = phase
      BY <1>1, <2>4 DEF PlaceHere, StorageInv, Progress
    <3>2. IsFiniteSet(todo)
      BY <1>1, FunctionsAssumption, FS_Subset DEF StorageInv, Types
    <3>3. IsFiniteSet(todo') /\ Cardinality(todo') = Cardinality(todo) - 1
      BY <3>1, <3>2, FS_RemoveElement
    <3> QED BY <3>1, <3>2, <3>3, FS_CardinalityType DEF FewerToPlace
  <2> QED BY <1>1, <2>1, <2>2, <2>3, <2>4 DEF Compile
<1>2. StorageInv /\ [Next]_vars =>
        [Compile =>
           \/ PhaseAdvances
           \/ phase' = phase /\ (FewerToPlace \/ FunctionChosen \/ OffsetRises)]_vars
  BY <1>1
<1> QED BY <1>2, StorageInvariant, PTL DEF Spec
=============================================================================
