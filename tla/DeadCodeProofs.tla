--------------------------- MODULE DeadCodeProofs ---------------------------
(***************************************************************************)
(* The removal of dead code is right for every text, of any size.          *)
(*                                                                         *)
(* The argument.  While the code is searched, all that a live block leads  *)
(* to is live or on the worklist (Frontier), and nothing is there that a   *)
(* closed set lacks (Minimal).  When the worklist is empty the live blocks *)
(* are closed; the search of the data repeats this.  A run of the program  *)
(* then cannot leave either set: a pointer it follows holds an address     *)
(* that the entry points count as taken.                                   *)
(***************************************************************************)
EXTENDS DeadCode, FiniteSetTheorems, TLAPS

\* What the searches keep: nothing that live code leads to is forgotten.
Frontier ==
  /\ EntryPoints(text) \subseteq reachable \cup pending
  /\ \A b \in reachable :
       text.jumps[b] \cup FallThrough(text, b) \subseteq reachable \cup pending

\* Nothing is live that some closed set does without.
Minimal ==
  \A S \in SUBSET Blocks : Closed(text, S) => reachable \cup pending \subseteq S

DataFrontier ==
  /\ NamedData(text, reachable) \subseteq referenced
  /\ \A d \in referenced \ work : text.points[d] \subseteq referenced

\* The inductive invariant of the pass.
PassInv ==
  /\ TypeOK
  /\ Frontier
  /\ Minimal
  /\ work \subseteq referenced
  /\ phase # "code" => /\ pending = {}
                       /\ GroupRest(text, reachable) = {}
                       /\ DataFrontier
  /\ phase = "run" => work = {}
  /\ phase # "run" => entered = {} /\ touched = {}

LEMMA TextFacts ==
  ASSUME NEW t \in Texts
  PROVE  /\ \A b \in Blocks : /\ t.jumps[b] \subseteq Blocks
                              /\ t.takes[b] \subseteq Blocks
                              /\ t.reads[b] \subseteq Data
                              /\ RunsOn(t, b) = FallThrough(t, b)
         /\ \A d \in Data : /\ t.points[d] \subseteq Data
                            /\ t.tables[d] \subseteq Blocks
         /\ t.public \subseteq Blocks /\ t.keep \subseteq Blocks
         /\ t.publicData \subseteq Data /\ t.keepData \subseteq Data
         /\ \A g \in t.noopt : g \subseteq Blocks
         /\ AddressTaken(t) \subseteq Blocks
         /\ EntryPoints(t) \subseteq Blocks
         /\ \A b \in Blocks : FallThrough(t, b) \subseteq Blocks
         /\ \A live : GroupRest(t, live) \subseteq Blocks
         /\ \A live \in SUBSET Blocks : NamedData(t, live) \subseteq Data
<1>1. t \in Text /\ \A b \in Blocks : t.asm[b] = "file" => t.last[b] = "stop"
  BY TextsAssumption
<1>2. /\ \A b \in Blocks : /\ t.jumps[b] \subseteq Blocks
                           /\ t.takes[b] \subseteq Blocks
                           /\ t.reads[b] \subseteq Data
      /\ \A d \in Data : /\ t.points[d] \subseteq Data
                         /\ t.tables[d] \subseteq Blocks
      /\ t.public \subseteq Blocks /\ t.keep \subseteq Blocks
      /\ t.publicData \subseteq Data /\ t.keepData \subseteq Data
      /\ \A g \in t.noopt : g \subseteq Blocks
  BY <1>1 DEF Text
<1>3. \A b \in Blocks : RunsOn(t, b) = FallThrough(t, b)
  BY <1>1 DEF RunsOn, FallThrough, EndsWithTerminator
<1>4. AddressTaken(t) \subseteq Blocks
  BY <1>2 DEF AddressTaken
<1>5. EntryPoints(t) \subseteq Blocks
  BY <1>2, <1>4 DEF EntryPoints, FileRegions
<1>6. \A b \in Blocks : FallThrough(t, b) \subseteq Blocks
  BY DEF FallThrough
<1>7. \A live : GroupRest(t, live) \subseteq Blocks
  BY <1>2 DEF GroupRest
<1>8. \A live \in SUBSET Blocks : NamedData(t, live) \subseteq Data
  BY <1>2 DEF NamedData
<1> QED BY <1>2, <1>3, <1>4, <1>5, <1>6, <1>7, <1>8

LEMMA InitPass == Init => PassInv
<1> SUFFICES ASSUME Init PROVE PassInv
  OBVIOUS
<1>1. TypeOK
  BY TextFacts DEF Init, TypeOK
<1>2. Frontier /\ Minimal
  BY DEF Init, Frontier, Minimal, Closed
<1> QED BY <1>1, <1>2 DEF Init, PassInv

LEMMA NextPass == PassInv /\ [Next]_vars => PassInv'
<1> SUFFICES ASSUME PassInv, [Next]_vars
             PROVE  PassInv'
  OBVIOUS
<1>1. text \in Texts /\ TypeOK
  BY DEF PassInv, TypeOK
<1>2. CASE Explore
  <2> PICK b \in pending :
        /\ reachable' = reachable \cup {b}
        /\ pending' = (pending \cup text.jumps[b] \cup FallThrough(text, b)) \ reachable'
    BY <1>2 DEF Explore
  <2>0. /\ phase = "code" /\ b \in Blocks
        /\ UNCHANGED <<text, phase, work, referenced, entered, touched>>
    BY <1>1, <1>2 DEF Explore, TypeOK
  <2>1. TypeOK'
    BY <1>1, <2>0, TextFacts DEF TypeOK
  <2>2. Frontier'
    <3>1. EntryPoints(text) \subseteq reachable' \cup pending'
      BY DEF PassInv, Frontier
    <3>2. \A c \in reachable' :
            text.jumps[c] \cup FallThrough(text, c) \subseteq reachable' \cup pending'
      BY DEF PassInv, Frontier
    <3> QED BY <2>0, <3>1, <3>2 DEF Frontier
  <2>3. Minimal'
    <3> SUFFICES ASSUME NEW S \in SUBSET Blocks, Closed(text, S)
                 PROVE  reachable' \cup pending' \subseteq S
      BY <2>0 DEF Minimal
    <3>1. reachable \cup pending \subseteq S
      BY DEF PassInv, Minimal
    <3>2. text.jumps[b] \cup RunsOn(text, b) \subseteq S
      BY <3>1 DEF Closed
    <3> QED BY <1>1, <2>0, <3>1, <3>2, TextFacts
  <2> QED BY <2>0, <2>1, <2>2, <2>3 DEF PassInv
<1>3. CASE Regroup
  <2>1. TypeOK'
    BY <1>1, <1>3, TextFacts DEF Regroup, TypeOK
  <2>2. Frontier'
    BY <1>3 DEF Regroup, PassInv, Frontier
  <2>3. Minimal'
    <3> SUFFICES ASSUME NEW S \in SUBSET Blocks, Closed(text, S)
                 PROVE  reachable \cup GroupRest(text, reachable) \subseteq S
      BY <1>3 DEF Regroup, Minimal
    <3>1. reachable \subseteq S
      BY DEF PassInv, Minimal
    <3>2. \A g \in text.noopt : g \cap reachable # {} => g \subseteq S
      BY <3>1 DEF Closed
    <3> QED BY <3>1, <3>2 DEF GroupRest
  <2> QED BY <1>3, <2>1, <2>2, <2>3 DEF Regroup, PassInv
<1>4. CASE NameData
  <2>1. TypeOK'
    BY <1>1, <1>4, TextFacts DEF NameData, TypeOK
  <2>2. Frontier' /\ Minimal'
    BY <1>4 DEF NameData, PassInv, Frontier, Minimal
  <2>3. DataFrontier'
    BY <1>4 DEF NameData, DataFrontier
  <2> QED BY <1>4, <2>1, <2>2, <2>3 DEF NameData, PassInv
<1>5. CASE ScanData
  <2> PICK d \in work :
        /\ referenced' = referenced \cup text.points[d]
        /\ work' = (work \ {d}) \cup (text.points[d] \ referenced)
    BY <1>5 DEF ScanData
  <2>0. /\ phase = "data" /\ d \in Data
        /\ UNCHANGED <<text, phase, pending, reachable, entered, touched>>
    BY <1>1, <1>5 DEF ScanData, TypeOK
  <2>1. TypeOK'
    BY <1>1, <2>0, TextFacts DEF TypeOK
  <2>2. Frontier' /\ Minimal'
    BY <2>0 DEF PassInv, Frontier, Minimal
  <2>3. DataFrontier'
    BY <2>0 DEF PassInv, DataFrontier
  <2>4. work' \subseteq referenced'
    BY DEF PassInv
  <2> QED BY <2>0, <2>1, <2>2, <2>3, <2>4 DEF PassInv
<1>6. CASE Rebuild
  BY <1>1, <1>6
  DEF Rebuild, PassInv, TypeOK, Frontier, Minimal, DataFrontier
<1>7. CASE Enter
  BY <1>1, <1>7
  DEF Enter, PassInv, TypeOK, Frontier, Minimal, DataFrontier
<1>8. CASE Touch
  BY <1>1, <1>8
  DEF Touch, PassInv, TypeOK, Frontier, Minimal, DataFrontier
<1>9. CASE UNCHANGED vars
  BY <1>9 DEF vars, PassInv, TypeOK, Frontier, Minimal, DataFrontier
<1> QED BY <1>2, <1>3, <1>4, <1>5, <1>6, <1>7, <1>8, <1>9 DEF Next, Pass

THEOREM PassInvariant == Spec => []PassInv
BY InitPass, NextPass, PTL DEF Spec

\* The worklists and the marked sets hold labels of the text only.
THEOREM DeadCodeTypes == Spec => []TypeOK
BY PassInvariant, PTL DEF PassInv

\* Nothing stays live that the entry points do not need (_explore,
\* _find_reachable).
THEOREM KeepsOnlyNeeded == Spec => []OnlyNeeded
<1>1. PassInv => OnlyNeeded
  BY DEF PassInv, Minimal, OnlyNeeded
<1> QED BY <1>1, PassInvariant, PTL

-----------------------------------------------------------------------------
(* What the output keeps.                                                  *)

\* Every function whose address is taken is an entry point: whole-program
\* mode, or only addresses of PUBLIC functions are taken.
AddressesAreEntries ==
  \A t \in Texts : AddressTaken(t) \subseteq EntryPoints(t)

LEMMA WholeTakesAll ==
  ASSUME \A t \in Texts : t.whole \/ AddressTaken(t) \subseteq t.public
  PROVE  AddressesAreEntries
BY DEF AddressesAreEntries, EntryPoints

\* When the output runs, the live blocks and the live data are closed.
LEMMA OutputClosed ==
  ASSUME PassInv, phase = "run"
  PROVE  /\ EntryPoints(text) \subseteq reachable
         /\ \A b \in reachable : /\ text.jumps[b] \subseteq reachable
                                 /\ RunsOn(text, b) \subseteq reachable
                                 /\ text.reads[b] \subseteq referenced
         /\ \A d \in referenced : text.points[d] \subseteq referenced
         /\ text.keepData \subseteq referenced
         /\ ~ text.whole => text.publicData \subseteq referenced
         /\ \A g \in text.noopt : g \cap reachable # {} => g \subseteq reachable
<1>1. text \in Texts /\ reachable \subseteq Blocks
  BY DEF PassInv, TypeOK
<1>2. EntryPoints(text) \subseteq reachable
  BY DEF PassInv, Frontier
<1>3. \A b \in reachable : /\ text.jumps[b] \subseteq reachable
                           /\ RunsOn(text, b) \subseteq reachable
  BY <1>1, TextFacts DEF PassInv, Frontier
<1>4. NamedData(text, reachable) \subseteq referenced
  BY DEF PassInv, DataFrontier
<1>5. /\ \A b \in reachable : text.reads[b] \subseteq referenced
      /\ text.keepData \subseteq referenced
      /\ ~ text.whole => text.publicData \subseteq referenced
  BY <1>4 DEF NamedData
<1>6. \A d \in referenced : text.points[d] \subseteq referenced
  BY DEF PassInv, DataFrontier
<1>7. GroupRest(text, reachable) = {}
  BY DEF PassInv
<1>8. \A g \in text.noopt : g \cap reachable # {} => g \subseteq reachable
  BY <1>7 DEF GroupRest
<1> QED BY <1>2, <1>3, <1>5, <1>6, <1>8

\* No live line names a label that is gone, optnone functions are whole.
THEOREM OutputAssembles ==
  ASSUME AddressesAreEntries
  PROVE  Spec => []LabelsDefined
<1>1. PassInv => LabelsDefined
  <2> SUFFICES ASSUME PassInv, phase = "run" PROVE LabelsDefined
    BY DEF LabelsDefined
  <2>1. /\ text \in Texts
        /\ reachable \subseteq Blocks /\ referenced \subseteq Data
    BY DEF PassInv, TypeOK
  <2>2. /\ \A b \in reachable : text.takes[b] \subseteq reachable
        /\ \A d \in referenced : text.tables[d] \subseteq reachable
    <3>1. AddressTaken(text) \subseteq reachable
      BY <2>1, OutputClosed DEF AddressesAreEntries
    <3> QED BY <3>1, <2>1 DEF AddressTaken
  <2> QED BY <2>2, OutputClosed DEF LabelsDefined
<1> QED BY <1>1, PassInvariant, PTL

\* A run of the output never reaches what was removed, through jumps,
\* fall-through, hand-written assembly or pointers, in any order.
THEOREM RunStaysInside ==
  ASSUME AddressesAreEntries
  PROVE  Spec => []StaysInside
<1>1. Init => StaysInside
  BY DEF Init, StaysInside
<1>2. PassInv /\ StaysInside /\ [Next]_vars => StaysInside'
  <2> SUFFICES ASSUME PassInv, StaysInside, [Next]_vars
               PROVE  StaysInside'
    OBVIOUS
  <2>0. /\ text \in Texts
        /\ entered \subseteq Blocks /\ touched \subseteq Data
    BY DEF PassInv, TypeOK
  <2>1. CASE Pass
    BY <2>1 DEF Pass, Explore, Regroup, NameData, ScanData, Rebuild, PassInv, StaysInside
  <2>2. CASE Enter
    <3>1. phase = "run"
      BY <2>2 DEF Enter
    <3>2. Pointers \subseteq AddressTaken(text)
      BY <2>0 DEF Pointers, AddressTaken
    <3>3. AddressTaken(text) \subseteq reachable
      BY <3>1, <2>0, OutputClosed DEF AddressesAreEntries
    <3>4. text.public \cup text.keep \cup FileRegions(text) \subseteq reachable
      BY <3>1, OutputClosed DEF EntryPoints
    <3>5. \A b \in entered : text.jumps[b] \cup RunsOn(text, b) \subseteq reachable
      BY <3>1, OutputClosed DEF StaysInside
    <3> QED BY <2>2, <3>2, <3>3, <3>4, <3>5 DEF Enter, StaysInside
  <2>3. CASE Touch
    <3>1. phase = "run"
      BY <2>3 DEF Touch
    <3>2. /\ \A b \in entered : text.reads[b] \subseteq referenced
          /\ \A d \in touched : text.points[d] \subseteq referenced
          /\ text.keepData \subseteq referenced
          /\ ~ text.whole => text.publicData \subseteq referenced
      BY <3>1, OutputClosed DEF StaysInside
    <3> QED BY <2>3, <3>2 DEF Touch, StaysInside
  <2>4. CASE UNCHANGED vars
    BY <2>4 DEF vars, StaysInside
  <2> QED BY <2>1, <2>2, <2>3, <2>4 DEF Next
<1> QED BY <1>1, <1>2, PassInvariant, PTL DEF Spec

-----------------------------------------------------------------------------
(* The pass comes to an end: what is left to mark falls at each step.        *)

\* A live block is on the worklist no more.
Settled == phase = "code" => pending \cap reachable = {}

\* What a step of the pass uses up: the blocks not live yet, the data that is
\* not live or still to be scanned, and the turns of the two loops.
Left ==
  CASE phase = "code" -> 2 * Cardinality(Blocks \ reachable)
                           + (IF pending = {} THEN 1 ELSE 0) + Cardinality(Data) + 2
    [] phase = "data" -> Cardinality(Data \ (referenced \ work)) + 1
    [] phase = "run" -> 0

\* A set of which one more member is left out has one member less.
LEMMA OneLess ==
  ASSUME NEW S, IsFiniteSet(S), NEW T, NEW U, NEW x \in S, x \notin T, U = T \cup {x}
  PROVE  Cardinality(S \ U) + 1 = Cardinality(S \ T)
<1>1. S \ T = (S \ U) \cup {x} /\ x \notin S \ U
  OBVIOUS
<1>2. IsFiniteSet(S \ U)
  BY FS_Difference
<1> QED BY <1>1, <1>2, FS_AddElement

LEMMA PartOf ==
  ASSUME NEW S, IsFiniteSet(S), NEW T
  PROVE  /\ Cardinality(S \ T) \in Nat /\ Cardinality(S) \in Nat
         /\ Cardinality(S \ T) <= Cardinality(S)
<1>1. (S \ T) \subseteq S
  OBVIOUS
<1> QED BY <1>1, FS_Subset, FS_CardinalityType

LEMMA InitSettled == Init => Settled
  BY DEF Init, Settled

LEMMA NextSettled == PassInv /\ Settled /\ [Next]_vars => Settled'
<1> SUFFICES ASSUME PassInv, Settled, [Next]_vars PROVE Settled'
  OBVIOUS
<1>1. CASE Explore
  BY <1>1 DEF Explore, Settled
<1>2. CASE Regroup
  BY <1>2 DEF Regroup, Settled, GroupRest
<1>3. CASE NameData \/ ScanData \/ Rebuild \/ Enter \/ Touch \/ UNCHANGED vars
  BY <1>3 DEF NameData, ScanData, Rebuild, Enter, Touch, vars, Settled
<1> QED BY <1>1, <1>2, <1>3 DEF Next, Pass

\* The pass marks and never unmarks: on a text of any size, whatever its jumps,
\* loops and tables are, each step leaves less to do.
THEOREM PassMovesOn ==
  ASSUME IsFiniteSet(Data)
  PROVE  Spec => [][Pass => Left' \in Nat /\ Left \in Nat /\ Left' < Left]_vars
<1>1. IsFiniteSet(Blocks)
  BY FS_Interval, TextsAssumption DEF Blocks
<1>2. ASSUME PassInv, Settled, Pass
      PROVE  Left' \in Nat /\ Left \in Nat /\ Left' < Left
  <2>1. PICK n, i, j, u, v :
               /\ n = Cardinality(Data)
               /\ i = Cardinality(Blocks \ reachable) /\ j = Cardinality(Blocks \ reachable')
               /\ u = Cardinality(Data \ (referenced \ work))
               /\ v = Cardinality(Data \ (referenced' \ work'))
    OBVIOUS
  <2>2. /\ n \in Nat /\ i \in Nat /\ j \in Nat /\ u \in Nat /\ v \in Nat
        /\ u <= n /\ v <= n
    BY <1>1, <2>1, PartOf
  <2>3. /\ phase = "code" => Left = 2 * i + (IF pending = {} THEN 1 ELSE 0) + n + 2
        /\ phase = "data" => Left = u + 1
        /\ phase' = "code" => Left' = 2 * j + (IF pending' = {} THEN 1 ELSE 0) + n + 2
        /\ phase' = "data" => Left' = v + 1
        /\ phase' = "run" => Left' = 0
    BY <2>1 DEF Left
  <2>4. CASE Explore
    <3>1. PICK b \in pending : reachable' = reachable \cup {b}
      BY <2>4 DEF Explore
    <3>2. b \in Blocks /\ b \notin reachable /\ pending # {} /\ phase = "code" /\ phase' = "code"
      BY <1>2, <2>4, <3>1 DEF Explore, Settled, PassInv, TypeOK
    <3>3. j + 1 = i
      BY <1>1, <2>1, <3>1, <3>2, OneLess
    <3>4. /\ Left = 2 * i + 0 + n + 2
          /\ Left' = 2 * j + 0 + n + 2 \/ Left' = 2 * j + 1 + n + 2
      BY <2>3, <3>2
    <3> QED BY <2>2, <3>3, <3>4
  <2>5. CASE Regroup
    <3>1. /\ phase = "code" /\ phase' = "code" /\ reachable' = reachable
          /\ pending = {} /\ pending' # {}
      BY <2>5 DEF Regroup
    <3>2. Left = 2 * i + 1 + n + 2 /\ Left' = 2 * i + 0 + n + 2
      BY <2>1, <2>3, <3>1
    <3> QED BY <2>2, <3>2
  <2>6. CASE NameData
    <3>1. phase = "code" /\ phase' = "data" /\ pending = {}
      BY <2>6 DEF NameData
    <3>2. Left = 2 * i + 1 + n + 2 /\ Left' = v + 1
      BY <2>3, <3>1
    <3> QED BY <2>2, <3>2
  <2>7. CASE ScanData
    <3>1. PICK d \in work : /\ referenced' = referenced \cup text.points[d]
                            /\ work' = (work \ {d}) \cup (text.points[d] \ referenced)
      BY <2>7 DEF ScanData
    <3>2. phase = "data" /\ phase' = "data" /\ work \subseteq referenced /\ d \in Data
      BY <1>2, <2>7, <3>1 DEF ScanData, PassInv, TypeOK
    <3>3. referenced' \ work' = (referenced \ work) \cup {d} /\ d \notin referenced \ work
      BY <3>1, <3>2
    <3>4. v + 1 = u
      BY <2>1, <3>2, <3>3, OneLess
    <3>5. Left = u + 1 /\ Left' = v + 1
      BY <2>3, <3>2
    <3> QED BY <2>2, <3>4, <3>5
  <2>8. CASE Rebuild
    <3>1. Left = u + 1 /\ Left' = 0
      BY <2>3, <2>8 DEF Rebuild
    <3> QED BY <2>2, <3>1
  <2> QED BY <1>2, <2>4, <2>5, <2>6, <2>7, <2>8 DEF Pass
<1>3. PassInv /\ Settled /\ [Next]_vars =>
        [Pass => Left' \in Nat /\ Left \in Nat /\ Left' < Left]_vars
  BY <1>2
<1> QED BY <1>3, InitSettled, NextSettled, PassInvariant, PTL DEF Spec
=============================================================================
