--------------------------- MODULE EmbeddingProofs ---------------------------
(***************************************************************************)
(* What the compiler embeds and what the linker adds never meet, for every *)
(* program and every library that is split as the default one.             *)
(*                                                                         *)
(* The argument.  The prediction P is the least set of modules closed      *)
(* under what is undefined, so it grows as routines and areas are left     *)
(* out, and the loop never takes anything back.  At its end P is closed    *)
(* for the text as it is.  Afterwards the linker pulls a module of P, or   *)
(* the module of an embedded routine that went with the dead code (Late).  *)
(* Such a routine has its module to itself, and all that it names is in P  *)
(* or in the text, for it was embedded with all that it names.             *)
(***************************************************************************)
EXTENDS Embedding, TLAPS

LEMMA LeastFacts ==
  ASSUME NEW U, NEW seed, NEW succ
  PROVE  /\ Least(U, seed, succ) \subseteq U
         /\ seed \cap U \subseteq Least(U, seed, succ)
         /\ \A x \in Least(U, seed, succ) : succ[x] \cap U \subseteq Least(U, seed, succ)
         /\ \A S \in SUBSET U :
              (seed \cap U \subseteq S /\ \A y \in S : succ[y] \cap U \subseteq S)
                => Least(U, seed, succ) \subseteq S
<1> DEFINE Closed(S) == /\ seed \cap U \subseteq S
                        /\ \A y \in S : succ[y] \cap U \subseteq S
<1>1. \A x : x \in Least(U, seed, succ) <=>
               x \in U /\ \A S \in SUBSET U : Closed(S) => x \in S
  BY DEF Least
<1>2. ASSUME NEW x \in Least(U, seed, succ), NEW y \in succ[x] \cap U
      PROVE  y \in Least(U, seed, succ)
  <2>1. ASSUME NEW S \in SUBSET U, Closed(S) PROVE y \in S
    <3>1. x \in S
      BY <1>1, <2>1
    <3> QED BY <2>1, <3>1
  <2> QED BY <1>1, <2>1
<1> QED BY <1>1, <1>2

\* A larger seed and larger successors give a larger set.
LEMMA LeastGrows ==
  ASSUME NEW U, NEW s1, NEW s2, NEW f1, NEW f2,
         s1 \subseteq s2, \A x \in U : f1[x] \subseteq f2[x]
  PROVE  Least(U, s1, f1) \subseteq Least(U, s2, f2)
<1> DEFINE L == Least(U, s2, f2)
<1>1. /\ L \subseteq U /\ s2 \cap U \subseteq L
      /\ \A x \in L : f2[x] \cap U \subseteq L
  BY LeastFacts
<1> HIDE DEF L
<1>2. s1 \cap U \subseteq L /\ \A x \in L : f1[x] \cap U \subseteq L
  BY <1>1
<1>3. Least(U, s1, f1) \subseteq L
  BY <1>1, <1>2, LeastFacts
<1> QED BY <1>3 DEF L

LEMMA CaseFacts ==
  ASSUME NEW c \in Case
  PROVE  /\ \A r \in Routines : c.refs[r] \subseteq Routines \cup Areas
         /\ \A s \in Symbols : c.home[s] \in Modules
         /\ \A m \in Modules : c.needs[m] \subseteq Symbols
         /\ c.live \subseteq Symbols /\ c.dead \subseteq Symbols
         /\ c.own \subseteq Calls
         /\ c.dce \in BOOLEAN
         /\ Undefined(c) \subseteq Calls
         /\ Used(c) \subseteq Routines \cup Areas
BY DEF Case, Undefined, Used

\* The routines that the program needs, with all they need.
LEMMA RequiredFacts ==
  ASSUME NEW c \in Case
  PROVE  /\ Required(c) \subseteq Routines
         /\ Used(c) \cap Routines \subseteq Required(c)
         /\ \A r \in Required(c) : c.refs[r] \cap Routines \subseteq Required(c)
BY LeastFacts DEF Required

\* The prediction with the symbols D defined, as its two closures.
LEMMA LinkedFacts ==
  ASSUME NEW c \in Case, NEW D
  PROVE  /\ Linked(c, D) \subseteq Modules
         /\ \A s \in Undefined(c) \ D : c.home[s] \in Linked(c, D)
         /\ \A m \in Linked(c, D) : \A s \in c.needs[m] \ D : c.home[s] \in Linked(c, D)
         /\ \A S \in SUBSET Modules :
              /\ \A s \in Undefined(c) \ D : c.home[s] \in S
              /\ \A m \in S : \A s \in c.needs[m] \ D : c.home[s] \in S
              => Linked(c, D) \subseteq S
<1> DEFINE seed == {c.home[s] : s \in Undefined(c) \ D}
           succ == [m \in Modules |-> {c.home[s] : s \in c.needs[m] \ D}]
           L == Least(Modules, seed, succ)
<1>1. Linked(c, D) = L
  BY DEF Linked
<1>2. /\ L \subseteq Modules /\ seed \cap Modules \subseteq L
      /\ \A x \in L : succ[x] \cap Modules \subseteq L
      /\ \A S \in SUBSET Modules :
           (seed \cap Modules \subseteq S /\ \A y \in S : succ[y] \cap Modules \subseteq S)
             => L \subseteq S
  <2> HIDE DEF seed, succ
  <2> QED BY LeastFacts
<1> HIDE DEF L
<1>3. seed \subseteq Modules /\ \A m \in Modules : succ[m] \subseteq Modules
  BY CaseFacts DEF Symbols
<1>4. /\ \A s \in Undefined(c) \ D : c.home[s] \in seed
      /\ \A m \in Modules : \A s \in c.needs[m] \ D : c.home[s] \in succ[m]
  OBVIOUS
<1>5. ASSUME NEW S \in SUBSET Modules,
             \A s \in Undefined(c) \ D : c.home[s] \in S,
             \A m \in S : \A s \in c.needs[m] \ D : c.home[s] \in S
      PROVE  L \subseteq S
  <2>1. seed \cap Modules \subseteq S
    BY <1>5
  <2>2. \A y \in S : succ[y] \cap Modules \subseteq S
    BY <1>5
  <2> QED BY <1>2, <2>1, <2>2
<1> QED BY <1>1, <1>2, <1>3, <1>4, <1>5

\* With fewer symbols defined the linker pulls more.
LEMMA LinkedGrows ==
  ASSUME NEW c, NEW D, NEW E, E \subseteq D
  PROVE  Linked(c, D) \subseteq Linked(c, E)
<1> DEFINE s1 == {c.home[s] : s \in Undefined(c) \ D}
           s2 == {c.home[s] : s \in Undefined(c) \ E}
           f1 == [m \in Modules |-> {c.home[s] : s \in c.needs[m] \ D}]
           f2 == [m \in Modules |-> {c.home[s] : s \in c.needs[m] \ E}]
<1>1. s1 \subseteq s2
  OBVIOUS
<1>2. \A m \in Modules : f1[m] \subseteq f2[m]
  OBVIOUS
<1>3. Least(Modules, s1, f1) \subseteq Least(Modules, s2, f2)
  <2> HIDE DEF s1, s2, f1, f2
  <2> QED BY <1>1, <1>2, LeastGrows
<1> QED BY <1>3 DEF Linked

\* Leaving more to the library never makes the prediction smaller.
LEMMA ProvidesGrows ==
  ASSUME NEW c, NEW K, NEW L, NEW P, NEW Q, L \subseteq K, P \subseteq Q
  PROVE  Provides(c, K, P) \subseteq Provides(c, L, Q)
<1>1. c.own \cup L \cup Data(c, L, Q) \subseteq c.own \cup K \cup Data(c, K, P)
  BY DEF Data
<1> DEFINE D == c.own \cup K \cup Data(c, K, P)
           E == c.own \cup L \cup Data(c, L, Q)
<1>2. Linked(c, D) \subseteq Linked(c, E)
  <2> HIDE DEF D, E
  <2> QED BY <1>1, LinkedGrows DEF D, E
<1> QED BY <1>2 DEF Provides, Defines

-----------------------------------------------------------------------------
(* The invariant.                                                          *)

\* Routines embedded at the end of leave_to_library, and what is then
\* defined and predicted.
K == Required(case) \ provided
Defined == case.own \cup K \cup Data(case, K, provided)
P == Linked(case, Defined)

\* Modules pulled for an embedded routine that went with the dead code.
Late(m) ==
  \E r \in K \ kept : m = case.home[r] /\ \E n \in Modules : r \in case.needs[n]

\* There is a routine to embed, or nothing of the runtime is used at all.
Settled ==
  \/ provided = Defines(case, P \cap RtModules(case))
  \/ Required(case) = {} /\ Used(case) = {}

EmbedInv ==
  /\ TypeOK
  /\ case \in Cases
  /\ phase = "require" => kept = {} /\ provided = {}
  /\ phase = "leave" => provided \subseteq Provides(case, kept, provided)
  /\ phase \in {"leave", "embed", "dce"} => kept = K
  /\ phase \in {"embed", "dce", "link", "image"} => Settled
  /\ phase \in {"dce", "link", "image"} => data = Data(case, K, provided)
  /\ phase \in {"require", "leave", "embed"} => data = {}
  /\ phase \in {"link", "image"} =>
       /\ kept = IF case.dce THEN Least(K, case.live, case.refs) ELSE K
       /\ \A m \in pulled : m \in P \/ Late(m)
  /\ phase \notin {"link", "image"} => pulled = {}

\* Every module of the prediction is there for a symbol nobody else defines.
LEMMA PredictedFor ==
  ASSUME case \in Case
  PROVE  \A m \in P : \E t \in Symbols \ Defined : m = case.home[t]
<1> DEFINE S == {m \in Modules : \E t \in Symbols \ Defined : m = case.home[t]}
<1>1. \A s \in Undefined(case) \ Defined : case.home[s] \in S
  BY CaseFacts DEF Symbols
<1>2. \A m \in S : \A s \in case.needs[m] \ Defined : case.home[s] \in S
  BY CaseFacts
<1>3. P \subseteq S
  <2> HIDE DEF S
  <2>1. S \in SUBSET Modules
    BY DEF S
  <2> QED BY <1>1, <1>2, <2>1, LinkedFacts DEF P
<1> QED BY <1>3

\* Whatever a needed routine names is in the text or left to the library.
LEMMA NamesSettled ==
  ASSUME case \in Case, case \in Cases, Settled,
         NEW s \in Routines \cup Areas, s \notin Defined,
         s \in Used(case) \/ \E r \in Required(case) : s \in case.refs[r]
  PROVE  case.home[s] \in P
<1>1. Required(case) # {} \/ Used(case) # {}
  OBVIOUS
<1>2. provided = Defines(case, P \cap RtModules(case))
  BY <1>1 DEF Settled
<1>3. s \in provided
  <2>1. CASE s \in Routines
    <3>1. s \in Required(case)
      BY <2>1, RequiredFacts
    <3> QED BY <3>1 DEF Defined, K
  <2>2. CASE s \in Areas /\ s \in Used(case)
    BY <2>2 DEF Defined, Data
  <2>3. CASE s \in Areas /\ \E r \in Required(case) : s \in case.refs[r]
    <3> PICK r \in Required(case) : s \in case.refs[r]
      BY <2>3
    <3>1. CASE r \in K
      BY <2>3, <3>1 DEF Defined, Data
    <3>2. CASE r \in provided
      <4>1. r \in Routines /\ case.home[r] \in P
        BY <1>2, <3>2, RequiredFacts DEF Defines
      <4>2. s \in case.needs[case.home[r]]
        <5>1. s \notin Routines
          BY <2>3, SymbolsAssumption
        <5> QED BY <4>1, <5>1, CasesAssumption DEF WellSplit
      <4>3. case.home[s] \in P
        BY <4>1, <4>2, LinkedFacts DEF P
      <4> QED BY <1>2, <4>3 DEF Defines, RtModules, Symbols
    <3> QED BY <3>1, <3>2 DEF K
  <2> QED BY <2>1, <2>2, <2>3
<1> QED BY <1>2, <1>3 DEF Defines

\* What the linker pulls next is predicted, or late.
LEMMA PullsKnown ==
  ASSUME EmbedInv, phase = "link", NEW s \in Missing
  PROVE  /\ s \in Symbols
         /\ case.home[s] \in P \/ Late(case.home[s])
<1>1. /\ case \in Case /\ case \in Cases /\ Settled
      /\ data = Data(case, K, provided)
      /\ kept = IF case.dce THEN Least(K, case.live, case.refs) ELSE K
      /\ \A m \in pulled : m \in P \/ Late(m)
      /\ pulled \subseteq Modules
  BY DEF EmbedInv, TypeOK
<1>2. /\ kept \subseteq K /\ K \subseteq Required(case) /\ K \subseteq Routines
      /\ case.dce => /\ case.live \cap K \subseteq kept
                     /\ \A r \in kept : case.refs[r] \cap K \subseteq kept
      /\ ~ case.dce => kept = K
  BY <1>1, LeastFacts, RequiredFacts DEF K
<1>3. s \notin case.own /\ s \notin kept /\ s \notin data
  BY DEF Missing, Text
<1>4. s \in Defined => s \in K \ kept
  BY <1>1, <1>3 DEF Defined
<1>5. CASE s \in case.live \/ (~ case.dce /\ s \in case.dead)
  <2>1. s \in Symbols
    BY <1>1, <1>5, CaseFacts
  <2>2. s \notin Defined
    BY <1>2, <1>4, <1>5
  <2>3. CASE s \in Calls
    <3>1. s \in Undefined(case) \ Defined
      BY <1>5, <2>2, <2>3 DEF Undefined
    <3> QED BY <1>1, <2>1, <3>1, LinkedFacts DEF P
  <2>4. CASE s \in Routines \cup Areas
    <3>1. s \in Used(case)
      BY <1>5, <2>4 DEF Used
    <3> QED BY <1>1, <2>1, <2>2, <2>4, <3>1, NamesSettled
  <2> QED BY <2>1, <2>3, <2>4 DEF Symbols
<1>6. ASSUME NEW r \in kept, s \in case.refs[r] PROVE s \in Symbols /\ case.home[s] \in P
  <2>1. s \in Routines \cup Areas
    BY <1>1, <1>2, <1>6, CaseFacts
  <2>2. s \notin Defined
    BY <1>2, <1>4, <1>6
  <2>3. r \in Required(case)
    BY <1>2
  <2>4. case.home[s] \in P
    BY <1>1, <1>6, <2>1, <2>2, <2>3, NamesSettled
  <2> QED BY <2>1, <2>4 DEF Symbols
<1>7. ASSUME NEW m \in pulled, s \in case.needs[m]
      PROVE  s \in Symbols /\ (case.home[s] \in P \/ Late(case.home[s]))
  <2>0. m \in Modules /\ s \in Symbols
    BY <1>1, <1>7, CaseFacts
  <2>1. CASE s \in Defined
    BY <1>4, <1>7, <2>0, <2>1 DEF Late
  <2>2. CASE s \notin Defined /\ m \in P
    BY <1>1, <1>7, <2>0, <2>2, LinkedFacts DEF P
  <2>3. CASE s \notin Defined /\ Late(m)
    <3> PICK r \in K \ kept : m = case.home[r] /\ \E n \in Modules : r \in case.needs[n]
      BY <2>3 DEF Late
    <3> PICK n \in Modules : r \in case.needs[n]
      OBVIOUS
    <3>1. r \in Required(case) /\ r \in Routines /\ r \in Symbols
      BY <1>2 DEF Symbols
    <3>2. \A t \in Symbols \ {r} : case.home[t] # case.home[r]
      BY <1>1, <3>1, CasesAssumption DEF WellSplit
    <3>3. {x \in Routines : case.home[x] = case.home[r]} = {r}
      BY <3>1, <3>2 DEF Symbols
    <3>4. case.needs[case.home[r]] = (UNION {case.refs[f] : f \in {r}}) \ {r}
      BY <1>1, <3>1, <3>3, CasesAssumption DEF WellSplit
    <3>5. s \in case.refs[r]
      BY <1>7, <3>4
    <3>6. s \in Routines \cup Areas
      BY <1>1, <3>1, <3>5, CaseFacts
    <3> QED BY <1>1, <2>0, <2>3, <3>1, <3>5, <3>6, NamesSettled
  <2> QED BY <1>1, <1>7, <2>0, <2>1, <2>2, <2>3
<1> QED BY <1>5, <1>6, <1>7 DEF Missing, Named

LEMMA InitEmbed == Init => EmbedInv
BY CasesAssumption DEF Init, EmbedInv, TypeOK

LEMMA NextEmbed ==
  ASSUME \A c \in Cases : Required(c) # {} \/ Used(c) = {}
  PROVE  EmbedInv /\ [Next]_vars => EmbedInv'
<1> SUFFICES ASSUME EmbedInv, [Next]_vars
             PROVE  EmbedInv'
  OBVIOUS
<1>1. case \in Case /\ case \in Cases
  BY DEF EmbedInv, TypeOK
<1>2. CASE Require
  <2>0. /\ phase = "require" /\ provided = {} /\ data = {} /\ pulled = {}
        /\ UNCHANGED <<case, provided, data, pulled>>
        /\ kept' = Required(case)
        /\ phase' = IF kept' = {} THEN "embed" ELSE "leave"
    BY <1>2 DEF Require, EmbedInv
  <2>1. TypeOK'
    BY <2>0 DEF EmbedInv, TypeOK
  <2>2. kept' = K'
    BY <2>0 DEF K
  <2>3. phase' = "embed" => Settled'
    BY <1>1, <2>0 DEF Settled
  <2> QED BY <1>1, <2>0, <2>1, <2>2, <2>3 DEF EmbedInv
<1>3. CASE Leave
  <2>0. /\ phase = "leave" /\ kept = K /\ data = {} /\ pulled = {}
        /\ provided \subseteq Provides(case, kept, provided)
        /\ UNCHANGED <<case, data, pulled>>
        /\ provided' = Provides(case, kept, provided)
        /\ kept' = Required(case) \ provided'
        /\ phase' = IF provided' = provided THEN "embed" ELSE "leave"
    BY <1>3 DEF Leave, EmbedInv
  <2>1. provided' \subseteq Symbols
    BY <2>0 DEF Provides, Defines
  <2>2. TypeOK'
    BY <2>0, <2>1 DEF EmbedInv, TypeOK
  <2>3. provided' \subseteq Provides(case, kept', provided')
    <3>1. kept' \subseteq kept /\ provided \subseteq provided'
      BY <2>0 DEF K
    <3>2. Provides(case, kept, provided) \subseteq Provides(case, kept', provided')
      BY <3>1, ProvidesGrows
    <3> QED BY <2>0, <3>2
  <2>4. kept' = K'
    BY <2>0 DEF K
  <2>5. phase' = "embed" => Settled'
    <3> SUFFICES ASSUME provided' = provided PROVE Settled'
      BY <2>0
    <3>1. provided = Defines(case, P \cap RtModules(case))
      BY <2>0 DEF Provides, P, Defined
    <3>2. P' = P
      BY <2>0 DEF P, Defined, K
    <3> QED BY <2>0, <3>1, <3>2 DEF Settled
  <2> QED BY <1>1, <2>0, <2>2, <2>3, <2>4, <2>5 DEF EmbedInv
<1>4. CASE Embed
  <2>0. /\ phase = "embed" /\ kept = K /\ pulled = {} /\ Settled
        /\ UNCHANGED <<case, kept, provided, pulled>>
        /\ data' = Data(case, kept, provided)
        /\ phase' = "dce"
    BY <1>4 DEF Embed, EmbedInv
  <2>1. TypeOK'
    BY <2>0 DEF EmbedInv, TypeOK, Data
  <2>2. K' = K /\ P' = P /\ Settled'
    BY <2>0 DEF K, P, Defined, Settled
  <2> QED BY <1>1, <2>0, <2>1, <2>2 DEF EmbedInv
<1>5. CASE Eliminate
  <2>0. /\ phase = "dce" /\ kept = K /\ pulled = {} /\ Settled
        /\ data = Data(case, K, provided)
        /\ UNCHANGED <<case, provided, data, pulled>>
        /\ kept' = IF case.dce THEN Least(kept, case.live, case.refs) ELSE kept
        /\ phase' = "link"
    BY <1>5 DEF Eliminate, EmbedInv
  <2>1. kept' \subseteq kept
    BY <2>0, LeastFacts
  <2>2. TypeOK'
    BY <2>0, <2>1 DEF EmbedInv, TypeOK
  <2>3. K' = K /\ P' = P /\ Settled'
    BY <2>0 DEF K, P, Defined, Settled
  <2> QED BY <1>1, <2>0, <2>2, <2>3 DEF EmbedInv
<1>6. CASE Pull
  <2> PICK s \in Missing : pulled' = pulled \cup {case.home[s]}
    BY <1>6 DEF Pull
  <2>0. phase = "link" /\ UNCHANGED <<case, phase, kept, provided, data>>
    BY <1>6 DEF Pull
  <2>1. s \in Symbols /\ (case.home[s] \in P \/ Late(case.home[s]))
    BY <2>0, PullsKnown
  <2>2. TypeOK'
    BY <1>1, <2>0, <2>1, CaseFacts DEF EmbedInv, TypeOK
  <2>3. K' = K /\ P' = P /\ Settled' /\ \A m : Late(m)' = Late(m)
    BY <2>0 DEF EmbedInv, K, P, Defined, Settled, Late
  <2>4. \A m \in pulled' : m \in P \/ Late(m)
    BY <2>0, <2>1 DEF EmbedInv
  <2> QED BY <1>1, <2>0, <2>2, <2>3, <2>4 DEF EmbedInv
<1>7. CASE Linkage
  <2>0. /\ phase = "link" /\ phase' = "image"
        /\ UNCHANGED <<case, kept, provided, data, pulled>>
    BY <1>7 DEF Linkage
  <2>1. TypeOK' /\ K' = K /\ P' = P /\ Settled' /\ \A m : Late(m)' = Late(m)
    BY <2>0 DEF EmbedInv, TypeOK, K, P, Defined, Settled, Late
  <2> QED BY <2>0, <2>1 DEF EmbedInv
<1>8. CASE UNCHANGED vars
  <2>1. TypeOK' /\ K' = K /\ P' = P /\ (Settled' <=> Settled) /\ \A m : Late(m)' = Late(m)
    BY <1>8 DEF vars, EmbedInv, TypeOK, K, P, Defined, Settled, Late
  <2> QED BY <1>8, <2>1 DEF vars, EmbedInv
<1> QED BY <1>2, <1>3, <1>4, <1>5, <1>6, <1>7, <1>8 DEF Next

\* The default library, and programs that use a routine when they use an
\* area: main.py leaves nothing to the library for the others.
THEOREM EmbedInvariant ==
  ASSUME \A c \in Cases : Required(c) # {} \/ Used(c) = {}
  PROVE  Spec => []EmbedInv
BY InitEmbed, NextEmbed, PTL DEF Spec

\* The embedded routines are among those the program needs.
THEOREM EmbeddingTypes ==
  ASSUME \A c \in Cases : Required(c) # {} \/ Used(c) = {}
  PROVE  Spec => []TypeOK
<1>1. EmbedInv => TypeOK
  BY DEF EmbedInv
<1> QED BY <1>1, EmbedInvariant, PTL

\* No symbol is in the image twice (leave_to_library, asm_dce and the link).
THEOREM NothingTwice ==
  ASSUME \A c \in Cases : Required(c) # {} \/ Used(c) = {}
  PROVE  Spec => []LinksOnce
<1>1. EmbedInv => LinksOnce
  <2> SUFFICES ASSUME EmbedInv,
                      NEW s \in Text(case, kept, data), s \in Symbols, case.home[s] \in pulled
               PROVE  FALSE
    BY DEF LinksOnce, Defines
  <2>0. /\ case \in Case /\ case \in Cases /\ phase \in {"link", "image"}
        /\ Settled /\ data = Data(case, K, provided)
        /\ kept = IF case.dce THEN Least(K, case.live, case.refs) ELSE K
        /\ case.home[s] \in P \/ Late(case.home[s])
    BY DEF EmbedInv, TypeOK
  <2>1. kept \subseteq K /\ K \subseteq Routines /\ data \subseteq Areas
    BY <2>0, LeastFacts, RequiredFacts DEF K, Data
  <2>2. CASE case.home[s] \in P
    <3>1. CASE s \in case.own
      <4> PICK t \in Symbols \ Defined : case.home[s] = case.home[t]
        BY <2>0, <2>2, PredictedFor
      <4>1. t = s
        BY <2>0, <3>1, CasesAssumption DEF WellSplit
      <4> QED BY <3>1, <4>1 DEF Defined
    <3>2. CASE s \in kept \cup data
      <4>1. s \notin provided
        BY <2>0, <2>1, <3>2 DEF K, Data
      <4>2. case.home[s] \in RtModules(case)
        BY <2>1, <3>2 DEF RtModules
      <4>3. Required(case) # {} \/ Used(case) # {}
        BY <2>0, <2>1, <3>2 DEF K, Data
      <4> QED BY <2>0, <2>2, <4>1, <4>2, <4>3 DEF Settled, Defines
    <3> QED BY <3>1, <3>2 DEF Text
  <2>3. CASE Late(case.home[s])
    <3> PICK r \in K \ kept :
          case.home[s] = case.home[r] /\ \E n \in Modules : r \in case.needs[n]
      BY <2>3 DEF Late
    <3> PICK n \in Modules : r \in case.needs[n]
      OBVIOUS
    <3>1. s = r
      BY <2>0, CasesAssumption DEF WellSplit, K
    <3>2. r \in Routines /\ r \notin kept
      BY <2>1
    <3> QED BY <2>0, <2>1, <3>1, <3>2, CaseFacts, SymbolsAssumption DEF Text
  <2> QED BY <2>0, <2>2, <2>3
<1> QED BY <1>1, EmbedInvariant, PTL

\* The linker has added every module that the compiler counted on.
THEOREM PredictedIsThere ==
  ASSUME \A c \in Cases : Required(c) # {} \/ Used(c) = {}
  PROVE  Spec => []PredictionHolds
<1> DEFINE Complete == phase = "image" => Missing = {}
           Empty == Required(case) = {} /\ phase # "require" => provided = {} /\ phase # "leave"
<1>1. EmbedInv /\ Complete /\ Empty => PredictionHolds
  <2> SUFFICES ASSUME EmbedInv, Complete, Empty, phase = "image"
               PROVE  provided \subseteq Defines(case, pulled)
    BY DEF PredictionHolds
  <2>0. /\ case \in Case /\ Missing = {} /\ Settled /\ pulled \subseteq Modules
        /\ data = Data(case, K, provided)
        /\ kept = IF case.dce THEN Least(K, case.live, case.refs) ELSE K
    BY DEF EmbedInv, TypeOK
  <2>1. Text(case, kept, data) \subseteq Defined
    BY <2>0, LeastFacts DEF Text, Defined
  <2>2. \A s \in Undefined(case) \ Defined : case.home[s] \in pulled
    BY <2>0, <2>1 DEF Missing, Named, Undefined, Defines
  <2>3. \A m \in pulled : \A s \in case.needs[m] \ Defined : case.home[s] \in pulled
    BY <2>0, <2>1 DEF Missing, Defines
  <2>4. P \subseteq pulled
    BY <2>0, <2>2, <2>3, LinkedFacts DEF P
  <2>5. CASE provided = Defines(case, P \cap RtModules(case))
    BY <2>4, <2>5 DEF Defines
  <2>6. CASE Required(case) = {} /\ Used(case) = {}
    BY <2>6
  <2> QED BY <2>0, <2>5, <2>6 DEF Settled
<1>2. Init => Complete /\ Empty
  BY DEF Init
<1>3. EmbedInv /\ Complete /\ Empty /\ [Next]_vars => (Complete /\ Empty)'
  <2> SUFFICES ASSUME EmbedInv, Complete, Empty, [Next]_vars
               PROVE  (Complete /\ Empty)'
    OBVIOUS
  <2>1. CASE Require
    BY <2>1 DEF Require, EmbedInv
  <2>2. CASE Leave
    <3>1. phase = "leave" /\ kept = K /\ phase' # "image"
      BY <2>2 DEF Leave, EmbedInv
    <3> QED BY <2>2, <3>1 DEF Leave, EmbedInv
  <2>3. CASE Embed \/ Eliminate \/ Pull
    BY <2>3 DEF Embed, Eliminate, Pull
  <2>4. CASE Linkage
    BY <2>4 DEF Linkage, Missing, Named, Text, Defines
  <2>5. CASE UNCHANGED vars
    BY <2>5 DEF vars, Missing, Named, Text, Defines
  <2> QED BY <2>1, <2>2, <2>3, <2>4, <2>5 DEF Next
<1> HIDE DEF Complete, Empty
<1> QED BY <1>1, <1>2, <1>3, EmbedInvariant, PTL DEF Spec

\* Leaving a routine to the library never takes back what was left before.
THEOREM OnlyGrows ==
  ASSUME \A c \in Cases : Required(c) # {} \/ Used(c) = {}
  PROVE  Spec => NeverTakenBack
<1>1. EmbedInv /\ [Next]_vars => [provided \subseteq provided']_vars
  <2> SUFFICES ASSUME EmbedInv, Next
               PROVE  provided \subseteq provided'
    BY DEF vars
  <2>1. CASE Leave
    BY <2>1 DEF Leave, EmbedInv
  <2> QED BY <2>1 DEF Next, Require, Embed, Eliminate, Pull, Linkage
<1> QED BY <1>1, EmbedInvariant, PTL DEF Spec, NeverTakenBack
=============================================================================
