----------------------------- MODULE MCEmbedding -----------------------------
(***************************************************************************)
(* Small libraries for Embedding: routines f and h in one module and g in  *)
(* another, the areas a and b in one module, the libc functions p and q.   *)
(***************************************************************************)
EXTENDS Embedding

CONSTANTS f, g, h, a, b, p, q, mfh, mg, mab, mp, mq

Home == [s \in Symbols |->
  CASE s \in {f, h} -> mfh [] s = g -> mg [] s \in {a, b} -> mab
    [] s = p -> mp [] s = q -> mq]

Refs == {[r \in Routines |-> CASE r = f -> rf [] r = g -> rg [] r = h -> rh] :
           rf \in {{}, {g}, {g, a}}, rg \in {{}, {b}}, rh \in {{}, {b}, {f, g}}}

Needs(r, np, nq) == [m \in Modules |->
  CASE m = mfh -> (r[f] \cup r[h]) \ {f, h} [] m = mg -> r[g] [] m = mab -> {}
    [] m = mp -> np [] m = mq -> nq]

Libraries ==
  {[refs |-> r, home |-> Home, needs |-> Needs(r, np, nq),
    live |-> l, dead |-> d, own |-> o, dce |-> e] :
     r \in Refs, np \in {{f}, {g}, {h, q}, {a}, {q}}, nq \in {{}, {g}, {b, h}},
     l \in {{p}, {f, p}, {g, p}, {a, p}, {f, b, q}, {g, h}},
     d \in {{}, {f}, {g, q}}, o \in {{}, {q}}, e \in BOOLEAN}

\* main.py goes to the library only for programs that use a routine.
NeedsRoutine(c) == Required(c) # {} \/ Used(c) = {}
WithRoutines == {c \in Libraries : WellSplit(c) /\ NeedsRoutine(c)}
AreasOnly == {c \in Libraries : WellSplit(c) /\ ~ NeedsRoutine(c)}
=============================================================================
