----------------------------- MODULE MCDeadCode -----------------------------
(***************************************************************************)
(* Small texts for DeadCode: four blocks, of which the first is PUBLIC,    *)
(* and two data labels.                                                    *)
(***************************************************************************)
EXTENDS DeadCode

CONSTANTS d1, d2

Edges(e) == [b \in Blocks |-> {p[2] : p \in {q \in e : q[1] = b}}]
DataEdges(e) == [d \in Data |-> {p[2] : p \in {q \in e : q[1] = d}}]
AtMostOne(S) == {{}} \cup {{e} : e \in S}

\* The five ways a block can end that the pass tells apart.
Kinds == {<<"stop", "none">>, <<"cond", "none">>, <<"stop", "inside">>,
          <<"other", "inside">>, <<"stop", "file">>}

Plain == [last |-> [b \in Blocks |-> "stop"], asm |-> [b \in Blocks |-> "none"],
          jumps |-> Edges({}), takes |-> Edges({}), reads |-> Edges({}),
          points |-> DataEdges({}), tables |-> DataEdges({}),
          public |-> {1}, publicData |-> {}, keep |-> {}, keepData |-> {},
          noopt |-> {}, whole |-> TRUE]

\* Every mix of kinds, one jump, and an optnone function of two blocks.
ControlTexts ==
  {[Plain EXCEPT !.last = [b \in Blocks |-> k[b][1]],
                 !.asm = [b \in Blocks |-> k[b][2]],
                 !.jumps = Edges(j), !.noopt = g] :
     k \in [Blocks -> Kinds],
     j \in AtMostOne({<<1, 3>>, <<3, 2>>}),
     g \in AtMostOne({{2, 3}})}

\* A function address in code, one in a table, a use of data from code and
\* one from other data, anywhere.
PointerEdges ==
  {[Plain EXCEPT !.takes = Edges(c), !.tables = DataEdges(b), !.reads = Edges(r),
                 !.points = DataEdges(p), !.jumps = Edges(j)] :
     c \in AtMostOne({1, 2} \X {2, 3}),
     b \in AtMostOne({d1, d2} \X {2, 4}),
     r \in AtMostOne({1, 2} \X {d1, d2}),
     p \in AtMostOne({<<d1, d2>>, <<d2, d1>>}),
     j \in AtMostOne({<<2, 4>>})}

Kept ==
  {[t EXCEPT !.keep = k, !.keepData = d] :
     t \in PointerEdges, k \in AtMostOne({3}), d \in AtMostOne({d2})}

WholeTexts == ControlTexts \cup Kept

\* The same, a module at a time.
Separate ==
  {[t EXCEPT !.whole = FALSE, !.public = {1, 3}, !.publicData = d] :
     t \in PointerEdges, d \in AtMostOne({d1})}

\* ... with every function whose address is taken PUBLIC.
SeparateTexts == {t \in Separate : AddressTaken(t) \subseteq t.public}

AllTexts == WholeTexts \cup SeparateTexts
=============================================================================
