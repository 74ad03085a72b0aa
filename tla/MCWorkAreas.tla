---------------------------- MODULE MCWorkAreas ----------------------------
(* Small programs for WorkAreas: handlers h and k, the C function f, the     *)
(* runtime routine r and the library routine q; statics t and u of work      *)
(* areas B and C, a variable v of the program, e of the state block E.       *)
EXTENDS WorkAreas

CONSTANTS h, k, f, r, q, t, u, v, e, B, C, E

Fn(m) == [l \in Labels |-> IF l \in DOMAIN m THEN m[l] ELSE {}]
Set(l, S) == [x \in {l} |-> S]

Plain ==
  [jumps |-> Fn(<<>>), names |-> Fn(<<>>), lists |-> Fn(<<>>), next |-> Fn(<<>>),
   pointer |-> {}, code |-> Labels, local |-> {}, defined |-> Labels, library |-> {r, q},
   tables |-> {}, exx |-> {},
   block |-> [s \in Statics |-> CASE s = t -> B [] s = u -> C [] s = v -> Own [] s = e -> E],
   text |-> <<t, u, v>>, unsized |-> {},
   helpers |-> {C}, handlers |-> {h, k}, naked |-> {}, asked |-> {},
   whole |-> TRUE, optIn |-> FALSE, optOut |-> FALSE]

\* Layouts of the text, with what the two routines store to.
Layouts ==
  {[Plain EXCEPT
      !.jumps = [@ EXCEPT ![h] = {f}, ![f] = {r}, ![k] = {q}],
      !.names = [@ EXCEPT ![r] = {t}, ![q] = nq, ![f] = {v}],
      !.block[u] = b, !.text = x, !.unsized = z] :
     nq \in {{t, u}, {e, u}}, b \in {B, C}, z \in {{}, {u}},
     x \in {<<t, v, u>>, <<v, t, u>>, <<t, u, e, v>>}}
    \cup
  {[Plain EXCEPT
      !.jumps = [@ EXCEPT ![h] = {f}, ![f] = {r}, ![k] = {q}],
      !.names = [@ EXCEPT ![r] = nr, ![q] = {t, u}], !.text = x] :
     nr \in {{t}, {t, v}}, x \in {<<v, t>>, <<u, e>>, <<e, v, t>>}}

\* Ways to reach q, which stores to t: a pointer taken in code, in a table or
\* by the library, an alias, a trampoline, falling through, a missing text.
Way ==
  [Plain EXCEPT !.jumps = [@ EXCEPT ![h] = {f}, ![k] = {r}],
     !.names = [@ EXCEPT ![q] = {t}], !.exx = {q}]
Call(p, S) == [p EXCEPT !.jumps[f] = S]
Ways ==
  {[Call(Way, {q}) EXCEPT !.defined = @ \ d] : d \in {{}, {q}}}
    \cup {[Call(Way, {r}) EXCEPT !.next[r] = {q}, !.code = @ \ a] : a \in {{}, {r}}}
    \cup {[Call(Way, j) EXCEPT !.pointer = i, !.tables = b, !.names[r] = n, !.lists[r] = m,
             !.code = @ \ a, !.next[r] = a \cap {q}, !.library = y] :
           j \in {{v}, {r}}, i \in {{}, {f}}, b \in {{}, {q}}, n \in {{}, {q}},
           m \in {{}, {q}}, a \in {{}}, y \in {{r, q}, {q}}}
    \cup {[Call(Way, {}) EXCEPT !.pointer = {f}, !.tables = {r}, !.code = @ \ {r},
             !.next[r] = {q}]}

\* Options, pragmas and naked handlers.
Options ==
  {[Plain EXCEPT
      !.jumps = [@ EXCEPT ![h] = {r}, ![k] = {q}], !.names = [@ EXCEPT ![r] = {t}, ![q] = {u}],
      !.exx = {q}, !.naked = n, !.asked = s, !.whole = w, !.optIn = i, !.optOut = o,
      !.text = <<t, v>>] :
     n \in {{}, {k}}, s \in {{}, {h}, {k}}, w \in BOOLEAN, i \in BOOLEAN, o \in BOOLEAN}

Small == Layouts \cup Ways \cup Options
=============================================================================
