---------------------------- MODULE MCStorage ----------------------------
(* Families of small programs for the runs of SharedStorage.               *)
EXTENDS SharedStorage, TLC

CONSTANTS f, g, h

\* calls and addresses taken by name only: what the families share
Plain == [calls |-> [x \in Functions |-> {}], takes |-> [x \in Functions |-> {}],
          roots |-> {}, indirect |-> {}, external |-> {}, private |-> {f, g, h},
          onStack |-> {},
          size |-> (Main :> 2 @@ f :> 2 @@ g :> 2 @@ h :> 3),
          isr |-> <<>>, whole |-> TRUE, isrSafe |-> FALSE]

\* every call graph of main and three functions, cycles included; main calls
\* through pointers that h took, or f through pointers that main took
CallGraphs ==
  {[Plain EXCEPT
      !.calls = (Main :> a @@ f :> b @@ g :> c @@ h :> d),
      !.takes = [x \in Functions |->
                   IF x = (IF i = Main THEN h ELSE Main) THEN u ELSE {}],
      !.indirect = {i}] :
    a \in {{f}, {f, h}}, b \in SUBSET {g, h}, c \in SUBSET {f, h}, d \in SUBSET {g},
    u \in {{}, {f}, {h}}, i \in {Main, f}}

\* one interrupt function g of any kind, without --isr-safe: it may share h or
\* f with main, call h alone, or reach h through a pointer
OneHandler ==
  {[Plain EXCEPT
      !.calls = (Main :> a @@ f :> b @@ g :> c @@ h :> {}),
      !.roots = t, !.indirect = i, !.isr = (g :> k), !.isrSafe = s] :
    a \in {{f}, {f, h}}, b \in SUBSET {h}, c \in SUBSET {f, h}, t \in {{}, {h}},
    i \in {{}, {g}, {f, g}}, k \in Kinds, s \in BOOLEAN}

\* --isr-safe: a handler of any kind, alone or with an NMI handler f
SafeHandlers ==
  {[Plain EXCEPT
      !.calls = (Main :> a @@ f :> b @@ g :> c @@ h :> {}),
      !.isr = (IF f \in a THEN g :> k ELSE g :> k @@ f :> "nmi"),
      !.isrSafe = TRUE, !.onStack = o] :
    o \in {{}, {h}}, a \in {{f}, {h}}, b \in SUBSET {h}, c \in {{}, {h}}, k \in Kinds}

\* separate compilation: any of the functions static, any calling out
Separate ==
  {[Plain EXCEPT
      !.calls = (Main :> {f} @@ f :> b @@ g :> c @@ h :> {}),
      !.external = e, !.private = s, !.whole = FALSE, !.size[h] = z] :
    z \in {0, 3}, b \in SUBSET {g, h}, c \in SUBSET {f, h}, e \in {{f}, {h}},
    s \in SUBSET {f, g, h}}

\* without interrupts, with --isr-safe, with one handler, and in modules
Families == CallGraphs \cup SafeHandlers \cup OneHandler \cup Separate
==========================================================================
