---------------------------- MODULE ProgramExit ----------------------------
(***************************************************************************)
(* What docs/exit_and_files.md promises of the end of a program: the       *)
(* functions that atexit registered run once each, the last one first, a   *)
(* function registered meanwhile next; then the open files are closed;     *)
(* then the program has ended.  quick_exit does the first for a list of    *)
(* its own and closes nothing.                                             *)
(***************************************************************************)
EXTENDS Naturals, Sequences

CONSTANTS Handlers,    \* functions that can be registered
          Streams,     \* files that can be open
          Most         \* how many functions a list takes

VARIABLES atexit,      \* registered by atexit, last one last
          quick,       \* registered by at_quick_exit
          open,        \* the open files
          calls,       \* main, then the functions being called
          doing        \* "program", "exit", "quick_exit", "ended"

vars == <<atexit, quick, open, calls, doing>>

Init ==
  /\ atexit = <<>> /\ quick = <<>> /\ open = {}
  /\ calls = <<>>
  /\ doing = "program"

\* a full list takes no more
Register(f) ==
  /\ doing = "program"
  /\ atexit' = IF Len(atexit) < Most THEN Append(atexit, f) ELSE atexit
  /\ UNCHANGED <<quick, open, calls, doing>>

RegisterQuick(f) ==
  /\ doing = "program"
  /\ quick' = IF Len(quick) < Most THEN Append(quick, f) ELSE quick
  /\ UNCHANGED <<atexit, open, calls, doing>>

UseFiles ==
  /\ doing = "program"
  /\ open' \in SUBSET Streams
  /\ UNCHANGED <<atexit, quick, calls, doing>>

\* exit, quick_exit, or the return from main
Leave ==
  /\ doing = "program"
  /\ doing' \in {"exit", "quick_exit"}
  /\ UNCHANGED <<atexit, quick, open, calls>>

\* _Exit or abort
Stop == doing = "program" /\ doing' = "ended" /\ UNCHANGED <<atexit, quick, open, calls>>

RunLast ==
  /\ doing = "exit" /\ atexit # <<>>
  /\ atexit' = SubSeq(atexit, 1, Len(atexit) - 1)
  /\ calls' = Append(calls, [fn |-> atexit[Len(atexit)], by |-> "exit"])
  /\ doing' = "program"
  /\ UNCHANGED <<quick, open>>

RunLastQuick ==
  /\ doing = "quick_exit" /\ quick # <<>>
  /\ quick' = SubSeq(quick, 1, Len(quick) - 1)
  /\ calls' = Append(calls, [fn |-> quick[Len(quick)], by |-> "quick_exit"])
  /\ doing' = "program"
  /\ UNCHANGED <<atexit, open>>

Return ==
  /\ doing = "program" /\ calls # <<>>
  /\ doing' = calls[Len(calls)].by
  /\ calls' = SubSeq(calls, 1, Len(calls) - 1)
  /\ UNCHANGED <<atexit, quick, open>>

\* only when every function has run
CloseOne ==
  /\ doing = "exit" /\ atexit = <<>>
  /\ \E s \in open : open' = open \ {s}
  /\ UNCHANGED <<atexit, quick, calls, doing>>

End ==
  /\ \/ doing = "exit" /\ atexit = <<>> /\ open = {}
     \/ doing = "quick_exit" /\ quick = <<>>
  /\ doing' = "ended"
  /\ UNCHANGED <<atexit, quick, open, calls>>

Next ==
  \/ \E f \in Handlers : Register(f) \/ RegisterQuick(f)
  \/ UseFiles \/ Leave \/ Stop
  \/ RunLast \/ RunLastQuick \/ Return
  \/ CloseOne \/ End

Spec == Init /\ [][Next]_vars
============================================================================
