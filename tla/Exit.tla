------------------------------- MODULE Exit -------------------------------
(***************************************************************************)
(* The end of a program: atexit, at_quick_exit, exit, quick_exit, _Exit,   *)
(* abort and the return from main (lc_atexit.mac, lc_quick_exit.mac,       *)
(* lc_exit.mac, lc_exit_now.mac, lc_abort.mac, crt0.mac), with the table   *)
(* of streams that fopen and fclose keep and exit closes (lc_fopen.mac,    *)
(* lc_fclose.mac, lc_fslots.mac).                                          *)
(*                                                                         *)
(* Program code runs in main and in the functions that exit calls: it may  *)
(* register functions, use files and leave, whatever is on the stack.      *)
(***************************************************************************)
EXTENDS Naturals, Sequences

CONSTANTS Handlers,    \* functions of the program
          MaxAtexit,   \* MAX_ATEXIT and MAX_QEXIT (32)
          MaxFiles,    \* MAX_FILES (8)
          MaxCalls     \* bound: registrations in a run

ASSUME ExitAssumption ==
  /\ Handlers # {}
  /\ MaxAtexit \in 1 .. 255 /\ MaxFiles \in 1 .. 255 /\ MaxCalls \in Nat

VARIABLES cnt, tab,    \* _atexit_cnt, _atexit_tab
          qcnt, qtab,  \* _qexit_cnt, _qexit_tab
          hook,        \* __exit_hook holds __exit_run, not 0
          fhook,       \* __exit_fhook holds _fclose_all, not 0
          open,        \* the slots of _file_slots with FLAG_OPEN
          pc,          \* "program", "crt0", "exit", "files", "quick_exit", "cpm"
          slot,        \* the slot _fclose_all is at
          calls,       \* the functions exit and quick_exit have called
          made         \* history: registrations so far

table == <<cnt, tab>>
qtable == <<qcnt, qtab>>
files == <<hook, fhook, open>>
flow == <<pc, slot, calls>>
vars == <<table, qtable, files, flow, made>>

Slots == 0 .. MaxFiles - 1
Rows == 0 .. MaxAtexit - 1

\* crt0 clears the BSS; for a row no count has reached yet any function will do
Init ==
  /\ cnt = 0 /\ tab \in {[r \in Rows |-> h] : h \in Handlers}
  /\ qcnt = 0 /\ qtab = tab
  /\ hook = FALSE /\ fhook = FALSE
  /\ open = {}
  /\ pc = "program" /\ slot = 0 /\ calls = <<>>
  /\ made = 0

-----------------------------------------------------------------------------
(* The program registers functions and uses files.                         *)

AlwaysRoom(n) == TRUE

\* CP MAX_ATEXIT: 32 functions at most
HasRoom(n) == n < MaxAtexit

Atexit(f) ==
  /\ pc = "program" /\ made < MaxCalls
  /\ made' = made + 1
  /\ IF HasRoom(cnt)
     THEN tab' = [tab EXCEPT ![cnt] = f] /\ cnt' = cnt + 1 /\ hook' = TRUE
     ELSE UNCHANGED <<table, hook>>
  /\ UNCHANGED <<qtable, fhook, open, flow>>

AtQuickExit(f) ==
  /\ pc = "program" /\ made < MaxCalls
  /\ made' = made + 1
  /\ IF HasRoom(qcnt)
     THEN qtab' = [qtab EXCEPT ![qcnt] = f] /\ qcnt' = qcnt + 1
     ELSE UNCHANGED qtable
  /\ UNCHANGED <<table, files, flow>>

\* the first free slot; a file that does not open leaves it free
Fopen ==
  /\ pc = "program"
  /\ \E s \in Slots : 0 .. s - 1 \subseteq open /\ s \notin open /\ open' = open \cup {s}
  /\ hook' = TRUE /\ fhook' = TRUE
  /\ UNCHANGED <<table, qtable, flow, made>>

Fclose(s) ==
  /\ pc = "program" /\ s \in open
  /\ open' = open \ {s}
  /\ UNCHANGED <<table, qtable, hook, fhook, flow, made>>

-----------------------------------------------------------------------------
(* The program leaves.                                                     *)

Goto(where) ==
  /\ pc' = where
  /\ UNCHANGED <<table, qtable, files, slot, calls, made>>

CallExit == pc = "program" /\ Goto("exit")
CallQuickExit == pc = "program" /\ Goto("quick_exit")

\* _Exit and abort: JP 0
CallStop == pc = "program" /\ Goto("cpm")

\* main returns to crt0; a function returns to the loop that called it
Return ==
  /\ pc = "program"
  /\ IF calls = <<>>
     THEN pc' = "crt0" /\ UNCHANGED calls
     ELSE pc' = calls[Len(calls)].by /\ calls' = SubSeq(calls, 1, Len(calls) - 1)
  /\ UNCHANGED <<table, qtable, files, slot, made>>

\* LD HL,(__exit_hook) / JP (HL): the warm boot when it is 0
Crt0 == pc = "crt0" /\ Goto(IF hook THEN "exit" ELSE "cpm")

-----------------------------------------------------------------------------
(* exit and quick_exit.                                                    *)

\* a count that is lowered only when the function has returned
RunHandlerKeepsCount ==
  /\ pc = "exit" /\ cnt # 0
  /\ calls' = Append(calls, [fn |-> tab[cnt - 1], by |-> "exit"])
  /\ pc' = "program"
  /\ UNCHANGED <<table, qtable, files, slot, made>>

RunHandler ==
  /\ pc = "exit" /\ cnt # 0
  /\ cnt' = cnt - 1
  /\ calls' = Append(calls, [fn |-> tab[cnt - 1], by |-> "exit"])
  /\ pc' = "program"
  /\ UNCHANGED <<tab, qtable, files, slot, made>>

ExitFiles ==
  /\ pc = "exit" /\ cnt = 0
  /\ pc' = IF fhook THEN "files" ELSE "cpm"
  /\ slot' = 0
  /\ UNCHANGED <<table, qtable, files, calls, made>>

\* _fclose_all calls fclose for every slot, the free ones too
CloseSlot ==
  /\ pc = "files" /\ slot < MaxFiles
  /\ open' = open \ {slot}
  /\ slot' = slot + 1
  /\ UNCHANGED <<table, qtable, hook, fhook, pc, calls, made>>

FilesClosed ==
  /\ pc = "files" /\ slot = MaxFiles
  /\ Goto("cpm")

RunQuickHandler ==
  /\ pc = "quick_exit" /\ qcnt # 0
  /\ qcnt' = qcnt - 1
  /\ calls' = Append(calls, [fn |-> qtab[qcnt - 1], by |-> "quick_exit"])
  /\ pc' = "program"
  /\ UNCHANGED <<table, qtab, files, slot, made>>

QuickExitDone == pc = "quick_exit" /\ qcnt = 0 /\ Goto("cpm")

Library == Crt0 \/ RunHandler \/ ExitFiles \/ CloseSlot \/ FilesClosed
             \/ RunQuickHandler \/ QuickExitDone

Next ==
  \/ \E f \in Handlers : Atexit(f) \/ AtQuickExit(f)
  \/ Fopen \/ \E s \in Slots : Fclose(s)
  \/ CallExit \/ CallQuickExit \/ CallStop \/ Return
  \/ Library

\* a function that exit calls returns
FunctionsReturn == WF_vars(calls # <<>> /\ Return)

Spec == Init /\ [][Next]_vars
FairSpec == Spec /\ WF_vars(Library) /\ FunctionsReturn

-----------------------------------------------------------------------------
(* Properties.                                                             *)

Frame == [fn : Handlers, by : {"exit", "quick_exit"}]

TypeOK ==
  /\ cnt \in 0 .. MaxAtexit /\ tab \in [Rows -> Handlers]
  /\ qcnt \in 0 .. MaxAtexit /\ qtab \in [Rows -> Handlers]
  /\ hook \in BOOLEAN /\ fhook \in BOOLEAN
  /\ open \subseteq Slots
  /\ pc \in {"program", "crt0", "exit", "files", "quick_exit", "cpm"}
  /\ slot \in 0 .. MaxFiles
  /\ calls \in Seq(Frame)
  /\ made \in 0 .. MaxCalls

\* Whatever must be done at the end can be reached from main's return and
\* from exit: a word left 0 would leave a file without its last record.
HooksSet ==
  /\ cnt # 0 => hook
  /\ open # {} => hook /\ fhook

\* While _fclose_all is at work every function has run and the slots behind
\* it are free.
ClosedBehind ==
  pc = "files" => cnt = 0 /\ \A s \in open : s >= slot

\* A program that leaves ends, if the functions it registered return and do not
\* register others for ever: one that registers another, or calls exit itself,
\* is not called again.
LeavingEnds == (pc \in {"crt0", "exit", "files", "quick_exit"}) ~> (pc = "cpm")

\* the list a table with n rows in use stands for
Listed(t, n) == [k \in 1 .. n |-> t[k - 1]]

Doing == CASE pc \in {"crt0", "exit", "files"} -> "exit"
           [] pc = "cpm" -> "ended"
           [] OTHER -> pc

P == INSTANCE ProgramExit WITH
       Streams <- Slots, Most <- MaxAtexit,
       atexit <- Listed(tab, cnt), quick <- Listed(qtab, qcnt), doing <- Doing

\* Every way out of the program does what docs/exit_and_files.md says, in order.
ImplementsProgramExit == P!Spec
============================================================================
