---------------------------- MODULE ExitProofs ----------------------------
(***************************************************************************)
(* Exit implements ProgramExit, whatever the functions, the sizes of the   *)
(* tables and what the functions do.                                       *)
(*                                                                         *)
(* The argument.  The part of a table below its count is the abstract      *)
(* list.  The two ways past a step of exit are the jump through a hook     *)
(* that is still 0, where HooksSet says that nothing was left to do, and   *)
(* the end of _fclose_all, where ClosedBehind says that nothing is left.   *)
(***************************************************************************)
EXTENDS Exit, SequenceTheorems, TLAPS

ExitInv == TypeOK /\ HooksSet /\ ClosedBehind

LEMMA InitExit == Init => ExitInv
BY ExitAssumption DEF Init, ExitInv, TypeOK, HooksSet, ClosedBehind, Slots, Rows, Frame

LEMMA CallsFacts ==
  ASSUME NEW s \in Seq(Frame), s # <<>>
  PROVE  /\ SubSeq(s, 1, Len(s) - 1) \in Seq(Frame)
         /\ s[Len(s)] \in Frame
<1>1. Len(s) \in Nat /\ Len(s) >= 1
  BY EmptySeq
<1> QED BY <1>1, SubSeqProperties

LEMMA NextExit == ExitInv /\ [Next]_vars => ExitInv'
<1> SUFFICES ASSUME ExitInv, [Next]_vars
             PROVE  ExitInv'
  OBVIOUS
<1> USE ExitAssumption DEF ExitInv, TypeOK, HooksSet, ClosedBehind, Slots, Rows,
    Frame, table, qtable, files, flow
<1>1. ASSUME NEW f \in Handlers, Atexit(f) PROVE ExitInv'
  <2>1. CASE cnt < MaxAtexit
    BY <1>1, <2>1 DEF Atexit, HasRoom
  <2>2. CASE ~(cnt < MaxAtexit)
    BY <1>1, <2>2 DEF Atexit, HasRoom
  <2> QED BY <2>1, <2>2
<1>2. ASSUME NEW f \in Handlers, AtQuickExit(f) PROVE ExitInv'
  BY <1>2 DEF AtQuickExit, HasRoom
<1>3. CASE Fopen
  BY <1>3 DEF Fopen
<1>4. ASSUME NEW s \in Slots, Fclose(s) PROVE ExitInv'
  BY <1>4 DEF Fclose
<1>5. CASE CallExit \/ CallQuickExit \/ CallStop
  BY <1>5 DEF CallExit, CallQuickExit, CallStop, Goto
<1>6. CASE Return
  BY <1>6, CallsFacts DEF Return
<1>7. CASE Library
  <2>1. CASE Crt0
    BY <2>1 DEF Crt0, Goto
  <2>2. CASE RunHandler
    <3>1. [fn |-> tab[cnt - 1], by |-> "exit"] \in Frame
      BY <2>2 DEF RunHandler
    <3> QED BY <2>2, <3>1, AppendProperties DEF RunHandler
  <2>3. CASE ExitFiles
    BY <2>3 DEF ExitFiles
  <2>4. CASE CloseSlot
    BY <2>4 DEF CloseSlot
  <2>5. CASE RunQuickHandler
    <3>1. [fn |-> qtab[qcnt - 1], by |-> "quick_exit"] \in Frame
      BY <2>5 DEF RunQuickHandler
    <3> QED BY <2>5, <3>1, AppendProperties DEF RunQuickHandler
  <2>6. CASE FilesClosed \/ QuickExitDone
    BY <2>6 DEF FilesClosed, QuickExitDone, Goto
  <2> QED BY <1>7, <2>1, <2>2, <2>3, <2>4, <2>5, <2>6 DEF Library
<1>8. CASE UNCHANGED vars
  BY <1>8 DEF vars
<1> QED BY <1>1, <1>2, <1>3, <1>4, <1>5, <1>6, <1>7, <1>8 DEF Next

\* The inductive invariant.
THEOREM ExitInvariant == Spec => []ExitInv
BY InitExit, NextExit, PTL DEF Spec

\* The tables and counts keep their bounds: no 33rd row is written.
THEOREM ExitTypes == Spec => []TypeOK
BY ExitInvariant, PTL DEF ExitInv

\* The words crt0 and exit jump through are set whenever something is to do.
THEOREM HooksAlwaysSet == Spec => []HooksSet
BY ExitInvariant, PTL DEF ExitInv

-----------------------------------------------------------------------------
(* The implementation.                                                     *)

\* Registering appends to the list, running the last function removes it.
LEMMA ListedFacts ==
  ASSUME NEW t \in [Rows -> Handlers], NEW n \in 0 .. MaxAtexit
  PROVE  /\ Listed(t, n) \in Seq(Handlers) /\ Len(Listed(t, n)) = n
         /\ n = 0 <=> Listed(t, n) = <<>>
         /\ n # 0 => /\ Listed(t, n)[n] = t[n - 1]
                     /\ SubSeq(Listed(t, n), 1, n - 1) = Listed(t, n - 1)
         /\ n < MaxAtexit => \A f \in Handlers :
              Listed([t EXCEPT ![n] = f], n + 1) = Append(Listed(t, n), f)
<1> USE ExitAssumption DEF Rows
<1>1. \A k \in 1 .. n : t[k - 1] \in Handlers
  OBVIOUS
<1>2. Listed(t, n) \in Seq(Handlers) /\ Len(Listed(t, n)) = n
  BY <1>1 DEF Listed
<1>3. n = 0 <=> Listed(t, n) = <<>>
  BY <1>2, EmptySeq
<1>4. ASSUME n # 0
      PROVE  /\ Listed(t, n)[n] = t[n - 1]
             /\ SubSeq(Listed(t, n), 1, n - 1) = Listed(t, n - 1)
  BY <1>2, <1>4 DEF Listed
<1>5. ASSUME n < MaxAtexit, NEW f \in Handlers
      PROVE  Listed([t EXCEPT ![n] = f], n + 1) = Append(Listed(t, n), f)
  <2>1. Append(Listed(t, n), f) =
          [k \in 1 .. n + 1 |-> IF k <= n THEN t[k - 1] ELSE f]
    BY <1>2 DEF Listed
  <2>2. \A k \in 1 .. n + 1 :
          [t EXCEPT ![n] = f][k - 1] = IF k <= n THEN t[k - 1] ELSE f
    BY <1>5
  <2> QED BY <2>1, <2>2 DEF Listed
<1> QED BY <1>2, <1>3, <1>4, <1>5

LEMMA InitImplements == Init => P!Init
<1> SUFFICES ASSUME Init PROVE P!Init
  OBVIOUS
<1>1. tab \in [Rows -> Handlers] /\ qtab \in [Rows -> Handlers]
  BY DEF Init
<1>2. 0 \in 0 .. MaxAtexit /\ cnt = 0 /\ qcnt = 0
  BY ExitAssumption DEF Init
<1>3. Listed(tab, cnt) = <<>> /\ Listed(qtab, qcnt) = <<>>
  BY <1>1, <1>2, ListedFacts
<1>4. open = {} /\ calls = <<>> /\ Doing = "program"
  BY DEF Init, Doing
<1> QED BY <1>3, <1>4 DEF P!Init

\* What the abstract variables are, stated once for the proof of each step.
LEMMA MappedFacts ==
  ASSUME TypeOK
  PROVE  /\ Len(Listed(tab, cnt)) = cnt /\ Len(Listed(qtab, qcnt)) = qcnt
         /\ cnt = 0 <=> Listed(tab, cnt) = <<>>
         /\ qcnt = 0 <=> Listed(qtab, qcnt) = <<>>
         /\ cnt # 0 => /\ Listed(tab, cnt)[cnt] = tab[cnt - 1]
                       /\ SubSeq(Listed(tab, cnt), 1, cnt - 1) = Listed(tab, cnt - 1)
         /\ qcnt # 0 => /\ Listed(qtab, qcnt)[qcnt] = qtab[qcnt - 1]
                        /\ SubSeq(Listed(qtab, qcnt), 1, qcnt - 1) = Listed(qtab, qcnt - 1)
BY ListedFacts DEF TypeOK

LEMMA NextImplements == ExitInv /\ [Next]_vars => [P!Next]_(P!vars)
<1> SUFFICES ASSUME ExitInv, [Next]_vars
             PROVE  P!Next \/ UNCHANGED P!vars
  OBVIOUS
<1> USE DEF ExitInv, table, qtable, files, flow
<1>1. ASSUME NEW f \in Handlers, Atexit(f) PROVE P!Register(f)
  <2>1. CASE cnt < MaxAtexit
    <3>1. Listed([tab EXCEPT ![cnt] = f], cnt + 1) = Append(Listed(tab, cnt), f)
      BY <2>1, ListedFacts DEF TypeOK
    <3>2. tab' = [tab EXCEPT ![cnt] = f] /\ cnt' = cnt + 1
      BY <1>1, <2>1 DEF Atexit, HasRoom
    <3>3. Listed(tab, cnt)' = Append(Listed(tab, cnt), f)
      BY <3>1, <3>2 DEF Listed
    <3> QED BY <1>1, <2>1, <3>3, MappedFacts DEF Atexit, HasRoom, P!Register, Doing
  <2>2. CASE ~(cnt < MaxAtexit)
    BY <1>1, <2>2, MappedFacts DEF Atexit, HasRoom, P!Register, Doing
  <2> QED BY <2>1, <2>2
<1>2. ASSUME NEW f \in Handlers, AtQuickExit(f) PROVE P!RegisterQuick(f)
  <2>1. CASE qcnt < MaxAtexit
    <3>1. Listed([qtab EXCEPT ![qcnt] = f], qcnt + 1) = Append(Listed(qtab, qcnt), f)
      BY <2>1, ListedFacts DEF TypeOK
    <3>2. qtab' = [qtab EXCEPT ![qcnt] = f] /\ qcnt' = qcnt + 1
      BY <1>2, <2>1 DEF AtQuickExit, HasRoom
    <3>3. Listed(qtab, qcnt)' = Append(Listed(qtab, qcnt), f)
      BY <3>1, <3>2 DEF Listed
    <3> QED BY <1>2, <2>1, <3>3, MappedFacts DEF AtQuickExit, HasRoom, P!RegisterQuick, Doing
  <2>2. CASE ~(qcnt < MaxAtexit)
    BY <1>2, <2>2, MappedFacts DEF AtQuickExit, HasRoom, P!RegisterQuick, Doing
  <2> QED BY <2>1, <2>2
<1>3. ASSUME Fopen \/ \E s \in Slots : Fclose(s) PROVE P!UseFiles
  BY <1>3 DEF Fopen, Fclose, P!UseFiles, Doing, TypeOK
<1>4. ASSUME CallExit \/ CallQuickExit PROVE P!Leave
  BY <1>4 DEF CallExit, CallQuickExit, Goto, P!Leave, Doing
<1>5. ASSUME CallStop PROVE P!Stop
  BY <1>5 DEF CallStop, Goto, P!Stop, Doing
<1>6. ASSUME Return PROVE P!Leave \/ P!Return
  <2>1. CASE calls = <<>>
    BY <1>6, <2>1 DEF Return, P!Leave, Doing
  <2>2. CASE calls # <<>>
    <3>1. calls[Len(calls)] \in Frame
      BY <2>2, CallsFacts DEF TypeOK
    <3>2. calls[Len(calls)].by \in {"exit", "quick_exit"}
      BY <3>1 DEF Frame
    <3> QED BY <1>6, <2>2, <3>2 DEF Return, P!Return, Doing
  <2> QED BY <2>1, <2>2
<1>7. ASSUME Crt0 PROVE P!End \/ UNCHANGED P!vars
  <2>1. CASE hook
    BY <1>7, <2>1 DEF Crt0, Goto, P!vars, Doing
  <2>2. CASE ~hook
    <3>1. cnt = 0 /\ open = {}
      BY <2>2 DEF HooksSet
    <3> QED BY <1>7, <2>2, <3>1, MappedFacts DEF Crt0, Goto, P!End, Doing
  <2> QED BY <2>1, <2>2
<1>8. ASSUME RunHandler PROVE P!RunLast
  BY <1>8, MappedFacts DEF RunHandler, P!RunLast, Doing
<1>9. ASSUME ExitFiles PROVE P!End \/ UNCHANGED P!vars
  <2>1. CASE fhook
    BY <1>9, <2>1 DEF ExitFiles, P!vars, Doing
  <2>2. CASE ~fhook
    <3>1. open = {}
      BY <2>2 DEF HooksSet
    <3> QED BY <1>9, <2>2, <3>1, MappedFacts DEF ExitFiles, P!End, Doing
  <2> QED BY <2>1, <2>2
<1>10. ASSUME CloseSlot PROVE P!CloseOne \/ UNCHANGED P!vars
  <2>1. CASE slot \in open
    <3>1. cnt = 0
      BY <1>10 DEF CloseSlot, ClosedBehind
    <3> QED BY <1>10, <2>1, <3>1, MappedFacts DEF CloseSlot, P!CloseOne, Doing
  <2>2. CASE slot \notin open
    BY <1>10, <2>2 DEF CloseSlot, P!vars, Doing
  <2> QED BY <2>1, <2>2
<1>11. ASSUME FilesClosed PROVE P!End
  <2>1. cnt = 0 /\ open = {}
    BY <1>11, ExitAssumption DEF FilesClosed, ClosedBehind, TypeOK, Slots
  <2> QED BY <1>11, <2>1, MappedFacts DEF FilesClosed, Goto, P!End, Doing
<1>12. ASSUME RunQuickHandler PROVE P!RunLastQuick
  BY <1>12, MappedFacts DEF RunQuickHandler, P!RunLastQuick, Doing
<1>13. ASSUME QuickExitDone PROVE P!End
  BY <1>13, MappedFacts DEF QuickExitDone, Goto, P!End, Doing
<1>14. ASSUME UNCHANGED vars PROVE UNCHANGED P!vars
  BY <1>14 DEF vars, P!vars, Doing
<1> QED BY <1>1, <1>2, <1>3, <1>4, <1>5, <1>6, <1>7, <1>8, <1>9, <1>10, <1>11,
    <1>12, <1>13, <1>14 DEF Next, Library, P!Next

\* Every way out runs the registered functions, the last one first, then closes
\* the files, then ends: what docs/exit_and_files.md promises.
THEOREM ExitImplements == Spec => ImplementsProgramExit
BY InitImplements, NextImplements, ExitInvariant, PTL
   DEF Spec, P!Spec, ImplementsProgramExit

\* No file is left open behind _fclose_all.
THEOREM ClosesAll == Spec => []ClosedBehind
BY ExitInvariant, PTL DEF ExitInv

-----------------------------------------------------------------------------
(* The way out comes to an end, as far as the library goes.                 *)

\* What is left of the way out that runs no function of the program.
WayOut == CASE pc = "crt0" -> MaxFiles + 3 [] pc = "exit" -> MaxFiles + 2
            [] pc = "files" -> MaxFiles + 1 - slot [] pc = "quick_exit" -> 1
            [] pc \in {"cpm", "program"} -> 0

\* A step of the way out calls a registered function, which it takes off its
\* list first, or comes nearer to the warm boot: only functions that register
\* others for ever keep a program from ending.
THEOREM LeavingMovesOn ==
  Spec => [][Library =>
               \/ cnt + qcnt \in Nat /\ cnt' + qcnt' \in Nat /\ cnt' + qcnt' < cnt + qcnt
               \/ /\ cnt' = cnt /\ qcnt' = qcnt
                  /\ WayOut \in Nat /\ WayOut' \in Nat /\ WayOut' < WayOut]_vars
<1>1. ASSUME TypeOK, Library
      PROVE  \/ cnt + qcnt \in Nat /\ cnt' + qcnt' \in Nat /\ cnt' + qcnt' < cnt + qcnt
             \/ /\ cnt' = cnt /\ qcnt' = qcnt
                /\ WayOut \in Nat /\ WayOut' \in Nat /\ WayOut' < WayOut
  <2>1. cnt \in Nat /\ qcnt \in Nat /\ MaxFiles \in Nat /\ slot \in Nat /\ slot <= MaxFiles
    BY <1>1, ExitAssumption DEF TypeOK
  <2>2. CASE RunHandler
    BY <2>1, <2>2 DEF RunHandler, table, qtable
  <2>3. CASE RunQuickHandler
    BY <2>1, <2>3 DEF RunQuickHandler, table, qtable
  <2>4. CASE Crt0 \/ ExitFiles
    BY <2>1, <2>4 DEF Crt0, ExitFiles, Goto, table, qtable, WayOut
  <2>5. CASE CloseSlot
    BY <2>1, <2>5 DEF CloseSlot, table, qtable, WayOut
  <2>6. CASE FilesClosed \/ QuickExitDone
    BY <2>1, <2>6 DEF FilesClosed, QuickExitDone, Goto, table, qtable, WayOut
  <2> QED BY <1>1, <2>2, <2>3, <2>4, <2>5, <2>6 DEF Library
<1>2. TypeOK /\ [Next]_vars =>
        [Library =>
           \/ cnt + qcnt \in Nat /\ cnt' + qcnt' \in Nat /\ cnt' + qcnt' < cnt + qcnt
           \/ /\ cnt' = cnt /\ qcnt' = qcnt
              /\ WayOut \in Nat /\ WayOut' \in Nat /\ WayOut' < WayOut]_vars
  BY <1>1
<1> QED BY <1>2, ExitTypes, PTL DEF Spec
=============================================================================
