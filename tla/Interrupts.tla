---------------------------- MODULE Interrupts ----------------------------
(***************************************************************************)
(* Interrupts of a Z80 program compiled by uc80: the code of               *)
(* z80_irq_save, z80_irq_restore, z80_critical_enter, z80_critical_leave   *)
(* and z80_load16 (z80_intrinsics.py), of the atomic read-modify-write     *)
(* routines (lc_atomic_fetch_add_2.mac), and the first and last            *)
(* instructions of interrupt functions (codegen.py), on a CPU that takes   *)
(* an interrupt between any two instructions (bench/romrun/z80.py).        *)
(*                                                                         *)
(* The program is main, one maskable handler and one NMI handler.  They    *)
(* share a 16-bit counter, two bytes in memory.  A handler pushes and pops *)
(* the registers it uses, so an activation has registers of its own here.  *)
(***************************************************************************)
EXTENDS Naturals, Sequences

CONSTANTS Base,         \* the values of a byte (256)
          Forms,        \* the forms of the maskable handler, see Form
          MaxDepth,     \* bound: activations at a time
          MaxSections,  \* bound: open sections of an activation
          Wild          \* what an undisciplined program does, see below

Form == {"int", "int_crit"}   \* EI first; EI just before RETI

\* nmiSection: the NMI handler uses sections and load16
\* nmiAdds:    the NMI handler changes the counter
\* atomicOff:  an atomic operation where interrupts are off
WildUses == {"nmiSection", "nmiAdds", "atomicOff"}

ASSUME InterruptsAssumption ==
  /\ Base \in Nat \ {0}
  /\ Forms \subseteq Form
  /\ MaxDepth \in Nat /\ MaxSections \in Nat
  /\ Wild \subseteq WildUses

VARIABLES iff1, iff2,   \* the interrupt flip-flops
          shadow,       \* the last instruction was EI
          form,         \* the form of the maskable handler
          stack,        \* the activations, the running one last
          mem,          \* the bytes of the counter, lower one first
          wanted,       \* history: main's last z80_di or z80_ei was z80_ei
          sum           \* history: the additions to the counter

cpu == <<iff1, iff2, shadow>>
data == <<mem, sum>>
vars == <<cpu, form, stack, data, wanted>>

Byte == 0 .. Base - 1
Low(n) == n % Base
HighKeepsCarry(n) == n \div Base

High(n) == (n \div Base) % Base
Word == 0 .. Base * Base - 1

\* An activation.  at: the next instruction; op: the operation it belongs to;
\* pv: the flag LD A,I set; was: history, iff1 then; e, d: registers;
\* sections: the states kept by the open sections, with that history.
Activation(who, at) ==
  [who |-> who, at |-> at, op |-> "none", pv |-> FALSE, was |-> FALSE,
   e |-> 0, d |-> 0, sections |-> <<>>]

Init ==
  /\ iff1 = FALSE /\ iff2 = FALSE /\ shadow = FALSE
  /\ form \in Forms
  /\ stack = <<Activation("main", "code")>>
  /\ mem = [lo |-> 0, hi |-> 0] /\ sum = 0
  /\ wanted = FALSE

-----------------------------------------------------------------------------
(* Instructions.                                                            *)

Top == stack[Len(stack)]
Below(s) == SubSeq(s, 1, Len(s) - 1)
Becomes(a) == stack' = [stack EXCEPT ![Len(stack)] = a]

\* DI, EI, and an instruction that leaves the flip-flops alone
Di == iff1' = FALSE /\ iff2' = FALSE /\ shadow' = FALSE
Ei == iff1' = TRUE /\ iff2' = TRUE /\ shadow' = TRUE
Neither == shadow' = FALSE /\ UNCHANGED <<iff1, iff2>>

\* JP PO over an EI
EiIf(on) == IF on THEN Ei ELSE Neither

\* The C code of the running activation is free to do the operation op.
Code(op) ==
  /\ Top.at = "code"
  /\ Top.who = "nmi" =>
       \/ op \in {"section", "load"} /\ "nmiSection" \in Wild
       \/ op = "add" /\ "nmiAdds" \in Wild

\* z80_di and z80_ei, which this program calls in main and outside sections
Disable ==
  /\ Len(stack) = 1 /\ Top.at = "code" /\ Top.sections = <<>> /\ wanted
  /\ Di /\ wanted' = FALSE
  /\ UNCHANGED <<form, stack, data>>

Enable ==
  /\ Len(stack) = 1 /\ Top.at = "code" /\ Top.sections = <<>> /\ ~wanted
  /\ Ei /\ wanted' = TRUE
  /\ UNCHANGED <<form, stack, data>>

\* any other instruction
Work ==
  /\ shadow /\ Top.at = "code"
  /\ Neither
  /\ UNCHANGED <<form, stack, data, wanted>>

-----------------------------------------------------------------------------
(* Sections and load16.                                                     *)

\* LD A,I: the P/V flag becomes IFF2
ReadState(op) ==
  /\ Code(op)
  /\ op = "section" => Len(Top.sections) < MaxSections
  /\ Becomes([Top EXCEPT !.at = "di", !.op = op, !.pv = iff2, !.was = iff1])
  /\ Neither
  /\ UNCHANGED <<form, data, wanted>>

SaveForgetsDi ==
  /\ Top.at = "di" /\ Top.op = "section"
  /\ Becomes([Top EXCEPT !.at = "code", !.op = "none",
                         !.sections = Append(@, [on |-> Top.pv, was |-> Top.was])])
  /\ Neither
  /\ UNCHANGED <<form, data, wanted>>

\* irq_save keeps the flag as 0 or 1, crit_enter pushes it
Save ==
  /\ Top.at = "di" /\ Top.op = "section"
  /\ Becomes([Top EXCEPT !.at = "code", !.op = "none",
                         !.sections = Append(@, [on |-> Top.pv, was |-> Top.was])])
  /\ Di
  /\ UNCHANGED <<form, data, wanted>>

RestoreAlways ==
  /\ Top.at = "code" /\ Top.sections # <<>>
  /\ Becomes([Top EXCEPT !.sections = Below(@)])
  /\ Ei
  /\ UNCHANGED <<form, data, wanted>>

\* irq_restore, crit_leave: EI only when the flag was set
Restore ==
  /\ Top.at = "code" /\ Top.sections # <<>>
  /\ Becomes([Top EXCEPT !.sections = Below(@)])
  /\ EiIf(Top.sections[Len(Top.sections)].on)
  /\ UNCHANGED <<form, data, wanted>>

LoadForgetsDi ==
  /\ Top.at = "di" /\ Top.op = "load"
  /\ Becomes([Top EXCEPT !.at = "get_lo"])
  /\ Neither
  /\ UNCHANGED <<form, data, wanted>>

\* load16 through a pointer
LoadDi ==
  /\ Top.at = "di" /\ Top.op = "load"
  /\ Becomes([Top EXCEPT !.at = "get_lo"])
  /\ Di
  /\ UNCHANGED <<form, data, wanted>>

\* LD E,(HL)
GetLow ==
  /\ Top.at = "get_lo"
  /\ Becomes([Top EXCEPT !.at = "get_hi", !.e = mem.lo])
  /\ Neither
  /\ UNCHANGED <<form, data, wanted>>

\* LD D,(HL)
GetHigh ==
  /\ Top.at = "get_hi"
  /\ Becomes([Top EXCEPT !.at = IF Top.op = "load" THEN "end" ELSE "put_lo",
                         !.d = mem.hi])
  /\ Neither
  /\ UNCHANGED <<form, data, wanted>>

LoadEnd ==
  /\ Top.at = "end" /\ Top.op = "load"
  /\ Becomes([Top EXCEPT !.at = "code", !.op = "none"])
  /\ EiIf(Top.pv)
  /\ UNCHANGED <<form, data, wanted>>

-----------------------------------------------------------------------------
(* Additions to the counter.                                                *)

AtomicForgetsDi ==
  /\ Code("add") /\ (iff1 \/ "atomicOff" \in Wild)
  /\ Becomes([Top EXCEPT !.at = "get_lo", !.op = "atomic"])
  /\ Neither
  /\ UNCHANGED <<form, data, wanted>>

\* fetch_add: DI, the two loads, the addition, the two stores, EI
AtomicDi ==
  /\ Code("add") /\ (iff1 \/ "atomicOff" \in Wild)
  /\ Becomes([Top EXCEPT !.at = "get_lo", !.op = "atomic"])
  /\ Di
  /\ UNCHANGED <<form, data, wanted>>

\* plain C code, where the program believes interrupts are off
PlainAdd ==
  /\ Code("add") /\ ~iff1
  /\ Becomes([Top EXCEPT !.at = "get_lo", !.op = "plain"])
  /\ Neither
  /\ UNCHANGED <<form, data, wanted>>

Result == Top.e + Base * Top.d + 1

\* LD (HL),E
PutLow ==
  /\ Top.at = "put_lo"
  /\ mem' = [mem EXCEPT !.lo = Low(Result)]
  /\ Becomes([Top EXCEPT !.at = "put_hi"])
  /\ Neither
  /\ UNCHANGED <<form, sum, wanted>>

\* LD (HL),D
PutHigh ==
  /\ Top.at = "put_hi"
  /\ mem' = [mem EXCEPT !.hi = High(Result)]
  /\ sum' = (sum + 1) % (Base * Base)
  /\ Becomes([Top EXCEPT !.at = IF Top.op = "atomic" THEN "end" ELSE "code",
                         !.op = IF Top.op = "atomic" THEN "atomic" ELSE "none"])
  /\ Neither
  /\ UNCHANGED <<form, wanted>>

AtomicEnd ==
  /\ Top.at = "end" /\ Top.op = "atomic"
  /\ Becomes([Top EXCEPT !.at = "code", !.op = "none"])
  /\ Ei
  /\ UNCHANGED <<form, data, wanted>>

-----------------------------------------------------------------------------
(* Interrupts.                                                              *)

Push(a) ==
  /\ Len(stack) < MaxDepth
  /\ stack' = Append(stack, a)
  /\ UNCHANGED <<form, data, wanted>>

\* a maskable interrupt, never just after an EI
AcceptInt ==
  /\ iff1 /\ ~shadow
  /\ iff1' = FALSE /\ iff2' = FALSE /\ UNCHANGED shadow
  /\ Push(Activation("int", IF form = "int" THEN "entry" ELSE "code"))

\* an NMI, at any time; the source waits until the handler has returned
AcceptNmi ==
  /\ \A k \in 1 .. Len(stack) : stack[k].who # "nmi"
  /\ iff2' = iff1 /\ iff1' = FALSE /\ shadow' = FALSE
  /\ Push(Activation("nmi", "code"))

\* the EI at the start of a handler
EntryEi ==
  /\ Top.at = "entry"
  /\ Becomes([Top EXCEPT !.at = "code"])
  /\ Ei
  /\ UNCHANGED <<form, data, wanted>>

AtEpilogue == Top.at = "code" /\ Top.sections = <<>>

\* the EI before the RETI of a critical handler
EpilogueEi ==
  /\ Top.who = "int" /\ form = "int_crit" /\ AtEpilogue
  /\ Becomes([Top EXCEPT !.at = "reti"])
  /\ Ei
  /\ UNCHANGED <<form, data, wanted>>

\* RETI and RETN: IFF1 becomes IFF2
Pop ==
  /\ stack' = Below(stack)
  /\ iff1' = iff2 /\ shadow' = FALSE
  /\ UNCHANGED <<iff2, form, data, wanted>>

Reti ==
  /\ Top.who = "int"
  /\ Top.at = "reti" \/ (form = "int" /\ AtEpilogue)
  /\ Pop

\* RET in place of RETN
RetnKeepsOff ==
  /\ Top.who = "nmi" /\ AtEpilogue
  /\ stack' = Below(stack)
  /\ shadow' = FALSE
  /\ UNCHANGED <<iff1, iff2, form, data, wanted>>

Retn == Top.who = "nmi" /\ AtEpilogue /\ Pop

Sections == ReadState("section") \/ Save \/ Restore
Loads == ReadState("load") \/ LoadDi \/ LoadEnd
Bytes == GetLow \/ GetHigh \/ PutLow \/ PutHigh
Adds == AtomicDi \/ PlainAdd \/ AtomicEnd
Handlers == AcceptInt \/ AcceptNmi \/ EntryEi \/ EpilogueEi \/ Reti \/ Retn

Next == Enable \/ Disable \/ Work \/ Sections \/ Loads \/ Bytes \/ Adds \/ Handlers

Spec == Init /\ [][Next]_vars

-----------------------------------------------------------------------------
(* Properties.                                                              *)

Ats == {"code", "di", "get_lo", "get_hi", "put_lo", "put_hi", "end", "entry", "reti"}
Section == [on : BOOLEAN, was : BOOLEAN]
Activations ==
  [who : {"main", "int", "nmi"}, at : Ats,
   op : {"none", "section", "load", "atomic", "plain"},
   pv : BOOLEAN, was : BOOLEAN, e : Byte, d : Byte, sections : Seq(Section)]

TypeOK ==
  /\ iff1 \in BOOLEAN /\ iff2 \in BOOLEAN /\ shadow \in BOOLEAN
  /\ form \in Forms
  /\ stack \in Seq(Activations) /\ stack # <<>>
  /\ mem \in [lo : Byte, hi : Byte] /\ sum \in Word
  /\ wanted \in BOOLEAN

\* The code of activation a counts on no maskable interrupt: it is in a section,
\* between the DI and the EI of load16 or an atomic operation, or in a handler
\* that runs with interrupts off.
Touching == {"get_lo", "get_hi", "put_lo", "put_hi", "end"}
Masked(a) ==
  \/ a.sections # <<>>
  \/ a.at \in Touching
  \/ a.who = "nmi"
  \/ a.at = "entry"
  \/ a.who = "int" /\ form = "int_crit" /\ a.at # "reti"

\* Only an NMI comes between the DI and the EI: whatever nests, a maskable
\* handler never runs on top of an activation that counts on none.
Exclusive ==
  \A k, l \in 1 .. Len(stack) :
    k < l /\ Masked(stack[k]) => stack[l].who = "nmi"

\* a will turn interrupts on again
Reenables(a) ==
  \/ \E i \in 1 .. Len(a.sections) : a.sections[i].on
  \/ a.at \in Touching /\ (a.op = "atomic" \/ (a.op = "load" /\ a.pv))
  \/ a.who = "int" /\ a.at # "reti" /\ (a.at = "entry" \/ form = "int_crit")
  \/ a.who = "nmi" /\ iff2

\* Interrupts are on only after z80_ei, and once they were turned on they are off
\* only while something that is running will turn them on again: no
\* interleaving leaves the program deaf.
AsWanted ==
  /\ iff1 => wanted
  /\ wanted /\ ~iff1 => \E k \in 1 .. Len(stack) : Reenables(stack[k])

\* "z80_irq_restore (state) turns them on again only if they were on" (z80.h)
\* and "Interrupts that were off stay off" (docs/rom_hardware.md): a section
\* and load16 leave the state they found, whatever interrupted them.
StateRestored ==
  [][/\ Restore => iff1' = Top.sections[Len(Top.sections)].was
     /\ LoadEnd => iff1' = Top.was]_vars

\* No addition is lost: the counter is the number of additions but between
\* the two stores of one.
NoLostUpdate ==
  (\A k \in 1 .. Len(stack) : stack[k].at # "put_hi") =>
    mem.lo + Base * mem.hi = sum

\* load16 returns a value the counter has, not bytes of two.
NotTorn ==
  \A k \in 1 .. Len(stack) :
    stack[k].at = "end" /\ stack[k].op = "load" =>
      stack[k].e + Base * stack[k].d = sum
============================================================================
