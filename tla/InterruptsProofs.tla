------------------------ MODULE InterruptsProofs ------------------------
(***************************************************************************)
(* Sections, load16 and atomic operations are exclusive and leave the      *)
(* state of the interrupts as they found it, whatever the nesting, when    *)
(* NMI handlers stay out of them and no atomic operation is done where     *)
(* interrupts are off.                                                     *)
(*                                                                         *)
(* The argument.  iff2 is the state of the maskable interrupts even under  *)
(* an NMI handler, which is on top while it runs and leaves iff1 off.      *)
(* An activation that counts on interrupts being off, or has read that     *)
(* they are (`Off'), has only an NMI above it, and iff2 is off (`Flags');  *)
(* so nothing moves the flag between LD A,I and the DI when it was off,    *)
(* and an interrupt that comes between them when it was on returns with    *)
(* it on.  What an activation will turn on again it found on (`Kept').     *)
(***************************************************************************)
EXTENDS Interrupts, SequenceTheorems, TLAPS

Disciplined == Wild = {}

\* a runs with interrupts off all along
Deaf(a) == a.who = "int" /\ form = "int_crit" /\ a.at # "reti"

\* a counts on interrupts being off, or has read that they are
Off(a) == Masked(a) \/ (a.at = "di" /\ ~a.pv)

\* the place in the code fits the operation
Placed(a) ==
  /\ a.at \in {"code", "entry", "reti"} <=> a.op = "none"
  /\ a.at = "di" => a.op \in {"section", "load"}
  /\ a.at = "end" => a.op \in {"load", "atomic"}
  /\ a.at \in {"put_lo", "put_hi"} => a.op \in {"atomic", "plain"}
  /\ a.at \in {"entry", "reti"} => a.who = "int" /\ a.sections = <<>>
  /\ a.at = "entry" => form = "int"
  /\ a.at = "reti" => form = "int_crit"
  /\ a.who = "nmi" => a.at = "code" /\ a.sections = <<>>

\* what a will turn on again it found on
Kept(a) ==
  /\ a.op \in {"section", "load"} => a.pv = a.was
  /\ a.op \in {"section", "load"} /\ a.pv => a.sections = <<>> /\ ~Deaf(a) /\ wanted
  /\ a.op = "atomic" => a.sections = <<>> /\ ~Deaf(a) /\ wanted
  /\ a.op = "section" => a.at = "di"
  /\ a.who = "int" => wanted
  /\ \A i \in 1 .. Len(a.sections) :
       /\ a.sections[i].on = a.sections[i].was
       /\ a.sections[i].on => i = 1 /\ ~Deaf(a) /\ wanted

Bottom == \A k \in 1 .. Len(stack) : stack[k].who = "main" <=> k = 1

Flags ==
  /\ \A k \in 1 .. Len(stack) : stack[k].who = "nmi" => k = Len(stack)
  /\ IF Top.who = "nmi" THEN ~iff1 ELSE iff1 = iff2
  /\ \A k \in 1 .. Len(stack) : stack[k].who # "nmi" /\ Off(stack[k]) => ~iff2
  /\ \A k, l \in 1 .. Len(stack) : k < l /\ Off(stack[k]) => stack[l].who = "nmi"

Wants ==
  /\ iff2 => wanted
  /\ wanted /\ ~iff2 =>
       \E k \in 1 .. Len(stack) : stack[k].who # "nmi" /\ Reenables(stack[k])

FlagInv ==
  /\ TypeOK
  /\ Bottom
  /\ \A k \in 1 .. Len(stack) : Placed(stack[k]) /\ Kept(stack[k])
  /\ Flags
  /\ Wants

\* the registers of a between its loads and its stores, when the bytes of the
\* counter are m and the additions t
Holds(a, m, t) ==
  /\ a.at = "get_hi" => a.e = m.lo
  /\ a.at = "put_lo" => a.e = m.lo /\ a.d = m.hi
  /\ a.at = "put_hi" => /\ m.lo = Low(a.e + Base * a.d + 1) /\ m.hi = a.d
                        /\ a.e + Base * a.d = t
  /\ a.at = "end" /\ a.op = "load" => a.e = m.lo /\ a.d = m.hi

Loaded(a) == Holds(a, mem, sum)

DataInv == NoLostUpdate /\ \A k \in 1 .. Len(stack) : Loaded(stack[k])

-----------------------------------------------------------------------------
(* Stacks.                                                                  *)

LEMMA StackFacts ==
  ASSUME TypeOK
  PROVE  /\ Len(stack) \in Nat \ {0}
         /\ stack \in Seq(Activations)
         /\ \A k \in 1 .. Len(stack) : stack[k] \in Activations
         /\ Len(stack) \in 1 .. Len(stack)
         /\ Top \in Activations
<1>1. stack \in Seq(Activations) /\ stack # <<>>
  BY DEF TypeOK
<1>2. Len(stack) \in Nat \ {0}
  BY <1>1, EmptySeq, LenProperties
<1>3. \A k \in 1 .. Len(stack) : stack[k] \in Activations
  BY <1>1, ElementOfSeq
<1> QED BY <1>1, <1>2, <1>3 DEF Top

LEMMA BelowFacts ==
  ASSUME NEW S, NEW s \in Seq(S), s # <<>>
  PROVE  /\ Below(s) \in Seq(S)
         /\ Len(Below(s)) = Len(s) - 1
         /\ \A k \in 1 .. Len(s) - 1 : Below(s)[k] = s[k]
<1>1. Len(s) \in Nat \ {0}
  BY EmptySeq, LenProperties
<1>2. Below(s) = SubSeq(s, 1, Len(s) - 1)
  BY DEF Below
<1>3. \A i \in 1 .. Len(s) - 1 : s[i] \in S
  BY <1>1, ElementOfSeq
<1>4. Len(s) - 1 \in Nat /\ Len(s) - 1 <= Len(s)
  BY <1>1
<1> DEFINE n == Len(s) - 1
<1>5. /\ SubSeq(s, 1, n) \in Seq(S)
      /\ Len(SubSeq(s, 1, n)) = IF 1 <= n THEN n - 1 + 1 ELSE 0
      /\ \A i \in 1 .. n - 1 + 1 : SubSeq(s, 1, n)[i] = s[1 + i - 1]
  <2> HIDE DEF n
  <2>1. n \in Int /\ \A i \in 1 .. n : s[i] \in S
    BY <1>3, <1>4 DEF n
  <2> QED BY <2>1, SubSeqProperties
<1>6. n - 1 + 1 = n /\ (IF 1 <= n THEN n - 1 + 1 ELSE 0) = n
  <2>1. n \in Nat
    BY <1>1
  <2> HIDE DEF n
  <2> QED BY <2>1
<1>7. \A i \in 1 .. n : 1 + i - 1 = i
  BY <1>4
<1>8. \A i \in 1 .. n : SubSeq(s, 1, n)[i] = s[i]
  <2> HIDE DEF n
  <2> QED BY <1>5, <1>6, <1>7
<1> QED BY <1>2, <1>5, <1>6, <1>8

\* the running activation, not an NMI handler, becomes a
LEMMA BecomesFacts ==
  ASSUME TypeOK, NEW a \in Activations, Becomes(a)
  PROVE  /\ stack' \in Seq(Activations) /\ stack' # <<>>
         /\ Len(stack') = Len(stack)
         /\ stack'[Len(stack)] = a
         /\ \A k \in 1 .. Len(stack) - 1 : stack'[k] = stack[k]
         /\ Top' = a
<1>1. stack' = [stack EXCEPT ![Len(stack)] = a]
  BY DEF Becomes
<1>2. stack' \in Seq(Activations) /\ Len(stack') = Len(stack)
  BY <1>1, StackFacts, ExceptSeq
<1>3. /\ Len(stack) \in Nat \ {0} /\ DOMAIN stack = 1 .. Len(stack)
      /\ Len(stack) \in DOMAIN stack
  BY StackFacts
<1>4. /\ stack'[Len(stack)] = a
      /\ \A k \in 1 .. Len(stack) - 1 : stack'[k] = stack[k]
  <2>1. stack'[Len(stack)] = a
    BY <1>1, <1>3
  <2>2. ASSUME NEW k \in 1 .. Len(stack) - 1 PROVE stack'[k] = stack[k]
    <3>1. k \in 1 .. Len(stack) /\ k # Len(stack)
      <4>1. Len(stack) \in Nat
        BY <1>3
      <4> QED BY <4>1
    <3>2. k \in DOMAIN stack
      BY <1>3, <3>1
    <3> QED BY <1>1, <3>1, <3>2
  <2> QED BY <2>1, <2>2
<1> QED BY <1>2, <1>4, StackFacts, EmptySeq DEF Top

-----------------------------------------------------------------------------
(* The flags.                                                               *)

LEMMA WordFacts ==
  /\ Base \in Nat \ {0} /\ Base * Base \in Nat /\ Base * Base >= 1
  /\ 0 \in Byte /\ 0 \in Word
<1>1. Base * Base \in Nat /\ Base * Base >= 1
  BY InterruptsAssumption
<1> QED BY <1>1, InterruptsAssumption DEF Byte, Word

LEMMA InitFlags == Init => FlagInv
<1> SUFFICES ASSUME Init PROVE FlagInv
  OBVIOUS
<1> DEFINE a == Activation("main", "code")
<1>1. a \in Activations
  BY InterruptsAssumption DEF Activation, Activations, Ats, Byte
<1>2. /\ stack \in Seq(Activations) /\ Len(stack) = 1 /\ stack # <<>>
      /\ stack[1] = a /\ Top = a
  BY <1>1 DEF Init, Top
<1>3. /\ a.who = "main" /\ a.at = "code" /\ a.op = "none" /\ a.sections = <<>>
      /\ Len(a.sections) = 0
  BY DEF Activation
<1>4. TypeOK
  BY <1>2, WordFacts DEF Init, TypeOK
<1>5. Placed(a) /\ Kept(a) /\ ~Off(a)
  BY <1>3 DEF Placed, Kept, Off, Masked, Touching
<1> HIDE DEF a
<1>6. \A k \in 1 .. Len(stack) : k = 1 /\ stack[k] = a
  BY <1>2
<1>7. Bottom /\ \A k \in 1 .. Len(stack) : Placed(stack[k]) /\ Kept(stack[k])
  BY <1>3, <1>5, <1>6 DEF Bottom
<1>8. Flags /\ Wants
  BY <1>2, <1>3, <1>5, <1>6 DEF Flags, Wants, Init
<1> QED BY <1>4, <1>7, <1>8 DEF FlagInv

LEMMA BecomesInv ==
  ASSUME FlagInv, NEW a \in Activations, Becomes(a),
         iff1' \in BOOLEAN, shadow' \in BOOLEAN,
         mem' \in [lo : Byte, hi : Byte], sum' \in Word,
         form' = form, wanted' = wanted,
         Top.who # "nmi", a.who = Top.who, Placed(a), Kept(a),
         iff1' = iff2', iff2' => wanted /\ ~Off(a),
         wanted /\ ~iff2' =>
           Reenables(a) \/ (~iff2 /\ (Reenables(Top) => Reenables(a)))
  PROVE  FlagInv'
<1> USE StackFacts DEF FlagInv
<1>1. /\ stack' \in Seq(Activations) /\ stack' # <<>>
      /\ Len(stack') = Len(stack)
      /\ stack'[Len(stack)] = a
      /\ \A k \in 1 .. Len(stack) - 1 : stack'[k] = stack[k]
      /\ Top' = a
  BY BecomesFacts
<1>2. TypeOK'
  BY <1>1 DEF TypeOK
<1>3. \A k \in 1 .. Len(stack) : stack'[k].who = stack[k].who
  BY <1>1 DEF Top
<1>4. Bottom'
  BY <1>1, <1>3 DEF Bottom
<1>5. \A k \in 1 .. Len(stack') : Placed(stack[k])' /\ Kept(stack[k])'
  <2> SUFFICES ASSUME NEW k \in 1 .. Len(stack)
               PROVE  Placed(stack[k])' /\ Kept(stack[k])'
    BY <1>1
  <2>1. CASE k = Len(stack)
    BY <1>1, <2>1 DEF Placed, Kept, Deaf
  <2>2. CASE k # Len(stack)
    <3>1. stack'[k] = stack[k] /\ Placed(stack[k]) /\ Kept(stack[k])
      BY <1>1, <2>2
    <3> QED BY <3>1 DEF Placed, Kept, Deaf
  <2> QED BY <2>1, <2>2
<1>6. \A k \in 1 .. Len(stack) - 1 : ~Off(stack[k]) /\ stack[k].who # "nmi"
  BY DEF Flags, Top
<1>7. \A k \in 1 .. Len(stack) - 1 : ~Off(stack[k])'
  BY <1>1, <1>6 DEF Off, Masked
<1>8. Off(stack[Len(stack)])' => ~iff2'
  <2>1. Off(a) <=> Off(stack[Len(stack)])'
    BY <1>1 DEF Off, Masked
  <2> QED BY <2>1
<1>9. Flags'
  BY <1>1, <1>3, <1>6, <1>7, <1>8 DEF Flags
<1>10. Wants'
  <2>1. iff2' => wanted'
    OBVIOUS
  <2>2. ASSUME wanted', ~iff2'
        PROVE  \E k \in 1 .. Len(stack') : stack'[k].who # "nmi" /\ Reenables(stack[k])'
    <3>1. Reenables(a) => Reenables(stack[Len(stack)])'
      BY <1>1 DEF Reenables
    <3>2. CASE Reenables(a)
      BY <1>1, <3>1, <3>2
    <3>3. CASE ~Reenables(a)
      <4>1. ~iff2 /\ ~Reenables(Top)
        BY <2>2, <3>3
      <4>2. PICK k \in 1 .. Len(stack) : stack[k].who # "nmi" /\ Reenables(stack[k])
        BY <2>2, <4>1 DEF Wants
      <4>3. k \in 1 .. Len(stack) - 1
        BY <4>1, <4>2 DEF Top
      <4>4. stack'[k] = stack[k]
        BY <1>1, <4>3
      <4>5. Reenables(stack[k])'
        BY <4>2, <4>4 DEF Reenables
      <4> QED BY <1>1, <4>2, <4>4, <4>5
    <3> QED BY <3>2, <3>3
  <2> QED BY <2>1, <2>2 DEF Wants
<1> QED BY <1>2, <1>4, <1>5, <1>9, <1>10

\* What is known of the running activation.
LEMMA TopFacts ==
  ASSUME FlagInv
  PROVE  /\ Top \in Activations /\ Placed(Top) /\ Kept(Top)
         /\ Top.who # "nmi" => iff1 = iff2 /\ (Off(Top) => ~iff2)
         /\ iff2 => wanted
BY StackFacts DEF FlagInv, Flags, Wants, Top

\* An instruction that leaves the flip-flops alone and no less to turn on.
LEMMA NeitherInv ==
  ASSUME FlagInv, NEW a \in Activations, Becomes(a), Neither,
         mem' \in [lo : Byte, hi : Byte], sum' \in Word,
         form' = form, wanted' = wanted,
         Top.who # "nmi", a.who = Top.who, Placed(a), Kept(a),
         Off(a) => Off(Top) \/ ~iff2,
         Reenables(Top) => Reenables(a)
  PROVE  FlagInv'
<1>1. iff1' = iff1 /\ iff2' = iff2 /\ shadow' = FALSE
  BY DEF Neither
<1>2. iff1' \in BOOLEAN /\ shadow' \in BOOLEAN
  BY <1>1 DEF FlagInv, TypeOK
<1> QED BY <1>1, <1>2, TopFacts, BecomesInv

LEMMA ReadStateFlags ==
  ASSUME Disciplined, FlagInv, NEW op \in {"section", "load"}, ReadState(op)
  PROVE  FlagInv'
<1> DEFINE a == [Top EXCEPT !.at = "di", !.op = op, !.pv = iff2, !.was = iff1]
<1>1. Top.at = "code" /\ Top.who # "nmi" /\ Top.op = "none"
  BY TopFacts DEF ReadState, Code, Disciplined, Placed
<1>2. iff1 \in BOOLEAN /\ iff2 \in BOOLEAN
  BY DEF FlagInv, TypeOK
<1>3. a \in Activations
  BY <1>2, TopFacts DEF Activations, Ats
<1>4. Placed(a)
  BY <1>1, TopFacts DEF Placed, Activations
<1>5. iff2 => Top.sections = <<>> /\ ~Deaf(Top)
  BY <1>1, TopFacts DEF Off, Masked, Deaf
<1>6. Kept(a)
  BY <1>1, <1>5, TopFacts DEF Kept, Activations, Deaf
<1>7. Off(a) => Off(Top) \/ ~iff2
  BY <1>1, TopFacts DEF Off, Masked, Activations, Touching
<1>8. Reenables(Top) => Reenables(a)
  BY <1>1, TopFacts DEF Reenables, Activations, Touching
<1>9. a.who = Top.who
  BY TopFacts DEF Activations
<1>10. Becomes(a) /\ Neither /\ UNCHANGED <<form, data, wanted>>
  BY DEF ReadState
<1> HIDE DEF a
<1> QED BY <1>1, <1>3, <1>4, <1>6, <1>7, <1>8, <1>9, <1>10, NeitherInv
        DEF FlagInv, TypeOK, data

LEMMA SaveFlags ==
  ASSUME FlagInv, Save
  PROVE  FlagInv'
<1> DEFINE sec == [on |-> Top.pv, was |-> Top.was]
           a == [Top EXCEPT !.at = "code", !.op = "none",
                            !.sections = Append(@, sec)]
<1>1. Top.at = "di" /\ Top.op = "section" /\ Top.who # "nmi"
  BY TopFacts DEF Save, Placed
<1>2. Top.sections \in Seq(Section) /\ sec \in Section
  BY TopFacts DEF Activations, Section
<1>3. /\ Append(Top.sections, sec) \in Seq(Section)
      /\ Len(Append(Top.sections, sec)) = Len(Top.sections) + 1
      /\ Append(Top.sections, sec)[Len(Top.sections) + 1] = sec
      /\ \A i \in 1 .. Len(Top.sections) :
           Append(Top.sections, sec)[i] = Top.sections[i]
      /\ Len(Top.sections) \in Nat
  BY <1>2, AppendProperties, LenProperties
<1>4. a \in Activations
  BY <1>3, TopFacts DEF Activations, Ats
<1>5. /\ a.at = "code" /\ a.op = "none" /\ a.who = Top.who /\ a.pv = Top.pv
      /\ a.sections = Append(Top.sections, sec)
  BY TopFacts DEF Activations
<1>6. Placed(a)
  BY <1>1, <1>5 DEF Placed
<1>7. Kept(a)
  <2>1. \A i \in 1 .. Len(a.sections) :
          i = Len(Top.sections) + 1 \/ i \in 1 .. Len(Top.sections)
    BY <1>3, <1>5
  <2>2. Top.pv = Top.was /\ (Top.pv => Len(Top.sections) = 0 /\ ~Deaf(Top) /\ wanted)
    BY <1>1, TopFacts DEF Kept
  <2>3. Deaf(a) <=> Deaf(Top)
    BY <1>1, <1>5 DEF Deaf
  <2>4. ASSUME NEW i \in 1 .. Len(a.sections)
        PROVE  /\ a.sections[i].on = a.sections[i].was
               /\ a.sections[i].on => i = 1 /\ ~Deaf(a) /\ wanted
    <3>1. CASE i = Len(Top.sections) + 1
      <4>1. a.sections[i] = sec
        BY <1>3, <1>5, <3>1
      <4> QED BY <2>2, <2>3, <3>1, <4>1
    <3>2. CASE i \in 1 .. Len(Top.sections)
      <4>1. a.sections[i] = Top.sections[i]
        BY <1>3, <1>5, <3>2
      <4> QED BY <2>3, <3>2, <4>1, TopFacts DEF Kept
    <3> QED BY <2>1, <3>1, <3>2
  <2>5. a.who = "int" => wanted
    BY <1>5, TopFacts DEF Kept
  <2> HIDE DEF a
  <2> QED BY <1>5, <2>4, <2>5 DEF Kept
<1>8. CASE Top.pv
  <2>1. Reenables(a)
    <3>1. Len(Top.sections) + 1 \in 1 .. Len(a.sections)
      BY <1>3, <1>5
    <3>2. a.sections[Len(Top.sections) + 1].on
      BY <1>3, <1>5, <1>8
    <3> HIDE DEF a
    <3> QED BY <3>1, <3>2 DEF Reenables
  <2>2. iff1' = FALSE /\ iff2' = FALSE /\ shadow' = FALSE
    BY DEF Save, Di
  <2>3. Becomes(a) /\ UNCHANGED <<form, data, wanted>>
    BY DEF Save
  <2> HIDE DEF a
  <2> QED BY <1>1, <1>4, <1>5, <1>6, <1>7, <2>1, <2>2, <2>3, BecomesInv
          DEF FlagInv, TypeOK, data
<1>9. CASE ~Top.pv
  <2>1. ~iff2
    BY <1>1, <1>9, TopFacts DEF Off
  <2>2. Reenables(Top) => Reenables(a)
    <3>1. \A i \in 1 .. Len(Top.sections) :
            i \in 1 .. Len(a.sections) /\ a.sections[i] = Top.sections[i]
      BY <1>3, <1>5
    <3> HIDE DEF a
    <3> QED BY <1>1, <1>5, <3>1 DEF Reenables, Touching
  <2>3. iff1' = FALSE /\ iff2' = FALSE /\ shadow' = FALSE
    BY DEF Save, Di
  <2>4. Becomes(a) /\ UNCHANGED <<form, data, wanted>>
    BY DEF Save
  <2> HIDE DEF a
  <2> QED BY <1>1, <1>4, <1>5, <1>6, <1>7, <2>1, <2>2, <2>3, <2>4, BecomesInv
          DEF FlagInv, TypeOK, data
<1> QED BY <1>8, <1>9

LEMMA RestoreFlags ==
  ASSUME FlagInv, Restore
  PROVE  FlagInv'
<1> DEFINE n == Len(Top.sections)
           a == [Top EXCEPT !.sections = Below(@)]
<1>1. Top.at = "code" /\ Top.sections # <<>> /\ Top.who # "nmi"
  BY TopFacts DEF Restore, Placed
<1>2. Top.sections \in Seq(Section) /\ n \in Nat \ {0}
  BY <1>1, TopFacts, EmptySeq, LenProperties DEF Activations
<1>3. /\ Below(Top.sections) \in Seq(Section)
      /\ Len(Below(Top.sections)) = n - 1
      /\ \A i \in 1 .. n - 1 : Below(Top.sections)[i] = Top.sections[i]
  BY <1>1, <1>2, BelowFacts
<1>4. a \in Activations
  BY <1>3, TopFacts DEF Activations
<1>5. /\ a.at = "code" /\ a.op = Top.op /\ a.who = Top.who /\ a.pv = Top.pv
      /\ a.was = Top.was /\ a.sections = Below(Top.sections)
  BY <1>1, TopFacts DEF Activations
<1>6. Top.op = "none" /\ ~iff2 /\ iff1 = iff2
  BY <1>1, TopFacts DEF Placed, Off, Masked
<1>7. Placed(a)
  BY <1>1, <1>5, <1>6 DEF Placed
<1>8. \A i \in 1 .. n - 1 :
        /\ i \in 1 .. n /\ i \in 1 .. Len(a.sections)
        /\ a.sections[i] = Top.sections[i]
  BY <1>2, <1>3, <1>5
<1>9. Kept(a)
  <2>1. \A i \in 1 .. Len(a.sections) : i \in 1 .. n - 1
    BY <1>3, <1>5
  <2>2. Deaf(a) <=> Deaf(Top)
    BY <1>1, <1>5 DEF Deaf
  <2> HIDE DEF a, n
  <2> QED BY <1>5, <1>6, <1>8, <2>1, <2>2, TopFacts DEF Kept, n
<1>10. Becomes(a) /\ UNCHANGED <<form, data, wanted>> /\ EiIf(Top.sections[n].on)
  BY DEF Restore
<1>11. CASE Top.sections[n].on
  <2>1. n = 1 /\ ~Deaf(Top) /\ wanted
    <3>1. n \in 1 .. Len(Top.sections)
      BY <1>2
    <3> HIDE DEF n
    <3> QED BY <3>1, <1>11, TopFacts DEF Kept
  <2>2. a.sections = <<>>
    BY <1>3, <1>5, <2>1, EmptySeq
  <2>3. ~Off(a)
    <3> HIDE DEF a
    <3> QED BY <1>1, <1>5, <2>1, <2>2 DEF Off, Masked, Deaf, Touching
  <2>4. iff1' = TRUE /\ iff2' = TRUE /\ shadow' = TRUE
    BY <1>10, <1>11 DEF EiIf, Ei
  <2> HIDE DEF a, n
  <2> QED BY <1>1, <1>4, <1>5, <1>7, <1>9, <1>10, <2>1, <2>3, <2>4, BecomesInv
          DEF FlagInv, TypeOK, data
<1>12. CASE ~Top.sections[n].on
  <2>1. Reenables(Top) => Reenables(a)
    <3>1. \A i \in 1 .. n : i = n \/ i \in 1 .. n - 1
      BY <1>2
    <3> HIDE DEF a
    <3> QED BY <1>1, <1>5, <1>8, <1>12, <3>1 DEF Reenables, Touching
  <2>2. Neither
    BY <1>10, <1>12 DEF EiIf
  <2> HIDE DEF a, n
  <2> QED BY <1>1, <1>4, <1>5, <1>6, <1>7, <1>9, <1>10, <2>1, <2>2, NeitherInv
          DEF FlagInv, TypeOK, data
<1> QED BY <1>11, <1>12

LEMMA LoadDiFlags ==
  ASSUME FlagInv, LoadDi
  PROVE  FlagInv'
<1> DEFINE a == [Top EXCEPT !.at = "get_lo"]
<1>1. Top.at = "di" /\ Top.op = "load" /\ Top.who # "nmi"
  BY TopFacts DEF LoadDi, Placed
<1>2. a \in Activations
  BY TopFacts DEF Activations, Ats
<1>3. /\ a.at = "get_lo" /\ a.op = "load" /\ a.who = Top.who /\ a.pv = Top.pv
      /\ a.was = Top.was /\ a.sections = Top.sections
  BY <1>1, TopFacts DEF Activations
<1>4. Becomes(a) /\ UNCHANGED <<form, data, wanted>>
  BY DEF LoadDi
<1>5. iff1' = FALSE /\ iff2' = FALSE /\ shadow' = FALSE
  BY DEF LoadDi, Di
<1> HIDE DEF a
<1>6. Placed(a)
  BY <1>1, <1>3 DEF Placed
<1>7. Kept(a)
  BY <1>1, <1>3, TopFacts DEF Kept, Deaf
<1>8. Reenables(a) \/ (~iff2 /\ (Reenables(Top) => Reenables(a)))
  <2>1. CASE Top.pv
    BY <1>3, <2>1 DEF Reenables, Touching
  <2>2. CASE ~Top.pv
    BY <1>1, <1>3, <2>2, TopFacts DEF Reenables, Touching, Off
  <2> QED BY <2>1, <2>2
<1> QED BY <1>1, <1>2, <1>3, <1>4, <1>5, <1>6, <1>7, <1>8, BecomesInv
        DEF FlagInv, TypeOK, data

LEMMA LoadEndFlags ==
  ASSUME FlagInv, LoadEnd
  PROVE  FlagInv'
<1> DEFINE a == [Top EXCEPT !.at = "code", !.op = "none"]
<1>1. Top.at = "end" /\ Top.op = "load" /\ Top.who # "nmi"
  BY TopFacts DEF LoadEnd, Placed
<1>2. a \in Activations
  BY TopFacts DEF Activations, Ats
<1>3. /\ a.at = "code" /\ a.op = "none" /\ a.who = Top.who
      /\ a.sections = Top.sections
  BY TopFacts DEF Activations
<1>4. Becomes(a) /\ UNCHANGED <<form, data, wanted>> /\ EiIf(Top.pv)
  BY DEF LoadEnd
<1>5. ~iff2
  BY <1>1, TopFacts DEF Off, Masked, Touching
<1> HIDE DEF a
<1>6. Placed(a)
  BY <1>1, <1>3 DEF Placed
<1>7. Kept(a)
  BY <1>1, <1>3, TopFacts DEF Kept, Deaf
<1>8. CASE Top.pv
  <2>1. Top.sections = <<>> /\ ~Deaf(Top) /\ wanted
    BY <1>1, <1>8, TopFacts DEF Kept
  <2>2. ~Off(a)
    BY <1>1, <1>3, <2>1 DEF Off, Masked, Deaf, Touching
  <2>3. iff1' = TRUE /\ iff2' = TRUE /\ shadow' = TRUE
    BY <1>4, <1>8 DEF EiIf, Ei
  <2> QED BY <1>1, <1>2, <1>3, <1>4, <1>6, <1>7, <2>1, <2>2, <2>3, BecomesInv
          DEF FlagInv, TypeOK, data
<1>9. CASE ~Top.pv
  <2>1. Reenables(Top) => Reenables(a)
    BY <1>1, <1>3, <1>9 DEF Reenables, Touching
  <2>2. Neither
    BY <1>4, <1>9 DEF EiIf
  <2> QED BY <1>1, <1>2, <1>3, <1>4, <1>5, <1>6, <1>7, <2>1, <2>2, NeitherInv
          DEF FlagInv, TypeOK, data
<1> QED BY <1>8, <1>9

\* A step of an activation that stays between the first load and the last
\* instruction of its operation.
LEMMA TouchingInv ==
  ASSUME FlagInv, NEW a \in Activations, Becomes(a), Neither,
         mem' \in [lo : Byte, hi : Byte], sum' \in Word,
         form' = form, wanted' = wanted,
         Top.at \in Touching, a.at \in Touching,
         a.at = "end" => a.op \in {"load", "atomic"},
         a.at \in {"put_lo", "put_hi"} => a.op \in {"atomic", "plain"},
         a.who = Top.who, a.op = Top.op, a.pv = Top.pv, a.was = Top.was,
         a.sections = Top.sections
  PROVE  FlagInv'
<1>1. Top.who # "nmi" /\ Top.op # "none"
  BY TopFacts DEF Placed, Touching
<1>2. Off(Top)
  BY DEF Off, Masked
<1>3. Placed(a)
  BY <1>1 DEF Placed, Touching
<1>4. Kept(a)
  BY TopFacts DEF Kept, Deaf, Touching
<1>5. Reenables(Top) => Reenables(a)
  BY DEF Reenables, Touching
<1> QED BY <1>1, <1>2, <1>3, <1>4, <1>5, NeitherInv

LEMMA ByteFacts ==
  ASSUME NEW e \in Byte, NEW d \in Byte
  PROVE  /\ e + Base * d + 1 \in Nat
         /\ Low(e + Base * d + 1) \in Byte /\ High(e + Base * d + 1) \in Byte
<1> DEFINE r == e + Base * d + 1
<1>1. r \in Nat
  <2>1. Base * d \in Nat
    BY WordFacts DEF Byte
  <2> QED BY <2>1 DEF Byte
<1> HIDE DEF r
<1>2. r % Base \in Byte
  BY <1>1, WordFacts DEF Byte
<1>3. r \div Base \in Nat
  BY <1>1, WordFacts
<1>4. (r \div Base) % Base \in Byte
  BY <1>3, WordFacts DEF Byte
<1> QED BY <1>1, <1>2, <1>4 DEF r, Low, High

LEMMA NextSum == \A n \in Nat : n % (Base * Base) \in Word
<1> DEFINE w == Base * Base
<1>1. w \in Nat /\ w >= 1
  BY WordFacts
<1> HIDE DEF w
<1>2. \A n \in Nat : n % w \in 0 .. w - 1
  BY <1>1
<1> QED BY <1>2 DEF w, Word

LEMMA BytesFlags ==
  ASSUME FlagInv, Bytes
  PROVE  FlagInv'
<1>1. /\ Top \in Activations /\ Top.e \in Byte /\ Top.d \in Byte
      /\ mem \in [lo : Byte, hi : Byte] /\ sum \in Word /\ sum \in Nat
  BY TopFacts DEF FlagInv, TypeOK, Activations, Word
<1>2. Low(Result) \in Byte /\ High(Result) \in Byte
  BY <1>1, ByteFacts DEF Result
<1>3. CASE GetLow
  <2> DEFINE a == [Top EXCEPT !.at = "get_hi", !.e = mem.lo]
  <2>1. a \in Activations
    BY <1>1 DEF Activations, Ats
  <2>2. /\ a.at = "get_hi" /\ a.who = Top.who /\ a.op = Top.op /\ a.pv = Top.pv
        /\ a.was = Top.was /\ a.sections = Top.sections
    BY <1>1 DEF Activations
  <2>3. /\ Top.at = "get_lo" /\ Becomes(a) /\ Neither
        /\ UNCHANGED <<form, data, wanted>>
    BY <1>3 DEF GetLow
  <2> HIDE DEF a
  <2> QED BY <1>1, <2>1, <2>2, <2>3, TouchingInv DEF data, Touching
<1>4. CASE GetHigh
  <2> DEFINE a == [Top EXCEPT !.at = IF Top.op = "load" THEN "end" ELSE "put_lo",
                              !.d = mem.hi]
  <2>1. a \in Activations
    BY <1>1 DEF Activations, Ats
  <2>2. /\ a.at = IF Top.op = "load" THEN "end" ELSE "put_lo"
        /\ a.who = Top.who /\ a.op = Top.op /\ a.pv = Top.pv
        /\ a.was = Top.was /\ a.sections = Top.sections
    BY <1>1 DEF Activations
  <2>3. /\ Top.at = "get_hi" /\ Becomes(a) /\ Neither
        /\ UNCHANGED <<form, data, wanted>>
    BY <1>4 DEF GetHigh
  <2>4. Top.op \in {"load", "atomic", "plain"}
    BY <1>1, <2>3, TopFacts DEF Placed, Kept, Activations
  <2> HIDE DEF a
  <2> QED BY <1>1, <2>1, <2>2, <2>3, <2>4, TouchingInv DEF data, Touching
<1>5. CASE PutLow
  <2> DEFINE a == [Top EXCEPT !.at = "put_hi"]
  <2>1. a \in Activations
    BY <1>1 DEF Activations, Ats
  <2>2. /\ a.at = "put_hi" /\ a.who = Top.who /\ a.op = Top.op /\ a.pv = Top.pv
        /\ a.was = Top.was /\ a.sections = Top.sections
    BY <1>1 DEF Activations
  <2>3. /\ Top.at = "put_lo" /\ Becomes(a) /\ Neither
        /\ UNCHANGED <<form, sum, wanted>>
        /\ mem' = [mem EXCEPT !.lo = Low(Result)]
    BY <1>5 DEF PutLow
  <2>4. mem' \in [lo : Byte, hi : Byte]
    BY <1>1, <1>2, <2>3
  <2>5. Top.op \in {"atomic", "plain"}
    BY <2>3, TopFacts DEF Placed
  <2> HIDE DEF a
  <2> QED BY <1>1, <2>1, <2>2, <2>3, <2>4, <2>5, TouchingInv DEF Touching
<1>6. CASE PutHigh
  <2> DEFINE a == [Top EXCEPT !.at = IF Top.op = "atomic" THEN "end" ELSE "code",
                              !.op = IF Top.op = "atomic" THEN "atomic" ELSE "none"]
  <2>1. a \in Activations
    BY <1>1 DEF Activations, Ats
  <2>2. /\ a.at = IF Top.op = "atomic" THEN "end" ELSE "code"
        /\ a.op = IF Top.op = "atomic" THEN "atomic" ELSE "none"
        /\ a.who = Top.who /\ a.pv = Top.pv
        /\ a.was = Top.was /\ a.sections = Top.sections
    BY <1>1 DEF Activations
  <2>3. /\ Top.at = "put_hi" /\ Becomes(a) /\ Neither
        /\ UNCHANGED <<form, wanted>>
        /\ mem' = [mem EXCEPT !.hi = High(Result)]
        /\ sum' = (sum + 1) % (Base * Base)
    BY <1>6 DEF PutHigh
  <2>4. mem' \in [lo : Byte, hi : Byte]
    BY <1>1, <1>2, <2>3
  <2>5. sum' \in Word
    BY <1>1, <2>3, NextSum
  <2> HIDE DEF a
  <2>6. CASE Top.op = "atomic"
    BY <1>1, <2>1, <2>2, <2>3, <2>4, <2>5, <2>6, TouchingInv DEF Touching
  <2>7. CASE Top.op # "atomic"
    <3>1. Top.op = "plain" /\ Top.who # "nmi" /\ Off(Top)
      BY <2>3, <2>7, TopFacts DEF Placed, Off, Masked, Touching
    <3>2. Placed(a)
      BY <2>2, <3>1 DEF Placed
    <3>3. Kept(a)
      BY <2>2, <2>3, <3>1, TopFacts DEF Kept, Deaf
    <3>4. Reenables(Top) => Reenables(a)
      BY <2>2, <2>3, <3>1 DEF Reenables, Touching
    <3> QED BY <2>1, <2>2, <2>3, <2>4, <2>5, <3>1, <3>2, <3>3, <3>4, NeitherInv
  <2> QED BY <2>6, <2>7
<1> QED BY <1>3, <1>4, <1>5, <1>6 DEF Bytes

LEMMA AddsFlags ==
  ASSUME Disciplined, FlagInv, Adds
  PROVE  FlagInv'
<1>1. CASE AtomicDi
  <2> DEFINE a == [Top EXCEPT !.at = "get_lo", !.op = "atomic"]
  <2>1. Top.at = "code" /\ Top.who # "nmi" /\ Top.op = "none" /\ iff1
    BY <1>1, TopFacts DEF AtomicDi, Code, Disciplined, Placed
  <2>2. a \in Activations
    BY TopFacts DEF Activations, Ats
  <2>3. /\ a.at = "get_lo" /\ a.op = "atomic" /\ a.who = Top.who
        /\ a.sections = Top.sections
    BY TopFacts DEF Activations
  <2>4. Becomes(a) /\ UNCHANGED <<form, data, wanted>>
    BY <1>1 DEF AtomicDi
  <2>5. iff1' = FALSE /\ iff2' = FALSE /\ shadow' = FALSE
    BY <1>1 DEF AtomicDi, Di
  <2>6. iff2 /\ wanted /\ ~Off(Top)
    BY <2>1, TopFacts
  <2>7. Top.sections = <<>> /\ ~Deaf(Top)
    BY <2>6 DEF Off, Masked, Deaf
  <2> HIDE DEF a
  <2>8. Placed(a)
    BY <2>1, <2>3 DEF Placed
  <2>9. Kept(a)
    BY <2>1, <2>3, <2>6, <2>7, TopFacts DEF Kept, Deaf
  <2>10. Reenables(a)
    BY <2>3 DEF Reenables, Touching
  <2> QED BY <2>1, <2>2, <2>3, <2>4, <2>5, <2>8, <2>9, <2>10, BecomesInv
          DEF FlagInv, TypeOK, data
<1>2. CASE PlainAdd
  <2> DEFINE a == [Top EXCEPT !.at = "get_lo", !.op = "plain"]
  <2>1. Top.at = "code" /\ Top.who # "nmi" /\ Top.op = "none" /\ ~iff1
    BY <1>2, TopFacts DEF PlainAdd, Code, Disciplined, Placed
  <2>2. a \in Activations
    BY TopFacts DEF Activations, Ats
  <2>3. /\ a.at = "get_lo" /\ a.op = "plain" /\ a.who = Top.who
        /\ a.sections = Top.sections
    BY TopFacts DEF Activations
  <2>4. Becomes(a) /\ Neither /\ UNCHANGED <<form, data, wanted>>
    BY <1>2 DEF PlainAdd
  <2>5. ~iff2
    BY <2>1, TopFacts
  <2> HIDE DEF a
  <2>6. Placed(a)
    BY <2>1, <2>3 DEF Placed
  <2>7. Kept(a)
    BY <2>1, <2>3, TopFacts DEF Kept, Deaf
  <2>8. Reenables(Top) => Reenables(a)
    BY <2>1, <2>3 DEF Reenables, Touching
  <2> QED BY <2>1, <2>2, <2>3, <2>4, <2>5, <2>6, <2>7, <2>8, NeitherInv
          DEF FlagInv, TypeOK, data
<1>3. CASE AtomicEnd
  <2> DEFINE a == [Top EXCEPT !.at = "code", !.op = "none"]
  <2>1. Top.at = "end" /\ Top.op = "atomic" /\ Top.who # "nmi"
    BY <1>3, TopFacts DEF AtomicEnd, Placed
  <2>2. a \in Activations
    BY TopFacts DEF Activations, Ats
  <2>3. /\ a.at = "code" /\ a.op = "none" /\ a.who = Top.who
        /\ a.sections = Top.sections
    BY TopFacts DEF Activations
  <2>4. Becomes(a) /\ UNCHANGED <<form, data, wanted>>
    BY <1>3 DEF AtomicEnd
  <2>5. iff1' = TRUE /\ iff2' = TRUE /\ shadow' = TRUE
    BY <1>3 DEF AtomicEnd, Ei
  <2>6. Top.sections = <<>> /\ ~Deaf(Top) /\ wanted
    BY <2>1, TopFacts DEF Kept
  <2> HIDE DEF a
  <2>7. Placed(a)
    BY <2>1, <2>3 DEF Placed
  <2>8. Kept(a)
    BY <2>1, <2>3, TopFacts DEF Kept, Deaf
  <2>9. ~Off(a)
    BY <2>1, <2>3, <2>6 DEF Off, Masked, Deaf, Touching
  <2> QED BY <2>1, <2>2, <2>3, <2>4, <2>5, <2>6, <2>7, <2>8, <2>9, BecomesInv
          DEF FlagInv, TypeOK, data
<1> QED BY <1>1, <1>2, <1>3 DEF Adds

LEMMA HandlerEiFlags ==
  ASSUME FlagInv, EntryEi \/ EpilogueEi
  PROVE  FlagInv'
<1>1. CASE EntryEi
  <2> DEFINE a == [Top EXCEPT !.at = "code"]
  <2>1. /\ Top.at = "entry" /\ Top.who = "int" /\ Top.op = "none" /\ form = "int"
        /\ wanted
    BY <1>1, TopFacts DEF EntryEi, Placed, Kept
  <2>2. a \in Activations
    BY TopFacts DEF Activations, Ats
  <2>3. /\ a.at = "code" /\ a.op = Top.op /\ a.who = Top.who
        /\ a.sections = Top.sections
    BY TopFacts DEF Activations
  <2>4. Becomes(a) /\ UNCHANGED <<form, data, wanted>>
    BY <1>1 DEF EntryEi
  <2>5. iff1' = TRUE /\ iff2' = TRUE /\ shadow' = TRUE
    BY <1>1 DEF EntryEi, Ei
  <2>6. Top.sections = <<>>
    BY <2>1, TopFacts DEF Placed
  <2> HIDE DEF a
  <2>7. Placed(a)
    BY <2>1, <2>3 DEF Placed
  <2>8. Kept(a)
    BY <2>1, <2>3, TopFacts DEF Kept, Deaf
  <2>9. ~Off(a)
    BY <2>1, <2>3, <2>6 DEF Off, Masked, Touching
  <2> QED BY <2>1, <2>2, <2>3, <2>4, <2>5, <2>7, <2>8, <2>9, BecomesInv
          DEF FlagInv, TypeOK, data
<1>2. CASE EpilogueEi
  <2> DEFINE a == [Top EXCEPT !.at = "reti"]
  <2>1. /\ Top.at = "code" /\ Top.who = "int" /\ Top.op = "none"
        /\ form = "int_crit" /\ Top.sections = <<>> /\ wanted
    BY <1>2, TopFacts DEF EpilogueEi, AtEpilogue, Placed, Kept
  <2>2. a \in Activations
    BY TopFacts DEF Activations, Ats
  <2>3. /\ a.at = "reti" /\ a.op = Top.op /\ a.who = Top.who
        /\ a.sections = Top.sections
    BY TopFacts DEF Activations
  <2>4. Becomes(a) /\ UNCHANGED <<form, data, wanted>>
    BY <1>2 DEF EpilogueEi
  <2>5. iff1' = TRUE /\ iff2' = TRUE /\ shadow' = TRUE
    BY <1>2 DEF EpilogueEi, Ei
  <2> HIDE DEF a
  <2>6. Placed(a)
    BY <2>1, <2>3 DEF Placed
  <2>7. Kept(a)
    <3>1. Len(a.sections) = 0
      BY <2>1, <2>3
    <3> QED BY <2>1, <2>3, <3>1 DEF Kept
  <2>8. ~Off(a)
    BY <2>1, <2>3 DEF Off, Masked, Touching
  <2> QED BY <2>1, <2>2, <2>3, <2>4, <2>5, <2>6, <2>7, <2>8, BecomesInv
          DEF FlagInv, TypeOK, data
<1> QED BY <1>1, <1>2

LEMMA CodeFlags ==
  ASSUME FlagInv, Enable \/ Disable \/ Work
  PROVE  FlagInv'
<1>1. CASE Work
  <2>1. /\ UNCHANGED <<iff1, iff2, form, stack, mem, sum, wanted>> /\ shadow' = FALSE
    BY <1>1 DEF Work, Neither, data
  <2>2. TypeOK'
    BY <2>1 DEF FlagInv, TypeOK
  <2>3. /\ Bottom' /\ Flags' /\ Wants'
        /\ \A k \in 1 .. Len(stack') : Placed(stack[k])' /\ Kept(stack[k])'
    BY <2>1 DEF FlagInv, Bottom, Flags, Wants, Top, Placed, Kept, Deaf, Off, Masked,
       Reenables
  <2> QED BY <2>2, <2>3 DEF FlagInv
<1>2. CASE Enable \/ Disable
  <2>1. /\ Len(stack) = 1 /\ Top.at = "code" /\ Top.sections = <<>>
        /\ UNCHANGED <<form, stack, mem, sum>>
        /\ iff1' = iff2' /\ iff2' = wanted' /\ iff1' \in BOOLEAN
        /\ shadow' \in BOOLEAN
    BY <1>2 DEF Enable, Disable, Ei, Di, data
  <2>2. TypeOK'
    BY <2>1 DEF FlagInv, TypeOK
  <2>3. Top = stack[1] /\ Top.who = "main" /\ Placed(Top)
    BY <2>1, TopFacts DEF Top, FlagInv, Bottom
  <2>4. Top.op = "none" /\ Len(Top.sections) = 0 /\ ~Off(Top)
    BY <2>1, <2>3 DEF Placed, Off, Masked, Touching
  <2>5. \A k \in 1 .. Len(stack) : k = 1
    BY <2>1
  <2>6. Bottom'
    BY <2>1 DEF FlagInv, Bottom
  <2>7. \A k \in 1 .. Len(stack') : Placed(stack[k])' /\ Kept(stack[k])'
    <3>1. stack' = stack /\ Top' = Top /\ form' = form
      BY <2>1 DEF Top
    <3>2. Placed(Top)' /\ Kept(Top)'
      BY <2>3, <2>4, <3>1 DEF Placed, Kept
    <3>3. ASSUME NEW k \in 1 .. Len(stack')
          PROVE  Placed(stack[k])' /\ Kept(stack[k])'
      <4>1. stack'[k] = Top'
        <5>1. k = 1
          BY <2>5, <3>1, <3>3
        <5> QED BY <2>3, <3>1, <5>1
      <4> QED BY <3>2, <4>1 DEF Placed, Kept, Deaf
    <3> QED BY <3>3
  <2>8. Flags'
    BY <2>1, <2>3, <2>4, <2>5 DEF Flags, Off, Masked, Top
  <2>9. Wants'
    BY <2>1 DEF Wants
  <2> QED BY <2>2, <2>6, <2>7, <2>8, <2>9 DEF FlagInv
<1> QED BY <1>1, <1>2

\* An interrupt puts a new activation on top.
LEMMA PushInv ==
  ASSUME FlagInv, NEW a \in Activations, Push(a),
         iff1' \in BOOLEAN, iff2' \in BOOLEAN, shadow' \in BOOLEAN,
         a.who \in {"int", "nmi"}, Placed(a), Kept(a), Top.who # "nmi",
         IF a.who = "nmi" THEN ~iff1' /\ iff2' = iff2
         ELSE iff2 /\ ~iff1' /\ ~iff2' /\ Reenables(a)
  PROVE  FlagInv'
<1> DEFINE n == Len(stack)
<1>1. /\ stack \in Seq(Activations) /\ n \in Nat \ {0}
      /\ \A k \in 1 .. n : stack[k] \in Activations
  BY StackFacts DEF FlagInv
<1>2. stack' = Append(stack, a) /\ UNCHANGED <<form, mem, sum, wanted>>
  BY DEF Push, data
<1>3. /\ stack' \in Seq(Activations) /\ Len(stack') = n + 1
      /\ stack'[n + 1] = a
      /\ \A k \in 1 .. n : stack'[k] = stack[k]
  BY <1>1, <1>2, AppendProperties
<1>4. stack' # <<>> /\ Top' = a
  BY <1>1, <1>3, EmptySeq DEF Top
<1>5. TypeOK'
  BY <1>2, <1>3, <1>4 DEF FlagInv, TypeOK
<1>6. \A k \in 1 .. n + 1 : k = n + 1 \/ (k \in 1 .. n /\ k < n + 1)
  BY <1>1
<1>7. Bottom'
  <2>1. stack'[n + 1].who # "main" /\ n + 1 # 1
    BY <1>1, <1>3
  <2> HIDE DEF n
  <2> QED BY <1>3, <1>6, <2>1 DEF FlagInv, Bottom, n
<1>8. \A k \in 1 .. Len(stack') : Placed(stack[k])' /\ Kept(stack[k])'
  <2> SUFFICES ASSUME NEW k \in 1 .. n + 1
               PROVE  Placed(stack[k])' /\ Kept(stack[k])'
    BY <1>3
  <2>1. CASE k = n + 1
    BY <1>2, <1>3, <2>1 DEF Placed, Kept, Deaf
  <2>2. CASE k \in 1 .. n
    <3>1. stack'[k] = stack[k] /\ Placed(stack[k]) /\ Kept(stack[k])
      BY <1>3, <2>2 DEF FlagInv
    <3> QED BY <1>2, <3>1 DEF Placed, Kept, Deaf
  <2> QED BY <1>6, <2>1, <2>2
<1>9. \A k \in 1 .. n : stack[k].who # "nmi"
  <2>1. stack[n].who # "nmi"
    BY DEF Top
  <2> QED BY <2>1 DEF FlagInv, Flags
<1>10. \A k \in 1 .. n : Off(stack[k]) => ~iff2
  BY <1>9 DEF FlagInv, Flags
<1>11. \A k \in 1 .. n : Off(stack[k])' <=> Off(stack[k])
  BY <1>2, <1>3 DEF Off, Masked
<1>12. a.who # "nmi" => ~iff2'
  OBVIOUS
<1>13. Flags'
  <2>1. \A k \in 1 .. n + 1 : stack'[k].who = "nmi" => k = n + 1
    BY <1>3, <1>6, <1>9
  <2>2. IF Top'.who = "nmi" THEN ~iff1' ELSE iff1' = iff2'
    BY <1>4
  <2>3. ASSUME NEW k \in 1 .. n + 1, stack'[k].who # "nmi", Off(stack[k])'
        PROVE  ~iff2'
    <3>1. CASE k = n + 1
      BY <1>3, <1>12, <2>3, <3>1
    <3>2. CASE k \in 1 .. n
      BY <1>10, <1>11, <2>3, <3>2
    <3> QED BY <1>6, <3>1, <3>2
  <2>4. ASSUME NEW k \in 1 .. n + 1, NEW l \in 1 .. n + 1, k < l, Off(stack[k])'
        PROVE  stack'[l].who = "nmi"
    <3>1. k \in 1 .. n
      BY <1>1, <2>4
    <3>2. Off(stack[k]) /\ ~iff2
      BY <1>10, <1>11, <2>4, <3>1
    <3>3. a.who = "nmi"
      BY <3>2
    <3>4. CASE l \in 1 .. n
      BY <1>1, <1>9, <2>4, <3>1, <3>2, <3>4 DEF FlagInv, Flags
    <3>5. CASE l = n + 1
      BY <1>3, <3>3, <3>5
    <3> QED BY <1>6, <3>4, <3>5
  <2> HIDE DEF n
  <2> QED BY <1>3, <2>1, <2>2, <2>3, <2>4 DEF Flags
<1>14. Wants'
  <2>1. iff2' => wanted'
    BY <1>2 DEF FlagInv, Wants
  <2>2. ASSUME wanted', ~iff2'
        PROVE  \E k \in 1 .. Len(stack') : stack'[k].who # "nmi" /\ Reenables(stack[k])'
    <3>1. CASE a.who = "nmi"
      <4>1. PICK k \in 1 .. n : stack[k].who # "nmi" /\ Reenables(stack[k])
        BY <1>2, <2>2, <3>1 DEF FlagInv, Wants
      <4>2. stack'[k] = stack[k] /\ k \in 1 .. Len(stack')
        BY <1>1, <1>3
      <4>3. Reenables(stack[k])'
        BY <1>2, <4>1, <4>2 DEF Reenables
      <4> QED BY <4>1, <4>2, <4>3
    <3>2. CASE a.who = "int"
      <4>1. Reenables(a)
        BY <3>2
      <4>2. PICK m \in 1 .. Len(stack') : m = n + 1
        BY <1>1, <1>3
      <4>3. stack'[m] = a
        BY <1>3, <4>2
      <4>4. Reenables(stack[m])' /\ stack'[m].who # "nmi"
        BY <1>2, <3>2, <4>1, <4>3 DEF Reenables
      <4> QED BY <4>2, <4>4
    <3> QED BY <3>1, <3>2
  <2> QED BY <2>1, <2>2 DEF Wants
<1> QED BY <1>5, <1>7, <1>8, <1>13, <1>14 DEF FlagInv

LEMMA AcceptFlags ==
  ASSUME FlagInv, AcceptInt \/ AcceptNmi
  PROVE  FlagInv'
<1>1. iff1 \in BOOLEAN /\ iff2 \in BOOLEAN /\ shadow \in BOOLEAN /\ form \in Form
  BY InterruptsAssumption DEF FlagInv, TypeOK
<1>2. \A who \in {"int", "nmi"}, at \in {"code", "entry"} :
        Activation(who, at) \in Activations
  BY WordFacts DEF Activation, Activations, Ats
<1>3. CASE AcceptInt
  <2> DEFINE a == Activation("int", IF form = "int" THEN "entry" ELSE "code")
  <2>1. /\ iff1 /\ ~iff1' /\ ~iff2' /\ iff1' \in BOOLEAN /\ iff2' \in BOOLEAN
        /\ shadow' = shadow /\ Push(a)
    BY <1>3 DEF AcceptInt
  <2>2. Top.who # "nmi" /\ iff2 /\ wanted
    BY <1>1, <2>1, TopFacts DEF FlagInv, Flags
  <2>3. a \in Activations
    BY <1>2
  <2>4. /\ a.who = "int" /\ a.at = (IF form = "int" THEN "entry" ELSE "code")
        /\ a.op = "none" /\ a.sections = <<>> /\ Len(a.sections) = 0
    BY DEF Activation
  <2> HIDE DEF a
  <2>5. Placed(a)
    BY <2>4 DEF Placed
  <2>6. Kept(a)
    BY <2>2, <2>4 DEF Kept
  <2>7. Reenables(a)
    BY <1>1, <2>4 DEF Reenables, Form
  <2> QED BY <1>1, <2>1, <2>2, <2>3, <2>4, <2>5, <2>6, <2>7, PushInv
<1>4. CASE AcceptNmi
  <2> DEFINE a == Activation("nmi", "code")
  <2>1. /\ iff2' = iff1 /\ iff1' = FALSE /\ shadow' = FALSE /\ Push(a)
        /\ \A k \in 1 .. Len(stack) : stack[k].who # "nmi"
    BY <1>4 DEF AcceptNmi
  <2>2. Top.who # "nmi" /\ iff1 = iff2
    BY <2>1, StackFacts, TopFacts DEF FlagInv, Top
  <2>3. a \in Activations
    BY <1>2
  <2>4. /\ a.who = "nmi" /\ a.at = "code"
        /\ a.op = "none" /\ a.sections = <<>> /\ Len(a.sections) = 0
    BY DEF Activation
  <2> HIDE DEF a
  <2>5. Placed(a) /\ Kept(a)
    BY <2>4 DEF Placed, Kept
  <2> QED BY <1>1, <2>1, <2>2, <2>3, <2>4, <2>5, PushInv
<1> QED BY <1>3, <1>4

\* A return takes the top activation off: IFF1 becomes IFF2.
LEMMA PopInv ==
  ASSUME FlagInv, Pop, Len(stack) > 1, ~Reenables(Top) \/ Top.who = "nmi"
  PROVE  FlagInv'
<1> DEFINE n == Len(stack)
<1>1. /\ stack \in Seq(Activations) /\ stack # <<>> /\ n \in Nat /\ n > 1
  BY StackFacts DEF FlagInv, TypeOK
<1>2. /\ stack' = Below(stack) /\ iff1' = iff2 /\ iff2' = iff2 /\ shadow' = FALSE
      /\ UNCHANGED <<form, mem, sum, wanted>>
  BY DEF Pop, data
<1>3. /\ stack' \in Seq(Activations) /\ Len(stack') = n - 1
      /\ \A k \in 1 .. n - 1 : stack'[k] = stack[k]
  BY <1>1, <1>2, BelowFacts
<1>4. stack' # <<>>
  BY <1>1, <1>3, EmptySeq
<1>5. TypeOK'
  BY <1>2, <1>3, <1>4 DEF FlagInv, TypeOK
<1>6. \A k \in 1 .. n - 1 : k \in 1 .. n /\ k < n
  BY <1>1
<1>7. Bottom'
  BY <1>3, <1>6 DEF FlagInv, Bottom
<1>8. \A k \in 1 .. Len(stack') : Placed(stack[k])' /\ Kept(stack[k])'
  <2> SUFFICES ASSUME NEW k \in 1 .. n - 1
               PROVE  Placed(stack[k])' /\ Kept(stack[k])'
    BY <1>3
  <2>1. stack'[k] = stack[k] /\ Placed(stack[k]) /\ Kept(stack[k])
    BY <1>3, <1>6 DEF FlagInv
  <2> QED BY <1>2, <2>1 DEF Placed, Kept, Deaf
<1>9. \A k \in 1 .. n - 1 : stack'[k].who # "nmi"
  BY <1>3, <1>6 DEF FlagInv, Flags
<1>10. \A k \in 1 .. n - 1 : Off(stack[k])' <=> Off(stack[k])
  BY <1>2, <1>3 DEF Off, Masked
<1>11. Flags'
  <2>1. Top'.who # "nmi" /\ iff1' = iff2'
    <3>1. n - 1 \in 1 .. n - 1
      BY <1>1
    <3>2. Top' = stack'[n - 1]
      BY <1>3 DEF Top
    <3> QED BY <1>2, <1>9, <3>1, <3>2
  <2>2. ASSUME NEW k \in 1 .. n - 1, Off(stack[k])'
        PROVE  ~iff2'
    <3>1. stack[k].who # "nmi" /\ Off(stack[k]) /\ k \in 1 .. n
      BY <1>3, <1>6, <1>9, <1>10, <2>2
    <3> QED BY <1>2, <3>1 DEF FlagInv, Flags
  <2>3. ASSUME NEW k \in 1 .. n - 1, NEW l \in 1 .. n - 1, k < l, Off(stack[k])'
        PROVE  FALSE
    <3>1. Off(stack[k]) /\ k \in 1 .. n /\ l \in 1 .. n /\ stack[l].who # "nmi"
      BY <1>3, <1>6, <1>9, <1>10, <2>3
    <3> QED BY <2>3, <3>1 DEF FlagInv, Flags
  <2> HIDE DEF n
  <2> QED BY <1>3, <1>9, <2>1, <2>2, <2>3 DEF Flags
<1>12. Wants'
  <2>1. iff2' => wanted'
    BY <1>2 DEF FlagInv, Wants
  <2>2. ASSUME wanted', ~iff2'
        PROVE  \E k \in 1 .. Len(stack') : stack'[k].who # "nmi" /\ Reenables(stack[k])'
    <3>1. PICK k \in 1 .. n : stack[k].who # "nmi" /\ Reenables(stack[k])
      BY <1>2, <2>2 DEF FlagInv, Wants
    <3>2. k # n
      BY <3>1 DEF Top
    <3>3. k \in 1 .. n - 1
      BY <1>1, <3>2
    <3>4. stack'[k] = stack[k] /\ k \in 1 .. Len(stack')
      BY <1>3, <3>3
    <3>5. Reenables(stack[k])'
      BY <1>2, <3>1, <3>4 DEF Reenables
    <3> QED BY <3>1, <3>4, <3>5
  <2> QED BY <2>1, <2>2 DEF Wants
<1> QED BY <1>5, <1>7, <1>8, <1>11, <1>12 DEF FlagInv

LEMMA ReturnFlags ==
  ASSUME FlagInv, Reti \/ Retn
  PROVE  FlagInv'
<1>1. Pop /\ Top.who \in {"int", "nmi"}
  BY DEF Reti, Retn
<1>2. Len(stack) > 1
  <2>1. Len(stack) \in Nat \ {0} /\ Len(stack) \in 1 .. Len(stack)
    BY StackFacts DEF FlagInv
  <2>2. Len(stack) # 1
    BY <1>1, <2>1 DEF FlagInv, Bottom, Top
  <2>3. \A m \in Nat \ {0} : m # 1 => m > 1
    OBVIOUS
  <2> QED BY <2>1, <2>2, <2>3
<1>3. ~Reenables(Top) \/ Top.who = "nmi"
  <2>1. CASE Reti
    <3>1. Top.who = "int" /\ (Top.at = "reti" \/ (form = "int" /\ AtEpilogue))
      BY <2>1 DEF Reti
    <3>2. Top.sections = <<>> /\ Top.at \in {"reti", "code"} /\ Len(Top.sections) = 0
      BY <3>1, TopFacts DEF AtEpilogue, Placed
    <3> QED BY <3>1, <3>2 DEF Reenables, Touching
  <2>2. CASE Retn
    BY <2>2 DEF Retn
  <2> QED BY <2>1, <2>2
<1> QED BY <1>1, <1>2, <1>3, PopInv

LEMMA NextFlags == Disciplined /\ FlagInv /\ [Next]_vars => FlagInv'
<1> SUFFICES ASSUME Disciplined, FlagInv, [Next]_vars
             PROVE  FlagInv'
  OBVIOUS
<1>1. CASE Enable \/ Disable \/ Work
  BY <1>1, CodeFlags
<1>2. CASE Sections
  BY <1>2, ReadStateFlags, SaveFlags, RestoreFlags DEF Sections
<1>3. CASE Loads
  BY <1>3, ReadStateFlags, LoadDiFlags, LoadEndFlags DEF Loads
<1>4. CASE Bytes
  BY <1>4, BytesFlags
<1>5. CASE Adds
  BY <1>5, AddsFlags
<1>6. CASE Handlers
  BY <1>6, AcceptFlags, HandlerEiFlags, ReturnFlags DEF Handlers
<1>7. CASE UNCHANGED vars
  BY <1>7 DEF vars, cpu, data, FlagInv, TypeOK, Bottom, Flags, Wants, Top, Placed,
     Kept, Deaf, Off, Masked, Reenables
<1> QED BY <1>1, <1>2, <1>3, <1>4, <1>5, <1>6, <1>7 DEF Next

LEMMA FlagInvariant ==
  ASSUME Disciplined
  PROVE  Spec => []FlagInv
<1>1. Init => FlagInv
  BY InitFlags
<1>2. FlagInv /\ [Next]_vars => FlagInv'
  BY NextFlags
<1> QED BY <1>1, <1>2, PTL DEF Spec

\* Type correctness, whatever the number of nested activations and sections.
THEOREM InterruptsTypes ==
  ASSUME Disciplined
  PROVE  Spec => []TypeOK
<1>1. FlagInv => TypeOK
  BY DEF FlagInv
<1> QED BY <1>1, FlagInvariant, PTL

\* Between the instruction that turns interrupts off and the one that turns them
\* on again no maskable handler runs (crit_enter, load16, the atomic routines,
\* __critical handlers).
THEOREM SectionsExclusive ==
  ASSUME Disciplined
  PROVE  Spec => []Exclusive
<1>1. FlagInv => Exclusive
  BY DEF FlagInv, Flags, Exclusive, Off
<1> QED BY <1>1, FlagInvariant, PTL

\* After z80_ei interrupts are off only while something will turn them on again,
\* and before it they are never on.
THEOREM NeverDeaf ==
  ASSUME Disciplined
  PROVE  Spec => []AsWanted
<1>1. FlagInv => AsWanted
  <2> SUFFICES ASSUME FlagInv PROVE AsWanted
    OBVIOUS
  <2>1. iff1 => wanted
    BY TopFacts DEF FlagInv, Flags, Wants
  <2>2. ASSUME wanted, ~iff1
        PROVE  \E k \in 1 .. Len(stack) : Reenables(stack[k])
    <3>1. CASE iff2
      <4>1. Top.who = "nmi"
        BY <2>2, <3>1, TopFacts
      <4> QED BY <3>1, <4>1, StackFacts DEF FlagInv, Reenables, Top
    <3>2. CASE ~iff2
      BY <2>2, <3>2 DEF FlagInv, Wants
    <3> QED BY <3>1, <3>2
  <2> QED BY <2>1, <2>2 DEF AsWanted
<1> QED BY <1>1, FlagInvariant, PTL

\* z80_irq_restore, z80_critical_leave and z80_load16 leave the state of the
\* interrupts that their LD A,I found, whatever came in between.
THEOREM StateIsRestored ==
  ASSUME Disciplined
  PROVE  Spec => StateRestored
<1> DEFINE A == /\ Restore => iff1' = Top.sections[Len(Top.sections)].was
                /\ LoadEnd => iff1' = Top.was
<1>1. FlagInv /\ [Next]_vars => [A]_vars
  <2> SUFFICES ASSUME FlagInv PROVE A
    OBVIOUS
  <2>1. ASSUME Restore PROVE iff1' = Top.sections[Len(Top.sections)].was
    <3> DEFINE n == Len(Top.sections)
    <3>1. Top.at = "code" /\ Top.sections # <<>> /\ Top.who # "nmi"
      BY <2>1, TopFacts DEF Restore, Placed
    <3>2. /\ n \in 1 .. n
          /\ Top.sections[n].on \in BOOLEAN /\ Top.sections[n].was \in BOOLEAN
      <4>1. Top.sections \in Seq(Section)
        BY TopFacts DEF Activations
      <4>2. n \in Nat \ {0}
        BY <3>1, <4>1, EmptySeq, LenProperties
      <4>3. n \in 1 .. n
        BY <4>2
      <4>4. Top.sections[n] \in Section
        BY <4>1, <4>3, ElementOfSeq
      <4> QED BY <4>3, <4>4 DEF Section
    <3>3. Top.sections[n].on = Top.sections[n].was
      BY <3>2, TopFacts DEF Kept
    <3>4. ~iff1
      BY <3>1, TopFacts DEF Off, Masked
    <3>5. iff1 = FALSE
      BY <3>4 DEF FlagInv, TypeOK
    <3>6. iff1' = IF Top.sections[n].on THEN TRUE ELSE iff1
      BY <2>1 DEF Restore, EiIf, Ei, Neither
    <3> QED BY <3>2, <3>3, <3>5, <3>6
  <2>2. ASSUME LoadEnd PROVE iff1' = Top.was
    <3>1. Top.at = "end" /\ Top.op = "load" /\ Top.who # "nmi"
      BY <2>2, TopFacts DEF LoadEnd, Placed
    <3>2. Top.pv \in BOOLEAN /\ Top.was \in BOOLEAN /\ Top.pv = Top.was
      BY <3>1, TopFacts DEF Kept, Activations
    <3>3. ~iff1
      BY <3>1, TopFacts DEF Off, Masked, Touching
    <3>4. iff1 = FALSE
      BY <3>3 DEF FlagInv, TypeOK
    <3>5. iff1' = IF Top.pv THEN TRUE ELSE iff1
      BY <2>2 DEF LoadEnd, EiIf, Ei, Neither
    <3> QED BY <3>2, <3>4, <3>5
  <2> QED BY <2>1, <2>2
<1> QED BY <1>1, FlagInvariant, PTL DEF Spec, StateRestored

-----------------------------------------------------------------------------
(* The counter.                                                             *)

\* The two bytes of n + 1 are worth n + 1, but for the carry out of the word.
LEMMA BytesOfNext ==
  ASSUME NEW n \in Word
  PROVE  Low(n + 1) + Base * High(n + 1) = (n + 1) % (Base * Base)
<1> DEFINE b == Base
           r == n + 1
           q == r \div b
           s == r % b
<1>1. b \in Nat /\ b >= 1 /\ b * b \in Nat /\ r \in Nat /\ r >= 1 /\ r <= b * b
  BY WordFacts DEF Word
<1> HIDE DEF b, r
<1>2. q \in Nat /\ s \in Nat /\ s < b /\ r = b * q + s
  BY <1>1
<1> HIDE DEF q, s
<1>3. CASE r < b * b
  <2>1. q < b
    <3>1. SUFFICES ASSUME q >= b PROVE FALSE
      BY <1>1, <1>2
    <3>2. b * q >= b * b
      BY <1>1, <1>2, <3>1
    <3>3. b * q \in Nat
      BY <1>1, <1>2
    <3> QED BY <1>1, <1>2, <1>3, <3>2, <3>3
  <2>2. q % b = q
    BY <1>1, <1>2, <2>1
  <2>3. r % (b * b) = r
    <3> DEFINE w == b * b
    <3>1. w \in Nat /\ r < w
      BY <1>1, <1>3
    <3> HIDE DEF w
    <3>2. r % w = r
      BY <1>1, <3>1
    <3> QED BY <3>2 DEF w
  <2> QED BY <1>1, <1>2, <2>2, <2>3 DEF Low, High, b, r, q, s
<1>4. CASE r = b * b
  <2>1. q = b /\ s = 0
    <3>1. b * (b - q) = s
      BY <1>1, <1>2, <1>4
    <3>2. b - q \in Int
      BY <1>1, <1>2
    <3>3. ~(b - q >= 1)
      <4>1. SUFFICES ASSUME b - q >= 1 PROVE FALSE
        OBVIOUS
      <4>2. b * (b - q) >= b
        BY <1>1, <3>2, <4>1
      <4> QED BY <1>1, <1>2, <3>1, <4>2
    <3>4. ~(b - q <= 0 - 1)
      <4>1. SUFFICES ASSUME b - q <= 0 - 1 PROVE FALSE
        OBVIOUS
      <4>2. b * (b - q) <= 0 - b
        BY <1>1, <3>2, <4>1
      <4> QED BY <1>1, <1>2, <3>1, <4>2
    <3>5. b - q = 0
      BY <3>2, <3>3, <3>4
    <3>6. b * (b - q) = 0
      BY <1>1, <3>5
    <3> QED BY <1>1, <1>2, <3>1, <3>5, <3>6
  <2>2. q % b = 0
    BY <1>1, <2>1
  <2>3. r % (b * b) = 0
    <3> DEFINE w == b * b
    <3>1. w \in Nat /\ w >= 1 /\ r = w
      BY <1>1, <1>4
    <3> HIDE DEF w
    <3>2. r % w = 0
      BY <3>1
    <3> QED BY <3>2 DEF w
  <2>4. b * 0 = 0
    BY <1>1
  <2> QED BY <1>1, <2>1, <2>2, <2>3, <2>4 DEF Low, High, b, r, q, s
<1> QED BY <1>1, <1>3, <1>4

\* One activation at a time is between a load and a store.
LEMMA OneTouches ==
  ASSUME FlagInv, NEW k \in 1 .. Len(stack), NEW l \in 1 .. Len(stack), k # l,
         stack[k].at \in Touching
  PROVE  stack[l].at \notin Touching
<1>1. \A i, j \in 1 .. Len(stack) :
        i < j /\ stack[i].at \in Touching => stack[j].at = "code"
  <2> SUFFICES ASSUME NEW i \in 1 .. Len(stack), NEW j \in 1 .. Len(stack), i < j,
                      stack[i].at \in Touching
               PROVE  stack[j].at = "code"
    OBVIOUS
  <2>1. stack[j].who = "nmi"
    BY DEF FlagInv, Flags, Off, Masked
  <2> QED BY <2>1 DEF FlagInv, Placed
<1>2. k < l \/ l < k
  OBVIOUS
<1> QED BY <1>1, <1>2 DEF Touching

Holding == {"get_hi", "put_lo", "put_hi", "end"}

\* A step that leaves the counter alone, and each activation that holds bytes.
LEMMA DataKept ==
  ASSUME FlagInv, DataInv, mem' = mem, sum' = sum, Len(stack') \in Nat,
         \A k \in 1 .. Len(stack') :
           \/ k \in 1 .. Len(stack) /\ stack'[k] = stack[k]
           \/ stack'[k].at \notin Holding,
         \A k \in 1 .. Len(stack) :
           stack[k].at = "put_hi" => k \in 1 .. Len(stack') /\ stack'[k] = stack[k]
  PROVE  DataInv'
<1>1. NoLostUpdate'
  BY DEF DataInv, NoLostUpdate
<1>2. ASSUME NEW k \in 1 .. Len(stack') PROVE Loaded(stack[k])'
  <2>1. CASE k \in 1 .. Len(stack) /\ stack'[k] = stack[k]
    <3>1. Loaded(stack[k])
      BY <2>1 DEF DataInv
    <3> QED BY <2>1, <3>1 DEF Loaded
  <2>2. CASE stack'[k].at \notin Holding
    BY <2>2 DEF Loaded, Holds, Holding
  <2> QED BY <1>2, <2>1, <2>2
<1> QED BY <1>1, <1>2 DEF DataInv

LEMMA DataBecomes ==
  ASSUME FlagInv, DataInv, mem' = mem, sum' = sum,
         NEW a \in Activations, Becomes(a),
         a.at \notin Holding, Top.at # "put_hi"
  PROVE  DataInv'
<1>1. Len(stack) \in Nat \ {0}
  BY StackFacts DEF FlagInv
<1>2. /\ Len(stack') = Len(stack)
      /\ stack'[Len(stack)] = a
      /\ \A k \in 1 .. Len(stack) - 1 : stack'[k] = stack[k]
  BY BecomesFacts DEF FlagInv
<1>3. \A k \in 1 .. Len(stack) : k = Len(stack) \/ k \in 1 .. Len(stack) - 1
  BY <1>1
<1>4. \A k \in 1 .. Len(stack') :
        \/ k \in 1 .. Len(stack) /\ stack'[k] = stack[k]
        \/ stack'[k].at \notin Holding
  BY <1>2, <1>3
<1>5. \A k \in 1 .. Len(stack) :
        stack[k].at = "put_hi" => k \in 1 .. Len(stack') /\ stack'[k] = stack[k]
  BY <1>2, <1>3 DEF Top
<1> QED BY <1>1, <1>2, <1>4, <1>5, DataKept

\* The instructions that neither load nor store.
LEMMA OthersData ==
  ASSUME FlagInv, DataInv, Sections \/ Loads \/ Adds \/ EntryEi \/ EpilogueEi
  PROVE  DataInv'
<1>1. mem' = mem /\ sum' = sum
  BY DEF Sections, Loads, Adds, EntryEi, EpilogueEi, ReadState, Save, Restore, LoadDi,
     LoadEnd, AtomicDi, PlainAdd, AtomicEnd, data
<1>2. iff1 \in BOOLEAN /\ iff2 \in BOOLEAN /\ Top \in Activations
  BY TopFacts DEF FlagInv, TypeOK
<1>3. Top.sections \in Seq(Section)
  BY <1>2 DEF Activations
<1>4. ASSUME NEW op \in {"section", "load"}, ReadState(op) PROVE DataInv'
  <2> DEFINE a == [Top EXCEPT !.at = "di", !.op = op, !.pv = iff2, !.was = iff1]
  <2>1. a \in Activations /\ a.at = "di"
    BY <1>2 DEF Activations, Ats
  <2>2. Becomes(a) /\ Top.at = "code"
    BY <1>4 DEF ReadState, Code
  <2> HIDE DEF a
  <2> QED BY <1>1, <2>1, <2>2, DataBecomes DEF Holding
<1>5. CASE Save
  <2> DEFINE sec == [on |-> Top.pv, was |-> Top.was]
             a == [Top EXCEPT !.at = "code", !.op = "none",
                              !.sections = Append(@, sec)]
  <2>1. Append(Top.sections, sec) \in Seq(Section)
    <3>1. sec \in Section
      BY <1>2 DEF Activations, Section
    <3> QED BY <1>3, <3>1, AppendProperties
  <2>2. a \in Activations /\ a.at = "code"
    BY <1>2, <2>1 DEF Activations, Ats
  <2>3. Becomes(a) /\ Top.at = "di"
    BY <1>5 DEF Save
  <2> HIDE DEF a
  <2> QED BY <1>1, <2>2, <2>3, DataBecomes DEF Holding
<1>6. CASE Restore
  <2> DEFINE a == [Top EXCEPT !.sections = Below(@)]
  <2>1. Below(Top.sections) \in Seq(Section)
    BY <1>3, <1>6, BelowFacts DEF Restore
  <2>2. Becomes(a) /\ Top.at = "code"
    BY <1>6 DEF Restore
  <2>3. a \in Activations /\ a.at = "code"
    BY <1>2, <2>1, <2>2 DEF Activations, Ats
  <2> HIDE DEF a
  <2> QED BY <1>1, <2>2, <2>3, DataBecomes DEF Holding
<1>7. CASE LoadDi
  <2> DEFINE a == [Top EXCEPT !.at = "get_lo"]
  <2>1. a \in Activations /\ a.at = "get_lo"
    BY <1>2 DEF Activations, Ats
  <2>2. Becomes(a) /\ Top.at = "di"
    BY <1>7 DEF LoadDi
  <2> HIDE DEF a
  <2> QED BY <1>1, <2>1, <2>2, DataBecomes DEF Holding
<1>8. CASE LoadEnd \/ AtomicEnd
  <2> DEFINE a == [Top EXCEPT !.at = "code", !.op = "none"]
  <2>1. a \in Activations /\ a.at = "code"
    BY <1>2 DEF Activations, Ats
  <2>2. Becomes(a) /\ Top.at = "end"
    BY <1>8 DEF LoadEnd, AtomicEnd
  <2> HIDE DEF a
  <2> QED BY <1>1, <2>1, <2>2, DataBecomes DEF Holding
<1>9. CASE AtomicDi \/ PlainAdd
  <2>1. PICK op \in {"atomic", "plain"} :
          Becomes([Top EXCEPT !.at = "get_lo", !.op = op]) /\ Top.at = "code"
    BY <1>9 DEF AtomicDi, PlainAdd, Code
  <2> DEFINE a == [Top EXCEPT !.at = "get_lo", !.op = op]
  <2>2. a \in Activations /\ a.at = "get_lo"
    BY <1>2 DEF Activations, Ats
  <2> HIDE DEF a
  <2> QED BY <1>1, <2>1, <2>2, DataBecomes DEF Holding, a
<1>10. CASE EntryEi
  <2> DEFINE a == [Top EXCEPT !.at = "code"]
  <2>1. a \in Activations /\ a.at = "code"
    BY <1>2 DEF Activations, Ats
  <2>2. Becomes(a) /\ Top.at = "entry"
    BY <1>10 DEF EntryEi
  <2> HIDE DEF a
  <2> QED BY <1>1, <2>1, <2>2, DataBecomes DEF Holding
<1>11. CASE EpilogueEi
  <2> DEFINE a == [Top EXCEPT !.at = "reti"]
  <2>1. a \in Activations /\ a.at = "reti"
    BY <1>2 DEF Activations, Ats
  <2>2. Becomes(a) /\ Top.at = "code"
    BY <1>11 DEF EpilogueEi, AtEpilogue
  <2> HIDE DEF a
  <2> QED BY <1>1, <2>1, <2>2, DataBecomes DEF Holding
<1> QED BY <1>4, <1>5, <1>6, <1>7, <1>8, <1>9, <1>10, <1>11 DEF Sections, Loads, Adds

\* The loads and the stores, by the one activation that is between them.
LEMMA BytesData ==
  ASSUME FlagInv, DataInv, Bytes
  PROVE  DataInv'
<1> DEFINE n == Len(stack)
<1>1. /\ n \in Nat \ {0} /\ n \in 1 .. n /\ Top = stack[n]
      /\ Top \in Activations /\ Loaded(Top)
      /\ Top.e \in Byte /\ Top.d \in Byte
      /\ mem \in [lo : Byte, hi : Byte] /\ sum \in Word
  BY StackFacts DEF FlagInv, TypeOK, DataInv, Top, Activations
<1>2. Top.at \in Touching
  BY DEF Bytes, GetLow, GetHigh, PutLow, PutHigh, Touching
<1>3. \A k \in 1 .. n : k = n \/ (k \in 1 .. n - 1 /\ k # n)
  BY <1>1
<1>4. \A k \in 1 .. n - 1 : stack[k].at \notin Touching /\ k \in 1 .. n /\ k # n
  <2> SUFFICES ASSUME NEW k \in 1 .. n - 1
               PROVE  stack[k].at \notin Touching /\ k \in 1 .. n /\ k # n
    OBVIOUS
  <2>1. k \in 1 .. n /\ k # n
    BY <1>1
  <2> QED BY <1>1, <1>2, <2>1, OneTouches
\* the other activations hold nothing
<1>5. ASSUME NEW a \in Activations, Becomes(a), Holds(a, mem', sum'), NoLostUpdate'
      PROVE  DataInv'
  <2>1. /\ Len(stack') = n /\ stack'[n] = a
        /\ \A k \in 1 .. n - 1 : stack'[k] = stack[k]
    BY <1>5, BecomesFacts DEF FlagInv
  <2>2. ASSUME NEW k \in 1 .. Len(stack') PROVE Loaded(stack[k])'
    <3>1. CASE k = n
      BY <1>5, <2>1, <3>1 DEF Loaded, Holds
    <3>2. CASE k \in 1 .. n - 1
      <4>1. stack'[k].at \notin Touching
        BY <1>4, <2>1, <3>2
      <4> QED BY <4>1 DEF Loaded, Holds, Touching
    <3> QED BY <1>3, <2>1, <2>2, <3>1, <3>2
  <2> QED BY <1>5, <2>2 DEF DataInv
<1>6. Top.at # "put_hi" => mem.lo + Base * mem.hi = sum
  <2>1. ASSUME Top.at # "put_hi", NEW k \in 1 .. n PROVE stack[k].at # "put_hi"
    BY <1>1, <1>3, <1>4, <2>1 DEF Touching
  <2> QED BY <2>1 DEF DataInv, NoLostUpdate
<1>7. CASE GetLow
  <2> DEFINE a == [Top EXCEPT !.at = "get_hi", !.e = mem.lo]
  <2>1. a \in Activations /\ a.at = "get_hi" /\ a.e = mem.lo
    BY <1>1 DEF Activations, Ats
  <2>2. Becomes(a) /\ mem' = mem /\ sum' = sum /\ Top.at = "get_lo"
    BY <1>7 DEF GetLow, data
  <2>3. NoLostUpdate'
    BY <1>6, <2>2 DEF NoLostUpdate
  <2> HIDE DEF a
  <2>4. Holds(a, mem', sum')
    BY <2>1, <2>2 DEF Loaded, Holds
  <2> QED BY <1>5, <2>1, <2>2, <2>3, <2>4
<1>8. CASE GetHigh
  <2> DEFINE a == [Top EXCEPT !.at = IF Top.op = "load" THEN "end" ELSE "put_lo",
                              !.d = mem.hi]
  <2>1. /\ a \in Activations /\ a.at \in {"end", "put_lo"}
        /\ a.e = Top.e /\ a.d = mem.hi
    BY <1>1 DEF Activations, Ats
  <2>2. Becomes(a) /\ mem' = mem /\ sum' = sum /\ Top.at = "get_hi"
    BY <1>8 DEF GetHigh, data
  <2>3. NoLostUpdate'
    BY <1>6, <2>2 DEF NoLostUpdate
  <2> HIDE DEF a
  <2>4. Holds(a, mem', sum')
    BY <1>1, <2>1, <2>2 DEF Loaded, Holds
  <2> QED BY <1>5, <2>1, <2>2, <2>3, <2>4
<1>9. CASE PutLow
  <2> DEFINE a == [Top EXCEPT !.at = "put_hi"]
  <2>1. a \in Activations /\ a.at = "put_hi" /\ a.e = Top.e /\ a.d = Top.d
    BY <1>1 DEF Activations, Ats
  <2>2. /\ Becomes(a) /\ mem' = [mem EXCEPT !.lo = Low(Result)] /\ sum' = sum
        /\ Top.at = "put_lo"
    BY <1>9 DEF PutLow
  <2> HIDE DEF a
  <2>3. Holds(a, mem', sum')
    <3>1. Top.e = mem.lo /\ Top.d = mem.hi /\ mem.lo + Base * mem.hi = sum
      BY <1>1, <1>6, <2>2 DEF Loaded, Holds
    <3>2. mem'.lo = Low(Result) /\ mem'.hi = mem.hi
      BY <1>1, <2>2
    <3> QED BY <2>1, <2>2, <3>1, <3>2 DEF Loaded, Holds, Result
  <2>4. NoLostUpdate'
    <3>1. Len(stack') = n /\ stack'[n] = a
      BY <2>1, <2>2, BecomesFacts DEF FlagInv
    <3> HIDE DEF n
    <3> QED BY <1>1, <2>1, <3>1 DEF NoLostUpdate
  <2> QED BY <1>5, <2>1, <2>2, <2>3, <2>4
<1>10. CASE PutHigh
  <2> DEFINE a == [Top EXCEPT !.at = IF Top.op = "atomic" THEN "end" ELSE "code",
                              !.op = IF Top.op = "atomic" THEN "atomic" ELSE "none"]
  <2>1. a \in Activations /\ a.at \in {"end", "code"} /\ a.op \in {"atomic", "none"}
    BY <1>1 DEF Activations, Ats
  <2>2. /\ Becomes(a) /\ mem' = [mem EXCEPT !.hi = High(Result)]
        /\ sum' = (sum + 1) % (Base * Base) /\ Top.at = "put_hi"
    BY <1>10 DEF PutHigh
  <2> HIDE DEF a
  <2>3. Holds(a, mem', sum')
    BY <2>1 DEF Loaded, Holds
  <2>4. NoLostUpdate'
    <3>1. Result = sum + 1 /\ mem.lo = Low(Result)
      BY <1>1, <2>2 DEF Loaded, Holds, Result
    <3>2. mem'.lo = Low(sum + 1) /\ mem'.hi = High(sum + 1)
      BY <1>1, <2>2, <3>1
    <3>3. Low(sum + 1) + Base * High(sum + 1) = (sum + 1) % (Base * Base)
      BY <1>1, BytesOfNext
    <3> QED BY <2>2, <3>2, <3>3 DEF NoLostUpdate
  <2> QED BY <1>5, <2>1, <2>2, <2>3, <2>4
<1> QED BY <1>7, <1>8, <1>9, <1>10 DEF Bytes

\* An interrupt comes and goes without a byte in its registers.
LEMMA StackData ==
  ASSUME FlagInv, DataInv, AcceptInt \/ AcceptNmi \/ Reti \/ Retn
  PROVE  DataInv'
<1> DEFINE n == Len(stack)
<1>1. mem' = mem /\ sum' = sum
  BY DEF AcceptInt, AcceptNmi, Reti, Retn, Push, Pop, data
<1>2. stack \in Seq(Activations) /\ stack # <<>> /\ n \in Nat \ {0}
  BY StackFacts DEF FlagInv, TypeOK
<1>3. CASE AcceptInt \/ AcceptNmi
  <2>1. PICK who \in {"int", "nmi"}, at \in {"entry", "code"} :
          stack' = Append(stack, Activation(who, at))
    BY <1>3 DEF AcceptInt, AcceptNmi, Push
  <2> DEFINE a == Activation(who, at)
  <2>2. a \in Activations /\ a.at \in {"entry", "code"}
    BY WordFacts DEF Activation, Activations, Ats
  <2> HIDE DEF a
  <2>3. /\ Len(stack') = n + 1 /\ stack'[n + 1] = a
        /\ \A k \in 1 .. n : stack'[k] = stack[k]
    BY <1>2, <2>1, <2>2, AppendProperties DEF a
  <2>4. \A k \in 1 .. n + 1 : k = n + 1 \/ k \in 1 .. n
    BY <1>2
  <2>5. \A k \in 1 .. n : k \in 1 .. n + 1
    BY <1>2
  <2>6. Len(stack') \in Nat
    BY <1>2, <2>3
  <2>7. \A k \in 1 .. Len(stack') :
          \/ k \in 1 .. Len(stack) /\ stack'[k] = stack[k]
          \/ stack'[k].at \notin Holding
    BY <2>2, <2>3, <2>4 DEF Holding
  <2>8. \A k \in 1 .. Len(stack) :
          stack[k].at = "put_hi" => k \in 1 .. Len(stack') /\ stack'[k] = stack[k]
    BY <2>3, <2>5
  <2> QED BY <1>1, <2>6, <2>7, <2>8, DataKept
<1>4. CASE Reti \/ Retn
  <2>1. stack' = Below(stack) /\ Top.at # "put_hi"
    BY <1>4 DEF Reti, Retn, Pop, AtEpilogue
  <2>2. Len(stack') = n - 1 /\ \A k \in 1 .. n - 1 : stack'[k] = stack[k]
    BY <1>2, <2>1, BelowFacts
  <2>3. \A k \in 1 .. n : k = n \/ k \in 1 .. n - 1
    BY <1>2
  <2>4. \A k \in 1 .. n - 1 : k \in 1 .. n
    BY <1>2
  <2>5. Len(stack') \in Nat
    BY <1>2, <2>2
  <2>6. \A k \in 1 .. Len(stack') : k \in 1 .. Len(stack) /\ stack'[k] = stack[k]
    BY <2>2, <2>4
  <2>7. \A k \in 1 .. Len(stack) :
          stack[k].at = "put_hi" => k \in 1 .. Len(stack') /\ stack'[k] = stack[k]
    BY <2>1, <2>2, <2>3 DEF Top
  <2> QED BY <1>1, <2>5, <2>6, <2>7, DataKept
<1> QED BY <1>3, <1>4

LEMMA InitData == Init => DataInv
<1> SUFFICES ASSUME Init PROVE DataInv
  OBVIOUS
<1>1. /\ Len(stack) = 1 /\ stack[1].at = "code" /\ mem.lo = 0 /\ mem.hi = 0 /\ sum = 0
  BY DEF Init, Activation
<1>2. Base * 0 = 0
  BY WordFacts
<1>3. \A k \in 1 .. Len(stack) : k = 1
  BY <1>1
<1> QED BY <1>1, <1>2, <1>3 DEF DataInv, NoLostUpdate, Loaded, Holds

LEMMA NextData == FlagInv /\ DataInv /\ [Next]_vars => DataInv'
<1> SUFFICES ASSUME FlagInv, DataInv, [Next]_vars
             PROVE  DataInv'
  OBVIOUS
<1>1. CASE Enable \/ Disable \/ Work \/ UNCHANGED vars
  <2>1. UNCHANGED <<stack, mem, sum>>
    BY <1>1 DEF Enable, Disable, Work, vars, data
  <2> QED BY <2>1 DEF DataInv, NoLostUpdate, Loaded, Holds
<1>2. CASE Sections \/ Loads \/ Adds \/ EntryEi \/ EpilogueEi
  BY <1>2, OthersData
<1>3. CASE Bytes
  BY <1>3, BytesData
<1>4. CASE AcceptInt \/ AcceptNmi \/ Reti \/ Retn
  BY <1>4, StackData
<1> QED BY <1>1, <1>2, <1>3, <1>4 DEF Next, Handlers

LEMMA DataInvariant ==
  ASSUME Disciplined
  PROVE  Spec => [](FlagInv /\ DataInv)
<1>1. Init => FlagInv /\ DataInv
  BY InitFlags, InitData
<1>2. FlagInv /\ DataInv /\ [Next]_vars => (FlagInv /\ DataInv)'
  BY NextFlags, NextData
<1> QED BY <1>1, <1>2, PTL DEF Spec

\* Atomic operations, and plain ones where interrupts are off, lose no addition,
\* carries included.
THEOREM NothingLost ==
  ASSUME Disciplined
  PROVE  Spec => []NoLostUpdate
<1>1. FlagInv /\ DataInv => NoLostUpdate
  BY DEF DataInv
<1> QED BY <1>1, DataInvariant, PTL

\* z80_load16 returns two bytes of one value.
THEOREM LoadsWhole ==
  ASSUME Disciplined
  PROVE  Spec => []NotTorn
<1>1. FlagInv /\ DataInv => NotTorn
  <2> SUFFICES ASSUME FlagInv, DataInv, NEW k \in 1 .. Len(stack),
                      stack[k].at = "end", stack[k].op = "load"
               PROVE  stack[k].e + Base * stack[k].d = sum
    BY DEF NotTorn
  <2>1. stack[k].e = mem.lo /\ stack[k].d = mem.hi
    BY DEF DataInv, Loaded, Holds
  <2>2. \A l \in 1 .. Len(stack) : stack[l].at # "put_hi"
    <3> SUFFICES ASSUME NEW l \in 1 .. Len(stack), stack[l].at = "put_hi"
                 PROVE  FALSE
      OBVIOUS
    <3>1. k # l
      OBVIOUS
    <3> QED BY <3>1, OneTouches DEF Touching
  <2> QED BY <2>1, <2>2 DEF DataInv, NoLostUpdate
<1> QED BY <1>1, DataInvariant, PTL
=========================================================================
