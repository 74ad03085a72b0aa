--------------------------- MODULE StreamProofs ---------------------------
(***************************************************************************)
(* Theorems about Stream.                                                  *)
(*                                                                         *)
(* A call composes operators on a FILE f and the records d of the disk, so *)
(* the lemmas are about f and d: what each operator keeps of their types,  *)
(* of the agreement of buffer and record, and of the shape of the data.    *)
(***************************************************************************)
EXTENDS Stream, FiniteSetTheorems, SequenceTheorems, TLAPS

-----------------------------------------------------------------------------
(* Minima, maxima and arithmetic.                                           *)

\* Every set of natural numbers with a member has a least one.
LEMMA LeastNat ==
  ASSUME NEW S \in SUBSET Nat, S # {}
  PROVE  Min(S) \in S /\ \A x \in S : Min(S) <= x
<1>1. PICK m \in S : \A y \in S : ~(<<y, m>> \in OpToRel(<, Nat))
  BY NatLessThanWellFounded, WFMin
<1>2. \A y \in S : m <= y
  <2> SUFFICES ASSUME NEW y \in S, y < m PROVE FALSE
    OBVIOUS
  <2> QED BY <1>1 DEF OpToRel
<1> QED BY <1>2 DEF Min

\* One that is bounded has a greatest one.
LEMMA GreatestNat ==
  ASSUME NEW n \in Nat, NEW S \in SUBSET (0 .. n), S # {}
  PROVE  Max(S) \in S /\ \A x \in S : x <= Max(S)
<1> DEFINE T == {n - x : x \in S}
<1>1. T \in SUBSET Nat /\ T # {}
  <2>1. \A x \in S : n - x \in Nat
    OBVIOUS
  <2>2. PICK x \in S : TRUE
    OBVIOUS
  <2>3. n - x \in T
    OBVIOUS
  <2> QED BY <2>1, <2>3
<1>2. Min(T) \in T /\ \A x \in T : Min(T) <= x
  BY <1>1, LeastNat
<1>3. PICK m \in S : Min(T) = n - m
  BY <1>2
<1>4. \A x \in S : x <= m
  <2> SUFFICES ASSUME NEW x \in S PROVE x <= m
    OBVIOUS
  <2>1. n - m <= n - x
    BY <1>2, <1>3
  <2> QED BY <2>1
<1> QED BY <1>4 DEF Max

LEMMA Sizes ==
  /\ RecSize \in Nat /\ 1 <= RecSize /\ RecSize <= 128
  /\ RecNos \in Nat /\ 1 <= RecNos /\ Capacity \in Nat /\ 1 <= Capacity /\ Capacity <= RecNos
  /\ MaxOffset \in Nat /\ Limit \in Nat /\ CtrlZ \in 0 .. 255 /\ 0 \in 0 .. 255
  /\ Modes \subseteq {"r", "w", "a", "r+", "w+", "a+"}
  /\ Chars \subseteq 0 .. 255 /\ Backs \subseteq 0 .. 255 /\ None \in 0 .. 255
  /\ CtrlZ \notin Chars
  BY StreamAssumption DEF CtrlZ, None

\* Record numbers count modulo RecNos, and PrevNo undoes NextNo.
LEMMA NextPrev ==
  ASSUME NEW r \in 0 .. RecNos - 1
  PROVE  /\ NextNo(r) \in 0 .. RecNos - 1 /\ PrevNo(r) \in 0 .. RecNos - 1
         /\ PrevNo(NextNo(r)) = r
         /\ NextNo(r) = IF r = RecNos - 1 THEN 0 ELSE r + 1
         /\ PrevNo(r) = IF r = 0 THEN RecNos - 1 ELSE r - 1
<1> SUFFICES ASSUME NEW n, n = RecNos PROVE
         /\ (r + 1) % n \in 0 .. n - 1 /\ (r - 1) % n \in 0 .. n - 1
         /\ (((r + 1) % n) - 1) % n = r
         /\ (r + 1) % n = IF r = n - 1 THEN 0 ELSE r + 1
         /\ (r - 1) % n = IF r = 0 THEN n - 1 ELSE r - 1
  BY DEF NextNo, PrevNo
<1>1. n \in Nat /\ n >= 1 /\ r \in Nat /\ r < n
  BY Sizes
<1>2. \A x \in 0 .. n - 1 : x % n = x
  BY <1>1
<1>3. n % n = 0 /\ (-1) % n = n - 1
  BY <1>1
<1>4. (r + 1) % n = IF r = n - 1 THEN 0 ELSE r + 1
  BY <1>1, <1>2, <1>3
<1>5. (r - 1) % n = IF r = 0 THEN n - 1 ELSE r - 1
  BY <1>1, <1>2, <1>3
<1> QED BY <1>1, <1>2, <1>3, <1>4, <1>5

\* The record of a position, and the offset in it.
RecOf(to) == to \div RecSize
OffOf(to) == to % RecSize

\* A position the code accepts divides into a record number and an offset.
LEMMA Divided ==
  ASSUME NEW to \in 0 .. MaxOffset
  PROVE  RecOf(to) \in 0 .. RecNos - 1 /\ OffOf(to) \in Offs /\ OffOf(to) \in 0 .. RecSize - 1
<1> SUFFICES ASSUME NEW n, n = RecSize, NEW k, k = RecNos
             PROVE  to \div n \in 0 .. k - 1 /\ to % n \in 0 .. n - 1
  BY DEF Offs, RecOf, OffOf
<1>1. n \in Nat /\ 1 <= n /\ n <= 128 /\ k \in Nat /\ to \in Nat /\ to < n * k
  BY StreamAssumption, Sizes
<1>2. to \div n \in Nat /\ to % n \in 0 .. n - 1 /\ to = n * (to \div n) + (to % n)
  BY <1>1
<1>3. to \div n < k
  <2> SUFFICES ASSUME NEW q \in Nat, q = to \div n, q >= k PROVE FALSE
    BY <1>1, <1>2
  <2>1. n * q >= n * k
    BY <1>1
  <2> QED BY <1>1, <1>2, <2>1
<1> QED BY <1>1, <1>2, <1>3

-----------------------------------------------------------------------------
(* Types, and what each operator does to the fields of a FILE.             *)

Record == [Offs -> 0 .. 255]
FileType == [flags : SUBSET Flags, unget : 0 .. 255, bufpos : 0 .. RecSize,
             bufcnt : 0 .. RecSize, moved : BOOLEAN, recno : 0 .. RecNos - 1,
             buf : Record]
DiskOK(d) ==
  /\ DOMAIN d \subseteq 0 .. RecNos - 1 /\ Cardinality(DOMAIN d) <= Capacity
  /\ \A r \in DOMAIN d : d[r] \in Record

\* What fopen decides and no other call changes.
SameMode(g, f) ==
  \A x \in {"open", "canRead", "canWrite", "append"} : Is(g, x) <=> Is(f, x)

LEMMA PaddedFacts ==
  ASSUME NEW f \in FileType
  PROVE  /\ Valid(f) \in 0 .. RecSize /\ f.bufpos <= Valid(f) /\ f.bufcnt <= Valid(f)
         /\ f.bufpos <= f.bufcnt => Valid(f) = f.bufcnt
         /\ Padded(f) \in Record
         /\ \A i \in Offs : Padded(f)[i] = IF i < Valid(f) THEN f.buf[i] ELSE CtrlZ
         /\ Valid(f) = RecSize => Padded(f) = f.buf
<1>1. f.bufpos \in 0 .. RecSize /\ f.bufcnt \in 0 .. RecSize /\ f.buf \in [Offs -> 0 .. 255]
  BY DEF FileType, Record
<1>2. /\ Valid(f) \in 0 .. RecSize /\ f.bufpos <= Valid(f) /\ f.bufcnt <= Valid(f)
      /\ f.bufpos <= f.bufcnt => Valid(f) = f.bufcnt
  BY <1>1, Sizes DEF Valid
<1>3. Padded(f) = [i \in Offs |-> IF i < Valid(f) THEN f.buf[i] ELSE CtrlZ]
  BY DEF Padded
<1>4. Padded(f) \in Record
  BY <1>1, <1>3, Sizes DEF Record
<1>5. Valid(f) = RecSize => Padded(f) = f.buf
  BY <1>1, <1>3, Sizes DEF Offs
<1> QED BY <1>2, <1>3, <1>4, <1>5

LEMMA FullBuffer ==
  ASSUME NEW f \in FileType, f.bufcnt = RecSize
  PROVE  Padded(f) = f.buf
<1>1. Valid(f) \in 0 .. RecSize /\ f.bufcnt <= Valid(f)
  BY PaddedFacts
<1>2. Valid(f) = RecSize
  BY <1>1, Sizes
<1> QED BY <1>2, PaddedFacts

\* The count of the records is one more than the last of them, unless the file
\* has no record or all of them.
LEMMA LastRecord ==
  ASSUME NEW d, DiskOK(d)
  PROVE  /\ NumRecs(d) \in 0 .. RecNos - 1
         /\ DOMAIN d = {} => NumRecs(d) = 0
         /\ NumRecs(d) # 0 =>
              /\ NumRecs(d) - 1 \in DOMAIN d /\ d[NumRecs(d) - 1] \in Record
              /\ \A r \in DOMAIN d : r <= NumRecs(d) - 1
         /\ \A m \in DOMAIN d : (\A r \in DOMAIN d : r <= m) /\ m + 1 < RecNos
              => NumRecs(d) = m + 1
<1>1. RecNos \in Nat /\ 1 <= RecNos /\ RecNos - 1 \in Nat
  BY Sizes
<1>2. \A x \in 0 .. RecNos - 1 : x % RecNos = x
  BY <1>1
<1>3. RecNos % RecNos = 0
  BY <1>1
<1>4. CASE DOMAIN d = {}
  BY <1>1, <1>2, <1>4 DEF NumRecs
<1>5. CASE DOMAIN d # {}
  <2> DEFINE m == Max(DOMAIN d)
  <2>1. m \in DOMAIN d /\ m \in 0 .. RecNos - 1 /\ \A x \in DOMAIN d : x <= m
    BY <1>1, <1>5, GreatestNat DEF DiskOK
  <2>2. NumRecs(d) = (m + 1) % RecNos
    BY <1>5 DEF NumRecs
  <2> HIDE DEF m
  <2>3. NumRecs(d) = IF m + 1 = RecNos THEN 0 ELSE m + 1
    BY <1>1, <1>2, <1>3, <2>1, <2>2
  <2>4. \A x \in DOMAIN d : (\A r \in DOMAIN d : r <= x) => x = m
    <3> SUFFICES ASSUME NEW x \in DOMAIN d, \A r \in DOMAIN d : r <= x PROVE x = m
      OBVIOUS
    <3>1. x <= m /\ m <= x /\ x \in 0 .. RecNos - 1
      BY <2>1 DEF DiskOK
    <3> QED BY <2>1, <3>1
  <2>5. NumRecs(d) \in 0 .. RecNos - 1
    BY <1>1, <2>1, <2>3
  <2>6. NumRecs(d) # 0 => NumRecs(d) - 1 = m
    BY <1>1, <2>1, <2>3
  <2>7. \A x \in DOMAIN d : (\A r \in DOMAIN d : r <= x) /\ x + 1 < RecNos => NumRecs(d) = x + 1
    BY <1>1, <2>1, <2>3, <2>4
  <2> QED BY <1>5, <2>1, <2>5, <2>6, <2>7 DEF DiskOK
<1> QED BY <1>4, <1>5

LEMMA DiskFinite ==
  ASSUME NEW d, DiskOK(d)
  PROVE  IsFiniteSet(DOMAIN d) /\ Cardinality(DOMAIN d) \in Nat
<1>1. 0 \in Int /\ RecNos - 1 \in Int
  BY Sizes
<1>2. IsFiniteSet(0 .. RecNos - 1)
  BY <1>1, FS_Interval
<1>3. DOMAIN d \subseteq 0 .. RecNos - 1
  BY DEF DiskOK
<1>4. IsFiniteSet(DOMAIN d)
  BY <1>2, <1>3, FS_Subset
<1> QED BY <1>4, FS_CardinalityType

\* One more record.
LEMMA AddRecord ==
  ASSUME NEW d, DiskOK(d), NEW r \in 0 .. RecNos - 1, NEW b \in Record, HasRoom(d, r)
  PROVE  DiskOK(Written(d, r, b))
<1> DEFINE e == Written(d, r, b)
<1>1. /\ DOMAIN e = DOMAIN d \cup {r} /\ e[r] = b
      /\ \A x \in DOMAIN d : x # r => e[x] = d[x]
  BY DEF Written
<1>2. Cardinality(DOMAIN d \cup {r}) <= Capacity
  <2>1. IsFiniteSet(DOMAIN d) /\ Cardinality(DOMAIN d) \in Nat /\ Capacity \in Nat
    BY DiskFinite, Sizes
  <2>2. Cardinality(DOMAIN d) <= Capacity
    BY DEF DiskOK
  <2>3. CASE r \in DOMAIN d
    <3>1. DOMAIN d \cup {r} = DOMAIN d
      BY <2>3
    <3> QED BY <3>1, <2>2
  <2>4. CASE r \notin DOMAIN d
    <3>1. Cardinality(DOMAIN d) < Capacity
      BY <2>4 DEF HasRoom
    <3>2. Cardinality(DOMAIN d \cup {r}) = Cardinality(DOMAIN d) + 1
      BY <2>1, <2>4, FS_AddElement
    <3> QED BY <2>1, <3>1, <3>2
  <2> QED BY <2>3, <2>4
<1> HIDE DEF e
<1>3. DiskOK(e)
  BY <1>1, <1>2 DEF DiskOK
<1> QED BY <1>3 DEF e

\* _fflush_internal: a flush changes no field but the buffer, which it pads,
\* and the flags "dirty" and "error"; a failed one leaves the disk.
LEMMA FlushFile ==
  ASSUME NEW f \in FileType, NEW d, NEW g, g = Flushed(f, d)
  PROVE  /\ g \in FileType
         /\ g.bufpos = f.bufpos /\ g.bufcnt = f.bufcnt /\ g.recno = f.recno
         /\ g.unget = f.unget /\ g.moved = f.moved
         /\ SameMode(g, f) /\ (Is(g, "writing") <=> Is(f, "writing"))
         /\ Is(g, "eof") <=> Is(f, "eof")
         /\ FlushFails(f, d) => Is(g, "dirty") /\ Is(g, "error")
         /\ ~FlushFails(f, d) => ~Is(g, "dirty") /\ (Is(g, "error") <=> Is(f, "error"))
         /\ Pending(f) => g.buf = Padded(f)
         /\ ~Pending(f) => g.buf = f.buf
         /\ Valid(g) = Valid(f) /\ Padded(g) = Padded(f)
<1> DEFINE h == IF Pending(f) THEN [f EXCEPT !.buf = Padded(f)] ELSE f
<1>1. Padded(f) \in Record
  BY PaddedFacts
<1>2. /\ h \in FileType /\ h.flags = f.flags
      /\ h.bufpos = f.bufpos /\ h.bufcnt = f.bufcnt /\ h.recno = f.recno
      /\ h.unget = f.unget /\ h.moved = f.moved
      /\ h.buf = IF Pending(f) THEN Padded(f) ELSE f.buf
  BY <1>1 DEF FileType
<1>3. g = IF FlushFails(f, d) THEN Raise(h, "error") ELSE Drop(h, "dirty")
  BY DEF Flushed
<1> HIDE DEF h
<1>4. /\ g \in FileType
      /\ g.bufpos = f.bufpos /\ g.bufcnt = f.bufcnt /\ g.recno = f.recno
      /\ g.unget = f.unget /\ g.moved = f.moved /\ g.buf = h.buf
      /\ g.flags = IF FlushFails(f, d) THEN f.flags \cup {"error"} ELSE f.flags \ {"dirty"}
  BY <1>2, <1>3 DEF FileType, Raise, Drop, Flags
<1>5. FlushFails(f, d) => Pending(f) /\ "dirty" \in f.flags
  BY DEF FlushFails, Pending, Is
<1>6. Valid(g) = Valid(f)
  BY <1>4 DEF Valid
<1>7. Padded(g) = Padded(f)
  <2>1. \A i \in Offs : i < Valid(f) => g.buf[i] = f.buf[i]
    BY <1>2, <1>4, PaddedFacts
  <2> QED BY <1>6, <2>1 DEF Padded
<1>8. /\ SameMode(g, f) /\ (Is(g, "writing") <=> Is(f, "writing"))
      /\ Is(g, "eof") <=> Is(f, "eof")
      /\ FlushFails(f, d) => Is(g, "dirty") /\ Is(g, "error")
      /\ ~FlushFails(f, d) => ~Is(g, "dirty") /\ (Is(g, "error") <=> Is(f, "error"))
  BY <1>4, <1>5 DEF SameMode, Is
<1> QED BY <1>2, <1>4, <1>6, <1>7, <1>8

LEMMA FlushDisk ==
  ASSUME NEW f \in FileType, NEW d, DiskOK(d), NEW e, e = FlushedDisk(f, d)
  PROVE  /\ DiskOK(e) /\ DOMAIN d \subseteq DOMAIN e
         /\ ~Pending(f) \/ FlushFails(f, d) => e = d
         /\ Pending(f) /\ ~FlushFails(f, d) =>
              /\ DOMAIN e = DOMAIN d \cup {f.recno} /\ e[f.recno] = Padded(f)
              /\ \A x \in DOMAIN d : x # f.recno => e[x] = d[x]
<1>1. Padded(f) \in Record /\ f.recno \in 0 .. RecNos - 1
  BY PaddedFacts DEF FileType
<1>2. CASE Pending(f) /\ ~FlushFails(f, d)
  <2>1. HasRoom(d, f.recno) /\ e = Written(d, f.recno, Padded(f))
    BY <1>2 DEF FlushedDisk, FlushFails
  <2>2. DiskOK(e)
    BY <1>1, <2>1, AddRecord
  <2>3. /\ DOMAIN e = DOMAIN d \cup {f.recno} /\ e[f.recno] = Padded(f)
        /\ \A x \in DOMAIN d : x # f.recno => e[x] = d[x]
    BY <2>1 DEF Written
  <2> QED BY <1>2, <2>2, <2>3
<1>3. CASE ~(Pending(f) /\ ~FlushFails(f, d))
  BY <1>3 DEF FlushedDisk, FlushFails
<1> QED BY <1>2, <1>3

\* _file_loadrec
LEMMA LoadFacts ==
  ASSUME NEW f \in FileType, NEW d, DiskOK(d)
  PROVE  LET g == LoadRec(f, d)
         IN /\ g \in FileType /\ g.flags = f.flags
            /\ g.bufpos = f.bufpos /\ g.recno = f.recno /\ g.unget = f.unget /\ g.moved = f.moved
            /\ f.recno \in DOMAIN d => g.buf = d[f.recno] /\ g.bufcnt = RecSize
            /\ f.recno \notin DOMAIN d => g.buf = f.buf /\ g.bufcnt = 0
<1>1. RecSize \in 0 .. RecSize /\ 0 \in 0 .. RecSize
  BY Sizes
<1>2. CASE f.recno \in DOMAIN d
  <2>1. d[f.recno] \in Record
    BY <1>2 DEF DiskOK
  <2> QED BY <1>1, <1>2, <2>1 DEF LoadRec, FileType
<1>3. CASE f.recno \notin DOMAIN d
  BY <1>1, <1>3 DEF LoadRec, FileType
<1> QED BY <1>2, <1>3

\* _file_nextrec
LEMMA NextRecFacts ==
  ASSUME NEW f \in FileType, NEW d, DiskOK(d), NEW g, g = NextRec(f, d)
  PROVE  LET loads == (Is(f, "canRead") \/ f.moved) /\ NextNo(f.recno) \in DOMAIN d
         IN /\ g \in FileType
            /\ g.flags = f.flags /\ g.unget = f.unget /\ g.moved = f.moved
            /\ g.recno = NextNo(f.recno) /\ g.bufpos = 0
            /\ loads => g.buf = d[g.recno] /\ g.bufcnt = RecSize
            /\ ~loads => g.buf = f.buf /\ g.bufcnt = 0
<1> DEFINE h == [f EXCEPT !.bufpos = 0, !.bufcnt = 0, !.recno = NextNo(@)]
<1>1. f.recno \in 0 .. RecNos - 1
  BY DEF FileType
<1>2. NextNo(f.recno) \in 0 .. RecNos - 1 /\ 0 \in 0 .. RecSize
  BY <1>1, NextPrev, Sizes
<1>3. /\ h \in FileType /\ h.flags = f.flags /\ h.unget = f.unget /\ h.moved = f.moved
      /\ h.recno = NextNo(f.recno) /\ h.bufpos = 0 /\ h.bufcnt = 0 /\ h.buf = f.buf
  BY <1>2 DEF FileType
<1>4. g = IF Is(h, "canRead") \/ h.moved THEN LoadRec(h, d) ELSE h
  BY DEF NextRec
<1> HIDE DEF h
<1> QED BY <1>3, <1>4, LoadFacts DEF Is

LEMMA FirstZFacts ==
  ASSUME NEW b \in Record
  PROVE  /\ FirstZ(b) \in 0 .. RecSize
         /\ \A i \in Offs : i < FirstZ(b) => b[i] # CtrlZ
         /\ FirstZ(b) < RecSize => b[FirstZ(b)] = CtrlZ
         /\ \A i \in Offs : b[i] = CtrlZ => FirstZ(b) <= i
<1> DEFINE S == {i \in Offs : b[i] = CtrlZ} \cup {RecSize}
<1>1. S \in SUBSET Nat /\ S # {} /\ S \subseteq 0 .. RecSize
  BY Sizes DEF Offs
<1>2. Min(S) \in S /\ \A x \in S : Min(S) <= x
  BY <1>1, LeastNat
<1>3. FirstZ(b) = Min(S)
  BY DEF FirstZ
<1> HIDE DEF S
<1>4. FirstZ(b) \in S /\ (\A x \in S : FirstZ(b) <= x) /\ FirstZ(b) \in 0 .. RecSize
  BY <1>1, <1>2, <1>3
<1>5. \A i \in Offs : b[i] = CtrlZ => FirstZ(b) <= i
  BY <1>4 DEF S
<1>6. FirstZ(b) < RecSize => b[FirstZ(b)] = CtrlZ
  BY <1>4, Sizes DEF S
<1> QED BY <1>4, <1>5, <1>6, Sizes DEF Offs

LEMMA DataLenFacts ==
  ASSUME NEW b \in Record
  PROVE  /\ DataLen(b) \in 0 .. RecSize
         /\ \A i \in Offs : i >= DataLen(b) => b[i] = CtrlZ
         /\ DataLen(b) > 0 => b[DataLen(b) - 1] # CtrlZ
<1> DEFINE S == {n \in 0 .. RecSize : \A i \in Offs : i >= n => b[i] = CtrlZ}
<1>1. S \in SUBSET Nat /\ RecSize \in S
  BY Sizes DEF Offs
<1>2. Min(S) \in S /\ \A x \in S : Min(S) <= x
  BY <1>1, LeastNat
<1>3. DataLen(b) = Min(S)
  BY DEF DataLen
<1>4. DataLen(b) > 0 => b[DataLen(b) - 1] # CtrlZ
  <2> SUFFICES ASSUME NEW n, n = DataLen(b), n > 0, b[n - 1] = CtrlZ PROVE FALSE
    OBVIOUS
  <2>1. n \in S /\ n \in 0 .. RecSize /\ n - 1 \in 0 .. RecSize
    BY <1>2, <1>3, Sizes
  <2>2. \A i \in Offs : i >= n - 1 => b[i] = CtrlZ
    BY <2>1, Sizes DEF Offs
  <2>3. n - 1 \in S
    BY <2>1, <2>2
  <2> HIDE DEF S
  <2> QED BY <1>2, <1>3, <2>1, <2>3
<1> QED BY <1>2, <1>3, <1>4

\* _file_toend
LEMMA ToEndFacts ==
  ASSUME NEW f \in FileType, NEW d, DiskOK(d), NEW g, g = ToEnd(f, d)
  PROVE  LET last == NumRecs(d) - 1
         IN /\ g \in FileType
            /\ g.flags = f.flags /\ g.unget = f.unget /\ g.moved = f.moved
            /\ NumRecs(d) = 0 => g.recno = 0 /\ g.bufpos = 0 /\ g.bufcnt = 0 /\ g.buf = f.buf
            /\ NumRecs(d) # 0 => /\ last \in DOMAIN d /\ g.recno = last /\ g.buf = d[last]
                                 /\ g.bufpos = FirstZ(d[last]) /\ g.bufcnt = RecSize
<1>1. 0 \in 0 .. RecSize /\ 0 \in 0 .. RecNos - 1 /\ RecSize # 0
  BY Sizes
<1>2. CASE NumRecs(d) = 0
  <2>1. g = [f EXCEPT !.recno = 0, !.bufpos = 0, !.bufcnt = 0]
    BY <1>2 DEF ToEnd
  <2>2. [f EXCEPT !.recno = 0, !.bufpos = 0, !.bufcnt = 0] \in FileType
    BY <1>1 DEF FileType
  <2>3. /\ g.flags = f.flags /\ g.unget = f.unget /\ g.moved = f.moved
        /\ g.recno = 0 /\ g.bufpos = 0 /\ g.bufcnt = 0 /\ g.buf = f.buf
    BY <2>1 DEF FileType
  <2> QED BY <1>2, <2>1, <2>2, <2>3
<1>3. CASE NumRecs(d) # 0
  <2> DEFINE last == NumRecs(d) - 1
             h == [f EXCEPT !.recno = last]
             l == LoadRec(h, d)
  <2>1. last \in DOMAIN d /\ d[last] \in Record
    BY <1>3, LastRecord
  <2>2. last \in 0 .. RecNos - 1
    BY <2>1 DEF DiskOK
  <2> HIDE DEF last
  <2>3. /\ h \in FileType /\ h.flags = f.flags /\ h.unget = f.unget /\ h.moved = f.moved
        /\ h.recno = last
    BY <2>2 DEF FileType
  <2> HIDE DEF h
  <2>4. /\ l \in FileType /\ l.flags = f.flags /\ l.unget = f.unget /\ l.moved = f.moved
        /\ l.recno = last /\ l.buf = d[last] /\ l.bufcnt = RecSize
    BY <2>1, <2>3, LoadFacts
  <2>5. g = [l EXCEPT !.bufpos = IF l.bufcnt = 0 THEN 0 ELSE FirstZ(l.buf)]
    BY <1>3 DEF ToEnd, h, last
  <2>6. FirstZ(d[last]) \in 0 .. RecSize
    BY <2>1, FirstZFacts
  <2> HIDE DEF l
  <2>7. g = [l EXCEPT !.bufpos = FirstZ(d[last])]
    BY <1>1, <2>4, <2>5
  <2> QED BY <1>3, <2>1, <2>4, <2>6, <2>7 DEF FileType, last
<1> QED BY <1>2, <1>3

\* _file_towrite: the pushed back character is undone, the end of an append
\* stream found, or the buffer's record made the current one.
Undone(f) == IF f.unget # None /\ f.bufpos > 0 THEN f.bufpos - 1 ELSE f.bufpos

LEMMA ToWriteFacts ==
  ASSUME NEW f \in FileType, NEW d, DiskOK(d), NEW g, g = ToWrite(f, d), Is(f, "canWrite")
  PROVE  LET last == NumRecs(d) - 1
         IN /\ g \in FileType
            /\ SameMode(g, f) /\ Is(g, "writing") /\ ~Is(g, "eof")
            /\ (Is(g, "dirty") <=> Is(f, "dirty")) /\ (Is(g, "error") <=> Is(f, "error"))
            /\ g.unget = None /\ g.moved = f.moved
            /\ Is(f, "append") =>
                 /\ NumRecs(d) = 0 => g.recno = 0 /\ g.bufpos = 0 /\ g.bufcnt = 0
                 /\ NumRecs(d) # 0 => /\ last \in DOMAIN d /\ g.recno = last /\ g.buf = d[last]
                                      /\ g.bufpos = FirstZ(d[last]) /\ g.bufcnt = RecSize
            /\ ~Is(f, "append") => g.bufpos = Undone(f)
            /\ ~Is(f, "append") /\ f.bufcnt = 0 =>
                 /\ g.recno = f.recno
                 /\ f.recno \in DOMAIN d => g.buf = d[f.recno] /\ g.bufcnt = RecSize
                 /\ f.recno \notin DOMAIN d => g.buf = f.buf /\ g.bufcnt = 0
            /\ ~Is(f, "append") /\ f.bufcnt # 0 =>
                 g.recno = PrevNo(f.recno) /\ g.buf = f.buf /\ g.bufcnt = f.bufcnt
<1> DEFINE h == [Drop(f, "eof") EXCEPT
                   !.unget = None,
                   !.bufpos = IF f.unget # None /\ @ > 0 THEN @ - 1 ELSE @]
           k == CASE Is(h, "append") -> ToEnd(h, d)
                  [] ~Is(h, "append") /\ h.bufcnt = 0 -> LoadRec(h, d)
                  [] ~Is(h, "append") /\ h.bufcnt # 0 -> [h EXCEPT !.recno = PrevNo(@)]
<1>1. Undone(f) \in 0 .. RecSize /\ f.recno \in 0 .. RecNos - 1 /\ None \in 0 .. 255
  BY Sizes DEF Undone, FileType
<1>2. PrevNo(f.recno) \in 0 .. RecNos - 1
  BY <1>1, NextPrev
<1>3. /\ h \in FileType /\ h.flags = f.flags \ {"eof"} /\ h.unget = None /\ h.moved = f.moved
      /\ h.bufpos = Undone(f) /\ h.recno = f.recno /\ h.bufcnt = f.bufcnt /\ h.buf = f.buf
  BY <1>1 DEF FileType, Drop, Undone
<1>4. g = Raise(k, "writing")
  BY DEF ToWrite
<1> HIDE DEF h
<1>5. Is(h, "append") <=> Is(f, "append")
  BY <1>3 DEF Is
<1>6. /\ Is(f, "append") => k = ToEnd(h, d)
      /\ ~Is(f, "append") /\ f.bufcnt = 0 => k = LoadRec(h, d)
      /\ ~Is(f, "append") /\ f.bufcnt # 0 => k = [h EXCEPT !.recno = PrevNo(@)]
  BY <1>3, <1>5
<1> HIDE DEF k
<1>7. SUFFICES
        /\ k \in FileType /\ k.flags = h.flags /\ k.unget = None /\ k.moved = f.moved
        /\ Is(f, "append") =>
             /\ NumRecs(d) = 0 => k.recno = 0 /\ k.bufpos = 0 /\ k.bufcnt = 0
             /\ NumRecs(d) # 0 =>
                  /\ NumRecs(d) - 1 \in DOMAIN d /\ k.recno = NumRecs(d) - 1
                  /\ k.buf = d[NumRecs(d) - 1]
                  /\ k.bufpos = FirstZ(d[NumRecs(d) - 1]) /\ k.bufcnt = RecSize
        /\ ~Is(f, "append") => k.bufpos = Undone(f)
        /\ ~Is(f, "append") /\ f.bufcnt = 0 =>
             /\ k.recno = f.recno
             /\ f.recno \in DOMAIN d => k.buf = d[f.recno] /\ k.bufcnt = RecSize
             /\ f.recno \notin DOMAIN d => k.buf = f.buf /\ k.bufcnt = 0
        /\ ~Is(f, "append") /\ f.bufcnt # 0 =>
             k.recno = PrevNo(f.recno) /\ k.buf = f.buf /\ k.bufcnt = f.bufcnt
  <2>1. /\ g \in FileType /\ g.flags = (f.flags \ {"eof"}) \cup {"writing"}
        /\ g.unget = k.unget /\ g.moved = k.moved /\ g.recno = k.recno
        /\ g.bufpos = k.bufpos /\ g.bufcnt = k.bufcnt /\ g.buf = k.buf
    BY <1>3, <1>4, <1>7 DEF Raise, FileType, Flags
  <2>2. /\ SameMode(g, f) /\ Is(g, "writing") /\ ~Is(g, "eof")
        /\ (Is(g, "dirty") <=> Is(f, "dirty")) /\ (Is(g, "error") <=> Is(f, "error"))
    BY <2>1 DEF SameMode, Is
  <2> QED BY <1>7, <2>1, <2>2
<1>8. CASE Is(f, "append")
  BY <1>3, <1>6, <1>8, ToEndFacts
<1>9. CASE ~Is(f, "append") /\ f.bufcnt = 0
  BY <1>3, <1>6, <1>9, LoadFacts
<1>10. CASE ~Is(f, "append") /\ f.bufcnt # 0
  BY <1>2, <1>3, <1>6, <1>10 DEF FileType
<1> QED BY <1>8, <1>9, <1>10

\* _file_toread: it fails without a change of state, or the buffer becomes the
\* record before recno.
LEMMA ToReadFacts ==
  ASSUME NEW f \in FileType, NEW d, DiskOK(d), NEW g, g = ToRead(f, d)
  PROVE  /\ g \in FileType /\ g.unget = f.unget /\ g.moved = f.moved /\ g.bufpos = f.bufpos
         /\ SameMode(g, f) /\ (Is(g, "eof") <=> Is(f, "eof"))
         /\ ~Is(f, "canRead") =>
              /\ g.recno = f.recno /\ g.bufcnt = f.bufcnt /\ g.buf = f.buf /\ Is(g, "error")
              /\ (Is(g, "writing") <=> Is(f, "writing")) /\ (Is(g, "dirty") <=> Is(f, "dirty"))
         /\ Is(f, "canRead") /\ FlushFails(f, d) => g = Flushed(f, d)
         /\ Is(f, "canRead") /\ ~FlushFails(f, d) =>
              /\ ~Is(g, "writing") /\ ~Is(g, "dirty") /\ (Is(g, "error") <=> Is(f, "error"))
              /\ Valid(f) = 0 => g.recno = f.recno /\ g.bufcnt = f.bufcnt /\ g.buf = f.buf
              /\ Valid(f) # 0 =>
                   g.recno = NextNo(f.recno) /\ g.bufcnt = RecSize /\ g.buf = Padded(f)
<1>1. f.recno \in 0 .. RecNos - 1 /\ RecSize \in 0 .. RecSize
  BY Sizes DEF FileType
<1>2. NextNo(f.recno) \in 0 .. RecNos - 1
  BY <1>1, NextPrev
<1>3. CASE ~Is(f, "canRead")
  <2>1. g = Raise(f, "error")
    BY <1>3 DEF ToRead
  <2>2. /\ g \in FileType /\ g.unget = f.unget /\ g.moved = f.moved /\ g.bufpos = f.bufpos
        /\ g.recno = f.recno /\ g.bufcnt = f.bufcnt /\ g.buf = f.buf
        /\ g.flags = f.flags \cup {"error"}
    BY <2>1 DEF Raise, FileType, Flags
  <2>3. /\ SameMode(g, f) /\ (Is(g, "eof") <=> Is(f, "eof")) /\ Is(g, "error")
        /\ (Is(g, "writing") <=> Is(f, "writing")) /\ (Is(g, "dirty") <=> Is(f, "dirty"))
    BY <2>2 DEF SameMode, Is
  <2> QED BY <1>3, <2>2, <2>3
<1>4. CASE Is(f, "canRead") /\ FlushFails(f, d)
  <2>1. g = Flushed(f, d)
    BY <1>4 DEF ToRead
  <2> QED BY <1>4, <2>1, FlushFile
<1>5. CASE Is(f, "canRead") /\ ~FlushFails(f, d)
  <2>1. PICK h : h = Flushed(f, d)
    OBVIOUS
  <2>2. /\ h \in FileType
        /\ h.bufpos = f.bufpos /\ h.bufcnt = f.bufcnt /\ h.recno = f.recno
        /\ h.unget = f.unget /\ h.moved = f.moved
        /\ SameMode(h, f) /\ (Is(h, "eof") <=> Is(f, "eof"))
        /\ ~Is(h, "dirty") /\ (Is(h, "error") <=> Is(f, "error"))
        /\ ~Pending(f) => h.buf = f.buf
    BY <1>5, <2>1, FlushFile
  <2>3. Valid(h) = Valid(f)
    BY <2>1, FlushFile
  <2>4. Padded(h) = Padded(f) /\ Padded(f) \in Record
    BY <2>1, FlushFile, PaddedFacts
  <2>5. g = Drop(IF Valid(h) = 0 THEN h
                 ELSE [h EXCEPT !.buf = Padded(h), !.recno = NextNo(@), !.bufcnt = RecSize],
                 "writing")
    BY <1>5, <2>1 DEF ToRead
  <2>6. \A k \in FileType : k.flags = h.flags \ {"writing"} =>
          /\ SameMode(k, f) /\ (Is(k, "eof") <=> Is(f, "eof"))
          /\ ~Is(k, "writing") /\ ~Is(k, "dirty") /\ (Is(k, "error") <=> Is(f, "error"))
    BY <2>2 DEF SameMode, Is
  <2>7. CASE Valid(f) = 0
    <3>1. g = Drop(h, "writing")
      BY <2>3, <2>5, <2>7
    <3>2. ~Pending(f)
      BY <2>7 DEF Pending
    <3>3. /\ g \in FileType /\ g.unget = h.unget /\ g.moved = h.moved /\ g.bufpos = h.bufpos
          /\ g.flags = h.flags \ {"writing"}
          /\ g.recno = h.recno /\ g.bufcnt = h.bufcnt /\ g.buf = h.buf
      BY <2>2, <3>1 DEF Drop, FileType
    <3> QED BY <1>5, <2>2, <2>6, <2>7, <3>2, <3>3
  <2>8. CASE Valid(f) # 0
    <3>1. g = Drop([h EXCEPT !.buf = Padded(f), !.recno = NextNo(f.recno), !.bufcnt = RecSize],
                   "writing")
      BY <2>2, <2>3, <2>4, <2>5, <2>8
    <3>2. g = [h EXCEPT !.flags = @ \ {"writing"}, !.buf = Padded(f),
                        !.recno = NextNo(f.recno), !.bufcnt = RecSize]
      BY <2>2, <3>1 DEF Drop, FileType
    <3>3. [h EXCEPT !.flags = @ \ {"writing"}, !.buf = Padded(f),
                    !.recno = NextNo(f.recno), !.bufcnt = RecSize] \in FileType
      BY <1>1, <1>2, <2>2, <2>4 DEF FileType
    <3>4. /\ g.unget = h.unget /\ g.moved = h.moved /\ g.bufpos = h.bufpos
          /\ g.flags = h.flags \ {"writing"}
          /\ g.recno = NextNo(f.recno) /\ g.bufcnt = RecSize /\ g.buf = Padded(f)
      BY <2>2, <3>2 DEF FileType
    <3> QED BY <1>5, <2>2, <2>6, <2>8, <3>2, <3>3, <3>4
  <2> QED BY <2>7, <2>8
<1> QED BY <1>3, <1>4, <1>5

\* _fputc_store
LEMMA StoredFacts ==
  ASSUME NEW f \in FileType, NEW c, c \in 0 .. 255, f.bufpos < RecSize, NEW g, g = Stored(f, c)
  PROVE  /\ g \in FileType /\ g.unget = f.unget /\ g.moved = f.moved /\ g.recno = f.recno
         /\ SameMode(g, f) /\ (Is(g, "writing") <=> Is(f, "writing")) /\ Is(g, "dirty")
         /\ (Is(g, "eof") <=> Is(f, "eof")) /\ (Is(g, "error") <=> Is(f, "error"))
         /\ g.bufpos = f.bufpos + 1 /\ g.buf[f.bufpos] = c
         /\ \A i \in Offs : i # f.bufpos => g.buf[i] = f.buf[i]
         /\ g.bufcnt = IF f.bufcnt < f.bufpos + 1 THEN f.bufpos + 1 ELSE f.bufcnt
         /\ g.bufpos <= g.bufcnt
<1> DEFINE h == [Raise(f, "dirty") EXCEPT !.buf[f.bufpos] = c, !.bufpos = @ + 1]
<1>1. /\ f.bufpos \in Offs /\ f.bufpos + 1 \in 0 .. RecSize /\ f.bufcnt \in 0 .. RecSize
      /\ f.buf \in [Offs -> 0 .. 255]
  BY Sizes DEF FileType, Offs, Record
<1>2. [f.buf EXCEPT ![f.bufpos] = c] \in Record
  BY <1>1 DEF Record
<1>3. /\ h \in FileType /\ h.unget = f.unget /\ h.moved = f.moved /\ h.recno = f.recno
      /\ h.flags = f.flags \cup {"dirty"} /\ h.bufcnt = f.bufcnt
      /\ h.bufpos = f.bufpos + 1 /\ h.buf = [f.buf EXCEPT ![f.bufpos] = c]
  BY <1>1, <1>2 DEF FileType, Raise, Flags
<1>4. g = [h EXCEPT !.bufcnt = IF @ < h.bufpos THEN h.bufpos ELSE @]
  BY DEF Stored
<1> HIDE DEF h
<1>5. /\ g \in FileType /\ g.unget = f.unget /\ g.moved = f.moved /\ g.recno = f.recno
      /\ g.flags = f.flags \cup {"dirty"}
      /\ g.bufpos = f.bufpos + 1 /\ g.buf = [f.buf EXCEPT ![f.bufpos] = c]
      /\ g.bufcnt = IF f.bufcnt < f.bufpos + 1 THEN f.bufpos + 1 ELSE f.bufcnt
  BY <1>1, <1>3, <1>4 DEF FileType
<1>6. /\ SameMode(g, f) /\ (Is(g, "writing") <=> Is(f, "writing")) /\ Is(g, "dirty")
      /\ (Is(g, "eof") <=> Is(f, "eof")) /\ (Is(g, "error") <=> Is(f, "error"))
  BY <1>5 DEF SameMode, Is
<1>7. g.bufpos <= g.bufcnt
  BY <1>1, <1>5
<1>8. g.buf[f.bufpos] = c /\ \A i \in Offs : i # f.bufpos => g.buf[i] = f.buf[i]
  BY <1>1, <1>5
<1> QED BY <1>5, <1>6, <1>7, <1>8

\* _fsk_gap: only bytes of the last record change, Ctrl-Z to zero.
Upto(d, to) ==
  CASE RecOf(to) > NumRecs(d) - 1 -> RecSize
    [] RecOf(to) = NumRecs(d) - 1 -> OffOf(to)
    [] RecOf(to) < NumRecs(d) - 1 -> 0

LEMMA GapFacts ==
  ASSUME NEW d, DiskOK(d), NEW to \in 0 .. MaxOffset, NEW e, e = GapFilled(d, to)
  PROVE  /\ DiskOK(e) /\ DOMAIN e = DOMAIN d /\ NumRecs(e) = NumRecs(d)
         /\ \A r \in DOMAIN d : r # NumRecs(d) - 1 \/ NumRecs(d) = 0 => e[r] = d[r]
         /\ NumRecs(d) # 0 => \A i \in Offs :
              e[NumRecs(d) - 1][i] =
                IF DataLen(d[NumRecs(d) - 1]) <= i /\ i < Upto(d, to) THEN 0
                ELSE d[NumRecs(d) - 1][i]
<1> DEFINE last == NumRecs(d) - 1
           n == DataLen(d[last])
           fill == [i \in Offs |-> IF i \in n .. Upto(d, to) - 1 THEN 0 ELSE d[last][i]]
<1>1. CASE NumRecs(d) = 0
  <2>1. e = d
    BY <1>1 DEF GapFilled
  <2> QED BY <1>1, <2>1
<1>2. CASE NumRecs(d) # 0
  <2>1. last \in DOMAIN d /\ d[last] \in Record
    BY <1>2, LastRecord
  <2>2. e = [d EXCEPT ![last] = fill]
    BY <1>2 DEF GapFilled, Upto, RecOf, OffOf
  <2>3. n \in Nat /\ Upto(d, to) \in Int
    <3>1. n \in 0 .. RecSize
      BY <2>1, DataLenFacts
    <3>2. OffOf(to) \in Offs /\ RecOf(to) \in Nat /\ NumRecs(d) \in Nat
      BY Divided, LastRecord, Sizes
    <3> QED BY <3>1, <3>2, Sizes DEF Upto, Offs
  <2> HIDE DEF n, last
  <2>4. fill \in Record
    BY <2>1, Sizes DEF Record
  <2>5. \A i \in Offs : fill[i] = IF n <= i /\ i < Upto(d, to) THEN 0 ELSE d[last][i]
    <3> SUFFICES ASSUME NEW i \in Offs
                 PROVE  fill[i] = IF n <= i /\ i < Upto(d, to) THEN 0 ELSE d[last][i]
      OBVIOUS
    <3>1. i \in n .. Upto(d, to) - 1 <=> n <= i /\ i < Upto(d, to)
      BY <2>3, Sizes DEF Offs
    <3> QED BY <3>1
  <2> HIDE DEF fill
  <2>6. /\ DOMAIN e = DOMAIN d /\ e[last] = fill
        /\ \A r \in DOMAIN d : r # last => e[r] = d[r]
    BY <2>1, <2>2
  <2>7. NumRecs(e) = NumRecs(d) /\ DiskOK(e)
    BY <2>4, <2>6 DEF NumRecs, DiskOK
  <2> QED BY <1>2, <2>5, <2>6, <2>7 DEF last, n
<1> QED BY <1>1, <1>2

\* _fsk_have and _fsk_load: the buffer is empty, or the record of the position
\* when that record exists and is needed, or zeros for a stream that writes.
LEMMA PlacedFacts ==
  ASSUME NEW f \in FileType, NEW d, DiskOK(d), NEW to, to \in 0 .. MaxOffset,
         NEW g, g = Placed(f, d, to), NEW r, r = RecOf(to), NEW o, o = OffOf(to)
  PROVE  LET w == Is(f, "writing") /\ ~Is(f, "append")
         IN /\ g \in FileType /\ g.moved /\ g.unget = None
            /\ SameMode(g, f) /\ (Is(g, "writing") <=> w) /\ ~Is(g, "eof")
            /\ (Is(g, "dirty") <=> Is(f, "dirty")) /\ (Is(g, "error") <=> Is(f, "error"))
            /\ ~w /\ (o = 0 \/ r \notin DOMAIN d) => g.bufpos = 0 /\ g.bufcnt = 0 /\ g.recno = r
            /\ (w \/ o # 0) /\ r \in DOMAIN d =>
                 /\ g.bufpos = o /\ g.bufcnt = RecSize /\ g.buf = d[r]
                 /\ w => g.recno = r
                 /\ ~w => g.recno = NextNo(r)
            /\ w /\ r \notin DOMAIN d =>
                 /\ g.bufpos = o /\ g.bufcnt = o /\ g.recno = r
                 /\ \A i \in Offs : g.buf[i] = 0
<1> DEFINE w == Is(f, "writing") /\ ~Is(f, "append")
           b == IF Is(f, "canWrite") /\ NumRecs(d) # 0 THEN d[NumRecs(d) - 1] ELSE f.buf
           h == [f EXCEPT !.flags = @ \ ({"eof"} \cup (IF Is(f, "append") THEN {"writing"} ELSE {})),
                          !.moved = TRUE, !.unget = None, !.bufpos = 0, !.bufcnt = 0,
                          !.recno = r, !.buf = b]
<1>1. r \in 0 .. RecNos - 1 /\ o \in Offs /\ o \in 0 .. RecSize /\ 0 \in 0 .. RecSize
  BY Divided, Sizes DEF Offs
<1>2. NextNo(r) \in 0 .. RecNos - 1 /\ RecSize \in 0 .. RecSize /\ None \in 0 .. 255
  BY <1>1, NextPrev, Sizes
<1>3. b \in Record
  BY LastRecord DEF FileType
<1> HIDE DEF b
<1>4. /\ h \in FileType /\ h.moved = TRUE /\ h.unget = None
      /\ h.bufpos = 0 /\ h.bufcnt = 0 /\ h.recno = r
      /\ h.flags = f.flags \ ({"eof"} \cup (IF Is(f, "append") THEN {"writing"} ELSE {}))
  BY <1>1, <1>2, <1>3 DEF FileType
<1>5. g = IF Is(h, "writing") \/ o # 0 THEN SeekLoad(h, d, o) ELSE h
  BY DEF Placed, b, RecOf, OffOf
<1> HIDE DEF h
<1>6. /\ Is(h, "writing") <=> w
      /\ \A k \in FileType : k.flags = h.flags =>
           /\ SameMode(k, f) /\ (Is(k, "writing") <=> w) /\ ~Is(k, "eof")
           /\ (Is(k, "dirty") <=> Is(f, "dirty")) /\ (Is(k, "error") <=> Is(f, "error"))
  BY <1>4 DEF Is, SameMode
<1> HIDE DEF w
<1>7. CASE ~w /\ o = 0
  <2>1. g = h
    BY <1>5, <1>6, <1>7
  <2> QED BY <1>4, <1>6, <1>7, <2>1 DEF w
<1>8. CASE (w \/ o # 0) /\ r \in DOMAIN d
  <2>1. d[r] \in Record
    BY <1>8 DEF DiskOK
  <2>2. g = [h EXCEPT !.buf = d[r], !.bufpos = o, !.bufcnt = RecSize,
                      !.recno = IF w THEN r ELSE NextNo(r)]
    BY <1>4, <1>5, <1>6, <1>8 DEF SeekLoad
  <2>3. [h EXCEPT !.buf = d[r], !.bufpos = o, !.bufcnt = RecSize,
                  !.recno = IF w THEN r ELSE NextNo(r)] \in FileType
    BY <1>1, <1>2, <1>4, <2>1 DEF FileType
  <2>4. /\ g.moved = h.moved /\ g.unget = h.unget /\ g.flags = h.flags
        /\ g.bufpos = o /\ g.bufcnt = RecSize /\ g.buf = d[r]
        /\ g.recno = IF w THEN r ELSE NextNo(r)
    BY <1>4, <2>2 DEF FileType
  <2> QED BY <1>4, <1>6, <1>8, <2>2, <2>3, <2>4 DEF w
<1>9. CASE ~w /\ o # 0 /\ r \notin DOMAIN d
  <2>1. g = h
    BY <1>4, <1>5, <1>6, <1>9 DEF SeekLoad
  <2> QED BY <1>4, <1>6, <1>9, <2>1 DEF w
<1>10. CASE w /\ r \notin DOMAIN d
  <2>1. g = [h EXCEPT !.buf = [i \in Offs |-> 0], !.bufpos = o, !.bufcnt = o]
    BY <1>4, <1>5, <1>6, <1>10 DEF SeekLoad
  <2>2. [i \in Offs |-> 0] \in Record
    BY Sizes DEF Record
  <2>3. [h EXCEPT !.buf = [i \in Offs |-> 0], !.bufpos = o, !.bufcnt = o] \in FileType
    BY <1>1, <1>4, <2>2 DEF FileType
  <2>4. /\ g.moved = h.moved /\ g.unget = h.unget /\ g.flags = h.flags
        /\ g.bufpos = o /\ g.bufcnt = o /\ g.buf = [i \in Offs |-> 0] /\ g.recno = h.recno
    BY <1>4, <2>1 DEF FileType
  <2> QED BY <1>4, <1>6, <1>10, <2>1, <2>3, <2>4 DEF w
<1> QED BY <1>7, <1>8, <1>9, <1>10 DEF w

-----------------------------------------------------------------------------
(* The buffer and the record it is a copy of.                               *)

\* The record in the buffer, or the one that is read next into an empty one.
Cur(f) == IF Is(f, "writing") \/ f.bufcnt = 0 THEN f.recno ELSE PrevNo(f.recno)

\* The buffer of a stream that reads, and one with nothing to write, is its
\* record.
Steady(f, d) ==
  /\ f.bufpos <= f.bufcnt
  /\ f.bufcnt # 0 /\ ~(Is(f, "writing") /\ Is(f, "dirty")) /\ Cur(f) \in DOMAIN d
       => Padded(f) = d[Cur(f)]

LEMMA CurFacts ==
  ASSUME NEW f \in FileType
  PROVE  Cur(f) \in 0 .. RecNos - 1
  BY NextPrev DEF Cur, FileType

LEMMA FlushSteady ==
  ASSUME NEW f \in FileType, NEW d, DiskOK(d), Is(f, "writing"), Steady(f, d),
         NEW g, g = Flushed(f, d), NEW e, e = FlushedDisk(f, d)
  PROVE  Steady(g, e)
<1>1. /\ g.bufpos = f.bufpos /\ g.bufcnt = f.bufcnt /\ g.recno = f.recno
      /\ Padded(g) = Padded(f)
  BY FlushFile
<1>2. Is(g, "writing") /\ (FlushFails(f, d) => Is(g, "dirty"))
  BY FlushFile
<1>3. CASE FlushFails(f, d)
  BY <1>1, <1>2, <1>3 DEF Steady
<1>4. CASE ~FlushFails(f, d) /\ Pending(f)
  <2>1. e[f.recno] = Padded(f)
    BY <1>4, FlushDisk
  <2> QED BY <1>1, <1>2, <2>1 DEF Steady, Cur
<1>5. CASE ~FlushFails(f, d) /\ ~Pending(f)
  <2>1. e = d
    BY <1>5, FlushDisk
  <2>2. f.bufcnt # 0 => ~Is(f, "dirty")
    <3>1. Valid(f) = f.bufcnt
      BY PaddedFacts DEF Steady
    <3> QED BY <1>5, <3>1 DEF Pending
  <2> QED BY <1>1, <1>2, <2>1, <2>2 DEF Steady, Cur
<1> QED BY <1>3, <1>4, <1>5

\* Buffers that are loaded, or empty.
LEMMA LoadedSteady ==
  ASSUME NEW f \in FileType, NEW d,
         f.bufpos <= f.bufcnt,
         f.bufcnt = 0 \/ (f.bufcnt = RecSize /\ f.buf = d[Cur(f)])
  PROVE  Steady(f, d)
<1>1. CASE f.bufcnt = 0
  BY <1>1 DEF Steady
<1>2. CASE f.bufcnt # 0
  <2>1. Padded(f) = f.buf
    BY <1>2, FullBuffer
  <2> QED BY <1>2, <2>1 DEF Steady
<1> QED BY <1>1, <1>2

LEMMA NextRecSteady ==
  ASSUME NEW f \in FileType, NEW d, DiskOK(d), Is(f, "writing"), NEW g, g = NextRec(f, d)
  PROVE  Steady(g, d)
<1>1. g \in FileType /\ g.bufpos = 0 /\ Is(g, "writing")
      /\ (g.bufcnt = 0 \/ (g.bufcnt = RecSize /\ g.buf = d[g.recno]))
  BY NextRecFacts DEF Is
<1>2. Cur(g) = g.recno /\ g.bufpos <= g.bufcnt
  BY <1>1, Sizes DEF Cur
<1> QED BY <1>1, <1>2, LoadedSteady

LEMMA ToWriteSteady ==
  ASSUME NEW f \in FileType, NEW d, DiskOK(d), Steady(f, d), ~Is(f, "writing"),
         NEW g, g = ToWrite(f, d)
  PROVE  Steady(g, d)
<1>1. CASE ~Is(f, "canWrite")
  BY <1>1 DEF ToWrite, Raise, Steady, Cur, Is, Padded, Valid, FileType
<1>2. CASE Is(f, "canWrite") /\ (Is(f, "append") \/ f.bufcnt = 0)
  <2>1. g \in FileType /\ Is(g, "writing")
    BY <1>2, ToWriteFacts
  <2>2. g.bufcnt = 0 \/ (g.bufcnt = RecSize /\ g.buf = d[g.recno])
    BY <1>2, ToWriteFacts
  <2>3. g.bufpos <= g.bufcnt
    <3>1. CASE Is(f, "append")
      <4>1. NumRecs(d) # 0 => d[NumRecs(d) - 1] \in Record
        BY LastRecord
      <4>2. NumRecs(d) # 0 => FirstZ(d[NumRecs(d) - 1]) \in 0 .. RecSize
        BY <4>1, FirstZFacts
      <4> QED BY <1>2, <3>1, <4>2, ToWriteFacts, Sizes
    <3>2. CASE ~Is(f, "append")
      <4>1. f.bufpos = 0
        BY <1>2, <3>2, Sizes DEF Steady, FileType
      <4>2. g.bufpos = 0
        BY <1>2, <3>2, <4>1, ToWriteFacts DEF Undone
      <4> QED BY <2>2, <4>2, Sizes
    <3> QED BY <3>1, <3>2
  <2> QED BY <2>1, <2>2, <2>3, LoadedSteady DEF Cur
<1>3. CASE Is(f, "canWrite") /\ ~Is(f, "append") /\ f.bufcnt # 0
  <2>1. /\ g \in FileType /\ Is(g, "writing") /\ g.recno = PrevNo(f.recno)
        /\ g.buf = f.buf /\ g.bufcnt = f.bufcnt /\ g.bufpos = Undone(f)
    BY <1>3, ToWriteFacts
  <2>2. g.bufpos <= f.bufpos /\ f.bufpos <= f.bufcnt
    BY <2>1, Sizes DEF Undone, Steady, FileType
  <2>3. Valid(g) = Valid(f) /\ Padded(g) = Padded(f)
    <3>1. Valid(g) = Valid(f)
      BY <2>1, <2>2, Sizes DEF Valid, FileType
    <3> QED BY <2>1, <3>1 DEF Padded
  <2>4. Cur(g) = Cur(f)
    BY <1>3, <2>1 DEF Cur
  <2> QED BY <1>3, <2>1, <2>2, <2>3, <2>4, Sizes DEF Steady, FileType
<1> QED BY <1>1, <1>2, <1>3

\* The disk of a stream that changes to reading is the flushed one.
LEMMA ToReadSteady ==
  ASSUME NEW f \in FileType, NEW d, DiskOK(d), Is(f, "writing"), Steady(f, d),
         NEW g, g = ToRead(f, d), NEW e,
         e = IF Is(f, "canRead") THEN FlushedDisk(f, d) ELSE d
  PROVE  Steady(g, e)
<1>1. CASE ~Is(f, "canRead")
  <2>1. e = d /\ g.bufpos = f.bufpos /\ g.recno = f.recno /\ g.bufcnt = f.bufcnt
        /\ g.buf = f.buf /\ Is(g, "writing") /\ (Is(g, "dirty") <=> Is(f, "dirty"))
    BY <1>1, ToReadFacts
  <2>2. Padded(g) = Padded(f)
    BY <2>1 DEF Padded, Valid
  <2> QED BY <2>1, <2>2 DEF Steady, Cur
<1>2. CASE Is(f, "canRead") /\ FlushFails(f, d)
  <2>1. g = Flushed(f, d) /\ e = FlushedDisk(f, d)
    BY <1>2, ToReadFacts
  <2> QED BY <2>1, FlushSteady
<1>3. CASE Is(f, "canRead") /\ ~FlushFails(f, d)
  <2>1. /\ g \in FileType /\ ~Is(g, "writing") /\ g.bufpos = f.bufpos
        /\ Valid(f) = 0 => g.recno = f.recno /\ g.bufcnt = f.bufcnt
        /\ Valid(f) # 0 => /\ g.recno = NextNo(f.recno) /\ g.bufcnt = RecSize
                           /\ g.buf = Padded(f)
    BY <1>3, ToReadFacts
  <2>2. Valid(f) = f.bufcnt /\ f.bufpos \in 0 .. RecSize /\ f.recno \in 0 .. RecNos - 1
    BY PaddedFacts DEF Steady, FileType
  <2>3. CASE Valid(f) = 0
    BY <2>1, <2>2, <2>3 DEF Steady
  <2>4. CASE Valid(f) # 0
    <3>1. PICK h : h = Flushed(f, d)
      OBVIOUS
    <3>2. h \in FileType /\ h.recno = f.recno /\ h.bufcnt # 0 /\ Padded(h) = Padded(f)
      BY <2>2, <2>4, <3>1, FlushFile
    <3>3. Is(h, "writing") /\ ~Is(h, "dirty")
      BY <1>3, <3>1, FlushFile
    <3>4. e = FlushedDisk(f, d)
      BY <1>3
    <3>5. Steady(h, e)
      BY <3>1, <3>4, FlushSteady
    <3>6. f.recno \in DOMAIN e => Padded(f) = e[f.recno]
      BY <3>2, <3>3, <3>5 DEF Steady, Cur
    <3>7. Cur(g) = f.recno
      BY <2>1, <2>2, <2>4, NextPrev, Sizes DEF Cur
    <3>8. Padded(g) = g.buf
      BY <2>1, <2>4, FullBuffer
    <3> QED BY <2>1, <2>2, <2>4, <3>6, <3>7, <3>8, Sizes DEF Steady
  <2> QED BY <2>3, <2>4
<1> QED BY <1>1, <1>2, <1>3

\* A byte stored: the stream writes and has something to write.
LEMMA StoredSteady ==
  ASSUME NEW f \in FileType, NEW d, Is(f, "writing"), f.bufpos < RecSize,
         NEW c, c \in 0 .. 255, NEW g, g = Stored(f, c)
  PROVE  Steady(g, d)
<1>1. Is(g, "writing") /\ Is(g, "dirty") /\ g.bufpos <= g.bufcnt
  BY StoredFacts
<1> QED BY <1>1 DEF Steady

LEMMA PlacedSteady ==
  ASSUME NEW f \in FileType, NEW d, DiskOK(d), NEW to \in 0 .. MaxOffset,
         NEW g, g = Placed(f, d, to)
  PROVE  Steady(g, d)
<1> DEFINE w == Is(f, "writing") /\ ~Is(f, "append")
<1>1. PICK r, o : r = RecOf(to) /\ o = OffOf(to)
  OBVIOUS
<1>2. r \in 0 .. RecNos - 1 /\ o \in 0 .. RecSize - 1 /\ PrevNo(NextNo(r)) = r
  BY <1>1, Divided, NextPrev DEF Offs
<1>3. Is(g, "writing") <=> w
  BY <1>1, PlacedFacts
<1>4. CASE ~w /\ (o = 0 \/ r \notin DOMAIN d)
  <2>1. g.bufpos = 0 /\ g.bufcnt = 0
    BY <1>1, <1>4, PlacedFacts
  <2> QED BY <2>1 DEF Steady
<1>5. CASE (w \/ o # 0) /\ r \in DOMAIN d
  <2>1. /\ g \in FileType /\ g.bufpos = o /\ g.bufcnt = RecSize /\ g.buf = d[r]
        /\ w => g.recno = r
        /\ ~w => g.recno = NextNo(r)
    BY <1>1, <1>5, PlacedFacts
  <2>2. Cur(g) = r /\ g.bufpos <= g.bufcnt
    BY <1>2, <1>3, <2>1, Sizes DEF Cur
  <2> QED BY <2>1, <2>2, LoadedSteady
<1>6. CASE w /\ r \notin DOMAIN d
  <2>1. g.bufpos = o /\ g.bufcnt = o /\ g.recno = r
    BY <1>1, <1>6, PlacedFacts
  <2>2. Cur(g) = r
    BY <1>3, <1>6, <2>1 DEF Cur
  <2> QED BY <1>2, <1>6, <2>1, <2>2, Sizes DEF Steady
<1> QED BY <1>4, <1>5, <1>6

-----------------------------------------------------------------------------
(* The shape of the data: records without a gap, and Ctrl-Z only at the end *)
(* of the last one.  The disk may not hold every record number, else the    *)
(* count of the records wraps.                                              *)

NoZ(b) == \A i \in Offs : b[i] # CtrlZ
Tailed(b) == \A i, j \in Offs : i <= j /\ b[i] = CtrlZ => b[j] = CtrlZ

Dense(d) ==
  /\ DOMAIN d = 0 .. NumRecs(d) - 1
  /\ \A r \in DOMAIN d : Tailed(d[r])
  /\ \A r \in DOMAIN d : r < NumRecs(d) - 1 => NoZ(d[r])

\* Where the stream may stand: not beyond the first record the file lacks, and
\* there only after full records; never after a Ctrl-Z that it could bury.
Shaped(f, d) ==
  LET n == NumRecs(d)
  IN /\ Cur(f) <= n
     /\ f.bufcnt # 0 => Tailed(Padded(f))
     /\ f.bufcnt # 0 /\ Cur(f) < n - 1 => NoZ(Padded(f))
     /\ f.bufcnt # 0 /\ Is(f, "canWrite") =>
          \A i \in Offs : i < f.bufpos => Padded(f)[i] # CtrlZ
     /\ Is(f, "writing") /\ f.bufcnt = 0 => f.recno = n
     /\ Is(f, "canWrite") /\ Cur(f) = n /\ n > 0 => NoZ(d[n - 1])
     /\ Is(f, "writing") /\ ~Is(f, "canRead") /\ ~f.moved => f.recno >= n - 1
     /\ f.bufcnt # 0 /\ ~Is(f, "dirty") /\ Cur(f) = n => Padded(f)[RecSize - 1] = CtrlZ
     /\ Is(f, "writing") => Is(f, "canWrite")
     /\ Is(f, "canWrite") /\ ~Is(f, "canRead") /\ ~Is(f, "append") => Is(f, "writing")

LEMMA SameCount ==
  ASSUME NEW d, NEW e, DOMAIN e = DOMAIN d
  PROVE  NumRecs(e) = NumRecs(d)
  BY DEF NumRecs

LEMMA DenseCount ==
  ASSUME Capacity < RecNos, NEW d, DiskOK(d), NEW n \in Nat, DOMAIN d = 0 .. n - 1
  PROVE  n <= Capacity /\ n < RecNos /\ NumRecs(d) = n
<1>1. Cardinality(0 .. n - 1) = n
  <2>1. 0 \in Int /\ n - 1 \in Int
    OBVIOUS
  <2>2. Cardinality(0 .. n - 1) = IF 0 > n - 1 THEN 0 ELSE n - 1 - 0 + 1
    BY <2>1, FS_Interval
  <2> QED BY <2>2
<1>2. n <= Capacity /\ n < RecNos
  BY <1>1, Sizes DEF DiskOK
<1>3. CASE n = 0
  <2>1. DOMAIN d = {}
    BY <1>3
  <2> QED BY <1>2, <1>3, <2>1, LastRecord
<1>4. CASE n # 0
  <2>1. n - 1 \in DOMAIN d /\ (\A r \in DOMAIN d : r <= n - 1) /\ n - 1 + 1 < RecNos
    BY <1>2, <1>4
  <2>2. NumRecs(d) = n - 1 + 1
    BY <2>1, LastRecord
  <2> QED BY <1>2, <2>2
<1> QED BY <1>3, <1>4

\* A stream with the same position, buffer and state.
LEMMA SameShape ==
  ASSUME NEW f \in FileType, NEW g \in FileType, NEW d,
         g.bufpos = f.bufpos, g.bufcnt = f.bufcnt, g.recno = f.recno, g.buf = f.buf,
         g.moved = f.moved, SameMode(g, f),
         Is(g, "writing") <=> Is(f, "writing"), Is(g, "dirty") <=> Is(f, "dirty")
  PROVE  /\ Steady(f, d) => Steady(g, d)
         /\ Shaped(f, d) => Shaped(g, d)
<1>1. Padded(g) = Padded(f) /\ Cur(g) = Cur(f)
  BY DEF Padded, Valid, Cur
<1>2. Steady(f, d) => Steady(g, d)
  BY <1>1 DEF Steady
<1>3. (Is(g, "canRead") <=> Is(f, "canRead")) /\ (Is(g, "canWrite") <=> Is(f, "canWrite"))
      /\ (Is(g, "append") <=> Is(f, "append"))
  BY DEF SameMode
<1>4. Shaped(f, d) => Shaped(g, d)
  BY <1>1, <1>3 DEF Shaped
<1> QED BY <1>2, <1>4

LEMMA FlushDense ==
  ASSUME Capacity < RecNos, NEW f \in FileType, NEW d, DiskOK(d), Is(f, "writing"),
         Steady(f, d), Shaped(f, d), Dense(d), NEW e, e = FlushedDisk(f, d)
  PROVE  /\ Dense(e)
         /\ Pending(f) /\ ~FlushFails(f, d) /\ f.recno = NumRecs(d)
              => NumRecs(e) = NumRecs(d) + 1
         /\ ~(Pending(f) /\ ~FlushFails(f, d) /\ f.recno = NumRecs(d))
              => NumRecs(e) = NumRecs(d)
<1>1. PICK n : n = NumRecs(d)
  OBVIOUS
<1>2. n \in Nat /\ DOMAIN d = 0 .. n - 1 /\ f.recno \in Nat /\ f.recno <= n
  BY <1>1, LastRecord, Sizes DEF Dense, Shaped, Cur, FileType
<1>3. /\ DiskOK(e)
      /\ ~Pending(f) \/ FlushFails(f, d) => e = d
      /\ Pending(f) /\ ~FlushFails(f, d) =>
           /\ DOMAIN e = DOMAIN d \cup {f.recno} /\ e[f.recno] = Padded(f)
           /\ \A x \in DOMAIN d : x # f.recno => e[x] = d[x]
  BY FlushDisk
<1>4. CASE ~Pending(f) \/ FlushFails(f, d)
  <2>1. e = d
    BY <1>3, <1>4
  <2> QED BY <1>4, <2>1
<1>5. CASE Pending(f) /\ ~FlushFails(f, d)
  <2>1. /\ DOMAIN e = DOMAIN d \cup {f.recno} /\ e[f.recno] = Padded(f)
        /\ \A x \in DOMAIN d : x # f.recno => e[x] = d[x]
    BY <1>3, <1>5
  <2>2. Valid(f) = f.bufcnt /\ Valid(f) # 0
    BY <1>5, PaddedFacts DEF Steady, Pending
  <2>3. Tailed(Padded(f)) /\ (f.recno < n - 1 => NoZ(Padded(f)))
    BY <1>1, <2>2 DEF Shaped, Cur
  <2>4. f.recno = n /\ n > 0 => NoZ(d[n - 1])
    BY <1>1 DEF Shaped, Cur
  <2>5. CASE f.recno = n
    <3>1. DOMAIN e = 0 .. (n + 1) - 1
      BY <1>2, <2>1, <2>5
    <3>2. NumRecs(e) = n + 1
      BY <1>2, <1>3, <3>1, DenseCount
    <3>3. \A r \in DOMAIN e : Tailed(e[r])
      BY <2>1, <2>3 DEF Dense
    <3>4. \A r \in DOMAIN e : r < n => NoZ(e[r])
      <4> SUFFICES ASSUME NEW r \in DOMAIN e, r < n PROVE NoZ(e[r])
        OBVIOUS
      <4>1. r \in DOMAIN d /\ e[r] = d[r] /\ r \in Nat
        BY <1>2, <2>1, <2>5, <3>1
      <4>2. CASE r < n - 1
        BY <1>1, <4>1, <4>2 DEF Dense
      <4>3. CASE r >= n - 1
        <5>1. r = n - 1 /\ n > 0
          BY <1>2, <4>1, <4>3
        <5> QED BY <2>4, <2>5, <4>1, <5>1
      <4> QED BY <1>2, <4>1, <4>2, <4>3
    <3>5. Dense(e)
      BY <1>2, <3>1, <3>2, <3>3, <3>4 DEF Dense
    <3> QED BY <1>1, <1>5, <2>5, <3>2, <3>5
  <2>6. CASE f.recno # n
    <3>1. DOMAIN e = DOMAIN d
      BY <1>2, <2>1, <2>6
    <3>2. NumRecs(e) = n
      BY <1>1, <3>1, SameCount
    <3>3. Dense(e)
      BY <1>1, <2>1, <2>3, <3>1, <3>2 DEF Dense
    <3> QED BY <1>1, <2>6, <3>2, <3>3
  <2> QED BY <2>5, <2>6
<1> QED BY <1>4, <1>5

LEMMA FlushShaped ==
  ASSUME Capacity < RecNos, NEW f \in FileType, NEW d, DiskOK(d), Is(f, "writing"),
         Steady(f, d), Shaped(f, d), Dense(d),
         NEW g, g = Flushed(f, d), NEW e, e = FlushedDisk(f, d)
  PROVE  Shaped(g, e)
<1>1. PICK n, m : n = NumRecs(d) /\ m = NumRecs(e)
  OBVIOUS
<1>2. n \in Nat /\ f.recno \in Nat /\ f.recno <= n
  BY <1>1, LastRecord, Sizes DEF Dense, Shaped, Cur, FileType
<1>3. /\ Pending(f) /\ ~FlushFails(f, d) /\ f.recno = n => m = n + 1
      /\ ~(Pending(f) /\ ~FlushFails(f, d) /\ f.recno = n) => m = n
  BY <1>1, FlushDense
<1>4. /\ g.bufpos = f.bufpos /\ g.bufcnt = f.bufcnt /\ g.recno = f.recno
      /\ g.moved = f.moved /\ Padded(g) = Padded(f) /\ Is(g, "writing")
      /\ FlushFails(f, d) => Is(g, "dirty")
      /\ SameMode(g, f)
  BY FlushFile
<1>5. /\ Is(g, "canWrite") <=> Is(f, "canWrite")
      /\ Is(g, "canRead") <=> Is(f, "canRead")
      /\ Is(g, "append") <=> Is(f, "append")
  BY <1>4 DEF SameMode
<1>6. Cur(g) = f.recno /\ Cur(f) = f.recno
  BY <1>4 DEF Cur
<1>7. Valid(f) = f.bufcnt
  BY PaddedFacts DEF Steady
<1>8. ~Pending(f) \/ FlushFails(f, d) => e = d
  BY FlushDisk
<1>9. f.bufcnt = 0 => e = d
  BY <1>7, <1>8 DEF Pending
<1>10. f.recno = m => e = d /\ n = m
  BY <1>2, <1>3, <1>8
<1>11. f.bufcnt # 0 /\ ~Is(g, "dirty") /\ f.recno = m => ~Is(f, "dirty")
  <2> SUFFICES ASSUME f.bufcnt # 0, ~Is(g, "dirty"), f.recno = m, Is(f, "dirty") PROVE FALSE
    OBVIOUS
  <2>1. Pending(f) /\ ~FlushFails(f, d)
    BY <1>4, <1>7 DEF Pending
  <2> QED BY <1>2, <1>3, <1>10, <2>1
<1>12. Cur(g) <= m
  BY <1>2, <1>3, <1>6
<1>13. f.bufcnt # 0 /\ f.recno < m - 1 => NoZ(Padded(f))
  <2> SUFFICES ASSUME f.bufcnt # 0, f.recno < m - 1 PROVE NoZ(Padded(f))
    OBVIOUS
  <2>1. m = n
    BY <1>2, <1>3
  <2> QED BY <1>1, <1>6, <2>1 DEF Shaped
<1>14. Is(f, "canWrite") /\ f.recno = m /\ m > 0 => NoZ(e[m - 1])
  BY <1>1, <1>6, <1>10 DEF Shaped
<1>15. ~Is(f, "canRead") /\ ~f.moved => f.recno >= m - 1
  BY <1>1, <1>2, <1>3 DEF Shaped
<1>16. f.bufcnt = 0 => f.recno = m
  BY <1>1, <1>9 DEF Shaped
<1>17. f.bufcnt # 0 /\ ~Is(g, "dirty") /\ f.recno = m => Padded(f)[RecSize - 1] = CtrlZ
  BY <1>1, <1>6, <1>10, <1>11 DEF Shaped
<1>18. /\ f.bufcnt # 0 => Tailed(Padded(f))
       /\ f.bufcnt # 0 /\ Is(f, "canWrite") =>
            \A i \in Offs : i < f.bufpos => Padded(f)[i] # CtrlZ
       /\ Is(f, "canWrite")
  BY DEF Shaped
<1> QED BY <1>1, <1>4, <1>5, <1>6, <1>12, <1>13, <1>14, <1>15, <1>16, <1>17, <1>18 DEF Shaped

LEMMA NextRecShaped ==
  ASSUME Capacity < RecNos, NEW f \in FileType, NEW d, DiskOK(d), Is(f, "writing"),
         Steady(f, d), Shaped(f, d), Dense(d), f.bufpos = RecSize, ~Is(f, "dirty"),
         NEW g, g = NextRec(f, d)
  PROVE  Shaped(g, d)
<1>1. PICK n : n = NumRecs(d)
  OBVIOUS
<1>2. n \in Nat /\ n < RecNos /\ DOMAIN d = 0 .. n - 1 /\ f.recno \in Nat /\ f.recno <= n
  BY <1>1, LastRecord, Sizes DEF Dense, Shaped, Cur, FileType
<1>3. /\ f.bufcnt = RecSize /\ f.bufcnt # 0 /\ RecSize - 1 \in Offs
      /\ Is(f, "canWrite") /\ Cur(f) = f.recno
  BY Sizes DEF Steady, Shaped, Cur, FileType, Offs
<1>4. NoZ(Padded(f))
  BY <1>3, Sizes DEF Shaped, NoZ, Offs
<1>5. f.recno # n
  BY <1>1, <1>3, <1>4 DEF Shaped, NoZ
<1>6. f.recno \in DOMAIN d /\ f.recno < n
  BY <1>2, <1>5
<1>7. NoZ(d[f.recno])
  BY <1>3, <1>4, <1>6 DEF Steady
<1>8. NextNo(f.recno) = f.recno + 1
  <2>1. f.recno \in 0 .. RecNos - 1 /\ f.recno # RecNos - 1
    BY <1>2, <1>6, Sizes
  <2> QED BY <2>1, NextPrev
<1>9. /\ g \in FileType /\ g.flags = f.flags /\ g.moved = f.moved
      /\ g.recno = NextNo(f.recno) /\ g.bufpos = 0
  BY NextRecFacts
<1>10. /\ Is(g, "writing") /\ Is(g, "canWrite")
       /\ (Is(g, "canRead") <=> Is(f, "canRead"))
  BY <1>3, <1>9 DEF Is
<1>11. Cur(g) = f.recno + 1 /\ f.recno + 1 <= n
  BY <1>2, <1>6, <1>8, <1>9, <1>10 DEF Cur
<1>12. \/ g.bufcnt = RecSize /\ g.buf = d[g.recno] /\ g.recno \in DOMAIN d
       \/ g.bufcnt = 0 /\ ((Is(f, "canRead") \/ f.moved) => g.recno \notin DOMAIN d)
  BY <1>9, NextRecFacts
<1>13. g.bufcnt # 0 => /\ Padded(g) = d[g.recno] /\ g.recno \in DOMAIN d /\ g.recno # n
                       /\ Tailed(Padded(g)) /\ (g.recno < n - 1 => NoZ(Padded(g)))
  <2> SUFFICES ASSUME g.bufcnt # 0
               PROVE  /\ Padded(g) = d[g.recno] /\ g.recno \in DOMAIN d /\ g.recno # n
                      /\ Tailed(Padded(g)) /\ (g.recno < n - 1 => NoZ(Padded(g)))
    OBVIOUS
  <2>1. Padded(g) = d[g.recno] /\ g.recno \in DOMAIN d
    BY <1>9, <1>12, FullBuffer
  <2>2. g.recno # n
    BY <1>2, <2>1
  <2> QED BY <1>1, <2>1, <2>2 DEF Dense
<1>14. g.bufcnt = 0 => g.recno = n
  <2>1. CASE Is(f, "canRead") \/ f.moved
    BY <1>2, <1>3, <1>8, <1>9, <1>11, <1>12, <2>1
  <2>2. CASE ~(Is(f, "canRead") \/ f.moved)
    <3>1. f.recno >= n - 1
      BY <1>1, <2>2 DEF Shaped
    <3> QED BY <1>2, <1>6, <1>8, <1>9, <3>1
  <2> QED BY <2>1, <2>2
<1>15. ~Is(f, "canRead") /\ ~f.moved => g.recno >= n - 1
  BY <1>1, <1>2, <1>8, <1>9 DEF Shaped
<1>16. g.recno = n => NoZ(d[n - 1])
  BY <1>2, <1>7, <1>8, <1>9
<1>17. \A i \in Offs : ~(i < g.bufpos)
  BY <1>9, Sizes DEF Offs
<1>18. g.recno = f.recno + 1 /\ Cur(g) = g.recno
  BY <1>8, <1>9, <1>11
<1> QED BY <1>1, <1>9, <1>10, <1>11, <1>13, <1>14, <1>15, <1>16, <1>17, <1>18 DEF Shaped

LEMMA ToWriteShaped ==
  ASSUME Capacity < RecNos, NEW f \in FileType, NEW d, DiskOK(d), ~Is(f, "writing"),
         Is(f, "canWrite"), Steady(f, d), Shaped(f, d), Dense(d), NEW g, g = ToWrite(f, d)
  PROVE  Shaped(g, d)
<1>1. PICK n : n = NumRecs(d)
  OBVIOUS
<1>2. /\ n \in Nat /\ n < RecNos /\ DOMAIN d = 0 .. n - 1
      /\ Cur(f) \in Nat /\ Cur(f) <= n
  BY <1>1, LastRecord, Sizes, CurFacts DEF Dense, Shaped
<1>3. /\ g \in FileType /\ Is(g, "writing") /\ g.moved = f.moved /\ SameMode(g, f)
      /\ Is(g, "dirty") <=> Is(f, "dirty")
  BY ToWriteFacts
<1>4. /\ Is(g, "canWrite") /\ (Is(g, "canRead") <=> Is(f, "canRead"))
      /\ Cur(g) = g.recno /\ (Is(g, "append") <=> Is(f, "append"))
  BY <1>3 DEF SameMode, Cur
<1>5. ~Is(f, "canRead") => Is(f, "append")
  BY DEF Shaped
<1>6. CASE Is(f, "append")
  <2>0. /\ NumRecs(d) = 0 => g.recno = 0 /\ g.bufpos = 0 /\ g.bufcnt = 0
        /\ NumRecs(d) # 0 =>
             /\ NumRecs(d) - 1 \in DOMAIN d /\ g.recno = NumRecs(d) - 1
             /\ g.buf = d[NumRecs(d) - 1]
             /\ g.bufpos = FirstZ(d[NumRecs(d) - 1]) /\ g.bufcnt = RecSize
    BY <1>6, ToWriteFacts
  <2>1. CASE n = 0
    <3>1. g.recno = 0 /\ g.bufpos = 0 /\ g.bufcnt = 0
      BY <1>1, <2>0, <2>1
    <3> QED BY <1>1, <1>3, <1>4, <2>1, <3>1 DEF Shaped
  <2>2. CASE n # 0
    <3>1. /\ n - 1 \in DOMAIN d /\ g.recno = n - 1 /\ g.buf = d[n - 1]
          /\ g.bufpos = FirstZ(d[n - 1]) /\ g.bufcnt = RecSize
      BY <1>1, <2>0, <2>2
    <3>2. Padded(g) = d[n - 1] /\ d[n - 1] \in Record
      <4>1. d[n - 1] \in Record
        BY <3>1 DEF DiskOK
      <4> QED BY <1>3, <3>1, <4>1, FullBuffer
    <3>3. Tailed(Padded(g)) /\ \A i \in Offs : i < g.bufpos => Padded(g)[i] # CtrlZ
      BY <3>1, <3>2, FirstZFacts DEF Dense
    <3>4. g.recno <= n /\ g.recno # n /\ ~(g.recno < n - 1) /\ g.recno >= n - 1
      BY <1>2, <3>1
    <3>5. g.bufcnt # 0
      BY <3>1, Sizes
    <3> QED BY <1>1, <1>3, <1>4, <3>1, <3>3, <3>4, <3>5 DEF Shaped
  <2> QED BY <2>1, <2>2
<1>7. CASE ~Is(f, "append") /\ f.bufcnt = 0
  <2>1. /\ g.recno = f.recno /\ g.bufpos = Undone(f)
        /\ f.recno \in DOMAIN d => g.buf = d[f.recno] /\ g.bufcnt = RecSize
        /\ f.recno \notin DOMAIN d => g.buf = f.buf /\ g.bufcnt = 0
    BY <1>7, ToWriteFacts
  <2>2. g.bufpos = 0 /\ Cur(f) = f.recno
    BY <1>7, <2>1, Sizes DEF Undone, Steady, Cur, FileType
  <2>3. \A i \in Offs : ~(i < g.bufpos)
    BY <2>2, Sizes DEF Offs
  <2>4. n > 0 /\ g.recno = n => NoZ(d[n - 1])
    BY <1>1, <2>1, <2>2 DEF Shaped
  <2>5. CASE f.recno \in DOMAIN d
    <3>1. Padded(g) = d[f.recno] /\ g.bufcnt # 0 /\ g.recno # n
      BY <1>2, <1>3, <2>1, <2>5, FullBuffer, Sizes
    <3>2. Tailed(Padded(g)) /\ (g.recno < n - 1 => NoZ(Padded(g)))
      BY <1>1, <2>1, <2>5, <3>1 DEF Dense
    <3> QED BY <1>1, <1>2, <1>3, <1>4, <1>5, <1>7, <2>1, <2>2, <2>3, <3>1, <3>2 DEF Shaped
  <2>6. CASE f.recno \notin DOMAIN d
    <3>1. f.recno = n
      BY <1>2, <2>2, <2>6
    <3> QED BY <1>1, <1>2, <1>3, <1>4, <1>5, <1>7, <2>1, <2>2, <2>4, <2>6, <3>1 DEF Shaped
  <2> QED BY <2>5, <2>6
<1>8. CASE ~Is(f, "append") /\ f.bufcnt # 0
  <2>1. /\ g.recno = PrevNo(f.recno) /\ g.buf = f.buf /\ g.bufcnt = f.bufcnt
        /\ g.bufpos = Undone(f)
    BY <1>8, ToWriteFacts
  <2>2. Cur(f) = g.recno
    BY <1>8, <2>1 DEF Cur
  <2>3. g.bufpos <= f.bufpos /\ f.bufpos <= f.bufcnt /\ f.bufpos \in Nat /\ g.bufpos \in Nat
    BY <2>1, Sizes DEF Undone, Steady, FileType
  <2>4. Padded(g) = Padded(f)
    <3>1. Valid(g) = Valid(f)
      BY <2>1, <2>3, Sizes DEF Valid, FileType
    <3> QED BY <2>1, <3>1 DEF Padded
  <2>5. \A i \in Offs : i < g.bufpos => i < f.bufpos
    BY <2>3, Sizes DEF Offs
  <2>6. /\ \A i \in Offs : i < f.bufpos => Padded(f)[i] # CtrlZ
        /\ Tailed(Padded(f)) /\ (g.recno < n - 1 => NoZ(Padded(f)))
        /\ n > 0 /\ g.recno = n => NoZ(d[n - 1])
        /\ ~Is(f, "dirty") /\ g.recno = n => Padded(f)[RecSize - 1] = CtrlZ
    BY <1>1, <1>8, <2>2 DEF Shaped
  <2> QED BY <1>1, <1>2, <1>3, <1>4, <1>5, <1>8, <2>1, <2>2, <2>4, <2>5, <2>6 DEF Shaped
<1> QED BY <1>6, <1>7, <1>8

LEMMA ToReadShaped ==
  ASSUME Capacity < RecNos, NEW f \in FileType, NEW d, DiskOK(d), Is(f, "writing"),
         Steady(f, d), Shaped(f, d), Dense(d), NEW g, g = ToRead(f, d),
         NEW e, e = IF Is(f, "canRead") THEN FlushedDisk(f, d) ELSE d
  PROVE  Shaped(g, e)
<1>1. CASE ~Is(f, "canRead")
  <2>1. /\ e = d /\ g \in FileType /\ g.bufpos = f.bufpos /\ g.bufcnt = f.bufcnt
        /\ g.recno = f.recno /\ g.buf = f.buf /\ g.moved = f.moved /\ SameMode(g, f)
        /\ Is(g, "writing") <=> Is(f, "writing")
        /\ Is(g, "dirty") <=> Is(f, "dirty")
    BY <1>1, ToReadFacts
  <2> QED BY <2>1, SameShape
<1>2. CASE Is(f, "canRead") /\ FlushFails(f, d)
  <2>1. g = Flushed(f, d) /\ e = FlushedDisk(f, d)
    BY <1>2, ToReadFacts
  <2> QED BY <2>1, FlushShaped
<1>3. CASE Is(f, "canRead") /\ ~FlushFails(f, d)
  <2>1. PICK h, n : h = Flushed(f, d) /\ n = NumRecs(e)
    OBVIOUS
  <2>2. e = FlushedDisk(f, d)
    BY <1>3
  <2>3. /\ Shaped(h, e) /\ Steady(h, e) /\ h \in FileType
    BY <2>1, <2>2, FlushShaped, FlushSteady, FlushFile
  <2>4. /\ h.bufpos = f.bufpos /\ h.bufcnt = f.bufcnt /\ h.recno = f.recno
        /\ h.moved = f.moved /\ SameMode(h, f) /\ Is(h, "writing") /\ ~Is(h, "dirty")
        /\ Padded(h) = Padded(f)
    BY <1>3, <2>1, FlushFile
  <2>5. /\ g \in FileType /\ g.moved = f.moved /\ g.bufpos = f.bufpos /\ SameMode(g, f)
        /\ ~Is(g, "writing") /\ ~Is(g, "dirty")
        /\ Valid(f) = 0 => g.recno = f.recno /\ g.bufcnt = f.bufcnt /\ g.buf = f.buf
        /\ Valid(f) # 0 => /\ g.recno = NextNo(f.recno) /\ g.bufcnt = RecSize
                           /\ g.buf = Padded(f)
    BY <1>3, ToReadFacts
  <2>6. Valid(f) = f.bufcnt
    BY PaddedFacts DEF Steady
  <2>7. /\ Is(h, "canWrite") /\ Is(h, "canRead") /\ Is(g, "canWrite") /\ Is(g, "canRead")
    BY <1>3, <2>3, <2>4, <2>5 DEF SameMode, Shaped
  <2>8. f.recno \in 0 .. RecNos - 1
    BY DEF FileType
  <2>9. Cur(g) = f.recno /\ Cur(h) = f.recno
    BY <2>4, <2>5, <2>6, <2>8, NextPrev, Sizes DEF Cur
  <2>10. CASE f.bufcnt = 0
    BY <2>1, <2>3, <2>4, <2>5, <2>6, <2>7, <2>9, <2>10 DEF Shaped
  <2>11. CASE f.bufcnt # 0
    <3>1. g.bufcnt = RecSize /\ g.buf = Padded(f)
      BY <2>5, <2>6, <2>11
    <3>2. Padded(g) = Padded(f)
      BY <2>5, <3>1, FullBuffer
    <3> QED BY <2>1, <2>3, <2>4, <2>5, <2>7, <2>9, <2>11, <3>2 DEF Shaped
  <2> QED BY <2>10, <2>11
<1> QED BY <1>1, <1>2, <1>3

\* What the record becomes when a byte is stored.
LEMMA StoredPadded ==
  ASSUME NEW f \in FileType, f.bufpos <= f.bufcnt, f.bufpos < RecSize, NEW c, c \in 0 .. 255,
         NEW g, g = Stored(f, c)
  PROVE  /\ f.bufpos \in Offs /\ Padded(g)[f.bufpos] = c
         /\ \A i \in Offs : i # f.bufpos => Padded(g)[i] = Padded(f)[i]
<1>1. /\ g \in FileType /\ g.bufpos = f.bufpos + 1 /\ g.buf[f.bufpos] = c
      /\ \A i \in Offs : i # f.bufpos => g.buf[i] = f.buf[i]
      /\ g.bufcnt = IF f.bufcnt < f.bufpos + 1 THEN f.bufpos + 1 ELSE f.bufcnt
      /\ g.bufpos <= g.bufcnt
  BY StoredFacts
<1>2. f.bufpos \in Offs /\ f.bufpos \in Nat /\ f.bufcnt \in Nat
  BY Sizes DEF FileType, Offs
<1>3. Valid(g) = g.bufcnt /\ Valid(f) = f.bufcnt
  BY <1>1, PaddedFacts
<1>4. f.bufpos < Valid(g)
  BY <1>1, <1>2, <1>3
<1>5. Padded(g)[f.bufpos] = c
  BY <1>1, <1>2, <1>4, PaddedFacts
<1>6. \A i \in Offs : i # f.bufpos => Padded(g)[i] = Padded(f)[i]
  <2> SUFFICES ASSUME NEW i \in Offs, i # f.bufpos PROVE Padded(g)[i] = Padded(f)[i]
    OBVIOUS
  <2>1. i < Valid(g) <=> i < Valid(f)
    BY <1>1, <1>2, <1>3, Sizes DEF Offs
  <2>2. /\ Padded(g)[i] = IF i < Valid(g) THEN g.buf[i] ELSE CtrlZ
        /\ Padded(f)[i] = IF i < Valid(f) THEN f.buf[i] ELSE CtrlZ
    BY <1>1, PaddedFacts
  <2> QED BY <1>1, <2>1, <2>2
<1> QED BY <1>2, <1>5, <1>6

LEMMA StoredShaped ==
  ASSUME NEW f \in FileType, NEW d, Is(f, "writing"), Steady(f, d), Shaped(f, d),
         f.bufpos < RecSize, NEW c, c \in 0 .. 255, c # CtrlZ, NEW g, g = Stored(f, c),
         NumRecs(d) \in Nat
  PROVE  Shaped(g, d)
<1>1. PICK n : n = NumRecs(d)
  OBVIOUS
<1>2. /\ g \in FileType /\ g.bufpos = f.bufpos + 1 /\ g.moved = f.moved /\ g.recno = f.recno
      /\ g.bufpos <= g.bufcnt /\ SameMode(g, f) /\ Is(g, "writing") /\ Is(g, "dirty")
  BY StoredFacts
<1>3. f.bufpos <= f.bufcnt /\ f.bufpos \in Nat /\ f.bufcnt \in Nat
  BY Sizes DEF Steady, FileType
<1>4. /\ f.bufpos \in Offs /\ Padded(g)[f.bufpos] = c
      /\ \A i \in Offs : i # f.bufpos => Padded(g)[i] = Padded(f)[i]
  BY <1>3, StoredPadded
<1>5. /\ Is(g, "canWrite") /\ Is(f, "canWrite") /\ (Is(g, "canRead") <=> Is(f, "canRead"))
      /\ (Is(g, "append") <=> Is(f, "append"))
  BY <1>2 DEF SameMode, Shaped
<1>6. Cur(g) = f.recno /\ Cur(f) = f.recno
  BY <1>2 DEF Cur
<1>7. g.bufcnt # 0
  BY <1>2, <1>3 DEF FileType
<1>8. \A i \in Offs : i < f.bufpos => Padded(f)[i] # CtrlZ
  <2>1. CASE f.bufcnt = 0
    BY <1>3, <2>1, Sizes DEF Offs
  <2>2. CASE f.bufcnt # 0
    BY <1>5, <2>2 DEF Shaped
  <2> QED BY <2>1, <2>2
<1>9. \A i, j \in Offs : i > f.bufpos /\ i <= j /\ Padded(f)[i] = CtrlZ => Padded(f)[j] = CtrlZ
  <2>1. CASE f.bufcnt = 0
    <3>1. Valid(f) = 0
      BY <1>3, <2>1, PaddedFacts
    <3> QED BY <3>1, PaddedFacts, Sizes DEF Offs
  <2>2. CASE f.bufcnt # 0
    BY <2>2 DEF Shaped, Tailed
  <2> QED BY <2>1, <2>2
<1>10. Tailed(Padded(g))
  <2> SUFFICES ASSUME NEW i \in Offs, NEW j \in Offs, i <= j, Padded(g)[i] = CtrlZ
               PROVE  Padded(g)[j] = CtrlZ
    BY DEF Tailed
  <2>1. i # f.bufpos /\ Padded(f)[i] = CtrlZ
    BY <1>4
  <2>2. i > f.bufpos
    BY <1>3, <1>8, <2>1, Sizes DEF Offs
  <2>3. Padded(f)[j] = CtrlZ /\ j # f.bufpos
    BY <1>3, <1>9, <2>1, <2>2, Sizes DEF Offs
  <2> QED BY <1>4, <2>3
<1>11. f.recno < n - 1 => NoZ(Padded(g))
  <2>1. f.bufcnt # 0 \/ f.recno = n
    BY <1>1 DEF Shaped
  <2> SUFFICES ASSUME f.recno < n - 1 PROVE NoZ(Padded(g))
    OBVIOUS
  <2>2. f.bufcnt # 0
    BY <1>1, <2>1, Sizes DEF FileType
  <2>3. NoZ(Padded(f))
    BY <1>1, <1>6, <2>2 DEF Shaped
  <2> QED BY <1>4, <2>3 DEF NoZ
<1>12. \A i \in Offs : i < g.bufpos => Padded(g)[i] # CtrlZ
  <2> SUFFICES ASSUME NEW i \in Offs, i < g.bufpos PROVE Padded(g)[i] # CtrlZ
    OBVIOUS
  <2>1. i = f.bufpos \/ i < f.bufpos
    BY <1>2, <1>3, Sizes DEF Offs
  <2> QED BY <1>4, <1>8, <2>1
<1>13. /\ Cur(f) <= n
       /\ f.recno = n /\ n > 0 => NoZ(d[n - 1])
       /\ ~Is(f, "canRead") /\ ~f.moved => f.recno >= n - 1
  BY <1>1, <1>5, <1>6 DEF Shaped
<1> QED BY <1>1, <1>2, <1>5, <1>6, <1>7, <1>10, <1>11, <1>12, <1>13 DEF Shaped

\* Before the position that a stream which writes is given there is no Ctrl-Z.
FilledTo(d, to) ==
  /\ RecOf(to) >= NumRecs(d) => (NumRecs(d) > 0 => NoZ(d[NumRecs(d) - 1]))
  /\ RecOf(to) \in DOMAIN d => \A i \in Offs : i < OffOf(to) => d[RecOf(to)][i] # CtrlZ

LEMMA GapDense ==
  ASSUME NEW d, DiskOK(d), Dense(d), NEW to \in 0 .. MaxOffset, NEW e, e = GapFilled(d, to)
  PROVE  Dense(e) /\ FilledTo(e, to)
<1>1. PICK n : n = NumRecs(d)
  OBVIOUS
<1>2. n \in Nat /\ DOMAIN d = 0 .. n - 1
  BY <1>1, LastRecord, Sizes DEF Dense
<1>3. PICK r, o, u : r = RecOf(to) /\ o = OffOf(to) /\ u = Upto(d, to)
  OBVIOUS
<1>4. r \in Nat /\ o \in 0 .. RecSize - 1
  BY <1>3, Divided, Sizes
<1>5. /\ r > n - 1 => u = RecSize
      /\ r = n - 1 => u = o
      /\ r < n - 1 => u = 0
  BY <1>1, <1>2, <1>3, <1>4 DEF Upto
<1>6. /\ DOMAIN e = DOMAIN d /\ NumRecs(e) = n
      /\ \A x \in DOMAIN d : x # n - 1 \/ n = 0 => e[x] = d[x]
  BY <1>1, GapFacts
<1>7. CASE n = 0
  BY <1>1, <1>2, <1>3, <1>6, <1>7 DEF Dense, FilledTo
<1>8. CASE n # 0
  <2>1. PICK b, k, l : b = d[n - 1] /\ k = e[n - 1] /\ l = DataLen(b)
    OBVIOUS
  <2>2. \A i \in Offs : k[i] = IF l <= i /\ i < u THEN 0 ELSE b[i]
    BY <1>1, <1>3, <1>8, <2>1, GapFacts
  <2>3. n - 1 \in DOMAIN d /\ b \in Record /\ Tailed(b)
    BY <1>1, <1>2, <1>8, <2>1 DEF Dense, DiskOK
  <2>4. /\ l \in 0 .. RecSize
        /\ \A i \in Offs : i >= l => b[i] = CtrlZ
        /\ l > 0 => b[l - 1] # CtrlZ
    BY <2>1, <2>3, DataLenFacts
  <2>5. \A i \in Offs : i < l => b[i] # CtrlZ
    <3> SUFFICES ASSUME NEW i \in Offs, i < l, b[i] = CtrlZ PROVE FALSE
      OBVIOUS
    <3>1. l - 1 \in Offs /\ i <= l - 1 /\ l > 0
      BY <2>4, Sizes DEF Offs
    <3> QED BY <2>3, <2>4, <3>1 DEF Tailed
  <2>6. u \in 0 .. RecSize
    BY <1>2, <1>4, <1>5, Sizes
  <2>7. \A i \in Offs : i < l \/ i < u => k[i] # CtrlZ
    BY <2>2, <2>4, <2>5, <2>6, Sizes DEF Offs, CtrlZ
  <2>8. \A i \in Offs : ~(i < l \/ i < u) => k[i] = CtrlZ
    BY <2>2, <2>4, <2>6, Sizes DEF Offs
  <2>9. Tailed(k)
    <3> SUFFICES ASSUME NEW i \in Offs, NEW j \in Offs, i <= j, k[i] = CtrlZ PROVE k[j] = CtrlZ
      BY DEF Tailed
    <3>1. ~(i < l \/ i < u)
      BY <2>7
    <3>2. ~(j < l \/ j < u)
      BY <2>4, <2>6, <3>1, Sizes DEF Offs
    <3> QED BY <2>8, <3>2
  <2>10. Dense(e)
    <3>1. \A x \in DOMAIN e : Tailed(e[x])
      BY <1>6, <2>1, <2>9 DEF Dense
    <3>2. \A x \in DOMAIN e : x < n - 1 => NoZ(e[x])
      BY <1>1, <1>2, <1>6 DEF Dense
    <3> QED BY <1>2, <1>6, <3>1, <3>2 DEF Dense
  <2>11. r >= n => NoZ(k)
    <3> SUFFICES ASSUME r >= n PROVE NoZ(k)
      OBVIOUS
    <3>1. u = RecSize
      BY <1>2, <1>4, <1>5
    <3>2. \A i \in Offs : i < u
      BY <3>1, Sizes DEF Offs
    <3> QED BY <2>7, <3>2 DEF NoZ
  <2>12. r \in DOMAIN e => \A i \in Offs : i < o => e[r][i] # CtrlZ
    <3> SUFFICES ASSUME r \in DOMAIN e, NEW i \in Offs, i < o PROVE e[r][i] # CtrlZ
      OBVIOUS
    <3>1. r = n - 1 \/ r < n - 1
      BY <1>2, <1>4, <1>6
    <3>2. CASE r = n - 1
      BY <1>5, <2>1, <2>7, <3>2
    <3>3. CASE r < n - 1
      BY <1>6, <2>10, <3>3 DEF Dense, NoZ
    <3> QED BY <3>1, <3>2, <3>3
  <2> QED BY <1>3, <1>6, <2>1, <2>10, <2>11, <2>12 DEF FilledTo
<1> QED BY <1>7, <1>8

LEMMA PlacedShaped ==
  ASSUME NEW f \in FileType, NEW d, DiskOK(d), Dense(d), NEW to \in 0 .. MaxOffset,
         Is(f, "canWrite") => FilledTo(d, to),
         Is(f, "writing") => Is(f, "canWrite"),
         Is(f, "canWrite") /\ ~Is(f, "canRead") /\ ~Is(f, "append") => Is(f, "writing"),
         \/ RecOf(to) < NumRecs(d)
         \/ /\ RecOf(to) = NumRecs(d)
            /\ OffOf(to) = 0 \/ (Is(f, "writing") /\ ~Is(f, "append")),
         NEW g, g = Placed(f, d, to)
  PROVE  Shaped(g, d)
<1> DEFINE w == Is(f, "writing") /\ ~Is(f, "append")
<1>1. PICK n, r, o : n = NumRecs(d) /\ r = RecOf(to) /\ o = OffOf(to)
  OBVIOUS
<1>2. /\ n \in Nat /\ DOMAIN d = 0 .. n - 1 /\ r \in Nat /\ o \in 0 .. RecSize - 1
      /\ r <= n /\ (r = n => o = 0 \/ w) /\ (r \in DOMAIN d <=> r # n)
      /\ r \in 0 .. RecNos - 1
  <2>1. n \in Nat /\ DOMAIN d = 0 .. n - 1
    BY <1>1, LastRecord, Sizes DEF Dense
  <2>2. r \in 0 .. RecNos - 1 /\ r \in Nat /\ o \in 0 .. RecSize - 1
    BY <1>1, Divided, Sizes
  <2>3. r < n \/ (r = n /\ (o = 0 \/ w))
    BY <1>1
  <2> QED BY <2>1, <2>2, <2>3
<1>3. /\ g \in FileType /\ g.moved /\ SameMode(g, f) /\ (Is(g, "writing") <=> w)
      /\ ~w /\ (o = 0 \/ r \notin DOMAIN d) => g.bufpos = 0 /\ g.bufcnt = 0 /\ g.recno = r
      /\ (w \/ o # 0) /\ r \in DOMAIN d =>
           /\ g.bufpos = o /\ g.bufcnt = RecSize /\ g.buf = d[r]
           /\ w => g.recno = r
           /\ ~w => g.recno = NextNo(r)
      /\ w /\ r \notin DOMAIN d => g.bufpos = o /\ g.bufcnt = o /\ g.recno = r
  BY <1>1, PlacedFacts
<1>4. w /\ r \notin DOMAIN d => \A i \in Offs : g.buf[i] = 0
  BY <1>1, PlacedFacts
<1>5. /\ Is(g, "canWrite") <=> Is(f, "canWrite")
      /\ Is(g, "canRead") <=> Is(f, "canRead")
      /\ Is(g, "append") <=> Is(f, "append")
  BY <1>3 DEF SameMode
<1>6. /\ w => Is(f, "canWrite")
      /\ Is(g, "canWrite") /\ ~Is(g, "canRead") /\ ~Is(g, "append") => w
  BY <1>5
<1>7. Is(f, "canWrite") /\ r = n /\ n > 0 => NoZ(d[n - 1])
  BY <1>1, <1>2 DEF FilledTo
<1>8. Is(f, "canWrite") /\ r \in DOMAIN d => \A i \in Offs : i < o => d[r][i] # CtrlZ
  BY <1>1 DEF FilledTo
<1> HIDE DEF w
<1>9. CASE ~w /\ (o = 0 \/ r \notin DOMAIN d)
  <2>1. g.bufcnt = 0 /\ Cur(g) = r
    BY <1>3, <1>9 DEF Cur
  <2> QED BY <1>1, <1>2, <1>3, <1>5, <1>6, <1>7, <1>9, <2>1 DEF Shaped
<1>10. CASE (w \/ o # 0) /\ r \in DOMAIN d
  <2>1. /\ g.bufpos = o /\ g.bufcnt = RecSize /\ g.buf = d[r] /\ g.bufcnt # 0
        /\ Padded(g) = d[r]
    BY <1>3, <1>10, FullBuffer, Sizes
  <2>2. Cur(g) = r
    BY <1>2, <1>3, <1>10, <2>1, NextPrev DEF Cur
  <2>3. Tailed(d[r]) /\ (r < n - 1 => NoZ(d[r]))
    BY <1>1, <1>10 DEF Dense
  <2> QED BY <1>1, <1>2, <1>3, <1>5, <1>6, <1>7, <1>8, <1>10, <2>1, <2>2, <2>3 DEF Shaped
<1>11. CASE w /\ r \notin DOMAIN d
  <2>1. g.bufpos = o /\ g.bufcnt = o /\ g.recno = r /\ r = n /\ Cur(g) = r
    BY <1>2, <1>3, <1>11 DEF Cur
  <2>2. Valid(g) = o
    BY <1>3, <1>2, <2>1, PaddedFacts
  <2>3. \A i \in Offs : Padded(g)[i] = IF i < o THEN 0 ELSE CtrlZ
    BY <1>3, <1>4, <1>11, <2>2, PaddedFacts
  <2>4. Tailed(Padded(g))
    BY <1>2, <2>3, Sizes DEF Tailed, Offs, CtrlZ
  <2>5. \A i \in Offs : i < o => Padded(g)[i] # CtrlZ
    BY <2>3 DEF CtrlZ
  <2>6. Padded(g)[RecSize - 1] = CtrlZ
    BY <1>2, <2>3, Sizes DEF Offs
  <2>7. ~(r < n - 1)
    BY <1>2, <2>1
  <2> QED BY <1>1, <1>2, <1>3, <1>5, <1>6, <1>7, <1>11, <2>1, <2>4, <2>5, <2>6, <2>7 DEF Shaped
<1> QED BY <1>9, <1>10, <1>11

-----------------------------------------------------------------------------
(* The invariant of a FILE and the disk, and the operators that keep it.    *)

\* A program that makes no failing SEEK_END and leaves no hole, and a disk
\* with room for fewer records than the numbers count.
NoHoles == Wild \cap {"hole", "seekFails"} = {} /\ Capacity < RecNos

\* Only an append stream, which will go to the end first, reads with a record
\* that a failed flush left.
Settled(f) == Is(f, "dirty") => Is(f, "writing") \/ Is(f, "append")

Good(f, d) ==
  /\ f \in FileType /\ DiskOK(d)
  /\ ~Is(f, "open") => f.flags = {}
  /\ Settled(f)
  /\ NoHoles => Dense(d)
  /\ Is(f, "open") /\ "seekFails" \notin Wild => Steady(f, d)
  /\ Is(f, "open") /\ NoHoles => Shaped(f, d)

LEMMA NoHolesFacts == NoHoles => "seekFails" \notin Wild /\ "hole" \notin Wild /\ Capacity < RecNos
  BY DEF NoHoles

LEMMA SameGood ==
  ASSUME NEW f, NEW d, Good(f, d), Is(f, "open"), NEW g \in FileType,
         g.bufpos = f.bufpos, g.bufcnt = f.bufcnt, g.recno = f.recno, g.buf = f.buf,
         g.moved = f.moved, SameMode(g, f),
         Is(g, "writing") <=> Is(f, "writing"), Is(g, "dirty") <=> Is(f, "dirty")
  PROVE  Good(g, d) /\ Is(g, "open")
<1>1. Is(g, "open")
  BY DEF SameMode
<1>2. f \in FileType
  BY DEF Good
<1>3. Settled(g)
  BY DEF Settled, SameMode, Good
<1> QED BY <1>1, <1>2, <1>3, SameShape DEF Good

LEMMA FlushGood ==
  ASSUME NEW f, NEW d, Good(f, d), Is(f, "open"), Is(f, "writing"),
         NEW g, g = Flushed(f, d), NEW e, e = FlushedDisk(f, d)
  PROVE  Good(g, e) /\ Is(g, "open") /\ Is(g, "writing")
<1>1. f \in FileType /\ DiskOK(d)
  BY DEF Good
<1>2. g \in FileType /\ DiskOK(e) /\ SameMode(g, f) /\ Is(g, "writing")
  BY <1>1, FlushFile, FlushDisk
<1>3. Is(g, "open")
  BY <1>2 DEF SameMode
<1>4. "seekFails" \notin Wild => Steady(g, e)
  BY <1>1, FlushSteady DEF Good
<1>5. NoHoles => Dense(e) /\ Shaped(g, e)
  BY <1>1, NoHolesFacts, FlushDense, FlushShaped DEF Good
<1> QED BY <1>2, <1>3, <1>4, <1>5 DEF Good, Settled

LEMMA ToReadGood ==
  ASSUME NEW f, NEW d, Good(f, d), Is(f, "open"), Is(f, "writing"), NEW g, g = ToRead(f, d),
         NEW e, e = IF Is(f, "canRead") THEN FlushedDisk(f, d) ELSE d
  PROVE  Good(g, e) /\ Is(g, "open")
<1>1. f \in FileType /\ DiskOK(d)
  BY DEF Good
<1>2. g \in FileType /\ SameMode(g, f)
  BY <1>1, ToReadFacts
<1>3. Is(g, "open")
  BY <1>2 DEF SameMode
<1>4. PICK h : h = FlushedDisk(f, d)
  OBVIOUS
<1>5. DiskOK(h) /\ (NoHoles => Dense(h))
  BY <1>1, <1>4, NoHolesFacts, FlushDisk, FlushDense DEF Good
<1>6. DiskOK(e) /\ (NoHoles => Dense(e))
  BY <1>1, <1>4, <1>5 DEF Good
<1>7. "seekFails" \notin Wild => Steady(g, e)
  BY <1>1, ToReadSteady DEF Good
<1>8. NoHoles => Shaped(g, e)
  BY <1>1, NoHolesFacts, ToReadShaped DEF Good
<1>9. Settled(g)
  <2>1. /\ ~Is(f, "canRead") => Is(g, "writing")
        /\ Is(f, "canRead") /\ FlushFails(f, d) => g = Flushed(f, d)
        /\ Is(f, "canRead") /\ ~FlushFails(f, d) => ~Is(g, "dirty")
    BY <1>1, ToReadFacts
  <2>2. g = Flushed(f, d) => Is(g, "writing")
    BY <1>1, FlushFile
  <2> QED BY <2>1, <2>2 DEF Settled
<1> QED BY <1>9, <1>2, <1>3, <1>6, <1>7, <1>8 DEF Good

LEMMA ToWriteGood ==
  ASSUME NEW f, NEW d, Good(f, d), Is(f, "open"), ~Is(f, "writing"), NEW g, g = ToWrite(f, d)
  PROVE  /\ Good(g, d) /\ Is(g, "open")
         /\ Is(g, "writing") <=> Is(f, "canWrite")
<1>1. f \in FileType /\ DiskOK(d)
  BY DEF Good
<1>2. CASE Is(f, "canWrite")
  <2>1. g \in FileType /\ SameMode(g, f) /\ Is(g, "writing")
    BY <1>1, <1>2, ToWriteFacts
  <2>2. Is(g, "open")
    BY <2>1 DEF SameMode
  <2>3. "seekFails" \notin Wild => Steady(g, d)
    BY <1>1, ToWriteSteady DEF Good
  <2>4. NoHoles => Shaped(g, d)
    BY <1>1, <1>2, NoHolesFacts, ToWriteShaped DEF Good
  <2> QED BY <1>1, <1>2, <2>1, <2>2, <2>3, <2>4 DEF Good, Settled
<1>3. CASE ~Is(f, "canWrite")
  <2>1. g = Raise(f, "error")
    BY <1>3 DEF ToWrite
  <2>2. /\ g \in FileType /\ g.bufpos = f.bufpos /\ g.bufcnt = f.bufcnt
        /\ g.recno = f.recno /\ g.buf = f.buf /\ g.moved = f.moved
        /\ g.flags = f.flags \cup {"error"}
    BY <1>1, <2>1 DEF Raise, FileType, Flags
  <2>3. /\ SameMode(g, f) /\ (Is(g, "writing") <=> Is(f, "writing"))
        /\ Is(g, "dirty") <=> Is(f, "dirty")
    BY <2>2 DEF SameMode, Is
  <2> QED BY <1>3, <2>2, <2>3, SameGood
<1> QED BY <1>2, <1>3

LEMMA NextRecGood ==
  ASSUME NEW f, NEW d, Good(f, d), Is(f, "open"), Is(f, "writing"),
         f.bufpos = RecSize, ~Is(f, "dirty"), NEW g, g = NextRec(f, d)
  PROVE  /\ Good(g, d) /\ Is(g, "open") /\ Is(g, "writing") /\ g.bufpos < RecSize
<1>1. f \in FileType /\ DiskOK(d)
  BY DEF Good
<1>2. g \in FileType /\ g.flags = f.flags /\ g.bufpos = 0
  BY <1>1, NextRecFacts
<1>3. Is(g, "open") /\ Is(g, "writing")
  BY <1>2 DEF Is
<1>4. "seekFails" \notin Wild => Steady(g, d)
  BY <1>1, NextRecSteady
<1>5. NoHoles => Shaped(g, d)
  BY <1>1, NoHolesFacts, NextRecShaped DEF Good
<1> QED BY <1>1, <1>2, <1>3, <1>4, <1>5, Sizes DEF Good, Settled

LEMMA StoredGood ==
  ASSUME NEW f, NEW d, Good(f, d), Is(f, "open"), Is(f, "writing"),
         f.bufpos < RecSize, NEW c, c \in 0 .. 255, c # CtrlZ, NEW g, g = Stored(f, c)
  PROVE  Good(g, d) /\ Is(g, "open")
<1>1. f \in FileType /\ DiskOK(d)
  BY DEF Good
<1>2. g \in FileType /\ SameMode(g, f)
  BY <1>1, StoredFacts
<1>3. Is(g, "open")
  BY <1>2 DEF SameMode
<1>4. "seekFails" \notin Wild => Steady(g, d)
  BY <1>1, StoredSteady
<1>5. NumRecs(d) \in Nat
  BY <1>1, LastRecord, Sizes
<1>6. NoHoles => Shaped(g, d)
  BY <1>1, <1>5, NoHolesFacts, StoredShaped DEF Good
<1>7. Is(g, "writing")
  BY <1>1, StoredFacts
<1>8. Settled(g)
  BY <1>7 DEF Settled
<1> QED BY <1>1, <1>2, <1>3, <1>4, <1>6, <1>8 DEF Good

\* The FILE k has another buffer than f: SEEK_END has read the last record.
LEMMA PlacedGood ==
  ASSUME NEW k, NEW d, Good(k, d), Is(k, "open"), NEW f \in FileType, f.flags = k.flags,
         NEW to, to \in 0 .. MaxOffset,
         NEW e, e = IF Is(f, "canWrite") THEN GapFilled(d, to) ELSE d,
         NoHoles => \/ RecOf(to) < NumRecs(d)
                    \/ /\ RecOf(to) = NumRecs(d)
                       /\ OffOf(to) = 0 \/ (Is(f, "writing") /\ ~Is(f, "append")),
         NEW g, g = Placed(f, e, to)
  PROVE  Good(g, e) /\ Is(g, "open")
<1>1. f \in FileType /\ DiskOK(d) /\ Is(f, "open")
  BY DEF Good, Is
<1>2. PICK h : h = GapFilled(d, to)
  OBVIOUS
<1>3. /\ DiskOK(h) /\ NumRecs(h) = NumRecs(d)
      /\ NoHoles => Dense(h) /\ FilledTo(h, to)
  BY <1>1, <1>2, GapFacts, GapDense DEF Good
<1>4. /\ DiskOK(e) /\ NumRecs(e) = NumRecs(d)
      /\ NoHoles => Dense(e) /\ (Is(f, "canWrite") => FilledTo(e, to))
  BY <1>1, <1>2, <1>3 DEF Good
<1>5. PICK r, o : r = RecOf(to) /\ o = OffOf(to)
  OBVIOUS
<1>6. g \in FileType /\ SameMode(g, f)
  BY <1>1, <1>4, <1>5, PlacedFacts
<1>7. Is(g, "open")
  BY <1>1, <1>6 DEF SameMode
<1>8. Steady(g, e)
  BY <1>1, <1>4, PlacedSteady
<1>9. NoHoles => Shaped(g, e)
  <2> SUFFICES ASSUME NoHoles PROVE Shaped(g, e)
    OBVIOUS
  <2>1. /\ Is(f, "writing") => Is(f, "canWrite")
        /\ Is(f, "canWrite") /\ ~Is(f, "canRead") /\ ~Is(f, "append") => Is(f, "writing")
    BY DEF Good, Shaped, Is
  <2>2. \/ RecOf(to) < NumRecs(e)
        \/ /\ RecOf(to) = NumRecs(e)
           /\ OffOf(to) = 0 \/ (Is(f, "writing") /\ ~Is(f, "append"))
    BY <1>4
  <2> QED BY <1>1, <1>4, <2>1, <2>2, PlacedShaped
<1>10. Settled(g)
  <2>1. /\ Is(g, "writing") <=> Is(f, "writing") /\ ~Is(f, "append")
        /\ Is(g, "dirty") <=> Is(f, "dirty")
    BY <1>1, <1>4, <1>5, PlacedFacts
  <2>2. Settled(f)
    BY DEF Good, Settled, Is
  <2> QED BY <1>6, <2>1, <2>2 DEF Settled, SameMode
<1> QED BY <1>4, <1>6, <1>7, <1>8, <1>9, <1>10 DEF Good

\* fclose, and the first half of freopen
LEMMA ClosedGood ==
  ASSUME NEW f, NEW d, Good(f, d), Is(f, "open"),
         NEW g, g = ClosedFile(f, d), NEW e, e = ClosedDisk(f, d)
  PROVE  Good(g, e) /\ ~Is(g, "open")
<1>1. f \in FileType /\ DiskOK(d)
  BY DEF Good
<1>2. PICK h, k : h = Flushed(f, d) /\ k = FlushedDisk(f, d)
  OBVIOUS
<1>3. Is(f, "writing") => Good(h, k)
  BY <1>2, FlushGood
<1>4. PICK l : l = IF Is(f, "writing") THEN h ELSE f
  OBVIOUS
<1>5. l \in FileType /\ DiskOK(e) /\ (NoHoles => Dense(e))
  BY <1>1, <1>2, <1>3, <1>4 DEF Good, ClosedDisk
<1>6. g = [l EXCEPT !.flags = {}]
  BY <1>2, <1>4 DEF ClosedFile
<1>7. g \in FileType /\ g.flags = {}
  BY <1>5, <1>6 DEF FileType
<1>8. ~Is(g, "open")
  BY <1>7 DEF Is
<1>9. Settled(g)
  BY <1>7 DEF Settled, Is
<1> QED BY <1>5, <1>7, <1>8, <1>9 DEF Good

LEMMA ModeFacts ==
  ASSUME NEW m \in Modes
  PROVE  /\ ModeFlags[m] \subseteq Flags \ {"open", "eof", "error", "dirty"} /\ m # "closed"
         /\ "writing" \in ModeFlags[m] => "canWrite" \in ModeFlags[m]
         /\ "canWrite" \in ModeFlags[m] /\ "canRead" \notin ModeFlags[m]
              /\ "append" \notin ModeFlags[m] => "writing" \in ModeFlags[m]
<1>1. m \in {"r", "w", "a", "r+", "w+", "a+"}
  BY Sizes
<1> QED BY <1>1 DEF ModeFlags, Flags

\* A file just made.
LEMMA EmptyDisk == DiskOK(<<>>) /\ Dense(<<>>) /\ NumRecs(<<>>) = 0
<1>1. DOMAIN <<>> = {}
  OBVIOUS
<1>2. Cardinality(DOMAIN <<>>) = 0
  BY <1>1, FS_EmptySet
<1>3. DiskOK(<<>>)
  BY <1>1, <1>2, Sizes DEF DiskOK
<1>4. NumRecs(<<>>) = 0
  BY <1>1, <1>3, LastRecord
<1> QED BY <1>1, <1>3, <1>4 DEF Dense

\* fopen, and the second half of freopen
LEMMA OpenGood ==
  ASSUME NEW f, NEW d, Good(f, d), ~Is(f, "open"), NEW m \in Modes, OpenAt(f, d, m)
  PROVE  /\ there' \in BOOLEAN /\ mode' \in Modes \cup {"closed"}
         /\ Good(file', recs') /\ (mode' = "closed" <=> ~Is(file', "open"))
<1> DEFINE h == [f EXCEPT !.flags = {}, !.unget = None, !.bufpos = 0, !.bufcnt = 0,
                          !.moved = FALSE, !.recno = 0]
<1>1. f \in FileType /\ DiskOK(d) /\ (NoHoles => Dense(d))
  BY DEF Good
<1>2. 0 \in 0 .. RecSize /\ 0 \in 0 .. RecNos - 1 /\ None \in 0 .. 255
  BY Sizes
<1>3. /\ h \in FileType /\ h.flags = {} /\ h.bufpos = 0 /\ h.bufcnt = 0
      /\ ~h.moved /\ h.recno = 0
  BY <1>1, <1>2 DEF FileType
<1>4. \/ /\ there' = TRUE /\ recs' = IF "writing" \in ModeFlags[m] THEN <<>> ELSE d
         /\ file' = [h EXCEPT !.flags = ModeFlags[m] \cup {"open"}]
         /\ mode' = m
      \/ there' = FALSE /\ recs' = d /\ file' = h /\ mode' = "closed"
  BY DEF OpenAt
<1> HIDE DEF h
<1>5. CASE there' = FALSE /\ recs' = d /\ file' = h /\ mode' = "closed"
  <2>1. ~Is(h, "open")
    BY <1>3 DEF Is
  <2>2. Good(h, d)
    BY <1>1, <1>3, <2>1 DEF Good, Settled, Is
  <2> QED BY <1>5, <2>1, <2>2
<1>6. CASE /\ there' = TRUE /\ recs' = IF "writing" \in ModeFlags[m] THEN <<>> ELSE d
           /\ file' = [h EXCEPT !.flags = ModeFlags[m] \cup {"open"}]
           /\ mode' = m
  <2>1. PICK g : g = [h EXCEPT !.flags = ModeFlags[m] \cup {"open"}]
    OBVIOUS
  <2>2. PICK e : e = IF "writing" \in ModeFlags[m] THEN <<>> ELSE d
    OBVIOUS
  <2>3. /\ g \in FileType /\ g.flags = ModeFlags[m] \cup {"open"}
        /\ g.bufpos = 0 /\ g.bufcnt = 0 /\ ~g.moved /\ g.recno = 0
    BY <1>3, <2>1, ModeFacts DEF FileType, Flags
  <2>4. DiskOK(e) /\ (NoHoles => Dense(e))
    BY <1>1, <2>2, EmptyDisk
  <2>5. Is(g, "open") /\ ("writing" \in ModeFlags[m] <=> Is(g, "writing"))
    BY <2>3 DEF Is
  <2>6. Steady(g, e)
    BY <2>3 DEF Steady
  <2>7. Is(g, "writing") => NumRecs(e) = 0
    BY <2>2, <2>5, EmptyDisk
  <2>8. /\ Is(g, "writing") => Is(g, "canWrite")
        /\ Is(g, "canWrite") /\ ~Is(g, "canRead") /\ ~Is(g, "append") => Is(g, "writing")
    BY <2>3, ModeFacts DEF Is
  <2>9. NumRecs(e) \in Nat
    BY <2>4, LastRecord, Sizes
  <2>10. Shaped(g, e)
    BY <2>3, <2>7, <2>8, <2>9 DEF Shaped, Cur
  <2>11. Settled(g)
    BY <2>3, ModeFacts DEF Settled, Is
  <2>12. Good(g, e)
    BY <2>3, <2>4, <2>5, <2>6, <2>10, <2>11 DEF Good
  <2>13. m # "closed" /\ m \in Modes
    BY ModeFacts
  <2> QED BY <1>6, <2>1, <2>2, <2>5, <2>12, <2>13
<1> QED BY <1>4, <1>5, <1>6
-----------------------------------------------------------------------------
(* The inductive invariant, and the steps that keep it.                     *)

\* The FILE and the disk are good, "closed" is the mode of a stream that is not
\* open, and fgetc's loop runs on a stream that reads.
Inv ==
  /\ there \in BOOLEAN /\ mode \in Modes \cup {"closed"} /\ pc \in {"idle", "getc"}
  /\ mode = "closed" <=> ~Is(file, "open")
  /\ Good(file, recs)
  /\ pc = "getc" => Is(file, "open") /\ ~Is(file, "writing")

\* The records of a file that holds a text.
LEMMA RecordsGood ==
  ASSUME NEW t \in Files, NEW d, d = RecordsOf(t)
  PROVE  DiskOK(d) /\ (NoHoles => Dense(d))
<1> DEFINE n == (Len(t) + RecSize - 1) \div RecSize
<1>1. t \in Seq(0 .. 255 \ {CtrlZ}) /\ Len(t) \in Nat /\ Len(t) <= RecSize * Capacity
  BY StreamAssumption
<1>2. \A k \in 1 .. Len(t) : t[k] \in 0 .. 255 /\ t[k] # CtrlZ
  BY <1>1
<1>3. n \in Nat /\ n * RecSize <= Len(t) + RecSize - 1 /\ n <= Capacity
  <2> SUFFICES ASSUME NEW s, s = RecSize, NEW l, l = Len(t), NEW c, c = Capacity,
                      NEW q, q = (l + s - 1) \div s
               PROVE  q \in Nat /\ q * s <= l + s - 1 /\ q <= c
    OBVIOUS
  <2>1. s \in Nat /\ 1 <= s /\ s <= 128 /\ l \in Nat /\ c \in Nat /\ l <= s * c
    BY <1>1, Sizes
  <2>2. q \in Nat /\ q * s <= l + s - 1
    BY <2>1
  <2>3. q <= c
    <3> SUFFICES ASSUME q >= c + 1 PROVE FALSE
      BY <2>1, <2>2
    <3>1. q * s >= (c + 1) * s
      BY <2>1, <2>2
    <3>2. (c + 1) * s = s * c + s
      BY <2>1
    <3> QED BY <2>1, <2>2, <3>1, <3>2
  <2> QED BY <2>2, <2>3
<1>4. /\ DOMAIN d = 0 .. n - 1
      /\ \A r \in 0 .. n - 1 : d[r] =
           [i \in Offs |-> IF r * RecSize + i < Len(t) THEN t[r * RecSize + i + 1] ELSE CtrlZ]
  BY DEF RecordsOf
<1> HIDE DEF n
<1>5. ASSUME NEW r \in 0 .. n - 1
      PROVE  d[r] \in Record /\ Tailed(d[r]) /\ (r < n - 1 => NoZ(d[r]))
  <2>1. PICK p : p = r * RecSize
    OBVIOUS
  <2>2. p \in Nat /\ (r < n - 1 => p + RecSize <= Len(t))
    <3>1. RecSize \in Nat /\ r \in Nat
      BY Sizes, <1>3
    <3>2. p \in Nat
      BY <2>1, <3>1
    <3>3. ASSUME r < n - 1 PROVE p + RecSize <= Len(t)
      <4>1. (r + 2) * RecSize <= n * RecSize
        BY <1>3, <3>1, <3>3
      <4>2. (r + 2) * RecSize = p + 2 * RecSize
        BY <2>1, <3>1
      <4>3. PICK k \in Int : k = n * RecSize
        BY <1>3, <3>1
      <4>4. k <= Len(t) + RecSize - 1 /\ p + 2 * RecSize <= k
        BY <1>3, <4>1, <4>2, <4>3
      <4> QED BY <1>1, <3>1, <3>2, <4>3, <4>4
    <3> QED BY <3>2, <3>3
  <2>3. \A i \in Offs : i \in Nat /\ i < RecSize
    BY Sizes DEF Offs
  <2>4. d[r] = [i \in Offs |-> IF p + i < Len(t) THEN t[p + i + 1] ELSE CtrlZ]
    BY <1>4, <2>1
  <2>5. \A i \in Offs : p + i < Len(t) => p + i + 1 \in 1 .. Len(t)
    BY <1>1, <2>2, <2>3
  <2>6. \A i \in Offs : /\ d[r][i] \in 0 .. 255
                        /\ d[r][i] = CtrlZ <=> ~(p + i < Len(t))
    BY <1>2, <2>4, <2>5, Sizes
  <2>7. d[r] \in Record
    BY <2>4, <2>6 DEF Record
  <2>8. Tailed(d[r])
    BY <1>1, <2>2, <2>3, <2>6 DEF Tailed
  <2>9. r < n - 1 => NoZ(d[r])
    BY <1>1, <2>2, <2>3, <2>6, Sizes DEF NoZ
  <2> QED BY <2>7, <2>8, <2>9
<1>6. Cardinality(0 .. n - 1) = n
  <2>1. 0 \in Int /\ n - 1 \in Int
    BY <1>3
  <2>2. Cardinality(0 .. n - 1) = IF 0 > n - 1 THEN 0 ELSE (n - 1) - 0 + 1
    BY <2>1, FS_Interval
  <2> QED BY <1>3, <2>2
<1>7. DiskOK(d)
  BY <1>3, <1>4, <1>5, <1>6, Sizes DEF DiskOK
<1>8. NoHoles => NumRecs(d) = n
  BY <1>3, <1>4, <1>7, DenseCount, NoHolesFacts
<1>9. NoHoles => Dense(d)
  BY <1>4, <1>5, <1>8 DEF Dense
<1> QED BY <1>7, <1>9

LEMMA InitInv == Init => Inv
<1> SUFFICES ASSUME Init PROVE Inv
  OBVIOUS
<1>1. there \in BOOLEAN /\ DiskOK(recs) /\ (NoHoles => Dense(recs))
  BY EmptyDisk, RecordsGood DEF Init
<1>2. file \in FileType /\ file.flags = {}
  BY Sizes DEF Init, FileType, Record
<1>3. ~Is(file, "open")
  BY <1>2 DEF Is
<1>4. Good(file, recs)
  BY <1>1, <1>2, <1>3 DEF Good, Settled, Is
<1> QED BY <1>1, <1>3, <1>4 DEF Init, Inv

\* A step between calls to a FILE g that is good on the disk e.
LEMMA GoodStep ==
  ASSUME Inv, NEW g, NEW e, Good(g, e), Is(g, "open"), file' = g, recs' = e,
         there' = there, mode' = mode, mode # "closed",
         \/ pc' = "idle"
         \/ pc' = "getc" /\ ~Is(g, "writing")
  PROVE  Inv'
<1>1. Good(file', recs') /\ Is(file', "open") /\ (pc' = "getc" => ~Is(file', "writing"))
  OBVIOUS
<1> QED BY <1>1 DEF Inv

\* A set of flags that differs from a FILE's in "eof" and "error" only.
SameFlags(F, f) ==
  \A x \in {"open", "canRead", "canWrite", "append", "writing", "dirty"} : x \in F <=> Is(f, x)

LEMMA FlagGood ==
  ASSUME NEW f, NEW d, Good(f, d), Is(f, "open"), NEW F \in SUBSET Flags,
         SameFlags(F, f),
         NEW u, u \in 0 .. 255, NEW g, g = [f EXCEPT !.flags = F, !.unget = u]
  PROVE  Good(g, d) /\ Is(g, "open")
<1>1. f \in FileType
  BY DEF Good
<1>2. [f EXCEPT !.flags = F, !.unget = u] \in FileType
  BY <1>1 DEF FileType
<1>3. /\ g \in FileType /\ g.bufpos = f.bufpos /\ g.bufcnt = f.bufcnt /\ g.recno = f.recno
      /\ g.buf = f.buf /\ g.moved = f.moved /\ g.flags = F
  BY <1>1, <1>2 DEF FileType
<1>4. \A x \in {"open", "canRead", "canWrite", "append", "writing", "dirty"} :
         Is(g, x) <=> Is(f, x)
  BY <1>3 DEF Is, SameFlags
<1>5. /\ SameMode(g, f) /\ (Is(g, "writing") <=> Is(f, "writing"))
      /\ Is(g, "dirty") <=> Is(f, "dirty")
  BY <1>4 DEF SameMode
<1> QED BY <1>3, <1>5, SameGood

LEMMA FcloseInv == Inv /\ Fclose => Inv'
<1> SUFFICES ASSUME Inv, Fclose PROVE Inv'
  OBVIOUS
<1>1. Good(file, recs) /\ Is(file, "open") /\ there \in BOOLEAN /\ pc \in {"idle", "getc"}
  BY DEF Inv, Fclose, Ready, Open
<1>2. PICK g, e : g = ClosedFile(file, recs) /\ e = ClosedDisk(file, recs)
  OBVIOUS
<1>3. Good(g, e) /\ ~Is(g, "open")
  BY <1>1, <1>2, ClosedGood
<1>4. file' = g /\ recs' = e /\ mode' = "closed" /\ there' = there /\ pc' = "idle"
  BY <1>2 DEF Fclose, Ready
<1>5. Good(file', recs') /\ ~Is(file', "open")
  BY <1>3, <1>4
<1> QED BY <1>1, <1>4, <1>5 DEF Inv

LEMMA FopenInv == ASSUME Inv, NEW m \in Modes, Fopen(m) PROVE Inv'
<1>1. Good(file, recs) /\ ~Is(file, "open") /\ pc' = "idle" /\ OpenAt(file, recs, m)
  BY DEF Inv, Fopen, Open
<1>2. /\ there' \in BOOLEAN /\ mode' \in Modes \cup {"closed"}
      /\ Good(file', recs') /\ (mode' = "closed" <=> ~Is(file', "open"))
  BY <1>1, OpenGood
<1> QED BY <1>1, <1>2 DEF Inv

LEMMA FreopenInv == ASSUME Inv, NEW m \in Modes, Freopen(m) PROVE Inv'
<1>1. Good(file, recs) /\ Is(file, "open") /\ pc' = "idle"
  BY DEF Inv, Freopen, Ready, Open
<1>2. PICK g, e : g = ClosedFile(file, recs) /\ e = ClosedDisk(file, recs)
  OBVIOUS
<1>3. Good(g, e) /\ ~Is(g, "open")
  BY <1>1, <1>2, ClosedGood
<1>4. OpenAt(g, e, m)
  BY <1>2 DEF Freopen
<1>5. /\ there' \in BOOLEAN /\ mode' \in Modes \cup {"closed"}
      /\ Good(file', recs') /\ (mode' = "closed" <=> ~Is(file', "open"))
  BY <1>3, <1>4, OpenGood
<1> QED BY <1>1, <1>5 DEF Inv

\* Ungetc, fflush, clearerr, ftell
LEMMA UngetcInv == ASSUME Inv, NEW c \in Backs, Ungetc(c) PROVE Inv'
<1>1. Good(file, recs) /\ Is(file, "open") /\ mode # "closed" /\ file \in FileType
  BY DEF Inv, Ungetc, Ready, Open, Good
<1>2. c \in 0 .. 255 /\ file.flags \in SUBSET Flags
  BY <1>1, Sizes DEF FileType
<1>3. PICK g : g = [file EXCEPT !.flags = file.flags, !.unget = c]
  OBVIOUS
<1>4. SameFlags(file.flags, file)
  BY DEF Is, SameFlags
<1>5. Good(g, recs) /\ Is(g, "open")
  BY <1>1, <1>2, <1>3, <1>4, FlagGood
<1>6. file' = g
  BY <1>1, <1>3 DEF Ungetc, FileType
<1> QED BY <1>1, <1>5, <1>6, GoodStep DEF Ungetc, Ready, disk

LEMMA FflushInv == Inv /\ Fflush => Inv'
<1> SUFFICES ASSUME Inv, Fflush PROVE Inv'
  OBVIOUS
<1>1. /\ Good(file, recs) /\ Is(file, "open") /\ mode # "closed"
      /\ pc' = "idle" /\ there' = there /\ mode' = mode
  BY DEF Inv, Fflush, Ready, Open
<1>2. CASE Is(file, "writing")
  <2>1. PICK g, e : g = Flushed(file, recs) /\ e = FlushedDisk(file, recs)
    OBVIOUS
  <2>2. Good(g, e) /\ Is(g, "open")
    BY <1>1, <1>2, <2>1, FlushGood
  <2>3. file' = g /\ recs' = e
    BY <1>2, <2>1 DEF Fflush
  <2> QED BY <1>1, <2>2, <2>3, GoodStep
<1>3. CASE ~Is(file, "writing")
  <2>1. file' = file /\ recs' = recs
    BY <1>3 DEF Fflush
  <2> QED BY <1>1, <2>1, GoodStep
<1> QED BY <1>2, <1>3

LEMMA ClearerrInv == Inv /\ Clearerr => Inv'
<1> SUFFICES ASSUME Inv, Clearerr PROVE Inv'
  OBVIOUS
<1>1. Good(file, recs) /\ Is(file, "open") /\ mode # "closed" /\ file \in FileType
  BY DEF Inv, Clearerr, Ready, Open, Good
<1>2. PICK F : F = file.flags \ {"eof", "error"}
  OBVIOUS
<1>3. file.unget \in 0 .. 255 /\ F \in SUBSET Flags
  BY <1>1, <1>2 DEF FileType
<1>4. PICK g : g = [file EXCEPT !.flags = F, !.unget = file.unget]
  OBVIOUS
<1>5. SameFlags(F, file)
  BY <1>2 DEF Is, SameFlags
<1>6. Good(g, recs) /\ Is(g, "open")
  BY <1>1, <1>3, <1>4, <1>5, FlagGood
<1>7. file' = g
  BY <1>1, <1>2, <1>4 DEF Clearerr, FileType
<1> QED BY <1>1, <1>6, <1>7, GoodStep DEF Clearerr, Ready, disk

-----------------------------------------------------------------------------
(* fgetc                                                                    *)

LEMMA FgetcFailsInv == Inv /\ FgetcFails => Inv'
<1> SUFFICES ASSUME Inv, FgetcFails PROVE Inv'
  OBVIOUS
<1>1. /\ Good(file, recs) /\ Is(file, "open") /\ Is(file, "writing") /\ mode # "closed"
      /\ file \in FileType /\ DiskOK(recs)
      /\ pc' = "idle" /\ there' = there /\ mode' = mode /\ recs' = recs
  BY DEF Inv, FgetcFails, Ready, Open, Good, disk
<1>2. PICK g : g = ToRead(file, recs)
  OBVIOUS
<1>3. PICK h : h = FlushedDisk(file, recs)
  OBVIOUS
<1>4. PICK e : e = IF Is(file, "canRead") THEN FlushedDisk(file, recs) ELSE recs
  OBVIOUS
<1>5. Good(g, e) /\ Is(g, "open")
  BY <1>1, <1>2, <1>4, ToReadGood
<1>6. file' = g /\ Is(g, "writing")
  BY <1>2 DEF FgetcFails
<1>7. Is(file, "canRead") => FlushFails(file, recs)
  BY <1>1, <1>2, <1>6, ToReadFacts
<1>8. FlushFails(file, recs) => h = recs
  BY <1>1, <1>3, FlushDisk
<1>9. e = recs
  BY <1>3, <1>4, <1>7, <1>8
<1> QED BY <1>1, <1>5, <1>6, <1>9, GoodStep

LEMMA FgetcInv == Inv /\ Fgetc => Inv'
<1> SUFFICES ASSUME Inv, Fgetc PROVE Inv'
  OBVIOUS
<1>1. /\ Good(file, recs) /\ Is(file, "open") /\ mode # "closed"
      /\ file \in FileType /\ DiskOK(recs)
      /\ there' = there /\ mode' = mode
  BY DEF Inv, Fgetc, Ready, Open, Good
<1>2. PICK f, e : /\ f = IF Is(file, "writing") THEN ToRead(file, recs) ELSE file
                  /\ e = IF Is(file, "writing") THEN FlushedDisk(file, recs) ELSE recs
  OBVIOUS
<1>3. ~Is(f, "writing") /\ recs' = e /\ file' = [f EXCEPT !.unget = None] /\ pc' \in {"idle", "getc"}
  BY <1>2 DEF Fgetc, Ready
<1>4. Good(f, e) /\ Is(f, "open")
  <2>1. CASE ~Is(file, "writing")
    BY <1>1, <1>2, <2>1
  <2>2. CASE Is(file, "writing")
    <3>1. f = ToRead(file, recs)
      BY <1>2, <2>2
    <3>2. Is(file, "canRead")
      BY <1>1, <1>3, <2>2, <3>1, ToReadFacts
    <3>3. e = IF Is(file, "canRead") THEN FlushedDisk(file, recs) ELSE recs
      BY <1>2, <2>2, <3>2
    <3> QED BY <1>1, <2>2, <3>1, <3>3, ToReadGood
  <2> QED BY <2>1, <2>2
<1>5. f \in FileType
  BY <1>4 DEF Good
<1>6. PICK F, u : F = f.flags /\ u = None
  OBVIOUS
<1>7. F \in SUBSET Flags /\ u \in 0 .. 255
  BY <1>5, <1>6, Sizes DEF FileType
<1>8. SameFlags(F, f)
  BY <1>6 DEF Is, SameFlags
<1>9. PICK g : g = [f EXCEPT !.flags = F, !.unget = u]
  OBVIOUS
<1>10. Good(g, e) /\ Is(g, "open")
  BY <1>4, <1>7, <1>8, <1>9, FlagGood
<1>11. file' = g /\ ~Is(g, "writing")
  BY <1>3, <1>5, <1>6, <1>9 DEF FileType, Is
<1> QED BY <1>1, <1>3, <1>10, <1>11, GoodStep

LEMMA FgetcEndInv == Inv /\ FgetcEnd => Inv'
<1> SUFFICES ASSUME Inv, FgetcEnd PROVE Inv'
  OBVIOUS
<1>1. /\ pc = "getc" /\ there' = there /\ mode' = mode /\ recs' = recs
      /\ pc' = "idle" /\ file' = Raise(file, "eof")
  BY DEF FgetcEnd, Refills, Looks, disk
<1>2. Good(file, recs) /\ Is(file, "open") /\ mode # "closed" /\ file \in FileType
  BY <1>1 DEF Inv, Good
<1>3. PICK F : F = file.flags \cup {"eof"}
  OBVIOUS
<1>4. file.unget \in 0 .. 255 /\ F \in SUBSET Flags
  BY <1>2, <1>3 DEF FileType, Flags
<1>5. PICK g : g = [file EXCEPT !.flags = F, !.unget = file.unget]
  OBVIOUS
<1>6. SameFlags(F, file)
  BY <1>3 DEF Is, SameFlags
<1>7. Good(g, recs) /\ Is(g, "open")
  BY <1>2, <1>4, <1>5, <1>6, FlagGood
<1>8. file' = g
  BY <1>1, <1>2, <1>3, <1>5 DEF Raise, FileType
<1> QED BY <1>1, <1>2, <1>7, <1>8, GoodStep

\* The record that is read next, in the buffer.
LEMMA RefilledGood ==
  ASSUME NEW f, NEW d, Good(f, d), Is(f, "open"), ~Is(f, "writing"), f.recno \in DOMAIN d,
         NEW g, g = [f EXCEPT !.buf = d[f.recno], !.recno = NextNo(f.recno),
                              !.bufpos = 0, !.bufcnt = RecSize]
  PROVE  Good(g, d) /\ Is(g, "open") /\ ~Is(g, "writing")
<1>1. f \in FileType /\ DiskOK(d)
  BY DEF Good
<1>2. f.recno \in 0 .. RecNos - 1 /\ d[f.recno] \in Record
  BY <1>1 DEF FileType, DiskOK
<1>3. NextNo(f.recno) \in 0 .. RecNos - 1 /\ PrevNo(NextNo(f.recno)) = f.recno
  BY <1>2, NextPrev
<1>4. RecSize \in 0 .. RecSize /\ 0 \in 0 .. RecSize /\ RecSize # 0
  BY Sizes
<1>5. [f EXCEPT !.buf = d[f.recno], !.recno = NextNo(f.recno),
                !.bufpos = 0, !.bufcnt = RecSize] \in FileType
  BY <1>1, <1>2, <1>3, <1>4 DEF FileType
<1>6. /\ g \in FileType /\ g.flags = f.flags /\ g.buf = d[f.recno] /\ g.recno = NextNo(f.recno)
      /\ g.bufpos = 0 /\ g.bufcnt = RecSize
  BY <1>1, <1>5 DEF FileType
<1>7. /\ Is(g, "open") /\ ~Is(g, "writing") /\ SameMode(g, f)
  BY <1>6 DEF Is, SameMode
<1>8. Cur(g) = f.recno
  BY <1>3, <1>4, <1>6, <1>7 DEF Cur
<1>9. Steady(g, d)
  <2>1. g.bufpos <= g.bufcnt
    BY <1>6, Sizes
  <2> QED BY <1>6, <1>8, <2>1, LoadedSteady
<1>10. NoHoles => Shaped(g, d)
  <2> SUFFICES ASSUME NoHoles PROVE Shaped(g, d)
    OBVIOUS
  <2>1. Padded(g) = d[f.recno]
    BY <1>6, FullBuffer
  <2>2. Dense(d) /\ Shaped(f, d) /\ NumRecs(d) \in Nat
    BY <1>1, LastRecord, Sizes DEF Good
  <2>3. /\ f.recno <= NumRecs(d) - 1 /\ Tailed(d[f.recno])
        /\ f.recno < NumRecs(d) - 1 => NoZ(d[f.recno])
    BY <2>2 DEF Dense
  <2>4. Is(g, "canWrite") /\ ~Is(g, "canRead") /\ ~Is(g, "append") => Is(g, "writing")
    BY <1>7, <2>2 DEF Shaped, SameMode
  <2>5. \A i \in Offs : ~(i < g.bufpos)
    BY <1>6, Sizes DEF Offs
  <2>6. Cur(g) < NumRecs(d)
    BY <1>2, <1>8, <2>2, <2>3, Sizes
  <2> QED BY <1>2, <1>7, <1>8, <2>1, <2>2, <2>3, <2>4, <2>5, <2>6, Sizes DEF Shaped
<1>11. Settled(g)
  BY <1>6 DEF Good, Settled, Is
<1> QED BY <1>1, <1>6, <1>7, <1>9, <1>10, <1>11 DEF Good

LEMMA FgetcRefillInv == Inv /\ FgetcRefill => Inv'
<1> SUFFICES ASSUME Inv, FgetcRefill PROVE Inv'
  OBVIOUS
<1>1. /\ pc = "getc" /\ there' = there /\ mode' = mode /\ recs' = recs /\ pc' = pc
      /\ file.recno \in DOMAIN recs
  BY DEF FgetcRefill, Refills, disk
<1>2. /\ Good(file, recs) /\ Is(file, "open") /\ ~Is(file, "writing") /\ mode # "closed"
      /\ file \in FileType
  BY <1>1 DEF Inv, Good
<1>3. PICK g : g = [file EXCEPT !.buf = recs[file.recno], !.recno = NextNo(file.recno),
                                !.bufpos = 0, !.bufcnt = RecSize]
  OBVIOUS
<1>4. file' = g
  BY <1>2, <1>3 DEF FgetcRefill, FileType
<1>5. Good(g, recs) /\ Is(g, "open") /\ ~Is(g, "writing")
  BY <1>1, <1>2, <1>3, RefilledGood
<1> QED BY <1>1, <1>2, <1>4, <1>5, GoodStep

\* A character passed, that is no Ctrl-Z.
LEMMA PassedGood ==
  ASSUME NEW f, NEW d, Good(f, d), Is(f, "open"), ~Is(f, "writing"),
         f.bufpos < f.bufcnt, f.buf[f.bufpos] # CtrlZ, NEW g, g = [f EXCEPT !.bufpos = f.bufpos + 1]
  PROVE  Good(g, d) /\ Is(g, "open") /\ ~Is(g, "writing")
<1>1. f \in FileType /\ DiskOK(d)
  BY DEF Good
<1>2. f.bufpos \in 0 .. RecSize /\ f.bufcnt \in 0 .. RecSize
  BY <1>1 DEF FileType
<1>3. f.bufpos + 1 \in 0 .. RecSize /\ f.bufpos + 1 <= f.bufcnt /\ f.bufpos \in Offs
  BY <1>2, Sizes DEF Offs
<1>4. [f EXCEPT !.bufpos = f.bufpos + 1] \in FileType
  BY <1>1, <1>3 DEF FileType
<1>5. /\ g \in FileType /\ g.flags = f.flags /\ g.buf = f.buf /\ g.recno = f.recno
      /\ g.bufpos = f.bufpos + 1 /\ g.bufcnt = f.bufcnt /\ g.moved = f.moved
  BY <1>1, <1>4 DEF FileType
<1>6. /\ Is(g, "open") /\ ~Is(g, "writing") /\ SameMode(g, f) /\ (Is(g, "dirty") <=> Is(f, "dirty"))
  BY <1>5 DEF Is, SameMode
<1>7. Cur(g) = Cur(f)
  BY <1>5, <1>6 DEF Cur
<1>8. Valid(f) = f.bufcnt /\ Valid(g) = f.bufcnt
  BY <1>2, <1>3, <1>5, Sizes DEF Valid
<1>9. Padded(g) = Padded(f) /\ Padded(f)[f.bufpos] # CtrlZ
  BY <1>2, <1>3, <1>5, <1>8 DEF Padded
<1>10. "seekFails" \notin Wild => Steady(g, d)
  BY <1>3, <1>5, <1>6, <1>7, <1>9 DEF Good, Steady
<1>11. NoHoles => Shaped(g, d)
  <2> SUFFICES ASSUME NoHoles PROVE Shaped(g, d)
    OBVIOUS
  <2>1. Shaped(f, d)
    BY DEF Good
  <2>2. \A i \in Offs : i < g.bufpos => i < f.bufpos \/ i = f.bufpos
    BY <1>2, <1>5, Sizes DEF Offs
  <2>3. g.bufcnt # 0 /\ Is(g, "canWrite") => \A i \in Offs : i < g.bufpos => Padded(g)[i] # CtrlZ
    BY <1>5, <1>6, <1>9, <2>1, <2>2 DEF Shaped, SameMode
  <2>4. /\ Is(g, "canWrite") <=> Is(f, "canWrite")
        /\ Is(g, "canRead") <=> Is(f, "canRead")
        /\ Is(g, "append") <=> Is(f, "append")
    BY <1>6 DEF SameMode
  <2> QED BY <1>5, <1>6, <1>7, <1>9, <2>1, <2>3, <2>4 DEF Shaped
<1>12. Settled(g)
  BY <1>5 DEF Good, Settled, Is
<1> QED BY <1>1, <1>5, <1>6, <1>10, <1>11, <1>12 DEF Good

LEMMA PassInv == Inv /\ (FgetcSkip \/ FgetcByte) => Inv'
<1> SUFFICES ASSUME Inv, FgetcSkip \/ FgetcByte PROVE Inv'
  OBVIOUS
<1>1. /\ pc = "getc" /\ there' = there /\ mode' = mode /\ recs' = recs
      /\ pc' = pc \/ pc' = "idle"
  BY DEF FgetcSkip, FgetcByte, Looks, disk
<1>2. file.bufpos < file.bufcnt /\ file.buf[file.bufpos] # CtrlZ
  BY DEF FgetcSkip, FgetcByte, Looks, Here, CtrlZ, CR
<1>3. /\ Good(file, recs) /\ Is(file, "open") /\ ~Is(file, "writing") /\ mode # "closed"
      /\ file \in FileType
  BY <1>1 DEF Inv, Good
<1>4. PICK g : g = [file EXCEPT !.bufpos = file.bufpos + 1]
  OBVIOUS
<1>5. file' = g
  BY <1>3, <1>4 DEF FgetcSkip, FgetcByte, FileType
<1>6. Good(g, recs) /\ Is(g, "open") /\ ~Is(g, "writing")
  BY <1>2, <1>3, <1>4, PassedGood
<1> QED BY <1>1, <1>3, <1>5, <1>6, GoodStep

-----------------------------------------------------------------------------
(* fputc and fseek                                                          *)

LEMMA FputcInv == ASSUME Inv, NEW c \in Chars, Fputc(c) PROVE Inv'
<1>1. /\ Good(file, recs) /\ Is(file, "open") /\ mode # "closed"
      /\ pc' = "idle" /\ there' = there /\ mode' = mode
  BY DEF Inv, Fputc, Ready, Open
<1>2. c \in 0 .. 255 /\ c # CtrlZ
  BY Sizes
<1>3. PICK f : f = IF Is(file, "writing") THEN file ELSE ToWrite(file, recs)
  OBVIOUS
<1>4. Good(f, recs) /\ Is(f, "open")
  BY <1>1, <1>3, ToWriteGood
<1>5. f \in FileType /\ DiskOK(recs)
  BY <1>4 DEF Good
<1>6. PICK g, d : g = Flushed(f, recs) /\ d = FlushedDisk(f, recs)
  OBVIOUS
<1>7. CASE ~Is(f, "writing")
  <2>1. file' = f /\ recs' = recs
    BY <1>3, <1>7 DEF Fputc
  <2> QED BY <1>1, <1>4, <2>1, GoodStep
<1>8. CASE Is(f, "writing") /\ f.bufpos >= RecSize
  <2>1. Good(g, d) /\ Is(g, "open") /\ Is(g, "writing")
    BY <1>4, <1>6, <1>8, FlushGood
  <2>2. recs' = d
    BY <1>3, <1>6, <1>8 DEF Fputc
  <2>3. CASE FlushFails(f, recs)
    <3>1. file' = g
      BY <1>3, <1>6, <1>8, <2>3 DEF Fputc
    <3> QED BY <1>1, <2>1, <2>2, <3>1, GoodStep
  <2>4. CASE ~FlushFails(f, recs)
    <3>1. PICK h : h = NextRec(g, d)
      OBVIOUS
    <3>2. PICK k : k = Stored(h, c)
      OBVIOUS
    <3>3. file' = k
      BY <1>3, <1>6, <1>8, <2>4, <3>1, <3>2 DEF Fputc
    <3>4. f.bufpos = RecSize
      BY <1>5, <1>8, Sizes DEF FileType
    <3>5. g.bufpos = RecSize /\ ~Is(g, "dirty")
      BY <1>5, <1>6, <2>4, <3>4, FlushFile
    <3>6. Good(h, d) /\ Is(h, "open") /\ Is(h, "writing") /\ h.bufpos < RecSize
      BY <2>1, <3>1, <3>5, NextRecGood
    <3>7. Good(k, d) /\ Is(k, "open")
      BY <1>2, <3>2, <3>6, StoredGood
    <3> QED BY <1>1, <2>2, <3>3, <3>7, GoodStep
  <2> QED BY <2>3, <2>4
<1>9. CASE Is(f, "writing") /\ ~(f.bufpos >= RecSize)
  <2>1. PICK k : k = Stored(f, c)
    OBVIOUS
  <2>2. file' = k /\ recs' = recs
    BY <1>3, <1>9, <2>1 DEF Fputc
  <2>3. f.bufpos < RecSize
    BY <1>5, <1>9, Sizes DEF FileType
  <2>4. Good(k, recs) /\ Is(k, "open")
    BY <1>2, <1>4, <1>9, <2>1, <2>3, StoredGood
  <2> QED BY <1>1, <2>2, <2>4, GoodStep
<1> QED BY <1>7, <1>8, <1>9

\* A seek that fails leaves what the flush and SEEK_END's read of the last
\* record have done.
LEMMA SeekInv ==
  ASSUME Inv, NEW off, NEW whence, NEW done, NEW failed, Seek(off, whence, done, failed)
  PROVE  Inv'
<1>1. /\ Good(file, recs) /\ Is(file, "open") /\ mode # "closed"
      /\ pc' = "idle" /\ there' = there /\ mode' = mode
  BY DEF Inv, Seek, Ready, Open
<1>2. PICK d, g : /\ d = IF Is(file, "writing") THEN FlushedDisk(file, recs) ELSE recs
                  /\ g = IF Is(file, "writing") THEN Flushed(file, recs) ELSE file
  OBVIOUS
<1>3. PICK f : f = IF whence = 2 /\ NumRecs(d) # 0
                     THEN [g EXCEPT !.buf = d[NumRecs(d) - 1]] ELSE g
  OBVIOUS
<1>4. PICK to : to = off + (CASE whence = 0 -> 0 [] whence = 1 -> Tell(f) [] whence = 2 -> Size(d))
  OBVIOUS
<1>5. PICK e : e = IF Is(f, "canWrite") THEN GapFilled(d, to) ELSE d
  OBVIOUS
<1>6. /\ Tame(f, d, whence, to)
      /\ IF to \in 0 .. MaxOffset
           THEN recs' = e /\ file' = Placed(f, e, to)
           ELSE recs' = d /\ file' = f
  BY <1>2, <1>3, <1>4, <1>5 DEF Seek
<1>7. Good(g, d) /\ Is(g, "open")
  <2>1. CASE Is(file, "writing")
    BY <1>1, <1>2, <2>1, FlushGood
  <2>2. CASE ~Is(file, "writing")
    BY <1>1, <1>2, <2>2
  <2> QED BY <2>1, <2>2
<1>8. g \in FileType /\ DiskOK(d)
  BY <1>7 DEF Good
<1>9. f \in FileType /\ f.flags = g.flags
  <2>1. CASE whence = 2 /\ NumRecs(d) # 0
    <3>1. d[NumRecs(d) - 1] \in Record
      BY <1>8, <2>1, LastRecord
    <3>2. [g EXCEPT !.buf = d[NumRecs(d) - 1]] \in FileType
      BY <1>8, <3>1 DEF FileType
    <3> QED BY <1>3, <1>8, <2>1, <3>2 DEF FileType
  <2>2. CASE ~(whence = 2 /\ NumRecs(d) # 0)
    BY <1>3, <1>8, <2>2
  <2> QED BY <2>1, <2>2
<1>10. CASE to \in 0 .. MaxOffset
  <2>1. PICK h : h = Placed(f, e, to)
    OBVIOUS
  <2>2. NoHoles => \/ RecOf(to) < NumRecs(d)
                   \/ /\ RecOf(to) = NumRecs(d)
                      /\ OffOf(to) = 0 \/ (Is(f, "writing") /\ ~Is(f, "append"))
    BY <1>6, <1>10, NoHolesFacts DEF Tame, RecOf, OffOf
  <2>3. Good(h, e) /\ Is(h, "open")
    BY <1>5, <1>7, <1>9, <1>10, <2>1, <2>2, PlacedGood
  <2>4. recs' = e /\ file' = h
    BY <1>6, <1>10, <2>1
  <2> QED BY <1>1, <2>3, <2>4, GoodStep
<1>11. CASE to \notin 0 .. MaxOffset
  <2>1. Good(f, d) /\ Is(f, "open")
    <3>1. CASE "seekFails" \in Wild
      <4>1. Is(f, "open")
        BY <1>7, <1>9 DEF Is
      <4>2. ~NoHoles
        BY <3>1 DEF NoHoles
      <4>3. Settled(f)
        BY <1>7, <1>9 DEF Good, Settled, Is
      <4> QED BY <1>8, <1>9, <3>1, <4>1, <4>2, <4>3 DEF Good
    <3>2. CASE "seekFails" \notin Wild
      <4>1. f = g
        BY <1>3, <1>6, <1>11, <3>2 DEF Tame
      <4> QED BY <1>7, <4>1
    <3> QED BY <3>1, <3>2
  <2>2. recs' = d /\ file' = f
    BY <1>6, <1>11
  <2> QED BY <1>1, <2>1, <2>2, GoodStep
<1> QED BY <1>10, <1>11

LEMMA StutterInv == Inv /\ UNCHANGED vars => Inv'
  BY DEF Inv, vars, disk

\* Every step keeps the invariant.
LEMMA NextInv == Inv /\ [Next]_vars => Inv'
<1> SUFFICES ASSUME Inv, [Next]_vars PROVE Inv'
  OBVIOUS
<1>1. ASSUME NEW m \in Modes, Fopen(m) \/ Freopen(m) PROVE Inv'
  BY <1>1, FopenInv, FreopenInv
<1>2. ASSUME NEW c \in Backs, Ungetc(c) PROVE Inv'
  BY <1>2, UngetcInv
<1>3. ASSUME NEW c \in Chars, Fputc(c) PROVE Inv'
  BY <1>3, FputcInv
<1>4. ASSUME NEW off \in Offsets, NEW whence \in 0 .. 2, Fseek(off, whence) PROVE Inv'
  BY <1>4, SeekInv DEF Fseek
<1>5. ASSUME NEW off \in Offsets, Fsetpos(off) PROVE Inv'
  BY <1>5, SeekInv DEF Fsetpos
<1>6. ASSUME Rewind PROVE Inv'
  BY <1>6, SeekInv DEF Rewind, Fseek
<1>7. ASSUME Ftell PROVE Inv'
  BY <1>7, StutterInv DEF Ftell, Inv, disk
<1>8. ASSUME FgetcFails \/ Fgetc \/ Loop PROVE Inv'
  BY <1>8, FgetcFailsInv, FgetcInv, FgetcRefillInv, FgetcEndInv, PassInv DEF Loop
<1> QED BY <1>1, <1>2, <1>3, <1>4, <1>5, <1>6, <1>7, <1>8, FcloseInv, FflushInv,
           ClearerrInv, StutterInv DEF Next

LEMMA SpecInv == Spec => []Inv
  BY InitInv, NextInv, PTL DEF Spec

-----------------------------------------------------------------------------
(* What the invariant says of the stream.                                   *)

\* Type correctness of every call: positions stay inside the record, record
\* numbers inside r0 r1, and the disk inside its capacity, for every program.
THEOREM StreamTypes == Spec => []TypeOK
<1>1. Inv => TypeOK
  BY DEF Inv, Good, DiskOK, FileType, Record, TypeOK, Open
<1> QED BY <1>1, SpecInv, PTL

\* The buffer of a stream is the record its state says, when the program
\* makes no SEEK_END that fails (_fsk_end reads the last record into the
\* buffer before it looks at the position).
THEOREM StreamCoherent ==
  ASSUME "seekFails" \notin Wild
  PROVE  Spec => []Coherent
<1>1. Inv => Coherent
  <2> SUFFICES ASSUME Inv, Open, file.bufcnt # 0, ~Pending(file),
                      NEW r, r = IF Is(file, "writing") THEN file.recno ELSE PrevNo(file.recno),
                      r \in DOMAIN recs
               PROVE  Padded(file) = recs[r]
    BY DEF Coherent
  <2>1. file \in FileType /\ Steady(file, recs)
    BY DEF Inv, Good, Open
  <2>2. Valid(file) \in 0 .. RecSize /\ file.bufcnt <= Valid(file) /\ file.bufcnt \in 0 .. RecSize
    BY <2>1, PaddedFacts DEF FileType
  <2>3. ~Is(file, "dirty")
    BY <2>2, Sizes DEF Pending
  <2>4. Cur(file) = r
    BY DEF Cur
  <2> QED BY <2>1, <2>3, <2>4 DEF Steady
<1> QED BY <1>1, SpecInv, PTL

-----------------------------------------------------------------------------
(* The data of the file.                                                    *)

\* The records, with the one the stream f has not written yet.
Now(f, d) ==
  IF Is(f, "writing") /\ Pending(f) THEN Written(d, f.recno, Padded(f)) ELSE d

\* Records 0 to m - 1, with Ctrl-Z only at the end of the last one.
Solid(w, m) ==
  /\ m \in Nat /\ m <= RecNos /\ DOMAIN w = 0 .. m - 1
  /\ \A r \in DOMAIN w : w[r] \in Record /\ Tailed(w[r])
  /\ \A r \in DOMAIN w : r < m - 1 => NoZ(w[r])

LEMMA NowSolid ==
  ASSUME NoHoles, NEW f, NEW d, Good(f, d), NEW w, w = Now(f, d)
  PROVE  \E m \in Nat : Solid(w, m)
<1>1. f \in FileType /\ DiskOK(d) /\ Dense(d)
  BY DEF Good
<1>2. PICK n \in Nat : n = NumRecs(d) /\ n <= RecNos - 1
  BY <1>1, LastRecord, Sizes
<1>3. Solid(d, n)
  BY <1>1, <1>2, Sizes DEF Solid, Dense, DiskOK
<1>4. CASE ~(Is(f, "writing") /\ Pending(f))
  BY <1>3, <1>4 DEF Now
<1>5. CASE Is(f, "writing") /\ Pending(f)
  <2>1. PICK r, b : r = f.recno /\ b = Padded(f)
    OBVIOUS
  <2>2. Is(f, "open")
    BY <1>5 DEF Good, Is
  <2>3. Steady(f, d) /\ Shaped(f, d)
    BY <2>2, NoHolesFacts DEF Good
  <2>4. f.bufcnt # 0
    BY <1>1, <1>5, <2>3, PaddedFacts DEF Steady, Pending
  <2>5. Cur(f) = r /\ Is(f, "canWrite")
    BY <1>5, <2>1, <2>3 DEF Cur, Shaped
  <2>6. /\ r \in 0 .. RecNos - 1 /\ r <= n /\ b \in Record /\ Tailed(b)
        /\ r < n - 1 => NoZ(b)
        /\ r = n /\ n > 0 => NoZ(d[n - 1])
    BY <1>1, <1>2, <2>1, <2>3, <2>4, <2>5, PaddedFacts DEF Shaped, FileType
  <2>7. /\ DOMAIN w = DOMAIN d \cup {r} /\ w[r] = b
        /\ \A x \in DOMAIN d : x # r => w[x] = d[x]
    BY <1>5, <2>1 DEF Now, Written
  <2>8. CASE r = n
    <3>1. DOMAIN w = 0 .. (n + 1) - 1
      BY <1>3, <2>7, <2>8 DEF Solid
    <3>2. \A x \in DOMAIN w : w[x] \in Record /\ Tailed(w[x])
      BY <1>3, <2>6, <2>7 DEF Solid
    <3>3. \A x \in DOMAIN w : x < (n + 1) - 1 => NoZ(w[x])
      <4> SUFFICES ASSUME NEW x \in DOMAIN w, x < (n + 1) - 1 PROVE NoZ(w[x])
        OBVIOUS
      <4>1. x \in 0 .. n - 1 /\ x # r /\ w[x] = d[x] /\ x \in DOMAIN d
        BY <1>3, <2>7, <2>8, <3>1 DEF Solid
      <4>2. x = n - 1 \/ x < n - 1
        BY <4>1
      <4> QED BY <1>3, <2>6, <2>8, <4>1, <4>2 DEF Solid
    <3>4. Solid(w, n + 1)
      BY <1>2, <3>1, <3>2, <3>3, Sizes DEF Solid
    <3> QED BY <3>4
  <2>9. CASE r # n
    <3>1. r \in 0 .. n - 1 /\ DOMAIN w = 0 .. n - 1
      BY <1>3, <2>6, <2>7, <2>9 DEF Solid
    <3>2. \A x \in DOMAIN w : w[x] \in Record /\ Tailed(w[x]) /\ (x < n - 1 => NoZ(w[x]))
      BY <1>3, <2>6, <2>7 DEF Solid
    <3>3. Solid(w, n)
      BY <1>3, <3>1, <3>2 DEF Solid
    <3> QED BY <3>3
  <2> QED BY <2>8, <2>9
<1> QED BY <1>4, <1>5

LEMMA SolidMax ==
  ASSUME NEW w, NEW m \in Nat, Solid(w, m), m # 0
  PROVE  Max(DOMAIN w) = m - 1
<1>1. DOMAIN w \in SUBSET (0 .. m - 1) /\ DOMAIN w # {} /\ m - 1 \in Nat /\ m - 1 \in DOMAIN w
  BY DEF Solid
<1>2. PICK k : k = Max(DOMAIN w)
  OBVIOUS
<1>3. k \in DOMAIN w /\ \A x \in DOMAIN w : x <= k
  BY <1>1, <1>2, GreatestNat
<1> QED BY <1>1, <1>2, <1>3 DEF Solid

\* "no Ctrl-Z stays in the middle of the file" (docs/exit_and_files.md:75),
\* for a program that leaves no hole and makes no SEEK_END that fails, on a
\* disk with room for fewer records than r0 r1 count.
THEOREM StreamNoMiddleCtrlZ ==
  ASSUME NoHoles
  PROVE  Spec => []NoMiddleCtrlZ
<1>1. Inv => NoMiddleCtrlZ
  <2> SUFFICES ASSUME Inv, NEW r \in DOMAIN Whole, r # Max(DOMAIN Whole), NEW i \in Offs
               PROVE  Whole[r][i] # CtrlZ
    BY DEF NoMiddleCtrlZ
  <2>1. PICK w : w = Whole
    OBVIOUS
  <2>2. w = Now(file, recs)
    BY <2>1 DEF Whole, Now
  <2>3. PICK m \in Nat : Solid(w, m)
    BY <2>2, NowSolid DEF Inv
  <2>4. r \in 0 .. m - 1 /\ m # 0
    BY <2>1, <2>3 DEF Solid
  <2>5. r # m - 1
    BY <2>1, <2>3, <2>4, SolidMax
  <2>6. NoZ(w[r])
    BY <2>1, <2>3, <2>4, <2>5 DEF Solid
  <2> QED BY <2>1, <2>6 DEF NoZ
<1> QED BY <1>1, SpecInv, PTL

-----------------------------------------------------------------------------
(* The text that solid records hold: the bytes that are no Ctrl-Z.          *)

LEMMA DivMod ==
  ASSUME NEW p, p \in Nat
  PROVE  /\ RecOf(p) \in Nat /\ OffOf(p) \in Offs /\ OffOf(p) \in 0 .. RecSize - 1
         /\ p = RecOf(p) * RecSize + OffOf(p)
<1> SUFFICES ASSUME NEW n, n = RecSize
             PROVE  p \div n \in Nat /\ p % n \in 0 .. n - 1 /\ p = (p \div n) * n + (p % n)
  BY DEF Offs, RecOf, OffOf
<1>1. n \in Nat /\ 1 <= n /\ n <= 128
  BY Sizes
<1> QED BY <1>1

TextLen(w, m) == IF m = 0 THEN 0 ELSE (m - 1) * RecSize + FirstZ(w[m - 1])

\* The byte of the records at a position, and whether it is data.
ByteAt(w, p) == w[RecOf(p)][OffOf(p)]
Data(w, p) == RecOf(p) \in DOMAIN w /\ ByteAt(w, p) # CtrlZ

LEMMA TextPlaces ==
  ASSUME NEW w, NEW m \in Nat, Solid(w, m), NEW p, p \in Nat
  PROVE  TextLen(w, m) \in Nat /\ (p < TextLen(w, m) <=> Data(w, p))
<1>1. PICK r, o : r = RecOf(p) /\ o = OffOf(p)
  OBVIOUS
<1>2. PICK s, q : s = RecSize /\ q = r * s
  OBVIOUS
<1>3. s \in Nat /\ 1 <= s /\ r \in Nat /\ o \in Offs /\ o \in 0 .. s - 1 /\ p = q + o /\ q \in Nat
  BY <1>1, <1>2, DivMod, Sizes
<1>4. CASE m = 0
  <2>1. DOMAIN w = {}
    BY <1>4 DEF Solid
  <2> QED BY <1>4, <2>1 DEF TextLen, Data
<1>5. CASE m # 0
  <2>1. PICK k, z : k = (m - 1) * s /\ z = FirstZ(w[m - 1])
    OBVIOUS
  <2>2. w[m - 1] \in Record /\ Tailed(w[m - 1])
    BY <1>5 DEF Solid
  <2>3. /\ z \in 0 .. s
        /\ \A i \in Offs : i < z => w[m - 1][i] # CtrlZ
        /\ z < s => w[m - 1][z] = CtrlZ
    BY <1>2, <2>1, <2>2, FirstZFacts
  <2>4. k \in Nat /\ m - 1 \in Nat
    BY <1>3, <1>5, <2>1
  <2>5. TextLen(w, m) = k + z
    BY <1>2, <1>5, <2>1 DEF TextLen
  <2>6. /\ r < m - 1 => q + s <= k
        /\ r = m - 1 => q = k
        /\ r > m - 1 => q >= k + s
    <3>1. ASSUME r < m - 1 PROVE q + s <= k
      <4>1. (r + 1) * s <= (m - 1) * s
        BY <1>3, <2>4, <3>1
      <4>2. (r + 1) * s = q + s
        BY <1>2, <1>3
      <4> QED BY <2>1, <4>1, <4>2
    <3>2. ASSUME r > m - 1 PROVE q >= k + s
      <4>1. ((m - 1) + 1) * s <= r * s
        BY <1>3, <2>4, <3>2
      <4>2. ((m - 1) + 1) * s = k + s
        BY <1>3, <2>1, <2>4
      <4> QED BY <1>2, <4>1, <4>2
    <3> QED BY <1>2, <2>1, <3>1, <3>2
  <2>7. CASE r < m - 1
    <3>1. r \in DOMAIN w /\ NoZ(w[r])
      BY <1>3, <2>7 DEF Solid
    <3>2. Data(w, p)
      BY <1>1, <1>3, <3>1 DEF Data, ByteAt, NoZ
    <3>3. p < k
      BY <1>3, <2>4, <2>6, <2>7
    <3>4. p < TextLen(w, m)
      BY <1>3, <2>3, <2>4, <2>5, <3>3
    <3> QED BY <1>3, <2>3, <2>4, <2>5, <3>2, <3>4
  <2>8. CASE r = m - 1
    <3>1. r \in DOMAIN w
      BY <1>3, <2>8 DEF Solid
    <3>2. p < TextLen(w, m) <=> o < z
      BY <1>3, <2>3, <2>4, <2>5, <2>6, <2>8
    <3>3. o < z => w[r][o] # CtrlZ
      BY <1>3, <2>3, <2>8
    <3>4. ~(o < z) => w[r][o] = CtrlZ
      <4> SUFFICES ASSUME ~(o < z) PROVE w[r][o] = CtrlZ
        OBVIOUS
      <4>1. z < s /\ z \in Offs /\ z <= o
        BY <1>2, <1>3, <2>3 DEF Offs
      <4> QED BY <1>3, <2>2, <2>3, <2>8, <4>1 DEF Tailed
    <3> QED BY <1>1, <1>3, <2>3, <2>4, <2>5, <3>1, <3>2, <3>3, <3>4 DEF Data, ByteAt
  <2>9. CASE r > m - 1
    <3>1. r \notin DOMAIN w
      BY <1>3, <2>9 DEF Solid
    <3>2. ~(p < TextLen(w, m))
      BY <1>3, <2>3, <2>4, <2>5, <2>6, <2>9
    <3> QED BY <1>1, <1>3, <2>3, <2>4, <2>5, <3>1, <3>2 DEF Data
  <2> QED BY <1>3, <2>4, <2>7, <2>8, <2>9
<1> QED BY <1>4, <1>5

LEMMA IsSeq ==
  ASSUME NEW S, NEW l \in Nat, NEW t \in [1 .. l -> S]
  PROVE  t \in Seq(S) /\ Len(t) = l
<1>1. t \in Seq(S)
  BY SeqDef
<1>2. Len(t) \in Nat /\ DOMAIN t = 1 .. Len(t) /\ DOMAIN t = 1 .. l
  BY <1>1, LenProperties
<1> QED BY <1>1, <1>2

LEMMA TextFacts ==
  ASSUME NEW w, NEW m \in Nat, Solid(w, m), NEW t, t = TextOf(w), NEW l, l = TextLen(w, m)
  PROVE  /\ l \in Nat /\ t \in Seq(0 .. 255) /\ Len(t) = l /\ DOMAIN t = 1 .. l
         /\ \A p \in 0 .. l - 1 : t[p + 1] = ByteAt(w, p)
<1>1. l \in Nat
  <2>1. 0 \in Nat
    OBVIOUS
  <2> QED BY <2>1, TextPlaces
<1>2. \A p \in 0 .. l - 1 : Data(w, p) /\ p \in Nat
  BY <1>1, TextPlaces
<1>3. t = [i \in 1 .. l |-> LET r == (i - 1) \div RecSize
                            IN IF r \in DOMAIN w THEN w[r][(i - 1) % RecSize] ELSE 0]
  <2>1. CASE m = 0
    <3>1. DOMAIN w = {} /\ l = 0
      BY <2>1 DEF Solid, TextLen
    <3> QED BY <3>1 DEF TextOf
  <2>2. CASE m # 0
    <3>1. PICK k : k = Max(DOMAIN w)
      OBVIOUS
    <3>2. k = m - 1
      BY <2>2, <3>1, SolidMax
    <3>3. m - 1 \in DOMAIN w
      BY <2>2 DEF Solid
    <3>4. l = k * RecSize + FirstZ(w[k])
      BY <2>2, <3>2 DEF TextLen
    <3> QED BY <3>1, <3>3, <3>4 DEF TextOf
  <2> QED BY <2>1, <2>2
<1>4. DOMAIN t = 1 .. l
  BY <1>3
<1>5. \A i \in 1 .. l : /\ i - 1 \in 0 .. l - 1
                        /\ t[i] = IF RecOf(i - 1) \in DOMAIN w THEN ByteAt(w, i - 1) ELSE 0
  BY <1>1, <1>3 DEF RecOf, OffOf, ByteAt
<1>6. \A i \in 1 .. l : t[i] = ByteAt(w, i - 1)
  BY <1>2, <1>5 DEF Data
<1>7. \A p \in 0 .. l - 1 : t[p + 1] = ByteAt(w, p)
  <2> SUFFICES ASSUME NEW p \in 0 .. l - 1 PROVE t[p + 1] = ByteAt(w, p)
    OBVIOUS
  <2>1. p + 1 \in 1 .. l /\ (p + 1) - 1 = p
    BY <1>1
  <2>2. PICK i \in 1 .. l : i = p + 1
    BY <2>1
  <2>3. i - 1 = p
    BY <1>1, <2>2
  <2> QED BY <1>6, <2>2, <2>3
<1>8. \A i \in 1 .. l : t[i] \in 0 .. 255
  <2> SUFFICES ASSUME NEW i \in 1 .. l PROVE t[i] \in 0 .. 255
    OBVIOUS
  <2>1. PICK p : p = i - 1
    OBVIOUS
  <2>2. Data(w, p) /\ p \in Nat /\ t[i] = ByteAt(w, p)
    BY <1>2, <1>5, <1>6, <2>1
  <2>3. OffOf(p) \in Offs
    BY <2>2, DivMod
  <2>4. w[RecOf(p)] \in [Offs -> 0 .. 255]
    BY <2>2 DEF Solid, Data, Record
  <2> QED BY <2>2, <2>3, <2>4 DEF ByteAt
<1>9. t = [i \in 1 .. l |-> t[i]]
  BY <1>3
<1>10. t \in Seq(0 .. 255) /\ Len(t) = l
  <2>1. t \in [1 .. l -> 0 .. 255]
    BY <1>8, <1>9
  <2> QED BY <1>1, <2>1, IsSeq
<1> QED BY <1>1, <1>4, <1>7, <1>10

\* v has the data of w, but for the byte at q.
Grows(w, v, q) ==
  \A p \in Nat : Data(w, p) => Data(v, p) /\ (p = q \/ ByteAt(v, p) = ByteAt(w, p))

LEMMA GrowsFacts ==
  ASSUME NEW w, NEW v, NEW x, NEW o \in Nat, NEW q, q = x * RecSize + o,
         \A r \in DOMAIN w : r \in DOMAIN v,
         \A r \in DOMAIN w, i \in Offs : w[r][i] # CtrlZ =>
           v[r][i] # CtrlZ /\ ((r = x /\ i = o) \/ v[r][i] = w[r][i])
  PROVE  Grows(w, v, q)
<1> SUFFICES ASSUME NEW p, p \in Nat, Data(w, p)
             PROVE  Data(v, p) /\ (p = q \/ ByteAt(v, p) = ByteAt(w, p))
  BY DEF Grows
<1>1. PICK r, i : r = RecOf(p) /\ i = OffOf(p)
  OBVIOUS
<1>2. i \in Offs /\ p = r * RecSize + i
  BY <1>1, DivMod
<1>3. r \in DOMAIN w /\ w[r][i] # CtrlZ /\ ByteAt(w, p) = w[r][i] /\ ByteAt(v, p) = v[r][i]
  BY <1>1 DEF Data, ByteAt
<1>4. r \in DOMAIN v /\ v[r][i] # CtrlZ /\ ((r = x /\ i = o) \/ v[r][i] = w[r][i])
  BY <1>2, <1>3
<1>5. Data(v, p)
  BY <1>1, <1>3, <1>4 DEF Data
<1> QED BY <1>2, <1>3, <1>4, <1>5

LEMMA AtMostOne ==
  ASSUME NEW S, NEW x, \A y \in S : y = x
  PROVE  Cardinality(S) <= 1
<1>1. CASE S = {}
  BY <1>1, FS_EmptySet
<1>2. CASE S # {}
  <2>1. S = {x}
    BY <1>2
  <2> QED BY <2>1, FS_Singleton
<1> QED BY <1>1, <1>2

\* The text is no shorter, and has at most one byte changed.
LEMMA GrowsText ==
  ASSUME NEW w, NEW m \in Nat, Solid(w, m), NEW v, NEW n \in Nat, Solid(v, n),
         NEW q, Grows(w, v, q), NEW s, s = TextOf(w), NEW t, t = TextOf(v)
  PROVE  Len(t) >= Len(s) /\ Cardinality({i \in 1 .. Len(s) : t[i] # s[i]}) <= 1
<1>1. PICK k, l : k = TextLen(w, m) /\ l = TextLen(v, n)
  OBVIOUS
<1>2. /\ k \in Nat /\ Len(s) = k /\ \A p \in 0 .. k - 1 : s[p + 1] = ByteAt(w, p)
      /\ l \in Nat /\ Len(t) = l /\ \A p \in 0 .. l - 1 : t[p + 1] = ByteAt(v, p)
  BY <1>1, TextFacts
<1>3. \A p \in 0 .. k - 1 : p \in Nat /\ p < l /\ (p = q \/ ByteAt(v, p) = ByteAt(w, p))
  <2> SUFFICES ASSUME NEW p, p \in 0 .. k - 1
               PROVE  p \in Nat /\ p < l /\ (p = q \/ ByteAt(v, p) = ByteAt(w, p))
    OBVIOUS
  <2>1. p \in Nat /\ p < k
    BY <1>2
  <2>2. Data(w, p)
    BY <1>1, <2>1, TextPlaces
  <2>3. Data(v, p) /\ (p = q \/ ByteAt(v, p) = ByteAt(w, p))
    BY <2>1, <2>2 DEF Grows
  <2>4. p < l
    BY <1>1, <2>1, <2>3, TextPlaces
  <2> QED BY <2>1, <2>3, <2>4
<1>4. l >= k
  <2> SUFFICES ASSUME l < k PROVE FALSE
    BY <1>2
  <2>1. l \in 0 .. k - 1
    BY <1>2
  <2> QED BY <1>2, <1>3, <2>1
<1>5. \A i \in {j \in 1 .. Len(s) : t[j] # s[j]} : i = q + 1
  <2> SUFFICES ASSUME NEW i \in 1 .. k, t[i] # s[i] PROVE i = q + 1
    BY <1>2
  <2>1. PICK p : p = i - 1
    OBVIOUS
  <2>2. p \in 0 .. k - 1 /\ p \in 0 .. l - 1 /\ i = p + 1
    BY <1>2, <1>4, <2>1
  <2>3. s[i] = ByteAt(w, p) /\ t[i] = ByteAt(v, p)
    BY <1>2, <2>2
  <2>4. p = q
    BY <1>3, <2>2, <2>3
  <2> QED BY <2>2, <2>4
<1>6. Cardinality({i \in 1 .. Len(s) : t[i] # s[i]}) <= 1
  BY <1>5, AtMostOne
<1> QED BY <1>2, <1>4, <1>6

-----------------------------------------------------------------------------
(* What each operator does to the data.                                     *)

\* A flush that does not fail writes what the stream has to write.
LEMMA FlushNow ==
  ASSUME NEW f \in FileType, NEW d, Is(f, "writing"), ~FlushFails(f, d),
         NEW g, g = Flushed(f, d), NEW e, e = FlushedDisk(f, d)
  PROVE  e = Now(f, d) /\ Now(g, e) = e
<1>1. e = Now(f, d)
  BY DEF FlushedDisk, FlushFails, Now
<1>2. ~Is(g, "dirty")
  BY FlushFile
<1>3. Now(g, e) = e
  BY <1>2 DEF Now, Pending
<1> QED BY <1>1, <1>3

LEMMA ToReadNow ==
  ASSUME NEW f \in FileType, NEW d, DiskOK(d), Is(f, "writing"), Is(f, "canRead"),
         ~FlushFails(f, d), NEW g, g = ToRead(f, d), NEW e, e = FlushedDisk(f, d)
  PROVE  e = Now(f, d) /\ Now(g, e) = e
<1>1. e = Now(f, d)
  BY DEF FlushedDisk, FlushFails, Now
<1>2. ~Is(g, "writing")
  BY ToReadFacts
<1>3. Now(g, e) = e
  BY <1>2 DEF Now
<1> QED BY <1>1, <1>3

\* A stream that has nothing to write, or the record as the disk has it.
SameRecords(v, w) == DOMAIN v = DOMAIN w /\ \A r \in DOMAIN w : v[r] = w[r]

LEMMA ToWriteNow ==
  ASSUME NEW f, NEW d, Good(f, d), ~Is(f, "writing"), Is(f, "canWrite"),
         NEW g, g = ToWrite(f, d)
  PROVE  Now(f, d) = d /\ SameRecords(Now(g, d), d)
<1>1. f \in FileType /\ DiskOK(d) /\ Settled(f)
  BY DEF Good
<1>2. Now(f, d) = d
  BY DEF Now
<1>3. CASE ~Pending(g)
  BY <1>3 DEF Now, SameRecords
<1>4. CASE Pending(g)
  <2>1. Is(g, "dirty") /\ Valid(g) # 0
    BY <1>4 DEF Pending
  <2>2. g \in FileType /\ Is(f, "dirty")
    BY <1>1, <2>1, ToWriteFacts
  <2>3. Is(f, "append")
    BY <1>1, <2>2 DEF Settled
  <2>4. NumRecs(d) # 0
    <3>1. NumRecs(d) = 0 => g.bufpos = 0 /\ g.bufcnt = 0
      BY <1>1, <2>3, ToWriteFacts
    <3> QED BY <2>1, <3>1 DEF Valid
  <2>5. PICK n : n = NumRecs(d) - 1
    OBVIOUS
  <2>6. n \in DOMAIN d /\ g.recno = n /\ g.buf = d[n] /\ g.bufcnt = RecSize
    BY <1>1, <2>3, <2>4, <2>5, ToWriteFacts
  <2>7. Padded(g) = d[n]
    BY <2>2, <2>6, FullBuffer
  <2>8. PICK w : w = Now(g, d)
    OBVIOUS
  <2>9. w = d \/ w = Written(d, n, d[n])
    BY <2>6, <2>7, <2>8 DEF Now
  <2>10. SameRecords(w, d)
    BY <2>6, <2>9 DEF SameRecords, Written
  <2> QED BY <1>2, <2>8, <2>10
<1> QED BY <1>2, <1>3, <1>4

\* The next record has nothing to write yet.
LEMMA NextRecNow ==
  ASSUME NEW f \in FileType, NEW d, DiskOK(d), ~Is(f, "dirty"), NEW g, g = NextRec(f, d)
  PROVE  Now(f, d) = d /\ Now(g, d) = d
<1>1. g.flags = f.flags
  BY NextRecFacts
<1>2. ~Is(g, "dirty")
  BY <1>1 DEF Is
<1> QED BY <1>2 DEF Now, Pending

\* A byte stored: the record f has in its buffer with c at the position.
LEMMA StoredNow ==
  ASSUME NoHoles, NEW f, NEW d, Good(f, d), Is(f, "open"), Is(f, "writing"),
         f.bufpos < RecSize, NEW c, c \in 0 .. 255, c # CtrlZ, NEW g, g = Stored(f, c),
         NEW w, w = Now(f, d), NEW v, v = Now(g, d)
  PROVE  /\ f.bufpos \in Offs /\ DOMAIN v = DOMAIN w \cup {f.recno} /\ v[f.recno][f.bufpos] = c
         /\ \A r \in DOMAIN w : r # f.recno => v[r] = w[r]
         /\ \A i \in Offs : i # f.bufpos => v[f.recno][i] = Padded(f)[i]
         /\ f.recno \in DOMAIN w => w[f.recno] = Padded(f)
<1>1. f \in FileType /\ DiskOK(d) /\ Dense(d) /\ Steady(f, d) /\ Shaped(f, d)
  BY NoHolesFacts DEF Good
<1>2. /\ g \in FileType /\ g.recno = f.recno /\ g.bufpos = f.bufpos + 1
      /\ Is(g, "writing") /\ Is(g, "dirty")
  BY <1>1, StoredFacts
<1>3. Pending(g)
  <2>1. f.bufpos \in Nat
    BY <1>1, Sizes DEF FileType
  <2>2. g.bufpos <= Valid(g) /\ Valid(g) \in Nat
    BY <1>2, PaddedFacts, Sizes
  <2>3. Valid(g) # 0
    BY <1>2, <2>1, <2>2
  <2> QED BY <1>2, <2>3 DEF Pending
<1>4. v = Written(d, f.recno, Padded(g))
  BY <1>2, <1>3 DEF Now
<1>5. /\ f.bufpos \in Offs /\ Padded(g)[f.bufpos] = c
      /\ \A i \in Offs : i # f.bufpos => Padded(g)[i] = Padded(f)[i]
  BY <1>1, StoredPadded DEF Steady
<1>6. /\ DOMAIN v = DOMAIN d \cup {f.recno} /\ v[f.recno] = Padded(g)
      /\ \A r \in DOMAIN d : r # f.recno => v[r] = d[r]
  BY <1>4 DEF Written
<1>7. CASE Pending(f)
  <2>1. w = Written(d, f.recno, Padded(f))
    BY <1>7 DEF Now
  <2>2. /\ DOMAIN w = DOMAIN d \cup {f.recno} /\ w[f.recno] = Padded(f)
        /\ \A r \in DOMAIN d : r # f.recno => w[r] = d[r]
    BY <2>1 DEF Written
  <2> QED BY <1>5, <1>6, <2>2
<1>8. CASE ~Pending(f)
  <2>1. w = d
    BY <1>8 DEF Now
  <2>2. f.recno \in DOMAIN d => d[f.recno] = Padded(f)
    <3> SUFFICES ASSUME f.recno \in DOMAIN d PROVE d[f.recno] = Padded(f)
      OBVIOUS
    <3>1. f.bufcnt # 0
      <4>1. DOMAIN d = 0 .. NumRecs(d) - 1 /\ NumRecs(d) \in Nat
        BY <1>1, LastRecord, Sizes DEF Dense
      <4> QED BY <1>1, <4>1 DEF Shaped
    <3>2. Valid(f) # 0
      BY <1>1, <3>1, PaddedFacts DEF Steady
    <3>3. ~Is(f, "dirty") /\ Cur(f) = f.recno
      BY <1>8, <3>2 DEF Pending, Cur
    <3> QED BY <1>1, <3>1, <3>3 DEF Steady
  <2> QED BY <1>5, <1>6, <2>1, <2>2
<1> QED BY <1>7, <1>8

-----------------------------------------------------------------------------
(* Nothing is lost silently.                                                *)

\* A step to g on the disk e that loses nothing.
Kept(g, e) == Is(g, "error") \/ \E q \in Int : Grows(Now(file, recs), Now(g, e), q)

\* The same records, as a step that changes no data leaves them.
LEMMA SameKept ==
  ASSUME NEW g, NEW e, Now(g, e) = Now(file, recs) \/ SameRecords(Now(g, e), Now(file, recs))
  PROVE  Kept(g, e)
<1>1. PICK v, w : v = Now(g, e) /\ w = Now(file, recs)
  OBVIOUS
<1>2. PICK x, o : x = 0 /\ o = 0
  OBVIOUS
<1>3. PICK q : q = x * RecSize + o
  OBVIOUS
<1>4. /\ \A r \in DOMAIN w : r \in DOMAIN v
      /\ \A r \in DOMAIN w, i \in Offs : w[r][i] # CtrlZ =>
           v[r][i] # CtrlZ /\ ((r = x /\ i = o) \/ v[r][i] = w[r][i])
  BY <1>1 DEF SameRecords
<1>5. Grows(w, v, q)
  BY <1>2, <1>3, <1>4, GrowsFacts
<1>6. q \in Int
  BY <1>2, <1>3, Sizes
<1> QED BY <1>1, <1>5, <1>6 DEF Kept

LEMMA SameNow ==
  ASSUME NEW f, NEW g, NEW d, g.bufpos = f.bufpos, g.bufcnt = f.bufcnt,
         g.recno = f.recno, g.buf = f.buf,
         Is(g, "writing") <=> Is(f, "writing"), Is(g, "dirty") <=> Is(f, "dirty")
  PROVE  Now(g, d) = Now(f, d)
<1>1. Valid(g) = Valid(f)
  BY DEF Valid
<1>2. Padded(g) = Padded(f)
  BY <1>1 DEF Padded
<1>3. (Is(g, "writing") /\ Pending(g)) <=> (Is(f, "writing") /\ Pending(f))
  BY <1>1 DEF Pending
<1> QED BY <1>2, <1>3 DEF Now

LEMMA FgetcKept ==
  ASSUME Inv, FgetcFails \/ Fgetc
  PROVE  Kept(file', recs')
<1>1. Good(file, recs) /\ file \in FileType /\ DiskOK(recs)
  BY DEF Inv, Good
<1>2. PICK g, e : g = ToRead(file, recs) /\ e = FlushedDisk(file, recs)
  OBVIOUS
<1>3. CASE FgetcFails
  <2>1. file' = g /\ Is(file, "writing") /\ Is(g, "writing")
    BY <1>2, <1>3 DEF FgetcFails
  <2>2. Is(g, "error")
    <3>1. CASE ~Is(file, "canRead")
      BY <1>1, <1>2, <3>1, ToReadFacts
    <3>2. CASE Is(file, "canRead")
      <4>1. FlushFails(file, recs) /\ g = Flushed(file, recs)
        BY <1>1, <1>2, <2>1, <3>2, ToReadFacts
      <4> QED BY <1>1, <4>1, FlushFile
    <3> QED BY <3>1, <3>2
  <2> QED BY <2>1, <2>2 DEF Kept
<1>4. CASE Fgetc /\ ~Is(file, "writing")
  <2>1. PICK h : h = [file EXCEPT !.unget = None]
    OBVIOUS
  <2>2. file' = h /\ recs' = recs
    BY <1>4, <2>1 DEF Fgetc
  <2>3. h.flags = file.flags
    BY <1>1, <2>1 DEF FileType
  <2>4. Now(h, recs) = Now(file, recs)
    BY <1>4, <2>3 DEF Now, Is
  <2> QED BY <2>2, <2>4, SameKept
<1>5. CASE Fgetc /\ Is(file, "writing")
  <2>1. PICK h : h = [g EXCEPT !.unget = None]
    OBVIOUS
  <2>2. file' = h /\ recs' = e /\ ~Is(g, "writing")
    BY <1>2, <1>5, <2>1 DEF Fgetc
  <2>3. g \in FileType /\ Is(file, "canRead") /\ ~FlushFails(file, recs)
    <3>1. g \in FileType /\ Is(file, "canRead")
      BY <1>1, <1>2, <1>5, <2>2, ToReadFacts
    <3>2. FlushFails(file, recs) => g = Flushed(file, recs)
      BY <1>1, <1>2, <3>1, ToReadFacts
    <3>3. g = Flushed(file, recs) => (Is(g, "writing") <=> Is(file, "writing"))
      BY <1>1, FlushFile
    <3> QED BY <1>5, <2>2, <3>1, <3>2, <3>3
  <2>4. e = Now(file, recs)
    BY <1>1, <1>2, <1>5, <2>3, ToReadNow
  <2>5. h.flags = g.flags
    BY <2>1, <2>3 DEF FileType
  <2>6. Now(h, e) = e
    BY <2>2, <2>5 DEF Now, Is
  <2> QED BY <2>2, <2>4, <2>6, SameKept
<1> QED BY <1>3, <1>4, <1>5

LEMMA LoopKept ==
  ASSUME Inv, Loop
  PROVE  Kept(file', recs')
<1>1. pc = "getc" /\ recs' = recs
  BY DEF Loop, FgetcRefill, FgetcEnd, FgetcSkip, FgetcByte, Refills, Looks, disk
<1>2. ~Is(file, "writing") /\ file \in FileType
  BY <1>1 DEF Inv, Good
<1>3. file'.flags \subseteq file.flags \cup {"eof"}
  BY <1>2 DEF Loop, FgetcRefill, FgetcEnd, FgetcSkip, FgetcByte, Raise, FileType
<1>4. ~Is(file', "writing")
  BY <1>2, <1>3 DEF Is
<1>5. Now(file', recs') = Now(file, recs)
  BY <1>1, <1>2, <1>4 DEF Now
<1> QED BY <1>5, SameKept

LEMMA FieldsKept ==
  ASSUME Inv, (\E c \in Backs : Ungetc(c)) \/ Clearerr
  PROVE  Kept(file', recs')
<1>1. file \in FileType
  BY DEF Inv, Good
<1>2. /\ recs' = recs
      /\ file'.bufpos = file.bufpos /\ file'.bufcnt = file.bufcnt
      /\ file'.recno = file.recno /\ file'.buf = file.buf
      /\ file'.flags = file.flags \/ file'.flags = file.flags \ {"eof", "error"}
  BY <1>1 DEF Ungetc, Clearerr, FileType, disk
<1>3. /\ Is(file', "writing") <=> Is(file, "writing")
      /\ Is(file', "dirty") <=> Is(file, "dirty")
  BY <1>2 DEF Is
<1>4. PICK g : g = file'
  OBVIOUS
<1>5. Now(g, recs) = Now(file, recs)
  BY <1>2, <1>3, <1>4, SameNow
<1> QED BY <1>2, <1>4, <1>5, SameKept

LEMMA FflushKept ==
  ASSUME Inv, Fflush
  PROVE  Kept(file', recs')
<1>1. file \in FileType
  BY DEF Inv, Good
<1>2. CASE ~Is(file, "writing")
  <2>1. file' = file /\ recs' = recs
    BY <1>2 DEF Fflush
  <2> QED BY <2>1, SameKept
<1>3. CASE Is(file, "writing")
  <2>1. PICK g, e : g = Flushed(file, recs) /\ e = FlushedDisk(file, recs)
    OBVIOUS
  <2>2. file' = g /\ recs' = e
    BY <1>3, <2>1 DEF Fflush
  <2>3. CASE FlushFails(file, recs)
    <3>1. Is(g, "error")
      BY <1>1, <2>1, <2>3, FlushFile
    <3> QED BY <2>2, <3>1 DEF Kept
  <2>4. CASE ~FlushFails(file, recs)
    <3>1. e = Now(file, recs) /\ Now(g, e) = e
      BY <1>1, <1>3, <2>1, <2>4, FlushNow
    <3> QED BY <2>2, <3>1, SameKept
  <2> QED BY <2>3, <2>4
<1> QED BY <1>2, <1>3

\* A byte stored in a stream whose data is that of the file.
LEMMA StoredKept ==
  ASSUME NoHoles, NEW f, NEW d, Good(f, d), Is(f, "open"), Is(f, "writing"),
         f.bufpos < RecSize, NEW c, c \in 0 .. 255, c # CtrlZ, NEW g, g = Stored(f, c),
         SameRecords(Now(f, d), Now(file, recs))
  PROVE  Kept(g, d)
<1>1. PICK w, v, u : w = Now(f, d) /\ v = Now(g, d) /\ u = Now(file, recs)
  OBVIOUS
<1>2. PICK x, o : x = f.recno /\ o = f.bufpos
  OBVIOUS
<1>3. /\ o \in Offs /\ DOMAIN v = DOMAIN w \cup {x} /\ v[x][o] = c
      /\ \A r \in DOMAIN w : r # x => v[r] = w[r]
      /\ \A i \in Offs : i # o => v[x][i] = Padded(f)[i]
      /\ x \in DOMAIN w => w[x] = Padded(f)
  <2>1. /\ f.bufpos \in Offs /\ DOMAIN v = DOMAIN w \cup {f.recno} /\ v[f.recno][f.bufpos] = c
        /\ \A r \in DOMAIN w : r # f.recno => v[r] = w[r]
        /\ \A i \in Offs : i # f.bufpos => v[f.recno][i] = Padded(f)[i]
        /\ f.recno \in DOMAIN w => w[f.recno] = Padded(f)
    BY <1>1, StoredNow
  <2> QED BY <1>2, <2>1
<1>4. DOMAIN u = DOMAIN w /\ \A r \in DOMAIN u : w[r] = u[r]
  BY <1>1 DEF SameRecords
<1>5. \A r \in DOMAIN u, i \in Offs : u[r][i] # CtrlZ =>
        v[r][i] # CtrlZ /\ ((r = x /\ i = o) \/ v[r][i] = u[r][i])
  <2> SUFFICES ASSUME NEW r \in DOMAIN u, NEW i \in Offs, u[r][i] # CtrlZ
               PROVE  v[r][i] # CtrlZ /\ ((r = x /\ i = o) \/ v[r][i] = u[r][i])
    OBVIOUS
  <2>1. CASE r # x
    BY <1>3, <1>4, <2>1
  <2>2. CASE r = x /\ i # o
    BY <1>3, <1>4, <2>2
  <2>3. CASE r = x /\ i = o
    BY <1>3, <2>3
  <2> QED BY <2>1, <2>2, <2>3
<1>6. \A r \in DOMAIN u : r \in DOMAIN v
  BY <1>3, <1>4
<1>7. o \in Nat /\ x \in Int
  BY <1>2, <1>3, Sizes DEF Offs, Good, FileType
<1>8. PICK q : q = x * RecSize + o
  OBVIOUS
<1>9. Grows(u, v, q)
  BY <1>5, <1>6, <1>7, <1>8, GrowsFacts
<1>10. q \in Int
  BY <1>7, <1>8, Sizes
<1> QED BY <1>1, <1>9, <1>10 DEF Kept

LEMMA FputcKept ==
  ASSUME NoHoles, Inv, NEW c \in Chars, Fputc(c)
  PROVE  Kept(file', recs')
<1>1. Good(file, recs) /\ Is(file, "open") /\ file \in FileType /\ DiskOK(recs)
  BY DEF Inv, Fputc, Ready, Open, Good
<1>2. c \in 0 .. 255 /\ c # CtrlZ
  BY Sizes
<1>3. PICK f : f = IF Is(file, "writing") THEN file ELSE ToWrite(file, recs)
  OBVIOUS
<1>4. Good(f, recs) /\ Is(f, "open")
  BY <1>1, <1>3, ToWriteGood
<1>5. f \in FileType
  BY <1>4 DEF Good
<1>6. PICK g, d : g = Flushed(f, recs) /\ d = FlushedDisk(f, recs)
  OBVIOUS
<1>7. CASE ~Is(f, "writing")
  <2>1. file' = f
    BY <1>3, <1>7 DEF Fputc
  <2>2. ~Is(file, "writing") /\ ~Is(file, "canWrite")
    BY <1>1, <1>3, <1>7, ToWriteGood
  <2>3. f = Raise(file, "error")
    BY <1>3, <2>2 DEF ToWrite
  <2>4. f.flags = file.flags \cup {"error"}
    BY <1>1, <2>3 DEF Raise, FileType
  <2>5. Is(f, "error")
    BY <2>4 DEF Is
  <2> QED BY <2>1, <2>5 DEF Kept
<1>8. Is(f, "writing") => SameRecords(Now(f, recs), Now(file, recs))
  <2>1. CASE Is(file, "writing")
    BY <1>3, <2>1 DEF SameRecords
  <2>2. CASE ~Is(file, "writing")
    <3> SUFFICES ASSUME Is(f, "writing") PROVE SameRecords(Now(f, recs), Now(file, recs))
      OBVIOUS
    <3>1. f = ToWrite(file, recs)
      BY <1>3, <2>2
    <3>2. Is(file, "canWrite")
      BY <1>1, <2>2, <3>1, ToWriteGood
    <3> QED BY <1>1, <2>2, <3>1, <3>2, ToWriteNow
  <2> QED BY <2>1, <2>2
<1>9. CASE Is(f, "writing") /\ f.bufpos >= RecSize
  <2>1. Good(g, d) /\ Is(g, "open") /\ Is(g, "writing")
    BY <1>4, <1>6, <1>9, FlushGood
  <2>2. recs' = d
    BY <1>3, <1>6, <1>9 DEF Fputc
  <2>3. CASE FlushFails(f, recs)
    <3>1. file' = g
      BY <1>3, <1>6, <1>9, <2>3 DEF Fputc
    <3>2. Is(g, "error")
      BY <1>5, <1>6, <2>3, FlushFile
    <3> QED BY <3>1, <3>2 DEF Kept
  <2>4. CASE ~FlushFails(f, recs)
    <3>1. PICK h : h = NextRec(g, d)
      OBVIOUS
    <3>2. PICK k : k = Stored(h, c)
      OBVIOUS
    <3>3. file' = k
      BY <1>3, <1>6, <1>9, <2>4, <3>1, <3>2 DEF Fputc
    <3>4. f.bufpos = RecSize
      BY <1>5, <1>9, Sizes DEF FileType
    <3>5. g.bufpos = RecSize /\ ~Is(g, "dirty") /\ g \in FileType /\ DiskOK(d)
      BY <1>5, <1>6, <2>1, <2>4, <3>4, FlushFile DEF Good
    <3>6. Good(h, d) /\ Is(h, "open") /\ Is(h, "writing") /\ h.bufpos < RecSize
      BY <2>1, <3>1, <3>5, NextRecGood
    <3>7. d = Now(f, recs)
      BY <1>5, <1>6, <1>9, <2>4, FlushNow
    <3>8. Now(h, d) = d
      BY <3>1, <3>5, NextRecNow
    <3>9. SameRecords(Now(h, d), Now(file, recs))
      BY <1>8, <1>9, <3>7, <3>8
    <3>10. Kept(k, d)
      BY <1>2, <3>2, <3>6, <3>9, StoredKept
    <3> QED BY <2>2, <3>3, <3>10
  <2> QED BY <2>3, <2>4
<1>10. CASE Is(f, "writing") /\ ~(f.bufpos >= RecSize)
  <2>1. PICK k : k = Stored(f, c)
    OBVIOUS
  <2>2. file' = k /\ recs' = recs
    BY <1>3, <1>10, <2>1 DEF Fputc
  <2>3. f.bufpos < RecSize
    BY <1>5, <1>10, Sizes DEF FileType
  <2>4. Kept(k, recs)
    BY <1>2, <1>4, <1>8, <1>10, <2>1, <2>3, StoredKept
  <2> QED BY <2>2, <2>4
<1> QED BY <1>7, <1>9, <1>10

LEMMA SeekKept ==
  ASSUME NoHoles, Inv, NEW off, NEW whence, NEW done, NEW failed, Seek(off, whence, done, failed)
  PROVE  Kept(file', recs')
<1>1. Good(file, recs) /\ Is(file, "open") /\ file \in FileType /\ DiskOK(recs)
  BY DEF Inv, Seek, Ready, Open, Good
<1>2. PICK d, g : /\ d = IF Is(file, "writing") THEN FlushedDisk(file, recs) ELSE recs
                  /\ g = IF Is(file, "writing") THEN Flushed(file, recs) ELSE file
  OBVIOUS
<1>3. PICK f : f = IF whence = 2 /\ NumRecs(d) # 0
                     THEN [g EXCEPT !.buf = d[NumRecs(d) - 1]] ELSE g
  OBVIOUS
<1>4. PICK to : to = off + (CASE whence = 0 -> 0 [] whence = 1 -> Tell(f) [] whence = 2 -> Size(d))
  OBVIOUS
<1>5. PICK e : e = IF Is(f, "canWrite") THEN GapFilled(d, to) ELSE d
  OBVIOUS
<1>6. /\ Tame(f, d, whence, to)
      /\ IF to \in 0 .. MaxOffset
           THEN recs' = e /\ file' = Placed(f, e, to)
           ELSE recs' = d /\ file' = f
  BY <1>2, <1>3, <1>4, <1>5 DEF Seek
<1>7. Good(g, d) /\ Is(g, "open")
  <2>1. CASE Is(file, "writing")
    BY <1>1, <1>2, <2>1, FlushGood
  <2>2. CASE ~Is(file, "writing")
    BY <1>1, <1>2, <2>2
  <2> QED BY <2>1, <2>2
<1>8. g \in FileType /\ DiskOK(d) /\ Settled(g)
  BY <1>7 DEF Good
<1>9. f \in FileType /\ f.flags = g.flags
  <2>1. CASE whence = 2 /\ NumRecs(d) # 0
    <3>1. d[NumRecs(d) - 1] \in Record
      BY <1>8, <2>1, LastRecord
    <3>2. [g EXCEPT !.buf = d[NumRecs(d) - 1]] \in FileType
      BY <1>8, <3>1 DEF FileType
    <3> QED BY <1>3, <1>8, <2>1, <3>2 DEF FileType
  <2>2. CASE ~(whence = 2 /\ NumRecs(d) # 0)
    BY <1>3, <1>8, <2>2
  <2> QED BY <2>1, <2>2
<1>10. PICK h, r, o : h = Placed(f, e, to) /\ r = RecOf(to) /\ o = OffOf(to)
  OBVIOUS
<1>11. to \in 0 .. MaxOffset =>
         /\ DiskOK(e) /\ DOMAIN e = DOMAIN d
         /\ \A x \in DOMAIN d, i \in Offs : d[x][i] # CtrlZ => e[x][i] = d[x][i]
  <2>1. CASE Is(f, "canWrite") /\ to \in 0 .. MaxOffset
    <3>1. PICK l : l = NumRecs(d) - 1
      OBVIOUS
    <3>2. /\ DiskOK(e) /\ DOMAIN e = DOMAIN d
          /\ \A x \in DOMAIN d : x # l \/ NumRecs(d) = 0 => e[x] = d[x]
          /\ NumRecs(d) # 0 => \A i \in Offs :
               e[l][i] = IF DataLen(d[l]) <= i /\ i < Upto(d, to) THEN 0 ELSE d[l][i]
      BY <1>5, <1>8, <2>1, <3>1, GapFacts
    <3>3. NumRecs(d) # 0 => l \in DOMAIN d /\ d[l] \in Record
      BY <1>8, <3>1, LastRecord
    <3>4. NumRecs(d) # 0 =>
            /\ \A i \in Offs : i >= DataLen(d[l]) => d[l][i] = CtrlZ
            /\ DataLen(d[l]) \in 0 .. RecSize
      BY <3>3, DataLenFacts
    <3>5. NumRecs(d) # 0 => \A i \in Offs : d[l][i] # CtrlZ => e[l][i] = d[l][i]
      BY <3>2, <3>4, Sizes DEF Offs
    <3> QED BY <3>2, <3>5
  <2>2. CASE ~Is(f, "canWrite")
    BY <1>5, <1>8, <2>2
  <2> QED BY <2>1, <2>2
<1>12. CASE Is(file, "writing") /\ FlushFails(file, recs)
  <2>1. Is(f, "error")
    <3>1. Is(g, "error")
      BY <1>1, <1>2, <1>12, FlushFile
    <3> QED BY <1>9, <3>1 DEF Is
  <2>2. to \in 0 .. MaxOffset => Is(h, "error")
    BY <1>9, <1>10, <1>11, <2>1, PlacedFacts
  <2> QED BY <1>6, <1>10, <2>1, <2>2 DEF Kept
<1>13. CASE ~(Is(file, "writing") /\ FlushFails(file, recs))
  <2>1. d = Now(file, recs) /\ Now(g, d) = d
    <3>1. CASE Is(file, "writing")
      BY <1>1, <1>2, <1>13, <3>1, FlushNow
    <3>2. CASE ~Is(file, "writing")
      BY <1>2, <3>2 DEF Now
    <3> QED BY <3>1, <3>2
  <2>2. CASE to \notin 0 .. MaxOffset
    <3>1. f = g
      BY <1>3, <1>6, <2>2, NoHolesFacts DEF Tame
    <3>2. recs' = d /\ file' = g
      BY <1>6, <2>2, <3>1
    <3> QED BY <2>1, <3>2, SameKept
  <2>3. CASE to \in 0 .. MaxOffset
    <3>1. /\ h \in FileType
          /\ Is(h, "writing") <=> (Is(f, "writing") /\ ~Is(f, "append"))
          /\ Is(h, "dirty") <=> Is(f, "dirty")
      BY <1>9, <1>10, <1>11, <2>3, PlacedFacts
    <3>2. Is(file, "writing") => ~Is(g, "dirty")
      BY <1>1, <1>2, <1>13, FlushFile
    <3>3. ~(Is(h, "writing") /\ Is(h, "dirty"))
      <4>1. Is(f, "dirty") => ~Is(file, "writing")
        BY <1>9, <3>2 DEF Is
      <4>2. ~Is(file, "writing") => ~Is(f, "writing")
        BY <1>2, <1>9 DEF Is
      <4> QED BY <3>1, <4>1, <4>2
    <3>4. Now(h, e) = e
      BY <3>3 DEF Now, Pending
    <3>5. PICK x, p : x = 0 /\ p = 0
      OBVIOUS
    <3>6. PICK q : q = x * RecSize + p
      OBVIOUS
    <3>7. Grows(d, e, q)
      BY <1>11, <2>3, <3>5, <3>6, GrowsFacts
    <3>8. q \in Int
      BY <3>5, <3>6, Sizes
    <3>9. recs' = e /\ file' = h
      BY <1>6, <1>10, <2>3
    <3> QED BY <2>1, <3>4, <3>7, <3>8, <3>9 DEF Kept
  <2> QED BY <2>2, <2>3
<1> QED BY <1>12, <1>13

\* A call changes at most one byte of the data and drops none, unless it
\* raises the error flag: whatever the calls and however full the disk, for a
\* program that leaves no hole and makes no SEEK_END that fails, and a disk
\* with room for fewer records than r0 r1 count.
THEOREM StreamNothingLostSilently ==
  ASSUME NoHoles
  PROVE  Spec => NothingLostSilently
<1>1. ASSUME Inv, Inv', [Next]_vars, Open, ~Fclose, \A m \in Modes : ~Freopen(m)
      PROVE  \/ vars' = vars
             \/ "error" \in file'.flags
             \/ /\ Len(Text') >= Len(Text)
                /\ Cardinality({i \in 1 .. Len(Text) : Text'[i] # Text[i]}) <= 1
  <2>1. CASE vars' = vars
    BY <2>1
  <2>2. CASE Next
    <3>1. Kept(file', recs')
      <4>1. ASSUME NEW m \in Modes, Fopen(m) PROVE FALSE
        BY <1>1, <4>1 DEF Fopen
      <4>2. ASSUME NEW off, NEW whence, Fseek(off, whence) PROVE Kept(file', recs')
        BY <1>1, <4>2, SeekKept DEF Fseek
      <4>3. ASSUME NEW off, Fsetpos(off) PROVE Kept(file', recs')
        BY <1>1, <4>3, SeekKept DEF Fsetpos
      <4>4. ASSUME Rewind PROVE Kept(file', recs')
        BY <4>2, <4>4 DEF Rewind
      <4>5. ASSUME Ftell PROVE Kept(file', recs')
        BY <4>5, SameKept DEF Ftell, disk
      <4>6. ASSUME NEW c \in Chars, Fputc(c) PROVE Kept(file', recs')
        BY <1>1, <4>6, FputcKept
      <4> QED BY <1>1, <2>2, <4>1, <4>2, <4>3, <4>4, <4>5, <4>6,
                 FgetcKept, LoopKept, FieldsKept, FflushKept DEF Next
    <3>2. PICK w, v, g : w = Whole /\ v = Whole' /\ g = file'
      OBVIOUS
    <3>3. w = Now(file, recs) /\ v = Now(file', recs')
      BY <3>2 DEF Whole, Now
    <3>4. Good(file, recs) /\ Good(file', recs')
      BY <1>1 DEF Inv
    <3>5. PICK m \in Nat : Solid(w, m)
      BY <3>3, <3>4, NowSolid
    <3>6. PICK n \in Nat : Solid(v, n)
      BY <3>3, <3>4, NowSolid
    <3>7. CASE Is(g, "error")
      BY <3>2, <3>7 DEF Is
    <3>8. CASE ~Is(g, "error")
      <4>1. PICK q : Grows(w, v, q)
        BY <3>1, <3>2, <3>3, <3>8 DEF Kept
      <4>2. PICK s, t : s = TextOf(w) /\ t = TextOf(v)
        OBVIOUS
      <4>3. Len(t) >= Len(s) /\ Cardinality({i \in 1 .. Len(s) : t[i] # s[i]}) <= 1
        BY <3>5, <3>6, <4>1, <4>2, GrowsText
      <4>4. Text = s /\ Text' = t
        BY <3>2, <4>2 DEF Text
      <4> QED BY <4>3, <4>4
    <3> QED BY <3>7, <3>8
  <2> QED BY <1>1, <2>1, <2>2
<1>2. Inv /\ Inv' /\ [Next]_vars => [Open /\ ~Fclose /\ (\A m \in Modes : ~Freopen(m)) =>
       \/ "error" \in file'.flags
       \/ /\ Len(Text') >= Len(Text)
          /\ Cardinality({i \in 1 .. Len(Text) : Text'[i] # Text[i]}) <= 1]_vars
  BY <1>1
<1> QED BY <1>2, SpecInv, PTL DEF Spec, NothingLostSilently

-----------------------------------------------------------------------------
(* The program of the documentation, and what more holds of its stream.     *)

\* A program that makes the tame calls only, writes no more than the disk has
\* room for, and does not push back the character 255, which unget means none
\* by.  0 is among the offsets for the sake of rewind.
Tamed ==
  /\ Wild = {} /\ Capacity < RecNos /\ Limit <= RecSize * Capacity
  /\ None \notin Backs /\ 0 \in Offsets

LEMMA TamedFacts ==
  ASSUME Tamed
  PROVE  /\ NoHoles /\ "seekFails" \notin Wild /\ "hole" \notin Wild /\ "setpos" \notin Wild
         /\ "readWriteOnly" \notin Wild /\ "writeBack" \notin Wild
         /\ Capacity < RecNos /\ Limit <= RecSize * Capacity
         /\ None \notin Backs /\ 0 \in Offsets
  BY DEF Tamed, NoHoles

\* A record that a seek has made in the buffer and no call has written in:
\* zeros up to the position.
Blank(f, d) ==
  f.bufcnt # 0 /\ ~Is(f, "dirty") /\ Cur(f) = NumRecs(d) =>
    \A i \in Offs : Padded(f)[i] = IF i < f.bufpos THEN 0 ELSE CtrlZ

\* No flush fails, and a stream that reads has a full buffer or an empty one.
Exact(f, d) ==
  /\ Is(f, "dirty") => Is(f, "writing") /\ f.recno < Capacity
  /\ ~Is(f, "writing") /\ f.bufcnt # 0 => f.bufcnt = RecSize
  /\ Blank(f, d)

\* A FILE of the tamed program.
Fine(f, d) == Good(f, d) /\ Is(f, "open") /\ Exact(f, d)

LEMMA FineFacts ==
  ASSUME Tamed, NEW f, NEW d, Fine(f, d)
  PROVE  /\ f \in FileType /\ DiskOK(d) /\ Dense(d) /\ Steady(f, d) /\ Shaped(f, d)
         /\ NumRecs(d) \in Nat /\ NumRecs(d) <= RecNos - 1 /\ DOMAIN d = 0 .. NumRecs(d) - 1
         /\ f.recno \in Nat /\ Cur(f) \in Nat /\ Cur(f) <= NumRecs(d)
         /\ f.bufpos \in Nat /\ f.bufcnt \in Nat /\ f.bufpos <= f.bufcnt /\ f.bufcnt <= RecSize
         /\ Valid(f) = f.bufcnt
<1>1. /\ f \in FileType /\ DiskOK(d) /\ Dense(d) /\ Steady(f, d) /\ Shaped(f, d)
  BY TamedFacts DEF Fine, Good
<1>2. /\ NumRecs(d) \in Nat /\ NumRecs(d) <= RecNos - 1 /\ DOMAIN d = 0 .. NumRecs(d) - 1
  BY <1>1, LastRecord, Sizes DEF Dense
<1>3. Cur(f) \in 0 .. RecNos - 1 /\ Cur(f) <= NumRecs(d) /\ f.bufpos <= f.bufcnt
  BY <1>1, CurFacts DEF Shaped, Steady
<1>4. f.recno \in Nat /\ f.bufpos \in Nat /\ f.bufcnt \in Nat /\ f.bufcnt <= RecSize
  BY <1>1, Sizes DEF FileType
<1>5. Cur(f) \in Nat
  BY <1>3, Sizes
<1>6. Valid(f) = f.bufcnt
  BY <1>1, <1>3, PaddedFacts
<1> QED BY <1>1, <1>2, <1>3, <1>4, <1>5, <1>6

\* The disk has room for what the stream has to write.
LEMMA FineFlush ==
  ASSUME Tamed, NEW f, NEW d, Fine(f, d), Is(f, "writing")
  PROVE  ~FlushFails(f, d)
<1> SUFFICES ASSUME Pending(f) PROVE HasRoom(d, f.recno)
  BY DEF FlushFails
<1>1. f.recno < Capacity /\ f.recno \in Nat
  BY FineFacts DEF Pending, Fine, Exact
<1>2. PICK n : n = NumRecs(d)
  OBVIOUS
<1>3. n \in Nat /\ DOMAIN d = 0 .. n - 1 /\ f.recno <= n
  BY <1>2, FineFacts DEF Cur
<1>4. CASE f.recno < n
  <2>1. f.recno \in DOMAIN d
    BY <1>1, <1>3, <1>4
  <2> QED BY <2>1 DEF HasRoom
<1>5. CASE f.recno = n
  <2>1. 0 \in Int /\ n - 1 \in Int
    BY <1>3
  <2>2. Cardinality(0 .. n - 1) = IF 0 > n - 1 THEN 0 ELSE (n - 1) - 0 + 1
    BY <2>1, FS_Interval
  <2>3. Cardinality(DOMAIN d) = n
    BY <1>3, <2>2
  <2> QED BY <1>1, <1>5, <2>3 DEF HasRoom
<1> QED BY <1>1, <1>3, <1>4, <1>5

LEMMA SameFine ==
  ASSUME NEW f, NEW d, Fine(f, d), NEW g \in FileType,
         g.bufpos = f.bufpos, g.bufcnt = f.bufcnt, g.recno = f.recno, g.buf = f.buf,
         g.moved = f.moved, SameMode(g, f),
         Is(g, "writing") <=> Is(f, "writing"), Is(g, "dirty") <=> Is(f, "dirty")
  PROVE  Fine(g, d)
<1>1. Good(g, d) /\ Is(g, "open")
  BY SameGood DEF Fine
<1>2. Valid(g) = Valid(f)
  BY DEF Valid
<1>3. Padded(g) = Padded(f) /\ Cur(g) = Cur(f)
  BY <1>2 DEF Padded, Cur
<1>4. Exact(g, d)
  BY <1>3 DEF Exact, Blank, Fine
<1> QED BY <1>1, <1>4 DEF Fine

\* The buffer after a flush, where the record number r is the current one.
LEMMA BlankAfter ==
  ASSUME Tamed, NEW f, NEW d, Fine(f, d), Is(f, "writing"), NEW e, e = FlushedDisk(f, d),
         NEW g, Cur(g) = f.recno, g.bufpos = f.bufpos, g.bufcnt # 0 => f.bufcnt # 0,
         Padded(g) = Padded(f)
  PROVE  Blank(g, e)
<1>1. f \in FileType /\ DiskOK(d) /\ Valid(f) = f.bufcnt
  BY FineFacts
<1>2. CASE Pending(f)
  <2>1. DOMAIN e = DOMAIN d \cup {f.recno}
    BY <1>1, <1>2, FineFlush, FlushDisk
  <2>2. Dense(e) /\ DiskOK(e)
    BY <1>1, FineFacts, TamedFacts, FlushDense, FlushDisk
  <2>3. NumRecs(e) \in Nat /\ f.recno \in 0 .. NumRecs(e) - 1
    BY <2>1, <2>2, LastRecord, Sizes DEF Dense
  <2> QED BY <2>3 DEF Blank
<1>3. CASE ~Pending(f)
  <2>1. e = d
    BY <1>1, <1>3, FlushDisk
  <2> SUFFICES ASSUME g.bufcnt # 0, Cur(g) = NumRecs(d)
               PROVE  \A i \in Offs : Padded(f)[i] = IF i < f.bufpos THEN 0 ELSE CtrlZ
    BY <2>1 DEF Blank
  <2>2. f.bufcnt # 0 /\ ~Is(f, "dirty") /\ Cur(f) = NumRecs(d)
    BY <1>1, <1>3 DEF Pending, Cur
  <2> QED BY <2>2 DEF Fine, Exact, Blank
<1> QED BY <1>2, <1>3

LEMMA FlushFine ==
  ASSUME Tamed, NEW f, NEW d, Fine(f, d), Is(f, "writing"),
         NEW g, g = Flushed(f, d), NEW e, e = FlushedDisk(f, d)
  PROVE  Fine(g, e) /\ Is(g, "writing") /\ ~Is(g, "dirty")
<1>1. Good(g, e) /\ Is(g, "open") /\ Is(g, "writing")
  BY FlushGood DEF Fine
<1>2. f \in FileType /\ ~FlushFails(f, d)
  BY FineFacts, FineFlush
<1>3. /\ ~Is(g, "dirty") /\ g.bufpos = f.bufpos /\ g.bufcnt = f.bufcnt /\ g.recno = f.recno
      /\ Padded(g) = Padded(f)
  BY <1>2, FlushFile
<1>4. Cur(g) = f.recno
  BY <1>1, <1>3 DEF Cur
<1>5. Blank(g, e)
  BY <1>3, <1>4, BlankAfter
<1> QED BY <1>1, <1>3, <1>5 DEF Fine, Exact

LEMMA ToReadFine ==
  ASSUME Tamed, NEW f, NEW d, Fine(f, d), Is(f, "writing"), Is(f, "canRead"),
         NEW g, g = ToRead(f, d), NEW e, e = FlushedDisk(f, d)
  PROVE  Fine(g, e) /\ ~Is(g, "writing") /\ Cur(g) = f.recno
<1>1. f \in FileType /\ DiskOK(d) /\ ~FlushFails(f, d) /\ Valid(f) = f.bufcnt
  BY FineFacts, FineFlush
<1>2. e = IF Is(f, "canRead") THEN FlushedDisk(f, d) ELSE d
  OBVIOUS
<1>3. Good(g, e) /\ Is(g, "open")
  BY <1>2, ToReadGood DEF Fine
<1>4. g \in FileType /\ g.bufpos = f.bufpos /\ ~Is(g, "writing") /\ ~Is(g, "dirty")
  BY <1>1, ToReadFacts
<1>5. f.recno \in 0 .. RecNos - 1
  BY <1>1 DEF FileType
<1>6. CASE Valid(f) = 0
  <2>1. g.recno = f.recno /\ g.bufcnt = 0
    BY <1>1, <1>6, ToReadFacts
  <2> QED BY <1>3, <1>4, <2>1 DEF Fine, Exact, Blank, Cur
<1>7. CASE Valid(f) # 0
  <2>1. g.recno = NextNo(f.recno) /\ g.bufcnt = RecSize /\ g.buf = Padded(f)
    BY <1>1, <1>7, ToReadFacts
  <2>2. Padded(g) = Padded(f)
    BY <1>4, <2>1, FullBuffer
  <2>3. Cur(g) = f.recno
    BY <1>4, <1>5, <2>1, NextPrev, Sizes DEF Cur
  <2>4. Blank(g, e)
    BY <1>1, <1>4, <1>7, <2>2, <2>3, BlankAfter
  <2> QED BY <1>3, <1>4, <2>1, <2>3, <2>4 DEF Fine, Exact
<1> QED BY <1>6, <1>7

LEMMA NextRecFine ==
  ASSUME Tamed, NEW f, NEW d, Fine(f, d), Is(f, "writing"),
         f.bufpos = RecSize, ~Is(f, "dirty"), NEW g, g = NextRec(f, d)
  PROVE  Fine(g, d) /\ Is(g, "writing") /\ ~Is(g, "dirty") /\ g.bufpos = 0
<1>1. f \in FileType /\ DiskOK(d)
  BY FineFacts
<1>2. /\ Good(g, d) /\ Is(g, "open") /\ Is(g, "writing")
  BY NextRecGood DEF Fine
<1>3. /\ g.flags = f.flags /\ g.recno = NextNo(f.recno) /\ g.bufpos = 0
      /\ g.bufcnt # 0 => NextNo(f.recno) \in DOMAIN d
  BY <1>1, NextRecFacts
<1>4. ~Is(g, "dirty")
  BY <1>3 DEF Is
<1>5. NumRecs(d) \in Nat /\ DOMAIN d = 0 .. NumRecs(d) - 1
  BY FineFacts
<1>6. Blank(g, d)
  BY <1>2, <1>3, <1>5 DEF Blank, Cur
<1> QED BY <1>2, <1>3, <1>4, <1>6 DEF Fine, Exact

LEMMA StoredFine ==
  ASSUME NEW f, NEW d, Good(f, d), Is(f, "open"), Is(f, "writing"), f.recno < Capacity,
         f.bufpos < RecSize, NEW c, c \in 0 .. 255, c # CtrlZ, NEW g, g = Stored(f, c)
  PROVE  Fine(g, d)
<1>1. Good(g, d) /\ Is(g, "open")
  BY StoredGood
<1>2. f \in FileType
  BY DEF Good
<1>3. Is(g, "writing") /\ Is(g, "dirty") /\ g.recno = f.recno
  BY <1>2, StoredFacts
<1> QED BY <1>1, <1>3 DEF Fine, Exact, Blank

\* A seek, of a stream that has flushed; f has another buffer than k after a
\* SEEK_END.
LEMMA PlacedFine ==
  ASSUME Tamed, NEW k, NEW d, Fine(k, d), NEW f \in FileType, f.flags = k.flags,
         ~Is(f, "dirty"), NEW to, to \in 0 .. MaxOffset,
         NEW e, e = IF Is(f, "canWrite") THEN GapFilled(d, to) ELSE d,
         \/ RecOf(to) < NumRecs(d)
         \/ /\ RecOf(to) = NumRecs(d)
            /\ OffOf(to) = 0 \/ (Is(f, "writing") /\ ~Is(f, "append")),
         NEW g, g = Placed(f, e, to)
  PROVE  /\ Fine(g, e) /\ Cur(g) = RecOf(to) /\ g.bufpos = OffOf(to) /\ g.unget = None
         /\ Is(g, "writing") => Is(f, "writing") /\ ~Is(f, "append")
         /\ SameMode(g, f) /\ ~Is(g, "eof") /\ ~Is(g, "dirty")
<1>1. DiskOK(d) /\ NumRecs(d) \in Nat /\ DOMAIN d = 0 .. NumRecs(d) - 1
  BY FineFacts
<1>2. Good(g, e) /\ Is(g, "open")
  BY <1>1, PlacedGood DEF Fine
<1>3. PICK h : h = GapFilled(d, to)
  OBVIOUS
<1>4. DiskOK(h) /\ DOMAIN h = DOMAIN d /\ NumRecs(h) = NumRecs(d)
  BY <1>1, <1>3, GapFacts
<1>5. DiskOK(e) /\ DOMAIN e = DOMAIN d /\ NumRecs(e) = NumRecs(d)
  BY <1>1, <1>3, <1>4
<1>6. PICK r, o : r = RecOf(to) /\ o = OffOf(to)
  OBVIOUS
<1>7. r \in 0 .. RecNos - 1 /\ o \in Offs /\ o \in Nat /\ o < RecSize
  BY <1>6, Divided, Sizes DEF Offs
<1> DEFINE w == Is(f, "writing") /\ ~Is(f, "append")
<1>8. /\ g \in FileType /\ (Is(g, "writing") <=> w) /\ ~Is(g, "dirty")
      /\ SameMode(g, f) /\ ~Is(g, "eof") /\ g.unget = None
      /\ ~w /\ (o = 0 \/ r \notin DOMAIN e) => g.bufpos = 0 /\ g.bufcnt = 0 /\ g.recno = r
      /\ (w \/ o # 0) /\ r \in DOMAIN e =>
           /\ g.bufpos = o /\ g.bufcnt = RecSize /\ g.buf = e[r]
           /\ w => g.recno = r
           /\ ~w => g.recno = NextNo(r)
      /\ w /\ r \notin DOMAIN e =>
           /\ g.bufpos = o /\ g.bufcnt = o /\ g.recno = r
           /\ \A i \in Offs : g.buf[i] = 0
  BY <1>1, <1>5, <1>6, PlacedFacts
<1>9. Is(g, "writing") => Is(f, "writing") /\ ~Is(f, "append")
  BY <1>8
<1>10. ~w /\ r \notin DOMAIN e => o = 0
  <2>1. r < NumRecs(d) => r \in DOMAIN d
    BY <1>1, <1>7
  <2> QED BY <1>5, <1>6, <2>1
<1> HIDE DEF w
<1>11. CASE ~w /\ (o = 0 \/ r \notin DOMAIN e)
  <2>1. Cur(g) = r /\ g.bufpos = o
    BY <1>8, <1>10, <1>11 DEF Cur
  <2> QED BY <1>2, <1>6, <1>8, <1>9, <1>11, <2>1 DEF Fine, Exact, Blank
<1>12. CASE (w \/ o # 0) /\ r \in DOMAIN e
  <2>1. Cur(g) = r
    BY <1>7, <1>8, <1>12, NextPrev, Sizes DEF Cur
  <2>2. r # NumRecs(e)
    BY <1>1, <1>5, <1>7, <1>12
  <2> QED BY <1>2, <1>6, <1>8, <1>9, <1>12, <2>1, <2>2 DEF Fine, Exact, Blank
<1>13. CASE w /\ r \notin DOMAIN e
  <2>1. Valid(g) = o
    BY <1>7, <1>8, <1>13 DEF Valid
  <2>2. \A i \in Offs : Padded(g)[i] = IF i < g.bufpos THEN 0 ELSE CtrlZ
    BY <1>8, <1>13, <2>1 DEF Padded
  <2>3. Cur(g) = r
    BY <1>8, <1>13 DEF Cur
  <2> QED BY <1>2, <1>6, <1>8, <1>9, <1>13, <2>2, <2>3 DEF Fine, Exact, Blank
<1> QED BY <1>11, <1>12, <1>13

-----------------------------------------------------------------------------
(* The text after a write and after a seek.                                 *)

LEMMA Placing ==
  ASSUME NEW x \in Nat, NEW o, o \in Offs, NEW p, p = x * RecSize + o
  PROVE  p \in Nat /\ RecOf(p) = x /\ OffOf(p) = o
<1>1. PICK s : s = RecSize
  OBVIOUS
<1>2. s \in Nat /\ 1 <= s /\ o \in Nat /\ o < s
  BY <1>1, Sizes DEF Offs
<1>3. PICK a : a = x * s
  OBVIOUS
<1>4. a \in Nat /\ p = a + o
  BY <1>1, <1>2, <1>3
<1>5. p \in Nat
  BY <1>2, <1>4
<1>6. PICK y, z, b : y = RecOf(p) /\ z = OffOf(p) /\ b = y * s
  OBVIOUS
<1>7. y \in Nat /\ z \in Nat /\ z < s /\ p = b + z /\ b \in Nat
  BY <1>1, <1>2, <1>5, <1>6, DivMod DEF Offs
<1>8. ~(y < x)
  <2> SUFFICES ASSUME y < x PROVE FALSE
    OBVIOUS
  <2>1. (y + 1) * s <= x * s
    BY <1>2, <1>7
  <2>2. (y + 1) * s = b + s
    BY <1>2, <1>6, <1>7
  <2> QED BY <1>2, <1>3, <1>4, <1>7, <2>1, <2>2
<1>9. ~(y > x)
  <2> SUFFICES ASSUME y > x PROVE FALSE
    OBVIOUS
  <2>1. (x + 1) * s <= y * s
    BY <1>2, <1>7
  <2>2. (x + 1) * s = a + s
    BY <1>2, <1>3
  <2> QED BY <1>2, <1>4, <1>6, <1>7, <2>1, <2>2
<1>10. y = x
  BY <1>7, <1>8, <1>9
<1>11. z = o
  <2>1. b = a
    BY <1>3, <1>6, <1>10
  <2> QED BY <1>2, <1>4, <1>7, <2>1
<1> QED BY <1>5, <1>6, <1>10, <1>11

\* The text t with the byte c put at p, as TextFile has it.
WithByte(t, c, p) ==
  [i \in 1 .. (IF p < Len(t) THEN Len(t) ELSE p + 1) |->
     IF i = p + 1 THEN c ELSE IF i <= Len(t) THEN t[i] ELSE 0]

\* A record that was not there: zeros up to the byte at o.
Made(b, o) == \A i \in Offs : i # o => b[i] = IF i < o THEN 0 ELSE CtrlZ

\* The records w become v with the byte c at offset o of record x, which had b.
Puts(w, v, x, o, b, c) ==
  /\ DOMAIN v = DOMAIN w \cup {x} /\ v[x][o] = c
  /\ \A r \in DOMAIN w : r # x => v[r] = w[r]
  /\ \A i \in Offs : i # o => v[x][i] = b[i]
  /\ x \in DOMAIN w => w[x] = b

\* The position of the offset o of the record x.
Place(x, o) == x * RecSize + o

\* The byte c stored at offset o of record x, which had b.
ByteStored(w, m, v, k, x, o, b, c) ==
  /\ m \in Nat /\ Solid(w, m) /\ k \in Nat /\ Solid(v, k)
  /\ x \in Nat /\ o \in Offs /\ c \in 0 .. 255 /\ c # CtrlZ
  /\ Puts(w, v, x, o, b, c)
  /\ x \notin DOMAIN w => TextLen(w, m) = Place(x, 0) /\ Made(b, o)

LEMMA StoredText ==
  ASSUME NEW w, NEW m, NEW v, NEW k, NEW x, NEW o, NEW b, NEW c,
         ByteStored(w, m, v, k, x, o, b, c),
         NEW p, p = Place(x, o), NEW t, t = TextOf(w), NEW u, u = TextOf(v)
  PROVE  /\ p \in Nat /\ Len(t) \in Nat /\ (p >= Len(t) => Len(u) = p + 1)
         /\ u = WithByte(t, c, p)
<1>1. /\ m \in Nat /\ Solid(w, m) /\ k \in Nat /\ Solid(v, k)
      /\ x \in Nat /\ o \in Offs /\ c \in 0 .. 255 /\ c # CtrlZ
      /\ DOMAIN v = DOMAIN w \cup {x} /\ v[x][o] = c
      /\ \A r \in DOMAIN w : r # x => v[r] = w[r]
      /\ \A i \in Offs : i # o => v[x][i] = b[i]
      /\ x \in DOMAIN w => w[x] = b
      /\ x \notin DOMAIN w =>
           /\ TextLen(w, m) = x * RecSize
           /\ \A i \in Offs : i # o => b[i] = IF i < o THEN 0 ELSE CtrlZ
      /\ p = x * RecSize + o
  <2>1. p = x * RecSize + o /\ Place(x, 0) = x * RecSize
    <3>1. x \in Nat
      BY DEF ByteStored
    <3> QED BY <3>1, Sizes DEF Place
  <2> QED BY <2>1 DEF ByteStored, Puts, Made
<1>2. PICK l, n : l = TextLen(w, m) /\ n = TextLen(v, k)
  OBVIOUS
<1>3. /\ l \in Nat /\ Len(t) = l /\ \A q \in 0 .. l - 1 : t[q + 1] = ByteAt(w, q)
      /\ n \in Nat /\ Len(u) = n /\ \A q \in 0 .. n - 1 : u[q + 1] = ByteAt(v, q)
      /\ u \in Seq(0 .. 255)
  BY <1>1, <1>2, TextFacts
<1>4. \A q \in Nat : (q < l <=> Data(w, q)) /\ (q < n <=> Data(v, q))
  <2> SUFFICES ASSUME NEW q, q \in Nat PROVE (q < l <=> Data(w, q)) /\ (q < n <=> Data(v, q))
    OBVIOUS
  <2> QED BY <1>1, <1>2, TextPlaces
<1>5. p \in Nat /\ RecOf(p) = x /\ OffOf(p) = o
  BY <1>1, Placing
<1>6. Data(v, p) /\ ByteAt(v, p) = c
  BY <1>1, <1>5 DEF Data, ByteAt
<1>7. \A q \in Nat : q # p /\ RecOf(q) = x => OffOf(q) # o /\ OffOf(q) \in Offs /\ q = x * RecSize + OffOf(q)
  <2> SUFFICES ASSUME NEW q, q \in Nat, q # p, RecOf(q) = x
               PROVE  OffOf(q) # o /\ OffOf(q) \in Offs /\ q = x * RecSize + OffOf(q)
    OBVIOUS
  <2> QED BY <1>1, DivMod
<1>8. \A q \in Nat : RecOf(q) # x =>
        /\ Data(v, q) <=> Data(w, q)
        /\ Data(w, q) => ByteAt(v, q) = ByteAt(w, q)
  BY <1>1 DEF Data, ByteAt
<1>9. /\ p < n /\ n = (IF p < l THEN l ELSE p + 1)
      /\ \A q \in 0 .. n - 1 : q # p => ByteAt(v, q) = IF q < l THEN ByteAt(w, q) ELSE 0
  <2>1. p < n
    BY <1>1, <1>4, <1>5, <1>6
  <2>2. CASE x \in DOMAIN w
    <3>1. \A q \in Nat : q # p => /\ Data(v, q) <=> Data(w, q)
                                  /\ Data(w, q) => ByteAt(v, q) = ByteAt(w, q)
      <4> SUFFICES ASSUME NEW q \in Nat, q # p, RecOf(q) = x
                   PROVE  /\ Data(v, q) <=> Data(w, q)
                          /\ Data(w, q) => ByteAt(v, q) = ByteAt(w, q)
        BY <1>1, <1>8
      <4>1. v[x][OffOf(q)] = w[x][OffOf(q)]
        BY <1>1, <1>7, <2>2
      <4> QED BY <1>1, <2>2, <4>1 DEF Data, ByteAt
    <3>2. \A q \in Nat : q # p => (q < n <=> q < l)
      BY <1>1, <1>4, <3>1
    <3>3. p <= l
      BY <1>1, <1>3, <1>5, <2>1, <3>2
    <3>4. p < l => n = l
      <4> SUFFICES ASSUME p < l PROVE n = l
        OBVIOUS
      <4>1. ~(n < l)
        BY <1>1, <1>3, <1>5, <2>1, <3>2
      <4>2. ~(l < n)
        BY <1>1, <1>3, <1>5, <3>2
      <4> QED BY <1>1, <1>3, <4>1, <4>2
    <3>5. ~(p < l) => n = p + 1
      <4> SUFFICES ASSUME ~(p < l) PROVE n = p + 1
        OBVIOUS
      <4>1. ~(p + 1 < n)
        BY <1>1, <1>3, <1>5, <3>2, <3>3
      <4> QED BY <1>1, <1>3, <1>5, <2>1, <4>1
    <3>6. ASSUME NEW q \in 0 .. n - 1, q # p
          PROVE  ByteAt(v, q) = IF q < l THEN ByteAt(w, q) ELSE 0
      <4>1. q \in Nat /\ q < n
        BY <1>1, <1>3
      <4>2. q < l
        BY <1>1, <3>2, <3>6, <4>1
      <4>3. Data(w, q)
        BY <1>1, <1>4, <4>1, <4>2
      <4> QED BY <1>1, <3>1, <3>6, <4>1, <4>2, <4>3
    <3> QED BY <1>1, <2>1, <3>4, <3>5, <3>6
  <2>3. CASE x \notin DOMAIN w
    <3>1. /\ p = l + o /\ o \in Nat /\ o < RecSize
      BY <1>1, <1>2, <2>3, Sizes DEF Offs
    <3>2. ASSUME NEW q \in Nat, RecOf(q) = x
          PROVE  /\ l <= q
                 /\ q < p => Data(v, q) /\ ByteAt(v, q) = 0
                 /\ q > p => ~Data(v, q)
      <4>1. CASE q = p
        BY <1>1, <1>3, <1>5, <3>1, <4>1
      <4>2. CASE q # p
        <5>1. PICK z : z = OffOf(q)
          OBVIOUS
        <5>2. z # o /\ z \in Offs /\ q = l + z /\ z \in Nat
          BY <1>1, <1>2, <1>7, <2>3, <3>2, <4>2, <5>1, Sizes DEF Offs
        <5>3. v[x][z] = IF z < o THEN 0 ELSE CtrlZ
          BY <1>1, <2>3, <5>2
        <5>4. ByteAt(v, q) = IF z < o THEN 0 ELSE CtrlZ
          BY <1>1, <3>2, <5>1, <5>3 DEF ByteAt
        <5>5. x \in DOMAIN v
          BY <1>1
        <5> QED BY <1>1, <1>3, <3>1, <3>2, <5>2, <5>4, <5>5, Sizes DEF Data, CtrlZ
      <4> QED BY <1>1, <4>1, <4>2
    <3>3. ASSUME NEW q \in Nat, l <= q, q <= p PROVE RecOf(q) = x
      <4>1. PICK z : z = q - l
        OBVIOUS
      <4>2. z \in Offs /\ q = l + z
        BY <1>1, <1>3, <3>1, <3>3, <4>1, Sizes DEF Offs
      <4>3. q = x * RecSize + z
        BY <1>1, <1>2, <2>3, <4>2
      <4> QED BY <1>1, <4>2, <4>3, Placing
    <3>4. ASSUME NEW q \in Nat, q > p PROVE ~Data(v, q)
      <4>1. CASE RecOf(q) = x
        BY <1>1, <3>2, <3>4, <4>1
      <4>2. CASE RecOf(q) # x
        <5>1. ~(q < l)
          BY <1>1, <1>3, <3>1, <3>4
        <5> QED BY <1>1, <1>4, <1>8, <4>2, <5>1
      <4> QED BY <1>1, <4>1, <4>2
    <3>5. n = p + 1
      <4>1. ~(p + 1 < n)
        BY <1>1, <1>4, <1>5, <3>4
      <4> QED BY <1>1, <1>3, <1>5, <2>1, <4>1
    <3>6. ~(p < l)
      BY <1>1, <1>3, <3>1
    <3>7. ASSUME NEW q \in 0 .. n - 1, q # p
          PROVE  ByteAt(v, q) = IF q < l THEN ByteAt(w, q) ELSE 0
      <4>1. q \in Nat /\ q < p
        BY <1>1, <1>5, <3>5, <3>7
      <4>2. CASE q < l
        <5>1. RecOf(q) # x
          BY <1>1, <1>3, <3>2, <4>1, <4>2
        <5> QED BY <1>1, <1>4, <1>8, <4>1, <4>2, <5>1
      <4>3. CASE ~(q < l)
        <5>1. RecOf(q) = x
          BY <1>1, <1>3, <1>5, <3>3, <4>1, <4>3
        <5> QED BY <1>1, <3>2, <4>1, <4>3, <5>1
      <4> QED BY <1>1, <4>2, <4>3
    <3> QED BY <1>1, <2>1, <3>5, <3>6, <3>7
  <2> QED BY <1>1, <2>2, <2>3
<1>10. u \in [1 .. n -> 0 .. 255]
  BY <1>1, <1>3, LenProperties
<1>11. ASSUME NEW i \in 1 .. n
       PROVE  u[i] = IF i = p + 1 THEN c ELSE IF i <= l THEN t[i] ELSE 0
  <2>1. PICK q : q = i - 1
    OBVIOUS
  <2>2. q \in 0 .. n - 1 /\ i = q + 1
    BY <1>3, <2>1
  <2>3. u[i] = ByteAt(v, q)
    BY <1>1, <1>3, <2>2
  <2>4. CASE q = p
    BY <1>1, <1>5, <1>6, <2>2, <2>3, <2>4
  <2>5. CASE q # p /\ q < l
    <3>1. q \in 0 .. l - 1 /\ i <= l /\ i # p + 1
      BY <1>1, <1>3, <1>5, <2>2, <2>5
    <3> QED BY <1>1, <1>3, <1>9, <2>2, <2>3, <2>5, <3>1
  <2>6. CASE q # p /\ ~(q < l)
    <3>1. ~(i <= l) /\ i # p + 1
      BY <1>1, <1>3, <1>5, <2>2, <2>6
    <3> QED BY <1>1, <1>9, <2>2, <2>3, <2>6, <3>1
  <2> QED BY <1>1, <2>4, <2>5, <2>6
<1>12. u = [i \in 1 .. n |-> IF i = p + 1 THEN c ELSE IF i <= l THEN t[i] ELSE 0]
  BY <1>1, <1>10, <1>11
<1>13. u = WithByte(t, c, p)
  BY <1>1, <1>3, <1>9, <1>12 DEF WithByte
<1> QED BY <1>1, <1>3, <1>5, <1>9, <1>13

\* Records without a gap hold the text up to the first Ctrl-Z of the last one.
LEMMA DenseSolid ==
  ASSUME NEW d, DiskOK(d), Dense(d)
  PROVE  /\ NumRecs(d) \in Nat /\ Solid(d, NumRecs(d))
         /\ TextLen(d, NumRecs(d)) = Size(d) /\ Size(d) = Len(TextOf(d)) /\ Size(d) \in Nat
<1>1. NumRecs(d) \in Nat /\ NumRecs(d) <= RecNos
  BY LastRecord, Sizes
<1>2. Solid(d, NumRecs(d))
  BY <1>1 DEF Solid, Dense, DiskOK
<1>3. TextLen(d, NumRecs(d)) = Size(d)
  BY DEF TextLen, Size
<1> QED BY <1>1, <1>2, <1>3, TextFacts

\* Zeros put at the end of the text.
LEMMA ZerosAfter ==
  ASSUME NEW w, NEW m \in Nat, Solid(w, m), NEW v, NEW n \in Nat, Solid(v, n),
         NEW z \in Seq(0 .. 255), \A i \in 1 .. Len(z) : z[i] = 0,
         TextLen(v, n) = TextLen(w, m) + Len(z),
         \A p \in Nat : p < TextLen(w, m) => ByteAt(v, p) = ByteAt(w, p),
         \A p \in Nat : TextLen(w, m) <= p /\ p < TextLen(v, n) => ByteAt(v, p) = 0
  PROVE  TextOf(v) = TextOf(w) \o z
<1>1. PICK s, t, l : s = TextOf(w) /\ t = TextOf(v) /\ l = TextLen(w, m)
  OBVIOUS
<1>2. PICK k : k = Len(z)
  OBVIOUS
<1>3. /\ l \in Nat /\ s \in Seq(0 .. 255) /\ Len(s) = l
      /\ \A p \in 0 .. l - 1 : s[p + 1] = ByteAt(w, p)
  BY <1>1, TextFacts
<1>4. /\ t \in Seq(0 .. 255) /\ Len(t) = l + k
      /\ \A p \in 0 .. l + k - 1 : t[p + 1] = ByteAt(v, p)
  BY <1>1, <1>2, TextFacts
<1>5. k \in Nat /\ \A i \in 1 .. k : z[i] = 0
  BY <1>2
<1>6. /\ s \o z \in Seq(0 .. 255) /\ Len(s \o z) = l + k
      /\ \A i \in 1 .. l + k : (s \o z)[i] = IF i <= l THEN s[i] ELSE z[i - l]
  <2>1. /\ s \o z \in Seq(0 .. 255) /\ Len(s \o z) = Len(s) + Len(z)
        /\ \A i \in 1 .. Len(s) + Len(z) : (s \o z)[i] = IF i <= Len(s) THEN s[i] ELSE z[i - Len(s)]
    BY <1>3, ConcatProperties, Zenon
  <2> QED BY <1>2, <1>3, <2>1
<1>7. ASSUME NEW i \in 1 .. l + k PROVE t[i] = (s \o z)[i]
  <2>1. i - 1 \in Nat /\ i - 1 \in 0 .. l + k - 1 /\ (i - 1) + 1 = i
    BY <1>3, <1>5
  <2>2. t[i] = ByteAt(v, i - 1)
    BY <1>4, <2>1
  <2>3. CASE i <= l
    <3>1. i - 1 \in 0 .. l - 1 /\ i - 1 < l
      BY <1>3, <2>1, <2>3
    <3>2. s[i] = ByteAt(w, i - 1)
      BY <1>3, <2>1, <3>1
    <3> QED BY <1>1, <1>6, <2>1, <2>2, <2>3, <3>1, <3>2
  <2>4. CASE ~(i <= l)
    <3>1. i - l \in 1 .. k /\ l <= i - 1 /\ i - 1 < l + k
      BY <1>3, <1>5, <2>4
    <3> QED BY <1>1, <1>2, <1>5, <1>6, <2>1, <2>2, <2>4, <3>1
  <2> QED BY <2>3, <2>4
<1>8. t = s \o z
  BY <1>3, <1>4, <1>6, <1>7, SeqEqual
<1> QED BY <1>1, <1>8

\* _fsk_gap puts zeros after the text, and none beyond the new position.
LEMMA GapText ==
  ASSUME NEW d, DiskOK(d), Dense(d), NEW to, to \in 0 .. MaxOffset, NEW e, e = GapFilled(d, to)
  PROVE  \E k \in Nat :
           /\ TextOf(e) = TextOf(d) \o [i \in 1 .. k |-> 0]
           /\ k <= (IF to > Len(TextOf(d)) THEN to - Len(TextOf(d)) ELSE 0)
<1>1. PICK n, s : n = NumRecs(d) /\ s = RecSize
  OBVIOUS
<1>2. n \in Nat /\ DOMAIN d = 0 .. n - 1 /\ s \in Nat /\ 1 <= s /\ Offs = 0 .. s - 1
  BY <1>1, LastRecord, Sizes DEF Dense, Offs
<1>3. DiskOK(e) /\ Dense(e) /\ NumRecs(e) = n /\ DOMAIN e = DOMAIN d
  BY <1>1, GapFacts, GapDense
<1>4. Solid(d, n) /\ Solid(e, n)
  BY <1>1, <1>3, DenseSolid
<1>5. PICK l : l = TextLen(d, n)
  OBVIOUS
<1>6. l \in Nat /\ l = Len(TextOf(d))
  BY <1>1, <1>5, DenseSolid
<1>7. to \in Nat
  BY Sizes
<1>8. ASSUME NEW k \in Nat, TextLen(e, n) = l + k, k <= (IF to > l THEN to - l ELSE 0),
             \A p \in Nat : p < l => ByteAt(e, p) = ByteAt(d, p),
             \A p \in Nat : l <= p /\ p < l + k => ByteAt(e, p) = 0
      PROVE  \E j \in Nat :
               /\ TextOf(e) = TextOf(d) \o [i \in 1 .. j |-> 0]
               /\ j <= (IF to > l THEN to - l ELSE 0)
  <2>1. \A p \in Nat : TextLen(d, n) <= p /\ p < TextLen(e, n) => ByteAt(e, p) = 0
    BY <1>5, <1>8
  <2>2. \A p \in Nat : p < TextLen(d, n) => ByteAt(e, p) = ByteAt(d, p)
    BY <1>5, <1>8
  <2>3. TextLen(e, n) = TextLen(d, n) + k
    BY <1>5, <1>8
  <2>4. PICK z : z = [i \in 1 .. k |-> 0]
    OBVIOUS
  <2>5. z \in Seq(0 .. 255) /\ Len(z) = k /\ \A i \in 1 .. k : z[i] = 0
    <3>1. z \in [1 .. k -> 0 .. 255] /\ \A i \in 1 .. k : z[i] = 0
      BY <2>4, Sizes
    <3> QED BY <1>8, <3>1, IsSeq
  <2>6. TextLen(e, n) = TextLen(d, n) + Len(z) /\ \A i \in 1 .. Len(z) : z[i] = 0
    BY <2>3, <2>5
  <2>7. TextOf(e) = TextOf(d) \o z
    BY <1>2, <1>4, <2>1, <2>2, <2>5, <2>6, ZerosAfter
  <2> QED BY <1>8, <2>4, <2>7
<1>9. CASE n = 0
  <2>1. e = d
    BY <1>1, <1>9 DEF GapFilled
  <2>2. TextLen(e, n) = l + 0 /\ 0 <= (IF to > l THEN to - l ELSE 0)
    <3>1. TextLen(e, n) = l
      BY <1>5, <2>1
    <3> QED BY <1>6, <1>7, <3>1
  <2>3. \A p \in Nat : p < l => ByteAt(e, p) = ByteAt(d, p)
    BY <2>1
  <2>4. \A p \in Nat : l <= p /\ p < l + 0 => ByteAt(e, p) = 0
    BY <1>6
  <2> QED BY <1>6, <1>8, <2>2, <2>3, <2>4
<1>10. CASE n # 0
  <2>1. PICK b, c, u, z : /\ b = d[n - 1] /\ c = e[n - 1] /\ u = Upto(d, to) /\ z = FirstZ(b)
    OBVIOUS
  <2>2. n - 1 \in DOMAIN d /\ b \in Record /\ c \in Record /\ Tailed(b) /\ Tailed(c)
    <3>1. n - 1 \in DOMAIN d /\ n - 1 \in DOMAIN e
      BY <1>2, <1>3, <1>10
    <3> QED BY <1>3, <2>1, <3>1 DEF Dense, DiskOK
  <2>3. z \in 0 .. s /\ \A i \in Offs : (i < z => b[i] # CtrlZ) /\ (z <= i => b[i] = CtrlZ)
    <3>1. /\ z \in 0 .. s /\ \A i \in Offs : i < z => b[i] # CtrlZ
          /\ z < s => b[z] = CtrlZ
      BY <1>1, <2>1, <2>2, FirstZFacts
    <3>2. ASSUME NEW i \in Offs, z <= i PROVE b[i] = CtrlZ
      <4>1. z \in Offs /\ z < s
        BY <1>2, <3>1, <3>2
      <4> QED BY <2>2, <3>1, <3>2, <4>1 DEF Tailed
    <3> QED BY <3>1, <3>2
  <2>4. DataLen(b) = z
    <3>1. PICK y : y = DataLen(b)
      OBVIOUS
    <3>2. /\ y \in 0 .. s /\ \A i \in Offs : i >= y => b[i] = CtrlZ
          /\ y > 0 => b[y - 1] # CtrlZ
      BY <1>1, <2>2, <3>1, DataLenFacts
    <3>3. ~(y > z)
      <4> SUFFICES ASSUME y > z PROVE FALSE
        OBVIOUS
      <4>1. y - 1 \in Offs /\ z <= y - 1 /\ y > 0
        BY <1>2, <2>3, <3>2
      <4> QED BY <2>3, <3>2, <4>1
    <3>4. ~(y < z)
      <4> SUFFICES ASSUME y < z PROVE FALSE
        OBVIOUS
      <4>1. y \in Offs /\ y >= y
        BY <1>2, <2>3, <3>2
      <4> QED BY <2>3, <3>2, <4>1
    <3> QED BY <2>3, <3>1, <3>2, <3>3, <3>4
  <2>5. /\ \A r \in DOMAIN d : r # n - 1 => e[r] = d[r]
        /\ \A i \in Offs : c[i] = IF z <= i /\ i < u THEN 0 ELSE b[i]
    BY <1>1, <1>10, <2>1, <2>4, GapFacts
  <2>6. PICK a : a = (n - 1) * s
    OBVIOUS
  <2>7. a \in Nat /\ l = a + z
    BY <1>1, <1>2, <1>5, <1>10, <2>1, <2>3, <2>6 DEF TextLen
  <2>8. u \in 0 .. s /\ (u > z => to >= a + u)
    <3>1. PICK r, o, q : r = RecOf(to) /\ o = OffOf(to) /\ q = r * s
      OBVIOUS
    <3>2. r \in Nat /\ o \in 0 .. s - 1 /\ to = q + o /\ q \in Nat
      BY <1>1, <1>2, <1>7, <3>1, DivMod
    <3>3. CASE r > n - 1
      <4>1. u = s
        BY <1>1, <1>2, <2>1, <3>1, <3>2, <3>3 DEF Upto
      <4>2. n * s <= r * s
        BY <1>2, <3>2, <3>3
      <4>3. n * s = a + s
        BY <1>2, <2>6
      <4> QED BY <1>2, <2>7, <3>1, <3>2, <4>1, <4>2, <4>3
    <3>4. CASE r = n - 1
      <4>1. u = o
        BY <1>1, <1>2, <1>10, <2>1, <3>1, <3>4 DEF Upto
      <4>2. q = a
        BY <2>6, <3>1, <3>4
      <4> QED BY <1>2, <2>7, <3>2, <4>1, <4>2
    <3>5. CASE r < n - 1
      <4>1. u = 0
        BY <1>1, <1>2, <1>10, <2>1, <3>1, <3>2, <3>5 DEF Upto
      <4> QED BY <1>2, <2>3, <4>1
    <3> QED BY <1>2, <3>2, <3>3, <3>4, <3>5
  <2>9. \A p \in Nat : p < l => ByteAt(e, p) = ByteAt(d, p)
    <3> SUFFICES ASSUME NEW p \in Nat, p < l PROVE ByteAt(e, p) = ByteAt(d, p)
      OBVIOUS
    <3>1. Data(d, p)
      BY <1>2, <1>4, <1>5, TextPlaces
    <3>2. OffOf(p) \in Offs
      BY DivMod
    <3>3. CASE RecOf(p) # n - 1
      BY <2>5, <3>1, <3>3 DEF Data, ByteAt
    <3>4. CASE RecOf(p) = n - 1
      <4>1. b[OffOf(p)] # CtrlZ
        BY <2>1, <3>1, <3>4 DEF Data, ByteAt
      <4>2. ~(z <= OffOf(p))
        BY <2>3, <3>2, <4>1
      <4> QED BY <2>1, <2>5, <3>2, <3>4, <4>2 DEF ByteAt
    <3> QED BY <3>3, <3>4
  <2>10. FirstZ(c) = IF u > z THEN u ELSE z
    <3>1. PICK y : y = FirstZ(c)
      OBVIOUS
    <3>2. /\ y \in 0 .. s /\ \A i \in Offs : i < y => c[i] # CtrlZ
          /\ y < s => c[y] = CtrlZ
      BY <1>1, <2>2, <3>1, FirstZFacts
    <3>3. PICK x : x = IF u > z THEN u ELSE z
      OBVIOUS
    <3>4. x \in 0 .. s /\ x >= u /\ x >= z
      BY <1>2, <2>3, <2>8, <3>3
    <3>5. ASSUME NEW i \in Offs PROVE (i < x => c[i] # CtrlZ) /\ (x <= i => c[i] = CtrlZ)
      BY <1>2, <2>3, <2>5, <2>8, <3>3, <3>5 DEF CtrlZ
    <3>6. ~(y < x)
      <4> SUFFICES ASSUME y < x PROVE FALSE
        OBVIOUS
      <4>1. y \in Offs /\ y < s
        BY <1>2, <3>2, <3>4
      <4> QED BY <3>2, <3>5, <4>1
    <3>7. ~(y > x)
      <4> SUFFICES ASSUME y > x PROVE FALSE
        OBVIOUS
      <4>1. x \in Offs /\ x <= x
        BY <1>2, <3>2, <3>4
      <4> QED BY <3>2, <3>5, <4>1
    <3>8. y = x
      BY <1>2, <3>2, <3>4, <3>6, <3>7
    <3> QED BY <3>1, <3>3, <3>8
  <2>11. TextLen(e, n) = a + (IF u > z THEN u ELSE z)
    BY <1>1, <1>10, <2>1, <2>6, <2>10 DEF TextLen
  <2>12. CASE ~(u > z)
    <3>1. TextLen(e, n) = l + 0 /\ 0 <= (IF to > l THEN to - l ELSE 0)
      BY <1>6, <1>7, <2>7, <2>11, <2>12
    <3>2. \A p \in Nat : l <= p /\ p < l + 0 => ByteAt(e, p) = 0
      BY <1>6
    <3> QED BY <1>6, <1>8, <2>9, <3>1, <3>2
  <2>13. CASE u > z
    <3>1. PICK k : k = u - z
      OBVIOUS
    <3>2. k \in Nat /\ TextLen(e, n) = l + k /\ k <= (IF to > l THEN to - l ELSE 0)
      BY <1>2, <1>7, <2>3, <2>7, <2>8, <2>11, <2>13, <3>1
    <3>3. ASSUME NEW p \in Nat, l <= p, p < l + k PROVE ByteAt(e, p) = 0
      <4>1. PICK o : o = p - a
        OBVIOUS
      <4>2. o \in Offs /\ z <= o /\ o < u /\ p = a + o
        BY <1>2, <2>3, <2>7, <2>8, <3>1, <3>3, <4>1
      <4>3. n - 1 \in Nat /\ p = (n - 1) * RecSize + o
        BY <1>1, <1>2, <1>10, <2>6, <4>2
      <4>4. RecOf(p) = n - 1 /\ OffOf(p) = o
        BY <4>2, <4>3, Placing
      <4> QED BY <2>1, <2>5, <4>2, <4>4 DEF ByteAt
    <3>4. \A p \in Nat : l <= p /\ p < l + k => ByteAt(e, p) = 0
      BY <3>3
    <3> QED BY <1>6, <1>8, <2>9, <3>2, <3>4
  <2> QED BY <2>12, <2>13
<1> QED BY <1>6, <1>9, <1>10

-----------------------------------------------------------------------------
(* The position of the tamed program's stream, and the text it sees.        *)

Shown(f, d) == TextOf(Now(f, d))

LEMMA PosFacts ==
  ASSUME Tamed, NEW f, NEW d, Fine(f, d)
  PROVE  Pos(f) = Cur(f) * RecSize + f.bufpos /\ Pos(f) \in Nat
<1>1. PICK s, n : s = RecSize /\ n = NumRecs(d)
  OBVIOUS
<1>2. /\ f.bufpos \in Nat /\ f.bufcnt \in Nat /\ f.bufpos <= f.bufcnt
      /\ f.recno \in Nat /\ Cur(f) \in Nat /\ s \in Nat
  BY <1>1, FineFacts, Sizes
<1>3. PICK p, r, a : p = Pos(f) /\ r = Cur(f) /\ a = r * s
  OBVIOUS
<1>4. a \in Nat
  BY <1>2, <1>3
<1>5. CASE Is(f, "writing")
  <2>1. r = f.recno
    BY <1>3, <1>5 DEF Cur
  <2>2. p = a + f.bufpos
    BY <1>1, <1>3, <1>5, <2>1 DEF Pos
  <2> QED BY <1>1, <1>2, <1>3, <1>4, <2>2
<1>6. CASE ~Is(f, "writing") /\ f.bufcnt # 0
  <2>1. r = PrevNo(f.recno)
    BY <1>3, <1>6 DEF Cur
  <2>2. p = a + f.bufpos
    BY <1>1, <1>3, <1>6, <2>1 DEF Pos
  <2> QED BY <1>1, <1>2, <1>3, <1>4, <2>2
<1>7. CASE ~Is(f, "writing") /\ f.bufcnt = 0
  <2>1. r = f.recno
    BY <1>3, <1>7 DEF Cur
  <2>2. p = a /\ f.bufpos = 0
    BY <1>1, <1>2, <1>3, <1>7, <2>1 DEF Pos
  <2> QED BY <1>1, <1>2, <1>3, <1>4, <2>2
<1> QED BY <1>5, <1>6, <1>7

\* A stream that reads, and that has a record in its buffer, is in a record of
\* the file or before its end in a record that a seek has made.
LEMMA PastFacts ==
  ASSUME Tamed, NEW f, NEW d, Fine(f, d), ~Is(f, "writing"), f.bufpos >= f.bufcnt
  PROVE  Pos(f) = f.recno * RecSize /\ Now(f, d) = d
<1>1. Now(f, d) = d
  BY DEF Now
<1>2. PICK s, n : s = RecSize /\ n = NumRecs(d)
  OBVIOUS
<1>3. /\ f \in FileType /\ n \in Nat /\ Cur(f) \in Nat /\ Cur(f) <= n /\ n <= RecNos - 1
      /\ f.recno \in Nat /\ f.bufpos \in Nat /\ f.bufcnt \in Nat
      /\ f.bufpos <= f.bufcnt /\ s \in Nat /\ 1 <= s /\ Offs = 0 .. s - 1
      /\ RecNos \in Nat /\ 1 <= RecNos
  BY <1>2, FineFacts, Sizes DEF Offs
<1>4. Pos(f) = Cur(f) * s + f.bufpos
  BY <1>2, PosFacts
<1>5. CASE f.bufcnt = 0
  <2>1. Cur(f) = f.recno /\ f.bufpos = 0
    BY <1>3, <1>5 DEF Cur
  <2>2. PICK a : a = f.recno * s
    OBVIOUS
  <2>3. a \in Nat
    BY <1>3, <2>2
  <2>4. Pos(f) = a + 0
    BY <1>4, <2>1, <2>2
  <2> QED BY <1>1, <1>2, <2>2, <2>3, <2>4
<1>6. CASE f.bufcnt # 0
  <2>1. f.bufcnt = s /\ f.bufpos = s /\ ~Is(f, "dirty")
    BY <1>2, <1>3, <1>6 DEF Fine, Exact
  <2>2. Cur(f) # n
    <3> SUFFICES ASSUME Cur(f) = n PROVE FALSE
      OBVIOUS
    <3>1. s - 1 \in Offs /\ s - 1 < f.bufpos
      BY <1>3, <2>1
    <3>2. Padded(f)[s - 1] = 0
      BY <1>2, <1>6, <2>1, <3>1 DEF Fine, Exact, Blank
    <3>3. Padded(f)[s - 1] = CtrlZ
      BY <1>2, <1>6, <2>1, FineFacts DEF Shaped
    <3> QED BY <3>2, <3>3 DEF CtrlZ
  <2>3. PICK r, y : r = Cur(f) /\ y = f.recno
    OBVIOUS
  <2>4. r = PrevNo(y) /\ y \in 0 .. RecNos - 1
    BY <1>3, <1>6, <2>3 DEF Cur, FileType
  <2>5. r = IF y = 0 THEN RecNos - 1 ELSE y - 1
    BY <2>4, NextPrev
  <2>6. y = r + 1
    BY <1>3, <2>2, <2>3, <2>4, <2>5
  <2>7. r \in Nat /\ Pos(f) = r * s + s
    BY <1>3, <1>4, <2>1, <2>3
  <2>8. y * s = r * s + s
    BY <1>3, <2>6, <2>7
  <2> QED BY <1>1, <1>2, <2>3, <2>7, <2>8
<1> QED BY <1>5, <1>6

\* The byte that fgetc looks at.
LEMMA LookFacts ==
  ASSUME Tamed, NEW f, NEW d, Fine(f, d), ~Is(f, "writing"), f.bufpos < f.bufcnt
  PROVE  /\ f.bufpos \in Offs /\ Now(f, d) = d
         /\ Data(d, Pos(f)) <=> f.buf[f.bufpos] # CtrlZ
         /\ Data(d, Pos(f)) => ByteAt(d, Pos(f)) = f.buf[f.bufpos] /\ Cur(f) # NumRecs(d)
<1>1. Now(f, d) = d
  BY DEF Now
<1>2. PICK r, o, n : r = Cur(f) /\ o = f.bufpos /\ n = NumRecs(d)
  OBVIOUS
<1>3. /\ f \in FileType /\ Steady(f, d) /\ r \in Nat /\ r <= n /\ n \in Nat /\ DOMAIN d = 0 .. n - 1
      /\ o \in Nat /\ f.bufcnt \in Nat /\ f.bufcnt <= RecSize /\ o < f.bufcnt
  BY <1>2, FineFacts
<1>4. o \in Offs /\ f.bufcnt # 0
  BY <1>3, Sizes DEF Offs
<1>5. f.bufcnt = RecSize /\ ~Is(f, "dirty")
  BY <1>4 DEF Fine, Exact
<1>6. Padded(f) = f.buf
  BY <1>3, <1>5, FullBuffer
<1>7. RecOf(Pos(f)) = r /\ OffOf(Pos(f)) = o
  BY <1>2, <1>3, <1>4, PosFacts, Placing
<1>8. CASE r = n
  <2>1. r \notin DOMAIN d
    BY <1>3, <1>8
  <2>2. f.buf[o] = CtrlZ
    BY <1>2, <1>3, <1>4, <1>5, <1>6, <1>8 DEF Fine, Exact, Blank
  <2> QED BY <1>1, <1>2, <1>4, <1>7, <2>1, <2>2 DEF Data
<1>9. CASE r # n
  <2>1. r \in DOMAIN d
    BY <1>3, <1>9
  <2>2. f.buf = d[r]
    BY <1>2, <1>3, <1>4, <1>5, <1>6, <2>1 DEF Steady
  <2> QED BY <1>1, <1>2, <1>4, <1>7, <1>9, <2>1, <2>2 DEF Data, ByteAt
<1> QED BY <1>8, <1>9

LEMMA RefilledFine ==
  ASSUME Tamed, NEW f, NEW d, Fine(f, d), ~Is(f, "writing"), f.recno \in DOMAIN d,
         NEW g, g = [f EXCEPT !.buf = d[f.recno], !.recno = NextNo(f.recno),
                              !.bufpos = 0, !.bufcnt = RecSize]
  PROVE  Fine(g, d) /\ ~Is(g, "writing") /\ Pos(g) = f.recno * RecSize /\ Now(g, d) = d
<1>1. /\ f \in FileType /\ f.recno \in Nat /\ NumRecs(d) \in Nat /\ DOMAIN d = 0 .. NumRecs(d) - 1
  BY FineFacts
<1>2. Good(g, d) /\ Is(g, "open") /\ ~Is(g, "writing")
  BY RefilledGood DEF Fine
<1>3. /\ g.flags = f.flags /\ g.bufpos = 0 /\ g.bufcnt = RecSize /\ g.recno = NextNo(f.recno)
  BY <1>1 DEF FileType
<1>4. f.recno \in 0 .. RecNos - 1
  BY <1>1 DEF FileType
<1>5. Cur(g) = f.recno
  BY <1>2, <1>3, <1>4, NextPrev, Sizes DEF Cur
<1>6. Blank(g, d)
  BY <1>1, <1>5 DEF Blank
<1>7. Exact(g, d)
  BY <1>2, <1>3, <1>6 DEF Exact, Fine, Is
<1>8. Fine(g, d)
  BY <1>2, <1>7 DEF Fine
<1>9. PICK a : a = f.recno * RecSize
  OBVIOUS
<1>10. a \in Nat
  BY <1>1, <1>9, Sizes
<1>11. Pos(g) = a + 0
  BY <1>3, <1>5, <1>8, <1>9, PosFacts
<1> QED BY <1>2, <1>8, <1>9, <1>10, <1>11 DEF Now

LEMMA PassedFine ==
  ASSUME Tamed, NEW f, NEW d, Fine(f, d), ~Is(f, "writing"), f.bufpos < f.bufcnt,
         f.buf[f.bufpos] # CtrlZ, NEW g, g = [f EXCEPT !.bufpos = f.bufpos + 1]
  PROVE  /\ Fine(g, d) /\ ~Is(g, "writing") /\ Now(g, d) = d
         /\ Pos(g) = Pos(f) + 1
<1>1. /\ f \in FileType /\ f.bufpos \in Nat /\ f.bufcnt \in Nat /\ Cur(f) \in Nat
  BY FineFacts
<1>2. Good(g, d) /\ Is(g, "open") /\ ~Is(g, "writing")
  BY PassedGood DEF Fine
<1>3. /\ g.flags = f.flags /\ g.bufpos = f.bufpos + 1 /\ g.bufcnt = f.bufcnt /\ g.recno = f.recno
  BY <1>1 DEF FileType
<1>4. Cur(g) = Cur(f)
  BY <1>3 DEF Cur, Is
<1>5. Cur(f) # NumRecs(d)
  BY LookFacts
<1>6. Exact(g, d)
  BY <1>2, <1>3, <1>4, <1>5 DEF Exact, Blank, Fine, Is
<1>7. Fine(g, d)
  BY <1>2, <1>6 DEF Fine
<1>8. PICK a : a = Cur(f) * RecSize
  OBVIOUS
<1>9. a \in Nat
  BY <1>1, <1>8, Sizes
<1>10. Pos(f) = a + f.bufpos /\ Pos(g) = a + (f.bufpos + 1)
  BY <1>3, <1>4, <1>7, <1>8, PosFacts
<1> QED BY <1>1, <1>2, <1>7, <1>9, <1>10 DEF Now

-----------------------------------------------------------------------------
(* The invariant of the tamed program.                                      *)

\* The flags are those of the mode, and a stream that writes is not at the end
\* of the file by its flag; one that appends is at the end of the text.
Agrees(f, m) ==
  m \in Modes /\ \A x \in {"canRead", "canWrite", "append"} : Is(f, x) <=> x \in ModeFlags[m]
AtEnd(f, d) ==
  Is(f, "writing") => ~Is(f, "eof") /\ (Is(f, "append") => Pos(f) = Len(Shown(f, d)))

Exactly(f, d, m) == Fine(f, d) /\ Agrees(f, m) /\ AtEnd(f, d)

TamedInv == Inv /\ (Open => Exactly(file, recs, mode))

LEMMA AgreesFacts ==
  ASSUME NEW f, NEW m, Agrees(f, m)
  PROVE  /\ m \in Abstract!AllModes /\ m # "closed"
         /\ Is(f, "canRead") <=> Abstract!MayRead(m)
         /\ Is(f, "canWrite") <=> Abstract!MayWrite(m)
         /\ Is(f, "append") <=> Abstract!Appends(m)
<1>1. m \in {"r", "w", "a", "r+", "w+", "a+"}
  BY Sizes DEF Agrees
<1> QED BY <1>1 DEF Agrees, ModeFlags, Abstract!AllModes, Abstract!MayRead, Abstract!MayWrite,
                    Abstract!Appends

LEMMA SameAgrees ==
  ASSUME NEW f, NEW g, NEW m, Agrees(f, m), SameMode(g, f)
  PROVE  Agrees(g, m)
  BY DEF Agrees, SameMode

LEMMA TextShown == Text = Shown(file, recs) /\ Text' = Shown(file', recs')
  BY DEF Text, Whole, Shown, Now

-----------------------------------------------------------------------------
(* Each call of the tamed program is a step of TextFile.                    *)

\* A step from one open stream to another.
LEMMA OpenStep ==
  ASSUME TamedInv, Inv', NEW g, NEW e, file' = g, recs' = e, mode' = mode, Exactly(g, e, mode)
  PROVE  TamedInv'
  BY DEF TamedInv, Exactly, Fine, Good, DiskOK, Dense, Steady, Shaped, Exact, Blank, AtEnd, Agrees

\* A stream with the same text, position and state.
LEMMA SameExactly ==
  ASSUME NEW f, NEW d, NEW m, Exactly(f, d, m), NEW g, NEW e, Fine(g, e), SameMode(g, f),
         Shown(g, e) = Shown(f, d), Pos(g) = Pos(f), Is(g, "writing") => Is(f, "writing"),
         Is(g, "eof") => Is(f, "eof")
  PROVE  Exactly(g, e, m)
<1>1. Agrees(g, m)
  BY SameAgrees DEF Exactly
<1>2. Is(g, "append") => Is(f, "append")
  BY DEF SameMode
<1>3. AtEnd(g, e)
  BY <1>2 DEF Exactly, AtEnd
<1> QED BY <1>1, <1>3 DEF Exactly

LEMMA OpenFacts ==
  ASSUME Tamed, TamedInv, Open
  PROVE  /\ Exactly(file, recs, mode) /\ Fine(file, recs) /\ Agrees(file, mode)
         /\ AtEnd(file, recs) /\ file \in FileType /\ DiskOK(recs)
         /\ mode # "closed" /\ Is(file, "open") /\ file.unget \in 0 .. 255
  BY FineFacts, AgreesFacts DEF TamedInv, Exactly, Open, FileType

LEMMA UngetcMaps ==
  ASSUME Tamed, TamedInv, NEW c \in Backs, Ungetc(c)
  PROVE  TamedInv' /\ Abstract!PushBack(c)
<1>1. PICK g : g = file'
  OBVIOUS
<1>2. /\ Exactly(file, recs, mode) /\ Fine(file, recs) /\ file \in FileType /\ mode # "closed"
      /\ Is(file, "open") /\ pc = "idle"
  BY OpenFacts DEF Ungetc, Ready
<1>3. /\ g = [file EXCEPT !.unget = c] /\ recs' = recs /\ there' = there /\ mode' = mode
      /\ pc' = pc /\ ret' = c
  BY <1>1 DEF Ungetc, disk
<1>4. c \in 0 .. 255 /\ c # None
  BY TamedFacts, Sizes
<1>5. /\ g \in FileType /\ g.flags = file.flags /\ g.unget = c /\ g.bufpos = file.bufpos
      /\ g.bufcnt = file.bufcnt /\ g.recno = file.recno /\ g.buf = file.buf
      /\ g.moved = file.moved
  BY <1>2, <1>3, <1>4 DEF FileType
<1>6. \A x \in Flags : Is(g, x) <=> Is(file, x)
  BY <1>5 DEF Is
<1>7. SameMode(g, file) /\ (Is(g, "writing") <=> Is(file, "writing"))
      /\ (Is(g, "dirty") <=> Is(file, "dirty")) /\ (Is(g, "eof") <=> Is(file, "eof"))
  BY <1>6 DEF SameMode, Flags
<1>8. Fine(g, recs) /\ Now(g, recs) = Now(file, recs) /\ Pos(g) = Pos(file)
  BY <1>2, <1>5, <1>7, SameFine, SameNow DEF Pos
<1>9. Exactly(g, recs, mode)
  BY <1>2, <1>7, <1>8, SameExactly DEF Shown
<1>10. TamedInv'
  BY <1>1, <1>3, <1>9, UngetcInv, OpenStep DEF TamedInv
<1>11. Text' = Text
  BY <1>1, <1>3, <1>8, TextShown DEF Shown
<1>12. Is(g, "open")
  BY <1>8 DEF Fine
<1>13. Abstract!PushBack(c)
  BY <1>1, <1>2, <1>3, <1>4, <1>5, <1>7, <1>8, <1>11, <1>12
     DEF Abstract!PushBack, Abstract!Closed, Open
<1> QED BY <1>10, <1>13

LEMMA ClearerrMaps ==
  ASSUME Tamed, TamedInv, Clearerr
  PROVE  TamedInv' /\ Abstract!ClearEnd
<1>1. PICK g : g = file'
  OBVIOUS
<1>2. /\ Exactly(file, recs, mode) /\ Fine(file, recs) /\ file \in FileType /\ mode # "closed"
      /\ Is(file, "open") /\ pc = "idle"
  BY OpenFacts DEF Clearerr, Ready
<1>3. /\ g = [file EXCEPT !.flags = file.flags \ {"eof", "error"}] /\ recs' = recs
      /\ there' = there /\ mode' = mode /\ pc' = pc /\ ret' = ret
  BY <1>1 DEF Clearerr, disk
<1>4. /\ g \in FileType /\ g.flags = file.flags \ {"eof", "error"} /\ g.unget = file.unget
      /\ g.bufpos = file.bufpos /\ g.bufcnt = file.bufcnt /\ g.recno = file.recno
      /\ g.buf = file.buf /\ g.moved = file.moved
  BY <1>2, <1>3 DEF FileType
<1>5. SameMode(g, file) /\ (Is(g, "writing") <=> Is(file, "writing"))
      /\ (Is(g, "dirty") <=> Is(file, "dirty")) /\ ~Is(g, "eof")
  BY <1>4 DEF SameMode, Is
<1>6. Fine(g, recs) /\ Now(g, recs) = Now(file, recs) /\ Pos(g) = Pos(file)
  BY <1>2, <1>4, <1>5, SameFine, SameNow DEF Pos
<1>7. Exactly(g, recs, mode)
  BY <1>2, <1>5, <1>6, SameExactly DEF Shown
<1>8. TamedInv'
  BY <1>1, <1>3, <1>7, ClearerrInv, OpenStep DEF TamedInv
<1>9. Text' = Text
  BY <1>1, <1>3, <1>6, TextShown DEF Shown
<1>10. Is(g, "open")
  BY <1>6 DEF Fine
<1>11. Abstract!ClearEnd
  BY <1>1, <1>2, <1>3, <1>4, <1>5, <1>6, <1>9, <1>10
     DEF Abstract!ClearEnd, Abstract!Closed, Open
<1> QED BY <1>8, <1>11

LEMMA FtellMaps ==
  ASSUME Tamed, TamedInv, Ftell
  PROVE  TamedInv' /\ Abstract!Ask(Abstract!Told)
<1>1. Open /\ pc = "idle" /\ mode # "closed" /\ file.unget \in 0 .. 255
  BY OpenFacts DEF Ftell, Ready
<1>2. /\ recs' = recs /\ there' = there /\ file' = file /\ mode' = mode /\ pc' = pc
      /\ ret' = Tell(file)
  BY DEF Ftell, disk
<1>3. TamedInv'
  <2>1. Inv'
    BY <1>2 DEF TamedInv, Inv
  <2> QED BY <1>1, <1>2, <2>1, OpenFacts, OpenStep
<1>4. Abstract!Told = Tell(file)
  BY <1>1 DEF Abstract!Told, Abstract!NoBack, Tell
<1>5. Text' = Text
  BY <1>2, TextShown
<1>6. Open'
  BY <1>1, <1>2 DEF Open
<1>7. Abstract!Ask(Tell(file))
  BY <1>1, <1>2, <1>5, <1>6 DEF Abstract!Ask, Abstract!Closed
<1> QED BY <1>3, <1>4, <1>7

LEMMA FflushMaps ==
  ASSUME Tamed, TamedInv, Fflush
  PROVE  TamedInv' /\ Abstract!Ask(0)
<1>1. /\ Exactly(file, recs, mode) /\ Fine(file, recs) /\ file \in FileType /\ mode # "closed"
      /\ Is(file, "open") /\ pc = "idle" /\ Open
  BY OpenFacts DEF Fflush, Ready
<1>2. PICK g, e : g = file' /\ e = recs'
  OBVIOUS
<1>3. there' = there /\ mode' = mode /\ pc' = pc
  BY DEF Fflush
<1>4. /\ Exactly(g, e, mode) /\ ret' = 0 /\ Shown(g, e) = Shown(file, recs) /\ Pos(g) = Pos(file)
      /\ (Is(g, "eof") <=> Is(file, "eof")) /\ g.unget = file.unget
  <2>1. CASE ~Is(file, "writing")
    <3>1. g = file /\ e = recs /\ ret' = 0
      BY <1>2, <2>1 DEF Fflush
    <3> QED BY <1>1, <3>1
  <2>2. CASE Is(file, "writing")
    <3>1. g = Flushed(file, recs) /\ e = FlushedDisk(file, recs) /\ ~FlushFails(file, recs) /\ ret' = 0
      BY <1>1, <1>2, <2>2, FineFlush DEF Fflush
    <3>2. Fine(g, e) /\ Is(g, "writing")
      BY <1>1, <2>2, <3>1, FlushFine
    <3>3. /\ g.bufpos = file.bufpos /\ g.recno = file.recno /\ g.unget = file.unget
          /\ SameMode(g, file) /\ (Is(g, "eof") <=> Is(file, "eof"))
      BY <1>1, <3>1, FlushFile
    <3>4. Shown(g, e) = Shown(file, recs)
      BY <1>1, <2>2, <3>1, FlushNow DEF Shown
    <3>5. Pos(g) = Pos(file)
      BY <2>2, <3>2, <3>3 DEF Pos
    <3> QED BY <1>1, <2>2, <3>1, <3>2, <3>3, <3>4, <3>5, SameExactly
  <2> QED BY <2>1, <2>2
<1>5. TamedInv'
  BY <1>2, <1>3, <1>4, FflushInv, OpenStep DEF TamedInv
<1>6. Text' = Text
  BY <1>2, <1>4, TextShown
<1>7. Is(g, "open")
  BY <1>4 DEF Exactly, Fine
<1>8. Abstract!Ask(0)
  BY <1>1, <1>2, <1>3, <1>4, <1>6, <1>7 DEF Abstract!Ask, Abstract!Closed, Open
<1> QED BY <1>5, <1>8

LEMMA FgetcFailsMaps ==
  ASSUME Tamed, TamedInv, FgetcFails
  PROVE  TamedInv' /\ Abstract!GetFails
<1>1. /\ Exactly(file, recs, mode) /\ Fine(file, recs) /\ file \in FileType /\ mode # "closed"
      /\ Is(file, "open") /\ pc = "idle" /\ DiskOK(recs) /\ Agrees(file, mode)
  BY OpenFacts DEF FgetcFails, Ready
<1>2. PICK g : g = file'
  OBVIOUS
<1>3. /\ g = ToRead(file, recs) /\ Is(file, "writing") /\ Is(g, "writing")
      /\ recs' = recs /\ there' = there /\ mode' = mode /\ pc' = pc /\ ret' = EOF
  BY <1>2 DEF FgetcFails, disk
<1>4. ~Is(file, "canRead")
  BY <1>1, <1>3, FineFlush, ToReadFacts
<1>5. g = Raise(file, "error")
  BY <1>3, <1>4 DEF ToRead
<1>6. /\ g \in FileType /\ g.unget = file.unget /\ g.bufpos = file.bufpos
      /\ g.bufcnt = file.bufcnt /\ g.recno = file.recno /\ g.buf = file.buf
      /\ g.moved = file.moved /\ g.flags = file.flags \cup {"error"}
  BY <1>1, <1>5 DEF FileType, Raise, Flags
<1>7. SameMode(g, file) /\ (Is(g, "writing") <=> Is(file, "writing"))
      /\ (Is(g, "dirty") <=> Is(file, "dirty")) /\ (Is(g, "eof") <=> Is(file, "eof"))
  BY <1>6 DEF SameMode, Is
<1>8. Fine(g, recs) /\ Now(g, recs) = Now(file, recs) /\ Pos(g) = Pos(file)
  BY <1>1, <1>6, <1>7, SameFine, SameNow DEF Pos
<1>9. Exactly(g, recs, mode)
  BY <1>1, <1>7, <1>8, SameExactly DEF Shown
<1>10. TamedInv'
  BY <1>2, <1>3, <1>9, FgetcFailsInv, OpenStep DEF TamedInv
<1>11. Text' = Text
  BY <1>2, <1>3, <1>8, TextShown DEF Shown
<1>12. Is(g, "open") /\ ~Abstract!MayRead(mode)
  BY <1>1, <1>4, <1>8, AgreesFacts DEF Fine
<1>13. Abstract!GetFails
  BY <1>1, <1>2, <1>3, <1>6, <1>7, <1>8, <1>11, <1>12
     DEF Abstract!GetFails, Abstract!Closed, Abstract!EOF, EOF, Open
<1> QED BY <1>10, <1>13

\* The stream that fgetc reads from, after its change of state.
LEMMA TurnedFine ==
  ASSUME Tamed, TamedInv, Open, NEW f, NEW e,
         f = IF Is(file, "writing") THEN ToRead(file, recs) ELSE file,
         e = IF Is(file, "writing") THEN FlushedDisk(file, recs) ELSE recs,
         Is(file, "writing") => Is(file, "canRead")
  PROVE  /\ Fine(f, e) /\ ~Is(f, "writing") /\ Shown(f, e) = Text /\ Pos(f) = Pos(file)
         /\ SameMode(f, file) /\ f.unget = file.unget /\ (Is(f, "eof") <=> Is(file, "eof"))
<1>1. Fine(file, recs) /\ file \in FileType /\ DiskOK(recs)
  BY OpenFacts
<1>2. CASE ~Is(file, "writing")
  BY <1>1, <1>2, TextShown DEF SameMode
<1>3. CASE Is(file, "writing")
  <2>1. f = ToRead(file, recs) /\ e = FlushedDisk(file, recs) /\ ~FlushFails(file, recs)
    BY <1>1, <1>3, FineFlush
  <2>2. Fine(f, e) /\ ~Is(f, "writing") /\ Cur(f) = file.recno
    BY <1>1, <1>3, <2>1, ToReadFine
  <2>3. /\ SameMode(f, file) /\ f.unget = file.unget /\ f.bufpos = file.bufpos
        /\ (Is(f, "eof") <=> Is(file, "eof"))
    BY <1>1, <2>1, ToReadFacts
  <2>4. Shown(f, e) = Text
    BY <1>1, <1>3, <2>1, ToReadNow, TextShown DEF Shown
  <2>5. Pos(f) = Pos(file)
    <3>1. Cur(f) = Cur(file)
      BY <1>3, <2>2 DEF Cur
    <3> QED BY <1>1, <2>2, <2>3, <3>1, PosFacts
  <2> QED BY <2>2, <2>3, <2>4, <2>5
<1> QED BY <1>2, <1>3

LEMMA FgetcMaps ==
  ASSUME Tamed, TamedInv, Fgetc
  PROVE  TamedInv' /\ (Abstract!GetBack \/ Abstract!Look)
<1>1. /\ Exactly(file, recs, mode) /\ Open /\ mode # "closed" /\ file.unget \in 0 .. 255
      /\ Is(file, "open") /\ pc = "idle" /\ Agrees(file, mode) /\ DiskOK(recs)
      /\ file \in FileType /\ Fine(file, recs)
  BY OpenFacts DEF Fgetc, Ready
<1>2. PICK f, e : /\ f = (IF Is(file, "writing") THEN ToRead(file, recs) ELSE file)
                  /\ e = (IF Is(file, "writing") THEN FlushedDisk(file, recs) ELSE recs)
  OBVIOUS
<1>3. PICK g : g = file'
  OBVIOUS
<1>4. /\ ~Is(f, "writing") /\ Is(f, "canRead")
      /\ g = [f EXCEPT !.unget = None] /\ recs' = e /\ there' = there /\ mode' = mode
      /\ IF f.unget # None THEN ret' = f.unget /\ pc' = pc
         ELSE IF Is(f, "eof") THEN ret' = EOF /\ pc' = pc
         ELSE pc' = "getc" /\ ret' = ret
  BY <1>2, <1>3, TamedFacts DEF Fgetc
<1>5. Is(file, "writing") => Is(file, "canRead")
  <2> SUFFICES ASSUME Is(file, "writing") PROVE Is(file, "canRead")
    OBVIOUS
  <2>1. SameMode(f, file)
    BY <1>1, <1>2, ToReadFacts
  <2> QED BY <1>4, <2>1 DEF SameMode
<1>6. /\ Fine(f, e) /\ Shown(f, e) = Text /\ Pos(f) = Pos(file) /\ SameMode(f, file)
      /\ f.unget = file.unget /\ (Is(f, "eof") <=> Is(file, "eof"))
  BY <1>1, <1>2, <1>5, TurnedFine
<1>7. f \in FileType /\ None \in 0 .. 255
  BY <1>6, FineFacts, Sizes
<1>8. /\ g \in FileType /\ g.flags = f.flags /\ g.unget = None /\ g.bufpos = f.bufpos
      /\ g.bufcnt = f.bufcnt /\ g.recno = f.recno /\ g.buf = f.buf /\ g.moved = f.moved
  BY <1>4, <1>7 DEF FileType
<1>9. \A x \in Flags : Is(g, x) <=> Is(f, x)
  BY <1>8 DEF Is
<1>10. /\ SameMode(g, f) /\ (Is(g, "writing") <=> Is(f, "writing"))
       /\ (Is(g, "dirty") <=> Is(f, "dirty")) /\ (Is(g, "eof") <=> Is(f, "eof"))
  BY <1>9 DEF SameMode, Flags
<1>11. Fine(g, e) /\ Now(g, e) = Now(f, e) /\ Pos(g) = Pos(f)
  BY <1>6, <1>8, <1>10, SameFine, SameNow DEF Pos
<1>12. Exactly(g, e, mode)
  <2>1. SameMode(g, file) /\ Shown(g, e) = Shown(file, recs)
    BY <1>6, <1>10, <1>11, TextShown DEF SameMode, Shown
  <2> QED BY <1>1, <1>4, <1>6, <1>10, <1>11, <2>1, SameExactly
<1>13. TamedInv'
  BY <1>3, <1>4, <1>12, FgetcInv, OpenStep DEF TamedInv
<1>14. Text' = Text
  BY <1>3, <1>4, <1>6, <1>11, TextShown DEF Shown
<1>15. Is(g, "open") /\ Abstract!MayRead(mode)
  <2>1. Is(file, "canRead")
    BY <1>4, <1>6 DEF SameMode
  <2> QED BY <1>1, <1>11, <2>1, AgreesFacts DEF Fine
<1>16. CASE file.unget # None
  <2>1. ret' = file.unget /\ pc' = pc
    BY <1>4, <1>6, <1>16
  <2>2. Abstract!GetBack
    BY <1>1, <1>3, <1>4, <1>6, <1>8, <1>10, <1>11, <1>14, <1>15, <1>16, <2>1
       DEF Abstract!GetBack, Abstract!Closed, Abstract!NoBack, Open
  <2> QED BY <1>13, <2>2
<1>17. CASE file.unget = None
  <2>1. IF Is(file, "eof") THEN ret' = EOF /\ pc' = pc ELSE pc' = "getc" /\ ret' = ret
    BY <1>4, <1>6, <1>17
  <2>2. Abstract!Look
    BY <1>1, <1>3, <1>4, <1>6, <1>8, <1>10, <1>11, <1>14, <1>15, <1>17, <2>1
       DEF Abstract!Look, Abstract!Closed, Abstract!NoBack, Abstract!EOF, EOF, Open
  <2> QED BY <1>13, <2>2
<1> QED BY <1>16, <1>17

LEMMA GetcFacts ==
  ASSUME Tamed, TamedInv, pc = "getc"
  PROVE  /\ Open /\ ~Is(file, "writing") /\ Exactly(file, recs, mode) /\ Fine(file, recs)
         /\ mode # "closed" /\ file \in FileType /\ Text = TextOf(recs)
<1>1. Open /\ ~Is(file, "writing")
  BY DEF TamedInv, Inv, Open
<1>2. Now(file, recs) = recs
  BY <1>1 DEF Now
<1> QED BY <1>1, <1>2, OpenFacts, TextShown DEF Shown

\* A record read into the buffer is nothing that the caller sees.
LEMMA FgetcRefillMaps ==
  ASSUME Tamed, TamedInv, FgetcRefill
  PROVE  TamedInv' /\ UNCHANGED Abstract!vars
<1>1. pc = "getc" /\ file.bufpos >= file.bufcnt /\ file.recno \in DOMAIN recs
  BY DEF FgetcRefill, Refills
<1>2. /\ Open /\ ~Is(file, "writing") /\ Exactly(file, recs, mode) /\ Fine(file, recs)
      /\ Text = TextOf(recs) /\ file \in FileType
  BY <1>1, GetcFacts
<1>3. PICK g : g = file'
  OBVIOUS
<1>4. /\ g = [file EXCEPT !.buf = recs[file.recno], !.recno = NextNo(file.recno),
                          !.bufpos = 0, !.bufcnt = RecSize]
      /\ recs' = recs /\ there' = there /\ mode' = mode /\ pc' = pc /\ ret' = ret
  BY <1>3 DEF FgetcRefill, disk
<1>5. Fine(g, recs) /\ ~Is(g, "writing") /\ Pos(g) = file.recno * RecSize /\ Now(g, recs) = recs
  BY <1>1, <1>2, <1>4, RefilledFine
<1>6. Pos(file) = file.recno * RecSize /\ Now(file, recs) = recs
  BY <1>1, <1>2, PastFacts
<1>7. g.flags = file.flags /\ g.unget = file.unget
  BY <1>2, <1>4 DEF FileType
<1>8. SameMode(g, file) /\ (Is(g, "eof") <=> Is(file, "eof"))
  BY <1>7 DEF SameMode, Is
<1>9. Exactly(g, recs, mode)
  BY <1>2, <1>5, <1>6, <1>8, SameExactly DEF Shown
<1>10. TamedInv'
  BY <1>3, <1>4, <1>9, FgetcRefillInv, OpenStep DEF TamedInv
<1>11. Text' = Text /\ Is(g, "open")
  BY <1>2, <1>3, <1>4, <1>5, TextShown DEF Shown, Fine
<1>12. UNCHANGED Abstract!vars
  BY <1>2, <1>3, <1>4, <1>5, <1>6, <1>7, <1>8, <1>11 DEF Abstract!vars, Open
<1> QED BY <1>10, <1>12

LEMMA FgetcEndMaps ==
  ASSUME Tamed, TamedInv, FgetcEnd
  PROVE  TamedInv' /\ Abstract!GetEnd
<1>1. pc = "getc"
  BY DEF FgetcEnd, Refills, Looks
<1>2. /\ Open /\ ~Is(file, "writing") /\ Exactly(file, recs, mode) /\ Fine(file, recs)
      /\ Text = TextOf(recs) /\ file \in FileType
  BY <1>1, GetcFacts
<1>3. PICK g : g = file'
  OBVIOUS
<1>4. /\ g = Raise(file, "eof") /\ recs' = recs /\ there' = there /\ mode' = mode
      /\ pc' = "idle" /\ ret' = EOF
  BY <1>3 DEF FgetcEnd, disk
<1>5. /\ g \in FileType /\ g.flags = file.flags \cup {"eof"} /\ g.unget = file.unget
      /\ g.bufpos = file.bufpos /\ g.bufcnt = file.bufcnt /\ g.recno = file.recno
      /\ g.buf = file.buf /\ g.moved = file.moved
  BY <1>2, <1>4 DEF FileType, Raise, Flags
<1>6. SameMode(g, file) /\ (Is(g, "writing") <=> Is(file, "writing"))
      /\ (Is(g, "dirty") <=> Is(file, "dirty")) /\ Is(g, "eof")
  BY <1>5 DEF SameMode, Is
<1>7. Fine(g, recs) /\ Now(g, recs) = Now(file, recs) /\ Pos(g) = Pos(file)
  BY <1>2, <1>5, <1>6, SameFine, SameNow DEF Pos
<1>8. Exactly(g, recs, mode)
  BY <1>2, <1>6, <1>7, SameAgrees DEF Exactly, AtEnd
<1>9. TamedInv'
  BY <1>3, <1>4, <1>8, FgetcEndInv, OpenStep DEF TamedInv
<1>10. Text' = Text /\ Is(g, "open")
  BY <1>3, <1>4, <1>7, TextShown DEF Shown, Fine
<1>11. ~Data(recs, Pos(file))
  <2>1. CASE file.bufpos >= file.bufcnt
    <3>1. file.recno \notin DOMAIN recs
      BY <2>1, <1>2, FineFacts DEF FgetcEnd, Looks
    <3>2. file.recno \in Nat /\ 0 \in Offs /\ RecSize \in Nat
      BY <1>2, FineFacts, Sizes DEF Offs
    <3>3. PICK a : a = file.recno * RecSize
      OBVIOUS
    <3>4. a \in Nat /\ a = a + 0
      BY <3>2, <3>3
    <3>5. RecOf(a) = file.recno
      BY <3>2, <3>3, <3>4, Placing
    <3> QED BY <1>2, <2>1, <3>1, <3>3, <3>5, PastFacts DEF Data
  <2>2. CASE ~(file.bufpos >= file.bufcnt)
    <3>1. file.bufpos < file.bufcnt
      BY <1>2, <2>2, FineFacts
    <3>2. file.buf[file.bufpos] = CtrlZ
      BY <2>2 DEF FgetcEnd, Refills, Here
    <3> QED BY <1>2, <3>1, <3>2, LookFacts
  <2> QED BY <2>1, <2>2
<1>12. Pos(file) >= Len(Text)
  <2>1. DiskOK(recs) /\ Dense(recs) /\ Pos(file) \in Nat
    BY <1>2, FineFacts, PosFacts
  <2>2. PICK l, n : n = NumRecs(recs) /\ l = TextLen(recs, n)
    OBVIOUS
  <2>3. n \in Nat /\ Solid(recs, n) /\ l = Len(Text) /\ l \in Nat
    BY <1>2, <2>1, <2>2, DenseSolid
  <2>4. ~(Pos(file) < l)
    BY <1>11, <2>1, <2>2, <2>3, TextPlaces
  <2> QED BY <2>1, <2>3, <2>4
<1>13. Abstract!GetEnd
  BY <1>1, <1>2, <1>3, <1>4, <1>5, <1>6, <1>7, <1>10, <1>12
     DEF Abstract!GetEnd, Abstract!EOF, EOF, Open
<1> QED BY <1>9, <1>13

\* The byte at the position, as the abstract file has it.
LEMMA HereFacts ==
  ASSUME Tamed, TamedInv, Looks, Here # CtrlZ
  PROVE  Pos(file) < Len(Text) /\ Text[Pos(file) + 1] = Here
<1>1. /\ ~Is(file, "writing") /\ Fine(file, recs) /\ file.bufpos < file.bufcnt
      /\ Text = TextOf(recs)
  BY GetcFacts DEF Looks
<1>2. PICK p : p = Pos(file)
  OBVIOUS
<1>3. Data(recs, p) /\ ByteAt(recs, p) = Here /\ p \in Nat
  BY <1>1, <1>2, LookFacts, PosFacts DEF Here
<1>4. PICK l, n : n = NumRecs(recs) /\ l = TextLen(recs, n)
  OBVIOUS
<1>5. n \in Nat /\ Solid(recs, n) /\ l = Len(Text) /\ l \in Nat
  BY <1>1, <1>4, FineFacts, DenseSolid
<1>6. p < l
  BY <1>3, <1>4, <1>5, TextPlaces
<1>7. p \in 0 .. l - 1
  BY <1>3, <1>5, <1>6
<1>8. Text[p + 1] = ByteAt(recs, p)
  <2>1. PICK t, d : t = TextOf(d) /\ d = recs
    OBVIOUS
  <2>2. Solid(d, n) /\ l = TextLen(d, n) /\ n \in Nat
    BY <1>4, <1>5, <2>1
  <2>3. \A q \in 0 .. l - 1 : t[q + 1] = ByteAt(d, q)
    BY <2>1, <2>2, TextFacts
  <2> QED BY <1>1, <1>7, <2>1, <2>3
<1> QED BY <1>2, <1>3, <1>5, <1>6, <1>8

LEMMA PassMaps ==
  ASSUME Tamed, TamedInv, FgetcSkip \/ FgetcByte
  PROVE  TamedInv' /\ (Abstract!Skip \/ Abstract!Get)
<1>1. Looks /\ Here # CtrlZ /\ pc = "getc" /\ file.bufpos < file.bufcnt
  BY DEF FgetcSkip, FgetcByte, Looks, CR, CtrlZ
<1>2. /\ Open /\ ~Is(file, "writing") /\ Exactly(file, recs, mode) /\ Fine(file, recs)
      /\ Text = TextOf(recs) /\ file \in FileType
  BY <1>1, GetcFacts
<1>3. PICK g : g = file'
  OBVIOUS
<1>4. /\ g = [file EXCEPT !.bufpos = file.bufpos + 1] /\ recs' = recs /\ there' = there
      /\ mode' = mode
      /\ \/ Here = CR /\ pc' = pc /\ ret' = ret
         \/ Here # CR /\ pc' = "idle" /\ ret' = Here
  BY <1>3 DEF FgetcSkip, FgetcByte, disk
<1>5. Fine(g, recs) /\ ~Is(g, "writing") /\ Now(g, recs) = recs /\ Pos(g) = Pos(file) + 1
  BY <1>1, <1>2, <1>4, PassedFine DEF Here
<1>6. g.flags = file.flags /\ g.unget = file.unget
  BY <1>2, <1>4 DEF FileType
<1>7. SameMode(g, file) /\ (Is(g, "eof") <=> Is(file, "eof"))
  BY <1>6 DEF SameMode, Is
<1>8. Exactly(g, recs, mode)
  BY <1>2, <1>5, <1>7, SameAgrees DEF Exactly, AtEnd
<1>9. TamedInv'
  BY <1>3, <1>4, <1>8, PassInv, OpenStep DEF TamedInv
<1>10. Text' = Text /\ Is(g, "open")
  BY <1>2, <1>3, <1>4, <1>5, TextShown DEF Shown, Fine
<1>11. Pos(file) < Len(Text) /\ Text[Pos(file) + 1] = Here
  BY <1>1, HereFacts
<1>12. CASE Here = CR
  <2>1. Abstract!Skip
    BY <1>1, <1>2, <1>3, <1>4, <1>5, <1>6, <1>7, <1>10, <1>11, <1>12 DEF Abstract!Skip, Open
  <2> QED BY <1>9, <2>1
<1>13. CASE Here # CR
  <2>1. Abstract!Get
    BY <1>1, <1>2, <1>3, <1>4, <1>5, <1>6, <1>7, <1>10, <1>11, <1>13 DEF Abstract!Get, Open
  <2> QED BY <1>9, <2>1
<1> QED BY <1>12, <1>13

-----------------------------------------------------------------------------
(* fputc                                                                    *)

\* A stream that may store a byte: in a record that a seek has made, the byte
\* at the position is the one that a pushed back character may have left.
Storing(f, d) ==
  /\ Good(f, d) /\ Is(f, "open") /\ Is(f, "writing")
  /\ Is(f, "dirty") => f.recno < Capacity
  /\ f.bufcnt # 0 /\ ~Is(f, "dirty") /\ f.recno = NumRecs(d) =>
       \A i \in Offs : i # f.bufpos => Padded(f)[i] = IF i < f.bufpos THEN 0 ELSE CtrlZ

LEMMA FineStoring ==
  ASSUME Tamed, NEW f, NEW d, Fine(f, d), Is(f, "writing")
  PROVE  Storing(f, d)
<1>1. Cur(f) = f.recno
  BY DEF Cur
<1> QED BY <1>1 DEF Storing, Fine, Exact, Blank

LEMMA StoringFacts ==
  ASSUME Tamed, NEW f, NEW d, Storing(f, d)
  PROVE  /\ f \in FileType /\ DiskOK(d) /\ Dense(d) /\ Shaped(f, d) /\ Steady(f, d)
         /\ Cur(f) = f.recno /\ Pos(f) = f.recno * RecSize + f.bufpos
         /\ f.recno \in Nat /\ f.bufpos \in Nat /\ f.bufcnt \in Nat
         /\ f.bufpos <= f.bufcnt /\ f.bufcnt <= RecSize /\ f.bufpos <= RecSize
         /\ NumRecs(d) \in Nat /\ DOMAIN d = 0 .. NumRecs(d) - 1 /\ f.recno <= NumRecs(d)
<1>1. /\ f \in FileType /\ DiskOK(d) /\ Dense(d) /\ Shaped(f, d) /\ Steady(f, d)
  BY TamedFacts DEF Storing, Good
<1>2. Cur(f) = f.recno /\ Pos(f) = f.recno * RecSize + f.bufpos
  BY DEF Storing, Cur, Pos
<1>3. /\ f.recno \in Nat /\ f.bufpos \in Nat /\ f.bufcnt \in Nat /\ f.bufpos <= f.bufcnt
      /\ f.bufcnt <= RecSize /\ f.bufpos <= RecSize
  BY <1>1, Sizes DEF FileType, Steady
<1>4. /\ NumRecs(d) \in Nat /\ DOMAIN d = 0 .. NumRecs(d) - 1
  BY <1>1, LastRecord, Sizes DEF Dense
<1>5. f.recno <= NumRecs(d)
  BY <1>1, <1>2 DEF Shaped
<1> QED BY <1>1, <1>2, <1>3, <1>4, <1>5

\* When the buffer is full there is no byte left out.
LEMMA FullFine ==
  ASSUME Tamed, NEW f, NEW d, Storing(f, d), f.bufpos >= RecSize
  PROVE  Fine(f, d) /\ f.bufpos = RecSize
<1>1. f.bufpos = RecSize /\ RecSize \in Nat
  BY StoringFacts, Sizes
<1>2. \A i \in Offs : i # f.bufpos
  BY <1>1 DEF Offs
<1>3. Cur(f) = f.recno
  BY DEF Storing, Cur
<1>4. Blank(f, d)
  BY <1>2, <1>3 DEF Storing, Blank
<1> QED BY <1>1, <1>4 DEF Storing, Fine, Exact

\* _file_towrite
LEMMA ToWriteStoring ==
  ASSUME Tamed, NEW f, NEW d, Fine(f, d), ~Is(f, "writing"), Is(f, "canWrite"),
         NEW g, g = ToWrite(f, d)
  PROVE  /\ Storing(g, d) /\ ~Is(g, "dirty") /\ Now(g, d) = d
         /\ Is(f, "append") => Pos(g) = Len(TextOf(d))
         /\ ~Is(f, "append") => Cur(g) = Cur(f) /\ g.bufpos = Undone(f)
<1>1. f \in FileType /\ DiskOK(d) /\ NumRecs(d) \in Nat
  BY FineFacts
<1>2. Good(g, d) /\ Is(g, "open") /\ Is(g, "writing")
  BY ToWriteGood DEF Fine
<1>3. ~Is(f, "dirty")
  BY DEF Fine, Exact
<1>4. ~Is(g, "dirty") /\ Cur(g) = g.recno
  BY <1>1, <1>2, <1>3, ToWriteFacts DEF Cur
<1>5. Now(g, d) = d
  BY <1>4 DEF Now, Pending
<1>6. CASE Is(f, "append")
  <2>1. /\ NumRecs(d) = 0 => g.recno = 0 /\ g.bufpos = 0 /\ g.bufcnt = 0
        /\ NumRecs(d) # 0 => g.recno = NumRecs(d) - 1 /\ g.bufpos = FirstZ(d[NumRecs(d) - 1])
    BY <1>1, <1>6, ToWriteFacts
  <2>2. Storing(g, d)
    BY <1>1, <1>2, <1>4, <2>1 DEF Storing
  <2>3. PICK l, n : n = NumRecs(d) /\ l = TextLen(d, n)
    OBVIOUS
  <2>4. l = Len(TextOf(d))
    BY <1>1, <2>3, FineFacts, DenseSolid
  <2>5. Pos(g) = g.recno * RecSize + g.bufpos
    BY <2>2, StoringFacts
  <2>6. CASE n = 0
    <3>1. PICK s : s = RecSize
      OBVIOUS
    <3>2. Pos(g) = 0 * s + 0 /\ l = 0 /\ s \in Nat
      BY <2>1, <2>3, <2>5, <2>6, <3>1, Sizes DEF TextLen
    <3> QED BY <1>4, <1>5, <1>6, <2>2, <2>4, <3>2
  <2>7. CASE n # 0
    <3>1. Pos(g) = l
      BY <2>1, <2>3, <2>5, <2>7 DEF TextLen
    <3> QED BY <1>4, <1>5, <1>6, <2>2, <2>4, <3>1
  <2> QED BY <2>6, <2>7
<1>7. CASE ~Is(f, "append")
  <2>1. g.bufpos = Undone(f)
    BY <1>1, <1>7, ToWriteFacts
  <2>2. CASE f.bufcnt = 0
    <3>1. /\ g.recno = f.recno
          /\ f.recno \in DOMAIN d => g.bufcnt = RecSize
          /\ f.recno \notin DOMAIN d => g.bufcnt = 0
      BY <1>1, <1>7, <2>2, ToWriteFacts
    <3>2. Cur(f) = f.recno
      BY <2>2 DEF Cur
    <3>3. NumRecs(d) \notin DOMAIN d
      BY FineFacts
    <3>4. Storing(g, d)
      BY <1>2, <1>4, <3>1, <3>3 DEF Storing
    <3> QED BY <1>4, <1>5, <1>7, <2>1, <3>1, <3>2, <3>4
  <2>3. CASE f.bufcnt # 0
    <3>1. g.recno = PrevNo(f.recno) /\ g.buf = f.buf /\ g.bufcnt = f.bufcnt
      BY <1>1, <1>7, <2>3, ToWriteFacts
    <3>2. Cur(f) = PrevNo(f.recno)
      BY <2>3 DEF Cur
    <3>3. f.bufcnt = RecSize
      BY <2>3 DEF Fine, Exact
    <3>4. g \in FileType
      BY <1>1, <1>7, ToWriteFacts
    <3>5. Padded(g) = Padded(f)
      BY <1>1, <3>1, <3>3, <3>4, FullBuffer
    <3>6. PICK a, b : a = f.bufpos /\ b = g.bufpos
      OBVIOUS
    <3>7. a \in Nat /\ b \in Nat /\ (b = a \/ b = a - 1)
      <4>1. a \in Nat
        BY <3>6, FineFacts
      <4> QED BY <2>1, <3>6, <4>1 DEF Undone
    <3>8. ASSUME g.recno = NumRecs(d)
          PROVE  \A i \in Offs : i # b => Padded(g)[i] = IF i < b THEN 0 ELSE CtrlZ
      <4>1. \A i \in Offs : Padded(f)[i] = IF i < a THEN 0 ELSE CtrlZ
        BY <1>3, <2>3, <3>1, <3>2, <3>6, <3>8 DEF Fine, Exact, Blank
      <4>2. \A i \in Offs : i # b => (i < a <=> i < b)
        BY <3>7, Sizes DEF Offs
      <4> QED BY <3>5, <4>1, <4>2
    <3>9. Storing(g, d)
      BY <1>2, <1>4, <3>6, <3>8 DEF Storing
    <3> QED BY <1>4, <1>5, <1>7, <2>1, <3>1, <3>2, <3>9
  <2> QED BY <2>2, <2>3
<1> QED BY <1>6, <1>7

\* The position of a byte that the tamed program writes is in a record that the
\* disk has room for.
LEMMA InRoom ==
  ASSUME Tamed, NEW x \in Nat, NEW o \in Nat, x * RecSize + o < Limit
  PROVE  x < Capacity
<1>1. PICK s, k : s = RecSize /\ k = Capacity
  OBVIOUS
<1>2. s \in Nat /\ k \in Nat /\ Limit \in Nat /\ Limit <= s * k
  BY <1>1, Sizes, TamedFacts
<1>3. PICK a, b : a = x * s /\ b = k * s
  OBVIOUS
<1>4. a \in Nat /\ b \in Nat /\ b = s * k /\ a + o < Limit
  BY <1>1, <1>2, <1>3
<1>5. ~(x >= k)
  <2> SUFFICES ASSUME x >= k PROVE FALSE
    OBVIOUS
  <2>1. k * s <= x * s
    BY <1>2
  <2> QED BY <1>2, <1>3, <1>4, <2>1
<1> QED BY <1>1, <1>2, <1>5

\* _fputc_store: the text is the abstract file's after the byte is put.
LEMMA PutText ==
  ASSUME Tamed, NEW f, NEW d, Storing(f, d), f.bufpos < RecSize, Pos(f) < Limit,
         NEW c, c \in 0 .. 255, c # CtrlZ
  PROVE  LET p == Pos(f)
             g == Stored(f, c)
             t == Shown(f, d)
             u == Shown(g, d)
         IN /\ Fine(g, d) /\ Is(g, "writing") /\ p \in Nat /\ Pos(g) = p + 1 /\ Len(t) \in Nat
            /\ SameMode(g, f) /\ g.unget = f.unget /\ (Is(g, "eof") <=> Is(f, "eof"))
            /\ (p >= Len(t) => Len(u) = p + 1) /\ u = WithByte(t, c, p)
<1>1. PICK p, g, t, u : /\ p = Pos(f) /\ p < Limit /\ g = Stored(f, c)
                        /\ t = Shown(f, d) /\ u = Shown(g, d)
  OBVIOUS
<1>2. PICK x, o, n : x = f.recno /\ o = f.bufpos /\ n = NumRecs(d)
  OBVIOUS
<1>3. /\ f \in FileType /\ DiskOK(d) /\ Dense(d) /\ Shaped(f, d) /\ Cur(f) = x
      /\ p = x * RecSize + o /\ x \in Nat /\ o \in Nat /\ f.bufcnt \in Nat
      /\ o <= f.bufcnt /\ n \in Nat /\ DOMAIN d = 0 .. n - 1 /\ x <= n
  BY <1>1, <1>2, StoringFacts
<1>4. x < Capacity
  BY <1>1, <1>3, InRoom
<1>5. /\ Good(f, d) /\ Is(f, "open") /\ Is(f, "writing") /\ o \in Offs
  BY <1>2, <1>3, Sizes DEF Storing, Offs
<1>6. Fine(g, d)
  BY <1>1, <1>2, <1>4, <1>5, StoredFine
<1>7. /\ SameMode(g, f) /\ Is(g, "writing") /\ Is(g, "dirty") /\ (Is(g, "eof") <=> Is(f, "eof"))
      /\ g.unget = f.unget /\ g.recno = x /\ g.bufpos = o + 1
  <2>1. f \in FileType
    BY <1>3
  <2>2. /\ SameMode(g, f) /\ (Is(g, "writing") <=> Is(f, "writing")) /\ Is(g, "dirty")
        /\ (Is(g, "eof") <=> Is(f, "eof")) /\ g.unget = f.unget
        /\ g.recno = f.recno /\ g.bufpos = f.bufpos + 1
    BY <1>1, <2>1, StoredFacts
  <2> QED BY <1>2, <1>5, <2>2
<1>8. Pos(g) = p + 1 /\ p \in Nat
  <2>1. PICK a : a = x * RecSize
    OBVIOUS
  <2>2. a \in Nat
    BY <1>3, <2>1, Sizes
  <2>3. Pos(g) = a + (o + 1) /\ p = a + o
    BY <1>3, <1>7, <2>1 DEF Pos
  <2> QED BY <1>3, <2>2, <2>3
<1>9. PICK w, v, b : w = Now(f, d) /\ v = Now(g, d) /\ b = Padded(f)
  OBVIOUS
<1>10. Puts(w, v, x, o, b, c)
  <2>1. NoHoles
    BY TamedFacts
  <2>2. /\ f.bufpos \in Offs /\ DOMAIN v = DOMAIN w \cup {f.recno} /\ v[f.recno][f.bufpos] = c
        /\ \A r \in DOMAIN w : r # f.recno => v[r] = w[r]
        /\ \A i \in Offs : i # f.bufpos => v[f.recno][i] = Padded(f)[i]
        /\ f.recno \in DOMAIN w => w[f.recno] = Padded(f)
    BY <1>1, <1>5, <1>9, <2>1, StoredNow
  <2> QED BY <1>2, <1>9, <2>2 DEF Puts
<1>11. PICK m, k : m \in Nat /\ Solid(w, m) /\ k \in Nat /\ Solid(v, k)
  BY <1>5, <1>6, <1>9, TamedFacts, NowSolid DEF Fine
<1>12. ASSUME x \notin DOMAIN w
       PROVE  TextLen(w, m) = Place(x, 0) /\ Made(b, o)
  <2>1. ~Pending(f) /\ w = d
    <3>1. Pending(f) => DOMAIN w = DOMAIN d \cup {x}
      BY <1>2, <1>5, <1>9 DEF Now, Written
    <3>2. ~Pending(f)
      BY <1>12, <3>1
    <3> QED BY <1>9, <3>2 DEF Now
  <2>2. x = n
    BY <1>3, <1>12, <2>1
  <2>3. m = n
    <3>1. m \in Nat /\ DOMAIN d = 0 .. m - 1
      BY <1>11, <2>1 DEF Solid
    <3>2. ~(m < n)
      <4> SUFFICES ASSUME m < n PROVE FALSE
        OBVIOUS
      <4>1. m \in 0 .. n - 1 /\ m \notin 0 .. m - 1
        BY <1>3, <3>1
      <4> QED BY <1>3, <3>1, <4>1
    <3>3. ~(n < m)
      <4> SUFFICES ASSUME n < m PROVE FALSE
        OBVIOUS
      <4>1. n \in 0 .. m - 1 /\ n \notin 0 .. n - 1
        BY <1>3, <3>1
      <4> QED BY <1>3, <3>1, <4>1
    <3> QED BY <1>3, <3>1, <3>2, <3>3
  <2>4. TextLen(w, m) = Place(x, 0)
    <3>1. CASE n = 0
      BY <2>2, <2>3, <3>1, Sizes DEF TextLen, Place
    <3>2. CASE n # 0
      <4>1. PICK z : z = d[n - 1]
        OBVIOUS
      <4>2. n - 1 \in DOMAIN d /\ n > 0
        BY <1>3, <3>2
      <4>3. z \in Record /\ NoZ(z)
        BY <1>2, <1>3, <1>5, <2>2, <4>1, <4>2 DEF Shaped, DiskOK
      <4>4. FirstZ(z) \in 0 .. RecSize /\ ~(FirstZ(z) < RecSize)
        <5>1. FirstZ(z) \in 0 .. RecSize /\ (FirstZ(z) < RecSize => z[FirstZ(z)] = CtrlZ)
          BY <4>3, FirstZFacts
        <5>2. FirstZ(z) < RecSize => FirstZ(z) \in Offs
          BY <5>1, Sizes DEF Offs
        <5> QED BY <4>3, <5>1, <5>2 DEF NoZ
      <4>5. FirstZ(z) = RecSize
        BY <4>4, Sizes
      <4>6. PICK s : s = RecSize
        OBVIOUS
      <4>7. TextLen(w, m) = (n - 1) * s + s
        BY <2>1, <2>3, <3>2, <4>1, <4>5, <4>6 DEF TextLen
      <4>8. (n - 1) * s + s = n * s
        BY <1>3, <4>2, <4>6, Sizes
      <4>9. Place(n, 0) = n * s
        BY <1>3, <4>6, Sizes DEF Place
      <4> QED BY <2>2, <4>7, <4>8, <4>9
    <3> QED BY <3>1, <3>2
  <2>5. Made(b, o)
    <3>1. CASE f.bufcnt = 0
      <4>1. o = 0 /\ Valid(f) = 0
        BY <1>2, <1>3, <3>1 DEF Valid
      <4>2. \A i \in Offs : b[i] = CtrlZ /\ ~(i < o)
        BY <1>3, <1>9, <4>1, PaddedFacts, Sizes DEF Offs
      <4> QED BY <4>2 DEF Made
    <3>2. CASE f.bufcnt # 0
      <4>1. Valid(f) = f.bufcnt
        BY <1>2, <1>3, PaddedFacts
      <4>2. ~Is(f, "dirty")
        BY <2>1, <3>2, <4>1 DEF Pending
      <4> QED BY <1>2, <1>9, <2>2, <3>2, <4>2 DEF Storing, Made
    <3> QED BY <3>1, <3>2
  <2> QED BY <2>4, <2>5
<1>13. t = TextOf(w) /\ u = TextOf(v)
  BY <1>1, <1>9 DEF Shown
<1>14. /\ Len(t) \in Nat /\ (p >= Len(t) => Len(u) = p + 1)
       /\ u = WithByte(t, c, p)
  <2>1. x \in Nat /\ o \in Offs /\ p = Place(x, o)
    BY <1>3, <1>5 DEF Place
  <2>2. ByteStored(w, m, v, k, x, o, b, c)
    BY <1>10, <1>11, <1>12, <2>1 DEF ByteStored
  <2> QED BY <1>13, <2>1, <2>2, StoredText
<1> QED BY <1>1, <1>6, <1>7, <1>8, <1>14
\* What fputc stores in: the text, the position of the byte and the mode.
LEMMA ReadyToPut ==
  ASSUME Tamed, TamedInv, Open, MayPut, Is(file, "canWrite"),
         NEW f, f = IF Is(file, "writing") THEN file ELSE ToWrite(file, recs),
         NEW p, p = IF Is(file, "append") THEN Len(Text) ELSE Tell(file)
  PROVE  /\ Storing(f, recs) /\ Shown(f, recs) = Text /\ f.unget = None /\ ~Is(f, "eof")
         /\ SameMode(f, file) /\ Pos(f) = p /\ p < Limit
<1>1. /\ Fine(file, recs) /\ AtEnd(file, recs) /\ file \in FileType /\ DiskOK(recs)
  BY OpenFacts
<1>2. PICK t : t = Text
  OBVIOUS
<1>3. Tell(file) < Limit /\ Len(t) < Limit /\ t = Shown(file, recs)
  BY <1>2, TextShown DEF MayPut
<1>4. p < Limit
  BY <1>2, <1>3
<1>5. file.unget = None \/ (~Is(file, "writing") /\ (file.bufpos > 0 \/ Is(file, "append")))
  BY TamedFacts DEF MayPut
<1>6. CASE Is(file, "writing")
  <2>1. file.unget = None /\ f = file
    BY <1>5, <1>6
  <2>2. Pos(file) \in Nat
    BY <1>1, PosFacts
  <2>3. Tell(file) = Pos(file)
    BY <2>1, <2>2 DEF Tell
  <2>4. Pos(file) = p
    BY <1>1, <1>2, <1>3, <1>6, <2>3 DEF AtEnd
  <2> QED BY <1>1, <1>2, <1>3, <1>4, <1>6, <2>1, <2>4, FineStoring DEF AtEnd, SameMode
<1>7. CASE ~Is(file, "writing")
  <2>1. f = ToWrite(file, recs)
    BY <1>7
  <2>2. /\ Storing(f, recs) /\ Now(f, recs) = recs
        /\ Is(file, "append") => Pos(f) = Len(TextOf(recs))
        /\ ~Is(file, "append") => Cur(f) = Cur(file) /\ f.bufpos = Undone(file)
    BY <1>1, <1>7, <2>1, ToWriteStoring
  <2>3. SameMode(f, file) /\ ~Is(f, "eof") /\ f.unget = None
    BY <1>1, <2>1, ToWriteFacts
  <2>4. Now(file, recs) = recs
    BY <1>7 DEF Now
  <2>5. Shown(f, recs) = t /\ TextOf(recs) = t
    BY <1>3, <2>2, <2>4 DEF Shown
  <2>6. CASE Is(file, "append")
    BY <1>2, <1>4, <2>2, <2>3, <2>5, <2>6
  <2>7. CASE ~Is(file, "append")
    <3>1. PICK a, q, o : a = Cur(file) * RecSize /\ q = Pos(file) /\ o = file.bufpos
      OBVIOUS
    <3>2. Cur(file) \in Nat /\ o \in Nat
      BY <1>1, <3>1, FineFacts
    <3>3. a \in Nat /\ q = a + o
      BY <1>1, <3>1, <3>2, PosFacts, Sizes
    <3>4. Pos(f) = a + Undone(file)
      BY <2>2, <2>7, <3>1, StoringFacts
    <3>5. file.unget # None => o > 0
      BY <1>5, <2>7, <3>1
    <3>6. Undone(file) = IF file.unget = None THEN o ELSE o - 1
      BY <3>1, <3>5 DEF Undone
    <3>7. Tell(file) = q - (IF file.unget = None THEN 0 ELSE 1)
      BY <3>1 DEF Tell
    <3>8. Pos(f) = Tell(file)
      BY <3>2, <3>3, <3>4, <3>6, <3>7
    <3> QED BY <1>2, <1>4, <2>2, <2>3, <2>5, <2>7, <3>8
  <2> QED BY <2>6, <2>7
<1> QED BY <1>6, <1>7

\* A full buffer is flushed, and the next record begins where it ended.
LEMMA NextStoring ==
  ASSUME Tamed, NEW f, NEW d, Storing(f, d), f.bufpos >= RecSize, Pos(f) < Limit,
         NEW e, e = FlushedDisk(f, d), NEW g, g = NextRec(Flushed(f, d), e)
  PROVE  /\ ~FlushFails(f, d) /\ Storing(g, e) /\ Shown(g, e) = Shown(f, d) /\ g.bufpos < RecSize
         /\ Pos(g) = Pos(f) /\ SameMode(g, f) /\ g.unget = f.unget /\ (Is(g, "eof") <=> Is(f, "eof"))
<1>1. Fine(f, d) /\ f.bufpos = RecSize /\ Is(f, "writing") /\ f \in FileType
  BY FullFine, StoringFacts DEF Storing
<1>2. PICK h : h = Flushed(f, d)
  OBVIOUS
<1>3. ~FlushFails(f, d)
  BY <1>1, FineFlush
<1>4. Fine(h, e) /\ Is(h, "writing") /\ ~Is(h, "dirty")
  BY <1>1, <1>2, FlushFine
<1>5. /\ h \in FileType /\ h.bufpos = RecSize /\ h.recno = f.recno /\ h.unget = f.unget
      /\ SameMode(h, f) /\ (Is(h, "eof") <=> Is(f, "eof"))
  BY <1>1, <1>2, FlushFile
<1>6. Fine(g, e) /\ Is(g, "writing") /\ ~Is(g, "dirty") /\ g.bufpos = 0
  BY <1>2, <1>4, <1>5, NextRecFine
<1>7. DiskOK(e)
  BY <1>4, FineFacts
<1>8. g.flags = h.flags /\ g.unget = h.unget /\ g.recno = NextNo(h.recno)
  BY <1>2, <1>5, <1>7, NextRecFacts
<1>9. SameMode(g, f) /\ (Is(g, "eof") <=> Is(f, "eof")) /\ g.unget = f.unget
  BY <1>5, <1>8 DEF SameMode, Is
<1>10. Shown(g, e) = Shown(f, d)
  <2>1. e = Now(f, d)
    BY <1>1, <1>3, FlushNow
  <2>2. Now(g, e) = e
    BY <1>2, <1>4, <1>5, <1>7, NextRecNow
  <2> QED BY <2>1, <2>2 DEF Shown
<1>11. Pos(g) = Pos(f)
  <2>1. PICK x, s : x = f.recno /\ s = RecSize
    OBVIOUS
  <2>2. x \in Nat /\ s \in Nat /\ 1 <= s /\ Pos(f) = x * s + s
    BY <1>1, <2>1, StoringFacts, Sizes
  <2>3. (x + 1) * s + 0 = x * s + s /\ x + 1 \in Nat
    BY <2>2
  <2>4. x + 1 < Capacity
    BY <2>1, <2>2, <2>3, InRoom
  <2>5. x \in 0 .. RecNos - 1 /\ x + 1 < RecNos
    BY <2>2, <2>4, TamedFacts, Sizes
  <2>6. g.recno = x + 1
    <3>1. g.recno = NextNo(x)
      BY <1>5, <1>8, <2>1
    <3>2. NextNo(x) = IF x = RecNos - 1 THEN 0 ELSE x + 1
      BY <2>5, NextPrev
    <3> QED BY <2>2, <2>5, <3>1, <3>2, Sizes
  <2>7. Pos(g) = (x + 1) * s + 0
    BY <1>6, <2>1, <2>6 DEF Pos
  <2> QED BY <2>2, <2>3, <2>7
<1>12. g.bufpos < RecSize
  BY <1>6, Sizes
<1> QED BY <1>3, <1>6, <1>9, <1>10, <1>11, <1>12, FineStoring

\* fputc of a stream that can write.
LEMMA PutMaps ==
  ASSUME Tamed, TamedInv, Is(file, "canWrite"), NEW c \in Chars, Fputc(c)
  PROVE  TamedInv' /\ Abstract!PutChar(c)
<1>1. /\ Open /\ pc = "idle" /\ MayPut /\ Agrees(file, mode) /\ mode # "closed"
      /\ file.unget \in 0 .. 255 /\ Is(file, "open")
  BY OpenFacts DEF Fputc, Ready
<1>2. there' = there /\ mode' = mode /\ pc' = pc
  BY DEF Fputc
<1>3. c \in 0 .. 255 /\ c # CtrlZ
  BY Sizes
<1>4. PICK f, p : /\ f = IF Is(file, "writing") THEN file ELSE ToWrite(file, recs)
                  /\ p = IF Is(file, "append") THEN Len(Text) ELSE Tell(file)
  OBVIOUS
<1>5. /\ Storing(f, recs) /\ Shown(f, recs) = Text /\ f.unget = None /\ ~Is(f, "eof")
      /\ SameMode(f, file) /\ Pos(f) = p /\ p < Limit
  BY <1>1, <1>4, ReadyToPut
<1>6. f \in FileType /\ Is(f, "writing")
  BY <1>5, StoringFacts DEF Storing
<1>7. PICK k, d : /\ Storing(k, d) /\ Shown(k, d) = Text /\ k.unget = None /\ ~Is(k, "eof")
                  /\ SameMode(k, file) /\ Pos(k) = p /\ k.bufpos < RecSize
                  /\ file' = Stored(k, c) /\ recs' = d /\ ret' = c
  <2>1. CASE f.bufpos >= RecSize
    <3>1. PICK e, g : e = FlushedDisk(f, recs) /\ g = NextRec(Flushed(f, recs), e)
      OBVIOUS
    <3>2. /\ ~FlushFails(f, recs) /\ Storing(g, e) /\ Shown(g, e) = Shown(f, recs)
          /\ g.bufpos < RecSize /\ Pos(g) = Pos(f) /\ SameMode(g, f) /\ g.unget = f.unget
          /\ (Is(g, "eof") <=> Is(f, "eof"))
      BY <1>5, <2>1, <3>1, NextStoring
    <3>3. file' = Stored(g, c) /\ recs' = e /\ ret' = c
      BY <1>4, <1>6, <2>1, <3>1, <3>2 DEF Fputc
    <3>4. SameMode(g, file)
      BY <1>5, <3>2 DEF SameMode
    <3> QED BY <1>5, <3>2, <3>3, <3>4
  <2>2. CASE ~(f.bufpos >= RecSize)
    <3>1. file' = Stored(f, c) /\ recs' = recs /\ ret' = c
      BY <1>4, <1>6, <2>2 DEF Fputc
    <3>2. f.bufpos < RecSize
      BY <1>6, <2>2, Sizes DEF FileType
    <3> QED BY <1>5, <3>1, <3>2
  <2> QED BY <2>1, <2>2
<1>8. PICK g, t, u : g = file' /\ t = Text /\ u = Shown(g, d)
  OBVIOUS
<1>9. /\ Fine(g, d) /\ Is(g, "writing") /\ p \in Nat /\ Pos(g) = p + 1 /\ Len(t) \in Nat
      /\ SameMode(g, k) /\ g.unget = None /\ ~Is(g, "eof")
      /\ (p >= Len(t) => Len(u) = p + 1) /\ u = WithByte(t, c, p)
  <2>1. /\ Storing(k, d) /\ k.bufpos < RecSize /\ c \in 0 .. 255 /\ c # CtrlZ
        /\ g = Stored(k, c) /\ t = Shown(k, d) /\ p = Pos(k) /\ p < Limit /\ u = Shown(g, d)
    BY <1>3, <1>5, <1>7, <1>8
  <2>2. /\ Fine(g, d) /\ Is(g, "writing") /\ p \in Nat /\ Pos(g) = p + 1 /\ Len(t) \in Nat
        /\ SameMode(g, k) /\ g.unget = k.unget /\ (Is(g, "eof") <=> Is(k, "eof"))
        /\ (p >= Len(t) => Len(u) = p + 1) /\ u = WithByte(t, c, p)
    BY <2>1, PutText
  <2> QED BY <1>7, <2>2
<1>10. SameMode(g, file)
  BY <1>7, <1>9 DEF SameMode
<1>11. Is(g, "append") => Pos(g) = Len(u)
  <2>1. Is(g, "append") => p = Len(t)
    BY <1>4, <1>8, <1>10 DEF SameMode
  <2> QED BY <1>9, <2>1
<1>12. Exactly(g, d, mode)
  BY <1>1, <1>8, <1>9, <1>10, <1>11, SameAgrees DEF Exactly, AtEnd
<1>13. TamedInv'
  BY <1>2, <1>7, <1>8, <1>12, FputcInv, OpenStep DEF TamedInv
<1>14. Text' = WithByte(t, c, p)
  BY <1>7, <1>8, <1>9, TextShown
<1>15. Is(g, "open") /\ Abstract!MayWrite(mode) /\ (Is(file, "append") <=> Abstract!Appends(mode))
  BY <1>1, <1>9, AgreesFacts DEF Fine
<1>16. p = IF Abstract!Appends(mode) THEN Len(Text) ELSE Abstract!Told
  <2>1. Abstract!Told = Tell(file)
    BY <1>1 DEF Abstract!Told, Abstract!NoBack, Tell
  <2> QED BY <1>4, <1>15, <2>1
<1>17. Abstract!Put(c, p) = WithByte(t, c, p)
  BY <1>8 DEF Abstract!Put, WithByte
<1>18. ~Abstract!Closed
  BY <1>1 DEF Abstract!Closed
<1>19. Open' /\ Pos(file') = p + 1 /\ file'.unget = None /\ ~Is(file', "eof")
  BY <1>8, <1>9, <1>15 DEF Open
<1>20. Abstract!PutChar(c)
  BY <1>1, <1>2, <1>7, <1>14, <1>15, <1>16, <1>17, <1>18, <1>19 DEF Abstract!PutChar, Abstract!NoBack
<1> QED BY <1>13, <1>20

\* fputc of a stream that cannot.
LEMMA PutFailsMaps ==
  ASSUME Tamed, TamedInv, ~Is(file, "canWrite"), NEW c \in Chars, Fputc(c)
  PROVE  TamedInv' /\ Abstract!PutChar(c)
<1>1. /\ Exactly(file, recs, mode) /\ Fine(file, recs) /\ file \in FileType /\ mode # "closed"
      /\ Is(file, "open") /\ pc = "idle" /\ DiskOK(recs) /\ Agrees(file, mode)
  BY OpenFacts DEF Fputc, Ready
<1>2. PICK g : g = file'
  OBVIOUS
<1>3. ~Is(file, "writing")
  BY <1>1, FineFacts DEF Shaped
<1>4. ToWrite(file, recs) = Raise(file, "error") /\ ~Is(Raise(file, "error"), "writing")
  BY <1>1, <1>3 DEF ToWrite, Is, Raise, FileType
<1>5. /\ g = Raise(file, "error") /\ recs' = recs /\ there' = there /\ mode' = mode /\ pc' = pc
      /\ ret' = EOF
  BY <1>2, <1>3, <1>4 DEF Fputc
<1>6. /\ g \in FileType /\ g.unget = file.unget /\ g.bufpos = file.bufpos
      /\ g.bufcnt = file.bufcnt /\ g.recno = file.recno /\ g.buf = file.buf
      /\ g.moved = file.moved /\ g.flags = file.flags \cup {"error"}
  BY <1>1, <1>5 DEF FileType, Raise, Flags
<1>7. SameMode(g, file) /\ (Is(g, "writing") <=> Is(file, "writing"))
      /\ (Is(g, "dirty") <=> Is(file, "dirty")) /\ (Is(g, "eof") <=> Is(file, "eof"))
  BY <1>6 DEF SameMode, Is
<1>8. Fine(g, recs) /\ Now(g, recs) = Now(file, recs) /\ Pos(g) = Pos(file)
  BY <1>1, <1>6, <1>7, SameFine, SameNow DEF Pos
<1>9. Exactly(g, recs, mode)
  BY <1>1, <1>7, <1>8, SameExactly DEF Shown
<1>10. TamedInv'
  BY <1>2, <1>5, <1>9, FputcInv, OpenStep DEF TamedInv
<1>11. Text' = Text
  BY <1>2, <1>5, <1>8, TextShown DEF Shown
<1>12. Is(g, "open") /\ ~Abstract!MayWrite(mode)
  BY <1>1, <1>8, AgreesFacts DEF Fine
<1>13. Abstract!PutChar(c)
  BY <1>1, <1>2, <1>5, <1>6, <1>7, <1>8, <1>11, <1>12
     DEF Abstract!PutChar, Abstract!Closed, Abstract!EOF, EOF, Open
<1> QED BY <1>10, <1>13
-----------------------------------------------------------------------------
(* fseek and rewind                                                         *)

\* The stream and the disk after the flush that comes first.
LEMMA SeekStart ==
  ASSUME Tamed, TamedInv, Open,
         NEW d, d = IF Is(file, "writing") THEN FlushedDisk(file, recs) ELSE recs,
         NEW g, g = IF Is(file, "writing") THEN Flushed(file, recs) ELSE file
  PROVE  /\ Fine(g, d) /\ Exactly(g, d, mode) /\ g \in FileType /\ ~Is(g, "dirty")
         /\ Shown(g, d) = Text /\ TextOf(d) = Text /\ Pos(g) = Pos(file)
         /\ g.unget = file.unget /\ SameMode(g, file) /\ (Is(g, "eof") <=> Is(file, "eof"))
<1>1. /\ Fine(file, recs) /\ Exactly(file, recs, mode) /\ file \in FileType /\ Text = Shown(file, recs)
  BY OpenFacts, TextShown
<1>2. CASE Is(file, "writing")
  <2>1. g = Flushed(file, recs) /\ d = FlushedDisk(file, recs) /\ ~FlushFails(file, recs)
    BY <1>1, <1>2, FineFlush
  <2>2. Fine(g, d) /\ Is(g, "writing") /\ ~Is(g, "dirty")
    BY <1>1, <1>2, <2>1, FlushFine
  <2>3. /\ g \in FileType /\ g.bufpos = file.bufpos /\ g.recno = file.recno /\ g.unget = file.unget
        /\ SameMode(g, file) /\ (Is(g, "eof") <=> Is(file, "eof"))
    BY <1>1, <2>1, FlushFile
  <2>4. d = Now(file, recs) /\ Now(g, d) = d
    BY <1>1, <1>2, <2>1, FlushNow
  <2>5. Shown(g, d) = Text /\ TextOf(d) = Text
    BY <1>1, <2>4 DEF Shown
  <2>6. Pos(g) = Pos(file)
    BY <1>2, <2>2, <2>3 DEF Pos
  <2>7. Exactly(g, d, mode)
    BY <1>1, <1>2, <2>2, <2>3, <2>5, <2>6, SameExactly
  <2> QED BY <2>2, <2>3, <2>5, <2>6, <2>7
<1>3. CASE ~Is(file, "writing")
  <2>1. g = file /\ d = recs
    BY <1>3
  <2>2. ~Is(file, "dirty")
    BY <1>1, <1>3 DEF Fine, Exact
  <2>3. Now(file, recs) = recs
    BY <1>3 DEF Now
  <2>4. SameMode(file, file)
    BY DEF SameMode
  <2> QED BY <1>1, <2>1, <2>2, <2>3, <2>4 DEF Shown
<1> QED BY <1>2, <1>3

\* The text with zeros after it.
WithZeros(t, k) == t \o [i \in 1 .. k |-> 0]

\* The stream at its new position.
LEMMA SeekPlaced ==
  ASSUME Tamed, NEW m, NEW k, NEW d, Fine(k, d), Agrees(k, m), NEW f \in FileType, f.flags = k.flags,
         ~Is(f, "dirty"), NEW to, to \in 0 .. MaxOffset,
         NEW e, e = IF Is(f, "canWrite") THEN GapFilled(d, to) ELSE d,
         \/ RecOf(to) < NumRecs(d)
         \/ /\ RecOf(to) = NumRecs(d)
            /\ OffOf(to) = 0 \/ (Is(f, "writing") /\ ~Is(f, "append")),
         NEW g, g = Placed(f, e, to), NEW t, t = TextOf(d)
  PROVE  /\ Exactly(g, e, m) /\ Pos(g) = to /\ g.unget = None /\ ~Is(g, "eof")
         /\ \E z \in Nat : /\ Shown(g, e) = WithZeros(t, z)
                           /\ z <= (IF Is(f, "canWrite") /\ to > Len(t) THEN to - Len(t) ELSE 0)
<1>1. /\ Fine(g, e) /\ Cur(g) = RecOf(to) /\ g.bufpos = OffOf(to) /\ g.unget = None
      /\ Is(g, "writing") => Is(f, "writing") /\ ~Is(f, "append")
      /\ SameMode(g, f) /\ ~Is(g, "eof") /\ ~Is(g, "dirty")
  BY PlacedFine
<1>2. to \in Nat
  BY Sizes
<1>3. Pos(g) = to
  <2>1. to = RecOf(to) * RecSize + OffOf(to)
    BY <1>2, DivMod
  <2> QED BY <1>1, <2>1, PosFacts
<1>4. SameMode(g, k)
  BY <1>1 DEF SameMode, Is
<1>5. AtEnd(g, e)
  BY <1>1 DEF AtEnd, SameMode
<1>6. Exactly(g, e, m)
  BY <1>1, <1>4, <1>5, SameAgrees DEF Exactly
<1>7. Shown(g, e) = TextOf(e)
  BY <1>1 DEF Shown, Now, Pending
<1>8. DiskOK(d) /\ Dense(d)
  BY FineFacts
<1>9. CASE Is(f, "canWrite")
  <2>1. e = GapFilled(d, to)
    BY <1>9
  <2>2. \E z \in Nat : /\ TextOf(e) = TextOf(d) \o [i \in 1 .. z |-> 0]
                       /\ z <= (IF to > Len(TextOf(d)) THEN to - Len(TextOf(d)) ELSE 0)
    BY <1>8, <2>1, GapText
  <2>3. \E z \in Nat : /\ Shown(g, e) = WithZeros(t, z)
                       /\ z <= (IF to > Len(t) THEN to - Len(t) ELSE 0)
    BY <1>7, <2>2 DEF WithZeros
  <2> QED BY <1>1, <1>3, <1>6, <1>9, <2>3
<1>10. CASE ~Is(f, "canWrite")
  <2>1. e = d
    BY <1>10
  <2>2. Solid(d, NumRecs(d)) /\ NumRecs(d) \in Nat
    BY <1>8, DenseSolid
  <2>3. t \in Seq(0 .. 255)
    BY <2>2, TextFacts
  <2>4. WithZeros(t, 0) = t
    <3>1. [i \in 1 .. 0 |-> 0] = <<>>
      OBVIOUS
    <3>2. t \o <<>> = t
      BY <2>3, ConcatEmptySeq
    <3> QED BY <3>1, <3>2 DEF WithZeros
  <2>5. Shown(g, e) = WithZeros(t, 0) /\ 0 \in Nat /\ 0 <= 0
    BY <1>7, <2>1, <2>4
  <2> QED BY <1>1, <1>3, <1>6, <1>10, <2>5
<1> QED BY <1>9, <1>10

LEMMA SeekMaps ==
  ASSUME Tamed, TamedInv, NEW off \in Int, NEW whence \in 0 .. 2, Seek(off, whence, 0, EOF)
  PROVE  TamedInv' /\ Abstract!SeekFrom(off)
<1>1. /\ Open /\ pc = "idle" /\ Agrees(file, mode) /\ mode # "closed"
      /\ file.unget \in 0 .. 255 /\ Is(file, "open") /\ Fine(file, recs)
  BY OpenFacts DEF Seek, Ready
<1>2. there' = there /\ mode' = mode /\ pc' = pc
  BY DEF Seek
<1>3. PICK d, g, f :
        /\ d = IF Is(file, "writing") THEN FlushedDisk(file, recs) ELSE recs
        /\ g = IF Is(file, "writing") THEN Flushed(file, recs) ELSE file
        /\ f = IF whence = 2 /\ NumRecs(d) # 0 THEN [g EXCEPT !.buf = d[NumRecs(d) - 1]] ELSE g
  OBVIOUS
<1>4. PICK to, e :
        /\ to = off + (CASE whence = 0 -> 0 [] whence = 1 -> Tell(f) [] whence = 2 -> Size(d))
        /\ e = IF Is(f, "canWrite") THEN GapFilled(d, to) ELSE d
  OBVIOUS
<1>5. /\ Tame(f, d, whence, to)
      /\ to \in 0 .. MaxOffset => recs' = e /\ file' = Placed(f, e, to) /\ ret' = 0
      /\ to \notin 0 .. MaxOffset => recs' = d /\ file' = f /\ ret' = EOF
  BY <1>3, <1>4 DEF Seek
<1>6. /\ Fine(g, d) /\ Exactly(g, d, mode) /\ g \in FileType /\ ~Is(g, "dirty")
      /\ Shown(g, d) = Text /\ TextOf(d) = Text /\ Pos(g) = Pos(file)
      /\ g.unget = file.unget /\ SameMode(g, file) /\ (Is(g, "eof") <=> Is(file, "eof"))
  BY <1>1, <1>3, SeekStart
<1>7. DiskOK(d) /\ Dense(d)
  BY <1>6, FineFacts
<1>8. f \in FileType /\ f.flags = g.flags /\ (whence # 2 => f = g)
  <2>1. CASE f = g
    BY <1>6, <2>1
  <2>2. CASE f = [g EXCEPT !.buf = d[NumRecs(d) - 1]] /\ whence = 2 /\ NumRecs(d) # 0
    <3>1. d[NumRecs(d) - 1] \in Record
      BY <1>7, <2>2, LastRecord
    <3> QED BY <1>6, <2>2, <3>1 DEF FileType
  <2> QED BY <1>3, <2>1, <2>2
<1>9. (Is(f, "canWrite") <=> Abstract!MayWrite(mode)) /\ ~Is(f, "dirty")
  <2>1. Is(g, "canWrite") <=> Is(file, "canWrite")
    BY <1>6 DEF SameMode
  <2> QED BY <1>1, <1>6, <1>8, <2>1, AgreesFacts DEF Is
<1>10. PICK t : t = Text
  OBVIOUS
<1>11. Len(t) \in Nat /\ Size(d) = Len(t)
  BY <1>6, <1>7, <1>10, DenseSolid
<1>12. Abstract!Told = Tell(file) /\ Tell(g) = Tell(file) /\ Tell(file) \in Int
  <2>1. Pos(file) \in Nat
    BY <1>1, PosFacts
  <2> QED BY <1>1, <1>6, <2>1 DEF Abstract!Told, Abstract!NoBack, Tell
<1>13. to \in {off, Abstract!Told + off, Len(t) + off}
  <2>1. CASE whence = 0
    BY <1>4, <2>1
  <2>2. CASE whence = 1
    <3>1. to = off + Tell(file)
      BY <1>4, <1>8, <1>12, <2>2
    <3> QED BY <1>12, <3>1
  <2>3. CASE whence = 2
    <3>1. to = off + Len(t)
      BY <1>4, <1>11, <2>3
    <3> QED BY <1>11, <3>1
  <2> QED BY <2>1, <2>2, <2>3
<1>14. TamedInv' /\ Abstract!Seek(to)
  <2>1. CASE to \in 0 .. MaxOffset
    <3>1. PICK h : h = Placed(f, e, to)
      OBVIOUS
    <3>2. \/ RecOf(to) < NumRecs(d)
          \/ /\ RecOf(to) = NumRecs(d)
             /\ OffOf(to) = 0 \/ (Is(f, "writing") /\ ~Is(f, "append"))
      BY <1>5, <2>1, TamedFacts DEF Tame, RecOf, OffOf
    <3>3. Agrees(g, mode)
      BY <1>6 DEF Exactly
    <3>4. /\ Exactly(h, e, mode) /\ Pos(h) = to /\ h.unget = None /\ ~Is(h, "eof")
          /\ \E z \in Nat : /\ Shown(h, e) = WithZeros(t, z)
                            /\ z <= (IF Is(f, "canWrite") /\ to > Len(t) THEN to - Len(t) ELSE 0)
      BY <1>4, <1>6, <1>8, <1>9, <1>10, <2>1, <3>1, <3>2, <3>3, SeekPlaced
    <3>5. file' = h /\ recs' = e /\ ret' = 0
      BY <1>5, <2>1, <3>1
    <3>6. TamedInv'
      BY <1>2, <3>4, <3>5, SeekInv, OpenStep DEF TamedInv
    <3>7. Text' = Shown(h, e)
      BY <3>5, TextShown
    <3>8. \E n \in 0 .. (IF Abstract!MayWrite(mode) /\ to > Len(Text) THEN to - Len(Text) ELSE 0) :
            Text' = Text \o Abstract!Zeros(n)
      <4>1. PICK z \in Nat : /\ Text' = WithZeros(t, z)
                             /\ z <= (IF Is(f, "canWrite") /\ to > Len(t) THEN to - Len(t) ELSE 0)
        BY <3>4, <3>7
      <4>2. to \in Nat
        BY <2>1, Sizes
      <4>3. z \in 0 .. (IF Is(f, "canWrite") /\ to > Len(t) THEN to - Len(t) ELSE 0)
        BY <1>11, <4>1, <4>2
      <4>4. WithZeros(t, z) = t \o Abstract!Zeros(z)
        BY DEF WithZeros, Abstract!Zeros
      <4> QED BY <1>9, <1>10, <4>1, <4>3, <4>4
    <3>9. Open' /\ Pos(file') = to /\ file'.unget = None /\ ~Is(file', "eof")
      BY <3>4, <3>5 DEF Open, Exactly, Fine
    <3>10. ~Abstract!Closed
      BY <1>1 DEF Abstract!Closed
    <3>11. Abstract!Seek(to)
      BY <1>1, <1>2, <2>1, <3>5, <3>8, <3>9, <3>10 DEF Abstract!Seek, Abstract!NoBack
    <3> QED BY <3>6, <3>11
  <2>2. CASE to \notin 0 .. MaxOffset
    <3>1. f = g
      BY <1>5, <1>8, <2>2, TamedFacts DEF Tame
    <3>2. file' = g /\ recs' = d /\ ret' = EOF
      BY <1>5, <2>2, <3>1
    <3>3. TamedInv'
      BY <1>2, <1>6, <3>2, SeekInv, OpenStep DEF TamedInv
    <3>4. Text' = Text
      BY <1>6, <3>2, TextShown
    <3>5. Open'
      BY <1>6, <3>2 DEF Open, Fine
    <3>6. Abstract!Seek(to)
      BY <1>1, <1>2, <1>6, <2>2, <3>2, <3>4, <3>5
         DEF Abstract!Seek, Abstract!Closed, Abstract!EOF, EOF
    <3> QED BY <3>3, <3>6
  <2> QED BY <2>1, <2>2
<1>15. Abstract!SeekFrom(off)
  BY <1>10, <1>13, <1>14 DEF Abstract!SeekFrom
<1> QED BY <1>14, <1>15
-----------------------------------------------------------------------------
(* fopen, freopen and fclose                                                *)

LEMMA EmptyText == TextOf(<<>>) = <<>>
<1>1. DOMAIN <<>> = {}
  OBVIOUS
<1>2. PICK l : l = 0
  OBVIOUS
<1>3. TextOf(<<>>) = [i \in 1 .. l |->
        LET r == (i - 1) \div RecSize
        IN IF r \in DOMAIN <<>> THEN <<>>[r][(i - 1) % RecSize] ELSE 0]
  BY <1>1, <1>2 DEF TextOf
<1>4. 1 .. l = {} /\ l = 0
  BY <1>2
<1>5. TextOf(<<>>) = [i \in 1 .. 0 |-> 0]
  BY <1>3, <1>4
<1> QED BY <1>5

\* What a stream that is not open shows are the records.
LEMMA ClosedShown ==
  ASSUME NEW f, NEW d, Good(f, d), ~Is(f, "open")
  PROVE  Shown(f, d) = TextOf(d)
BY DEF Good, Shown, Now, Is

\* __fopen_at, of a stream that is closed.
LEMMA OpenedFine ==
  ASSUME Tamed, NEW f, NEW d, Good(f, d), ~Is(f, "open"), NEW m \in Modes, OpenAt(f, d, m)
  PROVE  /\ mode' = "closed" <=> ~Open'
         /\ Open' => /\ Exactly(file', recs', mode') /\ Pos(file') = 0 /\ file'.unget = None
                     /\ ~Is(file', "eof")
         /\ \/ /\ there \/ Abstract!Creates(m)
               /\ there' = TRUE /\ mode' = m /\ ret' = 1
               /\ Text' = IF Abstract!Truncates(m) THEN <<>> ELSE TextOf(d)
            \/ /\ ~there /\ there' = FALSE /\ mode' = "closed" /\ ret' = 0
               /\ Text' = TextOf(d)
<1>1. PICK g, e : g = file' /\ e = recs'
  OBVIOUS
<1>2. Good(g, e) /\ (mode' = "closed" <=> ~Is(g, "open"))
  BY <1>1, OpenGood
<1>3. /\ m \in {"r", "w", "a", "r+", "w+", "a+"} /\ m # "closed"
      /\ "writing" \in ModeFlags[m] <=> Abstract!Truncates(m)
      /\ ModeFlags[m] \cap {"writing", "append"} # {} <=> Abstract!Creates(m)
      /\ "writing" \in ModeFlags[m] => "append" \notin ModeFlags[m]
      /\ ModeFlags[m] \subseteq Flags \ {"open", "eof", "error", "dirty"}
  <2>1. m \in {"r", "w", "a", "r+", "w+", "a+"}
    BY Sizes
  <2> QED BY <2>1, ModeFacts
          DEF ModeFlags, Abstract!Truncates, Abstract!Creates, Abstract!Appends
<1>4. f \in FileType
  BY DEF Good
<1>5. PICK k : k = [f EXCEPT !.flags = {}, !.unget = None, !.bufpos = 0, !.bufcnt = 0,
                             !.moved = FALSE, !.recno = 0]
  OBVIOUS
<1>6. /\ k.flags = {} /\ k.unget = None /\ k.bufpos = 0 /\ k.bufcnt = 0 /\ k.recno = 0
      /\ DOMAIN k = DOMAIN f /\ "flags" \in DOMAIN k
  BY <1>4, <1>5 DEF FileType
<1>7. CASE /\ there \/ ModeFlags[m] \cap {"writing", "append"} # {}
           /\ there' = TRUE /\ e = IF "writing" \in ModeFlags[m] THEN <<>> ELSE d
           /\ g = [k EXCEPT !.flags = ModeFlags[m] \cup {"open"}]
           /\ mode' = m /\ ret' = 1
  <2>1. /\ g.flags = ModeFlags[m] \cup {"open"} /\ g.unget = None /\ g.bufpos = 0
        /\ g.bufcnt = 0 /\ g.recno = 0
    BY <1>4, <1>5, <1>7 DEF FileType
  <2>2. /\ Is(g, "open") /\ ~Is(g, "dirty") /\ ~Is(g, "eof")
        /\ \A x \in {"canRead", "canWrite", "append", "writing"} : Is(g, x) <=> x \in ModeFlags[m]
    BY <1>3, <2>1 DEF Is
  <2>3. Fine(g, e)
    BY <1>2, <2>1, <2>2 DEF Fine, Exact, Blank
  <2>4. Pos(g) = 0
    <3>1. Cur(g) = 0
      BY <2>1 DEF Cur
    <3>2. PICK s : s = RecSize
      OBVIOUS
    <3>3. s \in Nat /\ Pos(g) = 0 * s + 0
      BY <2>1, <2>3, <3>1, <3>2, PosFacts, Sizes
    <3> QED BY <3>3
  <2>5. Agrees(g, m) /\ AtEnd(g, e)
    BY <1>3, <2>2 DEF Agrees, AtEnd
  <2>6. Shown(g, e) = TextOf(e)
    BY <2>2 DEF Shown, Now, Pending
  <2>7. TextOf(e) = IF Abstract!Truncates(m) THEN <<>> ELSE TextOf(d)
    BY <1>3, <1>7, EmptyText
  <2>8. Text' = IF Abstract!Truncates(m) THEN <<>> ELSE TextOf(d)
    BY <1>1, <2>6, <2>7, TextShown
  <2>9. Exactly(g, e, m)
    BY <2>3, <2>5 DEF Exactly
  <2> QED BY <1>1, <1>2, <1>3, <1>7, <2>1, <2>2, <2>4, <2>8, <2>9 DEF Open
<1>8. CASE ~there /\ there' = FALSE /\ e = d /\ g = k /\ mode' = "closed" /\ ret' = 0
  <2>1. ~Is(g, "open")
    BY <1>2, <1>8
  <2>2. Text' = TextOf(d)
    BY <1>1, <1>2, <1>8, <2>1, ClosedShown, TextShown
  <2> QED BY <1>1, <1>8, <2>1, <2>2 DEF Open
<1> QED BY <1>1, <1>5, <1>7, <1>8 DEF OpenAt

\* The abstract step, when the records hold the text before it.
LEMMA BecomeMaps ==
  ASSUME Tamed, NEW f, NEW d, Good(f, d), ~Is(f, "open"), TextOf(d) = Text, there \in BOOLEAN,
         NEW m \in Modes, OpenAt(f, d, m), pc = "idle", pc' = pc
  PROVE  Abstract!Become(m) /\ (Open' => Exactly(file', recs', mode'))
<1>1. PICK t : t = TextOf(d)
  OBVIOUS
<1>2. /\ mode' = "closed" <=> ~Open'
      /\ Open' => /\ Exactly(file', recs', mode') /\ Pos(file') = 0 /\ file'.unget = None
                  /\ ~Is(file', "eof")
      /\ \/ /\ there \/ Abstract!Creates(m)
            /\ there' = TRUE /\ mode' = m /\ ret' = 1
            /\ Text' = IF Abstract!Truncates(m) THEN <<>> ELSE t
         \/ /\ ~there /\ there' = FALSE /\ mode' = "closed" /\ ret' = 0
            /\ Text' = t
  BY <1>1, OpenedFine
<1>3. Abstract!Become(m)
  BY <1>1, <1>2 DEF Abstract!Become, Abstract!NoBack
<1> QED BY <1>2, <1>3

LEMMA FopenMaps ==
  ASSUME Tamed, TamedInv, NEW m \in Modes, Fopen(m)
  PROVE  TamedInv' /\ Abstract!Open(m)
<1>1. Good(file, recs) /\ ~Is(file, "open") /\ there \in BOOLEAN /\ mode = "closed"
  BY DEF TamedInv, Inv, Fopen, Open
<1>2. pc = "idle" /\ pc' = pc /\ OpenAt(file, recs, m)
  BY DEF Fopen
<1>3. TextOf(recs) = Text
  BY <1>1, ClosedShown, TextShown
<1>4. Abstract!Become(m) /\ (Open' => Exactly(file', recs', mode'))
  BY <1>1, <1>2, <1>3, BecomeMaps
<1>5. TamedInv'
  BY <1>4, FopenInv DEF TamedInv
<1> QED BY <1>1, <1>4, <1>5 DEF Abstract!Open, Abstract!Closed

\* The flush of fclose leaves the text.
LEMMA ClosedText ==
  ASSUME Tamed, TamedInv, Open, NEW f, f = ClosedFile(file, recs),
         NEW d, d = ClosedDisk(file, recs)
  PROVE  Good(f, d) /\ ~Is(f, "open") /\ TextOf(d) = Text
<1>1. d = IF Is(file, "writing") THEN FlushedDisk(file, recs) ELSE recs
  BY DEF ClosedDisk
<1>2. PICK g : g = IF Is(file, "writing") THEN Flushed(file, recs) ELSE file
  OBVIOUS
<1>3. TextOf(d) = Text
  BY <1>1, <1>2, SeekStart
<1>4. Good(file, recs) /\ Is(file, "open")
  BY OpenFacts DEF Fine
<1> QED BY <1>3, <1>4, ClosedGood

LEMMA FreopenMaps ==
  ASSUME Tamed, TamedInv, NEW m \in Modes, Freopen(m)
  PROVE  TamedInv' /\ Abstract!Reopen(m)
<1>1. Open /\ pc = "idle" /\ pc' = pc /\ OpenAt(ClosedFile(file, recs), ClosedDisk(file, recs), m)
  BY DEF Freopen, Ready
<1>2. there \in BOOLEAN /\ mode # "closed"
  BY <1>1, OpenFacts DEF TamedInv, Inv
<1>3. PICK f, d : f = ClosedFile(file, recs) /\ d = ClosedDisk(file, recs)
  OBVIOUS
<1>4. Good(f, d) /\ ~Is(f, "open") /\ TextOf(d) = Text
  BY <1>1, <1>3, ClosedText
<1>5. OpenAt(f, d, m)
  BY <1>1, <1>3
<1>6. Abstract!Become(m) /\ (Open' => Exactly(file', recs', mode'))
  BY <1>1, <1>2, <1>4, <1>5, BecomeMaps
<1>7. TamedInv'
  BY <1>6, FreopenInv DEF TamedInv
<1> QED BY <1>1, <1>2, <1>6, <1>7 DEF Abstract!Reopen, Abstract!Closed

LEMMA FcloseMaps ==
  ASSUME Tamed, TamedInv, Fclose
  PROVE  TamedInv' /\ Abstract!Close
<1>1. Open /\ pc = "idle" /\ pc' = pc /\ there' = there /\ mode' = "closed" /\ ret' = 0
  BY DEF Fclose, Ready
<1>2. mode # "closed"
  BY <1>1, OpenFacts
<1>3. PICK f, d : f = ClosedFile(file, recs) /\ d = ClosedDisk(file, recs)
  OBVIOUS
<1>4. Good(f, d) /\ ~Is(f, "open") /\ TextOf(d) = Text
  BY <1>1, <1>3, ClosedText
<1>5. file' = f /\ recs' = d
  BY <1>3 DEF Fclose
<1>6. ~Open' /\ Text' = Text
  BY <1>4, <1>5, ClosedShown, TextShown DEF Open
<1>7. TamedInv'
  BY <1>6, FcloseInv DEF TamedInv
<1>8. Abstract!Close
  BY <1>1, <1>2, <1>6 DEF Abstract!Close, Abstract!Closed, Abstract!NoBack
<1> QED BY <1>7, <1>8
-----------------------------------------------------------------------------
(* The refinement.                                                          *)

LEMMA TamedInit ==
  ASSUME Init
  PROVE  TamedInv /\ Abstract!Init
<1>1. ~Open
  BY DEF Init, Open, Is
<1>2. TamedInv
  BY <1>1, InitInv DEF TamedInv
<1>3. Abstract!Init
  BY <1>1 DEF Init, Abstract!Init, Abstract!NoBack
<1> QED BY <1>2, <1>3

LEMMA TamedStutter ==
  ASSUME TamedInv, UNCHANGED vars
  PROVE  TamedInv' /\ UNCHANGED Abstract!vars
<1>1. /\ there' = there /\ recs' = recs /\ file' = file /\ mode' = mode /\ pc' = pc /\ ret' = ret
  BY DEF vars, disk
<1>2. TamedInv'
  <2>1. Inv'
    BY StutterInv DEF TamedInv
  <2>2. Open' => Open
    BY <1>1 DEF Open
  <2>3. CASE Open
    BY <1>1, <2>1, <2>3, OpenStep DEF TamedInv
  <2>4. CASE ~Open
    BY <2>1, <2>2, <2>4 DEF TamedInv
  <2> QED BY <2>3, <2>4
<1>3. UNCHANGED Abstract!vars
  <2>1. Text' = Text
    BY <1>1, TextShown
  <2>2. Open' <=> Open
    BY <1>1 DEF Open
  <2> QED BY <1>1, <2>1, <2>2 DEF Abstract!vars
<1> QED BY <1>2, <1>3

\* Every step of the tamed program is one of TextFile, or leaves it as it is.
LEMMA TamedStep ==
  ASSUME Tamed, TamedInv, [Next]_vars
  PROVE  TamedInv' /\ [Abstract!Next]_(Abstract!vars)
<1>1. CASE UNCHANGED vars
  BY <1>1, TamedStutter
<1>2. ASSUME NEW m \in Modes, Fopen(m) \/ Freopen(m) PROVE TamedInv' /\ Abstract!Next
  <2>1. m \in Abstract!AllModes
    BY Sizes DEF Abstract!AllModes
  <2>2. TamedInv' /\ (Abstract!Open(m) \/ Abstract!Reopen(m))
    BY <1>2, FopenMaps, FreopenMaps
  <2> QED BY <2>1, <2>2 DEF Abstract!Next
<1>3. CASE Fclose
  BY <1>3, FcloseMaps DEF Abstract!Next
<1>4. CASE FgetcFails
  BY <1>4, FgetcFailsMaps DEF Abstract!Next
<1>5. CASE Fgetc
  BY <1>5, FgetcMaps DEF Abstract!Next
<1>6. CASE FgetcRefill
  BY <1>6, FgetcRefillMaps
<1>7. CASE FgetcEnd
  BY <1>7, FgetcEndMaps DEF Abstract!Next
<1>8. CASE FgetcSkip \/ FgetcByte
  BY <1>8, PassMaps DEF Abstract!Next
<1>9. ASSUME NEW c \in Backs, Ungetc(c) PROVE TamedInv' /\ Abstract!Next
  BY <1>9, UngetcMaps DEF Abstract!Next
<1>10. ASSUME NEW c \in Chars, Fputc(c) PROVE TamedInv' /\ Abstract!Next
  BY <1>10, PutMaps, PutFailsMaps DEF Abstract!Next
<1>11. CASE Fflush
  BY <1>11, FflushMaps DEF Abstract!Next
<1>12. CASE Clearerr
  BY <1>12, ClearerrMaps DEF Abstract!Next
<1>13. CASE Ftell
  BY <1>13, FtellMaps DEF Abstract!Next
<1>14. ASSUME NEW off \in Offsets, NEW whence \in 0 .. 2, Fseek(off, whence)
       PROVE  TamedInv' /\ Abstract!Next
  <2>1. off \in Int /\ Seek(off, whence, 0, EOF)
    BY <1>14, StreamAssumption DEF Fseek
  <2>2. TamedInv' /\ Abstract!SeekFrom(off)
    BY <2>1, SeekMaps
  <2> QED BY <2>2 DEF Abstract!Next
<1>15. ASSUME NEW off \in Offsets, Fsetpos(off) PROVE FALSE
  BY <1>15, TamedFacts DEF Fsetpos
<1>16. CASE Rewind
  BY <1>14, <1>16, TamedFacts DEF Rewind
<1> QED BY <1>1, <1>2, <1>3, <1>4, <1>5, <1>6, <1>7, <1>8, <1>9, <1>10, <1>11, <1>12, <1>13,
           <1>14, <1>15, <1>16 DEF Next, Loop

\* "r+", "a+" and every other mode, with any mixture of the calls: what the
\* documentation says of a FILE (docs/exit_and_files.md) is what the program
\* gets from records, buffers, the two states and the Ctrl-Z fill, as long as it
\* makes the tame calls and the disk has room for what it writes.
THEOREM StreamImplements ==
  ASSUME Tamed
  PROVE  Spec => ImplementsTextFile
<1>1. Init => TamedInv /\ Abstract!Init
  BY TamedInit
<1>2. TamedInv /\ [Next]_vars => TamedInv' /\ [Abstract!Next]_(Abstract!vars)
  BY TamedStep
<1> QED BY <1>1, <1>2, PTL DEF Spec, ImplementsTextFile, Abstract!Spec

-----------------------------------------------------------------------------
(* fgetc returns: what is left to read falls at each turn of its loop.       *)

\* The records whose number is not behind, and the bytes left in the buffer.
TurnsLeft == (RecNos - file.recno) * (RecSize + 1) + (RecSize - file.bufpos)

\* On a file that does not use every record number, fgetc's search for a
\* character goes through the buffer and then to a higher record: a file of
\* carriage returns alone does not hold it for ever.
THEOREM FgetcMovesOn ==
  ASSUME NoHoles
  PROVE  Spec => [][Loop /\ pc' = "getc" =>
                      TurnsLeft' \in Nat /\ TurnsLeft \in Nat /\ TurnsLeft' < TurnsLeft]_vars
<1>1. ASSUME Inv, Loop, pc' = "getc"
      PROVE  TurnsLeft' \in Nat /\ TurnsLeft \in Nat /\ TurnsLeft' < TurnsLeft
  <2>1. PICK p, r, c : p = file.bufpos /\ r = file.recno /\ c = file.bufcnt
    OBVIOUS
  <2>2. PICK m, n : m = RecNos /\ n = RecSize
    OBVIOUS
  <2>3. file \in FileType /\ Dense(recs) /\ DiskOK(recs)
    BY <1>1 DEF Inv, Good
  <2>4. p \in 0 .. n /\ c \in 0 .. n /\ r \in 0 .. m - 1 /\ m \in Nat /\ n \in Nat
    BY <2>1, <2>2, <2>3, Sizes DEF FileType
  <2>5. (m - r) * (n + 1) \in Nat
    BY <2>4
  <2>6. CASE FgetcRefill
    <3>1. /\ r \in DOMAIN recs
          /\ file' = [file EXCEPT !.buf = recs[file.recno], !.recno = NextNo(@),
                                  !.bufpos = 0, !.bufcnt = RecSize]
      BY <2>1, <2>6 DEF FgetcRefill
    <3>2. NumRecs(recs) \in Nat /\ r < NumRecs(recs) /\ NumRecs(recs) < m
      <4>1. NumRecs(recs) \in 0 .. m - 1
        BY <2>2, <2>3, LastRecord
      <4> QED BY <2>3, <2>4, <3>1, <4>1 DEF Dense
    <3>3. NextNo(r) = r + 1 /\ r + 1 < m
      BY <2>2, <2>4, <3>2, NextPrev
    <3>4. file'.recno = r + 1 /\ file'.bufpos = 0
      BY <2>1, <2>3, <3>1, <3>3 DEF FileType
    <3>5. (m - (r + 1)) * (n + 1) = (m - r) * (n + 1) - (n + 1) /\ (m - (r + 1)) * (n + 1) \in Nat
      BY <2>4, <3>3
    <3>6. TurnsLeft = (m - r) * (n + 1) + (n - p) /\ TurnsLeft' = (m - (r + 1)) * (n + 1) + n
      BY <2>1, <2>2, <2>4, <3>4 DEF TurnsLeft
    <3> QED BY <2>4, <2>5, <3>5, <3>6
  <2>7. CASE FgetcSkip
    <3>1. p < c /\ file' = [file EXCEPT !.bufpos = p + 1]
      BY <2>1, <2>7 DEF FgetcSkip, Looks
    <3>2. file'.recno = r /\ file'.bufpos = p + 1
      BY <2>1, <2>3, <3>1 DEF FileType
    <3>3. TurnsLeft = (m - r) * (n + 1) + (n - p) /\ TurnsLeft' = (m - r) * (n + 1) + (n - (p + 1))
      BY <2>1, <2>2, <3>2 DEF TurnsLeft
    <3> QED BY <2>4, <2>5, <3>1, <3>3
  <2> QED BY <1>1, <2>6, <2>7 DEF Loop, FgetcEnd, FgetcByte
<1>2. Inv /\ [Next]_vars =>
        [Loop /\ pc' = "getc" =>
           TurnsLeft' \in Nat /\ TurnsLeft \in Nat /\ TurnsLeft' < TurnsLeft]_vars
  BY <1>1
<1> QED BY <1>2, SpecInv, PTL DEF Spec
=============================================================================
