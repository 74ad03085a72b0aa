------------------------------ MODULE Stream ------------------------------
(***************************************************************************)
(* A FILE of the C library over the random access calls of the BDOS:       *)
(* lc_fopen.mac, lc_fclose.mac, lc_freopen.mac, lc_fgetc.mac, lc_ungetc,   *)
(* lc_fputc.mac, lc_fflush*.mac, lc_ftoread.mac, lc_ftowrite.mac,          *)
(* lc_floadrec.mac, lc_fseek.mac, lc_ftell.mac, lc_fsetpos.mac and         *)
(* lc_clearerr.mac of src/src/uc80/lib/lc.                                 *)
(*                                                                         *)
(* A stream is in one of two states.  Reading: recno is the NEXT record,   *)
(* and the buffer holds the one before it unless bufcnt is 0.  Writing:    *)
(* recno is the record IN the buffer, bufcnt is its high water mark, and   *)
(* "dirty" says that it differs from the disk.                             *)
(*                                                                         *)
(* The disk is external: records that exist, and room for Capacity of      *)
(* them.  A call is one step, but for fgetc's search for a character that  *)
(* is no carriage return, where each turn of the loop is a step.           *)
(***************************************************************************)
EXTENDS Integers, Sequences, FiniteSets, FiniteSetsExt

CONSTANTS RecSize,    \* bytes of a record (128)
          RecNos,     \* r0 r1 count modulo this (65536)
          MaxOffset,  \* the greatest position fseek accepts (8388607)
          Capacity,   \* the records the disk has room for
          Modes,      \* the modes the program opens with
          Chars,      \* the characters it writes
          Backs,      \* the characters it pushes back
          Offsets,    \* the offsets it gives to fseek
          Files,      \* what the file may hold at start
          Limit,      \* bound: the program writes below this position
          Wild        \* the calls outside the tame ones (see Tame) it makes

CtrlZ == 26
CR == 13
None == 255           \* unget: no pushed back character
EOF == -1
Offs == 0 .. RecSize - 1

Flags == {"open", "eof", "error", "writing", "canRead", "canWrite", "append", "dirty"}
WildCalls == {"readWriteOnly", "seekFails", "hole", "writeBack", "setpos"}

ASSUME StreamAssumption ==
  /\ RecSize \in 1 .. 128 /\ RecNos \in Nat \ {0} /\ Capacity \in 1 .. RecNos
  /\ MaxOffset \in Nat /\ MaxOffset < RecSize * RecNos /\ Limit \in Nat
  /\ Modes \subseteq {"r", "w", "a", "r+", "w+", "a+"}
  /\ Chars \subseteq 0 .. 255 \ {CtrlZ} /\ Backs \subseteq 0 .. 255
  /\ Offsets \subseteq Int /\ Wild \subseteq WildCalls
  /\ \A t \in Files : t \in Seq(0 .. 255 \ {CtrlZ}) /\ Len(t) <= RecSize * Capacity

VARIABLES there,      \* the directory has the file
          recs,       \* its records: a function on the numbers of those written
          file,       \* the FILE structure
          mode,       \* history: the mode the stream was opened with, or "closed"
          pc,         \* "idle", or "getc" inside fgetc's loop
          ret         \* the result of the last call

disk == <<there, recs>>
vars == <<disk, file, mode, pc, ret>>

-----------------------------------------------------------------------------
(* The disk.                                                                *)

RecordsOf(text) ==
  [r \in 0 .. ((Len(text) + RecSize - 1) \div RecSize) - 1 |->
     [i \in Offs |-> IF r * RecSize + i < Len(text) THEN text[r * RecSize + i + 1] ELSE CtrlZ]]

\* Record r written: it holds b.
Written(d, r, b) == [x \in DOMAIN d \cup {r} |-> IF x = r THEN b ELSE d[x]]

HasRoom(d, r) == r \in DOMAIN d \/ Cardinality(DOMAIN d) < Capacity

\* BDOS 35, the way every caller reads it: r0 r1 alone
NumRecs(d) == (IF DOMAIN d = {} THEN 0 ELSE Max(DOMAIN d) + 1) % RecNos

-----------------------------------------------------------------------------
(* The FILE.                                                                *)

Is(f, flag) == flag \in f.flags
Raise(f, flag) == [f EXCEPT !.flags = @ \cup {flag}]
Drop(f, flag) == [f EXCEPT !.flags = @ \ {flag}]
NextNo(r) == (r + 1) % RecNos
PrevNo(r) == (r - 1) % RecNos

Valid(f) == IF f.bufpos >= f.bufcnt THEN f.bufpos ELSE f.bufcnt
Padded(f) == [i \in Offs |-> IF i < Valid(f) THEN f.buf[i] ELSE CtrlZ]

Pending(f) == Is(f, "dirty") /\ Valid(f) # 0

\* _fflush_internal
FlushFails(f, d) == Pending(f) /\ ~HasRoom(d, f.recno)
FlushedDisk(f, d) ==
  IF Pending(f) /\ HasRoom(d, f.recno) THEN Written(d, f.recno, Padded(f)) ELSE d
Flushed(f, d) ==
  LET g == IF Pending(f) THEN [f EXCEPT !.buf = Padded(f)] ELSE f
  IN IF FlushFails(f, d) THEN Raise(g, "error") ELSE Drop(g, "dirty")

\* _file_loadrec
LoadRec(f, d) ==
  IF f.recno \in DOMAIN d THEN [f EXCEPT !.buf = d[f.recno], !.bufcnt = RecSize]
                          ELSE [f EXCEPT !.bufcnt = 0]

\* _file_nextrec
NextRec(f, d) ==
  LET g == [f EXCEPT !.bufpos = 0, !.bufcnt = 0, !.recno = NextNo(@)]
  IN IF Is(g, "canRead") \/ g.moved THEN LoadRec(g, d) ELSE g

\* The place of the first Ctrl-Z of a record, and the length of a record
\* without the Ctrl-Z at its end.
FirstZ(rec) == Min({i \in Offs : rec[i] = CtrlZ} \cup {RecSize})
DataLen(rec) == Min({n \in 0 .. RecSize : \A i \in Offs : i >= n => rec[i] = CtrlZ})

\* _file_toend
ToEnd(f, d) ==
  IF NumRecs(d) = 0 THEN [f EXCEPT !.recno = 0, !.bufpos = 0, !.bufcnt = 0]
  ELSE LET g == LoadRec([f EXCEPT !.recno = NumRecs(d) - 1], d)
       IN [g EXCEPT !.bufpos = IF g.bufcnt = 0 THEN 0 ELSE FirstZ(g.buf)]

\* _file_towrite: an append mode goes to the end of the data; else the record
\* before recno becomes the record in the buffer, or recno is read.
ToWriteLosesRecord(f, d) ==
  IF ~Is(f, "canWrite") THEN Raise(f, "error")
  ELSE LET g == [Drop(f, "eof") EXCEPT
                   !.unget = None,
                   !.bufpos = IF f.unget # None /\ @ > 0 THEN @ - 1 ELSE @]
       IN Raise(CASE Is(g, "append") -> ToEnd(g, d)
                  [] ~Is(g, "append") /\ g.bufcnt = 0 -> g
                  [] ~Is(g, "append") /\ g.bufcnt # 0 -> [g EXCEPT !.recno = PrevNo(@)],
                "writing")

ToWrite(f, d) ==
  IF ~Is(f, "canWrite") THEN Raise(f, "error")
  ELSE LET g == [Drop(f, "eof") EXCEPT
                   !.unget = None,
                   !.bufpos = IF f.unget # None /\ @ > 0 THEN @ - 1 ELSE @]
       IN Raise(CASE Is(g, "append") -> ToEnd(g, d)
                  [] ~Is(g, "append") /\ g.bufcnt = 0 -> LoadRec(g, d)
                  [] ~Is(g, "append") /\ g.bufcnt # 0 -> [g EXCEPT !.recno = PrevNo(@)],
                "writing")

\* _file_toread: flush, then the buffer is the record before recno.
ToRead(f, d) ==
  IF ~Is(f, "canRead") THEN Raise(f, "error")
  ELSE LET g == Flushed(f, d)
       IN IF FlushFails(f, d) THEN g
          ELSE Drop(IF Valid(g) = 0 THEN g
                    ELSE [g EXCEPT !.buf = Padded(g), !.recno = NextNo(@), !.bufcnt = RecSize],
                    "writing")

\* _ftell_pos, without and with the pushed back character
Pos(f) ==
  CASE Is(f, "writing") -> f.recno * RecSize + f.bufpos
    [] ~Is(f, "writing") /\ f.bufcnt # 0 -> PrevNo(f.recno) * RecSize + f.bufpos
    [] ~Is(f, "writing") /\ f.bufcnt = 0 -> f.recno * RecSize
Tell(f) == Pos(f) - (IF f.unget = None THEN 0 ELSE 1)

\* _fsize
Size(d) ==
  IF NumRecs(d) = 0 THEN 0
  ELSE (NumRecs(d) - 1) * RecSize + FirstZ(d[NumRecs(d) - 1])

\* The data of the file, with the record the stream has not written yet: the
\* records before the last one, and that one up to its first Ctrl-Z.
Whole ==
  IF Is(file, "writing") /\ Pending(file) THEN Written(recs, file.recno, Padded(file)) ELSE recs
TextOf(w) ==
  LET last == Max(DOMAIN w)
      length == IF DOMAIN w = {} THEN 0 ELSE last * RecSize + FirstZ(w[last])
  IN [i \in 1 .. length |->
        LET r == (i - 1) \div RecSize
        IN IF r \in DOMAIN w THEN w[r][(i - 1) % RecSize] ELSE 0]
Text == TextOf(Whole)

Open == Is(file, "open")
Ready == pc = "idle" /\ Open

Init ==
  /\ \/ there = FALSE /\ recs = <<>>
     \/ there = TRUE /\ \E t \in Files : recs = RecordsOf(t)
  /\ file = [flags |-> {}, unget |-> 0, bufpos |-> 0, bufcnt |-> 0, moved |-> FALSE,
             recno |-> 0, buf |-> [i \in Offs |-> 0]]
  /\ mode = "closed" /\ pc = "idle" /\ ret = 0

-----------------------------------------------------------------------------
(* fopen, fclose, freopen                                                   *)

ModeFlags ==
  [m \in {"r", "w", "a", "r+", "w+", "a+"} |->
     CASE m = "r"  -> {"canRead"}
       [] m = "w"  -> {"canWrite", "writing"}
       [] m = "a"  -> {"canWrite", "append"}
       [] m = "r+" -> {"canRead", "canWrite"}
       [] m = "w+" -> {"canRead", "canWrite", "writing"}
       [] m = "a+" -> {"canRead", "canWrite", "append"}]

\* __fopen_at over the FILE f and the records d: w deletes and makes the
\* file, a opens or makes it, r only opens it.  The directory may have no room
\* for a file that is not there.
OpenAt(f, d, m) ==
  LET fresh == [f EXCEPT !.flags = {}, !.unget = None, !.bufpos = 0, !.bufcnt = 0,
                         !.moved = FALSE, !.recno = 0]
  IN \/ /\ there \/ ModeFlags[m] \cap {"writing", "append"} # {}
        /\ there' = TRUE /\ recs' = IF "writing" \in ModeFlags[m] THEN <<>> ELSE d
        /\ file' = [fresh EXCEPT !.flags = ModeFlags[m] \cup {"open"}]
        /\ mode' = m /\ ret' = 1
     \/ /\ ~there
        /\ there' = FALSE /\ recs' = d
        /\ file' = fresh
        /\ mode' = "closed" /\ ret' = 0

CloseLeavesFlags(f, d) == IF Is(f, "writing") THEN Flushed(f, d) ELSE f
ClosedFile(f, d) == [(IF Is(f, "writing") THEN Flushed(f, d) ELSE f) EXCEPT !.flags = {}]
ClosedDisk(f, d) == IF Is(f, "writing") THEN FlushedDisk(f, d) ELSE d

Fopen(m) ==
  /\ pc = "idle" /\ ~Open
  /\ OpenAt(file, recs, m)
  /\ UNCHANGED pc

Fclose ==
  /\ Ready
  /\ file' = ClosedFile(file, recs) /\ recs' = ClosedDisk(file, recs)
  /\ mode' = "closed" /\ ret' = 0
  /\ UNCHANGED <<there, pc>>

Freopen(m) ==
  /\ Ready
  /\ OpenAt(ClosedFile(file, recs), ClosedDisk(file, recs), m)
  /\ UNCHANGED pc

-----------------------------------------------------------------------------
(* fgetc                                                                    *)

\* A stream that cannot read fails only in the writing state.
FgetcFails ==
  /\ Ready /\ Is(file, "writing")
  /\ Is(ToRead(file, recs), "writing")
  /\ file' = ToRead(file, recs) /\ ret' = EOF
  /\ UNCHANGED <<disk, mode, pc>>

\* Up to the loop: the change of state, the pushed back character, the end.
Fgetc ==
  LET turns == Is(file, "writing")
      f == IF turns THEN ToRead(file, recs) ELSE file
  IN /\ Ready /\ ~Is(f, "writing")
     /\ Is(f, "canRead") \/ "readWriteOnly" \in Wild
     /\ recs' = IF turns THEN FlushedDisk(file, recs) ELSE recs
     /\ file' = [f EXCEPT !.unget = None]
     /\ IF f.unget # None THEN ret' = f.unget /\ UNCHANGED pc
        ELSE IF Is(f, "eof") THEN ret' = EOF /\ UNCHANGED pc
        ELSE pc' = "getc" /\ UNCHANGED ret
     /\ UNCHANGED <<there, mode>>

Refills == pc = "getc" /\ file.bufpos >= file.bufcnt
Looks == pc = "getc" /\ file.bufpos < file.bufcnt
Here == file.buf[file.bufpos]

RefillForgetsRecno ==
  /\ Refills /\ file.recno \in DOMAIN recs
  /\ file' = [file EXCEPT !.buf = recs[file.recno], !.bufpos = 0, !.bufcnt = RecSize]
  /\ UNCHANGED <<disk, mode, pc, ret>>

FgetcRefill ==
  /\ Refills /\ file.recno \in DOMAIN recs
  /\ file' = [file EXCEPT !.buf = recs[file.recno], !.recno = NextNo(@),
                          !.bufpos = 0, !.bufcnt = RecSize]
  /\ UNCHANGED <<disk, mode, pc, ret>>

FgetcEnd ==
  /\ \/ Refills /\ file.recno \notin DOMAIN recs
     \/ Looks /\ Here = CtrlZ
  /\ file' = Raise(file, "eof")
  /\ pc' = "idle" /\ ret' = EOF
  /\ UNCHANGED <<disk, mode>>

SkipStandsStill ==
  /\ Looks /\ Here = CR
  /\ UNCHANGED vars

FgetcSkip ==
  /\ Looks /\ Here = CR
  /\ file' = [file EXCEPT !.bufpos = @ + 1]
  /\ UNCHANGED <<disk, mode, pc, ret>>

FgetcByte ==
  /\ Looks /\ Here \notin {CtrlZ, CR}
  /\ file' = [file EXCEPT !.bufpos = @ + 1]
  /\ pc' = "idle" /\ ret' = Here
  /\ UNCHANGED <<disk, mode>>

Ungetc(c) ==
  /\ Ready
  /\ file' = [file EXCEPT !.unget = c] /\ ret' = c
  /\ UNCHANGED <<disk, mode, pc>>

-----------------------------------------------------------------------------
(* fputc, fflush                                                            *)

Stored(f, c) ==
  LET g == [Raise(f, "dirty") EXCEPT !.buf[f.bufpos] = c, !.bufpos = @ + 1]
  IN [g EXCEPT !.bufcnt = IF @ < g.bufpos THEN g.bufpos ELSE @]

\* The bound on what the program writes, and the pushed back character that
\* fputc takes into account.
MayPut ==
  /\ Tell(file) < Limit /\ Len(Text) < Limit
  /\ \/ file.unget = None \/ "writeBack" \in Wild
     \/ ~Is(file, "writing") /\ (file.bufpos > 0 \/ Is(file, "append"))
     \/ ~Is(file, "canWrite")

Fputc(c) ==
  LET f == IF Is(file, "writing") THEN file ELSE ToWrite(file, recs)
      full == Is(f, "writing") /\ f.bufpos >= RecSize
      fails == full /\ FlushFails(f, recs)
      d == IF full THEN FlushedDisk(f, recs) ELSE recs
  IN /\ Ready /\ MayPut
     /\ recs' = d
     /\ file' = CASE ~Is(f, "writing") -> f
                  [] fails -> Flushed(f, recs)
                  [] full /\ ~fails -> Stored(NextRec(Flushed(f, recs), d), c)
                  [] Is(f, "writing") /\ ~full -> Stored(f, c)
     /\ ret' = IF ~Is(f, "writing") \/ fails THEN EOF ELSE c
     /\ UNCHANGED <<there, mode, pc>>

Fflush ==
  /\ Ready
  /\ IF Is(file, "writing")
       THEN /\ file' = Flushed(file, recs) /\ recs' = FlushedDisk(file, recs)
            /\ ret' = IF FlushFails(file, recs) THEN EOF ELSE 0
       ELSE ret' = 0 /\ UNCHANGED <<file, recs>>
  /\ UNCHANGED <<there, mode, pc>>

Clearerr ==
  /\ Ready
  /\ file' = [file EXCEPT !.flags = @ \ {"eof", "error"}]
  /\ UNCHANGED <<disk, mode, pc, ret>>

-----------------------------------------------------------------------------
(* ftell, fseek, rewind, fsetpos                                            *)

Ftell ==
  /\ Ready
  /\ ret' = Tell(file)
  /\ UNCHANGED <<disk, file, mode, pc>>

\* _fsk_gap: the Ctrl-Z fill before the new position becomes zeros.
GapNotFilled(d, to) == d
GapFilled(d, to) ==
  IF NumRecs(d) = 0 THEN d
  ELSE LET last == NumRecs(d) - 1
           upto == CASE to \div RecSize > last -> RecSize
                     [] to \div RecSize = last -> to % RecSize
                     [] to \div RecSize < last -> 0
       IN [d EXCEPT ![last] = [i \in Offs |-> IF i \in DataLen(@) .. upto - 1 THEN 0 ELSE @[i]]]

\* _fsk_load
SeekLoad(f, d, o) ==
  CASE f.recno \in DOMAIN d ->
         [f EXCEPT !.buf = d[f.recno], !.bufpos = o, !.bufcnt = RecSize,
                   !.recno = IF Is(f, "writing") THEN @ ELSE NextNo(@)]
    [] f.recno \notin DOMAIN d /\ Is(f, "writing") ->
         [f EXCEPT !.buf = [i \in Offs |-> 0], !.bufpos = o, !.bufcnt = o]
    [] f.recno \notin DOMAIN d /\ ~Is(f, "writing") -> f

SeekForgetsUnget(f, d, to) ==
  LET g == [f EXCEPT !.flags = @ \ ({"eof"} \cup (IF Is(f, "append") THEN {"writing"} ELSE {})),
                     !.moved = TRUE, !.bufpos = 0, !.bufcnt = 0,
                     !.recno = to \div RecSize]
  IN IF Is(g, "writing") \/ to % RecSize # 0 THEN SeekLoad(g, d, to % RecSize) ELSE g

\* The stream at the position to: the buffer empty, or loaded when the stream
\* writes or the position is inside a record.
Placed(f, d, to) ==
  LET b == IF Is(f, "canWrite") /\ NumRecs(d) # 0 THEN d[NumRecs(d) - 1] ELSE f.buf
      g == [f EXCEPT !.flags = @ \ ({"eof"} \cup (IF Is(f, "append") THEN {"writing"} ELSE {})),
                     !.moved = TRUE, !.unget = None, !.bufpos = 0, !.bufcnt = 0,
                     !.recno = to \div RecSize, !.buf = b]
  IN IF Is(g, "writing") \/ to % RecSize # 0 THEN SeekLoad(g, d, to % RecSize) ELSE g

\* The seeks a tame program makes: no SEEK_END before the start or beyond the
\* limit, and no position in a record after the first one the file lacks, or
\* inside that one when the stream will be reading.
Tame(f, d, whence, to) ==
  LET fresh == NumRecs(d)
      writes == Is(f, "writing") /\ ~Is(f, "append")
  IN /\ ("seekFails" \in Wild \/ whence # 2 \/ to \in 0 .. MaxOffset)
     /\ \/ "hole" \in Wild
        \/ to \notin 0 .. MaxOffset
        \/ to \div RecSize < fresh
        \/ to \div RecSize = fresh /\ (to % RecSize = 0 \/ writes)

Seek(off, whence, done, failed) ==
  LET writes == Is(file, "writing")
      d == IF writes THEN FlushedDisk(file, recs) ELSE recs
      g == IF writes THEN Flushed(file, recs) ELSE file
      f == IF whence = 2 /\ NumRecs(d) # 0 THEN [g EXCEPT !.buf = d[NumRecs(d) - 1]] ELSE g
      to == off + (CASE whence = 0 -> 0 [] whence = 1 -> Tell(f) [] whence = 2 -> Size(d))
      e == IF Is(f, "canWrite") THEN GapFilled(d, to) ELSE d
  IN /\ Ready /\ Tame(f, d, whence, to)
     /\ IF to \in 0 .. MaxOffset
          THEN recs' = e /\ file' = Placed(f, e, to) /\ ret' = done
          ELSE recs' = d /\ file' = f /\ ret' = failed
     /\ UNCHANGED <<there, mode, pc>>

Fseek(off, whence) == Seek(off, whence, 0, EOF)
Rewind == Fseek(0, 0)

\* fsetpos drops its arguments with LD HL,10 / ADD HL,SP / LD SP,HL, so what
\* it returns is the stack pointer.
StackPtr == 61440
Fsetpos(to) ==
  /\ "setpos" \in Wild
  /\ Seek(to, 0, StackPtr, StackPtr)

-----------------------------------------------------------------------------
Loop == FgetcRefill \/ FgetcEnd \/ FgetcSkip \/ FgetcByte

Next ==
  \/ \E m \in Modes : Fopen(m) \/ Freopen(m)
  \/ Fclose
  \/ FgetcFails \/ Fgetc \/ Loop
  \/ \E c \in Backs : Ungetc(c)
  \/ \E c \in Chars : Fputc(c)
  \/ Fflush \/ Clearerr \/ Ftell
  \/ \E off \in Offsets : (\E whence \in 0 .. 2 : Fseek(off, whence)) \/ Fsetpos(off)
  \/ Rewind

Spec == Init /\ [][Next]_vars
FairSpec == Spec /\ WF_vars(Loop)

-----------------------------------------------------------------------------
(* Properties.                                                              *)

TypeOK ==
  /\ there \in BOOLEAN
  /\ DOMAIN recs \subseteq 0 .. RecNos - 1 /\ Cardinality(DOMAIN recs) <= Capacity
  /\ \A r \in DOMAIN recs : recs[r] \in [Offs -> 0 .. 255]
  /\ file \in [flags : SUBSET Flags, unget : 0 .. 255, bufpos : 0 .. RecSize,
               bufcnt : 0 .. RecSize, moved : BOOLEAN, recno : 0 .. RecNos - 1,
               buf : [Offs -> 0 .. 255]]
  /\ mode \in Modes \cup {"closed"} /\ pc \in {"idle", "getc"}
  /\ mode = "closed" <=> ~Open

\* The buffer is the record the state says it is: the one before recno for a
\* stream that reads, recno for one that writes and has nothing pending.  A
\* stale buffer is what fgetc would return, or what the next flush would write
\* over a good record.
Coherent ==
  Open /\ file.bufcnt # 0 /\ ~Pending(file) =>
    LET r == IF Is(file, "writing") THEN file.recno ELSE PrevNo(file.recno)
    IN r \in DOMAIN recs => Padded(file) = recs[r]

\* "no Ctrl-Z stays in the middle of the file" (docs/exit_and_files.md:75):
\* only the last record has fill, whatever was flushed, sought or appended.
NoMiddleCtrlZ ==
  \A r \in DOMAIN Whole : r # Max(DOMAIN Whole) => \A i \in Offs : Whole[r][i] # CtrlZ

\* A call changes at most one byte of the data and drops none, unless it
\* raises the error flag: a full disk is reported before fclose.
NothingLostSilently ==
  [][Open /\ ~Fclose /\ (\A m \in Modes : ~Freopen(m)) =>
       \/ "error" \in file'.flags
       \/ /\ Len(Text') >= Len(Text)
          /\ Cardinality({i \in 1 .. Len(Text) : Text'[i] # Text[i]}) <= 1]_vars

\* fgetc returns: each turn of its loop moves on in a file that ends.
GetReturns == (pc = "getc") ~> (pc = "idle")

Abstract == INSTANCE TextFile
  WITH exists <- there, bytes <- Text, mode <- mode,
       pos <- IF Open THEN Pos(file) ELSE 0,
       back <- IF Open /\ file.unget # None THEN file.unget ELSE -1,
       eof <- Open /\ Is(file, "eof"), busy <- pc = "getc", ret <- ret,
       Chars <- Chars \cup Backs

\* The calls of a tame program behave as the documentation says.
ImplementsTextFile == Abstract!Spec
=============================================================================
