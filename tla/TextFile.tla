----------------------------- MODULE TextFile -----------------------------
(***************************************************************************)
(* What docs/exit_and_files.md promises of a FILE: a sequence of bytes, a  *)
(* position in it that is exact, a write that changes only the bytes it    *)
(* writes, an append that goes to the end, and the results of the calls.   *)
(* Nothing is said of records, buffers or the Ctrl-Z fill on the disk.     *)
(***************************************************************************)
EXTENDS Integers, Sequences

CONSTANTS CR,          \* the byte fgetc skips
          Chars,       \* the characters the program writes or pushes back
          Offsets,     \* the offsets it gives to fseek
          MaxOffset    \* the greatest position fseek accepts

VARIABLES exists,      \* the directory has the file
          bytes,       \* its data, with what the stream has not written yet
          mode,        \* the mode of the stream, or "closed"
          pos,         \* the bytes before the next one, a pushed back one apart
          back,        \* the pushed back character, or -1
          eof,         \* the end-of-file indicator
          busy,        \* fgetc is looking for a character
          ret          \* the result of the last call

vars == <<exists, bytes, mode, pos, back, eof, busy, ret>>

AllModes == {"r", "w", "a", "r+", "w+", "a+"}
MayRead(m) == m \in {"r", "r+", "w+", "a+"}
MayWrite(m) == m \in {"w", "a", "r+", "w+", "a+"}
Appends(m) == m \in {"a", "a+"}
Truncates(m) == m \in {"w", "w+"}
Creates(m) == Truncates(m) \/ Appends(m)

EOF == -1
NoBack == -1
Told == pos - (IF back = NoBack THEN 0 ELSE 1)
Zeros(n) == [i \in 1 .. n |-> 0]

\* The data after c is stored at offset p, with zeros up to p.
Put(c, p) ==
  [i \in 1 .. (IF p < Len(bytes) THEN Len(bytes) ELSE p + 1) |->
     IF i = p + 1 THEN c ELSE IF i <= Len(bytes) THEN bytes[i] ELSE 0]

Closed == mode = "closed"

Init ==
  /\ mode = "closed" /\ pos = 0 /\ back = NoBack
  /\ eof = FALSE /\ busy = FALSE /\ ret = 0

\* fopen, which may fail for a file that does not exist.
Become(m) ==
  /\ \/ /\ exists \/ Creates(m)
        /\ exists' = TRUE /\ mode' = m /\ ret' = 1
        /\ bytes' = IF Truncates(m) THEN <<>> ELSE bytes
     \/ /\ ~exists
        /\ mode' = "closed" /\ ret' = 0 /\ UNCHANGED <<exists, bytes>>
  /\ pos' = 0 /\ back' = NoBack /\ eof' = FALSE /\ busy' = FALSE

Open(m) == Closed /\ Become(m)

Reopen(m) == ~Closed /\ ~busy /\ Become(m)

Close ==
  /\ ~Closed /\ ~busy
  /\ mode' = "closed" /\ pos' = 0 /\ back' = NoBack /\ eof' = FALSE /\ ret' = 0
  /\ UNCHANGED <<exists, bytes, busy>>

\* fgetc: a pushed back character, else the next one that is no CR.
GetFails ==
  /\ ~Closed /\ ~busy /\ ~MayRead(mode)
  /\ ret' = EOF
  /\ UNCHANGED <<exists, bytes, mode, pos, back, eof, busy>>

GetBack ==
  /\ ~Closed /\ ~busy /\ MayRead(mode) /\ back # NoBack
  /\ ret' = back /\ back' = NoBack
  /\ UNCHANGED <<exists, bytes, mode, pos, eof, busy>>

Look ==
  /\ ~Closed /\ ~busy /\ MayRead(mode) /\ back = NoBack
  /\ IF eof THEN ret' = EOF /\ UNCHANGED busy ELSE busy' = TRUE /\ UNCHANGED ret
  /\ UNCHANGED <<exists, bytes, mode, pos, back, eof>>

Skip ==
  /\ busy /\ pos < Len(bytes) /\ bytes[pos + 1] = CR
  /\ pos' = pos + 1
  /\ UNCHANGED <<exists, bytes, mode, back, eof, busy, ret>>

Get ==
  /\ busy /\ pos < Len(bytes) /\ bytes[pos + 1] # CR
  /\ ret' = bytes[pos + 1] /\ pos' = pos + 1 /\ busy' = FALSE
  /\ UNCHANGED <<exists, bytes, mode, back, eof>>

GetEnd ==
  /\ busy /\ pos >= Len(bytes)
  /\ ret' = EOF /\ eof' = TRUE /\ busy' = FALSE
  /\ UNCHANGED <<exists, bytes, mode, pos, back>>

\* fputc: at the position, or at the end of the data in an append mode.
PutChar(c) ==
  /\ ~Closed /\ ~busy
  /\ IF MayWrite(mode)
       THEN LET at == IF Appends(mode) THEN Len(bytes) ELSE Told
            IN /\ bytes' = Put(c, at) /\ pos' = at + 1
               /\ back' = NoBack /\ eof' = FALSE /\ ret' = c
       ELSE ret' = EOF /\ UNCHANGED <<bytes, pos, back, eof>>
  /\ UNCHANGED <<exists, mode, busy>>

PushBack(c) ==
  /\ ~Closed /\ ~busy
  /\ back' = c /\ ret' = c
  /\ UNCHANGED <<exists, bytes, mode, pos, eof, busy>>

\* fflush and ftell leave the file as it is.
Ask(r) ==
  /\ ~Closed /\ ~busy
  /\ ret' = r
  /\ UNCHANGED <<exists, bytes, mode, pos, back, eof, busy>>

\* clearerr
ClearEnd ==
  /\ ~Closed /\ ~busy
  /\ eof' = FALSE
  /\ UNCHANGED <<exists, bytes, mode, pos, back, busy, ret>>

\* fseek: a stream that can write may put zeros up to the new position.
Seek(to) ==
  /\ ~Closed /\ ~busy
  /\ IF to \in 0 .. MaxOffset
       THEN /\ pos' = to /\ back' = NoBack /\ eof' = FALSE /\ ret' = 0
            /\ \E n \in 0 .. (IF MayWrite(mode) /\ to > Len(bytes) THEN to - Len(bytes) ELSE 0) :
                 bytes' = bytes \o Zeros(n)
       ELSE ret' = EOF /\ UNCHANGED <<bytes, pos, back, eof>>
  /\ UNCHANGED <<exists, mode, busy>>

SeekFrom(off) == Seek(off) \/ Seek(Told + off) \/ Seek(Len(bytes) + off)

Next ==
  \/ \E m \in AllModes : Open(m) \/ Reopen(m)
  \/ Close
  \/ GetFails \/ GetBack \/ Look \/ Skip \/ Get \/ GetEnd
  \/ \E c \in Chars : PutChar(c) \/ PushBack(c)
  \/ Ask(0) \/ Ask(Told)
  \/ ClearEnd
  \/ \E off \in Offsets : SeekFrom(off)

Spec == Init /\ [][Next]_vars
=============================================================================
