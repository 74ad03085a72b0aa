# A verification development for uc80

uc80 compiles C to Z80 code for CP/M and for ROM systems, and brings its own C
library and runtime, written in Z80 assembly.  This directory holds TLA+ models
of the parts of it that keep state across calls or share it between activities,
the configurations that model-check them with TLC, and theorems about them with
proofs that TLAPS checks.

`PROJECT.json` is the index: components, runs, the mutation that breaks each
checked property, the source lines each definition stands for, findings, hazards,
theorems.  Source paths there start at `src/src/uc80` (compiler and library) and
`src/bench` (the Z80 emulator of the ROM runner); below, `lc/` is
`src/src/uc80/lib/lc/` and `codegen.py` is `src/src/uc80/codegen.py`.

Contents

1. The system and its components
2. Plan
3. The modules: state and actions against the code
4. The runs: what they show, bounds, fairness
5. The theorems
6. Findings, and other disagreements
7. What is not modelled


## 1. The system and its components

A compilation merges the C files of a program (whole-program mode, the default)
or takes one file alone, optimises the tree, decides where every local variable
lives, writes assembly text, and optimises that.  The program is then linked with
library modules, one routine or two in each, that the linker takes by name.  At
run time there is one thread of control, plus interrupt handlers on a ROM system.

| component | state it keeps | operations | talks to | what is hard |
|---|---|---|---|---|
| heap (`lc_malloc`, `lc_calloc`, `lc_realloc`, `lc_free`) | `_heap_ptr`, `_free_head`, block headers and links in the memory it manages | malloc, calloc, realloc, free | the program, the stack pointer | long legal sequences; metadata shares memory with payloads; failure in the middle of realloc; 16-bit carries |
| stdio streams (`lc_fopen` ... `lc_fseek`) | a FILE: flags, pushed back character, position and count in a 128-byte buffer, record number | fopen, fclose, freopen, fgetc, ungetc, fputc, fflush, fseek, ftell, rewind, fsetpos, clearerr | BDOS records; exit closes all streams | one field means two things in two states; full disks; stale buffers; boundaries of records; Ctrl-Z fill |
| shared automatic storage (`CallGraphAnalyzer` in codegen.py) | call graph, the relation "active together", the regions of `??AUTO`; at run time the contents of `??AUTO` | eliminate dead functions, analyse, place; then every call and interrupt of the program | the driver's entry points, interrupt functions, `--isr-safe` | whatever enters a function without a call the compiler sees: pointers, callbacks, other modules, interrupts |
| program exit (`lc_atexit`, `lc_exit`, `lc_quick_exit`, crt0) | two tables with counts, two hook words, the table of open streams | atexit, at_quick_exit, exit, quick_exit, _Exit, abort, the return from main | fopen fills the hooks; exit calls the program and fclose | functions that register, exit or open files while exit runs |
| interrupts (`z80_intrinsics.py`, prologues in codegen.py, atomic routines) | IFF1, IFF2, states saved by sections | irq_save/restore, critical_enter/leave, load16, atomic additions, handlers | every C function | an interrupt between any two instructions; NMIs inside sections |
| threads and synchronisation (`lc_mtx_*`, `lc_cnd_*`, `lc_call_once`, `lc_tss_*`, `lc_thrd_*`) | bytes of a mutex, a condition, a flag; eight slots | lock, try, timed lock, unlock; wait, signal; once; create/get/set/delete | MP/M through the BDOS | lost and stale wake-ups; partial releases |
| console output, strtok | last character sent; position of the scan | putchar ...; strtok | every writer | stale state between callers |
| assembly dead code elimination (`asm_dce.py`, `optnone.py`) | blocks and data labels of the output text, two worklists, what is marked | explore, regroup, scan data, rebuild | main.py's entry points, the link | entries through tables, pointers and assembly, which the text does not show |
| runtime embedding (`runtime.py`, `leave_to_library` in main.py) | routines and areas in the text, modules the link is expected to pull | require, leave to the library, embed; then dead code, then the linker's search | dead code elimination, ul80 | a prediction made before the text is final |
| work areas of handlers (`isr_check.py`, prologues) | what each handler reaches, the plan of its prologue, warnings; at run time the memory and the stack of copies | analyse, plan, reject or warn; then interrupt, save, run, restore, return | the assembly text of program and library, handlers | a handler on top of a runtime routine, or of another handler, that uses the same fixed addresses |
| assembly and tree passes, register convention, expression code | rewritten text or trees | one pass each | each other, in order | semantic equality of two programs |
| arithmetic, floating point, sorting, formatting | registers, locals | pure functions | - | boundaries of the number formats |
| driver, hooks, dialects, debug output, build scripts, benchmark tools | options, files | sequential text processing | the file system | - |

The list with every source file and its status is `components` in PROJECT.json.
What makes the modelled ones correct, as properties:

* heap: blocks tile the heap, the free list is exactly the free blocks in address
  order and coalesced, every block has one owner, a pointer's bytes are its own;
* streams: the program sees a sequence of bytes with an exact position, whatever
  mixture of reads, writes and seeks it makes; the buffer is never stale; a byte is
  lost only with the error flag raised;
* shared storage: a program cannot tell fixed addresses from a stack, and where it
  could (an interrupt) the compiler has warned, but for the callees of a handler that
  interrupts itself (section 6);
* exit: registered functions run once each, last first, then files are closed, then
  the program ends, by every way out;
* interrupts: what is between a DI and its EI is not interrupted, a section leaves
  the state it found, and the program does not go deaf;
* dead code: a run of what is left never needs what went, every label that is named
  is defined, and nothing stays without a reason;
* embedding: no symbol is in the image twice, and what was left to the library is there;
* work areas: a handler is invisible to what it interrupts, or the compiler has warned;
  what it does for good is not undone by its own epilogue.


## 2. Plan

| stage | modules | status |
|---|---|---|
| 1 | `Allocator` <- `Heap`, `HeapProofs` | done, refinement proved |
| 1 | `TextFile` <- `Stream`, `StreamProofs` | done, refinement proved |
| 1 | `Automatic` <- `SharedStorage`, `StorageProofs` | done, refinement proved |
| 1 | `ProgramExit` <- `Exit`, `ExitProofs` | done, refinement proved |
| 1 | `Interrupts`, `InterruptsProofs` | done |
| 2 | `DeadCode`, `DeadCodeProofs` | done |
| 2 | `Embedding`, `EmbeddingProofs` | done |
| 2 | `WorkAreas`, `WorkAreasProofs` | done |
| 3 | `Sync`: mutex, condition, once, tss under interleaved callers, against an abstract lock | planned |
| 3 | `Streams`: two FILEs over one directory entry, and fread, fwrite, fgets, tmpfile, remove over `Stream` | planned |
| 3 | `Console`: the CR LF filter and strtok, as small machines with several callers | planned |
| 3 | `Qsort`, `Arith`: recursive functions against reference definitions on bounded inputs | planned |
| 4 | proofs of Sync and of Streams | planned |

The order follows what a wrong answer costs: heap, files and locals are under every
program, interrupts under every ROM program; the text passes come next, because what
they drop or double shows only in programs nobody tested.  Modules that compose
components: `Exit` includes the table of streams that fopen and fclose keep;
`SharedStorage`, `DeadCode` and `WorkAreas` each compile a program and then run what
the compiler made of it; `Embedding` follows main.py through embedding and dead code
elimination to the end of the link.


## 3. The modules

### Heap (implements Allocator)

`mem` is a byte memory: block headers, free links and the word `_free_head` are
read and written in it with `Peek` and `Poke`, so a store that is off by a byte
destroys them here as it does on the machine.  `heap_ptr` is `_heap_ptr`; `hl`, `bc`
and `ix` are the registers of that name, as far as they live across steps; `pc`
names the label reached.

| action | code |
|---|---|
| CallMalloc, EnterMalloc | `_malloc`, `__malloc_de` up to `_mde_scan` |
| MallocNext / MallocSplit / MallocWhole / MallocGrow / MallocFail | the turns and exits of the scan in lc_malloc.mac |
| CallCalloc, CallCallocOverflow, CallocZero | lc_calloc.mac; multiplication by addition with its carry exit |
| CallFree, FreeNext, FreeInsert, FreeMergeNext, FreeMergePrev | lc_free.mac |
| CallReallocNull, ...Zero, ...Same, ...Grow, ReallocCopy | lc_realloc.mac; the copy enters free for the old block |
| Return | the program: it stores its own byte over the whole block it asked for |

`free`, `used` and `blk` are history variables and no step of the library reads
them.  Each turn of a loop is a step; straight code is one step.  An interrupt
handler that allocates is not modelled: the library is not written for it.

`Allocator` says only that every pointer owns an interval that meets no other
pointer's, and that its bytes change only through it.

### Stream (implements TextFile)

`file` is the FILE structure (flags, `unget`, `bufpos`, `bufcnt`, `moved` for
FLAG_MOVED, `recno` for r0 r1, `buf`), `recs` the records on the disk, a function on
the numbers of the records written, `there` the directory entry.  A call is a step,
except fgetc, whose loop over carriage returns and refills is a step per turn.  The
operators `Flushed`, `LoadRec`, `NextRec`, `ToEnd`, `ToWrite`, `ToRead`, `GapFilled`
and `SeekLoad` are the internal routines of the same purpose, and an action combines
them in the order of the calls in the routine it models.  The BDOS is external:
calls 33, 34 and 35 are function application, extension of `recs` within
`Capacity`, and the highest record plus one modulo 65536.

`TextFile` is the documentation's view: bytes, a position, one pushed back
character, the result of each call.  The mapping `Text` takes the records, with the
pending one, up to the first Ctrl-Z of the last record.

Calls whose behaviour the documentation does not describe, or describes and the
code contradicts, are guarded by a name in the constant `Wild`:
`readWriteOnly` (fgetc of a stream that cannot read), `seekFails` (SEEK_END outside
the range), `hole` (a seek beyond the end by a whole record, or inside it to read),
`writeBack` (fputc after an ungetc at the start of a record or in the writing
state), `setpos` (fsetpos, which returns the stack pointer).  With `Wild = {}` the
program is *tame*.

### SharedStorage (implements Automatic)

One behaviour compiles a program and then runs it.  A program is a record: who calls
whom by name, whose addresses are taken where, who calls through a pointer
(`indirect`; library routines with callbacks are among these), who calls another
module, static functions, sizes, interrupt functions and the options.

| action or operator | code in codegen.py |
|---|---|
| EliminateDead, Live, EntryPoints | `find_live_functions`, `_eliminate_dead_functions` (and the vectors main.py adds) |
| Analyse: Callees, Reachable, ActiveTogether, Recursive, CanShare, SharedWithIsr | `CallGraphAnalyzer`, `can_use_shared_storage`, `_warn_isr_shared_storage` |
| ChooseNext, TryHigher, PlaceHere | `allocate_shared_storage` |
| StartProgram, Call, CallPointer, CallBack, Interrupt, Return, Assign | the program: entry, every kind of entry to a function, stores to locals |

`live`, `together`, `allocated`, `total` are the fields of the same purpose.  `mem`
is `??AUTO`; a function without a region has its locals in its activation (the IX
frame).  The program half enters functions as the code lets it: through pointers it
has actually taken, by any other module when the unit is compiled alone, and by an
interrupt between any two steps, as the flags of the handler's kind allow.

`Automatic` is what C promises: a stack of activations with objects of their own.

### Exit (implements ProgramExit)

`cnt`, `tab`, `qcnt`, `qtab` are the tables; `hook` and `fhook` say whether
`__exit_hook` and `__exit_fhook` are filled; `open` is the set of slots with
FLAG_OPEN; `calls` are the functions exit and quick_exit are inside of.  Program code
runs in main and in each such function, so it may register, open, close and leave
again at any depth.  `Atexit`, `AtQuickExit`, `Fopen`, `Fclose` are the library's
entries; `Return`, `CallExit`, `CallQuickExit`, `CallStop` the ways out;
`RunHandler`, `ExitFiles`, `CloseSlot`, `FilesClosed`, `RunQuickHandler`,
`QuickExitDone`, `Crt0` the turns of `__exit_run`, `_fclose_all`, quick_exit and crt0.

### Interrupts

An activation of main, of the maskable handler or of the NMI handler is a record with
its place in the code, its registers and its open sections; `stack` holds those
running.  A step is one instruction where the order matters: LD A,I, DI, EI, each
byte load and each byte store.  `iff1`, `iff2` and `shadow` (no interrupt is taken
just after EI) are the flip-flops as `src/bench/romrun/z80.py` has them.  The maskable
handler has one of two forms: EI first (`int`), or EI just before RETI (`int_crit`,
codegen.py:8484).  main, the handler and the sections share a 16-bit counter; `sum` is
the history of additions, `was` that of the state a section found.

`Wild` again names what an undisciplined program does: sections or load16 in an NMI
handler, an NMI handler that changes the counter, and an atomic operation where
interrupts are off.

### DeadCode

A text is a sequence of blocks, one per label of code, and a set of data labels; a
block is what it jumps to, names and ends with, and whether it holds hand-written
assembly.  `pending`, `reachable`, `work` and `referenced` are the worklists and sets
of the same purpose in asm_dce.py; `entered` and `touched` are what the program has
reached once the output runs.

| action or operator | code in asm_dce.py |
|---|---|
| EntryPoints, AddressTaken | `extra` entry points in main.py, `_analyze_control_flow` |
| Explore, FallThrough, EndsWithTerminator | `_explore`, `_find_next_block`, `_block_ends_with_terminator` |
| Regroup, GroupRest | the loop over `noopt_groups` in `_find_reachable` |
| NameData, ScanData | `_find_referenced_data` |
| Rebuild | `_rebuild_assembly` |
| Enter, Touch | the Z80: jumps, falls through, pointers it has loaded, assembly |

Three things are taken from what the compiler and the library write: assembly at file
scope ends in a transfer, no runtime routine takes the address of a code label, and a
label in the assembly of a function is reached from that function only.

### Embedding

A case is a library, as symbols with the module each is in and what each needs, and a
program, as what its live code names and what only dead code names.  `kept`, `provided`
and `data` are the embedded routines, the symbols of the modules the link is expected
to pull, and the embedded areas; `pulled` the modules the linker has added.
`Require`, `Leave`, `Embed` and `Eliminate` are the steps of main.py in order
(`Leave` is one round of the loop in `leave_to_library`); `Pull` and `Linkage` are
ul80's library search, external.

`WellSplit` is what `split_runtime.py` makes of the runtime, and was compared with the
library in `lib/rt`: a module holds routines or areas, needs what its routines name,
and is needed by no routine of libc's own; of modules with several routines a library
module needs rt_ltof only, and programs use no other routine of that one; a libc
function that a program defines itself (`own`) is alone in its module.

### WorkAreas

A program is the graph `_parse_unit` reads: for each region what it jumps to, names
and falls into, whether it calls through a pointer, whether it uses the alternate
registers; for each static its COMMON block and its place in the program text.

| action or operator | code |
|---|---|
| LeadsToCode, Taken, TakenBy, Indirect, Reached | isr_check.py `_is_function`, `taken_regions`, `_reach` |
| Fixed, Unknown, NeedsAlternate | the reports of `analyze` |
| Covers, Joined, Elsewhere | `save_plan`: blocks in the text, in runs; blocks of other modules by their helpers |
| Rejected, Saves, Warned, Compile | main.py 2623-2686, `format_reports` |
| Interrupt, Save, Begin, Restore, Return | prologue and epilogue: ALT_SAVE, `wa_code`, `__wasv_` and `__wars_` |
| Run, End | the body: it enters a region the code can lead it to, and stores to all the region names |

A value in memory is who stored it to which cell, and how many handlers ran then; this
is all that "restored" needs.  Where a pointer leads (`Targets`) is stated apart from
what the analysis assumes (`Taken`, `TakenBy`): it is a function whose address the
program names, or a library region the handler has been in names, and not a handler.
Interrupts come at every step, in prologues and epilogues too, which holds for NMIs and
for handlers that begin with EI.  An area is copied in one step: what comes in the
middle of a copy leaves the area as it found it.  A block is in the program text with
all its labels or with none (`ProgramsAssumption`), which is what `LinksOnce` of
Embedding gives.


## 4. The runs

All of these are complete searches: no state constraint, no depth limit.

| run | states | question and answer |
|---|---|---|
| heap | 130,822 | does any sequence of calls keep the blocks a tiling of the heap, the free ones coalesced, each block with one owner and its bytes (`Tiling`, `Coalesced`, `NoLeak`, `Intact`, `CallocZeroed`), return (`Terminates`) and implement `Allocator`? Yes |
| stream | 68,232 | does a tame program, with room on the disk, see `TextFile`, through a buffer that is never stale (`Coherent`), with no Ctrl-Z in the middle (`NoMiddleCtrlZ`), and does fgetc return (`GetReturns`)? Yes |
| stream_disk_full | 41,707 | on a disk of two records, and with reads of write-only streams, writes after ungetc and fsetpos: is a byte lost only with the error flag raised (`NothingLostSilently`)? Yes |
| stream_seek_fails | stops at the counterexample | finding 1 |
| storage | 878,080 | families of programs, each compiled and run in every way: `ImplementsAutomatic`, `OverwrittenOnlyIfWarned` (both with an exception, below), `NothingDeadEntered`, `RegionsApart`, `AllocationEnds` |
| exit | 120,282 | every order of registering, opening, closing and leaving: `ImplementsProgramExit`, `LeavingEnds` |
| interrupts | 121,120 | a disciplined program: `Exclusive`, `AsWanted`, `StateRestored`, `NoLostUpdate`, `NotTorn` |
| dead_code | 105,834 | families of texts, each cut down and then run in every way: `StaysInside`, `LabelsDefined`, `OnlyNeeded`, `PassEnds` |
| dead_code_separate | stops at the counterexample | finding 2 |
| embedding | 131,216 | libraries and programs whose text uses a routine: `LinksOnce` and `PredictionHolds` at the end of the link |
| embedding_areas | stops at the counterexample | finding 3 |
| work_areas | 277,834 | 147 programs, analysed, and then run with interrupts at every step: `Transparent`, `StateNeverReverted` |

Each passing run checks the `TypeOK` of its module too (`stream` for both stream runs).

Every property of a passing run has a mutation in PROJECT.json: one definition changed
as a plausible bug would change it, under which the same run finds the property
violated.  The mutated forms stand just before the definitions they replace and no
specification uses them.

### Bounds

*heap.* 16 bytes of heap and two pointers.  The heap starts at 250, so blocks cross
the page at 256, where a forgotten carry shows.  Sizes 1, 2, 5 and 65535: below the
minimum, the minimum, one that leaves every remainder for a split (none, under 4, 4 and
over) and one that carries out of 16 bits.  SP is 519 or 521, so the limit SP - 255
is 264 or 266: malloc can fail by two bytes and succeed later.  nmemb is 1 or 256, so
calloc overflows and does not.  Two pointers suffice for three used blocks at a time
(realloc holds two) and therefore for a block freed between two free ones, two used
ones, and one of each.

*stream, stream_disk_full, stream_seek_fails.*  Records of 2 bytes, files of 0 or 3 bytes at start (one and a half
records, with carriage returns), writes below offset 5 (three records),
`MaxOffset` 5, record numbers modulo 8, offsets -1, 0 and 3 from each of three bases.
A buffer of 2 has an empty, a partly filled and a full state, which is what bufpos and
bufcnt are compared for; three records give a first, a middle and a last one, and a
hole.  The written and the pushed back character differ from each other and from the
file's.  `Capacity` is 3 (the disk has room) or 2 (it fills).

*storage.* main and three functions of 2 and 3 bytes, in four families: every call
graph, cycles and pointers included, without interrupts (`CallGraphs`); `--isr-safe`
with a handler of each kind, or two (`SafeHandlers`); one handler without it
(`OneHandler`, of every kind, with a tree of its own or one shared with main); and
modules compiled alone (`Separate`).  At most 5 activations:
a cycle through all functions and one more entry, or two calls, a handler and two
calls.  Bytes have 2 values.  What these bounds leave open, other call graphs and
sizes, is what the theorems of StorageProofs cover.

Two properties of this run have an exception, and it is needed: without it the run
fails.  A handler that starts with EI (`interrupt NAME`) can interrupt itself, and
without `--isr-safe` the functions it calls stay in `??AUTO`; the compiler warns of them
only if other code reaches them too.  In the stack main, g, h, g, h, where g is such a
handler and only g calls h, the inner h overwrites the outer one's locals, and nothing
warned.  `HandlerCameAgain` names exactly this case, so `OverwrittenOnlyIfWarned` says
that nothing else is overwritten without a warning; `Unguarded` is its condition on the
program (such a handler reaches a function with a region), and `ImplementsAutomatic` is
about the other programs.  Section 6 sets the documentation against it.

*exit.* Two functions, lists of two, two files, four registrations in a run:
either list overflows, a function can register itself and be called again, and
a slot is free before and after an open one.  32, 8 and any number of functions
are covered by the theorems.

*interrupts.* A byte has two values, so every other addition carries into the
high byte and the counter wraps after four; three activations (main, one handler
in another, and an NMI on top of one), two nested sections in each.  The theorems
cover bytes of 256 values and every depth.

*dead_code, dead_code_separate.* Texts of four blocks, of which the first is PUBLIC, and
two data labels.  `ControlTexts` has every mix of the five ways a block can end, a jump
and an optnone function of two blocks; `Kept` every place for an address of a function
in code or in a table, for a use of data, for a pointer from data to data, and for what
main.py asks to keep; `SeparateTexts` the same a module at a time, where every function
whose address is taken is PUBLIC, and `Separate`, of finding 2, where it need not be.
Four blocks give a group with an inside, a neighbour to fall into and something dead.
Other texts are covered by the theorems.

*embedding, embedding_areas.* Two routines in one module and one in another, two areas in
a third, two modules of libc that may need any of them.  That is the least in which a
module comes in for one of its symbols and brings the other, and in which a prediction
about one module makes another one necessary.  The theorems cover every library.

*work_areas.* Five labels (two handlers, a function, a runtime routine, a library
routine), four statics, three COMMON blocks of which one holds state, and at most two
handlers at a time: a handler on top of another is where an area is copied twice and
restored in the other order.  The families vary where statics lie and who stores to them
(`Layouts`), how a region is reached (`Ways`), and the options, pragmas and naked
handlers (`Options`).  Every program and depth is covered by the theorems.

### Fairness and deadlock

* Heap: `WF(Serve)`, the library code runs on once called.  The program need not call.
* Stream: `WF(Loop)`, the same for the loop of fgetc.
* SharedStorage: `WF(Compile)`, the compiler runs on; the compiled program owes nothing.
* Exit: `WF(Library)`, and `WF(calls # <<>> /\ Return)`: a function that exit called
  returns.  `LeavingEnds` needs it, since exit cannot end before its functions do; a
  function may still leave by itself.  Registrations in a run are bounded
  (`MaxCalls`), so `LeavingEnds` says nothing of a program that registers for ever.

* DeadCode: `WF(Pass)`, the loops of the pass run on; the program then owes nothing.

No strong fairness is used.  Interrupts states no liveness: `AsWanted` is the safety
form of "not deaf for ever", that something running will turn interrupts on again.
Embedding and WorkAreas state none: their steps are straight code.
Deadlock is checked but where the system stops: `exit` ends in "cpm", `storage` with an
empty stack after main returns, `dead_code` and `work_areas` with the run of the program,
`embedding` with the link.


## 5. The theorems

Eight proof modules, each extending the module it is about; every leaf is checked.  The
four refinements (`Allocator`, `TextFile`, `Automatic`, `ProgramExit`) are theorems, and so
is every invariant and action property that a run checks.

*HeapProofs* (`HeapAssumption`: 16-bit sizes and addresses, `_free_head` below the
heap).  `HeapInv` = TypeOK, Tiling, Sorted, Coalesced, NoLeak, Fits, Allocating,
Clearing, Copying, Freeing, Intact, CallocZeroed is inductive.  Tiling or Sorted
alone are not: a split keeps the tiling only if the scan's HL is a free block, and
BC the address of the link that led there (`Allocating`); an insertion keeps the
order only if IX lies between the owner of BC and HL (`Freeing`); Intact needs that
blocks are apart (Tiling), and owned once (NoLeak), and that what the program owns is
no longer than the payload (`Fits`).  Theorems: TypeCorrect, AlwaysTiled,
FreeListCorrect, NothingLeaks, ContentsKept, CallocClears, TakesFirstFit, for every
heap size, start address, set of pointers, sizes and stack pointers.  The core lemmas
say what one store does to the tiling and to the list (ListUnlink, ListInsert,
LinkStore, SizeStore, PayloadStore, Merge).  HeapImplements: Heap implements Allocator.
The scan, the insertion, the merges and the stores to headers and links are stutters,
since HeapInv keeps them out of every payload; what is left are the steps that give, take
or change a block: the result of malloc, calloc and realloc, the call of free, and the
program's stores.

*StorageProofs* (`FunctionsAssumption`, `ValuesAssumption`, `ProgramsAssumption`: well
formed programs, in which no C code calls an interrupt function).  `StorageInv` says
that the regions placed so far lie apart, and that the stack falls into contexts, main's
and each interrupt's, in each of which a function is reachable from every one below
it.  From it: StorageTypes, RegionsStayApart, NothingDeadRuns (all programs), and
LocalsKept (OverwrittenOnlyIfWarned), SharedEnteredOnce and StorageImplements
(`ImplementsAutomatic`), for programs that are
`Answerable`: whole, and either `--isr-safe` or with at most one handler, of any
kind.  For a handler that starts with EI the first two keep the exception
`HandlerCameAgain`, and the third is about programs that are not `Unguarded` (section 4):
NothingMeets shows that in those the exception does not occur.  The refinement needs LocalsKept for the frames below the running one
and one invariant more, `Sized`: a function without a region keeps as many bytes in its
activation as it has.  Both conditions are needed: with two handlers without
`--isr-safe`, and with one that interrupts itself and calls, the statement is false
without them (section 6).

*StreamProofs* (`StreamAssumption`: a record has 1 to 128 bytes, `MaxOffset` lies below
`RecSize * RecNos`, the disk has room for at most `RecNos` records, and a file at start
is text, without Ctrl-Z, that the disk has room for).  The lemmas are about a FILE f and
records d, since a call composes operators on these; an action is then a short proof.
The inductive invariant `Inv` is `Good(file, recs)` with the modes and fgetc's state.
Good has five parts, and none is inductive without the others:

* types, and no flag in a closed FILE;
* `Settled`: a dirty stream is writing, or appends, so that the record a failed flush left
  is not taken for a clean one;
* `Steady`: bufpos is within bufcnt, and a buffer with nothing pending is the record
  `Cur(f)`, which is recno or the one before it by the state;
* `Dense`: the records are 0 to n - 1, and Ctrl-Z is only at the end of the last one;
* `Shaped`: where the stream may stand, so that its next flush keeps Dense: not beyond
  the first record the file lacks, there only after a record without fill, and a stream
  that may write has no Ctrl-Z before its position in the buffer.

StreamTypes (`TypeOK`) has no hypothesis: it holds of every program and disk.
StreamCoherent (`Coherent`) has the hypothesis that the program makes no failing SEEK_END,
which finding 1 is about.  StreamNoMiddleCtrlZ and StreamNothingLostSilently have
`NoHoles`: no failing SEEK_END, no seek that leaves a hole, and a disk with room for
fewer than `RecNos` records.  A full file of 65536 records is the case in which NumRecs is
0 (section 6); a CP/M 2.2 disk has at most 8 MB with its directory and never holds one.  A disk
that fills up is within all three.

StreamImplements: Stream implements TextFile, for a program that is `Tamed`: `Wild = {}`,
`Capacity < RecNos`, no byte put beyond what the disk has room for
(`Limit <= RecSize * Capacity`), no ungetc of 255, the value by which `unget` means none,
and 0 among the offsets, for rewind.  The run `stream` has such constants.  TextFile
has no full disk, and on one the implementation cannot keep the promise.  The
invariant is `TamedInv`, Inv with `Exactly(file, recs, mode)` while the stream is open:

* no flush fails, and a reading stream has a full buffer or an empty one (`Exact`);
* a record that a seek has made in the buffer, and that is not on the disk, is zeros up
  to the position and fill after it (`Blank`): this is what the first byte stored there
  shows before it in the text;
* the flags are those of the mode (`Agrees`);
* a writing stream has no end-of-file flag, and one that appends is at the end of the
  text (`AtEnd`), since fputc looks for the end only when it changes the state.

Each action has a lemma that it keeps TamedInv and is a step of TextFile (UngetcMaps,
FgetcMaps, PutMaps, SeekMaps, FreopenMaps and so on).  The work is in four lemmas about
the text: the bytes before the length are those of the records (TextFacts), a byte
stored changes the text as `Put` does (StoredText), the fill of `_fsk_gap` becomes zeros
at its end (GapText), and a flush leaves it (FlushNow).

*ExitProofs* (`ExitAssumption`).  `ExitInv` = TypeOK, HooksSet, ClosedBehind.
ExitTypes, HooksAlwaysSet, ClosesAll, and ExitImplements: Exit implements
ProgramExit, by a simulation step for each action.  HooksSet is what makes the
shortcuts through a zero hook steps of the abstract specification; ClosedBehind does
it for the end of `_fclose_all`.

*InterruptsProofs* (`InterruptsAssumption`, and in each theorem `Disciplined`, which
is Wild = {}).  `FlagInv` relates each activation to the flip-flops: an activation that
counts on interrupts being off, or has read that they are, has only an NMI above it and
IFF2 off; what it will turn on again it found on.  `DataInv` relates the registers of
an activation between its loads and stores to the counter.  Theorems: InterruptsTypes,
SectionsExclusive, NeverDeaf, StateIsRestored, NothingLost, LoadsWhole, for every depth
of activations and sections and every width of a byte.

*DeadCodeProofs* (`TextsAssumption`: what a text is).  `PassInv` says that all that a live
block leads to is live or on the worklist (`Frontier`), that nothing is there that a
closed set of blocks does without (`Minimal`), and the same of data.  The second is what
makes the pass exact and not only safe; DeadCodeTypes and KeepsOnlyNeeded (OnlyNeeded)
follow for every text.  OutputAssembles (LabelsDefined) and RunStaysInside (StaysInside)
have the hypothesis `AddressesAreEntries`: every function whose address the text takes
is an entry point, which whole-program mode arranges and finding 2 is about.

*EmbeddingProofs* (`SymbolsAssumption`; `CasesAssumption`: the library is `WellSplit`; and,
as a hypothesis, that a program that uses an area uses a routine, for which finding 3
is the exception).  The prediction P is the least set of modules closed under what is
undefined, so it only grows as routines are left out, and at the end of the loop it is
closed for the text as it is (`Settled`).  Afterwards a module that the linker pulls is in
P, or is the module of an embedded routine that went with the dead code (`Late`), and
such a routine has its module to itself.  EmbeddingTypes, NothingTwice (LinksOnce),
PredictedIsThere (PredictionHolds).

*WorkAreasProofs* (`NamesAssumption`, `ProgramsAssumption`).  The first half is about the
compiler: where the code can lead a handler is what `_reach` computes (ReachedFollows,
GoesWhereItCan), and a cell it stores to there is saved, or warned of, or the program
is rejected (Protected).  The second half is about the run.  `Current` says of every cell
and every k that the value in memory is good when only the lowest k handlers are left, or
that a handler above the k-th has a copy to put back; `Kept` says the same of each copy,
looking further down.  Neither is inductive alone, since a restore moves a value from
one to the other.  WorkAreasTypes, InterruptsTransparent (Transparent), StateIsKept
(StateNeverReverted).

Sorted and FirstFit of Heap, HooksSet and ClosedBehind of Exit and OnlyGrows of
Embedding are proved and belong to no run.  The inductive invariants need the first,
third and fourth; the last says that what is left to the library is never embedded again.

Checked by TLC only: liveness (`Terminates`, `GetReturns`, `AllocationEnds`,
`LeavingEnds`, `PassEnds`), which needs ENABLED and fairness, out of the prover's reach.
What is proved of each is its safety half, a quantity that every step of the loop lowers
and that cannot fall for ever: the free blocks and stages ahead of a heap call
(`CallsMoveOn`), the records and bytes ahead of fgetc (`FgetcMovesOn`, for `NoHoles`: in a
file that uses every record number r0 r1 wrap to 0, and carriage returns alone would keep
the loop going), what the removal of dead code has not marked (`PassMovesOn`), the
functions to place and the offsets below the top of the area (`AllocationMovesOn`), the
registered functions and open slots on the way out (`LeavingMovesOn`).  That a step is
possible as long as the loop has not ended, and is then taken, is what TLC adds.


## 6. Findings, and other disagreements

Each finding is a run that ends in a counterexample to a sentence of the repository.

1. `stream_seek_fails`: fseek from SEEK_END to a position out of range returns -1 and
   leaves the last record in a buffer that says it holds another (lc_fseek.mac:370);
   the next read returns its bytes.  The comment at lc_ftowrite.mac:6 says what the
   buffer holds.
2. `dead_code_separate`: outside whole-program mode (and with a hand-written module)
   only labels of assembly are extra entry points (main.py:2756), so a static function
   used only through its address is removed, and the text names an undefined label.
   main.py:2742 says that such functions must not be eliminated, asm_dce.py:60 that an
   address-taken label is an entry.
3. `embedding_areas`: `leave_to_library` is called only when a routine is to be embedded
   (main.py:2341).  A program that uses an area and no routine (`llrint` as an int
   argument, codegen.py:15046) embeds `__acc64`, and the linker brings the module that
   defines it again.  main.py:2335 says that the data such functions use is left to the
   library.

### Other disagreements

Seen while reading or in the models; no run states them as violated: no text of the
repository says otherwise, the component is not modelled, the counterexample is a call
that the models keep behind a name in `Wild` or an assumption on the programs, or, for
the first one, the property names the case as its exception.

* A handler that starts with EI and interrupts itself overwrites the locals of the
  functions it calls, without a warning, when no other code calls them.  Only the handler
  itself is kept out of `??AUTO` (codegen.py:2259), and the warning is about functions
  that main or a taken address reaches too (codegen.py:4739).  docs/rom_hardware.md:40
  says that such a handler can run again in itself; docs/rom_target.md:203 says that
  shared locals "are safe for an ISR that has its own call tree" and that "one case
  stays unsafe: a function that both main and the ISR call".  `HandlerCameAgain` in
  SharedStorage; `--isr-safe`, or the `critical` form, avoids it.

* A stream opened with "a" starts in the reading state, in which fgetc does not test
  whether it can read, and returns the bytes of the file (lc_fgetc.mac:58).
  docs/exit_and_files.md:129 says it returns EOF.  `readWriteOnly`.
* fseek of a reading stream to the inside of a record that does not exist returns 0,
  and ftell then gives the start of that record (lc_fseek.mac:284).
  docs/libraries.md:181 says positions are exact.  `hole`.
* Without whole-program mode, another module may call back the public function that
  called it, whose locals are at fixed addresses (codegen.py:2207).
  docs/compiler_options.md:20 says that only functions that are not recursive are
  placed there.
* An NMI inside a function shared by two handlers and not by main: no warning
  (codegen.py:4739).  docs/rom_target.md:203 names one unsafe case, another one.
* irq_save in an NMI handler reads IFF2, the state of the interrupted program, and
  irq_restore executes EI in the handler (z80_intrinsics.py:105).
  docs/rom_hardware.md:300: "Interrupts that were off stay off".  `nmiSection`.
* The label `__ltof` inside a routine of the runtime is a symbol of its own to
  `_parse_assembly`; a program that names it and not the routine around it would get
  half of it.  The code generator never does.
* docs/rom_hardware.md says that the warning of isr_check comes only with the two
  options; blocks of state and blocks without a save helper are warned of always.
* isr_check counts only named COMMON blocks as fixed addresses, and not statics in the
  data segment (those of lc_printf_core; the ROM library has no printf); `_ssi_back` of
  lc_scan_stdin is state in a block that is not listed as state; a function pointer
  a library routine stores on behalf of main is not followed from a handler.
* fputc after ungetc at the start of a record does not step back over the boundary
  and writes one byte after the position ftell gives (lc_ftowrite.mac:68).  `writeBack`.
* fsetpos returns the stack pointer: the register that held fseek's result drops the
  arguments (lc_fsetpos.mac:68).  `setpos`.
* The record count of a file with all 65536 records reads as 0, and SEEK_END takes
  the file for an empty one (lc_fseek.mac:360).  The model counts modulo `RecNos`
  too; the runs keep files shorter.
* fclose ignores a failed flush and returns 0 (lc_fclose.mac:54), so the last record is
  lost silently on a full disk; `NothingLostSilently` leaves out fclose and freopen.
* tmpfile's comment says the file is deleted when closed; nothing deletes it.
* Outside whole-program mode a static function that a callback reaches may lie on the
  locals of a public one (codegen.py:2182).
* A library routine that calls back and is not in `_CALLBACK_LIBS`, such as raise,
  reaches functions the call graph does not connect to its caller (codegen.py:1914).
* An atomic operation ends in EI whatever the state was: in a section, or in a critical
  handler, it turns interrupts on (lc_atomic_fetch_add_2.mac:36).  `atomicOff`.
* load16 is torn by an NMI handler that writes the object.  `nmiAdds`.
* An NMI between the EI and the RETI of a critical handler ends the EI's protection,
  and a maskable interrupt can nest there (codegen.py:8487).
* An NMI inside an NMI handler loses the saved IFF1; docs/rom.md asks for a period
  above the run time, which the models assume.
* mtx_unlock of a recursive mutex whose count reaches 0 steps back one byte too far: it
  clears the byte before the mutex and leaves it locked (lc_mtx_unlock.mac:33).
* mtx_timedlock drops the argument of mtx_trylock into BC, and B counts the tries
  (lc_mtx_timedlock.mac:24).
* tss_create looks for the mark 0FFFFH in slots that start as 0; cnd_broadcast wakes one
  waiter; a second caller of call_once returns before the function has run.
* atomic_compare_exchange_4 takes one word too many off the stack when it fails.
* signal accepts only 0 as a signal number, and then rejects it (lc_signal.mac:40).


## 7. What is not modelled

* Expression code, the tree and assembly optimisers, the register convention: each is a
  rewrite without state of its own, whose correctness is equality under a semantics of
  C or of the Z80.  The fixpoints of peep_flow and deadstore are the candidates.
* Floating point and formatted input and output: their subject is numbers and text, out
  of reach of small instances.
* Driver, dialects, debug output, build and benchmark scripts: sequential text
  processing.
* The real NMOS Z80 can clear P/V when an interrupt comes during LD A,I.  The repository's
  emulator does not do this and the model follows it.
* Threads, console, strtok, block input and output, sorting and integer arithmetic are
  planned (section 2).
