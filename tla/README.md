# Models and proofs for x86_emu_cpp

x86_emu_cpp runs 32- and 64-bit Windows (PE) and Linux (ELF) programs in user
mode. One host thread interprets or translates the guest's instructions; the
guest's calls into the operating system end in hooks and system calls written
in C++. Everything a guest sees as concurrent (threads, processes, timers,
pipes) is multiplexed on that host thread by the emulator's own schedulers, so
the hard part of the program is a set of cooperating state machines, and a
processor whose instructions are computed in two or three different ways.

This directory holds TLA+ models of those parts, TLC configurations that check
them on small instances, and theorems proved with TLAPS for every instance.
`PROJECT.json` maps every definition to the source lines it models, and lists
the runs, the mutants that each property must reject, the hazards and the
theorems.

    tlc -workers 2 -config ThreadsSafe.cfg MCThreads
    tlapm Threads_proofs.tla

## 1. Inventory

Paths are relative to `src/src/`.

| part | files | state | operations | modelled in |
|---|---|---|---|---|
| green threads, Win32 waitable objects | `threads.cpp`, `emulator.cpp` (run_slice) | `threads_`, `current_thread_`, `sync_objects_`, the clock | pick_runnable, switch_to_thread, begin_wait, try_acquire, create and exit a thread, the wait, event, mutex and semaphore hooks | GuestThreads |
| locks in guest memory | `threads.cpp` | words in guest memory, `sleeping` | SRW locks, critical sections, condition variables | GuestLocks |
| Linux threads, futexes | `threads.cpp`, `syscalls.cpp` | `threads_`, `clear_child_tid`, wait predicates, `syscall_blocked_` | clone_thread, exit_thread, FUTEX_WAIT / WAKE, block_syscall_retry | LinuxThreads |
| process table, Linux processes | `processes.cpp`, `syscalls.cpp`, `emulator.cpp` (fork_clone) | `procs_`, per process: wait predicate, zombie, exit code, file table | System::run, fork, vfork, execve, wait4, kill, exit_group | Processes |
| pipes | `files.cpp`, `syscalls_files.inc` | `Pipe`, its counts of ends | make_pipe, read, write, dup, close, clone, close-on-exec | Processes |
| files, streams, descriptors | `files.cpp`, `files.h`, `syscalls_files.inc`, `hooks_files.cpp` | `files_`, the host's `FILE`s, `last_was_write` | open, read, write, seek, pread, pwrite, truncate, stat, dup, fork, rename, remove, restore | FileTable |
| console output | `emulator.cpp`, `hooks.cpp` | `stdout_buffer_`, descriptor 1 | write_text, flush_guest_output, dup2, the ends of a process | GuestOutput |
| Windows processes | `hooks_process.cpp`, `hooks_win32c.cpp`, `processes.cpp` | process handles, nested run_until_exit loops, command lines, environment blocks | CreateProcess, `_wspawnv`, wait on a process, TerminateProcess, GetExitCodeProcess | SpawnWait, WindowsStart |
| guest memory | `memory.h`, `memory.cpp`, `jit/verify.cpp` | `pages_`, `tlb_`, `tlbw_`, `spans_`, `journal_` | map, unmap, map_contiguous, read, write, host_ptr, host_span, journal_begin, run_verified | GuestMemory |
| translation cache | `jit/engine.cpp`, `memory.cpp`, `jit/backend_native.cpp`, `jit/native_gen.h`, `jit/backend_threaded.cpp` | blocks, hash table, indirect table, by-page lists, `code_pages_`, link cells, arena | lookup, translate, run, reclaim, invalidate, link, unlink, arena reset | CodeCache |
| JIT frontend and its ops | `jit/frontend_x86.cpp`, `jit/ir.h`, `jit/ops_x86.cpp`, `jit/backend_threaded.cpp` | `cc_kind`, `cc_a`, `cc_b` between blocks | decode a block, drop, defer or fold flags, run the ops, settle | X86Flags, Translator |
| interpreter | `cpu.cpp`, `cpu.h`, `sse.cpp`, `x87.cpp` | registers, flags, XMM registers, x87 stack | one operation per instruction | X86Flags, X86Integer, X86Registers, X86Simd, X86Float, X87 |
| page and break allocators | `emulator.cpp`, `syscalls.cpp`, `hooks_win32.cpp`, `hooks_win32c.cpp` | `mmap_next_`, `mmap_free_`, `mmap_live_`, `brk_` | alloc_pages, free_pages, reserve_pages, set_brk under mmap, munmap, brk, VirtualAlloc, views, fork | PageAllocator |
| address space, start of a program | `emulator.cpp`, `elf_loader.cpp`, `pe_loader.cpp` | the bases, the initial stack, TEB and PEB, environment | choose_layout, load_elf, map_pe, setup_linux_stack, setup_windows_env, execve | AddressSpace, ProgramStart, WindowsStart |
| modules | `modules.cpp`, `emulator.cpp` (call_guest, exit tables) | `modules_`, TLS slots, exit lists | load_library, bind, run_dll_init, setup_tls, atexit, exit | Modules |
| exceptions | `exceptions.cpp`, `hooks_libc.cpp` | function table, the chain at fs:[0], the guest's frames | virtual_unwind, raise, the search and unwind passes, `__C_specific_handler` | FrameWalk, Unwinding |
| saved state | `state.cpp` | the file written, the sections | save_state, load_state | SavedState, FileTable (Resume) |
| JIT code generators | `jit/native_x86.cpp`, `jit/wasm_x86.cpp`, ... | code buffers | one emitter per operation | no: instruction encodings |
| API and C runtime hooks, formatting, digests | `hooks_*.cpp`, `guest_printf.cpp`, ... | several hundred library functions | | no, except those that change a part above |

How they interact:

- `System::run` (processes) gives each process a slice; `Emulator::run_slice`
  (threads) gives each of its threads a turn inside it; the engine (JIT) or the
  interpreter executes it; a hook or system call inside it may block the thread
  (a wait record or predicate that the next scheduling pass evaluates), yield,
  ask to be called again (`retry_current_call`), run guest code on top of
  itself (`call_guest`) or run the whole machine on top of itself
  (`run_until_exit`).
- Memory calls the engine back whenever a page that holds translated code is
  about to change; the engine must undo every way into that code, although a
  block of it may be the caller.
- An exception leaves hooks, `call_guest` loops and the engine by a C++ throw,
  and puts the guest into the frame a walk over its stack has found.
- Processes share nothing but pipes and streams, which a forked table refers to
  once more.
- A saved state is written between two instructions and read over a freshly
  loaded program, by another process.

What is hard, and therefore what the properties are about: blocked threads are
woken by a scan, not by the release, so a wake-up can be missed and a deadlock
diagnosed wrongly; hooks and calls are repeated; contexts are saved and restored
around hooks that write to them; the end of a process has to be heard once by
the right parent, and by the readers of its pipes; a second scheduler runs
inside a hook of the first; caches in front of memory go stale; translated code
goes stale by ways that bypass the page table; flags are skipped, deferred and
folded across blocks that may end anywhere; streams have a direction and a
buffer that the guest has never heard of; address ranges are recycled in pieces;
every instruction of a large set is coded by itself.

## 2. Modules

| module | models | uses |
|---|---|---|
| `GuestThreads` | the thread scheduler and the waitable objects | |
| `SavedState` | saving and resuming a guest | |
| `Threads_proofs` | theorems about both | GuestThreads, SavedState, TLAPS |
| `GuestLocks` | SRW locks, critical sections, condition variables | INSTANCE RwLock |
| `RwLock` | abstract: what readers-writer locks promise | |
| `LinuxThreads` | clone, futexes, thread exit, calls that block | |
| `SpawnWait` | Windows processes and the nested loops of `_wspawnv` | |
| `Waits_proofs` | theorems about locks, Linux threads and spawns | GuestLocks, LinuxThreads, SpawnWait, TLAPS |
| `Processes` | the process table, its loop, Linux process calls, pipes | INSTANCE ProcessLife |
| `Processes_proofs` | its theorems | Processes, TLAPS |
| `ProcessLife` | abstract: the life of a process from fork to wait | |
| `GuestMemory` | pages, spans, page caches, journal, verifier | INSTANCE FlatMemory |
| `FlatMemory` | abstract: a value for every mapped page | |
| `GuestMemory_proofs` | its theorems | GuestMemory, TLAPS |
| `CodeCache` | translated blocks, write tracking, links | |
| `X86Flags` | integer results, flags and conditions, as interpreted and as translated | |
| `Translator` | a block's plan, ops and pending flags, beside the interpreter | X86Flags |
| `X86Integer`, `X86Registers` | the interpreter's arithmetic over halves, string and bit instructions; registers of several widths, addresses, the stack | |
| `X86Simd`, `X86Float` | the packed instructions; comparisons, rounding, conversion, AES, CLMUL | |
| `X87` | the x87 register stack, beside the architecture's | |
| `Code_proofs` | theorems about the cache and the stack | CodeCache, X87, TLAPS |
| `InstructionLaws` | what those instructions must equal | the six above |
| `FileTable` | descriptors and streams over the C library's FILE | INSTANCE PosixFiles |
| `PosixFiles` | abstract: files without buffers | |
| `Files_proofs` | the refinement of the one by the other | FileTable, TLAPS |
| `PageAllocator` | the mmap window, its recycled ranges, the break | |
| `AddressSpace` | where the areas of a guest lie | |
| `ProgramStart`, `WindowsStart` | what a program finds when it starts | |
| `Modules` | libraries, initialisers, TLS, exit handlers | |
| `FrameWalk`, `Unwinding` | finding callers; passing exceptions through frames | |
| `GuestOutput` | the buffers and redirections of standard output | |
| `AddressSpace_proofs` | theorem about the areas | AddressSpace, TLAPS |
| `Guests_proofs` | theorems about pages, exceptions, libraries and output | PageAllocator, Unwinding, Modules, GuestOutput, TLAPS |
| `MCGuestThreads`, `MCTranslator`, `MCInstructions`, `MCFiles`, `MCGuestMemory` | constants of one module | the module of that name |
| `MCThreads`, `MCWaits`, `MCCode`, `MCGuests` | constants of several, one of them at a time | see below |

`MCThreads`, `MCWaits`, `MCCode` and `MCGuests` check several modules that share
no state in one run. `part`, chosen in the initial state and constant, says
which of them moves; the others stay as they began, and a VIEW keeps what stands
still out of the states. A property of a part is that of its module, in most under
`part = ...`; nothing of a part is seen by another. `MCThreads`, `MCWaits`
and `MCCode` extend the modules they share out, as `MCGuests` does five of its,
so that their properties are the modules' own and a theorem states what the run
checks. In `MCWaits` liveness is checked, so there is no
VIEW, and fairness is stated part by part.

### GuestThreads

The host alternates between a pass and a slice. In phase `wake` the actions
`WakeOnTimer`, `WakeOnObject` and `LeaveAsIs` visit the threads in the order of
pick_runnable's loop; then a thread is dispatched (`switch_to_thread`), the idle
clock jumps to the next deadline, or nothing is left (`deadlock`). In phase
`run` the current thread calls hooks (`WaitForSingleObject`, `WaitAny`,
`WaitAll`, `Sleep`, `SetEvent`, `ReleaseMutex`, `CreateThread`, ...), computes,
yields or exits. A context is its RAX: `rax` is the live CPU's, `saved[t]` the
record's. The clock is kept relative to each deadline, which is all the code
compares it with, so that the state space is finite without a bound on time.
History variables: `grants` (what was granted to whom and not released), `view`
(what a thread's own instructions last had in RAX), `call` (which wait it is in).

The guest is arbitrary, except that it releases only what it was granted and
does not pass a thread's handle to SetEvent or ResetEvent. The code asks neither
for an event (`threads.cpp:513`): on a mutex or semaphore they change a flag that
nobody reads, which the model has and the VIEW leaves out; on a thread they
would let a join return before the thread's end, or keep one from returning.

### SavedState

A guest runs, blocks, wakes and switches; at any moment `Save` writes the
sections in the order of save_state, whole or cut anywhere; `Load` applies them
one after another to a freshly loaded program, as load_state's loop does. Pages
are zero, their file's or the guest's own, and are left out, referred to or
carried accordingly; the file may change in between. Waits are on handles or on
host predicates, which cannot be saved.

### GuestLocks and RwLock

A lock hook never blocks its thread: if it cannot have the lock it gives up the
slice and is called again. `pc[t]` is the call to be repeated. `word`, `owner`,
`depth` are the guest's words, `sleeping` the host's set of sleepers; `writer`
and `readers` (history) are who really holds the lock, and map the module to
RwLock. The guest releases only what it holds.

### LinuxThreads

The guest is what a C library does with clone and futex: a first thread clones
workers, each takes and gives back a lock of three states (free, held, held and
wanted), and the first joins each on the word CLONE_CHILD_CLEARTID has cleared.
A call that has to wait leaves a predicate in the thread and a flag in the
emulator, keeps its number in RAX and is made again (`block_syscall_retry`);
`Polls` evaluates every predicate before a thread is picked.

### Processes and ProcessLife

`procs_` with one thread per process. Each step of `System::run` is an action:
visiting a process, asking its wait predicate, its slice, the end of its slice, a
crash, an exit, the end of the round, the idle jump, the deadlock. The system
calls of the process in its slice are fork, vfork, execve, wait4 (with and
without a pid), kill, exit_group and those on descriptors and pipes. A blocked
call is the predicate it left behind, evaluated again by the loop as the code
does. A descriptor table maps descriptors to pipe ends; bytes are counted, not
kept. ProcessLife is the abstract life: none, running, zombie, reaped, with one
exit code and one parent.

### SpawnWait

The loops on the host's stack are a sequence `frames`: `System::run` at the
bottom, one `run_until_exit` for each spawn that is being waited for, each with
the process it leaves out and the child it waits for. A slice is executed by
the innermost loop. A crash ends the process whose slice it is; the root's is
thrown on, through the hook that runs the loop, into the loop below, whose
process then ends with 127 in the root's place, its hook never to return. Only
when every loop is in a slice of the root does the emulator end (`Blamed`).

### GuestMemory and FlatMemory

A page is absent, reserved (zero, no host memory yet) or at a host frame; spans
lie in front of the table. Every read or write goes through its cache (`Hit`) or
the slow path, which resolves, backs, records in the journal and fills the
cache. The verifier's phases are the statements of run_verified: the translated
run, the journal's pages put back one by one, the interpreted run, the
comparison. FlatMemory sees a value per page; while a block is being verified
the flat memory is the one it began with, and it changes once, when the verifier
is done.

### CodeCache

Blocks have an address, a page, an exit and flags (valid, stub, native). Memory
is the set of mapped, watched and contiguous pages and the two page caches; a
store goes through the cache, the slow path or the interpreter's path as in the
code, and reports to the engine or does not. Page contents are abstracted to
whether a block still equals them (`fresh`). Frames are the nested calls of
`Engine::run`, which a hook reaches through `call_guest`. Native blocks jump to
each other through link cells and the indirect table.

### X86Flags and Translator

X86Flags holds the arithmetic twice, because the code does: `Cpu::alu`,
`Cpu::shift`, `set_flags_*` and `cond` of the interpreter, and `arith_fl`,
`materialize_sz`, `eval_sub`, `eval_logic` and `test_cc` of the translated ops.
They are written apart in the code, with different expressions for the same
flag, and are kept apart here.

Translator takes a guest program and runs it both ways. `Plan`, `LiveAfter`,
`LiveIn`, `Mode`, `Emit` and `Translate` are translate_block; each op is an
action that does what its handler does to `cpu` and `cc` (`cc_kind`, `cc_a`,
`cc_b`). `machine` is the interpreter's copy: it takes as many steps as the
block took instructions, when the block is left. A store may be found to have
hit translated code (the block is left there), any access may fault, and the
engine may stop between two blocks; all three are chosen freely. The pages that
decide it are CodeCache's business.

### The interpreter's instructions

X86Integer, X86Registers, X86Simd, X86Float and X87 have an operator for each
instruction or group that the code has a branch for, computed the way the branch
computes it. InstructionLaws compares them with definitions of another shape:
products and quotients of whole numbers for arithmetic over 32-bit halves, a
number twice as wide for double shifts, one long bit string for bit
instructions, a copy of the memory for string instructions in either direction.
For the packed instructions, coded one by one over lanes of their own type, the
other definition is what SIMD programs build with the rest: a widening
multiplication by its halves and an unpack, a saturation by a minimum, a shuffle
by shuffles. X87 is a machine of its own, beside the stack the architecture
shows.

### FileTable and PosixFiles

A FILE has a file, an offset, bytes not written yet, and the direction of its
last operation; `Spill` lets the host empty its buffer at any moment. A
descriptor's entry holds a stream, shared after dup, fork and inheritance, and
its own modes and `last_was_write`. The calls are FileTable's, under the flags
of any of the four spellings a guest may open a file by; `SpellingsAsAsked` says
that the mode fopen is given for them does what they ask for. PosixFiles has files
and open file descriptions and nothing else; what the emulator is known to do
with less is stated there as the promise (section 5).

### PageAllocator

Whole pages; a list of recyclable ranges, a table of live ones, a frontier. The
actions are the guest's calls. `got` is the fresh region the last call
returned, `reserved` what VirtualAlloc reserved without mapping.

### AddressSpace, ProgramStart, WindowsStart

AddressSpace works in units of 64 KiB: the constants of choose_layout for six
kinds of program, the image, the interpreter, libraries with and without
relocations, and the four frontiers. ProgramStart lays segments and the initial
stack out byte by byte and reads them back as a C library does, with the stack
pointer only; execve reads vectors out of guest memory and starts again.
WindowsStart has command lines as sequences of the four characters their rules
tell apart, through quoting, joining and splitting, and the environment through
the block a parent passes.

### Modules

`work` is the emulator's call stack: binding a module's imports, running an
initialiser, draining an exit list. An initialiser or handler is guest code that
may load a library, start a thread, register a handler or exit, in the middle of
any of them. `began` and `since` (history) say in which order and in what phase
modules were initialised.

### FrameWalk and Unwinding

FrameWalk has a machine that really calls, runs prologues an instruction at a
time, clobbers what it saved and returns; `callers` (history) is what a walk
started at any moment must find. Unwinding abstracts the walk away: a frame is an
activation with its `__try` blocks, `loops` the `call_guest` loops on the host's
stack; a 32-bit guest has the chain at fs:[0]. The search asks frame after frame;
a filter may decline, accept, dismiss or exit, and raises nothing itself; the
unwind visits the frames again.

### GuestOutput

Lines are numbered as they are written and as they arrive. A process has a
buffer; its descriptor 1 is the console or a file in text or binary mode, by
dup2 or by inheritance; it ends by exit, by falling off its main function, by a
crash or by TerminateProcess.

## 3. Bounds and abstractions

Every bound is a constant with the comment "bound". The bounds of the runs:

- threads: two threads with a mutex, an auto-reset event and a semaphore, all
  waits and one timeout; three threads without objects for liveness. Two threads
  are enough for every race the pass has (one visited before, one after the
  release), and the proofs cover any number. The quantum is 2 instructions, a
  millisecond 2: a deadline can fall before, at and after the end of a slice.
- saved state: two threads of two steps each, a page of the guest's own and one
  of a file: each kind of page and of wait, in both roles (running or not).
- locks: three threads, so that two readers meet a writer and a release has two
  candidates; recursion to two.
- spawns: four processes and two loops, so that a third process runs while a
  spawn is awaited; three and three loops for the nested spawn.
- Linux threads: four, of which three contend for one word: a wake-up may go to
  one of two sleepers. Both widths.
- processes: three, so that a child's child outlives its parent and a parent
  has two children to choose from; two with a pipe, of which both may hold
  both ends.
- memory: three pages of which two share a slot of the caches, four host frames,
  ranges of one and two pages that overlap, two values. A span can cover a page
  that was mapped singly, and go with a page it shares.
- code cache: two pages that collide in every cache, two blocks, nested runs
  two deep, an arena of one block and a reclamation threshold of 2: every
  limit of the code is reached.
- translator: operands of four bits (zero, one and the ends of the signed and the
  unsigned range), at which sign, carry, overflow and parity
  are independent and a shift count can be below, at and above the width; the
  definitions take any width. Blocks of three instructions (48 in the code) in
  programs of two to four, so that a block has an instruction before and after
  the one in question and a block may follow another. Straight programs whose
  jumps skip one instruction: a flag read after the jump is a flag read in the
  next block, whichever block that is. The twelve kinds in `Core` are every way
  an instruction can treat flags (computes all, compares, keeps the carry, keeps
  all if the count is zero, reads, none) with a destination in a register or
  memory, native or interpreted; all functions and conditions meet in the pairs.
  AF is left out. `LeaveAnywhere = FALSE` keeps out exactly the situation of
  finding 3, which is checked in `translator_leave` alone. Shifts are written the
  same way in the interpreter and in the translator's op (`cpu.cpp:384`,
  `ops_x86.cpp:285`) and are one definition here, so `RunsAsInterpreted` cannot
  tell them apart; `IntegerExact` holds that definition, flags included, against
  arithmetic for every count up to twice the width.
- instructions: integer operands of four bits with halves of two (all pairs),
  registers of eight one-bit bytes (six contents, every value written), packed registers of the real sixteen bytes,
  each of two bits, filled with vectors in which every lane differs and with the
  extremes; AES with real bytes on the two examples of FIPS-197; an x87 stack of
  three, two in use, over the integers modulo three; the VIEW leaves out what
  remains in a register that has been popped, which nothing reads again.
- files: one file of at most two bytes under either of two names, six spellings
  of open, parent and child, one stream, descriptors 1 and 3. One stream keeps
  two writers of one file apart (each with its own buffer, which C leaves to the
  host); `Crossing = FALSE` keeps out reading through one descriptor what was
  written through its duplicate, which the per-descriptor flag misses (section 5).
- pages: a window of three pages, a break of one, sizes 1 and 2, granule 2, one
  page the guest may name, with a gap page between it and the window. Any range
  can be split, given back in halves or together with its neighbour.
- address space: images of 1 and 32 MB, requests from one unit to twelve
  gigabytes, three libraries and three requests; `Kinds` leaves out win32 and
  pie32, where areas do meet (section 5).
- start of programs: vectors of up to two strings, two execs; three executables
  (a segment whose memory is longer than its data, a file shorter than a page's
  worth, one with an interpreter). Windows arguments of up to three characters
  of four classes: a run of backslashes before a quote, a space, the end.
- modules: three libraries needing each other in a circle, or two needing what
  the executable asked for first; two threads, one handler.
- frames: seven functions with every kind of unwind operation, fragments on both
  sides of their parent, three calls deep, on a stack with room for three of the
  largest frames. Exceptions: stacks of three frames
  with up to two `__try` blocks each, the emulator's loops two deep;
  two states that differ only in what no step reads count as one (`View`).
- output: a parent and a child of two lines each, two lines filling the buffer.

The deadlock check is off where guests' programs end or most states are samples
(the cfg says which); `threads_live` and the two process runs have it on,
and where the program ends there the module has an action that says so.

## 4. Runs

| run | shows |
|---|---|
| `threads` | `GrantsConserved` the books balance: what was granted and not given back is what a semaphore's count is short of and a mutex's recursion says (who holds the mutex is another matter: finding 1); `WaitsAreSound` a thread the pass left blocked could not have been woken, and one that woke has nothing of its wait left; `DeadlockIsReal`; `ContextIntegrity` no thread resumes with another's context or without its result; `JoinSound`; `ResumedIsSaved` a machine that is resumed from a whole file is the one that was saved, thread by thread and page by page |
| `threads_live` | under fairness: `EveryThreadGoesOn` a runnable thread runs, a timer fires; `JoinCompletes` |
| `waits` | `LocksImplementRwLock` (refinement); `BooksAreTrue` the words and the list of sleepers say who holds and who sleeps; `FreeLockIsTaken`; `WhatIsToldIsSo` `_wspawnv` and GetExitCodeProcess tell the child's own code, or failure only when nothing can move; `WaitsEnd`; `ThreadsAreTold` a Linux call returns its own answer, to its own thread; `JoinsComplete` no futex wake-up is lost to a join |
| `procs_life` | `LivesAsPromised` the table implements ProcessLife (refinement) and reports an end once; `VforkSuspends`; `DeadlockIsReal`; `NobodyIsForgotten` parents hear, everybody runs |
| `procs_pipe` | `PipesEnd` a zombie holds no pipe end, end of file is final; `ReaderSeesEof` a reader is released when the last writer goes, however it goes |
| `memory` | `CachesCohere` no cache leads anywhere but where the page is, and no write goes past an open journal; `VerdictIsExact`; `MemoryIsFlat` (refinement of FlatMemory) |
| `code` | `IntegerExact`, `RegistersCohere`, `PackedAgree`, `X87IsAStack`: instructions compute what they should; `RunsWhatMemoryHolds` no stale instruction is begun; `WhatIsReachedIsCurrent` every translated page is watched, links lead to current code, nothing in use is freed; `RunsAsInterpreted` registers, memory, program counter and flags are the interpreter's |
| `files` | `StreamsAreSound` FileTable implements PosixFiles (refinement), and no FILE is turned from reading to writing, or back, without the seek C asks for |
| `guests` | `FreshIsFresh` no call returns a page somebody has; `AreasApart`; `StartIsRead`, `ChildHears` what a program finds at its start is what was passed; `NothingIsLost` output arrives whole and in order; `WalkFindsCallers`; `ExceptionsFindTheirWay`; `ModulesAreKept` |
| `threads_mutex` | violation: see finding 1 |
| `spawn_nested` | violation: see finding 2 |
| `translator_leave` | violation: see finding 3 |

A mutant is listed for each property of a passing run: a small, plausible change
of a definition (a check left out, a slot not cleared, a wrong one of two
operands) under which TLC finds the property violated.

Fairness. The emulator is one host thread that never waits for anything, so
weak fairness of the whole next-state relation is what running means
(`WF_vars(Next)`). A slice is ended by an instruction count, whatever the guest
does, so its end is weakly fair too (`Preempt`, `EndSlice`). Nothing else is
assumed: no fairness of the guest, of its releases or of its exits. In `waits`
these are stated for each part. `memory`, `code`, `files` and `guests` make no
liveness claim.

## 5. Findings

With a run:

1. `threads_mutex`: the scheduling pass asks `try_acquire` for a blocked thread,
   which takes `current_thread_id()`, the thread that ran last, for the asker
   (`threads.cpp:157`, `:95`). When that one holds the mutex the blocked thread
   is let in beside it; when the mutex is free the wrong owner is recorded. A
   64-bit executable whose second thread waits for a mutex the first holds while
   it sleeps gets past its wait.
2. `spawn_nested`: a `_wspawnv` inside a spawned process schedules the first
   process in the middle of its own hook (`processes.cpp:157`), against
   `processes.h:68`.
3. `translator_leave`: an instruction whose flags are computed at once leaves
   what an earlier block had pending to a CcClear behind it
   (`jit/frontend_x86.cpp:1149`). When its own store hits a page with translated
   code, the block ends before that op, and the next block settles the older
   operation over the newer flags. A program that keeps a counter in its text
   page shows it: `cmp; jmp; sub [counter], 1; je` jumps differently with the
   JIT and without. The verifying mode settles after every block and hides it.

Without a run: a property states what the source says, and the passing runs do
not check it because it does not hold. Adding it to the cfg shows how.

| property | module | what happens |
|---|---|---|
| `AnyWaitLooksAtAll` | GuestThreads | a wait for any of several objects watches the first only (`threads.cpp:438`) |
| `ExitEndsOneThread` | LinuxThreads | exit by the first thread ends the process (`threads.cpp:324`, against `syscalls.cpp:461`) |
| `OwnThreadPointer32` | LinuxThreads | a 32-bit thread's TLS pointer goes to fs, which it does not use (`threads.cpp:302`) |
| `OpenKeepsContents` | FileTable | opening a file for writing without asking for truncation empties it (`files.cpp:203`, against `:221`) |
| `AreasApart` with win32 | AddressSpace | the stack reaches into the executable at 0x400000 (`emulator.cpp:62`); with pie32 the break runs over the interpreter |
| `LibrariesAreFresh` | AddressSpace | a refused module leaves pages behind for the next one |
| `CutIsRefused` | SavedState | a file cut between two sections is resumed without the rest (`state.cpp:494`, against `:71`) |
| `ImportsLive` | Modules | the reverse of the order of loading does not initialise imports first (`modules.cpp:331`) |
| `ExitStops` | Modules | exit in one DllMain lets the others begin (`modules.cpp:331`, against `emulator.cpp:507`) |
| `FinallyRunsOnce` | Unwinding | a 64-bit guest's inner `__finally` is not run, the target's enclosing one twice (`exceptions.cpp:391`) |
| `DismissedResumesRaiser` | Unwinding | EXCEPTION_CONTINUE_EXECUTION resumes in the filter's frame (`exceptions.cpp:404`) |
| `CallbackReturns` | Unwinding | an exception caught inside a callback drops the loop the callback would return to (`emulator.cpp:1619`) |
| `WalkIsHarmless` | FrameWalk | a walk changes the live XMM registers (`exceptions.cpp:171`) |
| `OneCarriageReturn` | GuestOutput | dup2 of a text-mode file onto descriptor 1 translates twice (`emulator.cpp:1031`) |
| `LineSaysArguments` | WindowsStart | the root's command line escapes no quotes (`hooks_win32.cpp:121`) |
| `StatusTellsTop` | X87 | after FXRSTOR the status word keeps the TOP it was saved with (`sse.cpp:1105`), and FNSTSW puts the current one over it (`x87.cpp:251`, `:470`): the guest reads the two ORed. FNSTENV (`:173`) stores the word alone, without the current TOP |
| `FreshIsFresh` with `Placed = {4, 6}` | PageAllocator | an address the guest names inside the window is handed out again (`syscalls.cpp:407`) |

Divergences that the models contain as the code has them, or leave aside:

- waits: a timed-out wait returns success (`threads.cpp:415`); ReleaseMutex
  ignores the owner and ReleaseSemaphore the maximum (`:544`, `:573`);
  SleepConditionVariableSRW in shared mode writes 0 over other readers' shares
  (`:753`, constant `SleepModes`); a hook that blocks inside a nested guest call
  marks its thread blocked while the nested loop goes on executing it
  (`emulator.cpp:499`).
- futexes: timeouts are ignored; a word changed and changed back between two
  passes loses its wake-up; requeue claims success and does nothing.
- processes: an exec of the root process does not release its descriptors
  (`processes.cpp:143`, constant `RootExecs` with a pipe); terminating a process
  that is paused inside a hook destroys its emulator (`:78`, constant
  `Terminators`); fork copies neither gdt_base nor the lists of mappings; the
  children still alive when the root ends lose what they have buffered.
- files: `last_was_write` is a descriptor's while the stream is shared; CRLF is
  collapsed within one read only; what is written stays in the host's buffer
  until a seek, flush or close; ftruncate of a file opened for reading,
  F_DUPFD's minimum, seeks on directories and freopen on a standard stream
  answer otherwise than their systems; load_state breaks the sharing dup made.
- memory: zeros over a whole reserved page are skipped although a span covers it;
  a write over several pages faults after the first ones have been written.
- pages: free_pages says only ranges inside the window are recycled
  (`emulator.cpp:886`) and recycles any below the frontier; one that crosses the
  window's end onto a page placed right behind it puts a range across the end on
  the list, hence the gap page; MapViewOfFile goes on with address 0 when the
  window is full (`hooks_win32c.cpp:1249`); dll_next_base_ follows a library that
  cannot be moved, down or into the heap's window.
- instructions: IDIV r/m64 by a quotient below -2^63 does not trap
  (`cpu.cpp:526`); SAR of 8 and 16 bits by more than the width loses the carry
  (`:400`); CALL r/m pushes before it reads its target; FXRSTOR leaves the TOP
  field of the status word (`sse.cpp:1105`); scalar SSE operands in memory are
  read sixteen bytes wide; ROUNDSS and ROUNDSD ignore the bit that says to use
  MXCSR; F3 0F 12 and 16 are taken for MOVLPS and MOVHPS; a push, call or
  read-modify-write whose store faults has already moved RSP or set the flags
  (`cpu.h:232`).
- exceptions: at most 256 frames; epilogues are not recognised; the frame base
  is read before the frame register is set; a 32-bit registration is popped
  after its handler has run, against the comment (`exceptions.cpp:872`).
- modules: DLL_THREAD_ATTACH is never sent; a handler registered while the list
  runs is not called.
- environment: a passed block's duplicates are kept; a wide block advances by
  the UTF-8 length; `sleeping` of the condition variables is not saved.

## 6. Proofs

Eight modules hold proofs. For each component they prove an inductive invariant,
of which the properties follow; what it has beyond the properties is said below,
because that is the reason they hold. The proofs are laid out alike: the lemmas
say what each kind of step changes, every action of Next is shown to be such a
step, and a step of that kind is shown to keep the invariant. Unless a hypothesis
is named, a theorem rests on the named ASSUMEs of its module only, which type the
constants.

| component, theorems | property | hypothesis |
|---|---|---|
| GuestThreads: `WaitsAlwaysSound`, `FalseDeadlockImpossible`, `ContextsAreKept`, `JoinIsSound`, `GrantsAlwaysBalance` | `WaitsAreSound`, `DeadlockIsReal`, `ContextIntegrity`, `JoinSound`, `GrantsConserved` | |
| SavedState: `GuestComesBack` | `ResumedIsSaved` | the constants' types (`SavedStateAssumption`) |
| GuestLocks: `BooksAreAlwaysTrue` | `BooksAreTrue` | |
| GuestLocks: `WordIsTheHolders`, `HooksImplementLocks` | `WordTellsHolders`, `LocksImplementRwLock` | no sleep in shared mode |
| Processes: `ParentIsSuspended`, `PipesEndInTime`, `SystemImplementsLife` | `VforkSuspends`, `PipesEnd`, `LivesAsPromised` | |
| Processes: `NoFalseDeadlock` | `DeadlockIsReal` | the root keeps its image, or there are no pipes |
| SpawnWait: `DeadlocksAreReal`, `FailuresAreReal` | `DeadlockIsReal`, `FailureIsReal` | |
| SpawnWait: `ToldWhilePausedLive` | `WhatIsToldIsSo` | nobody ends in the middle of a hook |
| SpawnWait: `UndisturbedIsToldTheTruth` | `WhatIsToldIsSo` | one spawn at a time is awaited, spawners are not terminated |
| LinuxThreads: `EveryThreadIsTold` | `ThreadsAreTold` | |
| GuestMemory: `CachesAlwaysCohere`, `VerdictAlwaysExact`, `MemoryIsAlwaysFlat` | `CachesCohere`, `VerdictIsExact`, `MemoryIsFlat` | |
| CodeCache: `OnlyCurrentCodeRuns`, `ReachableIsCurrent` | `RunsWhatMemoryHolds`, `WhatIsReachedIsCurrent` | |
| X87: `RegistersAreTheStack` | `X87IsAStack` | the constants' types (`X87Assumption`) |
| FileTable: `FilesHaveNoBuffers` | `StreamsAreSound` | `SpellingsAsAsked`, `Crossing = FALSE` |
| PageAllocator: `RecyclingIsSound`, `NoPageTwice` | `RecyclableIsUnused`, `FreshIsFresh` | the guest places nothing inside the window |
| Unwinding: `NoHandlerIsSkipped` | `ExceptionsFindTheirWay` | |
| Modules: `ModulesKept` | `ModulesAreKept` | |
| GuestOutput: `OutputIsKept` | `NothingIsLost` | |
| AddressSpace: `AreasStayApart` | `AreasApart` | there is room (`RoomEnough`) |

`TypeCorrect` (or `LocksTypeCorrect`, `SpawnTypeCorrect`, `LinuxTypeCorrect`) of
GuestThreads, GuestLocks, Processes, SpawnWait, LinuxThreads and PageAllocator is
the type invariant. `StateFileDescribes`, `X87StateIsSound`, `FilesStayGood`,
`ChainsAreKept`, `ModulesAreRecorded` and `OutputIsSound` are the inductive
invariants of SavedState, X87, FileTable, Unwinding, Modules and GuestOutput,
types included.

### Threads_proofs: GuestThreads

Any number of threads, objects and timeouts, any quantum.

- `WaitsAlwaysSound` follows from `MissedWakeImpossible` and
  `StaleWaitImpossible`. The invariant that makes the first inductive says that,
  in the pass, what a visited and still blocked thread waits for is unavailable
  and its timer is not due. It survives the visits to later threads because
  acquiring an object never makes one available, which is a lemma about
  try_acquire.
- `FalseDeadlockImpossible` uses the same invariant at the end of the pass, with
  `StaleWaitImpossible` (nothing is blocked on nothing, and nobody who is not
  blocked has a wait or a deadline left).
- `GrantsAlwaysBalance`: `GrantsInv` adds that a handle names what it was
  created as and that nothing of an object that does not exist is granted. The
  grants are counted as the elements of a set, so that one more or one less is a
  fact about cardinality (`HeldMore`, `HeldLess`). It says nothing of who holds:
  two threads can hold one mutex (finding 1) and still its recursion counts both.

### Threads_proofs: SavedState

Any number of threads and pages; every cut of the file. The property speaks of
the guest after a load, and the guest that was saved is gone by then. `SavedInv`
says of each section a waiting file has what the guest held when it was written,
and of the file's own pages that what is not carried can be read again from where
it came. Loading applies the sections one after another: `After[n]`, a recursive
function, is the guest after the first n of them. The order of the sections is
fixed, so the proof unrolls it section by section, each by the one before; it
needs no induction.

### Waits_proofs: GuestLocks

Any number of threads, locks and variables.

- `BooksInv` adds to `BooksAreTrue` that a thread in a sleep's call is listed
  (`Sleepers`: the call is made again with the variable it was made with) and
  that sections have no readers.
- `WordInv` adds to `WordTellsHolders` that nobody asks for an SRW lock it has.
- The hypothesis is needed. A sleep in shared mode writes 0 over the shares of
  the other readers (section 5); a writer is then let in beside them.
- `HooksImplementLocks` maps every step to one of RwLock, or to none: an attempt
  that fails, and a wake-up, change nothing RwLock sees.

### Processes_proofs

Any number of processes, pipes, descriptors and bytes. `ProcInv` is a
conjunction of

- `EntriesInv`, what the entries of the table say of each other (who was told is
  who was reaped; only the root's emulator is not owned);
- `WaitsInv`, what a blocked process waits for: a vfork's parent for its child, as
  long as that has neither a new image nor an end;
- `FilesInv`, what tables and pipes say of each other: a pipe found at its end has
  no writer, a process that has finished has no table;
- `RoundInv`: as long as a round has let nobody run, those it has been past
  still cannot.

The deadlock is real only where each blocked reader's pipe has no writer that
could go on; the table of the image a root replaces is never closed
(`processes.cpp:143`) and is such a writer, hence the hypothesis. The run
`procs_life` has `RootExecs` and no pipes, `procs_pipe` the converse.

`SystemImplementsLife` is proved by cases on what changes in a process: every
action of the System is `Stays`, or one action of ProcessLife.

### Waits_proofs: SpawnWait

Any number of processes and loops. `LoopInv` says how the loops nest
(`LoopsNest`: each leaves out the process the loop below is in the slice of, and
is at the one it gave the slice to) and that whom the loop on top has passed by
without progress cannot move (`PassedIsStuck`). It holds for any depth, and so
do `DeadlocksAreReal` and `FailuresAreReal`. A crash of the root that unwinds
several loops leaves a shorter stack of the same kind (`UnwoundFrames`).

That what is told is so and stays so does not hold for any depth: a nested spawn
gives slices to the outer process (finding 2), which may then end while its own
hook is still on the stack. TLC shows this with three loops, and the same when a
spawner is terminated while it waits.
`ToldWhilePausedLive` takes exactly that out, over behaviours;
`UndisturbedIsToldTheTruth` derives it from the constants the run `waits` has.

### Waits_proofs: LinuxThreads

Any number of workers, guests of either width. `ThreadsAreTold` is not
inductive: that a thread still has its call's number in RAX says nothing of
where it can be, a thread that has been joined could still be the one whose
slice it is, and a worker's word could be zero before it was ever cloned.
`LinuxInv` adds where the first thread and the workers can be and what clone
gave each (`Own`), that a worker's word is zero only when it has finished, that
nobody is joined before all are cloned (`WordsTell`), and that a slice is always
one of a thread that can run (`SliceRuns`). Most steps change only the thread
that runs: `GoesOn(u)` says what they may make of it, and `GoesOnKeeps` that
this keeps the invariant. What is left are `Clone`, which adds a thread, and
`Pick`, which wakes any number of them.

### GuestMemory_proofs

Any pages, frames, values, ranges, and any way pages fall into the slots.

- `CachesCohere` is not inductive: an entry that leads where its page is does not
  say that the page is backed, and a page that is reserved could then be backed
  behind a cache's back. `MemoryInv` adds that a cached page is at a host frame.
- `VerdictIsExact` and `MemoryIsFlat` need besides that no two pages share a
  frame (`Apart`): a write through one would change the other, which the journal
  does not know. `VerifierInv` says, phase by phase, what the journal and the
  verifier's copies hold: with what is journaled put back, memory is what it was
  when the journal was opened.
- For the refinement, memory as FlatMemory sees it is what the pages hold now,
  or, in the middle of a verified block, what they held before it.

### Code_proofs: CodeCache

Any pages, addresses and aliasing, any number of blocks, depth of runs, capacity
of the arena. `CacheInv` is about the tables: what is listed is in force
(`Registered`), every page with a block in force is watched and in no slot of
the write cache (`TranslatedIsWatched`), links lead from and to blocks in force
(`Links`). `FramesInv` is about the runs on the stack: the block of a run has
not been freed, and is in force unless the run is marked stale, which it finds
out before its next instruction. After the store of a block's last instruction
nobody looks; `Unlinked` is why that is safe: what makes a frame stale has also
undone every link by which the block could leave.

### Code_proofs: X87

Any number of registers, any numbers in them. `X87IsAStack` holds of what the
registers hold now; FXRSTOR replaces them by what an earlier FXSAVE wrote.
`X87Inv` therefore says of the live registers and of the saved area alike that
they show a stack (`Shows`), the current one and the one at the time of the save.
A register is Phys(i) = (top + i) modulo their number; the lemmas `PhysIs` and
`PlaceIs` give its inverse, and `PushShows`, `PopShows` and their like say what
each operation does to the stack that is shown.

### Files_proofs

Any number of processes, descriptors, FILEs, files and names, any lengths. The
refinement mapping is `Contents`: what a file holds once the FILE that has bytes
waiting for it is flushed. The argument has four layers.

- One FILE. A call works on a context (disk, FILE, buffer, descriptor, flag), and
  its *view* is the file with the buffer laid over it. Each operation of the C
  library, and each call of the code made of them, either leaves the view as it
  is (`Looks`) or lays the bytes written over it (`Written`): it does not matter
  when the buffer is flushed, because overlays compose (`OverlayTwice`).
- The direction. C forbids a read right after a write, and the other way round.
  `DirectionFits` says what the descriptor's flag knows of the FILE's direction.
  The flag is a descriptor's while the FILE may be shared; only the descriptor
  that wrote knows that the FILE has to be turned. `Crossing = FALSE` keeps out
  the guest for which that is wrong (section 5), and is the hypothesis: a call
  that turns a FILE is made only when no other descriptor depends on its
  direction (`TurnsAlone`).
- All FILEs. `FilesInv` says that a FILE is open exactly while a descriptor refers
  to it, that a file nobody knows of is empty, and that a file that is written is
  open through one FILE, which is the guard `OneWriter` of the model's `Open`.
  Hence one FILE at most has bytes waiting (`OnePending`), and `Contents` is that
  FILE's view (`HoldIs`). Without the guard two FILEs over one file each hold
  back their own bytes, and C leaves to the host which come last.
- The tables. Calls that copy or give up descriptors end in `Adopt`, which flushes
  and closes FILEs nobody refers to and forgets files nobody knows of; this is
  the promise's `Keeps` (`AdoptKeeps`). A load gives each descriptor that comes
  back a FILE of its own, numbered in order; `NumberIs` says that the numbers are
  different and are those of FILEs.

`SpellingsAsAsked` leaves out the flags for which fopen has no mode (the row
`OpenKeepsContents` of section 5): for these the code does not do what is
promised.

### Guests_proofs: PageAllocator

Any layout, sizes and granule, provided that what the guest places itself
(hints, MAP_FIXED, VirtualAlloc at an address) lies beyond the window
(`PlacedBeyond`), without which the property is false (section 5).

`RecyclableIsUnused` is not inductive: a guest could unmap a range that leads
out of the window, and the break could grow into a range that waits to be used
again. `Books` adds what excludes both: nothing is used at the window's end, and
nothing is used or recyclable between the break and the window's start. The
lemmas `BooksExtend`, `BooksRecycle`, `BooksRelease`, `BooksPlace` and
`BooksBreak` say what each way of changing the tables does to `Books`; each
action is then one of them, and `ViewsAreMapped` says that the pages a view
gives back are its own.

### Guests_proofs: Unwinding

Any depth of frames, calls, callbacks and blocks, both widths. `UnwindInv` adds
to the property that a frame inside `__try` blocks is registered, where a search
and an unwinding can be, that all the search has been past has declined
(`SearchIsComplete`), and that of the frames of a 32-bit guest just those that
have been unwound have run their `__finally` blocks (`RunsAreCounted`). The chain
names the innermost registered frame except during an unwinding, when it names
the one the unwinding has come to. That an inner registration exists is a least
counterexample (`GreatestExists`), not an induction.

### Guests_proofs: Modules

Any libraries, import graphs, handlers and threads (`ModulesAssumption` types
them). `HandlersInv`: a function registered for the end is in one place, in a
list, in a list that has been taken and is being called, or among the calls
begun. `TlsInv`: a slot that was given is its module's alone and every thread has
its block; and nothing on the call stack leads to running a module's code before
its slot has been set up (`WorkIsPrepared`), which is what the order of the calls
in load_library has to achieve while initialisers load more libraries.

### Guests_proofs: GuestOutput

Any number of processes and any size of the buffer. What is on its way of a
process is what has arrived followed by its buffer. `OutputInv` adds that the
buffer has lines of one way out only (text) and is empty where nothing is
buffered: a line that goes past the buffer then overtakes lines of another way
out only, and the order within each is kept (`PutIn`).

### AddressSpace_proofs

Any number of libraries and requests of any size for which there is room. The
property is false without that: nothing in the code checks it. `RoomEnough` says
how much room the constants of choose_layout leave to each kind of program: the
executable and all libraries together have 256 MB before they reach the heap, a
library without relocations lies beyond the mmap window and as far below the
next such base as libraries can grow, and the emulator's own data, which has no
limit, stays below a 32-bit guest's stack. A DLL without relocations at the
linker's usual 0x180000000 is not covered: that is in the heap's window, 768 MB
from its beginning. win32 and pie32 have no such room
(section 5). The module of the run `guests` assumes the same of its instance.

`SpaceInv` adds to the property where everything is. `WindowsInv`: each frontier
is in its window, and the layout is the one chosen behind the image.
`LibrariesInv`: libraries lie in rows, a row begins behind the executable or at
a base that was asked for, and the row that grows ends at dll_next_base_. That a
base which is asked for again does not begin a second row on top of the first is
the part that is not obvious: only its first page is looked at, and a row is
always begun by a library that has that page (`Begun`). `WindowsApart` and
`RowsOutside` then compare the windows.

### Only model-checked

- Liveness (`EveryThreadGoesOn`, `JoinCompletes`, `FreeLockIsTaken`,
  `WaitsEnd`, `JoinsComplete`, `NobodyIsForgotten`, `ReaderSeesEof`): fairness
  and ENABLED are not within the prover's reach.
- The instructions and translated code (`IntegerExact`, `RegistersCohere`,
  `PackedAgree`, `RunsAsInterpreted`), and what a program finds when it starts
  (`StartIsRead`, `ChildHears`): they compare what recursive definitions compute
  over data, which TLC goes through.
- `WalkFindsCallers`: the walk's search of the function table and of its chains
  is a recursion over the table.

## 7. Plan

Proofs: none is open of what the runs check and the prover can reach.

Models, if the code's next changes call for them: processes of several threads;
fork and reset of the engine; the native and wasm back ends' own bookkeeping;
heap_alloc and its free list; find handles.

## 8. Not modelled

- Instruction selection and encoding of the back ends: bytes, not control; what
  a block must do is stated over the ops they implement.
- The several hundred library hooks, printf, scanf and digests: each is a
  computation over its arguments, and the repository tests them one by one.
  Those that change a part above are modelled with it.
- Floating-point arithmetic: the host's own operators.
- File formats (PE, ELF), relocations, opcode decoding, paths: data.
- Time, signals, identity and similar system calls: they answer from constants.

A run is spent on a question, so components that answer the same question share
one.
