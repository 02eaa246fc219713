---------------------------- MODULE ProgramStart ----------------------------
(***************************************************************************)
(* What a Linux program finds when it starts: load_elf() puts the segments  *)
(* of its file in memory, setup_linux_stack() writes the words and strings  *)
(* the System V ABI promises, and the C library of the new program reads    *)
(* them back with nothing but the stack pointer to go by.  The program then *)
(* changes its environment and calls execve(), whose handler reads both     *)
(* vectors out of guest memory, and the next image is started from them.    *)
(*                                                                         *)
(* A string is a record of what stands before its first '=' (key), what     *)
(* follows it (value, NoValue without a '=') and its size in bytes.  The    *)
(* stack is a sequence of writes [at, size, what]; addresses are in bytes   *)
(* below StackTop.                                                          *)
(***************************************************************************)
EXTENDS Integers, Sequences, SequencesExt, FiniteSets, FiniteSetsExt

CONSTANTS
  Strings,     \* the strings a program passes on
  Path,        \* the program's name, and
  RootPath,    \* the PATH a root process is given
  Files,       \* the executables: their width and bias, the place of their
               \* headers, their segments, whether they name an interpreter
  MaxVector,   \* bound: entries of a vector
  MaxExecs     \* bound: calls of execve

NoValue == "none"
StackTop == 4096          \* stack_top_ - 0x1000
PointerSize(file) == file.width \div 8

VARIABLES
  file,     \* the executable that is running
  start,    \* what it read from its stack when it started
  passed,   \* the argv and environment the caller passed (ghost)
  environ,  \* the running program's environment, as its C library keeps it
  execs     \* calls of execve so far (bounded)

vars == <<file, start, passed, environ, execs>>

-----------------------------------------------------------------------------
(***************************************************************************)
(* load_elf()                                                               *)
(***************************************************************************)
Segment(f, i) == LET s == f.segments[i]
                 IN [s EXCEPT !.vaddr = @ + f.bias]

(* the program headers are inside the segment that holds them in the file;  *)
(* the last such segment wins, and 0 says there is none                     *)
HoldsHeaders(f, s) == f.phoff >= s.offset /\ f.phoff < s.offset + s.filesz

PhdrAddr(f) ==
  LET holders == {i \in DOMAIN f.segments : HoldsHeaders(f, Segment(f, i))}
  IN IF holders = {} THEN 0
     ELSE LET s == Segment(f, Max(holders)) IN s.vaddr + (f.phoff - s.offset)

(* what a byte of memory holds after the load: the file's byte at some      *)
(* offset, 0 beyond a segment's filesz, or nothing                          *)
Unmapped == -2
Zero == -1
LoadedByte(f, addr) ==
  FoldLeft(LAMBDA b, i :
             LET s == Segment(f, i) at == addr - s.vaddr
             IN IF at < 0 \/ at >= s.memsz THEN b
                ELSE IF at < s.filesz THEN s.offset + at
                ELSE IF b = Unmapped THEN Zero ELSE b,
           Unmapped, [i \in 1 .. Len(f.segments) |-> i])

(* "PT_LOAD extends past end of file" and "no PT_LOAD segments"             *)
Loads(f) == /\ f.segments # <<>>
            /\ \A i \in DOMAIN f.segments :
                 f.segments[i].offset + f.segments[i].filesz <= f.size

-----------------------------------------------------------------------------
(***************************************************************************)
(* setup_linux_stack(): strings downwards from the top, then the table of   *)
(* words below them, aligned and written upwards.                           *)
(***************************************************************************)

(* push_bytes(): the string and its terminator; keeps the pointer *)
PushString(b, s) ==
  [writes |-> Append(b.writes, [at |-> b.sp - (s.size + 1), size |-> s.size + 1,
                                what |-> <<"string", s>>]),
   sp |-> b.sp - (s.size + 1)]

PushAll(b, strings) == FoldLeft(PushString, b, strings)

(* the pointers of the last n strings pushed, in the order of pushing *)
Pointers(b, n) == LET from == Len(b.writes) - n
                  IN [i \in 1 .. n |-> b.writes[from + i].at]

AT_PHDR == 3    AT_PHENT == 4    AT_PHNUM == 5    AT_PAGESZ == 6    AT_BASE == 7
AT_ENTRY == 9   AT_SECURE == 23  AT_RANDOM == 25  AT_NULL == 0

(* the user's and groups' numbers are 11 to 14, all of them 0 *)
AuxV(f, random) ==
  <<<<AT_PAGESZ, 4096>>, <<AT_PHDR, PhdrAddr(f)>>,
    <<AT_PHENT, IF f.width = 64 THEN 56 ELSE 32>>, <<AT_PHNUM, Len(f.segments)>>,
    <<AT_ENTRY, f.entry + f.bias>>, <<11, 0>>, <<12, 0>>, <<13, 0>>, <<14, 0>>,
    <<AT_RANDOM, random>>, <<AT_SECURE, 0>>>>
  \o (IF f.dynamic THEN <<<<AT_BASE, f.interpBase>>>> ELSE <<>>)
  \o <<<<AT_NULL, 0>>>>

Words(aux) == FoldLeft(LAMBDA w, a : w \o <<a[1], a[2]>>, <<>>, aux)

Slots(args, env, aux) == 1 + Len(args) + 1 + Len(env) + 1 + 2 * Len(aux)

SetupLinuxStack(f, args, env) ==
  LET ps      == PointerSize(f)
      argued  == PushAll([writes |-> <<>>, sp |-> StackTop], args)
      full    == PushAll(argued, env)
      random  == full.sp - 16
      strings == Append(full.writes, [at |-> random, size |-> 16,
                                      what |-> <<"random", 16>>])
      aux     == AuxV(f, random)
      below   == random - ps * Slots(args, env, aux)
      entry   == below - (below % 16)
      words   == <<Len(args)>> \o Pointers(argued, Len(args)) \o <<0>>
                 \o Pointers(full, Len(env)) \o <<0>> \o Words(aux)
  IN [sp |-> entry,
      stack |-> strings \o [i \in 1 .. Len(words) |->
                              [at |-> entry + (i - 1) * ps, size |-> ps,
                               what |-> <<"word", words[i]>>]]]

-----------------------------------------------------------------------------
(***************************************************************************)
(* What the new program reads.  A read finds a write when that is the last  *)
(* one that touches its bytes.                                              *)
(***************************************************************************)
Garbage == <<"garbage", 0>>

Read(stack, at) ==
  LET touching == {i \in DOMAIN stack : /\ stack[i].at <= at
                                        /\ at < stack[i].at + stack[i].size}
      w    == stack[Max(touching)]
      over == {i \in DOMAIN stack : /\ i > Max(touching)
                                    /\ stack[i].at < w.at + w.size
                                    /\ w.at < stack[i].at + stack[i].size}
  IN IF touching = {} THEN Garbage
     ELSE IF over # {} \/ w.at # at THEN Garbage ELSE w.what

(* the places of the stack as words, from the stack pointer on; what is no  *)
(* word reads as -1                                                         *)
Word(f, made, i) == LET r == Read(made.stack, made.sp + (i - 1) * PointerSize(f))
                    IN IF r[1] = "word" THEN r[2] ELSE -1
WordsAt(f, made) ==
  LET n == Len(made.stack) IN SubSeq([i \in 1 .. n |-> Word(f, made, i)], 1, n)

(* the place of the first 0 at or after place i, or the last place          *)
EndOfVector(words, i) ==
  Min({j \in i .. Len(words) : words[j] = 0} \union {Len(words)})

ReadStrings(stack, pointers) ==
  [i \in DOMAIN pointers |-> Read(stack, pointers[i])[2]]

(* argc, argv, the environment and the auxiliary vector, as far as its end  *)
ReadStart(f, made) ==
  LET words  == WordsAt(f, made)
      argEnd == EndOfVector(words, 2)
      envEnd == EndOfVector(words, argEnd + 1)
      keys   == {i \in envEnd + 1 .. Len(words) : (i - envEnd) % 2 = 1}
      auxEnd == Min({i \in keys : words[i] = AT_NULL} \union {Len(words)})
      aux    == {<<words[i], words[i + 1]>> : i \in {k \in keys : k < auxEnd}}
  IN [sp     |-> made.sp,
      argc   |-> words[1],
      args   |-> ReadStrings(made.stack, SubSeq(words, 2, argEnd - 1)),
      env    |-> ReadStrings(made.stack, SubSeq(words, argEnd + 1, envEnd - 1)),
      aux    |-> aux,
      random |-> {Read(made.stack, a[2])[1] : a \in {e \in aux : e[1] = AT_RANDOM}}]

-----------------------------------------------------------------------------
(***************************************************************************)
(* The vectors of a call of execve: a null pointer, or some strings.        *)
(***************************************************************************)
(* an entry without a '=' passed on like the others: a mutant *)
ParseEnv_KeepsAll(vector) == vector

(* the handler keeps the entries that have a name and a value               *)
ParseEnv(vector) == SelectSeq(vector, LAMBDA s : s.key # "" /\ s.value # NoValue)

ParseArgv(vector) == IF vector = <<>> THEN <<Path>> ELSE vector

Started(f, args, env) == ReadStart(f, SetupLinuxStack(f, args, env))

(* The root process: the arguments of the command line, and PATH alone.     *)
Init ==
  /\ execs = 0
  /\ file \in {f \in Files : Loads(f)}
  /\ \E args \in BoundedSeq(Strings, 1) :
       /\ passed = [args |-> <<Path>> \o args, env |-> <<RootPath>>]
       /\ start = Started(file, passed.args, passed.env)
  /\ environ = start.env

(* The program puts a string in its environment, or takes the last out      *)
PutEnv ==
  /\ \/ \E s \in Strings : Len(environ) < MaxVector /\ environ' = Append(environ, s)
     \/ environ # <<>> /\ environ' = Front(environ)
  /\ UNCHANGED <<file, start, passed, execs>>

(***************************************************************************)
(* execve() and do_exec(): a fresh emulator is given the parsed vectors and *)
(* loads the file; if that fails the old image goes on.                     *)
(***************************************************************************)
Execve ==
  /\ execs < MaxExecs
  /\ execs' = execs + 1
  /\ \E f \in Files, args \in BoundedSeq(Strings, MaxVector - 1) :
       IF Loads(f)
       THEN /\ file' = f
            /\ start' = Started(f, ParseArgv(args), ParseEnv(environ))
            /\ passed' = [args |-> args, env |-> environ]
            /\ environ' = start'.env
       ELSE UNCHANGED <<file, start, passed, environ>>

Next == PutEnv \/ Execve

Spec == Init /\ [][Next]_vars

-----------------------------------------------------------------------------
(***************************************************************************)
(* A program reads, from its stack pointer on, the arguments its caller     *)
(* passed (its own name for none), those strings of the environment that    *)
(* have a name and a value, in order, and an auxiliary vector that ends,     *)
(* whose AT_PHDR is where the headers of its file lie and whose AT_ENTRY is  *)
(* in its image; the stack is aligned to 16 bytes (emulator.cpp:1344).       *)
(***************************************************************************)
StartIsRead ==
  /\ start.sp % 16 = 0
  /\ start.argc = Len(start.args)
  /\ start.args = IF passed.args = <<>> THEN <<Path>> ELSE passed.args
  /\ start.env = SelectSeq(passed.env, LAMBDA s : s.key # "" /\ s.value # NoValue)
  /\ start.random = {"random"}
  /\ {<<AT_PAGESZ, 4096>>, <<AT_ENTRY, file.entry + file.bias>>} \subseteq start.aux
  /\ \A a \in start.aux :
       /\ a[1] = AT_PHDR /\ a[2] # 0 => LoadedByte(file, a[2]) = file.phoff
       /\ a[1] = AT_BASE => file.dynamic /\ a[2] = file.interpBase
=============================================================================
