------------------------------ MODULE MCGuests ------------------------------
(* A guest program's surroundings for TLC: the pages it is given, the areas  *)
(* of its address space, what it is started with, its libraries, the frames  *)
(* on its stack and the exceptions that cross them, and what it writes.  The *)
(* components share no state: a run is of the part chosen at its start, the  *)
(* others stay as they began, and only the part's own state tells two states *)
(* apart (View).                                                             *)
EXTENDS PageAllocator, AddressSpace, GuestOutput, Unwinding, Modules

CONSTANT Explored       \* the parts that are run

VARIABLE part

-----------------------------------------------------------------------------
(* Programs of Linux: two with no argument but what a vector of two says, a  *)
(* segment whose data is shorter than its memory, an interpreter.            *)
VARIABLES file, start, passed, environ, execs
elfVars == <<file, start, passed, environ, execs>>

Str(key, value, size) == [key |-> key, value |-> value, size |-> size]
Seg(offset, vaddr, filesz, memsz) ==
    [offset |-> offset, vaddr |-> vaddr, filesz |-> filesz, memsz |-> memsz]

StaticElf(size, segments) ==
    [width |-> 64, bias |-> 0, phoff |-> 2, size |-> size, entry |-> 101, dynamic |-> FALSE,
     interpBase |-> 0, segments |-> segments]
DynamicElf ==
    [width |-> 32, bias |-> 500, phoff |-> 4, size |-> 9, entry |-> 3, dynamic |-> TRUE,
     interpBase |-> 700, segments |-> <<Seg(0, 0, 3, 3), Seg(3, 4, 4, 6)>>]
Executables ==
    {StaticElf(9, <<Seg(0, 100, 6, 6), Seg(6, 108, 3, 8)>>), StaticElf(3, <<Seg(0, 100, 6, 6)>>), DynamicElf}

ElfStart == INSTANCE ProgramStart WITH
    Strings <- {Str("A", "1", 3), Str("B", "none", 1), Str("", "x", 6)},
    Path <- Str("/bin/sh", "none", 7), RootPath <- Str("PATH", "/usr/bin", 13),
    Files <- Executables, MaxVector <- 2, MaxExecs <- 2

-----------------------------------------------------------------------------
(* Programs of Windows: one argument of up to three characters, or two, of   *)
(* up to two and of up to one.                                               *)
VARIABLES peBits, args, raw, env, teb, meant, starts, changes
peVars == <<peBits, args, raw, env, teb, meant, starts, changes>>

Chars == {"a", " ", "\"", "\\"}
UpTo(n) == UNION {[1 .. k -> Chars] : k \in 0 .. n}
Name == <<"a">>
ArgVectors == {<<Name>>} \cup {<<Name, a>> : a \in UpTo(3)}
              \cup {<<Name, a, b>> : a \in UpTo(2), b \in UpTo(1)}

PeStart == INSTANCE WindowsStart WITH
    Vectors <- ArgVectors, RootVectors <- {<<Name>>}, Names <- {"A", "PATH"}, Values <- {"1", "2"},
    MaxStarts <- 1, MaxChanges <- 2, bits <- peBits
-----------------------------------------------------------------------------
(* Calls and frames: a function without a frame, one that allocates, one     *)
(* with a frame register, one split into fragments on both sides, and a leaf.*)
VARIABLES pc, rsp, reg, stack, callers
walkVars == <<pc, rsp, reg, stack, callers>>

Code(op, offset, register, n) == [op |-> op, at |-> offset, reg |-> register, n |-> n]
Function(begin, end, size, codes, frame, offset, chain) ==
    [begin |-> begin, end |-> end, size |-> size, codes |-> codes, frame |-> frame,
     offset |-> offset, chain |-> chain]
Directory == <<
    Function(5, 8, 1, <<Code("save", 1, "rbx", 1)>>, "none", 0, 5),
    Function(10, 12, 0, <<>>, "none", 0, 0),
    Function(20, 24, 2, <<Code("alloc", 2, "none", 2), Code("push", 1, "rbx", 0)>>, "none", 0, 0),
    Function(30, 36, 4, <<Code("save", 4, "xmm6", 0), Code("setfp", 3, "none", 0),
                          Code("alloc", 2, "none", 2), Code("push", 1, "rbp", 0)>>, "rbp", 1, 0),
    Function(40, 44, 2, <<Code("alloc", 2, "none", 2), Code("push", 1, "rbp", 0)>>, "none", 0, 0),
    Function(50, 53, 1, <<Code("save", 1, "rbx", 1)>>, "none", 0, 5),
    Function(70, 73, 1, <<Code("save", 1, "rbx", 1)>>, "rbp", 1, 4) >>

Frames == INSTANCE FrameWalk WITH
    Table <- Directory, Leaves <- {60}, Entries <- 2 .. 5, Top <- 13, MaxDepth <- 3

-----------------------------------------------------------------------------
(* Modules: three libraries that need each other in a circle, or of which    *)
(* two need what the executable has already asked for.                       *)
Graph(exe, x, y, z) ==
    [m \in {"exe", "x", "y", "z"} |-> CASE m = "exe" -> exe [] m = "x" -> x [] m = "y" -> y [] OTHER -> z]

MCGraphs == {Graph(<<>>, <<"y">>, <<"z">>, <<"x">>), Graph(<<"x">>, <<>>, <<"x">>, <<"y", "x">>)}

\* What is loaded fits: the hypothesis under which AreasApart is proved.
ASSUME RoomEnough

-----------------------------------------------------------------------------
GuestsInit ==
    /\ part \in Explored
    /\ Init /\ SpaceInit /\ ElfStart!Init /\ PeStart!Init /\ OutputInit
    /\ Frames!Init /\ UnwindInit /\ ModulesInit

OthersRest(than) ==
    /\ UNCHANGED part
    /\ than # "pages" => UNCHANGED vars
    /\ than # "space" => UNCHANGED spaceVars
    /\ than # "elf" => UNCHANGED elfVars
    /\ than # "pe" => UNCHANGED peVars
    /\ than # "output" => UNCHANGED outVars
    /\ than # "frames" => UNCHANGED walkVars
    /\ than # "unwinding" => UNCHANGED unwindVars
    /\ than # "modules" => UNCHANGED moduleVars

GuestsNext ==
    \/ part = "pages" /\ Next /\ OthersRest("pages")
    \/ part = "space" /\ SpaceNext /\ OthersRest("space")
    \/ part = "elf" /\ ElfStart!Next /\ OthersRest("elf")
    \/ part = "pe" /\ PeStart!Next /\ OthersRest("pe")
    \/ part = "output" /\ OutputNext /\ OthersRest("output")
    \/ part = "frames" /\ Frames!Next /\ OthersRest("frames")
    \/ part = "unwinding" /\ UnwindNext /\ OthersRest("unwinding")
    \/ part = "modules" /\ ModulesNext /\ OthersRest("modules")

GuestsSpec ==
    GuestsInit /\ [][GuestsNext]_<<part, vars, spaceVars, elfVars, peVars, outVars,
                                walkVars, unwindVars, moduleVars>>

\* No step of an exception reads how often blocks have been run, nor where the
\* last dismissed one resumed; the property reads the former, of 32-bit guests.
UnwindingView ==
  <<bits, frames, head, loops, pass, at, scope, goal, origin, asked, ended, IF bits = 32 THEN runs ELSE {}>>

View == << part, CASE part = "pages" -> vars [] part = "space" -> spaceVars
                   [] part = "elf" -> elfVars [] part = "pe" -> peVars
                   [] part = "output" -> outVars [] part = "frames" -> walkVars
                   [] part = "unwinding" -> UnwindingView [] part = "modules" -> moduleVars >>

-----------------------------------------------------------------------------
(* FreshIsFresh, AreasApart, NothingIsLost, ExceptionsFindTheirWay and        *)
(* ModulesAreKept are of the modules extended.                                *)

(* A Linux program reads from its stack what its caller passed: ProgramStart.*)
StartIsRead == part = "elf" => ElfStart!StartIsRead

(* A Windows program hears the arguments and the environment its parent      *)
(* meant: WindowsStart.                                                      *)
ChildHears == part = "pe" => PeStart!ChildHears

(* The walk finds each caller with its registers: FrameWalk.                   *)
WalkFindsCallers == part = "frames" => Frames!WalkFindsCallers
=============================================================================
